------------------------------ MODULE Settings ------------------------------
(***************************************************************************)
(* Setting groups: one row per field, all under the version of the group.  *)
(*                                                                         *)
(* A writer takes the advisory lock of the group and the locks of its rows *)
(* before it reads them, so a command is one step.  An editor reads the    *)
(* group in one request and sends its changes in a later one; the form it  *)
(* works from shows every field but the sensitive one.                     *)
(***************************************************************************)
EXTENDS Naturals

CONSTANTS
    SettingGroups,
    Shown,             \* values of the ordinary field; DefaultShown is one
    DefaultShown,
    Editing,           \* editors with a form open
    MaxSettingVersion, \* bound: writes of a group
    MaxDeployments     \* bound: releases that change a group's schema

ASSUME SettingsAssumption ==
    /\ DefaultShown \in Shown
    /\ MaxSettingVersion \in Nat /\ MaxDeployments \in Nat

VARIABLES
    group,       \* the rows of each group
    registered,  \* the schema version the code registers for each group
    form         \* what each editor last read of each group

settingsVars == <<group, registered, form>>

\* Version 0 is a group without rows: its values are the defaults.
NoRows == [version |-> 0, schema |-> 0, shown |-> DefaultShown, secret |-> FALSE]
GroupRows == [version : 0..MaxSettingVersion, schema : 0..MaxDeployments,
              shown : Shown, secret : BOOLEAN]
Forms == [version : 0..MaxSettingVersion, shown : Shown]

SettingsTypeOK ==
    /\ group \in [SettingGroups -> GroupRows]
    /\ registered \in [SettingGroups -> 0..MaxDeployments]
    /\ form \in [Editing -> [SettingGroups -> Forms]]

FormOf(row) == [version |-> row.version, shown |-> row.shown]

SettingsInit ==
    /\ group = [g \in SettingGroups |-> NoRows]
    /\ registered = [g \in SettingGroups |-> 0]
    /\ form = [e \in Editing |-> [g \in SettingGroups |-> FormOf(NoRows)]]

(* _check_rows: rows of another schema version are refused, to readers     *)
(* and to writers.                                                         *)
RowsMatchSchema(g) == group[g].version > 0 => group[g].schema = registered[g]

GetGroup(e, g) ==
    /\ RowsMatchSchema(g)
    /\ form' = [form EXCEPT ![e][g] = FormOf(group[g])]
    /\ UNCHANGED <<group, registered>>

NextVersion(g) ==
    /\ RowsMatchSchema(g)
    /\ group[g].version < MaxSettingVersion

(* Every field is written: what a request sends or clears, over the values *)
(* the group has.  The secret can only be set, cleared or left out.        *)
Merged(g, sent, secret) ==
    [version |-> group[g].version + 1,
     schema |-> registered[g],
     shown |-> IF sent = "left out" THEN group[g].shown ELSE sent,
     secret |-> IF secret = "left out" THEN group[g].secret ELSE secret = "set"]

UpdateSettingGroup(e, g, sent, secret) ==
    /\ NextVersion(g)
    /\ form[e][g].version = group[g].version
    /\ group' = [group EXCEPT ![g] = Merged(g, sent, secret)]
    /\ UNCHANGED <<registered, form>>

(* A mutant of ResetSettingGroup: the defaults come back as version 1.     *)
ResetToFirstVersion(g) ==
    /\ NextVersion(g)
    /\ group' = [group EXCEPT ![g] = [version |-> 1, schema |-> registered[g],
                                      shown |-> DefaultShown, secret |-> FALSE]]
    /\ UNCHANGED <<registered, form>>

ResetSettingGroup(g) ==
    /\ NextVersion(g)
    /\ group' = [group EXCEPT ![g] = [version |-> group[g].version + 1,
                                      schema |-> registered[g],
                                      shown |-> DefaultShown, secret |-> FALSE]]
    /\ UNCHANGED <<registered, form>>

(* A release registers the group with another schema version.              *)
DeploySchema(g) ==
    /\ registered[g] < MaxDeployments
    /\ registered' = [registered EXCEPT ![g] = @ + 1]
    /\ UNCHANGED <<group, form>>

SettingsNext ==
    \/ \E e \in Editing, g \in SettingGroups : GetGroup(e, g)
    \/ \E e \in Editing, g \in SettingGroups, sent \in Shown \union {"left out"},
         secret \in {"set", "cleared", "left out"} : UpdateSettingGroup(e, g, sent, secret)
    \/ \E g \in SettingGroups : ResetSettingGroup(g) \/ DeploySchema(g)

SettingsSpec == SettingsInit /\ [][SettingsNext]_settingsVars

(***************************************************************************)
(* Properties.                                                             *)
(***************************************************************************)

(* An accepted update was made from a form that shows what the group holds *)
(* at that moment: no editor writes over a change or a reset it never saw. *)
NoBlindOverwrite ==
    [][\A e \in Editing, g \in SettingGroups :
         form[e][g].shown # group[g].shown
           => \A sent \in Shown \union {"left out"}, given \in {"set", "cleared", "left out"} :
                ~UpdateSettingGroup(e, g, sent, given)]_settingsVars

=============================================================================
