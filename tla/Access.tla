------------------------------- MODULE Access -------------------------------
(***************************************************************************)
(* The access capability: roles, their capability rows, and the roles of   *)
(* subjects, changed by administrators and by the install command.         *)
(*                                                                         *)
(* A command reads and commits in one transaction under READ COMMITTED:    *)
(* what it read may be old when it writes.  SELECT ... FOR UPDATE on a     *)
(* role keeps out every other such lock and every insert of a row that     *)
(* refers to the role.  One flush inserts rows before it deletes rows, and *)
(* a violated constraint undoes the transaction.                           *)
(***************************************************************************)
EXTENDS Naturals, FiniteSets, Sequences

CONSTANTS
    Subjects,       \* identities that may be given a role
    Permissions,    \* the keys of the permission registry
    UserKeys,       \* the keys of the template of the base role
    Clerks,         \* requests and installs in progress at one time
    MaxAccessCalls  \* bound: commands begun

ASSUME AccessAssumption == UserKeys \subseteq Permissions /\ MaxAccessCalls \in Nat

VARIABLES
    roles,      \* slugs of the access_roles rows
    system,     \* the slugs flagged system
    held,       \* access_role_capabilities: <<role, key>>
    grants,     \* access_subject_roles, with the command that made the row
    clerk,      \* what each request is in the middle of
    accessCalls

accessVars == <<roles, system, held, grants, clerk, accessCalls>>

Slugs == {"administrator", "user", "custom"}
Grants == [subject : Subjects, role : Slugs, by : {"install", "assign", "register"}]

AccessTypeOK ==
    /\ roles \subseteq Slugs /\ system \subseteq roles
    /\ held \subseteq roles \X Permissions
    /\ grants \subseteq Grants
    /\ DOMAIN clerk = Clerks
    /\ accessCalls \in 0..MaxAccessCalls

AccessInit ==
    /\ roles = {} /\ system = {} /\ held = {} /\ grants = {}
    /\ clerk = [h \in Clerks |-> <<"idle">>]
    /\ accessCalls = 0

AccessCall == accessCalls < MaxAccessCalls /\ accessCalls' = accessCalls + 1

ClerkIdle(h) == clerk[h] = <<"idle">>
ClerkIn(h, what) == clerk[h][1] = what
Turns(h, what) == clerk' = [clerk EXCEPT ![h] = what]

KeysOf(r) == {k \in Permissions : <<r, k>> \in held}
HasRole(s, r) == \E g \in grants : g.subject = s /\ g.role = r

(* EnsureBaseRoles holds the lock of the base role from its read on.       *)
RoleLocked(r) == r = "user" /\ \E h \in Clerks : ClerkIn(h, "ensuring") /\ clerk[h][3]

(***************************************************************************)
(* The commands of the admin routes.                                       *)
(***************************************************************************)
CreateRole(r) ==
    /\ AccessCall
    /\ r \notin roles
    /\ roles' = roles \union {r}
    /\ UNCHANGED <<system, held, grants, clerk>>

(* The database deletes the rows that refer to the role.                   *)
DeleteRole(r) ==
    /\ AccessCall
    /\ r \in roles \ system /\ ~RoleLocked(r)
    /\ roles' = roles \ {r}
    /\ held' = {p \in held : p[1] # r}
    /\ grants' = {g \in grants : g.role # r}
    /\ UNCHANGED <<system, clerk>>

ReplaceKeysRead(h, r, keys) ==
    /\ AccessCall
    /\ ClerkIdle(h)
    /\ r \in roles /\ r # "administrator"
    /\ Turns(h, <<"replacing", r, keys, KeysOf(r)>>)
    /\ UNCHANGED <<roles, system, held, grants>>

Replaced(r, keys, seen) == (held \ ({r} \X seen)) \union ({r} \X keys)

(* The new rows are inserted while the old ones are still there, so a set  *)
(* that shares a key with the rows of the moment fails.                    *)
ReplaceRoleCapabilities(h) ==
    /\ ClerkIn(h, "replacing")
    /\ LET r == clerk[h][2]
           keys == clerk[h][3]
       IN /\ keys # {} => r \in roles /\ ~RoleLocked(r) /\ keys \intersect KeysOf(r) = {}
          /\ held' = Replaced(r, keys, clerk[h][4])
    /\ Turns(h, <<"idle">>)
    /\ UNCHANGED <<roles, system, grants, accessCalls>>

(* A constraint refuses the transaction, or the request is lost.           *)
GiveUpAccess(h) ==
    /\ ~ClerkIdle(h)
    /\ Turns(h, <<"idle">>)
    /\ UNCHANGED <<roles, system, held, grants, accessCalls>>

AssignRoleToSubject(s, r) ==
    /\ AccessCall
    /\ r \in roles /\ ~RoleLocked(r) /\ ~HasRole(s, r)
    /\ grants' = grants \union {[subject |-> s, role |-> r, by |-> "assign"]}
    /\ UNCHANGED <<roles, system, held, clerk>>

RevokeRoleFromSubject(s, r) ==
    /\ AccessCall
    /\ HasRole(s, r)
    /\ grants' = {g \in grants : g.subject # s \/ g.role # r}
    /\ UNCHANGED <<roles, system, held, clerk>>

(* AssignDefaultUserRole in the transaction that registers the identity.   *)
AssignDefaultUserRole(s) ==
    /\ AccessCall
    /\ "user" \in roles /\ ~RoleLocked("user") /\ ~HasRole(s, "user")
    /\ grants' = grants \union {[subject |-> s, role |-> "user", by |-> "register"]}
    /\ UNCHANGED <<roles, system, held, clerk>>

(***************************************************************************)
(* The install command: the base roles, then the administrator.            *)
(***************************************************************************)
EnsureReads(h, s) ==
    /\ AccessCall
    /\ ClerkIdle(h) /\ ~RoleLocked("user")
    /\ Turns(h, <<"ensuring", s, "user" \in roles, KeysOf("user")>>)
    /\ UNCHANGED <<roles, system, held, grants>>

(* A role that was missing is inserted; the unique slug lets one in.       *)
EnsureBaseRoles(h) ==
    /\ ClerkIn(h, "ensuring")
    /\ LET s == clerk[h][2]
           found == clerk[h][3]
           seen == clerk[h][4]
       IN /\ ~found => "user" \notin roles
          /\ roles' = roles \union {"user"} /\ system' = system \union {"user"}
          /\ held' = (held \ ({"user"} \X (seen \ UserKeys)))
                       \union ({"user"} \X (UserKeys \ seen))
          /\ Turns(h, <<"ensured", s>>)
    /\ UNCHANGED <<grants, accessCalls>>

(* SELECT ... FOR UPDATE finds no administrator role to lock.              *)
BootstrapFindsNone(h) ==
    /\ ClerkIn(h, "ensured")
    /\ "administrator" \notin roles
    /\ Turns(h, <<"creating", clerk[h][2]>>)
    /\ UNCHANGED <<roles, system, held, grants, accessCalls>>

(* A mutant of OthersHold: the grants found after the lock are not looked at. *)
NobodyElseHolds(s) == FALSE

OthersHold(s) == \E g \in grants : g.role = "administrator" /\ g.subject # s

(* All of it under the lock of the role, or with a role nobody else sees.  *)
BindsAdministrator(h) ==
    LET s == clerk[h][2]
    IN /\ ~OthersHold(s)
       /\ held' = held \union ({"administrator"} \X Permissions)
       /\ grants' = IF HasRole(s, "administrator") THEN grants
                    ELSE grants \union
                           {[subject |-> s, role |-> "administrator", by |-> "install"]}
       /\ Turns(h, <<"idle">>)
       /\ UNCHANGED accessCalls

(* The role is there: found by the first read, or after the insert met it. *)
BootstrapLocks(h) ==
    /\ ClerkIn(h, "ensured") \/ ClerkIn(h, "creating")
    /\ "administrator" \in roles
    /\ BindsAdministrator(h)
    /\ UNCHANGED <<roles, system>>

BootstrapCreates(h) ==
    /\ ClerkIn(h, "creating")
    /\ "administrator" \notin roles
    /\ roles' = roles \union {"administrator"}
    /\ system' = system \union {"administrator"}
    /\ BindsAdministrator(h)

AccessNext ==
    \/ \E r \in Slugs : CreateRole(r) \/ DeleteRole(r)
    \/ \E s \in Subjects, r \in Slugs :
         AssignRoleToSubject(s, r) \/ RevokeRoleFromSubject(s, r)
    \/ \E s \in Subjects : AssignDefaultUserRole(s)
    \/ \E h \in Clerks, r \in Slugs, keys \in SUBSET Permissions : ReplaceKeysRead(h, r, keys)
    \/ \E h \in Clerks, s \in Subjects : EnsureReads(h, s)
    \/ \E h \in Clerks :
         \/ ReplaceRoleCapabilities(h)
         \/ GiveUpAccess(h)
         \/ EnsureBaseRoles(h)
         \/ BootstrapFindsNone(h)
         \/ BootstrapLocks(h)
         \/ BootstrapCreates(h)

AccessSpec == AccessInit /\ [][AccessNext]_accessVars

(***************************************************************************)
(* Properties.                                                             *)
(***************************************************************************)

(* However many installs run at one time, and whatever an administrator    *)
(* assigns or revokes beside them, BootstrapAdministrator never leaves two *)
(* subjects bound to the administrator role.                               *)
InstallBindsOne ==
    Cardinality({g \in grants : g.role = "administrator" /\ g.by = "install"}) <= 1
=============================================================================
