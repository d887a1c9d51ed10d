-------------------------------- MODULE Levels --------------------------------
(***************************************************************************)
(* The membership levels an administrator manages: their rows, and the     *)
(* registry every process fills from them and changes along with them.     *)
(* Commands read what a level is from the registry of their process, and   *)
(* the administrator reads there the version his next edit must expect.    *)
(*                                                                         *)
(* An edit compares the version of the row it read and writes the columns  *)
(* it changes without a condition; the registry follows after the commit.  *)
(***************************************************************************)
EXTENDS Naturals, FiniteSets

CONSTANTS
    LevelKeys,       \* keys of the levels
    Grants,          \* the points of a cycle
    Nodes,           \* processes
    Managers,        \* requests in progress at one time
    MaxLevelCalls    \* bound: requests begun and processes restarted

ASSUME LevelsAssumption == MaxLevelCalls \in Nat

VARIABLES
    levelRows,    \* the membership_levels rows
    registry,     \* the levels each process knows
    managing,     \* what each request is in the middle of
    unsettled,    \* <<n, k>>: since process n started, an edit of level k by
                  \* another process, at the same time as one of its own, or
                  \* one of its own whose end was cut off
    levelCalls

levelsVars == <<levelRows, registry, managing, unsettled, levelCalls>>

Unlisted == [status |-> "none"]
Level(status, grant, version) == [status |-> status, grant |-> grant, version |-> version]
LevelSpecs == [status : {"active", "archived"}, grant : Grants, version : Nat \ {0}]

LevelsTypeOK ==
    /\ levelRows \in [LevelKeys -> LevelSpecs \union {Unlisted}]
    /\ registry \in [Nodes -> [LevelKeys -> LevelSpecs \union {Unlisted}]]
    /\ DOMAIN managing = Managers
    /\ unsettled \subseteq Nodes \X LevelKeys

LevelsInit ==
    /\ levelRows = [k \in LevelKeys |-> Unlisted]
    /\ registry = [n \in Nodes |-> levelRows]
    /\ managing = [m \in Managers |-> [step |-> "idle"]]
    /\ unsettled = {}
    /\ levelCalls = 0

LevelCall == levelCalls < MaxLevelCalls /\ levelCalls' = levelCalls + 1
Manages(m, what) == managing' = [managing EXCEPT ![m] = what]
ManagesNothing(m) == Manages(m, [step |-> "idle"])
Managing(m, step) == managing[m].step = step

(* An edit of level k begins in process n, perhaps beside another.         *)
BeginsEdit(m, n, k, edit) ==
    /\ LevelCall
    /\ Managing(m, "idle")
    /\ Manages(m, edit)
    /\ unsettled' = IF \E o \in Managers :
                        /\ managing[o].step \in {"creating", "created", "updating", "updated"}
                        /\ managing[o].node = n /\ managing[o].key = k
                  THEN unsettled \union {<<n, k>>}
                  ELSE unsettled
    /\ UNCHANGED <<levelRows, registry>>

(* The commit of an edit: the other processes are not told.                *)
CommitsEdit(n, k, row) ==
    /\ levelRows' = [levelRows EXCEPT ![k] = row]
    /\ unsettled' = unsettled \union ((Nodes \ {n}) \X {k})
    /\ UNCHANGED <<registry, levelCalls>>

CreateReads(m, n, k, grant) ==
    /\ registry[n][k] = Unlisted
    /\ BeginsEdit(m, n, k, [step |-> "creating", node |-> n, key |-> k,
                            spec |-> Level("active", grant, 1)])

CreateCommits(m) ==
    /\ Managing(m, "creating")
    /\ LET e == managing[m] IN
       /\ levelRows[e.key] = Unlisted
       /\ CommitsEdit(e.node, e.key, e.spec)
       /\ Manages(m, [e EXCEPT !.step = "created"])

(* register_runtime: a level another request registered meanwhile is left  *)
(* as it is, and the creation is reported as a conflict.                   *)
Registered(known, spec) == IF known = Unlisted THEN spec ELSE known

CreateRegisters(m) ==
    /\ Managing(m, "created")
    /\ LET e == managing[m]
       IN registry' = [registry EXCEPT ![e.node][e.key] = Registered(@, e.spec)]
    /\ ManagesNothing(m)
    /\ UNCHANGED <<levelRows, unsettled, levelCalls>>

(* update_level and set_level_status, by an administrator who expects the  *)
(* version the row has.                                                    *)
UpdateReads(m, n, k, field, value) ==
    /\ levelRows[k] # Unlisted
    /\ BeginsEdit(m, n, k, [step |-> "updating", node |-> n, key |-> k,
                            read |-> levelRows[k], field |-> field, value |-> value])

(* Only the columns that differ from what was read are written.            *)
UpdateCommits(m) ==
    /\ Managing(m, "updating")
    /\ LET e == managing[m]
           row == [levelRows[e.key] EXCEPT !.version = e.read.version + 1]
       IN
       /\ CommitsEdit(e.node, e.key,
                      IF e.value = e.read[e.field] THEN row ELSE [row EXCEPT ![e.field] = e.value])
       /\ Manages(m, [e EXCEPT !.step = "updated"])

SameVersion(spec, field, value) ==  \* mutant of Updated: the version is left behind
    [spec EXCEPT ![field] = value]

(* update_runtime; a process that does not know the level reports an error *)
(* for the edit it has committed.                                          *)
Updated(spec, field, value) == [spec EXCEPT ![field] = value, !.version = @ + 1]

UpdateRegisters(m) ==
    /\ Managing(m, "updated")
    /\ LET e == managing[m]
           known == registry[e.node][e.key]
       IN IF known = Unlisted
          THEN UNCHANGED registry
          ELSE registry' = [registry EXCEPT ![e.node][e.key] = Updated(known, e.field, e.value)]
    /\ ManagesNothing(m)
    /\ UNCHANGED <<levelRows, unsettled, levelCalls>>

(* list_levels registers the active levels its process does not know, and  *)
(* _require_level the one it was asked for.                                *)
LevelsRead(m, n, keys) ==
    /\ LevelCall
    /\ Managing(m, "idle")
    /\ \E k \in keys : levelRows[k] # Unlisted
    /\ Manages(m, [step |-> "listing", node |-> n, keys |-> keys, rows |-> levelRows])
    /\ UNCHANGED <<levelRows, registry, unsettled>>

ListLevels(m, n) ==
    LevelsRead(m, n, {k \in LevelKeys : levelRows[k].status = "active"})
RequireLevel(m, n, k) == registry[n][k] = Unlisted /\ LevelsRead(m, n, {k})

LevelsListed(m) ==
    /\ Managing(m, "listing")
    /\ LET e == managing[m] IN
       registry' = [registry EXCEPT ![e.node] = [k \in LevelKeys |->
                      IF k \in e.keys THEN Registered(@[k], e.rows[k]) ELSE @[k]]]
    /\ ManagesNothing(m)
    /\ UNCHANGED <<levelRows, unsettled, levelCalls>>

(* hydrate_persisted_levels: a process starts again with the rows, and     *)
(* what it was in the middle of is lost.                                   *)
NodeRestarts(n) ==
    /\ LevelCall
    /\ registry' = [registry EXCEPT ![n] = levelRows]
    /\ managing' = [m \in Managers |->
                      IF managing[m].step # "idle" /\ managing[m].node = n
                      THEN [step |-> "idle"] ELSE managing[m]]
    /\ unsettled' = unsettled \ ({n} \X LevelKeys)
    /\ UNCHANGED levelRows

(* A request is refused, fails or is cut off; the answer to a commit may   *)
(* be what is lost.                                                        *)
ManagerGivesUp(m) ==
    /\ ~Managing(m, "idle")
    /\ unsettled' = IF managing[m].step \in {"created", "updated"}
                  THEN unsettled \union {<<managing[m].node, managing[m].key>>}
                  ELSE unsettled
    /\ ManagesNothing(m)
    /\ UNCHANGED <<levelRows, registry, levelCalls>>

LevelsNext ==
    \/ \E m \in Managers, n \in Nodes, k \in LevelKeys :
          \/ \E g \in Grants : CreateReads(m, n, k, g) \/ UpdateReads(m, n, k, "grant", g)
          \/ \E s \in {"active", "archived"} : UpdateReads(m, n, k, "status", s)
          \/ RequireLevel(m, n, k)
    \/ \E m \in Managers, n \in Nodes : ListLevels(m, n)
    \/ \E m \in Managers :
          \/ CreateCommits(m) \/ CreateRegisters(m) \/ UpdateCommits(m)
          \/ UpdateRegisters(m) \/ LevelsListed(m) \/ ManagerGivesUp(m)
    \/ \E n \in Nodes : NodeRestarts(n)

LevelsSpec == LevelsInit /\ [][LevelsNext]_levelsVars

Following(n, k) ==
    \E m \in Managers : /\ managing[m].step \in {"created", "updated"}
                        /\ managing[m].node = n /\ managing[m].key = k

(* A process whose edits of a level neither met another process's nor each *)
(* other knows the level as it is stored, its version too: whatever else   *)
(* listed, required or registered it at the same time, and however often   *)
(* the process restarted (create_level and update_runtime).                *)
KnownAsStored ==
    \A n \in Nodes, k \in LevelKeys :
        <<n, k>> \notin unsettled /\ ~Following(n, k) => registry[n][k] = levelRows[k]
=============================================================================
