----------------------------- MODULE PortalProof -----------------------------
(***************************************************************************)
(* What stands before the site and what a visitor pays with, for every     *)
(* number of requests, rows and processes and without the bounds that TLC  *)
(* needs: the registry of the levels, the adapters of the payment          *)
(* providers, the lists and the sessions of the public site, the replay of *)
(* an account's ledger, and quotes.                                        *)
(***************************************************************************)
EXTENDS Levels, PaymentProviders, Paging, SiteSession, PointsReplay, Quotes, FiniteSums

-----------------------------------------------------------------------------
(* Levels: while a process and a level are settled, at most one edit of it *)
(* is under way in that process.  The registry is what is stored, or what  *)
(* it was before that edit's commit; and what a listing has read is older  *)
(* than the registry or is still stored.                                   *)

Known == LevelSpecs \union {Unlisted}
CreateRows == [step : {"creating", "created"}, node : Nodes, key : LevelKeys, spec : LevelSpecs]
UpdateRows ==
    [step : {"updating", "updated"}, node : Nodes, key : LevelKeys, read : LevelSpecs,
     field : {"grant"}, value : Grants]
    \union
    [step : {"updating", "updated"}, node : Nodes, key : LevelKeys, read : LevelSpecs,
     field : {"status"}, value : {"active", "archived"}]
ListRows ==
    [step : {"listing"}, node : Nodes, keys : SUBSET LevelKeys, rows : [LevelKeys -> Known]]
ManagerTyped(e) ==
    e = [step |-> "idle"] \/ e \in CreateRows \/ e \in UpdateRows \/ e \in ListRows

Edits(e, n, k) ==
    e.step \in {"creating", "created", "updating", "updated"} /\ e.node = n /\ e.key = k
Follows(e, n, k) == e.step \in {"created", "updated"} /\ e.node = n /\ e.key = k

\* What an edit of n and k has read, and what the process knows until it is told.
EditSound(e, known, inTable) ==
    /\ e.step = "created" => inTable = e.spec /\ known \in {Unlisted, e.spec}
    /\ e.step = "updating" => inTable = e.read
    /\ e.step = "updated" => inTable = Updated(e.read, e.field, e.value) /\ known = e.read

ListSound(e, n, k, known, inTable) ==
    e.step = "listing" /\ e.node = n /\ k \in e.keys =>
        known # Unlisted \/ e.rows[k] \in {Unlisted, inTable}

LevelSound(n, k, at, known, inTable) ==
    /\ \A m, o \in Managers : Edits(at[m], n, k) /\ Edits(at[o], n, k) => m = o
    /\ \A m \in Managers : Edits(at[m], n, k) => EditSound(at[m], known, inTable)
    /\ \A m \in Managers : ListSound(at[m], n, k, known, inTable)
    /\ (\A m \in Managers : ~Follows(at[m], n, k)) => known = inTable

LevelsTyped ==
    /\ levelRows \in [LevelKeys -> Known]
    /\ registry \in [Nodes -> [LevelKeys -> Known]]
    /\ managing = [m \in Managers |-> managing[m]]
    /\ \A m \in Managers : ManagerTyped(managing[m])
    /\ \A m \in Managers :
         managing[m].step = "updating" => levelRows[managing[m].key] # Unlisted

LevelsInv ==
    /\ LevelsTyped
    /\ \A n \in Nodes, k \in LevelKeys :
         <<n, k>> \notin unsettled => LevelSound(n, k, managing, registry[n][k], levelRows[k])

LEMMA IdleDoesNothing ==
  \A n, k, known, inTable :
     LET e == [step |-> "idle"]
     IN  ~Edits(e, n, k) /\ ~Follows(e, n, k) /\ ListSound(e, n, k, known, inTable)
BY DEF Edits, Follows, ListSound

LEMMA ManagerMoves ==
  ASSUME LevelsTyped, NEW m \in Managers, NEW new, Manages(m, new), ManagerTyped(new)
  PROVE  /\ managing' = [o \in Managers |-> managing'[o]]
         /\ \A o \in Managers : managing'[o] = IF o = m THEN new ELSE managing[o]
         /\ \A o \in Managers : ManagerTyped(managing'[o])
<1>1. /\ managing' = [o \in Managers |-> managing'[o]]
      /\ \A o \in Managers : managing'[o] = IF o = m THEN new ELSE managing[o]
  BY DEF LevelsTyped, Manages
<1> QED
  BY <1>1 DEF LevelsTyped

\* What is left of a pair's soundness when one request moves on and the
\* registry may now be the row.
LEMMA PairKeeps ==
  ASSUME NEW n, NEW k, NEW at, NEW next, NEW m \in Managers, NEW known, NEW inTable, NEW told,
         LevelSound(n, k, at, known, inTable),
         \A o \in Managers \ {m} : next[o] = at[o],
         Edits(next[m], n, k) => /\ EditSound(next[m], told, inTable)
                                 /\ \A o \in Managers \ {m} : ~Edits(at[o], n, k),
         ListSound(next[m], n, k, told, inTable),
         \/ told = known /\ (Follows(at[m], n, k) => Follows(next[m], n, k))
         \/ /\ told = inTable /\ (known # Unlisted => inTable # Unlisted)
            /\ \A o \in Managers \ {m} : ~Edits(at[o], n, k)
  PROVE  LevelSound(n, k, next, told, inTable)
<1>1. \A o, p \in Managers : Edits(next[o], n, k) /\ Edits(next[p], n, k) => o = p
  BY DEF LevelSound
<1>2. \A o \in Managers : Edits(next[o], n, k) => EditSound(next[o], told, inTable)
  BY DEF LevelSound
<1>3. \A o \in Managers : ListSound(next[o], n, k, told, inTable)
  BY DEF LevelSound, ListSound
<1>4. (\A o \in Managers : ~Follows(next[o], n, k)) => told = inTable
  BY DEF LevelSound
<1> QED
  BY <1>1, <1>2, <1>3, <1>4 DEF LevelSound

\* A step of one request that changes neither row nor registry.
LEMMA RequestKeeps ==
  ASSUME LevelsInv, NEW m \in Managers, NEW new, Manages(m, new), ManagerTyped(new),
         UNCHANGED <<levelRows, registry>>, unsettled \subseteq unsettled',
         new.step = "updating" => levelRows[new.key] # Unlisted,
         \A n \in Nodes, k \in LevelKeys :
            <<n, k>> \notin unsettled' =>
               /\ Edits(new, n, k) => /\ EditSound(new, registry[n][k], levelRows[k])
                                      /\ \A o \in Managers \ {m} : ~Edits(managing[o], n, k)
               /\ ListSound(new, n, k, registry[n][k], levelRows[k])
               /\ Follows(managing[m], n, k) => Follows(new, n, k)
  PROVE  LevelsInv'
<1>1. /\ managing' = [o \in Managers |-> managing'[o]]
      /\ \A o \in Managers : managing'[o] = IF o = m THEN new ELSE managing[o]
      /\ \A o \in Managers : ManagerTyped(managing'[o])
  BY ManagerMoves DEF LevelsInv
<1>2. ASSUME NEW n \in Nodes, NEW k \in LevelKeys, <<n, k>> \notin unsettled'
      PROVE  LevelSound(n, k, managing', registry[n][k], levelRows[k])
  <2>1. LevelSound(n, k, managing, registry[n][k], levelRows[k])
    BY <1>2 DEF LevelsInv
  <2>2. managing'[m] = new /\ \A o \in Managers \ {m} : managing'[o] = managing[o]
    BY <1>1
  <2>3. /\ Edits(managing'[m], n, k) =>
             /\ EditSound(managing'[m], registry[n][k], levelRows[k])
             /\ \A o \in Managers \ {m} : ~Edits(managing[o], n, k)
        /\ ListSound(managing'[m], n, k, registry[n][k], levelRows[k])
        /\ Follows(managing[m], n, k) => Follows(managing'[m], n, k)
    BY <1>2, <2>2
  <2> QED
    BY <2>1, <2>2, <2>3, PairKeeps
<1> QED
  BY <1>1, <1>2 DEF LevelsInv, LevelsTyped

LEMMA BeginningKeeps ==
  ASSUME LevelsInv, NEW m \in Managers, NEW n \in Nodes, NEW k \in LevelKeys, NEW edit,
         BeginsEdit(m, n, k, edit), edit \in CreateRows \union UpdateRows,
         edit.step \in {"creating", "updating"}, edit.node = n, edit.key = k,
         edit.step = "updating" => levelRows[k] = edit.read /\ levelRows[k] # Unlisted
  PROVE  LevelsInv'
<1>1. /\ managing[m].step = "idle" /\ Manages(m, edit) /\ UNCHANGED <<levelRows, registry>>
      /\ unsettled \subseteq unsettled'
  BY DEF BeginsEdit, Managing
<1>2. <<n, k>> \notin unsettled' => \A o \in Managers : ~Edits(managing[o], n, k)
  BY DEF BeginsEdit, Edits
<1>3. ManagerTyped(edit)
  BY DEF ManagerTyped
<1>4. ASSUME NEW p \in Nodes, NEW q \in LevelKeys, <<p, q>> \notin unsettled'
      PROVE  /\ Edits(edit, p, q) => /\ EditSound(edit, registry[p][q], levelRows[q])
                                     /\ \A o \in Managers \ {m} : ~Edits(managing[o], p, q)
             /\ ListSound(edit, p, q, registry[p][q], levelRows[q])
             /\ Follows(managing[m], p, q) => Follows(edit, p, q)
  <2>1. ListSound(edit, p, q, registry[p][q], levelRows[q]) /\ ~Follows(managing[m], p, q)
    BY <1>1 DEF ListSound, Follows
  <2>2. ASSUME Edits(edit, p, q)
        PROVE  /\ EditSound(edit, registry[p][q], levelRows[q])
               /\ \A o \in Managers \ {m} : ~Edits(managing[o], p, q)
    <3>1. p = n /\ q = k
      BY <2>2 DEF Edits
    <3> QED
      BY <1>2, <1>4, <3>1 DEF EditSound
  <2> QED
    BY <2>1, <2>2
<1> QED
  BY <1>1, <1>3, <1>4, RequestKeeps

LEMMA CreatingKeeps ==
  ASSUME LevelsInv, NEW m \in Managers, NEW n \in Nodes, NEW k \in LevelKeys, NEW g \in Grants,
         CreateReads(m, n, k, g)
  PROVE  LevelsInv'
<1> DEFINE edit == [step |-> "creating", node |-> n, key |-> k, spec |-> Level("active", g, 1)]
<1>1. BeginsEdit(m, n, k, edit)
  BY DEF CreateReads
<1>2. edit \in CreateRows /\ edit.step = "creating" /\ edit.node = n /\ edit.key = k
  BY DEF CreateRows, Level, LevelSpecs
<1> HIDE DEF edit
<1> QED
  BY <1>1, <1>2, BeginningKeeps

LEMMA UpdatingKeeps ==
  ASSUME LevelsInv, NEW m \in Managers, NEW n \in Nodes, NEW k \in LevelKeys,
         NEW field, NEW value, UpdateReads(m, n, k, field, value),
         \/ field = "grant" /\ value \in Grants
         \/ field = "status" /\ value \in {"active", "archived"}
  PROVE  LevelsInv'
<1> DEFINE edit == [step |-> "updating", node |-> n, key |-> k, read |-> levelRows[k],
                    field |-> field, value |-> value]
<1>1. BeginsEdit(m, n, k, edit)
  BY DEF UpdateReads
<1>2. levelRows[k] \in LevelSpecs
  BY DEF UpdateReads, LevelsInv, LevelsTyped, Known
<1>3. edit \in UpdateRows
  BY <1>2 DEF UpdateRows
<1>4. edit.step = "updating" /\ edit.node = n /\ edit.key = k /\ edit.read = levelRows[k]
  OBVIOUS
<1>5. levelRows[k] # Unlisted
  BY DEF UpdateReads
<1> HIDE DEF edit
<1> QED
  BY <1>1, <1>3, <1>4, <1>5, BeginningKeeps

LEMMA ReadingLevelsKeeps ==
  ASSUME LevelsInv, NEW m \in Managers, NEW n \in Nodes, NEW keys \in SUBSET LevelKeys,
         LevelsRead(m, n, keys)
  PROVE  LevelsInv'
<1> DEFINE new == [step |-> "listing", node |-> n, keys |-> keys, rows |-> levelRows]
<1>1. /\ managing[m].step = "idle" /\ Manages(m, new)
      /\ UNCHANGED <<levelRows, registry, unsettled>>
  BY DEF LevelsRead, Managing
<1>2. new \in ListRows /\ new.step = "listing" /\ new.rows = levelRows
  BY DEF ListRows, LevelsInv, LevelsTyped
<1> HIDE DEF new
<1>3. ManagerTyped(new) /\ new.step # "updating"
  BY <1>2 DEF ManagerTyped
<1>4. \A p \in Nodes, q \in LevelKeys :
          /\ ~Edits(new, p, q) /\ ~Follows(managing[m], p, q)
          /\ ListSound(new, p, q, registry[p][q], levelRows[q])
  BY <1>1, <1>2 DEF Edits, Follows, ListSound
<1> QED
  BY <1>1, <1>3, <1>4, RequestKeeps

LEMMA GivingUpKeeps ==
  ASSUME LevelsInv, NEW m \in Managers, ManagerGivesUp(m)
  PROVE  LevelsInv'
<1> DEFINE new == [step |-> "idle"]
<1>1. /\ Manages(m, new) /\ UNCHANGED <<levelRows, registry>> /\ unsettled \subseteq unsettled'
      /\ managing[m].step \in {"created", "updated"} =>
           <<managing[m].node, managing[m].key>> \in unsettled'
  BY DEF ManagerGivesUp, ManagesNothing
<1>2. ManagerTyped(new) /\ new.step # "updating"
  BY DEF ManagerTyped
<1>3. \A p \in Nodes, q \in LevelKeys :
          /\ ~Edits(new, p, q) /\ ListSound(new, p, q, registry[p][q], levelRows[q])
          /\ <<p, q>> \notin unsettled' => ~Follows(managing[m], p, q)
  BY <1>1 DEF Edits, Follows, ListSound
<1> HIDE DEF new
<1> QED
  BY <1>1, <1>2, <1>3, RequestKeeps

\* A commit: the row changes, and every other process is unsettled for it.
LEMMA CommittingKeeps ==
  ASSUME LevelsInv, NEW m \in Managers, NEW n \in Nodes, NEW k \in LevelKeys, NEW level \in LevelSpecs,
         NEW new, Edits(managing[m], n, k), CommitsEdit(n, k, level), Manages(m, new),
         ManagerTyped(new), Edits(new, n, k), Follows(new, n, k), new.step \notin {"updating", "listing"},
         <<n, k>> \notin unsettled =>
            /\ EditSound(new, registry[n][k], level)
            /\ registry[n][k] # Unlisted \/ levelRows[k] = Unlisted
  PROVE  LevelsInv'
<1>1. /\ managing' = [o \in Managers |-> managing'[o]]
      /\ \A o \in Managers : managing'[o] = IF o = m THEN new ELSE managing[o]
      /\ \A o \in Managers : ManagerTyped(managing'[o])
  BY ManagerMoves DEF LevelsInv
<1>2. /\ levelRows' = [levelRows EXCEPT ![k] = level] /\ UNCHANGED registry
      /\ unsettled' = unsettled \union ((Nodes \ {n}) \X {k})
  BY DEF CommitsEdit
<1>3. /\ levelRows' \in [LevelKeys -> Known]
      /\ levelRows'[k] = level /\ \A q \in LevelKeys \ {k} : levelRows'[q] = levelRows[q]
  BY <1>2 DEF LevelsInv, LevelsTyped, Known
<1>4. level # Unlisted /\ level \in Known
  BY DEF Known, LevelSpecs, Unlisted
<1>5. \A o \in Managers : managing'[o].step = "updating" => levelRows'[managing'[o].key] # Unlisted
  <2> SUFFICES ASSUME NEW o \in Managers, managing'[o].step = "updating"
               PROVE  levelRows'[managing'[o].key] # Unlisted
    OBVIOUS
  <2>1. o # m /\ managing'[o] = managing[o]
    BY <1>1
  <2>2. managing[o].key \in LevelKeys /\ levelRows[managing[o].key] # Unlisted
    BY <2>1 DEF LevelsInv, LevelsTyped, ManagerTyped, CreateRows, UpdateRows, ListRows
  <2> QED
    BY <1>3, <1>4, <2>1, <2>2
<1>6. ASSUME NEW p \in Nodes, NEW q \in LevelKeys, <<p, q>> \notin unsettled'
      PROVE  LevelSound(p, q, managing', registry[p][q], levelRows'[q])
  <2>1. LevelSound(p, q, managing, registry[p][q], levelRows[q])
    BY <1>2, <1>6 DEF LevelsInv
  <2>2. managing'[m] = new /\ \A o \in Managers \ {m} : managing'[o] = managing[o]
    BY <1>1
  <2>3. CASE q # k
    <3>1. ~Edits(new, p, q) /\ ~Follows(managing[m], p, q) /\ levelRows'[q] = levelRows[q]
      BY <1>3, <2>3 DEF Edits, Follows
    <3>2. ListSound(new, p, q, registry[p][q], levelRows[q])
      BY DEF ListSound
    <3> QED
      BY <2>1, <2>2, <3>1, <3>2, PairKeeps
  <2>4. CASE q = k
    <3>1. p = n /\ <<n, k>> \notin unsettled
      BY <1>2, <1>6, <2>4
    <3>2. \A o \in Managers \ {m} : ~Edits(managing[o], n, k)
      BY <2>1, <2>4, <3>1 DEF LevelSound
    <3>3. \A o \in Managers : Edits(managing'[o], n, k) => o = m
      BY <2>2, <3>2
    <3>4. \A o \in Managers : ListSound(managing'[o], n, k, registry[n][k], level)
      <4>1. \A o \in Managers : ListSound(managing[o], n, k, registry[n][k], levelRows[k])
        BY <2>1, <2>4, <3>1 DEF LevelSound
      <4>2. registry[n][k] # Unlisted \/ levelRows[k] = Unlisted
        BY <3>1
      <4> QED
        BY <2>2, <4>1, <4>2 DEF ListSound
    <3>5. EditSound(managing'[m], registry[n][k], level) /\ Follows(managing'[m], n, k)
      BY <2>2, <3>1
    <3> QED
      BY <1>3, <2>4, <3>1, <3>3, <3>4, <3>5 DEF LevelSound
  <2> QED
    BY <2>3, <2>4
<1> QED
  BY <1>1, <1>2, <1>3, <1>5, <1>6 DEF LevelsInv, LevelsTyped

LEMMA CreateCommitKeeps ==
  ASSUME LevelsInv, NEW m \in Managers, CreateCommits(m)
  PROVE  LevelsInv'
<1> DEFINE e == managing[m]
           new == [e EXCEPT !.step = "created"]
<1>1. /\ e.step = "creating" /\ levelRows[e.key] = Unlisted
      /\ CommitsEdit(e.node, e.key, e.spec) /\ Manages(m, new)
  BY DEF CreateCommits, Managing
<1>2. e \in CreateRows
  BY <1>1 DEF LevelsInv, LevelsTyped, ManagerTyped, UpdateRows, ListRows
<1>3. e.node \in Nodes /\ e.key \in LevelKeys /\ e.spec \in LevelSpecs
  BY <1>2 DEF CreateRows
<1>4. /\ new \in CreateRows /\ new.step = "created" /\ new.node = e.node /\ new.key = e.key
      /\ new.spec = e.spec
  BY <1>2 DEF CreateRows
<1>5. Edits(e, e.node, e.key)
  BY <1>1 DEF Edits
<1>6. <<e.node, e.key>> \notin unsettled => registry[e.node][e.key] = Unlisted
  <2> HAVE <<e.node, e.key>> \notin unsettled
  <2>1. LevelSound(e.node, e.key, managing, registry[e.node][e.key], levelRows[e.key])
    BY <1>3 DEF LevelsInv
  <2>2. \A o \in Managers : ~Follows(managing[o], e.node, e.key)
    BY <1>1, <1>5, <2>1 DEF LevelSound, Follows, Edits
  <2> QED
    BY <1>1, <2>1, <2>2 DEF LevelSound
<1> DEFINE n == e.node
           k == e.key
           level == e.spec
<1>7. /\ n \in Nodes /\ k \in LevelKeys /\ level \in LevelSpecs /\ Edits(managing[m], n, k)
      /\ CommitsEdit(n, k, level) /\ ManagerTyped(new)
      /\ Edits(new, n, k) /\ Follows(new, n, k) /\ new.step \notin {"updating", "listing"}
      /\ <<n, k>> \notin unsettled => /\ EditSound(new, registry[n][k], level)
                                      /\ registry[n][k] # Unlisted \/ levelRows[k] = Unlisted
  BY <1>1, <1>3, <1>4, <1>5, <1>6 DEF ManagerTyped, Edits, Follows, EditSound
<1> HIDE DEF n, k, level, new
<1> QED
  BY <1>1, <1>7, CommittingKeeps

\* What an update writes is a level, and, over what it has read, what the
\* registry makes of it.
Written(inTable, read, field, value) ==
    LET level == [inTable EXCEPT !.version = read.version + 1]
    IN  IF value = read[field] THEN level ELSE [level EXCEPT ![field] = value]

LEMMA WrittenAsUpdated ==
  ASSUME NEW read \in LevelSpecs, NEW inTable \in LevelSpecs, NEW field, NEW value,
         \/ field = "grant" /\ value \in Grants
         \/ field = "status" /\ value \in {"active", "archived"}
  PROVE  /\ Written(inTable, read, field, value) \in LevelSpecs
         /\ inTable = read => Written(inTable, read, field, value) = Updated(read, field, value)
<1> DEFINE level == [inTable EXCEPT !.version = read.version + 1]
           written == IF value = read[field] THEN level ELSE [level EXCEPT ![field] = value]
<1>1. \A l \in LevelSpecs :
        /\ l = [status |-> l.status, grant |-> l.grant, version |-> l.version]
        /\ l.status \in {"active", "archived"} /\ l.grant \in Grants /\ l.version \in Nat \ {0}
  BY DEF LevelSpecs
<1>2. level = [status |-> inTable.status, grant |-> inTable.grant, version |-> read.version + 1]
  BY <1>1
<1>3. Written(inTable, read, field, value) = written
  BY DEF Written
<1>4. CASE field = "grant"
  <2> DEFINE mid == [read EXCEPT !.grant = value]
             made == IF value = read.grant THEN inTable.grant ELSE value
  <2>1. mid = [status |-> read.status, grant |-> value, version |-> read.version]
    BY <1>1
  <2>2. Updated(read, field, value) = [mid EXCEPT !.version = mid.version + 1]
    BY <1>4 DEF Updated
  <2>3. Updated(read, field, value)
          = [status |-> read.status, grant |-> value, version |-> read.version + 1]
    BY <2>1, <2>2
  <2>4. written = [status |-> inTable.status, grant |-> made, version |-> read.version + 1]
    BY <1>2, <1>4
  <2>5. made \in Grants /\ (inTable = read => made = value)
    BY <1>1, <1>4
  <2> HIDE DEF made, mid, written, level
  <2>6. written \in LevelSpecs
    BY <1>1, <2>4, <2>5 DEF LevelSpecs
  <2>7. inTable = read => written = Updated(read, field, value)
    BY <2>3, <2>4, <2>5
  <2> QED
    BY <1>3, <2>6, <2>7
<1>5. CASE field = "status"
  <2> DEFINE mid == [read EXCEPT !.status = value]
             made == IF value = read.status THEN inTable.status ELSE value
  <2>1. mid = [status |-> value, grant |-> read.grant, version |-> read.version]
    BY <1>1
  <2>2. Updated(read, field, value) = [mid EXCEPT !.version = mid.version + 1]
    BY <1>5 DEF Updated
  <2>3. Updated(read, field, value)
          = [status |-> value, grant |-> read.grant, version |-> read.version + 1]
    BY <2>1, <2>2
  <2>4. written = [status |-> made, grant |-> inTable.grant, version |-> read.version + 1]
    BY <1>2, <1>5
  <2>5. made \in {"active", "archived"} /\ (inTable = read => made = value)
    BY <1>1, <1>5
  <2> HIDE DEF made, mid, written, level
  <2>6. written \in LevelSpecs
    BY <1>1, <2>4, <2>5 DEF LevelSpecs
  <2>7. inTable = read => written = Updated(read, field, value)
    BY <2>3, <2>4, <2>5
  <2> QED
    BY <1>3, <2>6, <2>7
<1> QED
  BY <1>4, <1>5

LEMMA UpdateCommitKeeps ==
  ASSUME LevelsInv, NEW m \in Managers, UpdateCommits(m)
  PROVE  LevelsInv'
<1> DEFINE e == managing[m]
           n == e.node
           k == e.key
           new == [e EXCEPT !.step = "updated"]
           edited == [levelRows[k] EXCEPT !.version = e.read.version + 1]
           level == IF e.value = e.read[e.field] THEN edited ELSE [edited EXCEPT ![e.field] = e.value]
<1>1. e.step = "updating" /\ CommitsEdit(n, k, level) /\ Manages(m, new)
  BY DEF UpdateCommits, Managing
<1>2. e \in UpdateRows
  BY <1>1 DEF LevelsInv, LevelsTyped, ManagerTyped, CreateRows, ListRows
<1>3. /\ n \in Nodes /\ k \in LevelKeys /\ e.read \in LevelSpecs
      /\ \/ e.field = "grant" /\ e.value \in Grants
         \/ e.field = "status" /\ e.value \in {"active", "archived"}
  BY <1>2 DEF UpdateRows
<1>4. /\ new \in UpdateRows /\ new.step = "updated" /\ new.node = n /\ new.key = k
      /\ new.read = e.read /\ new.field = e.field /\ new.value = e.value
  BY <1>2 DEF UpdateRows
<1>5. Edits(managing[m], n, k) /\ Edits(new, n, k) /\ Follows(new, n, k) /\ ManagerTyped(new)
  BY <1>1, <1>4 DEF Edits, Follows, ManagerTyped
<1>6. levelRows[k] \in LevelSpecs
  BY <1>1, <1>3 DEF LevelsInv, LevelsTyped, Known
<1>7. level \in LevelSpecs /\ (levelRows[k] = e.read => level = Updated(e.read, e.field, e.value))
  <2> DEFINE read == e.read
             inTable == levelRows[k]
             field == e.field
             value == e.value
  <2>1. /\ read \in LevelSpecs /\ inTable \in LevelSpecs
        /\ \/ field = "grant" /\ value \in Grants
           \/ field = "status" /\ value \in {"active", "archived"}
    BY <1>3, <1>6
  <2>2. level = Written(inTable, read, field, value)
    BY DEF Written
  <2> HIDE DEF read, inTable, field, value
  <2>3. /\ Written(inTable, read, field, value) \in LevelSpecs
        /\ inTable = read => Written(inTable, read, field, value) = Updated(read, field, value)
    BY <2>1, WrittenAsUpdated
  <2> QED
    BY <2>2, <2>3 DEF read, inTable, field, value
<1>8. <<n, k>> \notin unsettled => levelRows[k] = e.read /\ registry[n][k] = e.read
  <2> HAVE <<n, k>> \notin unsettled
  <2>1. LevelSound(n, k, managing, registry[n][k], levelRows[k])
    BY <1>3 DEF LevelsInv
  <2>2. \A o \in Managers : ~Follows(managing[o], n, k)
    BY <1>1, <1>5, <2>1 DEF LevelSound, Follows, Edits
  <2> QED
    BY <1>1, <1>5, <2>1, <2>2 DEF LevelSound, EditSound
<1>9. e.read # Unlisted
  BY <1>3 DEF LevelSpecs, Unlisted
<1> HIDE DEF level, edited
<1>10. <<n, k>> \notin unsettled => /\ EditSound(new, registry[n][k], level)
                                    /\ registry[n][k] # Unlisted \/ levelRows[k] = Unlisted
  BY <1>4, <1>7, <1>8, <1>9 DEF EditSound
<1>11. new.step \notin {"updating", "listing"}
  BY <1>4
<1> HIDE DEF n, k, new
<1> QED
  BY <1>1, <1>3, <1>5, <1>7, <1>10, <1>11, CommittingKeeps

\* A registration: the registry of one process has what is stored.
LEMMA RegisteringKeeps ==
  ASSUME LevelsInv, NEW m \in Managers, NEW n \in Nodes, NEW k \in LevelKeys, NEW told \in Known,
         Edits(managing[m], n, k), ManagesNothing(m), UNCHANGED <<levelRows, unsettled>>,
         registry' = [registry EXCEPT ![n][k] = told],
         <<n, k>> \notin unsettled => told = levelRows[k] /\ told # Unlisted
  PROVE  LevelsInv'
<1> DEFINE new == [step |-> "idle"]
<1>1. Manages(m, new) /\ ManagerTyped(new)
  BY DEF ManagesNothing, ManagerTyped
<1>2. \A p, q, known, inTable :
         ~Edits(new, p, q) /\ ~Follows(new, p, q) /\ ListSound(new, p, q, known, inTable)
  BY DEF Edits, Follows, ListSound
<1>3. new.step = "idle"
  OBVIOUS
<1> HIDE DEF new
<1>4. /\ managing' = [o \in Managers |-> managing'[o]]
      /\ \A o \in Managers : managing'[o] = IF o = m THEN new ELSE managing[o]
      /\ \A o \in Managers : ManagerTyped(managing'[o])
  BY <1>1, ManagerMoves DEF LevelsInv
<1>5. registry \in [Nodes -> [LevelKeys -> Known]]
  BY DEF LevelsInv, LevelsTyped
<1>6. /\ registry' \in [Nodes -> [LevelKeys -> Known]] /\ registry'[n][k] = told
      /\ \A p \in Nodes, q \in LevelKeys : <<p, q>> # <<n, k>> => registry'[p][q] = registry[p][q]
  <2> DEFINE others == [registry[n] EXCEPT ![k] = told]
  <2>1. /\ others \in [LevelKeys -> Known] /\ others[k] = told
        /\ \A q \in LevelKeys : q # k => others[q] = registry[n][q]
    BY <1>5
  <2>2. registry' = [registry EXCEPT ![n] = others]
    OBVIOUS
  <2> HIDE DEF others
  <2> QED
    BY <1>5, <2>1, <2>2
<1>7. ASSUME NEW p \in Nodes, NEW q \in LevelKeys, <<p, q>> \notin unsettled
      PROVE  LevelSound(p, q, managing', registry'[p][q], levelRows[q])
  <2>1. LevelSound(p, q, managing, registry[p][q], levelRows[q])
    BY <1>7 DEF LevelsInv
  <2>2. managing'[m] = new /\ \A o \in Managers \ {m} : managing'[o] = managing[o]
    BY <1>4
  <2>3. ~Edits(managing'[m], p, q) /\ ListSound(managing'[m], p, q, registry'[p][q], levelRows[q])
    BY <1>2, <2>2
  <2>4. CASE <<p, q>> # <<n, k>>
    <3>1. registry'[p][q] = registry[p][q] /\ ~Follows(managing[m], p, q)
      BY <1>6, <2>4 DEF Edits, Follows
    <3> QED
      BY <2>1, <2>2, <2>3, <3>1, PairKeeps
  <2>5. CASE p = n /\ q = k
    <3>1. registry'[p][q] = levelRows[q] /\ levelRows[q] # Unlisted
      BY <1>6, <1>7, <2>5
    <3>2. \A o \in Managers \ {m} : ~Edits(managing[o], p, q)
      BY <2>1, <2>5 DEF LevelSound
    <3> QED
      BY <2>1, <2>2, <2>3, <3>1, <3>2, PairKeeps
  <2> QED
    BY <2>4, <2>5
<1>8. \A o \in Managers : managing'[o].step = "updating" => levelRows[managing'[o].key] # Unlisted
  BY <1>3, <1>4 DEF LevelsInv, LevelsTyped
<1> QED
  BY <1>4, <1>6, <1>7, <1>8 DEF LevelsInv, LevelsTyped

LEMMA CreateRegisterKeeps ==
  ASSUME LevelsInv, NEW m \in Managers, CreateRegisters(m)
  PROVE  LevelsInv'
<1> DEFINE e == managing[m]
           n == e.node
           k == e.key
           told == Registered(registry[n][k], e.spec)
<1>1. /\ e.step = "created" /\ registry' = [registry EXCEPT ![n][k] = told]
      /\ ManagesNothing(m) /\ UNCHANGED <<levelRows, unsettled>>
  BY DEF CreateRegisters, Managing
<1>2. e \in CreateRows
  BY <1>1 DEF LevelsInv, LevelsTyped, ManagerTyped, UpdateRows, ListRows
<1>3. n \in Nodes /\ k \in LevelKeys /\ e.spec \in LevelSpecs /\ Edits(managing[m], n, k)
  BY <1>1, <1>2 DEF CreateRows, Edits
<1>4. told \in Known
  BY <1>3 DEF Registered, LevelsInv, LevelsTyped, Known
<1>5. <<n, k>> \notin unsettled => told = levelRows[k] /\ told # Unlisted
  <2> HAVE <<n, k>> \notin unsettled
  <2>1. LevelSound(n, k, managing, registry[n][k], levelRows[k])
    BY <1>3 DEF LevelsInv
  <2>2. levelRows[k] = e.spec /\ registry[n][k] \in {Unlisted, e.spec}
    BY <1>1, <1>3, <2>1 DEF LevelSound, EditSound
  <2>3. e.spec # Unlisted
    BY <1>3 DEF LevelSpecs, Unlisted
  <2> QED
    BY <2>2, <2>3 DEF Registered
<1> HIDE DEF n, k, told
<1> QED
  BY <1>1, <1>3, <1>4, <1>5, RegisteringKeeps

LEMMA UpdateRegisterKeeps ==
  ASSUME LevelsInv, NEW m \in Managers, UpdateRegisters(m)
  PROVE  LevelsInv'
<1> DEFINE e == managing[m]
           n == e.node
           k == e.key
<1>1. /\ e.step = "updated" /\ ManagesNothing(m) /\ UNCHANGED <<levelRows, unsettled>>
  BY DEF UpdateRegisters, Managing
<1>2. e \in UpdateRows
  BY <1>1 DEF LevelsInv, LevelsTyped, ManagerTyped, CreateRows, ListRows
<1>3. /\ n \in Nodes /\ k \in LevelKeys /\ e.read \in LevelSpecs /\ Edits(managing[m], n, k)
      /\ \/ e.field = "grant" /\ e.value \in Grants
         \/ e.field = "status" /\ e.value \in {"active", "archived"}
  BY <1>1, <1>2 DEF UpdateRows, Edits
<1>4. <<n, k>> \notin unsettled =>
         levelRows[k] = Updated(e.read, e.field, e.value) /\ registry[n][k] = e.read
  <2> HAVE <<n, k>> \notin unsettled
  <2>1. LevelSound(n, k, managing, registry[n][k], levelRows[k])
    BY <1>3 DEF LevelsInv
  <2> QED
    BY <1>1, <1>3, <2>1 DEF LevelSound, EditSound
<1>5. registry[n][k] \in Known /\ registry \in [Nodes -> [LevelKeys -> Known]] /\ e.read # Unlisted
  BY <1>3 DEF LevelsInv, LevelsTyped, LevelSpecs, Unlisted
<1>6. ASSUME NEW l \in LevelSpecs PROVE Updated(l, e.field, e.value) \in LevelSpecs
  <2> DEFINE field == e.field
             value == e.value
  <2>1. \/ field = "grant" /\ value \in Grants
        \/ field = "status" /\ value \in {"active", "archived"}
    BY <1>3
  <2> HIDE DEF field, value
  <2>2. Updated(l, field, value) \in LevelSpecs
    BY <2>1, WrittenAsUpdated
  <2> QED
    BY <2>2 DEF field, value
<1>7. CASE registry[n][k] = Unlisted
  <2>1. registry' = [registry EXCEPT ![n][k] = Unlisted]
    <3>1. registry' = registry
      BY <1>7 DEF UpdateRegisters
    <3>2. [registry[n] EXCEPT ![k] = Unlisted] = registry[n]
      BY <1>3, <1>5, <1>7
    <3> QED
      BY <1>3, <1>5, <3>1, <3>2
  <2>2. <<n, k>> \in unsettled
    BY <1>4, <1>5, <1>7
  <2>3. Unlisted \in Known
    BY DEF Known
  <2> HIDE DEF n, k
  <2> QED
    BY <1>1, <1>3, <2>1, <2>2, <2>3, RegisteringKeeps
<1>8. CASE registry[n][k] # Unlisted
  <2> DEFINE told == Updated(registry[n][k], e.field, e.value)
  <2>1. registry' = [registry EXCEPT ![n][k] = told]
    BY <1>8 DEF UpdateRegisters
  <2>2. told \in LevelSpecs
    BY <1>5, <1>6, <1>8 DEF Known
  <2>3. <<n, k>> \notin unsettled => told = levelRows[k]
    BY <1>4
  <2> HIDE DEF told, n, k
  <2>4. told \in Known /\ told # Unlisted
    BY <2>2 DEF Known, LevelSpecs, Unlisted
  <2> QED
    BY <1>1, <1>3, <2>1, <2>3, <2>4, RegisteringKeeps
<1> QED
  BY <1>7, <1>8

LEMMA ListingKeeps ==
  ASSUME LevelsInv, NEW m \in Managers, LevelsListed(m)
  PROVE  LevelsInv'
<1> DEFINE e == managing[m]
           new == [step |-> "idle"]
           told == [q \in LevelKeys |-> IF q \in e.keys THEN Registered(registry[e.node][q], e.rows[q])
                                        ELSE registry[e.node][q]]
<1>1. /\ e.step = "listing" /\ Manages(m, new) /\ UNCHANGED <<levelRows, unsettled>>
      /\ registry' = [registry EXCEPT ![e.node] = told]
  BY DEF LevelsListed, Managing, ManagesNothing
<1>2. e \in ListRows
  BY <1>1 DEF LevelsInv, LevelsTyped, ManagerTyped, CreateRows, UpdateRows
<1>3. e.node \in Nodes /\ e.rows \in [LevelKeys -> Known]
  BY <1>2 DEF ListRows
<1>4. registry \in [Nodes -> [LevelKeys -> Known]]
  BY DEF LevelsInv, LevelsTyped
<1>5. told \in [LevelKeys -> Known]
  BY <1>3, <1>4 DEF Registered
<1>6. /\ registry' \in [Nodes -> [LevelKeys -> Known]]
      /\ registry'[e.node] = told /\ \A p \in Nodes : p # e.node => registry'[p] = registry[p]
  BY <1>1, <1>3, <1>4, <1>5
<1>7. /\ ManagerTyped(new) /\ new.step = "idle"
      /\ \A p, q, known, inTable :
           ~Edits(new, p, q) /\ ~Follows(new, p, q) /\ ListSound(new, p, q, known, inTable)
  BY DEF Edits, Follows, ListSound, ManagerTyped
<1>8. \A p \in Nodes, q \in LevelKeys :
          \/ registry'[p][q] = registry[p][q]
          \/ /\ p = e.node /\ q \in e.keys /\ registry[p][q] = Unlisted
             /\ registry'[p][q] = e.rows[q]
  BY <1>6 DEF Registered
<1> HIDE DEF new, told
<1>9. /\ managing' = [o \in Managers |-> managing'[o]]
      /\ \A o \in Managers : managing'[o] = IF o = m THEN new ELSE managing[o]
      /\ \A o \in Managers : ManagerTyped(managing'[o])
  BY <1>1, <1>7, ManagerMoves DEF LevelsInv
<1>10. ASSUME NEW p \in Nodes, NEW q \in LevelKeys, <<p, q>> \notin unsettled
       PROVE  LevelSound(p, q, managing', registry'[p][q], levelRows[q])
  <2>1. LevelSound(p, q, managing, registry[p][q], levelRows[q])
    BY <1>10 DEF LevelsInv
  <2>2. /\ managing'[m] = new /\ ~Follows(managing[m], p, q)
        /\ \A o \in Managers \ {m} : managing'[o] = managing[o]
    BY <1>1, <1>9 DEF Follows
  <2>3. ~Edits(managing'[m], p, q) /\ ListSound(managing'[m], p, q, registry'[p][q], levelRows[q])
    BY <1>7, <2>2
  <2>4. CASE registry'[p][q] = registry[p][q]
    BY <2>1, <2>2, <2>3, <2>4, PairKeeps
  <2>5. CASE registry'[p][q] # registry[p][q]
    <3>1. p = e.node /\ q \in e.keys /\ registry[p][q] = Unlisted /\ registry'[p][q] = e.rows[q]
      BY <1>8, <2>5
    <3>2. e.rows[q] = levelRows[q] /\ levelRows[q] # Unlisted
      BY <1>1, <2>1, <2>5, <3>1 DEF LevelSound, ListSound
    <3>3. \A o, r \in Managers : Edits(managing'[o], p, q) /\ Edits(managing'[r], p, q) => o = r
      BY <2>1, <2>2, <2>3 DEF LevelSound
    <3>4. ASSUME NEW o \in Managers, Edits(managing'[o], p, q)
          PROVE  EditSound(managing'[o], registry'[p][q], levelRows[q])
      <4>1. o # m /\ managing'[o] = managing[o]
        BY <2>2, <2>3, <3>4
      <4>2. EditSound(managing[o], Unlisted, levelRows[q]) /\ ManagerTyped(managing[o])
        BY <2>1, <3>1, <3>4, <4>1 DEF LevelSound, LevelsInv, LevelsTyped
      <4>3. managing[o].step # "updated"
        <5>1. managing[o].step = "updated" => managing[o].read \in LevelSpecs
          BY <4>2 DEF ManagerTyped, CreateRows, UpdateRows, ListRows
        <5> QED
          BY <4>2, <5>1 DEF EditSound, LevelSpecs, Unlisted
      <4> QED
        BY <3>1, <3>2, <4>1, <4>2, <4>3 DEF EditSound
    <3>5. \A o \in Managers : ListSound(managing'[o], p, q, registry'[p][q], levelRows[q])
      BY <3>1, <3>2 DEF ListSound
    <3> QED
      BY <3>1, <3>2, <3>3, <3>4, <3>5 DEF LevelSound
  <2> QED
    BY <2>4, <2>5
<1>11. \A o \in Managers : managing'[o].step = "updating" => levelRows[managing'[o].key] # Unlisted
  BY <1>7, <1>9 DEF LevelsInv, LevelsTyped
<1> QED
  BY <1>1, <1>6, <1>9, <1>10, <1>11 DEF LevelsInv, LevelsTyped

LEMMA RestartingKeeps ==
  ASSUME LevelsInv, NEW n \in Nodes, NodeRestarts(n)
  PROVE  LevelsInv'
<1> DEFINE lost(m) == managing[m].step # "idle" /\ managing[m].node = n
           idle == [step |-> "idle"]
<1>1. /\ registry' = [registry EXCEPT ![n] = levelRows] /\ UNCHANGED levelRows
      /\ managing' = [m \in Managers |-> IF lost(m) THEN idle ELSE managing[m]]
      /\ unsettled' = unsettled \ ({n} \X LevelKeys)
  BY DEF NodeRestarts
<1>2. /\ ManagerTyped(idle) /\ idle.step = "idle"
      /\ \A p, q, known, inTable :
           ~Edits(idle, p, q) /\ ~Follows(idle, p, q) /\ ListSound(idle, p, q, known, inTable)
  BY DEF Edits, Follows, ListSound, ManagerTyped
<1>3. \A p, q, known, inTable : \A m \in Managers :
         lost(m) /\ p # n =>
            ~Edits(managing[m], p, q) /\ ~Follows(managing[m], p, q)
  BY DEF Edits, Follows
<1>4. \A q, known, inTable : \A m \in Managers :
         ~lost(m) => /\ ~Edits(managing[m], n, q) /\ ~Follows(managing[m], n, q)
                     /\ ListSound(managing[m], n, q, known, inTable)
  BY DEF Edits, Follows, ListSound
<1> HIDE DEF idle, lost
<1>5. /\ registry' \in [Nodes -> [LevelKeys -> Known]] /\ registry'[n] = levelRows
      /\ \A p \in Nodes : p # n => registry'[p] = registry[p]
  BY <1>1 DEF LevelsInv, LevelsTyped
<1>6. /\ managing' = [m \in Managers |-> managing'[m]]
      /\ \A m \in Managers : managing'[m] = IF lost(m) THEN idle ELSE managing[m]
  BY <1>1
<1>7. /\ \A m \in Managers : ManagerTyped(managing'[m])
      /\ \A m \in Managers : managing'[m].step = "updating" => levelRows[managing'[m].key] # Unlisted
  BY <1>2, <1>6 DEF LevelsInv, LevelsTyped
<1>8. ASSUME NEW p \in Nodes, NEW q \in LevelKeys, <<p, q>> \notin unsettled'
      PROVE  LevelSound(p, q, managing', registry'[p][q], levelRows[q])
  <2>1. CASE p = n
    <3>1. \A m \in Managers : /\ ~Edits(managing'[m], p, q) /\ ~Follows(managing'[m], p, q)
                              /\ ListSound(managing'[m], p, q, registry'[p][q], levelRows[q])
      BY <1>2, <1>4, <1>6, <2>1
    <3> QED
      BY <1>5, <2>1, <3>1 DEF LevelSound
  <2>2. CASE p # n
    <3>1. LevelSound(p, q, managing, registry[p][q], levelRows[q])
      BY <1>1, <1>8, <2>2 DEF LevelsInv
    <3>2. \A m \in Managers :
             \/ managing'[m] = managing[m]
             \/ /\ managing'[m] = idle /\ ~Edits(managing[m], p, q) /\ ~Follows(managing[m], p, q)
      BY <1>3, <1>6, <2>2
    <3>3. \A m, o \in Managers : Edits(managing'[m], p, q) /\ Edits(managing'[o], p, q) => m = o
      BY <1>2, <3>1, <3>2 DEF LevelSound
    <3>4. \A m \in Managers :
             Edits(managing'[m], p, q) => EditSound(managing'[m], registry[p][q], levelRows[q])
      BY <1>2, <3>1, <3>2 DEF LevelSound
    <3>5. \A m \in Managers : ListSound(managing'[m], p, q, registry[p][q], levelRows[q])
      BY <1>2, <3>1, <3>2 DEF LevelSound
    <3>6. (\A m \in Managers : ~Follows(managing'[m], p, q)) => registry[p][q] = levelRows[q]
      BY <1>2, <3>1, <3>2 DEF LevelSound
    <3> QED
      BY <1>5, <2>2, <3>3, <3>4, <3>5, <3>6 DEF LevelSound
  <2> QED
    BY <2>1, <2>2
<1> QED
  BY <1>1, <1>5, <1>6, <1>7, <1>8 DEF LevelsInv, LevelsTyped

LEMMA LevelsKeep ==
  ASSUME LevelsInv, [LevelsNext]_levelsVars
  PROVE  LevelsInv'
<1>1. ASSUME NEW m \in Managers, NEW n \in Nodes, NEW k \in LevelKeys,
             NEW s \in {"active", "archived"}, UpdateReads(m, n, k, "status", s)
      PROVE  LevelsInv'
  BY <1>1, UpdatingKeeps
<1>2. ASSUME NEW m \in Managers, NEW n \in Nodes, NEW k \in LevelKeys, NEW g \in Grants,
             UpdateReads(m, n, k, "grant", g)
      PROVE  LevelsInv'
  BY <1>2, UpdatingKeeps
<1>3. ASSUME NEW m \in Managers, NEW n \in Nodes, NEW k \in LevelKeys, RequireLevel(m, n, k)
      PROVE  LevelsInv'
  <2>1. {k} \in SUBSET LevelKeys
    OBVIOUS
  <2> QED
    BY <1>3, <2>1, ReadingLevelsKeeps DEF RequireLevel
<1>4. ASSUME NEW m \in Managers, NEW n \in Nodes, ListLevels(m, n) PROVE LevelsInv'
  <2>1. {k \in LevelKeys : levelRows[k].status = "active"} \in SUBSET LevelKeys
    OBVIOUS
  <2> QED
    BY <1>4, <2>1, ReadingLevelsKeeps DEF ListLevels
<1>5. CASE UNCHANGED levelsVars
  BY <1>5 DEF levelsVars, LevelsInv, LevelsTyped
<1> QED
  BY <1>1, <1>2, <1>3, <1>4, <1>5, CreatingKeeps, CreateCommitKeeps, CreateRegisterKeeps,
     UpdateCommitKeeps, UpdateRegisterKeeps, ListingKeeps, GivingUpKeeps, RestartingKeeps
     DEF LevelsNext

LEMMA LevelsStart == LevelsInit => LevelsInv
<1> HAVE LevelsInit
<1>1. \A m \in Managers : managing[m] = [step |-> "idle"]
  BY DEF LevelsInit
<1>2. /\ \A m \in Managers : ManagerTyped(managing[m]) /\ managing[m].step = "idle"
      /\ managing = [m \in Managers |-> managing[m]]
  BY DEF LevelsInit, ManagerTyped
<1>3. levelRows \in [LevelKeys -> Known] /\ registry \in [Nodes -> [LevelKeys -> Known]]
  BY DEF LevelsInit, Known
<1>4. \A n \in Nodes, k \in LevelKeys :
          LevelSound(n, k, managing, registry[n][k], levelRows[k])
  BY <1>2 DEF LevelsInit, LevelSound, Edits, Follows, ListSound
<1> QED
  BY <1>2, <1>3, <1>4 DEF LevelsInv, LevelsTyped

\* A process that is settled for a level knows it as it is stored.
THEOREM LevelsAreKnownAsStored == LevelsSpec => []KnownAsStored
<1>1. LevelsInit => LevelsInv
  BY LevelsStart
<1>2. LevelsInv /\ [LevelsNext]_levelsVars => LevelsInv'
  BY LevelsKeep
<1>3. LevelsInv => KnownAsStored
  BY DEF LevelsInv, LevelSound, KnownAsStored, Following, Follows
<1> QED
  BY <1>1, <1>2, <1>3, PTL DEF LevelsSpec

-----------------------------------------------------------------------------
(* PaymentProviders: a notice was sent, and a fact learned, of what the    *)
(* books of its account say.  A refund stands in the books of the account  *)
(* that has the reference of its attempt, which never changes once it is   *)
(* there, and is the only one of its key there.                            *)

OperationKeys == Attempts \X RefundKeys
MadeRows == [attempt : Attempts, key : OperationKeys]
BookRows == [opened : SUBSET Attempts, paid : SUBSET Attempts, refunds : Seq(MadeRows)]
CallRows == [op : {"create", "status", "refund", "verify"},
             stage : {"settings", "ready", "capture", "token"}, provider : Gateways,
             account : Merchants \union {Unset}, attempt : Attempts,
             key : OperationKeys \union {NoKey}, at : Merchants \union {Unset},
             notice : Notices \union {NoCall}]

Happened(b, m, kind, a, fen) ==
    \/ kind = "capture" /\ fen = Charge /\ a \in b[m].paid
    \/ /\ kind = "refund" /\ fen = Back
       /\ \E i \in DOMAIN b[m].refunds : b[m].refunds[i].attempt = a

NoticeSound(n, b) == Happened(b, n.from, n.kind, n.attempt, Minor(n.money))
FactSound(f, b) == f.by \in Merchants /\ Happened(b, f.by, f.kind, f.attempt, f.amount)

CallSound(r, out, ref) ==
    /\ r \in CallRows
    /\ r.stage # "settings" => r.account \in Merchants
    /\ r.op = "verify" => r.notice \in out
    /\ r.op = "refund" => /\ r.key \in OperationKeys /\ r.key[1] = r.attempt
                          /\ r.at # Unset /\ r.at = ref[r.attempt]

RefundsSound(m, list, ref) ==
    /\ \A i \in DOMAIN list : list[i].key[1] = list[i].attempt /\ ref[list[i].attempt] = m
    /\ m \in Paypals => \A i, j \in DOMAIN list : list[i].key = list[j].key => i = j

ProvidersTyped ==
    /\ configured \in [Gateways -> Merchants \union {Unset}]
    /\ reference \in [Attempts -> Merchants \union {Unset}]
    /\ books \in [Merchants -> BookRows]
    /\ cashier = [c \in Cashiers |-> cashier[c]]
    /\ sent \subseteq Notices

ProvidersInv ==
    /\ ProvidersTyped
    /\ \A c \in Cashiers : cashier[c] = NoCall \/ CallSound(cashier[c], sent, reference)
    /\ \A n \in sent : NoticeSound(n, books)
    /\ \A f \in learned : FactSound(f, books)
    /\ \A m \in Merchants : RefundsSound(m, books[m].refunds, reference)

Grows(b, c) ==
    \A m \in Merchants :
        /\ b[m].paid \subseteq c[m].paid
        /\ \A i \in DOMAIN b[m].refunds :
              i \in DOMAIN c[m].refunds /\ c[m].refunds[i] = b[m].refunds[i]

LEMMA MoneyComesAsItWent == \A fen \in Nat : Minor(Major(fen)) = fen /\ Major(fen) \in Nat
BY DEF Minor, Major

LEMMA HappenedStays ==
  ASSUME NEW b, NEW c, Grows(b, c), NEW m \in Merchants, NEW kind, NEW a, NEW fen,
         Happened(b, m, kind, a, fen)
  PROVE  Happened(c, m, kind, a, fen)
BY DEF Grows, Happened

\* A step of one call, at most, that forgets nothing.
LEMMA CallsKeep ==
  ASSUME ProvidersInv, ProvidersTyped',
         \A c \in Cashiers :
            \/ cashier'[c] = cashier[c]
            \/ cashier'[c] = NoCall
            \/ CallSound(cashier'[c], sent', reference'),
         \A a \in Attempts : reference[a] # Unset => reference'[a] = reference[a],
         Grows(books, books'), sent \subseteq sent',
         \A n \in sent' : n \in sent \/ NoticeSound(n, books'),
         \A f \in learned' : f \in learned \/ FactSound(f, books'),
         \A m \in Merchants : RefundsSound(m, books'[m].refunds, reference')
  PROVE  ProvidersInv'
<1>1. ASSUME NEW r, CallSound(r, sent, reference) PROVE CallSound(r, sent', reference')
  <2>1. r.attempt \in Attempts
    BY <1>1 DEF CallSound, CallRows
  <2> QED
    BY <1>1, <2>1 DEF CallSound
<1>2. \A c \in Cashiers : cashier'[c] = NoCall \/ CallSound(cashier'[c], sent', reference')
  BY <1>1 DEF ProvidersInv
<1>3. ASSUME NEW n \in sent PROVE NoticeSound(n, books')
  <2>1. n.from \in Merchants /\ NoticeSound(n, books)
    BY <1>3 DEF ProvidersInv, ProvidersTyped, Notices
  <2> QED
    BY <2>1, HappenedStays DEF NoticeSound
<1>4. ASSUME NEW f \in learned PROVE FactSound(f, books')
  BY <1>4, HappenedStays DEF ProvidersInv, FactSound
<1> QED
  BY <1>2, <1>3, <1>4 DEF ProvidersInv

\* A step of one call that leaves the books, the references and what was sent.
LEMMA QuietKeeps ==
  ASSUME ProvidersInv, NEW c \in Cashiers, NEW new, cashier' = [cashier EXCEPT ![c] = new],
         new = NoCall \/ CallSound(new, sent, reference),
         UNCHANGED <<configured, books, reference, sent>>,
         \A f \in learned' : f \in learned \/ FactSound(f, books)
  PROVE  ProvidersInv'
<1>1. /\ cashier' = [d \in Cashiers |-> cashier'[d]]
      /\ \A d \in Cashiers : cashier'[d] = IF d = c THEN new ELSE cashier[d]
  BY DEF ProvidersInv, ProvidersTyped
<1>2. Grows(books, books')
  BY DEF Grows
<1>3. ProvidersTyped'
  BY <1>1 DEF ProvidersInv, ProvidersTyped
<1>4. \A m \in Merchants : RefundsSound(m, books'[m].refunds, reference')
  BY DEF ProvidersInv
<1>5. \A n \in sent' : n \in sent \/ NoticeSound(n, books')
  OBVIOUS
<1>6. \A f \in learned' : f \in learned \/ FactSound(f, books')
  OBVIOUS
<1>7. \A d \in Cashiers : \/ cashier'[d] = cashier[d]
                          \/ cashier'[d] = NoCall
                          \/ CallSound(cashier'[d], sent', reference')
  BY <1>1
<1> QED
  BY <1>2, <1>3, <1>4, <1>5, <1>6, <1>7, CallsKeep

LEMMA EndingKeeps ==
  ASSUME ProvidersInv, NEW c \in Cashiers, EndsCall(c),
         UNCHANGED <<configured, books, reference, sent, learned>>
  PROVE  ProvidersInv'
BY QuietKeeps DEF EndsCall

LEMMA OpeningKeeps ==
  ASSUME ProvidersInv, NEW c \in Cashiers, NEW op, NEW p \in Gateways, NEW a \in Attempts,
         NEW k \in OperationKeys \union {NoKey}, NEW at \in Merchants \union {Unset},
         NEW notice \in Notices \union {NoCall}, OpensCall(c, op, p, a, k, at, notice),
         op \in {"create", "status", "refund", "verify"},
         op = "verify" => notice \in sent,
         op = "refund" => k \in OperationKeys /\ k[1] = a /\ at # Unset /\ at = reference[a]
  PROVE  ProvidersInv'
<1> DEFINE new == [op |-> op, stage |-> "settings", provider |-> p, account |-> configured[p],
                   attempt |-> a, key |-> k, at |-> at, notice |-> notice]
<1>1. /\ cashier' = [cashier EXCEPT ![c] = new]
      /\ UNCHANGED <<configured, books, reference, sent, learned>>
  BY DEF OpensCall
<1>2. configured[p] \in Merchants \union {Unset}
  BY DEF ProvidersInv, ProvidersTyped
<1>3. /\ new \in CallRows /\ new.stage = "settings" /\ new.op = op /\ new.notice = notice
      /\ new.key = k /\ new.attempt = a /\ new.at = at
  BY <1>2 DEF CallRows
<1> HIDE DEF new
<1>4. CallSound(new, sent, reference)
  BY <1>3 DEF CallSound
<1> QED
  BY <1>1, <1>4, QuietKeeps

LEMMA CallingKeeps ==
  ASSUME ProvidersInv, NEW c \in Cashiers,
         CallCreate(c) \/ CallStatus(c) \/ CallRefund(c) \/ CallVerify(c)
  PROVE  ProvidersInv'
<1>1. /\ NoKey \in OperationKeys \union {NoKey} /\ Unset \in Merchants \union {Unset}
      /\ NoCall \in Notices \union {NoCall}
      /\ \A m : ProviderOf(m) \in Gateways
  BY DEF Gateways, ProviderOf
<1>2. CASE CallCreate(c)
  <2>1. PICK p \in Gateways, a \in Attempts : OpensCall(c, "create", p, a, NoKey, Unset, NoCall)
    BY <1>2 DEF CallCreate
  <2> QED
    BY <1>1, <2>1, OpeningKeeps
<1>3. CASE CallStatus(c)
  <2>1. PICK a \in Attempts :
          OpensCall(c, "status", ProviderOf(reference[a]), a, NoKey, reference[a], NoCall)
    BY <1>3 DEF CallStatus
  <2> DEFINE p == ProviderOf(reference[a])
             at == reference[a]
  <2>2. /\ p \in Gateways /\ at \in Merchants \union {Unset}
        /\ OpensCall(c, "status", p, a, NoKey, at, NoCall)
    BY <1>1, <2>1 DEF ProvidersInv, ProvidersTyped
  <2> HIDE DEF p, at
  <2> QED
    BY <1>1, <2>2, OpeningKeeps
<1>4. CASE CallRefund(c)
  <2>1. PICK a \in Attempts, k \in RefundKeys :
          /\ reference[a] # Unset
          /\ OpensCall(c, "refund", ProviderOf(reference[a]), a, <<a, k>>, reference[a], NoCall)
    BY <1>4 DEF CallRefund
  <2> DEFINE p == ProviderOf(reference[a])
             at == reference[a]
             key == <<a, k>>
  <2>2. /\ p \in Gateways /\ at \in Merchants \union {Unset} /\ at # Unset /\ at = reference[a]
        /\ key \in OperationKeys /\ key[1] = a
        /\ OpensCall(c, "refund", p, a, key, at, NoCall)
    BY <1>1, <2>1 DEF ProvidersInv, ProvidersTyped, OperationKeys
  <2> HIDE DEF p, at, key
  <2> QED
    BY <1>1, <2>2, OpeningKeeps
<1>5. CASE CallVerify(c)
  <2>1. PICK n \in sent : OpensCall(c, "verify", ProviderOf(n.from), n.attempt, NoKey, Unset, n)
    BY <1>5 DEF CallVerify
  <2> DEFINE p == ProviderOf(n.from)
             a == n.attempt
  <2>2. n \in Notices /\ p \in Gateways /\ a \in Attempts
        /\ OpensCall(c, "verify", p, a, NoKey, Unset, n)
    BY <1>1, <2>1 DEF ProvidersInv, ProvidersTyped, Notices
  <2> HIDE DEF p, a
  <2> QED
    BY <1>1, <2>1, <2>2, OpeningKeeps
<1> QED
  BY <1>2, <1>3, <1>4, <1>5

\* A call in progress goes on to another stage, with an account.
LEMMA ReachingKeeps ==
  ASSUME ProvidersInv, NEW c \in Cashiers, cashier[c] # NoCall,
         NEW stage \in {"ready", "capture", "token"}, Reaches(c, stage),
         cashier[c].account \in Merchants,
         UNCHANGED <<configured, books, reference, sent, learned>>
  PROVE  ProvidersInv'
<1> DEFINE new == [cashier[c] EXCEPT !.stage = stage]
<1>1. CallSound(cashier[c], sent, reference)
  BY DEF ProvidersInv
<1>2. cashier[c] \in CallRows
  BY <1>1 DEF CallSound
<1>3. /\ new \in CallRows /\ new.op = cashier[c].op /\ new.account = cashier[c].account
      /\ new.notice = cashier[c].notice /\ new.key = cashier[c].key /\ new.at = cashier[c].at
      /\ new.attempt = cashier[c].attempt
  BY <1>2 DEF CallRows
<1>4. cashier' = [cashier EXCEPT ![c] = new]
  BY DEF Reaches
<1> HIDE DEF new
<1>5. CallSound(new, sent, reference)
  BY <1>1, <1>3 DEF CallSound
<1> QED
  BY <1>4, <1>5, QuietKeeps

\* What a call in progress is about.
LEMMA InTheCall ==
  ASSUME ProvidersInv, NEW c \in Cashiers, cashier[c] # NoCall
  PROVE  /\ CallSound(cashier[c], sent, reference) /\ cashier[c] \in CallRows
         /\ cashier[c].attempt \in Attempts /\ cashier[c].account \in Merchants \union {Unset}
         /\ cashier[c].stage # "settings" => cashier[c].account \in Merchants
BY DEF ProvidersInv, CallSound, CallRows

LEMMA ConfiguringKeeps ==
  ASSUME ProvidersInv, NEW c \in Cashiers, Configure(c)
  PROVE  ProvidersInv'
<1>1. cashier[c] # NoCall /\ UNCHANGED <<configured, books, reference, sent, learned>>
  BY DEF Configure, Unbounded
<1>2. CASE EndsCall(c)
  BY <1>1, <1>2, EndingKeeps
<1>3. CASE ~EndsCall(c)
  <2>1. Reaches(c, "ready") /\ cashier[c].account # Unset
    BY <1>3 DEF Configure
  <2>2. cashier[c].account \in Merchants
    BY <1>1, <2>1, InTheCall
  <2> QED
    BY <1>1, <2>1, <2>2, ReachingKeeps
<1> QED
  BY <1>2, <1>3

\* The books of one account change; what they said they still say.
LEMMA BooksKeep ==
  ASSUME ProvidersInv, NEW m \in Merchants, NEW book \in BookRows,
         books' = [books EXCEPT ![m] = book],
         books[m].paid \subseteq book.paid,
         \A i \in DOMAIN books[m].refunds :
            i \in DOMAIN book.refunds /\ book.refunds[i] = books[m].refunds[i],
         reference' \in [Attempts -> Merchants \union {Unset}],
         \A a \in Attempts : reference[a] # Unset => reference'[a] = reference[a],
         RefundsSound(m, book.refunds, reference'),
         UNCHANGED <<configured, learned>>,
         sent \subseteq sent', sent' \subseteq Notices,
         \A n \in sent' : n \in sent \/ NoticeSound(n, books'),
         cashier' = [c \in Cashiers |-> cashier'[c]],
         \A c \in Cashiers : cashier'[c] = cashier[c] \/ cashier'[c] = NoCall
  PROVE  ProvidersInv'
<1>1. books \in [Merchants -> BookRows]
  BY DEF ProvidersInv, ProvidersTyped
<1>2. /\ books' \in [Merchants -> BookRows]
      /\ books'[m] = book /\ \A l \in Merchants : l # m => books'[l] = books[l]
  BY <1>1
<1>3. Grows(books, books')
  BY <1>2 DEF Grows
<1>4. ASSUME NEW l \in Merchants PROVE RefundsSound(l, books'[l].refunds, reference')
  <2>1. CASE l = m
    BY <1>2, <2>1
  <2>2. CASE l # m
    <3>1. RefundsSound(l, books[l].refunds, reference) /\ books[l] \in BookRows
      BY <1>1 DEF ProvidersInv
    <3>2. \A i \in DOMAIN books[l].refunds : books[l].refunds[i] \in MadeRows
      BY <3>1 DEF BookRows
    <3>3. \A i \in DOMAIN books[l].refunds : /\ books[l].refunds[i].attempt \in Attempts
                                            /\ reference[books[l].refunds[i].attempt] # Unset
      BY <3>1, <3>2, ProvidersAssumption DEF MadeRows, RefundsSound
    <3> QED
      BY <1>2, <2>2, <3>1, <3>3 DEF RefundsSound
  <2> QED
    BY <2>1, <2>2
<1>5. ProvidersTyped'
  BY <1>2 DEF ProvidersInv, ProvidersTyped
<1>6. \A c \in Cashiers : \/ cashier'[c] = cashier[c]
                          \/ cashier'[c] = NoCall
                          \/ CallSound(cashier'[c], sent', reference')
  OBVIOUS
<1>7. \A f \in learned' : f \in learned \/ FactSound(f, books')
  OBVIOUS
<1> QED
  BY <1>3, <1>4, <1>5, <1>6, <1>7, CallsKeep

LEMMA UnderKeyIs ==
  ASSUME NEW m, NEW k
  PROVE  UnderKey(m, k) = {i \in DOMAIN books[m].refunds : books[m].refunds[i].key = k}
BY DEF UnderKey, Made

LEMMA OneCallEnds ==
  ASSUME ProvidersInv, NEW c \in Cashiers, EndsCall(c)
  PROVE  /\ cashier' = [d \in Cashiers |-> cashier'[d]]
         /\ \A d \in Cashiers : cashier'[d] = cashier[d] \/ cashier'[d] = NoCall
BY DEF EndsCall, ProvidersInv, ProvidersTyped

LEMMA PaymentIsOpened ==
  ASSUME ProvidersInv, NEW c \in Cashiers, CreatePayment(c)
  PROVE  ProvidersInv'
<1> DEFINE m == cashier[c].account
           a == cashier[c].attempt
           book == [books[m] EXCEPT !.opened = books[m].opened \union {a}]
<1>1. /\ cashier[c] # NoCall /\ cashier[c].stage = "ready" /\ EndsCall(c)
      /\ books' = [books EXCEPT ![m] = book]
      /\ reference' = [reference EXCEPT ![a] = IF @ = Unset THEN m ELSE @] \/ UNCHANGED reference
      /\ UNCHANGED <<configured, sent, learned>>
  BY DEF CreatePayment, InCall, Unbounded
<1>2. m \in Merchants /\ a \in Attempts
  BY <1>1, InTheCall
<1>3. books[m] \in BookRows /\ reference \in [Attempts -> Merchants \union {Unset}]
  BY <1>2 DEF ProvidersInv, ProvidersTyped
<1>4. book \in BookRows /\ book.paid = books[m].paid /\ book.refunds = books[m].refunds
  BY <1>2, <1>3 DEF BookRows
<1> HIDE DEF book, m, a
<1>5. /\ reference' \in [Attempts -> Merchants \union {Unset}]
      /\ \A b \in Attempts : reference[b] # Unset => reference'[b] = reference[b]
  BY <1>1, <1>2, <1>3
<1>6. RefundsSound(m, book.refunds, reference')
  <2>1. RefundsSound(m, books[m].refunds, reference)
    BY <1>2 DEF ProvidersInv
  <2>2. \A i \in DOMAIN books[m].refunds : books[m].refunds[i] \in MadeRows
    BY <1>3 DEF BookRows
  <2>3. \A i \in DOMAIN books[m].refunds : /\ books[m].refunds[i].attempt \in Attempts
                                          /\ reference[books[m].refunds[i].attempt] # Unset
    BY <1>2, <2>1, <2>2, ProvidersAssumption DEF MadeRows, RefundsSound
  <2> QED
    BY <1>4, <1>5, <2>1, <2>3 DEF RefundsSound
<1>7. sent' \subseteq Notices /\ sent \subseteq sent' /\ \A n \in sent' : n \in sent
  BY <1>1 DEF ProvidersInv, ProvidersTyped
<1>8. /\ cashier' = [d \in Cashiers |-> cashier'[d]]
      /\ \A d \in Cashiers : cashier'[d] = cashier[d] \/ cashier'[d] = NoCall
  BY <1>1, OneCallEnds
<1>9. /\ books[m].paid \subseteq book.paid
      /\ \A i \in DOMAIN books[m].refunds :
            i \in DOMAIN book.refunds /\ book.refunds[i] = books[m].refunds[i]
  BY <1>4
<1> QED
  BY <1>1, <1>2, <1>4, <1>5, <1>6, <1>7, <1>8, <1>9, BooksKeep

\* What a call reports happened at its account.
LEMMA LearningKeeps ==
  ASSUME ProvidersInv, NEW c \in Cashiers, EndsCall(c), NEW m \in Merchants, NEW kind, NEW a,
         NEW money, Learns(m, kind, a, money) \/ UNCHANGED learned,
         Happened(books, m, kind, a, Minor(money)),
         UNCHANGED <<configured, books, reference, sent>>
  PROVE  ProvidersInv'
<1> DEFINE fact == [by |-> m, kind |-> kind, attempt |-> a, amount |-> Minor(money)]
<1>1. learned' \subseteq learned \union {fact}
  BY DEF Learns
<1>2. FactSound(fact, books)
  BY DEF FactSound
<1> HIDE DEF fact
<1>3. \A f \in learned' : f \in learned \/ FactSound(f, books)
  BY <1>1, <1>2
<1> QED
  BY <1>3, QuietKeeps DEF EndsCall

LEMMA StatusIsAsItWas ==
  ASSUME ProvidersAssumption, ProvidersInv, NEW c \in Cashiers, GetPayment(c)
  PROVE  ProvidersInv'
<1> DEFINE m == cashier[c].account
           a == cashier[c].attempt
           money == Major(Charge)
<1>1. /\ cashier[c] # NoCall /\ cashier[c].stage = "ready" /\ EndsCall(c)
      /\ UNCHANGED <<configured, books, reference, sent>>
  BY DEF GetPayment, InCall, Unbounded
<1>2. m \in Merchants /\ Charge \in Nat
  BY <1>1, InTheCall, ProvidersAssumption
<1>3. CASE a \in books[m].paid /\ Learns(m, "capture", a, money)
  <2>1. Happened(books, m, "capture", a, Minor(money))
    BY <1>2, <1>3, MoneyComesAsItWent DEF Happened
  <2> HIDE DEF m, a, money
  <2> QED
    BY <1>1, <1>2, <1>3, <2>1, LearningKeeps
<1>4. CASE UNCHANGED learned
  BY <1>1, <1>4, EndingKeeps
<1> QED
  BY <1>3, <1>4 DEF GetPayment

LEMMA NoticeIsAsItWas ==
  ASSUME ProvidersInv, NEW c \in Cashiers, AcceptWebhook(c)
  PROVE  ProvidersInv'
<1> DEFINE m == cashier[c].account
           n == cashier[c].notice
           kind == n.kind
           a == n.attempt
           money == n.money
<1>1. /\ cashier[c] # NoCall /\ cashier[c].stage \in {"token", "ready"} /\ cashier[c].op = "verify"
      /\ EndsCall(c) /\ UNCHANGED <<configured, books, reference, sent>>
  BY DEF AcceptWebhook, InCall, Unbounded
<1>2. m \in Merchants /\ n \in sent
  BY <1>1, InTheCall DEF CallSound
<1>3. CASE Vouched(c)
  <2>1. n.from = m /\ Learns(m, kind, a, money)
    BY <1>3 DEF AcceptWebhook, Vouched
  <2>2. Happened(books, m, kind, a, Minor(money))
    BY <1>2, <2>1 DEF ProvidersInv, NoticeSound
  <2> HIDE DEF m, n, kind, a, money
  <2> QED
    BY <1>1, <1>2, <2>1, <2>2, LearningKeeps
<1>4. CASE ~Vouched(c)
  <2>1. UNCHANGED learned
    BY <1>4 DEF AcceptWebhook
  <2> QED
    BY <1>1, <2>1, EndingKeeps
<1> QED
  BY <1>3, <1>4

\* A refund is made at the account that has the attempt, and under a key that
\* account does not know.
LEMMA RefundIsMade ==
  ASSUME ProvidersAssumption, ProvidersInv, NEW c \in Cashiers, CreateRefund(c)
  PROVE  ProvidersInv'
<1> DEFINE m == cashier[c].account
           a == cashier[c].attempt
           k == cashier[c].key
           made == [attempt |-> a, key |-> k]
           list == Append(books[m].refunds, made)
           book == [books[m] EXCEPT !.refunds = list]
<1>1. /\ cashier[c] # NoCall /\ cashier[c].stage \in {"capture", "ready"} /\ cashier[c].op = "refund"
      /\ EndsCall(c) /\ UNCHANGED <<configured, reference, learned>>
  BY DEF CreateRefund, InCall, Unbounded
<1>2. /\ CallSound(cashier[c], sent, reference) /\ m \in Merchants /\ a \in Attempts
  BY <1>1, InTheCall
<1>3. CASE UNCHANGED <<books, sent>>
  BY <1>1, <1>3, EndingKeeps
<1>4. CASE ~(UNCHANGED <<books, sent>>)
  <2>1. /\ ~KnownRequest(m, k) /\ m = cashier[c].at /\ books' = [books EXCEPT ![m] = book]
        /\ sent' = IF m \in Paypals THEN sent \union {Notice(m, "refund", a, Back)} ELSE sent
    BY <1>4 DEF CreateRefund
  <2>2. k \in OperationKeys /\ k[1] = a /\ m = reference[a]
    BY <1>1, <1>2, <2>1 DEF CallSound
  <2>3. books[m] \in BookRows /\ books[m].refunds \in Seq(MadeRows)
    BY <1>2 DEF ProvidersInv, ProvidersTyped, BookRows
  <2>4. made \in MadeRows /\ made.key = k /\ made.attempt = a
    BY <1>2, <2>2 DEF MadeRows
  <2> DEFINE old == books[m].refunds
  <2>5. /\ list \in Seq(MadeRows) /\ DOMAIN list = 1..(Len(old) + 1) /\ DOMAIN old = 1..Len(old)
        /\ Len(old) \in Nat /\ list[Len(old) + 1] = made
        /\ \A i \in DOMAIN old : i \in DOMAIN list /\ list[i] = old[i]
    <3>1. list = Append(old, made) /\ old \in Seq(MadeRows)
      BY <2>3
    <3> HIDE DEF made, old, list
    <3> QED
      BY <2>4, <3>1
  <2>6. \A i \in DOMAIN list : i \in DOMAIN old \/ i = Len(old) + 1
    BY <2>5
  <2> HIDE DEF made, list
  <2>7. book \in BookRows /\ book.paid = books[m].paid /\ book.refunds = list
    BY <2>3, <2>5 DEF BookRows
  <2>8. m \in Paypals => \A i \in DOMAIN old : old[i].key # k
    BY <2>1, UnderKeyIs DEF KnownRequest
  <2>9. RefundsSound(m, list, reference)
    <3>1. RefundsSound(m, old, reference)
      BY <1>2 DEF ProvidersInv
    <3>2. \A i \in DOMAIN list : list[i].key[1] = list[i].attempt /\ reference[list[i].attempt] = m
      <4> SUFFICES ASSUME NEW i \in DOMAIN list
                   PROVE  list[i].key[1] = list[i].attempt /\ reference[list[i].attempt] = m
        OBVIOUS
      <4>1. CASE i \in DOMAIN old
        BY <2>5, <3>1, <4>1 DEF RefundsSound
      <4>2. CASE i = Len(old) + 1
        BY <2>2, <2>4, <2>5, <4>2
      <4> QED
        BY <2>6, <4>1, <4>2
    <3>3. m \in Paypals => \A i, j \in DOMAIN list : list[i].key = list[j].key => i = j
      <4> HAVE m \in Paypals
      <4>1. \A i, j \in DOMAIN old : old[i].key = old[j].key => i = j
        BY <3>1 DEF RefundsSound
      <4> QED
        BY <2>4, <2>5, <2>6, <2>8, <4>1
    <3> QED
      BY <3>2, <3>3 DEF RefundsSound
  <2> DEFINE notice == Notice(m, "refund", a, Back)
  <2>10. notice \in Notices /\ NoticeSound(notice, books')
    <3>1. Back \in Nat
      BY ProvidersAssumption
    <3>2. /\ notice \in Notices /\ notice.from = m /\ notice.kind = "refund" /\ notice.attempt = a
          /\ Minor(notice.money) = Back
      BY <1>2, <3>1, MoneyComesAsItWent DEF Notice, Notices
    <3>3. books'[m] = book
      BY <1>2, <2>1 DEF ProvidersInv, ProvidersTyped
    <3>4. Len(old) + 1 \in DOMAIN books'[m].refunds
      BY <2>5, <2>7, <3>3
    <3>5. books'[m].refunds[Len(old) + 1].attempt = a
      BY <2>4, <2>5, <2>7, <3>3
    <3> HIDE DEF notice, book
    <3> QED
      BY <3>2, <3>4, <3>5 DEF NoticeSound, Happened
  <2> HIDE DEF notice, book, m, a
  <2>11. /\ sent \subseteq sent' /\ sent' \subseteq Notices
         /\ \A n \in sent' : n \in sent \/ NoticeSound(n, books')
    BY <2>1, <2>10 DEF ProvidersInv, ProvidersTyped, notice
  <2>12. /\ cashier' = [d \in Cashiers |-> cashier'[d]]
         /\ \A d \in Cashiers : cashier'[d] = cashier[d] \/ cashier'[d] = NoCall
    BY <1>1, OneCallEnds
  <2>13. /\ reference' \in [Attempts -> Merchants \union {Unset}]
         /\ \A b \in Attempts : reference[b] # Unset => reference'[b] = reference[b]
         /\ RefundsSound(m, book.refunds, reference')
    BY <1>1, <2>7, <2>9 DEF ProvidersInv, ProvidersTyped
  <2>14. /\ books[m].paid \subseteq book.paid
         /\ \A i \in DOMAIN books[m].refunds :
               i \in DOMAIN book.refunds /\ book.refunds[i] = books[m].refunds[i]
    BY <2>5, <2>7
  <2> QED
    BY <1>1, <1>2, <2>1, <2>7, <2>11, <2>12, <2>13, <2>14, BooksKeep
<1> QED
  BY <1>3, <1>4

LEMMA PayingKeeps ==
  ASSUME ProvidersAssumption, ProvidersInv, NEW m \in Merchants, NEW a \in Attempts, Pays(m, a)
  PROVE  ProvidersInv'
<1> DEFINE book == [books[m] EXCEPT !.paid = books[m].paid \union {a}]
           notice == Notice(m, "capture", a, Charge)
<1>1. /\ books' = [books EXCEPT ![m] = book] /\ sent' = sent \union {notice}
      /\ UNCHANGED <<configured, cashier, reference, learned>>
  BY DEF Pays, Unbounded
<1>2. books[m] \in BookRows
  BY DEF ProvidersInv, ProvidersTyped
<1>3. /\ book \in BookRows /\ book.paid = books[m].paid \union {a}
      /\ book.refunds = books[m].refunds
  BY <1>2 DEF BookRows
<1>4. notice \in Notices /\ NoticeSound(notice, books')
  <2>1. Charge \in Nat
    BY ProvidersAssumption
  <2>2. /\ notice \in Notices /\ notice.from = m /\ notice.kind = "capture" /\ notice.attempt = a
        /\ Minor(notice.money) = Charge
    BY <2>1, MoneyComesAsItWent DEF Notice, Notices
  <2>3. a \in books'[m].paid
    BY <1>1, <1>3 DEF ProvidersInv, ProvidersTyped
  <2> HIDE DEF notice
  <2> QED
    BY <2>2, <2>3 DEF NoticeSound, Happened
<1> HIDE DEF book, notice
<1>5. /\ sent \subseteq sent' /\ sent' \subseteq Notices
      /\ \A n \in sent' : n \in sent \/ NoticeSound(n, books')
  BY <1>1, <1>4 DEF ProvidersInv, ProvidersTyped
<1>6. /\ cashier' = [d \in Cashiers |-> cashier'[d]]
      /\ \A d \in Cashiers : cashier'[d] = cashier[d] \/ cashier'[d] = NoCall
      /\ reference' \in [Attempts -> Merchants \union {Unset}]
      /\ \A b \in Attempts : reference[b] # Unset => reference'[b] = reference[b]
      /\ RefundsSound(m, book.refunds, reference')
  BY <1>1, <1>3 DEF ProvidersInv, ProvidersTyped
<1>7. /\ books[m].paid \subseteq book.paid
      /\ \A i \in DOMAIN books[m].refunds :
            i \in DOMAIN book.refunds /\ book.refunds[i] = books[m].refunds[i]
  BY <1>3
<1> QED
  BY <1>1, <1>3, <1>5, <1>6, <1>7, BooksKeep

\* What is outside the calls: settings change, notices age.
LEMMA OutsideKeeps ==
  ASSUME ProvidersInv, UNCHANGED <<cashier, books, reference, sent, learned>>,
         configured' \in [Gateways -> Merchants \union {Unset}]
  PROVE  ProvidersInv'
BY DEF ProvidersInv, ProvidersTyped

LEMMA ProvidersKeep ==
  ASSUME ProvidersAssumption, ProvidersInv, [ProvidersNext]_providersVars
  PROVE  ProvidersInv'
<1>1. configured \in [Gateways -> Merchants \union {Unset}]
  BY DEF ProvidersInv, ProvidersTyped
<1>2. ASSUME NEW c \in Cashiers, ResolveCaptureRef(c) PROVE ProvidersInv'
  <2>1. /\ cashier[c] # NoCall /\ cashier[c].stage = "ready" /\ (Reaches(c, "capture") \/ EndsCall(c))
        /\ UNCHANGED <<configured, books, reference, sent, learned>>
    BY <1>2 DEF ResolveCaptureRef, InCall, Unbounded
  <2>2. cashier[c].account \in Merchants
    BY <2>1, InTheCall
  <2> QED
    BY <2>1, <2>2, EndingKeeps, ReachingKeeps
<1>3. ASSUME NEW c \in Cashiers, FetchToken(c) PROVE ProvidersInv'
  <2>1. /\ cashier[c] # NoCall /\ cashier[c].stage = "ready" /\ Reaches(c, "token")
        /\ UNCHANGED <<configured, books, reference, sent, learned>>
    BY <1>3 DEF FetchToken, InCall, Unbounded
  <2>2. cashier[c].account \in Merchants
    BY <2>1, InTheCall
  <2> QED
    BY <2>1, <2>2, ReachingKeeps
<1>4. ASSUME NEW c \in Cashiers, GivesUpCall(c) PROVE ProvidersInv'
  BY <1>4, EndingKeeps DEF GivesUpCall, Unbounded
<1>5. ASSUME NEW n, Ages(n) PROVE ProvidersInv'
  BY <1>1, <1>5, OutsideKeeps DEF Ages, Unbounded
<1>6. ASSUME NEW p \in Gateways, Reconfigure(p) PROVE ProvidersInv'
  <2>1. PICK m \in MerchantsOf(p) \union {Unset} : configured' = [configured EXCEPT ![p] = m]
    BY <1>6 DEF Reconfigure
  <2>2. m \in Merchants \union {Unset}
    BY <2>1 DEF MerchantsOf, Merchants
  <2>3. configured' \in [Gateways -> Merchants \union {Unset}]
    BY <1>1, <2>1, <2>2
  <2> QED
    BY <1>6, <2>3, OutsideKeeps DEF Reconfigure
<1>7. CASE UNCHANGED providersVars
  BY <1>1, <1>7, OutsideKeeps DEF providersVars
<1> QED
  BY <1>2, <1>3, <1>4, <1>5, <1>6, <1>7, CallingKeeps, ConfiguringKeeps, PaymentIsOpened,
     StatusIsAsItWas, NoticeIsAsItWas, RefundIsMade, PayingKeeps DEF ProvidersNext, PortCall

LEMMA AtMostOne ==
  ASSUME NEW S, \A x, y \in S : x = y
  PROVE  Cardinality(S) <= 1
<1>1. CASE S = {}
  BY <1>1, FS_EmptySet
<1>2. CASE S # {}
  <2>1. PICK x : S = {x}
    BY <1>2
  <2>2. Cardinality({x}) = 1
    BY FS_Singleton
  <2> QED
    BY <2>1, <2>2
<1> QED
  BY <1>1, <1>2

LEMMA ProvidersStart == ProvidersInit => ProvidersInv
<1> USE ProvidersAssumption
<1> HAVE ProvidersInit
<1>1. configured \in [Gateways -> Merchants \union {Unset}]
  BY DEF ProvidersInit
<1>2. /\ books \in [Merchants -> BookRows]
      /\ \A m \in Merchants : books[m].refunds = <<>>
  <2> DEFINE book == [opened |-> {}, paid |-> {}, refunds |-> <<>>]
  <2>1. book \in BookRows /\ book.refunds = <<>>
    BY DEF BookRows
  <2>2. books = [m \in Merchants |-> book]
    BY DEF ProvidersInit
  <2> HIDE DEF book
  <2> QED
    BY <2>1, <2>2
<1>3. \A m \in Merchants : RefundsSound(m, books[m].refunds, reference)
  BY <1>2 DEF RefundsSound
<1> QED
  BY <1>1, <1>2, <1>3 DEF ProvidersInit, ProvidersInv, ProvidersTyped

\* What the adapters report happened, and what they make happens once.
THEOREM ProvidersAreAgreedWith == ProvidersSpec => []AgreesWithProviders
<1> USE ProvidersAssumption
<1>1. ProvidersInit => ProvidersInv
  BY ProvidersStart
<1>2. ProvidersInv /\ [ProvidersNext]_providersVars => ProvidersInv'
  BY ProvidersKeep
<1>3. ProvidersInv => AgreesWithProviders
  <2> HAVE ProvidersInv
  <2>1. ReportedAsItWas
    BY DEF ProvidersInv, FactSound, Happened, ReportedAsItWas
  <2>2. ASSUME NEW k \in OperationKeys
        PROVE  LET there == {at \in Paypals \X (1..MaxCashierCalls) : at[2] \in UnderKey(at[1], k)}
               IN  Cardinality(there) <= 1
    <3> DEFINE there == {at \in Paypals \X (1..MaxCashierCalls) : at[2] \in UnderKey(at[1], k)}
    <3>1. ASSUME NEW x \in there, NEW y \in there PROVE x = y
      <4>1. /\ x[1] \in Merchants /\ x[2] \in DOMAIN books[x[1]].refunds
            /\ books[x[1]].refunds[x[2]].key = k /\ x = <<x[1], x[2]>> /\ x[1] \in Paypals
            /\ y[1] \in Merchants /\ y[2] \in DOMAIN books[y[1]].refunds
            /\ books[y[1]].refunds[y[2]].key = k /\ y = <<y[1], y[2]>>
        BY UnderKeyIs DEF Merchants
      <4>2. reference[k[1]] = x[1] /\ reference[k[1]] = y[1]
        BY <4>1 DEF ProvidersInv, RefundsSound
      <4>3. x[2] = y[2]
        BY <4>1, <4>2 DEF ProvidersInv, RefundsSound
      <4> QED
        BY <4>1, <4>2, <4>3
    <3> HIDE DEF there
    <3>2. Cardinality(there) <= 1
      BY <3>1, AtMostOne
    <3> QED
      BY <3>2 DEF there
  <2>3. RefundedOncePerKey
    BY <2>2 DEF RefundedOncePerKey, OperationKeys
  <2> QED
    BY <2>1, <2>3 DEF AgreesWithProviders
<1> QED
  BY <1>1, <1>2, <1>3, PTL DEF ProvidersSpec

-----------------------------------------------------------------------------
(* Paging: as long as no row leaves or crosses the pages that were turned, *)
(* no row owed to the reader stands before the page that is next, and a    *)
(* count that no row came after promises a page for every row.             *)

Marks == {"owed", "other"}
WalkRows == [phase : Phases, page : Nat \ {0}, total : Nat, shifted : BOOLEAN, late : BOOLEAN]

PassedSound(query, w, before) ==
    ~w.shifted => \A i \in 1..Len(query) : i <= before => query[i] # "owed"

PagingInv ==
    /\ listed \in Seq(Marks) /\ walk \in WalkRows
    /\ PassedSound(listed, walk, Turned)
    /\ walk.phase = "counted" /\ ~walk.late => Len(listed) <= walk.total
    /\ NothingMissed

\* The rows before the place of a new row stay, those behind it move one on.
\* The sequence t of elements of S is s with e put at place i.
HasInserted(S, s, i, e, t) ==
    /\ t \in Seq(S) /\ Len(t) = Len(s) + 1
    /\ \A j \in 1..(Len(s) + 1) : t[j] = IF j < i THEN s[j] ELSE IF j = i THEN e ELSE s[j - 1]

LEMMA InsertedAt ==
  ASSUME NEW S, NEW s \in Seq(S), NEW i \in 1..(Len(s) + 1), NEW e \in S
  PROVE  HasInserted(S, s, i, e, InsertAt(s, i, e))
<1> DEFINE head == SubSeq(s, 1, i - 1)
           tail == SubSeq(s, i, Len(s))
<1>1. /\ head \in Seq(S) /\ Len(head) = i - 1
      /\ \A j \in 1..(i - 1) : head[j] = s[j]
  OBVIOUS
<1>2. /\ tail \in Seq(S) /\ Len(tail) = Len(s) + 1 - i
      /\ \A j \in 1..(Len(s) + 1 - i) : tail[j] = s[i + j - 1]
  OBVIOUS
<1>3. InsertAt(s, i, e) = (head \o <<e>>) \o tail
  BY DEF InsertAt
<1> HIDE DEF head, tail
<1> DEFINE both == head \o <<e>>
<1>4. /\ both \in Seq(S) /\ Len(both) = i
      /\ \A j \in 1..i : both[j] = IF j < i THEN s[j] ELSE e
  BY <1>1
<1>5. InsertAt(s, i, e) = both \o tail
  BY <1>3
<1> HIDE DEF both
<1>6. InsertAt(s, i, e) \in Seq(S) /\ Len(InsertAt(s, i, e)) = Len(s) + 1
  <2>1. both \in Seq(S) /\ tail \in Seq(S)
    BY <1>2, <1>4
  <2>2. both \o tail \in Seq(S) /\ Len(both \o tail) = Len(both) + Len(tail)
    BY <2>1
  <2>3. i + (Len(s) + 1 - i) = Len(s) + 1
    OBVIOUS
  <2> QED
    BY <1>2, <1>4, <1>5, <2>2, <2>3
<1>7. ASSUME NEW j \in 1..(Len(s) + 1), j <= i
      PROVE  InsertAt(s, i, e)[j] = IF j < i THEN s[j] ELSE e
  BY <1>2, <1>4, <1>5, <1>7
<1>8. ASSUME NEW j \in 1..(Len(s) + 1), j > i PROVE InsertAt(s, i, e)[j] = s[j - 1]
  <2>1. InsertAt(s, i, e)[j] = tail[j - i] /\ j - i \in 1..(Len(s) + 1 - i)
    BY <1>2, <1>4, <1>5, <1>8
  <2> QED
    BY <1>2, <1>8, <2>1
<1> QED
  BY <1>6, <1>7, <1>8 DEF HasInserted

\* The rows before one that goes stay, those behind it move one back.
LEMMA RemovedAt ==
  ASSUME NEW S, NEW s \in Seq(S), NEW i \in 1..Len(s)
  PROVE  /\ RemoveAt(s, i) \in Seq(S) /\ Len(RemoveAt(s, i)) = Len(s) - 1
         /\ \A j \in 1..(Len(s) - 1) : RemoveAt(s, i)[j] = IF j < i THEN s[j] ELSE s[j + 1]
<1> DEFINE head == SubSeq(s, 1, i - 1)
           tail == SubSeq(s, i + 1, Len(s))
<1>1. /\ head \in Seq(S) /\ Len(head) = i - 1
      /\ \A j \in 1..(i - 1) : head[j] = s[j]
  OBVIOUS
<1>2. /\ tail \in Seq(S) /\ Len(tail) = Len(s) - i
      /\ \A j \in 1..(Len(s) - i) : tail[j] = s[i + j]
  OBVIOUS
<1>3. RemoveAt(s, i) = head \o tail
  BY DEF RemoveAt
<1> HIDE DEF head, tail
<1>4. RemoveAt(s, i) \in Seq(S) /\ Len(RemoveAt(s, i)) = Len(s) - 1
  BY <1>1, <1>2, <1>3
<1>5. ASSUME NEW j \in 1..(Len(s) - 1), j < i PROVE RemoveAt(s, i)[j] = s[j]
  BY <1>1, <1>2, <1>3, <1>5
<1>6. ASSUME NEW j \in 1..(Len(s) - 1), ~(j < i) PROVE RemoveAt(s, i)[j] = s[j + 1]
  <2>1. RemoveAt(s, i)[j] = tail[j - (i - 1)] /\ j - (i - 1) \in 1..(Len(s) - i)
    BY <1>1, <1>2, <1>3, <1>6
  <2> QED
    BY <1>2, <1>6, <2>1
<1> QED
  BY <1>4, <1>5, <1>6

LEMMA CountingKeeps ==
  ASSUME PagingAssumption, PagingInv, walk.phase # "done", FetchCount
  PROVE  PagingInv'
<1>1. /\ walk.phase = "turning" /\ UNCHANGED listed
      /\ walk' = [walk EXCEPT !.phase = "counted", !.total = Len(listed), !.late = FALSE]
  BY DEF FetchCount
<1>2. listed \in Seq(Marks) /\ walk \in WalkRows /\ Len(listed) \in Nat
  BY DEF PagingInv
<1>3. /\ walk'.phase = "counted" /\ walk'.total = Len(listed)
      /\ walk'.page = walk.page /\ walk'.shifted = walk.shifted
      /\ walk' \in WalkRows
  <2> DEFINE one == [walk EXCEPT !.phase = "counted"]
             two == [one EXCEPT !.total = Len(listed)]
  <2>1. one \in WalkRows /\ one.phase = "counted" /\ one.page = walk.page /\ one.shifted = walk.shifted
    BY <1>2 DEF WalkRows, Phases
  <2>2. walk' = [two EXCEPT !.late = FALSE]
    BY <1>1
  <2> HIDE DEF one
  <2>3. /\ two \in WalkRows /\ two.phase = "counted" /\ two.page = walk.page
        /\ two.shifted = walk.shifted /\ two.total = Len(listed)
    BY <1>2, <2>1 DEF WalkRows
  <2> HIDE DEF two
  <2> QED
    BY <2>2, <2>3 DEF WalkRows
<1>4. PassedSound(listed', walk', Turned')
  BY <1>1, <1>3 DEF PagingInv, PassedSound, Turned
<1> QED
  BY <1>1, <1>2, <1>3, <1>4 DEF PagingInv, NothingMissed

LEMMA ReadingKeeps ==
  ASSUME PagingAssumption, PagingInv, walk.phase # "done", FetchRows
  PROVE  PagingInv'
<1>1. /\ walk.phase = "counted"
      /\ listed' = [i \in DOMAIN listed |->
                      IF Offset < i /\ i <= Offset + PageSize THEN "other" ELSE listed[i]]
  BY DEF FetchRows
<1>2. /\ listed \in Seq(Marks) /\ walk \in WalkRows /\ Len(listed) \in Nat
      /\ walk.page \in Nat \ {0} /\ PageSize \in Nat \ {0} /\ walk.total \in Nat
  BY DEF PagingInv, WalkRows, PagingAssumption
<1>3. /\ listed' \in Seq(Marks) /\ Len(listed') = Len(listed)
      /\ \A i \in 1..Len(listed) :
           listed'[i] = IF Offset < i /\ i <= Offset + PageSize THEN "other" ELSE listed[i]
  <2>1. DOMAIN listed = 1..Len(listed)
    BY <1>2
  <2>2. \A i \in 1..Len(listed) : listed[i] \in Marks
    BY <1>2
  <2> QED
    BY <1>1, <1>2, <2>1, <2>2 DEF Marks
<1>4. Offset = Turned /\ Turned \in Nat /\ walk.page * PageSize = Turned + PageSize
  <2>1. walk.page - 1 \in Nat /\ walk.page = (walk.page - 1) + 1
    BY <1>2
  <2>2. \A a, b \in Nat : (a + 1) * b = a * b + b /\ a * b \in Nat
    OBVIOUS
  <2> QED
    BY <1>2, <2>1, <2>2 DEF Offset, Turned
<1>5. /\ walk' \in WalkRows /\ walk'.shifted = walk.shifted /\ walk'.late = walk.late
      /\ walk'.phase \in {"turning", "done"}
      /\ Turned' = Turned \/ Turned' = Turned + PageSize
      /\ walk'.phase = "done" => walk.total <= Turned + PageSize
  <2>1. CASE HasNext
    <3> DEFINE one == [walk EXCEPT !.phase = "turning"]
    <3>1. walk' = [one EXCEPT !.page = walk.page + 1]
      BY <2>1 DEF FetchRows
    <3>2. /\ one \in WalkRows /\ one.phase = "turning" /\ one.shifted = walk.shifted
          /\ one.late = walk.late
      BY <1>2 DEF WalkRows, Phases
    <3> HIDE DEF one
    <3>3. /\ walk' \in WalkRows /\ walk'.phase = "turning" /\ walk'.shifted = walk.shifted
          /\ walk'.late = walk.late /\ walk'.page = walk.page + 1
      BY <1>2, <3>1, <3>2 DEF WalkRows
    <3>4. walk'.page - 1 = walk.page
      BY <1>2, <3>3
    <3>5. Turned' = walk.page * PageSize
      BY <3>4 DEF Turned
    <3> QED
      BY <1>4, <3>3, <3>5
  <2>2. CASE ~HasNext
    <3>1. walk' = [walk EXCEPT !.phase = "done"]
      BY <2>2 DEF FetchRows
    <3>2. /\ walk' \in WalkRows /\ walk'.phase = "done" /\ walk'.shifted = walk.shifted
          /\ walk'.late = walk.late /\ walk'.page = walk.page
      BY <1>2, <3>1 DEF WalkRows, Phases
    <3>3. walk.total <= walk.page * PageSize
      BY <1>2, <1>4, <2>2 DEF HasNext
    <3> QED
      BY <1>4, <3>2, <3>3 DEF Turned
  <2> QED
    BY <2>1, <2>2
<1>6. \A i \in 1..Len(listed) : ~walk.shifted /\ i <= Turned + PageSize => listed'[i] # "owed"
  <2>1. PassedSound(listed, walk, Turned)
    BY DEF PagingInv
  <2> QED
    BY <1>2, <1>3, <1>4, <2>1 DEF PassedSound
<1>7. PassedSound(listed', walk', Turned')
  BY <1>2, <1>3, <1>4, <1>5, <1>6 DEF PassedSound
<1>8. NothingMissed'
  <2>1. ASSUME walk'.phase = "done", ~walk'.shifted, ~walk'.late, NEW i \in 1..Len(listed')
        PROVE  listed'[i] # "owed"
    <3>1. Len(listed) <= walk.total /\ walk.total <= Turned + PageSize
      BY <1>1, <1>5, <2>1 DEF PagingInv
    <3> QED
      BY <1>2, <1>3, <1>4, <1>5, <1>6, <2>1, <3>1
  <2>2. DOMAIN listed' = 1..Len(listed')
    BY <1>3
  <2> QED
    BY <2>1, <2>2 DEF NothingMissed
<1> QED
  BY <1>3, <1>5, <1>7, <1>8 DEF PagingInv

\* A row that comes pushes others on, and none of those is owed to the reader
\* unless it was: the ones it pushes out of the pages turned are read again.
LEMMA ComingKeeps ==
  ASSUME PagingAssumption, PagingInv, walk.phase # "done", RowComes
  PROVE  PagingInv'
<1>1. PICK i \in 1..(Len(listed) + 1) : listed' = InsertAt(listed, i, "other")
  BY DEF RowComes
<1>2. /\ listed \in Seq(Marks) /\ walk \in WalkRows /\ Len(listed) \in Nat
      /\ "other" \in Marks
  BY DEF PagingInv, Marks
<1>3. /\ listed' \in Seq(Marks) /\ Len(listed') = Len(listed) + 1
      /\ \A j \in 1..(Len(listed) + 1) :
           listed'[j] = IF j < i THEN listed[j] ELSE IF j = i THEN "other" ELSE listed[j - 1]
  <2> DEFINE new == "other"
  <2>1. new \in Marks /\ listed' = InsertAt(listed, i, new)
    BY <1>1 DEF Marks
  <2> HIDE DEF new
  <2>2. /\ listed' \in Seq(Marks) /\ Len(listed') = Len(listed) + 1
        /\ \A j \in 1..(Len(listed) + 1) :
             listed'[j] = IF j < i THEN listed[j] ELSE IF j = i THEN new ELSE listed[j - 1]
    <3>1. HasInserted(Marks, listed, i, new, InsertAt(listed, i, new))
      BY <1>2, <2>1, InsertedAt
    <3> QED
      BY <2>1, <3>1 DEF HasInserted
  <2> QED
    BY <2>2 DEF new
<1>4. /\ walk' \in WalkRows /\ walk'.shifted = walk.shifted /\ walk'.page = walk.page
      /\ walk'.phase = walk.phase /\ (walk.phase = "counted" => walk'.late)
  <2> DEFINE late == walk.phase = "counted"
  <2>1. late \in BOOLEAN
    OBVIOUS
  <2>2. walk' = [walk EXCEPT !.late = late]
    BY DEF RowComes
  <2>3. walk.phase = "counted" => late
    OBVIOUS
  <2> HIDE DEF late
  <2> QED
    BY <1>2, <2>1, <2>2, <2>3 DEF WalkRows
<1>5. PassedSound(listed', walk', Turned')
  <2>1. Turned' = Turned /\ Turned \in Int
    BY <1>2, <1>4 DEF Turned, WalkRows, PagingAssumption
  <2>2. PassedSound(listed, walk, Turned)
    BY DEF PagingInv
  <2>3. ASSUME ~walk.shifted, NEW j \in 1..(Len(listed) + 1), j <= Turned PROVE listed'[j] # "owed"
    <3>1. CASE j < i
      <4>1. j \in 1..Len(listed)
        BY <1>2, <3>1
      <4> QED
        BY <1>3, <2>2, <2>3, <3>1, <4>1 DEF PassedSound
    <3>2. CASE j = i
      BY <1>3, <3>2
    <3>3. CASE j > i
      <4>1. j - 1 \in 1..Len(listed) /\ j - 1 <= Turned
        BY <1>2, <2>1, <2>3, <3>3
      <4>2. listed'[j] = listed[j - 1]
        BY <1>3, <3>3
      <4> QED
        BY <2>2, <2>3, <4>1, <4>2 DEF PassedSound
    <3> QED
      BY <3>1, <3>2, <3>3
  <2> QED
    BY <1>3, <1>4, <2>1, <2>3 DEF PassedSound
<1> QED
  BY <1>3, <1>4, <1>5 DEF PagingInv, NothingMissed

\* What a row that left the rows behind the pages turned leaves behind.
LEMMA GoingKeeps ==
  ASSUME PagingAssumption, PagingInv, walk.phase # "done", RowGoes
  PROVE  PagingInv'
<1>1. PICK i \in DOMAIN listed : /\ listed' = RemoveAt(listed, i)
                                 /\ walk' = [walk EXCEPT !.shifted = @ \/ i <= Turned]
  BY DEF RowGoes
<1>2. /\ listed \in Seq(Marks) /\ walk \in WalkRows /\ Len(listed) \in Nat
      /\ DOMAIN listed = 1..Len(listed) /\ i \in 1..Len(listed)
  <2>1. listed \in Seq(Marks) /\ walk \in WalkRows
    BY Zenon DEF PagingInv
  <2> QED
    BY <2>1
<1>3. /\ listed' \in Seq(Marks) /\ Len(listed') = Len(listed) - 1
      /\ \A j \in 1..(Len(listed) - 1) :
           listed'[j] = IF j < i THEN listed[j] ELSE listed[j + 1]
  BY <1>1, <1>2, RemovedAt
<1>4. /\ walk' \in WalkRows /\ walk'.page = walk.page /\ walk'.late = walk.late
      /\ walk'.phase = walk.phase /\ walk'.total = walk.total
      /\ ~walk'.shifted => ~walk.shifted /\ ~(i <= Turned)
  <2> DEFINE shifted == walk.shifted \/ i <= Turned
  <2>1. shifted \in BOOLEAN /\ (~shifted => ~walk.shifted /\ ~(i <= Turned))
    OBVIOUS
  <2>2. walk' = [walk EXCEPT !.shifted = shifted]
    BY <1>1
  <2> HIDE DEF shifted
  <2> QED
    BY <1>2, <2>1, <2>2 DEF WalkRows
<1>5. PassedSound(listed', walk', Turned')
  <2>1. Turned' = Turned /\ Turned \in Int
    BY <1>2, <1>4 DEF Turned, WalkRows, PagingAssumption
  <2>2. PassedSound(listed, walk, Turned)
    BY DEF PagingInv
  <2>3. ASSUME ~walk'.shifted, NEW j \in 1..(Len(listed) - 1), j <= Turned PROVE listed'[j] # "owed"
    <3>1. j < i /\ j \in 1..Len(listed)
      BY <1>2, <1>4, <2>1, <2>3
    <3> QED
      BY <1>3, <1>4, <2>2, <2>3, <3>1 DEF PassedSound
  <2> QED
    BY <1>3, <2>1, <2>3 DEF PassedSound
<1>6. walk'.phase = "counted" /\ ~walk'.late => Len(listed') <= walk'.total
  BY <1>2, <1>3, <1>4 DEF PagingInv, WalkRows
<1> QED
  BY <1>3, <1>4, <1>5, <1>6 DEF PagingInv, NothingMissed

LEMMA MovingKeeps ==
  ASSUME PagingAssumption, PagingInv, walk.phase # "done", RowMoves
  PROVE  PagingInv'
<1>1. PICK i \in DOMAIN listed, j \in DOMAIN listed :
          /\ i # j /\ listed' = InsertAt(RemoveAt(listed, i), j, listed[i])
          /\ walk' = [walk EXCEPT !.shifted = @ \/ (i <= Turned) # (j <= Turned)]
  BY DEF RowMoves
<1>2. /\ listed \in Seq(Marks) /\ walk \in WalkRows /\ Len(listed) \in Nat
      /\ i \in 1..Len(listed) /\ j \in 1..Len(listed) /\ listed[i] \in Marks
  BY DEF PagingInv
<1> DEFINE rest == RemoveAt(listed, i)
<1>3. /\ rest \in Seq(Marks) /\ Len(rest) = Len(listed) - 1
      /\ \A k \in 1..(Len(listed) - 1) : rest[k] = IF k < i THEN listed[k] ELSE listed[k + 1]
  BY <1>2, RemovedAt
<1> HIDE DEF rest
<1>4. /\ listed' \in Seq(Marks) /\ Len(listed') = Len(listed)
      /\ \A k \in 1..Len(listed) :
           listed'[k] = IF k < j THEN rest[k] ELSE IF k = j THEN listed[i] ELSE rest[k - 1]
  <2>1. j \in 1..(Len(rest) + 1) /\ Len(rest) + 1 = Len(listed)
    BY <1>2, <1>3
  <2>2. listed' = InsertAt(rest, j, listed[i])
    BY <1>1 DEF rest
  <2> QED
    <3> DEFINE e == listed[i]
    <3>1. e \in Marks /\ listed' = InsertAt(rest, j, e) /\ rest \in Seq(Marks)
      BY <1>2, <1>3, <2>2
    <3>2. j \in 1..(Len(rest) + 1)
      BY <2>1
    <3> HIDE DEF e
    <3>3. /\ listed' \in Seq(Marks) /\ Len(listed') = Len(rest) + 1
          /\ \A k \in 1..(Len(rest) + 1) :
               listed'[k] = IF k < j THEN rest[k] ELSE IF k = j THEN e ELSE rest[k - 1]
      <4>1. HasInserted(Marks, rest, j, e, InsertAt(rest, j, e))
        BY <3>1, <3>2, InsertedAt
      <4> QED
        BY <3>1, <4>1 DEF HasInserted
    <3> QED
      BY <2>1, <3>3 DEF e
<1>5. /\ walk' \in WalkRows /\ walk'.page = walk.page /\ walk'.late = walk.late
      /\ walk'.phase = walk.phase /\ walk'.total = walk.total
      /\ ~walk'.shifted => ~walk.shifted /\ ((i <= Turned) <=> (j <= Turned))
  <2> DEFINE shifted == walk.shifted \/ (i <= Turned) # (j <= Turned)
  <2>1. shifted \in BOOLEAN /\ (~shifted => ~walk.shifted /\ ((i <= Turned) <=> (j <= Turned)))
    OBVIOUS
  <2>2. walk' = [walk EXCEPT !.shifted = shifted]
    BY <1>1
  <2> HIDE DEF shifted
  <2> QED
    BY <1>2, <2>1, <2>2 DEF WalkRows
<1>6. PassedSound(listed', walk', Turned')
  <2>1. Turned' = Turned /\ Turned \in Int
    BY <1>2, <1>5 DEF Turned, WalkRows, PagingAssumption
  <2>2. PassedSound(listed, walk, Turned)
    BY DEF PagingInv
  <2>3. ASSUME ~walk'.shifted, NEW k \in 1..Len(listed), k <= Turned PROVE listed'[k] # "owed"
    <3>1. \A n \in 1..Len(listed) : n <= Turned => listed[n] # "owed"
      BY <1>5, <2>2, <2>3 DEF PassedSound
    <3>2. CASE k = j
      BY <1>2, <1>4, <1>5, <2>3, <3>1, <3>2
    <3>3. CASE k < j
      <4>1. k \in 1..(Len(listed) - 1) /\ listed'[k] = rest[k]
        BY <1>2, <1>4, <3>3
      <4>2. CASE k < i
        BY <1>3, <2>3, <3>1, <4>1, <4>2
      <4>3. CASE ~(k < i)
        <5>1. listed'[k] = listed[k + 1] /\ k + 1 \in 1..Len(listed)
          BY <1>2, <1>3, <4>1, <4>3
        <5>2. k + 1 <= Turned
          BY <1>2, <1>5, <2>1, <2>3, <3>3, <4>3
        <5> QED
          BY <3>1, <5>1, <5>2
      <4> QED
        BY <4>2, <4>3
    <3>4. CASE k > j
      <4>1. k - 1 \in 1..(Len(listed) - 1) /\ listed'[k] = rest[k - 1] /\ k - 1 <= Turned
        BY <1>2, <1>4, <2>1, <2>3, <3>4
      <4>2. listed'[k] = listed[k - 1] \/ listed'[k] = listed[k]
        BY <1>2, <1>3, <4>1
      <4> QED
        BY <1>2, <2>3, <3>1, <4>1, <4>2
    <3> QED
      BY <1>2, <3>2, <3>3, <3>4
  <2> QED
    BY <1>4, <2>1, <2>3 DEF PassedSound
<1>7. walk'.phase = "counted" /\ ~walk'.late => Len(listed') <= walk'.total
  BY <1>2, <1>4, <1>5 DEF PagingInv
<1> QED
  BY <1>4, <1>5, <1>6, <1>7 DEF PagingInv, NothingMissed

LEMMA PagingStart == PagingInit => PagingInv
<1> USE PagingAssumption
<1> HAVE PagingInit
<1>1. PICK n \in 0..MaxFirst : listed = [i \in 1..n |-> "owed"]
  BY DEF PagingInit
<1>2. listed \in Seq(Marks)
  BY <1>1 DEF Marks, PagingAssumption
<1>3. walk = [phase |-> "turning", page |-> 1, total |-> 0, shifted |-> FALSE, late |-> FALSE]
  BY DEF PagingInit
<1>4. walk \in WalkRows /\ walk.phase = "turning" /\ walk.page = 1
  BY <1>3 DEF WalkRows, Phases
<1>5. Turned = 0
  BY <1>4 DEF Turned, PagingAssumption
<1>6. PassedSound(listed, walk, Turned)
  BY <1>2, <1>5 DEF PassedSound
<1> QED
  BY <1>2, <1>4, <1>6 DEF PagingInv, NothingMissed

LEMMA PagingStep == PagingInv /\ [PagingNext]_pagingVars => PagingInv'
<1> USE PagingAssumption
<1> SUFFICES ASSUME PagingInv, [PagingNext]_pagingVars PROVE PagingInv'
  OBVIOUS
<1>1. CASE UNCHANGED pagingVars
  BY <1>1 DEF pagingVars, PagingInv, PassedSound, Turned, NothingMissed
<1> QED
  BY <1>1, CountingKeeps, ReadingKeeps, ComingKeeps, GoingKeeps, MovingKeeps DEF PagingNext

\* Whoever turns the pages sees every row that was there all the while.
THEOREM NoRowIsMissed == PagingSpec => []NothingMissed
<1> USE PagingAssumption
<1>1. PagingInit => PagingInv
  BY PagingStart
<1>2. PagingInv /\ [PagingNext]_pagingVars => PagingInv'
  BY PagingStep
<1>3. PagingInv => NothingMissed
  BY DEF PagingInv
<1> QED
  BY <1>1, <1>2, <1>3, PTL DEF PagingSpec

-----------------------------------------------------------------------------
(* SiteSession: a family of tokens lives under one id of the store.  A     *)
(* token that was refreshed is still held by a request, or stored, only    *)
(* while a request that got the newer one is open and has yet to write it, *)
(* or while the answer that brings the newer one is on its way, unless the *)
(* holder has been overtaken.                                              *)

SiteAuths == [family : Nat, token : Nat, issued : Nat, created : Nat, seen : Nat]
SiteTxns == [number : Nat, created : Nat]
SiteData == [auth : SiteAuths \union {NoAuth}, txn : SiteTxns \union {NoTxn}, csrf : Nat]
ViewRows == [stage : Stages, kind : {"page", "login", "callback", "logout"}, arg : Nat, id : Nat,
             data : SiteData, dirty : BOOLEAN, cookie : {"keep", "set", "drop"},
             drops : SUBSET Nat, retried : BOOLEAN, behind : BOOLEAN, ahead : BOOLEAN]

\* Token n of family f is held by a request, or stored, under this id.
HeldIn(f, n, id, r) ==
    /\ r # Free /\ r.data.auth # NoAuth /\ r.id = id
    /\ r.data.auth.family = f /\ r.data.auth.token = n
StoredIn(f, n, id, sh) ==
    /\ id \in DOMAIN sh /\ sh[id].auth # NoAuth
    /\ sh[id].auth.family = f /\ sh[id].auth.token = n
LivesIn(f, n, id, at, sh) == StoredIn(f, n, id, sh) \/ \E v \in Views : HeldIn(f, n, id, at[v])

Awaits(r, f, n) ==
    /\ r # Free /\ r.stage = "waiting"
    /\ r.data.auth.family = f /\ r.data.auth.token = n
WillWrite(r, id) == r # Free /\ r.ahead /\ id \in Changed(r)

\* Why a token that was refreshed is still there.
Explained(f, n, id, at, fl, besides) ==
    \/ \E w \in Views \ besides : WillWrite(at[w], id)
    \/ /\ <<f, n>> \in DOMAIN fl /\ fl[<<f, n>>] # Pending
       /\ \E w \in Views : Awaits(at[w], f, n) /\ at[w].id = id

TokensSound(at, sh, fam) ==
    /\ \A f, n, id : LivesIn(f, n, id, at, sh) =>
          /\ f \in DOMAIN fam /\ n \in Nat \ {0} /\ id # NoId
          /\ fam[f] = 0 \/ n <= fam[f]
    /\ \A f, n, m, id, jd : LivesIn(f, n, id, at, sh) /\ LivesIn(f, m, jd, at, sh) => id = jd

\* Someone waits for every answer, and no one has the token it brings.
FlightsSound(at, sh, fl, fam) ==
    \A t \in DOMAIN fl :
        /\ t = <<t[1], t[2]>> /\ fl[t] \in Nat
        /\ \E v \in Views : Awaits(at[v], t[1], t[2])
        /\ fl[t] \notin {Pending, Refusal} =>
             /\ fl[t] = t[2] + 1 /\ fam[t[1]] \in {0, t[2] + 1}
             /\ \A id : ~LivesIn(t[1], t[2] + 1, id, at, sh)

StagesSound(at) ==
    \A v \in Views : at[v] # Free =>
        /\ at[v].stage \in {"refresh", "waiting"} => at[v].data.auth # NoAuth
        /\ at[v].stage = "load" => at[v].data.auth = NoAuth /\ ~at[v].ahead

StaleExplained(at, sh, fl, fam) ==
    /\ \A f, n, id : StoredIn(f, n, id, sh) /\ fam[f] > n => Explained(f, n, id, at, fl, {})
    /\ \A f, n, id : \A v \in Views :
          HeldIn(f, n, id, at[v]) /\ ~at[v].behind /\ fam[f] > n => Explained(f, n, id, at, fl, {v})

SiteTyped ==
    /\ DOMAIN shelf \subseteq Nat \ {NoId} /\ \A id \in DOMAIN shelf : shelf[id] \in SiteData
    /\ view \in [Views -> ViewRows \union {Free}]
    /\ families \in Seq(Nat) /\ codes \subseteq Nat
    /\ cookie \in Nat /\ siteNow \in Nat /\ idCount \in Nat /\ txnCount \in Nat

SessionSound(at, sh, fl, fam, split) ==
    /\ TokensSound(at, sh, fam) /\ FlightsSound(at, sh, fl, fam) /\ StagesSound(at)
    /\ ~split => StaleExplained(at, sh, fl, fam)

SiteSessionInv == SiteTyped /\ SessionSound(view, shelf, flights, families, forked)

-----------------------------------------------------------------------------
\* What the operations on a request's session make of its record.

LEMMA RowsAreNotFree == \A r \in ViewRows : r # Free
<1> SUFFICES ASSUME NEW r \in ViewRows, r = Free PROVE FALSE
  OBVIOUS
<1>1. "stage" \in DOMAIN r
  BY DEF ViewRows
<1>2. DOMAIN r = {}
  BY DEF Free
<1> QED
  BY <1>1, <1>2

LEMMA PutsRow ==
  ASSUME NEW r \in ViewRows, NEW data \in SiteData
  PROVE  /\ Puts(r, data) \in ViewRows /\ Puts(r, data).data = data /\ Puts(r, data).id = r.id
         /\ Puts(r, data).dirty /\ Puts(r, data).drops = r.drops
         /\ Puts(r, data).ahead = r.ahead /\ Puts(r, data).behind = r.behind
         /\ Puts(r, data).stage = r.stage
BY DEF Puts, ViewRows

LEMMA DeletesRow ==
  ASSUME NEW r \in ViewRows, NEW data \in SiteData
  PROVE  /\ Deletes(r, data) \in ViewRows /\ Deletes(r, data).data = data
         /\ Deletes(r, data).id = r.id
         /\ Deletes(r, data).dirty /\ Deletes(r, data).drops = r.drops
         /\ Deletes(r, data).ahead = r.ahead /\ Deletes(r, data).behind = r.behind
         /\ Deletes(r, data).stage = r.stage
BY DEF Deletes, ViewRows

LEMMA BlankData == Blank \in SiteData /\ Blank.auth = NoAuth
BY DEF Blank, SiteData

LEMMA DestroysRow ==
  ASSUME NEW r \in ViewRows
  PROVE  /\ Destroys(r) \in ViewRows /\ Destroys(r).data = Blank /\ Destroys(r).id = NoId
         /\ Destroys(r).drops = r.drops \union ({r.id} \ {NoId})
         /\ Destroys(r).ahead = r.ahead /\ Destroys(r).behind = r.behind
         /\ Destroys(r).stage = r.stage
<1>1. r.drops \union ({r.id} \ {NoId}) \in SUBSET Nat /\ NoId \in Nat
  BY DEF ViewRows, NoId
<1> QED
  BY <1>1, BlankData DEF Destroys, ViewRows

LEMMA GoesToRow ==
  ASSUME NEW r \in ViewRows, NEW stage \in Stages
  PROVE  /\ GoesTo(r, stage) \in ViewRows /\ GoesTo(r, stage).data = r.data
         /\ GoesTo(r, stage).id = r.id /\ GoesTo(r, stage).dirty = r.dirty
         /\ GoesTo(r, stage).drops = r.drops /\ GoesTo(r, stage).stage = stage
         /\ GoesTo(r, stage).ahead = r.ahead /\ GoesTo(r, stage).behind = r.behind
BY DEF GoesTo, ViewRows

\* The record goes on with the same token or without one, and nothing it was
\* to write is forgotten.
Continues(r, s) ==
    /\ s \in ViewRows /\ s.ahead = r.ahead /\ s.behind = r.behind
    /\ Changed(r) \ {NoId} \subseteq Changed(s)
    /\ \/ s.data.auth = NoAuth
       \/ /\ r.data.auth # NoAuth /\ s.id = r.id
          /\ s.data.auth.family = r.data.auth.family /\ s.data.auth.token = r.data.auth.token
    /\ s.stage \in {"refresh", "waiting"} => s.data.auth # NoAuth
    /\ s.stage # "load"

LEMMA GoesOn ==
  ASSUME NEW r \in ViewRows, NEW stage \in Stages \ {"load"},
         stage \in {"refresh", "waiting"} => r.data.auth # NoAuth
  PROVE  Continues(r, GoesTo(r, stage))
<1> DEFINE s == GoesTo(r, stage)
<1>1. /\ s \in ViewRows /\ s.data = r.data /\ s.id = r.id /\ s.dirty = r.dirty
      /\ s.drops = r.drops /\ s.stage = stage /\ s.ahead = r.ahead /\ s.behind = r.behind
  BY GoesToRow
<1> HIDE DEF s
<1>2. Continues(r, s)
  BY <1>1 DEF Continues, Changed
<1> QED
  BY <1>2 DEF s

LEMMA DestroyedGoesOn ==
  ASSUME NEW r \in ViewRows, NEW stage \in {"handle", "finish"}
  PROVE  Continues(r, GoesTo(Destroys(r), stage))
<1> DEFINE d == Destroys(r)
           s == GoesTo(d, stage)
<1>1. /\ d \in ViewRows /\ d.data = Blank /\ d.drops = r.drops \union ({r.id} \ {NoId})
      /\ d.ahead = r.ahead /\ d.behind = r.behind
  BY DestroysRow
<1> HIDE DEF d
<1>2. /\ s \in ViewRows /\ s.data = Blank /\ s.drops = d.drops /\ s.stage = stage
      /\ s.ahead = r.ahead /\ s.behind = r.behind
  BY <1>1, GoesToRow DEF Stages
<1> HIDE DEF s
<1>3. Continues(r, s)
  BY <1>1, <1>2, BlankData DEF Continues, Changed
<1> QED
  BY <1>3 DEF s, d

LEMMA CurrentAuthGoesOn ==
  ASSUME NEW r \in ViewRows, siteNow \in Nat
  PROVE  Continues(r, CurrentAuth(r))
<1> DEFINE a == r.data.auth
<1>1. "handle" \in Stages \ {"load"} /\ "refresh" \in Stages \ {"load"}
  BY DEF Stages
<1>2. Continues(r, GoesTo(r, "handle"))
  BY <1>1, GoesOn
<1>3. Continues(r, GoesTo(Destroys(r), "handle"))
  BY DestroyedGoesOn
<1>4. a # NoAuth => Continues(r, GoesTo(r, "refresh"))
  BY <1>1, GoesOn
<1>5. ASSUME a # NoAuth
      PROVE  Continues(r, GoesTo(Puts(r, [r.data EXCEPT !.auth.seen = siteNow]), "handle"))
  <2> DEFINE b == [a EXCEPT !.seen = siteNow]
             data == [r.data EXCEPT !.auth = b]
             p == Puts(r, data)
             s == GoesTo(p, "handle")
  <2>1. r.data \in SiteData /\ a \in SiteAuths
    BY <1>5 DEF ViewRows, SiteData
  <2>2. b \in SiteAuths /\ b.family = a.family /\ b.token = a.token
    BY <2>1 DEF SiteAuths
  <2>3. [r.data EXCEPT !.auth.seen = siteNow] = data
    OBVIOUS
  <2> HIDE DEF b
  <2>4. data \in SiteData /\ data.auth = b
    BY <2>1, <2>2 DEF SiteData
  <2> HIDE DEF data
  <2>5. /\ p \in ViewRows /\ p.data = data /\ p.id = r.id /\ p.dirty /\ p.drops = r.drops
        /\ p.ahead = r.ahead /\ p.behind = r.behind
    BY <2>4, PutsRow
  <2> HIDE DEF p
  <2>6. /\ s \in ViewRows /\ s.data = data /\ s.id = r.id /\ s.dirty = p.dirty /\ s.drops = r.drops
        /\ s.ahead = r.ahead /\ s.behind = r.behind /\ s.stage = "handle"
    BY <1>1, <2>5, GoesToRow
  <2> HIDE DEF s
  <2>7. Continues(r, s)
    BY <1>5, <2>2, <2>4, <2>5, <2>6 DEF Continues, Changed
  <2> QED
    BY <2>3, <2>7 DEF s, p
<1> QED
  BY <1>2, <1>3, <1>4, <1>5 DEF CurrentAuth

-----------------------------------------------------------------------------
\* One request acts: what the others have of their records may at most be
\* marked as overtaken.
Resembles(r, s) == s = r \/ (r \in ViewRows /\ s = [r EXCEPT !.behind = TRUE])

FlightsGo(v) ==
    /\ \A t \in DOMAIN flights : t \in DOMAIN flights' /\ flights'[t] = flights[t]
    /\ \A t \in DOMAIN flights' \ DOMAIN flights :
          t = <<t[1], t[2]>> /\ flights'[t] = Pending /\ Awaits(view'[v], t[1], t[2])

FamiliesGo ==
    /\ families' \in Seq(Nat)
    /\ \A f \in DOMAIN families : f \in DOMAIN families' /\ families'[f] \in {0, families[f]}

\* The request's tokens are its own, those it loads, or those of a new family.
HoldsItsTokens(v) ==
    \A f, n, id : HeldIn(f, n, id, view'[v]) =>
        \/ HeldIn(f, n, id, view[v]) /\ (view'[v].behind \/ ~view[v].behind)
        \/ StoredIn(f, n, id, shelf) /\ ~WillWrite(view[v], id)
        \/ /\ f \notin DOMAIN families /\ f \in DOMAIN families' /\ n = families'[f]
           /\ n \in Nat \ {0} /\ id # NoId

PutsBack(f, n, id, v) == HeldIn(f, n, id, view[v]) /\ (~forked' => ~view[v].behind)
StoresItsTokens(v) ==
    \A f, n, id : StoredIn(f, n, id, shelf') => StoredIn(f, n, id, shelf) \/ PutsBack(f, n, id, v)

\* What it was to write, it still is, or has written, or no one has any more.
WritesWhatItOwes(v) ==
    \A id : WillWrite(view[v], id) /\ ~WillWrite(view'[v], id) /\ id # NoId =>
        \A f, n :
            /\ ~HeldIn(f, n, id, view'[v])
            /\ StoredIn(f, n, id, shelf') => PutsBack(f, n, id, v)
            /\ \A w \in Views \ {v} : HeldIn(f, n, id, view[w]) => view'[w].behind

StageSound(r) ==
    r # Free =>
        /\ r.stage \in {"refresh", "waiting"} => r.data.auth # NoAuth
        /\ r.stage = "load" => r.data.auth = NoAuth /\ ~r.ahead

ActsAlone(v) ==
    /\ \A w \in Views \ {v} : Resembles(view[w], view'[w])
    /\ \A f, n : ~Awaits(view[v], f, n)
    /\ FlightsGo(v) /\ FamiliesGo
    /\ HoldsItsTokens(v) /\ StoresItsTokens(v) /\ WritesWhatItOwes(v)
    /\ StageSound(view'[v])
    /\ forked => forked'

LEMMA ResemblingRows ==
  ASSUME NEW r \in ViewRows \union {Free}, NEW s, Resembles(r, s)
  PROVE  /\ s \in ViewRows \union {Free} /\ (s = Free <=> r = Free)
         /\ \A f, n, id : HeldIn(f, n, id, s) <=> HeldIn(f, n, id, r)
         /\ \A f, n : Awaits(s, f, n) <=> Awaits(r, f, n)
         /\ \A id : WillWrite(s, id) <=> WillWrite(r, id)
         /\ r # Free => s.id = r.id /\ s.stage = r.stage /\ s.data = r.data /\ s.ahead = r.ahead
         /\ r # Free => (s.behind \/ ~r.behind)
<1>1. CASE s = r
  BY <1>1
<1>2. CASE r \in ViewRows /\ s = [r EXCEPT !.behind = TRUE]
  <2>1. /\ s \in ViewRows /\ s.id = r.id /\ s.stage = r.stage /\ s.data = r.data
        /\ s.ahead = r.ahead /\ s.dirty = r.dirty /\ s.drops = r.drops /\ s.behind
    BY <1>2 DEF ViewRows
  <2>2. r # Free /\ s # Free
    BY <1>2, <2>1, RowsAreNotFree
  <2> QED
    BY <1>2, <2>1, <2>2 DEF HeldIn, Awaits, WillWrite, Changed
<1> QED
  BY <1>1, <1>2 DEF Resembles

LEMMA OthersResemble ==
  ASSUME SiteTyped, NEW v \in Views, ActsAlone(v), NEW w \in Views \ {v}
  PROVE  /\ view'[w] = Free <=> view[w] = Free
         /\ \A f, n, id : HeldIn(f, n, id, view'[w]) <=> HeldIn(f, n, id, view[w])
         /\ \A f, n : Awaits(view'[w], f, n) <=> Awaits(view[w], f, n)
         /\ \A id : WillWrite(view'[w], id) <=> WillWrite(view[w], id)
         /\ view[w] # Free => /\ view'[w].id = view[w].id /\ view'[w].stage = view[w].stage
                              /\ view'[w].data = view[w].data /\ view'[w].ahead = view[w].ahead
         /\ view[w] # Free => (view'[w].behind \/ ~view[w].behind)
<1>1. view[w] \in ViewRows \union {Free} /\ Resembles(view[w], view'[w])
  BY DEF SiteTyped, ActsAlone
<1> QED
  BY <1>1, ResemblingRows

\* The tokens after the step were there before it, or are the first of a family.
LEMMA TokensWereThere ==
  ASSUME SiteTyped, NEW v \in Views, ActsAlone(v), NEW f, NEW n, NEW id,
         LivesIn(f, n, id, view', shelf')
  PROVE  \/ LivesIn(f, n, id, view, shelf)
         \/ /\ f \notin DOMAIN families /\ f \in DOMAIN families' /\ n = families'[f]
            /\ n \in Nat \ {0} /\ id # NoId /\ HeldIn(f, n, id, view'[v])
<1>1. CASE StoredIn(f, n, id, shelf')
  BY <1>1 DEF ActsAlone, StoresItsTokens, PutsBack, LivesIn
<1>2. CASE HeldIn(f, n, id, view'[v])
  BY <1>2 DEF ActsAlone, HoldsItsTokens, LivesIn
<1>3. ASSUME NEW w \in Views \ {v}, HeldIn(f, n, id, view'[w])
      PROVE  LivesIn(f, n, id, view, shelf)
  BY <1>3, OthersResemble DEF LivesIn
<1> QED
  BY <1>1, <1>2, <1>3 DEF LivesIn

LEMMA TokensStaySound ==
  ASSUME SiteSessionInv, NEW v \in Views, ActsAlone(v)
  PROVE  TokensSound(view', shelf', families')
<1>1. SiteTyped /\ TokensSound(view, shelf, families) /\ families \in Seq(Nat)
  BY DEF SiteSessionInv, SessionSound, SiteTyped
<1>2. FamiliesGo
  BY DEF ActsAlone
<1>3. ASSUME NEW f, NEW n, NEW id, LivesIn(f, n, id, view', shelf')
      PROVE  /\ f \in DOMAIN families' /\ n \in Nat \ {0} /\ id # NoId
             /\ families'[f] = 0 \/ n <= families'[f]
  <2>1. CASE LivesIn(f, n, id, view, shelf)
    <3>1. /\ f \in DOMAIN families /\ n \in Nat \ {0} /\ id # NoId
          /\ families[f] = 0 \/ n <= families[f]
      BY <1>1, <2>1 DEF TokensSound
    <3> QED
      BY <3>1, <1>2 DEF FamiliesGo
  <2>2. CASE /\ f \in DOMAIN families' /\ n = families'[f]
             /\ n \in Nat \ {0} /\ id # NoId
    BY <2>2
  <2> QED
    BY <1>1, <1>3, <2>1, <2>2, TokensWereThere
<1>4. ASSUME NEW f, NEW n, NEW m, NEW id, NEW jd,
             LivesIn(f, n, id, view', shelf'), LivesIn(f, m, jd, view', shelf')
      PROVE  id = jd
  <2>1. LivesIn(f, n, id, view, shelf) => f \in DOMAIN families
    BY <1>1 DEF TokensSound
  <2>2. LivesIn(f, m, jd, view, shelf) => f \in DOMAIN families
    BY <1>1 DEF TokensSound
  <2>3. \/ LivesIn(f, n, id, view, shelf)
        \/ f \notin DOMAIN families /\ HeldIn(f, n, id, view'[v])
    BY <1>1, <1>4, TokensWereThere
  <2>4. \/ LivesIn(f, m, jd, view, shelf)
        \/ f \notin DOMAIN families /\ HeldIn(f, m, jd, view'[v])
    BY <1>1, <1>4, TokensWereThere
  <2>5. CASE LivesIn(f, n, id, view, shelf) /\ LivesIn(f, m, jd, view, shelf)
    BY <1>1, <2>5 DEF TokensSound
  <2>6. CASE HeldIn(f, n, id, view'[v]) /\ HeldIn(f, m, jd, view'[v])
    BY <2>6 DEF HeldIn
  <2> QED
    BY <2>1, <2>2, <2>3, <2>4, <2>5, <2>6
<1> QED
  BY <1>3, <1>4 DEF TokensSound

\* Who waits for an answer holds the token.
LEMMA FlightsAreHeld ==
  ASSUME SessionSound(view, shelf, flights, families, forked), NEW t \in DOMAIN flights
  PROVE  /\ t[1] \in DOMAIN families
         /\ \E w \in Views : Awaits(view[w], t[1], t[2]) /\ HeldIn(t[1], t[2], view[w].id, view[w])
<1>1. PICK w \in Views : Awaits(view[w], t[1], t[2])
  BY DEF SessionSound, FlightsSound
<1>2. HeldIn(t[1], t[2], view[w].id, view[w])
  BY <1>1 DEF SessionSound, StagesSound, HeldIn, Awaits
<1>3. LivesIn(t[1], t[2], view[w].id, view, shelf)
  BY <1>2 DEF LivesIn
<1> QED
  BY <1>1, <1>2, <1>3 DEF SessionSound, TokensSound

LEMMA FlightsStaySound ==
  ASSUME SiteSessionInv, NEW v \in Views, ActsAlone(v)
  PROVE  FlightsSound(view', shelf', flights', families')
<1>1. /\ SiteTyped /\ SessionSound(view, shelf, flights, families, forked)
      /\ FlightsSound(view, shelf, flights, families)
  BY DEF SiteSessionInv, SessionSound
<1>2. FlightsGo(v) /\ FamiliesGo /\ \A f, n : ~Awaits(view[v], f, n)
  BY DEF ActsAlone
<1> SUFFICES ASSUME NEW t \in DOMAIN flights'
             PROVE  /\ t = <<t[1], t[2]>> /\ flights'[t] \in Nat
                    /\ \E w \in Views : Awaits(view'[w], t[1], t[2])
                    /\ flights'[t] \notin {Pending, Refusal} =>
                         /\ flights'[t] = t[2] + 1 /\ families'[t[1]] \in {0, t[2] + 1}
                         /\ \A id : ~LivesIn(t[1], t[2] + 1, id, view', shelf')
  BY DEF FlightsSound
<1>3. CASE t \notin DOMAIN flights
  BY <1>2, <1>3 DEF FlightsGo, Pending
<1>4. CASE t \in DOMAIN flights
  <2>1. /\ t = <<t[1], t[2]>> /\ flights'[t] = flights[t] /\ flights[t] \in Nat
        /\ flights[t] \notin {Pending, Refusal} =>
             /\ flights[t] = t[2] + 1 /\ families[t[1]] \in {0, t[2] + 1}
             /\ \A id : ~LivesIn(t[1], t[2] + 1, id, view, shelf)
    BY <1>1, <1>2, <1>4 DEF FlightsSound, FlightsGo
  <2>2. t[1] \in DOMAIN families
    BY <1>1, <1>4, FlightsAreHeld
  <2>3. PICK w \in Views : Awaits(view[w], t[1], t[2])
    BY <1>1, <1>4 DEF FlightsSound
  <2>4. Awaits(view'[w], t[1], t[2])
    BY <1>1, <1>2, <2>3, OthersResemble
  <2>5. families[t[1]] \in {0, t[2] + 1} => families'[t[1]] \in {0, t[2] + 1}
    BY <1>2, <2>2 DEF FamiliesGo
  <2>6. ASSUME NEW id, LivesIn(t[1], t[2] + 1, id, view', shelf')
        PROVE  LivesIn(t[1], t[2] + 1, id, view, shelf)
    BY <1>1, <2>2, <2>6, TokensWereThere
  <2> QED
    BY <2>1, <2>3, <2>4, <2>5, <2>6
<1> QED
  BY <1>3, <1>4

\* An explanation that does not rest on the request that acts, or on what it
\* is to write and still will, holds after the step.
LEMMA ExplanationsStay ==
  ASSUME SiteTyped, NEW v \in Views, ActsAlone(v), NEW f, NEW n, NEW id, NEW besides,
         Explained(f, n, id, view, flights, besides),
         v \in besides \/ (WillWrite(view[v], id) => WillWrite(view'[v], id))
  PROVE  Explained(f, n, id, view', flights', besides)
<1>1. CASE \E w \in Views \ besides : WillWrite(view[w], id)
  <2>1. PICK w \in Views \ besides : WillWrite(view[w], id)
    BY <1>1
  <2>2. WillWrite(view'[w], id)
    BY <2>1, OthersResemble
  <2> QED
    BY <2>1, <2>2 DEF Explained
<1>2. CASE /\ <<f, n>> \in DOMAIN flights /\ flights[<<f, n>>] # Pending
           /\ \E w \in Views : Awaits(view[w], f, n) /\ view[w].id = id
  <2>1. PICK w \in Views : Awaits(view[w], f, n) /\ view[w].id = id
    BY <1>2
  <2>2. w # v /\ view[w] # Free
    BY <2>1 DEF ActsAlone, Awaits
  <2>3. Awaits(view'[w], f, n) /\ view'[w].id = id
    BY <2>1, <2>2, OthersResemble
  <2>4. <<f, n>> \in DOMAIN flights' /\ flights'[<<f, n>>] # Pending
    BY <1>2 DEF ActsAlone, FlightsGo
  <2> QED
    BY <2>3, <2>4 DEF Explained
<1> QED
  BY <1>1, <1>2 DEF Explained

LEMMA ExplanationsAreAlike ==
  ASSUME NEW f, NEW n, NEW id, NEW at, NEW fl, NEW v \in Views
  PROVE  /\ Explained(f, n, id, at, fl, {v}) => Explained(f, n, id, at, fl, {})
         /\ Explained(f, n, id, at, fl, {}) /\ ~WillWrite(at[v], id)
              => Explained(f, n, id, at, fl, {v})
BY DEF Explained

LEMMA StaleStaysExplained ==
  ASSUME SiteSessionInv, NEW v \in Views, ActsAlone(v), ~forked'
  PROVE  StaleExplained(view', shelf', flights', families')
<1>1. SiteTyped /\ TokensSound(view, shelf, families) /\ ~forked
  BY DEF SiteSessionInv, SessionSound, ActsAlone
<1>2. StaleExplained(view, shelf, flights, families)
  BY <1>1 DEF SiteSessionInv, SessionSound
<1>3. ASSUME NEW f, NEW n, NEW id, LivesIn(f, n, id, view, shelf), families'[f] > n
      PROVE  id # NoId /\ families[f] > n
  <2>1. f \in DOMAIN families /\ n \in Nat \ {0} /\ id # NoId
    BY <1>1, <1>3 DEF TokensSound
  <2> QED
    BY <1>3, <2>1 DEF ActsAlone, FamiliesGo
<1>4. ASSUME NEW f, NEW n, NEW id, HeldIn(f, n, id, view[v]), ~view[v].behind, families'[f] > n
      PROVE  Explained(f, n, id, view', flights', {v}) /\ Explained(f, n, id, view', flights', {})
  <2>1. families[f] > n
    BY <1>3, <1>4 DEF LivesIn
  <2>2. Explained(f, n, id, view, flights, {v})
    BY <1>2, <1>4, <2>1 DEF StaleExplained
  <2>3. Explained(f, n, id, view', flights', {v})
    BY <1>1, <2>2, ExplanationsStay
  <2> QED
    BY <2>3, ExplanationsAreAlike
<1>5. ASSUME NEW f, NEW n, NEW id, StoredIn(f, n, id, shelf'), families'[f] > n
      PROVE  Explained(f, n, id, view', flights', {})
  <2>1. CASE PutsBack(f, n, id, v)
    BY <1>4, <1>5, <2>1 DEF PutsBack
  <2>2. CASE StoredIn(f, n, id, shelf) /\ ~PutsBack(f, n, id, v)
    <3>1. id # NoId /\ families[f] > n
      BY <1>3, <1>5, <2>2 DEF LivesIn
    <3>2. Explained(f, n, id, view, flights, {})
      BY <1>2, <2>2, <3>1 DEF StaleExplained
    <3>3. WillWrite(view[v], id) => WillWrite(view'[v], id)
      BY <1>5, <2>2, <3>1 DEF ActsAlone, WritesWhatItOwes
    <3> QED
      BY <1>1, <3>2, <3>3, ExplanationsStay
  <2> QED
    BY <1>5, <2>1, <2>2 DEF ActsAlone, StoresItsTokens
<1>6. ASSUME NEW f, NEW n, NEW id, HeldIn(f, n, id, view'[v]), ~view'[v].behind, families'[f] > n
      PROVE  Explained(f, n, id, view', flights', {v})
  <2>1. CASE HeldIn(f, n, id, view[v]) /\ ~view[v].behind
    BY <1>4, <1>6, <2>1
  <2>2. CASE StoredIn(f, n, id, shelf) /\ ~WillWrite(view[v], id)
    <3>1. families[f] > n
      BY <1>3, <1>6, <2>2 DEF LivesIn
    <3>2. Explained(f, n, id, view, flights, {})
      BY <1>2, <2>2, <3>1 DEF StaleExplained
    <3>3. Explained(f, n, id, view, flights, {v})
      BY <2>2, <3>2, ExplanationsAreAlike
    <3> QED
      BY <1>1, <3>3, ExplanationsStay
  <2>3. CASE n = families'[f] /\ n \in Nat \ {0}
    BY <1>6, <2>3
  <2> QED
    BY <1>6, <2>1, <2>2, <2>3 DEF ActsAlone, HoldsItsTokens
<1>7. ASSUME NEW w \in Views \ {v}, NEW f, NEW n, NEW id,
             HeldIn(f, n, id, view'[w]), ~view'[w].behind, families'[f] > n
      PROVE  Explained(f, n, id, view', flights', {w})
  <2>1. HeldIn(f, n, id, view[w]) /\ ~view[w].behind
    BY <1>1, <1>7, OthersResemble DEF HeldIn
  <2>2. id # NoId /\ families[f] > n
    BY <1>3, <1>7, <2>1 DEF LivesIn
  <2>3. Explained(f, n, id, view, flights, {w})
    BY <1>2, <2>1, <2>2 DEF StaleExplained
  <2>4. WillWrite(view[v], id) => WillWrite(view'[v], id)
    BY <1>7, <2>1, <2>2 DEF ActsAlone, WritesWhatItOwes
  <2> QED
    BY <1>1, <2>3, <2>4, ExplanationsStay
<1>8. ASSUME NEW f, NEW n, NEW id, NEW w \in Views,
             HeldIn(f, n, id, view'[w]), ~view'[w].behind, families'[f] > n
      PROVE  Explained(f, n, id, view', flights', {w})
  BY <1>6, <1>7, <1>8
<1> QED
  BY <1>5, <1>8 DEF StaleExplained

LEMMA ActingAloneKeeps ==
  ASSUME SiteSessionInv, NEW v \in Views, ActsAlone(v)
  PROVE  SessionSound(view', shelf', flights', families', forked')
<1>1. SiteTyped /\ StagesSound(view)
  BY DEF SiteSessionInv, SessionSound
<1>2. ASSUME NEW w \in Views, view'[w] # Free
      PROVE  /\ view'[w].stage \in {"refresh", "waiting"} => view'[w].data.auth # NoAuth
             /\ view'[w].stage = "load" => view'[w].data.auth = NoAuth /\ ~view'[w].ahead
  <2>1. CASE w = v
    BY <1>2, <2>1 DEF ActsAlone, StageSound
  <2>2. CASE w # v
    <3>1. /\ view[w] # Free /\ view'[w].stage = view[w].stage
          /\ view'[w].data = view[w].data /\ view'[w].ahead = view[w].ahead
      BY <1>1, <1>2, <2>2, OthersResemble
    <3> QED
      BY <1>1, <3>1 DEF StagesSound
  <2> QED
    BY <2>1, <2>2
<1>3. StagesSound(view')
  BY <1>2 DEF StagesSound
<1>4. TokensSound(view', shelf', families') /\ FlightsSound(view', shelf', flights', families')
  BY TokensStaySound, FlightsStaySound
<1>5. ~forked' => StaleExplained(view', shelf', flights', families')
  BY StaleStaysExplained
<1> QED
  BY <1>3, <1>4, <1>5 DEF SessionSound

-----------------------------------------------------------------------------
\* A request that goes on, with what it holds or with what it now loads.
GoesOnFrom(v, r) ==
    /\ view[v] # Free /\ view[v].stage # "waiting"
    /\ r \in ViewRows /\ r.id = view[v].id /\ r.ahead = view[v].ahead /\ r.behind = view[v].behind
    /\ Changed(r) = Changed(view[v])
    /\ r.data = view[v].data \/ (view[v].stage = "load" /\ r.data = Stored(view[v].id))

SameVisitor == UNCHANGED <<shelf, cookie, siteNow, idCount, txnCount, forked>>

LEMMA StoredTokens ==
  ASSUME NEW id, Stored(id).auth # NoAuth
  PROVE  StoredIn(Stored(id).auth.family, Stored(id).auth.token, id, shelf)
BY BlankData DEF Stored, StoredIn

LEMMA GoingOnKeeps ==
  ASSUME SiteSessionInv, NEW v \in Views, NEW r, NEW s, GoesOnFrom(v, r), Continues(r, s),
         ViewGoes(v, s), FlightsGo(v), FamiliesGo, SameVisitor, codes' \subseteq Nat
  PROVE  SiteSessionInv'
<1>1. SiteTyped /\ SessionSound(view, shelf, flights, families, forked) /\ StagesSound(view)
  BY DEF SiteSessionInv, SessionSound
<1>2. /\ view' = [view EXCEPT ![v] = s] /\ view'[v] = s
      /\ \A w \in Views \ {v} : view'[w] = view[w]
  BY <1>1 DEF ViewGoes, SiteTyped
<1>3. s \in ViewRows /\ s # Free /\ view[v] \in ViewRows
  BY <1>1, RowsAreNotFree DEF Continues, SiteTyped, GoesOnFrom
<1>4. SiteTyped'
  BY <1>1, <1>2, <1>3 DEF SiteTyped, SameVisitor, FamiliesGo
<1>5. ASSUME NEW f, NEW n, NEW id, HeldIn(f, n, id, s)
      PROVE  \/ HeldIn(f, n, id, view[v]) /\ (s.behind \/ ~view[v].behind)
             \/ StoredIn(f, n, id, shelf) /\ ~WillWrite(view[v], id)
  <2>1. /\ r.data.auth # NoAuth /\ id = r.id
        /\ r.data.auth.family = f /\ r.data.auth.token = n
    BY <1>5 DEF Continues, HeldIn
  <2>2. CASE r.data = view[v].data
    BY <2>1, <2>2 DEF GoesOnFrom, HeldIn, Continues
  <2>3. CASE view[v].stage = "load" /\ r.data = Stored(view[v].id)
    <3>1. StoredIn(f, n, id, shelf)
      BY <2>1, <2>3, StoredTokens DEF GoesOnFrom
    <3>2. ~view[v].ahead
      BY <1>1, <2>3 DEF StagesSound, GoesOnFrom
    <3> QED
      BY <3>1, <3>2 DEF WillWrite
  <2> QED
    BY <2>2, <2>3 DEF GoesOnFrom
<1>6. HoldsItsTokens(v)
  BY <1>2, <1>5 DEF HoldsItsTokens
<1>7. StoresItsTokens(v)
  BY DEF StoresItsTokens, SameVisitor, StoredIn
<1>8. ASSUME NEW id, WillWrite(view[v], id), id # NoId
      PROVE  WillWrite(s, id)
  BY <1>3, <1>8 DEF WillWrite, GoesOnFrom, Continues
<1>9. WritesWhatItOwes(v)
  BY <1>2, <1>8 DEF WritesWhatItOwes
<1>10. StageSound(s)
  BY DEF Continues, StageSound
<1>11. ActsAlone(v)
  BY <1>2, <1>6, <1>7, <1>9, <1>10
     DEF ActsAlone, Resembles, SameVisitor, GoesOnFrom, Awaits
<1> QED
  BY <1>4, <1>11, ActingAloneKeeps DEF SiteSessionInv

\* Nothing but the request changes.
LEMMA OnlyGoingOnKeeps ==
  ASSUME SiteSessionInv, NEW v \in Views, NEW r, NEW s, GoesOnFrom(v, r), Continues(r, s),
         ViewGoes(v, s), UNCHANGED <<flights, families, codes>>, SameVisitor
  PROVE  SiteSessionInv'
<1>1. FlightsGo(v) /\ FamiliesGo /\ codes' \subseteq Nat
  BY DEF FlightsGo, FamiliesGo, SiteSessionInv, SiteTyped
<1> QED
  BY <1>1, GoingOnKeeps

LEMMA ItselfGoesOn ==
  ASSUME SiteSessionInv, NEW v \in Views, view[v] # Free, view[v].stage # "waiting"
  PROVE  view[v] \in ViewRows /\ GoesOnFrom(v, view[v])
<1>1. view[v] \in ViewRows
  BY DEF SiteSessionInv, SiteTyped
<1> QED
  BY <1>1 DEF GoesOnFrom

LEMMA MiddlewareKeeps ==
  ASSUME SiteSessionInv, NEW v \in Views, Middleware(v)
  PROVE  SiteSessionInv'
<1> DEFINE id == view[v].id
           data == Stored(id)
           r == [view[v] EXCEPT !.data = data]
<1>1. /\ view[v] # Free /\ view[v].stage = "load" /\ view[v] \in ViewRows
      /\ siteNow \in Nat
  BY DEF Middleware, At, SiteSessionInv, SiteTyped
<1>2. data \in SiteData
  BY BlankData DEF Stored, SiteSessionInv, SiteTyped
<1>3. /\ ViewGoes(v, CurrentAuth(r)) /\ UNCHANGED <<flights, families, codes>> /\ SameVisitor
  BY DEF Middleware, InStore, SameOutside, SameVisitor
<1>4. r.data = Stored(view[v].id)
  BY <1>1 DEF ViewRows
<1> HIDE DEF data
<1>5. GoesOnFrom(v, r)
  BY <1>1, <1>2, <1>4 DEF GoesOnFrom, ViewRows, Changed
<1>6. r \in ViewRows
  BY <1>5 DEF GoesOnFrom
<1> HIDE DEF r
<1>7. Continues(r, CurrentAuth(r))
  BY <1>1, <1>6, CurrentAuthGoesOn
<1> QED
  BY <1>3, <1>5, <1>7, OnlyGoingOnKeeps

LEMMA CallApiKeeps ==
  ASSUME SiteSessionInv, NEW v \in Views, CallApi(v)
  PROVE  SiteSessionInv'
<1> DEFINE q == view[v]
           r == CurrentAuth(q)
           s == [GoesTo(r, "refresh") EXCEPT !.retried = TRUE]
<1>1. /\ q # Free /\ q.stage = "handle" /\ siteNow \in Nat
      /\ UNCHANGED <<flights, families, codes>> /\ SameVisitor
  BY DEF CallApi, Handles, At, InStore, SameOutside, SameVisitor, SiteSessionInv, SiteTyped
<1>6. ViewGoes(v, r) \/ (r.data.auth # NoAuth /\ ViewGoes(v, s))
  BY DEF CallApi
<1>2. q \in ViewRows /\ GoesOnFrom(v, q)
  BY <1>1, ItselfGoesOn
<1> HIDE DEF q
<1>3. Continues(q, r)
  BY <1>1, <1>2, CurrentAuthGoesOn
<1> HIDE DEF r
<1>4. CASE ViewGoes(v, r)
  BY <1>1, <1>2, <1>3, <1>4, OnlyGoingOnKeeps
<1>5. CASE r.data.auth # NoAuth /\ ViewGoes(v, s)
  <2> DEFINE g == GoesTo(r, "refresh")
  <2>1. r \in ViewRows /\ "refresh" \in Stages
    BY <1>3 DEF Continues, Stages
  <2>2. /\ g \in ViewRows /\ g.data = r.data /\ g.id = r.id /\ g.dirty = r.dirty
        /\ g.drops = r.drops /\ g.stage = "refresh" /\ g.ahead = r.ahead /\ g.behind = r.behind
    BY <2>1, GoesToRow
  <2>3. s = [g EXCEPT !.retried = TRUE]
    OBVIOUS
  <2> HIDE DEF g
  <2>4. /\ s \in ViewRows /\ s.data = r.data /\ s.id = r.id /\ s.dirty = r.dirty
        /\ s.drops = r.drops /\ s.stage = "refresh" /\ s.ahead = r.ahead /\ s.behind = r.behind
    BY <2>2, <2>3 DEF ViewRows
  <2> HIDE DEF s
  <2>5. Changed(s) = Changed(r)
    BY <2>4 DEF Changed
  <2>6. Continues(q, s)
    BY <1>3, <1>5, <2>4, <2>5 DEF Continues
  <2> QED
    BY <1>1, <1>2, <1>5, <2>6, OnlyGoingOnKeeps
<1> QED
  BY <1>4, <1>5, <1>6

LEMMA DeletedGoesOn ==
  ASSUME NEW r \in ViewRows
  PROVE  Continues(r, GoesTo(Deletes(r, [r.data EXCEPT !.txn = NoTxn]), "finish"))
<1> DEFINE data == [r.data EXCEPT !.txn = NoTxn]
           d == Deletes(r, data)
           s == GoesTo(d, "finish")
<1>1. data \in SiteData /\ data.auth = r.data.auth
  BY DEF ViewRows, SiteData
<1> HIDE DEF data
<1>2. /\ d \in ViewRows /\ d.data = data /\ d.id = r.id /\ d.dirty /\ d.drops = r.drops
      /\ d.ahead = r.ahead /\ d.behind = r.behind
  BY <1>1, DeletesRow
<1> HIDE DEF d
<1>3. /\ s \in ViewRows /\ s.data = data /\ s.id = r.id /\ s.dirty = d.dirty /\ s.drops = r.drops
      /\ s.ahead = r.ahead /\ s.behind = r.behind /\ s.stage = "finish"
  BY <1>2, GoesToRow DEF Stages
<1> HIDE DEF s
<1>4. Continues(r, s)
  BY <1>1, <1>2, <1>3 DEF Continues, Changed
<1> QED
  BY <1>4 DEF s, d, data

LEMMA RenderKeeps ==
  ASSUME SiteSessionInv, NEW v \in Views, Render(v) \/ Redirect(v)
  PROVE  SiteSessionInv'
<1>1. /\ view[v] # Free /\ view[v].stage = "handle"
      /\ UNCHANGED <<flights, families, codes>> /\ SameVisitor
      /\ ViewGoes(v, GoesTo(view[v], "finish"))
  BY DEF Render, Redirect, Handles, At, InStore, SameOutside, SameVisitor
<1>2. view[v] \in ViewRows /\ GoesOnFrom(v, view[v])
  BY <1>1, ItselfGoesOn
<1>3. Continues(view[v], GoesTo(view[v], "finish"))
  BY <1>2, GoesOn DEF Stages
<1> QED
  BY <1>1, <1>2, <1>3, OnlyGoingOnKeeps

LEMMA VerifyFormKeeps ==
  ASSUME SiteSessionInv, NEW v \in Views, VerifyForm(v)
  PROVE  SiteSessionInv'
<1> DEFINE stage == IF view[v].data.csrf = view[v].arg THEN "revoke" ELSE "finish"
<1>1. /\ view[v] # Free /\ view[v].stage = "handle"
      /\ UNCHANGED <<flights, families, codes>> /\ SameVisitor
      /\ ViewGoes(v, GoesTo(view[v], stage))
  BY DEF VerifyForm, Handles, At, InStore, SameOutside, SameVisitor
<1>2. view[v] \in ViewRows /\ GoesOnFrom(v, view[v])
  BY <1>1, ItselfGoesOn
<1>3. stage \in {"revoke", "finish"}
  OBVIOUS
<1> HIDE DEF stage
<1>4. stage \in Stages \ {"load"} /\ stage \notin {"refresh", "waiting"}
  BY <1>3 DEF Stages
<1>5. Continues(view[v], GoesTo(view[v], stage))
  BY <1>2, <1>4, GoesOn
<1> QED
  BY <1>1, <1>2, <1>5, OnlyGoingOnKeeps

LEMMA CheckTransactionKeeps ==
  ASSUME SiteSessionInv, NEW v \in Views, CheckTransaction(v)
  PROVE  SiteSessionInv'
<1> DEFINE r == view[v]
<1>1. /\ r # Free /\ r.stage = "handle"
      /\ UNCHANGED <<flights, families, codes>> /\ SameVisitor
  BY DEF CheckTransaction, Handles, At, InStore, SameOutside, SameVisitor
<1>2. \/ ViewGoes(v, GoesTo(r, "finish"))
      \/ ViewGoes(v, GoesTo(Deletes(r, [r.data EXCEPT !.txn = NoTxn]), "finish"))
      \/ ViewGoes(v, GoesTo(r, "exchange"))
  <2>1. CASE r.data.txn = NoTxn
    BY <2>1 DEF CheckTransaction
  <2>2. CASE r.data.txn # NoTxn /\ (TransactionExpired(r.data.txn) \/ r.data.txn.number # r.arg)
    BY <2>2 DEF CheckTransaction
  <2>3. CASE r.data.txn # NoTxn /\ ~(TransactionExpired(r.data.txn) \/ r.data.txn.number # r.arg)
    BY <2>3 DEF CheckTransaction
  <2> QED
    BY <2>1, <2>2, <2>3
<1>3. r \in ViewRows /\ GoesOnFrom(v, r)
  BY <1>1, ItselfGoesOn
<1> HIDE DEF r
<1>4. /\ Continues(r, GoesTo(r, "finish")) /\ Continues(r, GoesTo(r, "exchange"))
      /\ Continues(r, GoesTo(Deletes(r, [r.data EXCEPT !.txn = NoTxn]), "finish"))
  BY <1>3, GoesOn, DeletedGoesOn DEF Stages
<1> QED
  BY <1>1, <1>2, <1>3, <1>4, OnlyGoingOnKeeps

LEMMA EndSessionKeeps ==
  ASSUME SiteSessionInv, NEW v \in Views, EndSession(v)
  PROVE  SiteSessionInv'
<1> DEFINE r == view[v]
           f == r.data.auth.family
<1>1. /\ r # Free /\ r.stage = "revoke" /\ SameVisitor /\ UNCHANGED <<flights, codes>>
      /\ ViewGoes(v, GoesTo(Destroys(r), "finish"))
  BY DEF EndSession, At, InStore, SameVisitor
<1>2. r \in ViewRows /\ GoesOnFrom(v, r)
  BY <1>1, ItselfGoesOn
<1>3. families' = families \/ (r.data.auth # NoAuth /\ families' = [families EXCEPT ![f] = 0])
  BY DEF EndSession
<1>4. families \in Seq(Nat) /\ codes \subseteq Nat /\ TokensSound(view, shelf, families)
  BY DEF SiteSessionInv, SiteTyped, SessionSound
<1>5. r.data.auth # NoAuth => f \in DOMAIN families
  <2>1. r.data.auth # NoAuth => LivesIn(f, r.data.auth.token, r.id, view, shelf)
    BY <1>1 DEF LivesIn, HeldIn
  <2> QED
    BY <1>4, <2>1 DEF TokensSound
<1> HIDE DEF f
<1>6. FamiliesGo
  BY <1>3, <1>4, <1>5 DEF FamiliesGo
<1>7. FlightsGo(v) /\ codes' \subseteq Nat
  BY <1>1, <1>4 DEF FlightsGo
<1> HIDE DEF r
<1>8. Continues(r, GoesTo(Destroys(r), "finish"))
  BY <1>2, DestroyedGoesOn
<1> QED
  BY <1>1, <1>2, <1>6, <1>7, <1>8, GoingOnKeeps

LEMMA ForceRefreshKeeps ==
  ASSUME SiteSessionInv, NEW v \in Views, ForceRefresh(v)
  PROVE  SiteSessionInv'
<1> DEFINE r == view[v]
           s == GoesTo(r, "waiting")
<1>1. /\ r # Free /\ r.stage = "refresh" /\ UNCHANGED <<families, codes>> /\ SameVisitor
  BY DEF ForceRefresh, At, InStore, SameOutside, SameVisitor
<1>2. r \in ViewRows /\ GoesOnFrom(v, r)
  BY <1>1, ItselfGoesOn
<1>3. CASE ViewGoes(v, GoesTo(Destroys(r), "handle")) /\ UNCHANGED flights
  <2> HIDE DEF r
  <2>1. Continues(r, GoesTo(Destroys(r), "handle"))
    BY <1>2, DestroyedGoesOn
  <2> QED
    BY <1>1, <1>2, <1>3, <2>1, OnlyGoingOnKeeps
<1>4. CASE /\ ViewGoes(v, s)
           /\ flights' = IF Held(v) \in DOMAIN flights THEN flights
                         ELSE [t \in DOMAIN flights \union {Held(v)} |->
                                   IF t = Held(v) THEN Pending ELSE flights[t]]
  <2>1. r.data.auth # NoAuth
    BY <1>1 DEF SiteSessionInv, SessionSound, StagesSound
  <2>2. Held(v) = <<r.data.auth.family, r.data.auth.token>>
    BY DEF Held, Token
  <2>3. view'[v] = s
    BY <1>4 DEF ViewGoes, SiteSessionInv, SiteTyped
  <2>4. FamiliesGo /\ codes' \subseteq Nat
    BY <1>1 DEF FamiliesGo, SiteSessionInv, SiteTyped
  <2> HIDE DEF r
  <2>5. Continues(r, s)
    BY <1>2, <2>1, GoesOn DEF Stages
  <2>6. s \in ViewRows /\ s.stage = "waiting" /\ s.data = r.data
    BY <1>2, GoesToRow DEF Stages
  <2> HIDE DEF s
  <2>7. Awaits(s, r.data.auth.family, r.data.auth.token)
    BY <2>6, RowsAreNotFree DEF Awaits
  <2>8. FlightsGo(v)
    <3> DEFINE u == Held(v)
    <3>1. u = <<u[1], u[2]>> /\ Awaits(view'[v], u[1], u[2])
      BY <2>2, <2>3, <2>7
    <3> HIDE DEF u
    <3>2. CASE u \in DOMAIN flights
      BY <1>4, <3>2 DEF FlightsGo, u
    <3>3. CASE u \notin DOMAIN flights
      <4>1. flights' = [t \in DOMAIN flights \union {u} |-> IF t = u THEN Pending ELSE flights[t]]
        BY <1>4, <3>3 DEF u
      <4> QED
        BY <3>1, <3>3, <4>1 DEF FlightsGo
    <3> QED
      BY <3>2, <3>3
  <2> QED
    BY <1>1, <1>2, <1>4, <2>4, <2>5, <2>8, GoingOnKeeps
<1> QED
  BY <1>3, <1>4 DEF ForceRefresh

LEMMA OpenViewKeeps ==
  ASSUME SiteSessionInv, NEW v \in Views, OpenView(v)
  PROVE  SiteSessionInv'
<1>1. SiteTyped
  BY DEF SiteSessionInv
<1>2. PICK kind \in {"page", "login", "callback", "logout"}, arg \in Nat : Open(v, kind, arg)
  <2>1. 0 \in Nat /\ codes \subseteq Nat /\ DOMAIN families \subseteq Nat
    BY <1>1 DEF SiteTyped
  <2> QED
    BY <2>1 DEF OpenView
<1> DEFINE s == [stage |-> "load", kind |-> kind, arg |-> arg, id |-> cookie, data |-> Blank,
                 dirty |-> FALSE, cookie |-> "keep", drops |-> {}, retried |-> FALSE,
                 behind |-> FALSE, ahead |-> FALSE]
<1>3. /\ view[v] = Free /\ ViewGoes(v, s)
      /\ UNCHANGED <<shelf, cookie, flights, families, codes, siteNow, idCount, txnCount, forked>>
  BY <1>2 DEF Open
<1>4. s \in ViewRows /\ s.stage = "load" /\ s.data.auth = NoAuth /\ ~s.ahead
  BY <1>1, BlankData DEF ViewRows, Stages, SiteTyped
<1> HIDE DEF s
<1>5. /\ view' = [view EXCEPT ![v] = s] /\ view'[v] = s
      /\ \A w \in Views \ {v} : view'[w] = view[w]
  BY <1>1, <1>3 DEF ViewGoes, SiteTyped
<1>6. SiteTyped'
  BY <1>1, <1>3, <1>4, <1>5 DEF SiteTyped
<1>7. FlightsGo(v) /\ FamiliesGo
  BY <1>1, <1>3 DEF FlightsGo, FamiliesGo, SiteTyped
<1>8. HoldsItsTokens(v) /\ StoresItsTokens(v) /\ WritesWhatItOwes(v) /\ StageSound(view'[v])
  BY <1>3, <1>4, <1>5 DEF HoldsItsTokens, HeldIn, StoresItsTokens, StoredIn, WritesWhatItOwes,
                          WillWrite, StageSound
<1>9. ActsAlone(v)
  BY <1>3, <1>5, <1>7, <1>8 DEF ActsAlone, Resembles, Awaits
<1> QED
  BY <1>6, <1>9, ActingAloneKeeps DEF SiteSessionInv

\* A request takes what it holds to a new id, with no tokens or with those of
\* a new family.
LEMMA RegeneratingKeeps ==
  ASSUME SiteSessionInv, NEW v \in Views, view[v] # Free, view[v].stage # "waiting",
         NEW data \in SiteData, Regenerates(v, data), FamiliesGo,
         data.auth # NoAuth => /\ data.auth.family \notin DOMAIN families
                               /\ data.auth.family \in DOMAIN families'
                               /\ data.auth.token = families'[data.auth.family]
                               /\ data.auth.token # 0,
         UNCHANGED <<cookie, siteNow, forked, flights>>, codes' \subseteq Nat, txnCount' \in Nat
  PROVE  SiteSessionInv'
<1> DEFINE r == view[v]
           p == Puts(r, data)
           g == GoesTo(p, "finish")
           s == [g EXCEPT !.id = idCount + 1]
<1>1. SiteTyped /\ r \in ViewRows /\ StagesSound(view)
  BY DEF SiteSessionInv, SiteTyped, SessionSound
<1>2. /\ p \in ViewRows /\ p.data = data /\ p.dirty /\ p.drops = r.drops
      /\ p.ahead = r.ahead /\ p.behind = r.behind
  BY <1>1, PutsRow
<1>3. /\ shelf' = Restrict(shelf, DOMAIN shelf \ {r.id}) /\ idCount' = idCount + 1
      /\ view' = [w \in Views |->
            IF w = v THEN s
            ELSE IF Overtaken(w, {r.id} \ {NoId}) THEN [view[w] EXCEPT !.behind = TRUE]
            ELSE view[w]]
  BY DEF Regenerates
<1> HIDE DEF p
<1>4. /\ g \in ViewRows /\ g.data = data /\ g.dirty = p.dirty /\ g.drops = r.drops
      /\ g.stage = "finish" /\ g.ahead = r.ahead /\ g.behind = r.behind
  BY <1>2, GoesToRow DEF Stages
<1> HIDE DEF g
<1>5. /\ s \in ViewRows /\ s.data = data /\ s.dirty /\ s.drops = r.drops /\ s.id = idCount + 1
      /\ s.stage = "finish" /\ s.ahead = r.ahead /\ s.behind = r.behind /\ s # Free
  <2>1. idCount + 1 \in Nat
    BY <1>1 DEF SiteTyped
  <2>2. /\ s \in ViewRows /\ s.data = data /\ s.dirty /\ s.drops = r.drops /\ s.id = idCount + 1
        /\ s.stage = "finish" /\ s.ahead = r.ahead /\ s.behind = r.behind
    BY <1>2, <1>4, <2>1 DEF ViewRows
  <2> QED
    BY <2>2, RowsAreNotFree
<1> HIDE DEF s
<1>6. /\ view'[v] = s
      /\ \A w \in Views \ {v} :
            view'[w] = IF Overtaken(w, {r.id} \ {NoId}) THEN [view[w] EXCEPT !.behind = TRUE]
                       ELSE view[w]
  BY <1>3
<1>7. ASSUME NEW w \in Views \ {v}
      PROVE  /\ Resembles(view[w], view'[w])
             /\ Overtaken(w, {r.id} \ {NoId}) => view'[w].behind
  <2>1. CASE Overtaken(w, {r.id} \ {NoId})
    <3>1. view[w] \in ViewRows
      BY <1>1, <2>1 DEF Overtaken, SiteTyped
    <3>2. view'[w] = [view[w] EXCEPT !.behind = TRUE]
      BY <1>6, <2>1
    <3>3. view'[w].behind
      BY <3>1, <3>2 DEF ViewRows
    <3> QED
      BY <3>1, <3>2, <3>3 DEF Resembles
  <2>2. CASE ~Overtaken(w, {r.id} \ {NoId})
    BY <1>6, <2>2 DEF Resembles
  <2> QED
    BY <2>1, <2>2
<1>8. /\ DOMAIN shelf' = DOMAIN shelf \ {r.id}
      /\ \A id \in DOMAIN shelf' : shelf'[id] = shelf[id]
  BY <1>3 DEF Restrict
<1>9. SiteTyped'
  <2>1. view' \in [Views -> ViewRows \union {Free}]
    <3>1. \A w \in Views : view'[w] \in ViewRows \union {Free}
      BY <1>1, <1>5, <1>6, <1>7, ResemblingRows DEF SiteTyped
    <3> QED
      BY <1>3, <3>1
  <2>2. idCount' \in Nat
    BY <1>1, <1>3 DEF SiteTyped
  <2> QED
    BY <1>1, <1>8, <2>1, <2>2 DEF SiteTyped, FamiliesGo
<1>10. ASSUME NEW f, NEW n, NEW id, HeldIn(f, n, id, s)
       PROVE  /\ f \notin DOMAIN families /\ f \in DOMAIN families' /\ n = families'[f]
              /\ n \in Nat \ {0} /\ id # NoId
  <2>1. data.auth # NoAuth /\ data.auth.family = f /\ data.auth.token = n /\ id = idCount + 1
    BY <1>5, <1>10 DEF HeldIn
  <2>2. data.auth \in SiteAuths /\ idCount \in Nat
    BY <1>1, <2>1 DEF SiteData, SiteTyped
  <2>3. n \in Nat /\ id # NoId
    BY <2>1, <2>2 DEF SiteAuths, NoId
  <2> QED
    BY <2>1, <2>3
<1>11. HoldsItsTokens(v)
  BY <1>6, <1>10 DEF HoldsItsTokens
<1>12. StoresItsTokens(v)
  BY <1>8 DEF StoresItsTokens, StoredIn
<1>13. ASSUME NEW id, WillWrite(r, id), ~WillWrite(s, id), id # NoId, NEW f, NEW n
       PROVE  /\ ~HeldIn(f, n, id, s) /\ ~StoredIn(f, n, id, shelf')
              /\ \A w \in Views \ {v} : HeldIn(f, n, id, view[w]) => view'[w].behind
  <2>1. id \notin Changed(s) /\ id \in Changed(r)
    BY <1>5, <1>13 DEF WillWrite
  <2>2. id = r.id /\ id # s.id
    BY <1>5, <2>1 DEF Changed
  <2>3. ASSUME NEW w \in Views \ {v}, HeldIn(f, n, id, view[w])
        PROVE  Overtaken(w, {r.id} \ {NoId})
    BY <1>1, <1>13, <2>2, <2>3 DEF Overtaken, HeldIn, StagesSound
  <2> QED
    BY <1>7, <1>8, <2>2, <2>3 DEF HeldIn, StoredIn
<1>14. WritesWhatItOwes(v)
  BY <1>6, <1>13 DEF WritesWhatItOwes
<1>15. StageSound(s)
  BY <1>5 DEF StageSound
<1>16. FlightsGo(v)
  BY DEF FlightsGo
<1>17. ActsAlone(v)
  BY <1>6, <1>7, <1>11, <1>12, <1>14, <1>15, <1>16 DEF ActsAlone, Awaits
<1> QED
  BY <1>9, <1>17, ActingAloneKeeps DEF SiteSessionInv

LEMMA BeginAuthorizationKeeps ==
  ASSUME SiteSessionInv, NEW v \in Views, BeginAuthorization(v)
  PROVE  SiteSessionInv'
<1> DEFINE txn == [number |-> txnCount + 1, created |-> siteNow]
           data == [view[v].data EXCEPT !.txn = txn]
<1>1. /\ view[v] # Free /\ view[v].stage = "handle" /\ view[v].data.auth = NoAuth
      /\ txnCount' = txnCount + 1 /\ codes' = codes \union {txnCount + 1}
      /\ Regenerates(v, data) /\ UNCHANGED <<cookie, siteNow, forked, flights, families>>
  BY DEF BeginAuthorization, Handles, At
<1>2. /\ view[v] \in ViewRows /\ txnCount \in Nat /\ siteNow \in Nat /\ codes \subseteq Nat
      /\ families \in Seq(Nat)
  BY <1>1 DEF SiteSessionInv, SiteTyped
<1>3. txn \in SiteTxns
  BY <1>2 DEF SiteTxns
<1> HIDE DEF txn
<1>4. data \in SiteData /\ data.auth = NoAuth
  BY <1>1, <1>2, <1>3 DEF ViewRows, SiteData
<1> HIDE DEF data
<1>5. codes' \subseteq Nat /\ txnCount' \in Nat
  <2>1. txnCount' = txnCount + 1 /\ codes' = codes \union {txnCount + 1}
    BY <1>1
  <2> QED
    BY <1>2, <2>1
<1>6. FamiliesGo
  <2>1. families' = families
    BY <1>1
  <2> QED
    BY <1>2, <2>1 DEF FamiliesGo
<1> QED
  BY <1>1, <1>4, <1>5, <1>6, RegeneratingKeeps, SMTT(30)

LEMMA CompleteAuthorizationKeeps ==
  ASSUME SiteSessionInv, NEW v \in Views, CompleteAuthorization(v)
  PROVE  SiteSessionInv'
<1> DEFINE r == view[v]
           f == Len(families) + 1
           data == SignedIn(f)
<1>1. /\ r # Free /\ r.stage = "exchange" /\ codes' = codes \ {r.arg}
      /\ UNCHANGED <<cookie, flights, siteNow, txnCount, forked>>
  BY DEF CompleteAuthorization, At
<1>2. /\ families \in Seq(Nat) /\ siteNow \in Nat /\ codes' \subseteq Nat /\ txnCount' \in Nat
      /\ Len(families) \in Nat
  <2>1. families \in Seq(Nat) /\ siteNow \in Nat /\ codes \subseteq Nat /\ txnCount \in Nat
    BY DEF SiteSessionInv, SiteTyped
  <2>2. codes' \subseteq Nat
    BY <1>1, <2>1
  <2>3. txnCount' \in Nat
    BY <1>1, <2>1
  <2> QED
    BY <2>1, <2>2, <2>3
<1>3. CASE families' = Append(families, 1) /\ Regenerates(v, data)
  <2>1. /\ DOMAIN families = 1..Len(families) /\ DOMAIN families' = 1..f
        /\ families' \in Seq(Nat) /\ families'[f] = 1
        /\ \A i \in DOMAIN families : families'[i] = families[i]
    BY <1>2, <1>3
  <2>2. f \notin DOMAIN families /\ f \in DOMAIN families' /\ f \in Nat /\ FamiliesGo
    BY <1>2, <2>1 DEF FamiliesGo
  <2> HIDE DEF f
  <2>3. data \in SiteData /\ data.auth.family = f /\ data.auth.token = 1
    BY <1>2, <2>2 DEF SignedIn, SiteData, SiteAuths
  <2> HIDE DEF data
  <2> QED
    BY <1>1, <1>2, <1>3, <2>1, <2>2, <2>3, RegeneratingKeeps
<1>4. CASE /\ ViewGoes(v, GoesTo(Deletes(r, [r.data EXCEPT !.txn = NoTxn]), "finish"))
           /\ InStore /\ UNCHANGED families
  <2>1. r \in ViewRows /\ GoesOnFrom(v, r)
    BY <1>1, ItselfGoesOn
  <2>2. FlightsGo(v) /\ FamiliesGo /\ SameVisitor
    BY <1>1, <1>2, <1>4 DEF FlightsGo, FamiliesGo, SameVisitor, InStore
  <2> HIDE DEF r
  <2>3. Continues(r, GoesTo(Deletes(r, [r.data EXCEPT !.txn = NoTxn]), "finish"))
    BY <2>1, DeletedGoesOn
  <2> QED
    BY <1>2, <1>4, <2>1, <2>2, <2>3, GoingOnKeeps
<1> QED
  BY <1>3, <1>4 DEF CompleteAuthorization

LEMMA FinishKeeps ==
  ASSUME SiteSessionInv, NEW v \in Views, Finish(v)
  PROVE  SiteSessionInv'
<1> DEFINE r == view[v]
           new == r.dirty /\ r.id = NoId
           id == IF new THEN idCount + 1 ELSE r.id
           whole == IF r.dirty THEN With(id, r.data) ELSE shelf
<1>1. SiteTyped /\ StagesSound(view) /\ TokensSound(view, shelf, families) /\ r # Free
      /\ r.stage = "finish"
  BY DEF SiteSessionInv, SessionSound, Finish, At
<1>2. r \in ViewRows /\ idCount \in Nat
  BY <1>1 DEF SiteTyped
<1>3. /\ shelf' = Restrict(whole, DOMAIN whole \ r.drops)
      /\ idCount' = IF new THEN idCount + 1 ELSE idCount
      /\ cookie' = CASE r.cookie = "set" -> id [] r.cookie = "drop" -> NoId [] OTHER -> cookie
      /\ forked' = (forked \/ (Changed(r) # {} /\ r.behind))
      /\ view' = [w \in Views |->
            IF w = v THEN Free
            ELSE IF Overtaken(w, Changed(r) \ {NoId}) THEN [view[w] EXCEPT !.behind = TRUE]
            ELSE view[w]]
      /\ UNCHANGED <<families, codes, siteNow, viewCount, txnCount, flights>>
  BY DEF Finish, SameOutside
<1>4. id \in Nat /\ (r.dirty => id # NoId) /\ (~new => id = r.id)
  BY <1>2 DEF ViewRows, NoId
<1>5. /\ DOMAIN whole = DOMAIN shelf \union (IF r.dirty THEN {id} ELSE {})
      /\ \A i \in DOMAIN whole : whole[i] = IF r.dirty /\ i = id THEN r.data ELSE shelf[i]
  BY DEF With
<1>6. /\ DOMAIN shelf' = DOMAIN whole \ r.drops
      /\ \A i \in DOMAIN shelf' : shelf'[i] = whole[i]
  BY <1>3 DEF Restrict
<1> HIDE DEF whole
<1>7. /\ view'[v] = Free
      /\ \A w \in Views \ {v} :
            view'[w] = IF Overtaken(w, Changed(r) \ {NoId}) THEN [view[w] EXCEPT !.behind = TRUE]
                       ELSE view[w]
  BY <1>3
<1>8. ASSUME NEW w \in Views \ {v}
      PROVE  /\ Resembles(view[w], view'[w])
             /\ Overtaken(w, Changed(r) \ {NoId}) => view'[w].behind
  <2>1. CASE Overtaken(w, Changed(r) \ {NoId})
    <3>1. view[w] \in ViewRows
      BY <1>1, <2>1 DEF Overtaken, SiteTyped
    <3>2. view'[w] = [view[w] EXCEPT !.behind = TRUE]
      BY <1>7, <2>1
    <3>3. view'[w].behind
      BY <3>1, <3>2 DEF ViewRows
    <3> QED
      BY <3>1, <3>2, <3>3 DEF Resembles
  <2>2. CASE ~Overtaken(w, Changed(r) \ {NoId})
    BY <1>7, <2>2 DEF Resembles
  <2> QED
    BY <2>1, <2>2
<1>9. SiteTyped'
  <2>1. view' \in [Views -> ViewRows \union {Free}]
    <3>1. \A w \in Views : view'[w] \in ViewRows \union {Free}
      BY <1>1, <1>7, <1>8, ResemblingRows DEF SiteTyped
    <3> QED
      BY <1>3, <3>1
  <2>2. idCount' \in Nat /\ cookie' \in Nat
    BY <1>1, <1>2, <1>3, <1>4 DEF SiteTyped, NoId, ViewRows
  <2>3. DOMAIN shelf' \subseteq Nat \ {NoId} /\ \A i \in DOMAIN shelf' : shelf'[i] \in SiteData
    BY <1>1, <1>2, <1>4, <1>5, <1>6 DEF SiteTyped, ViewRows
  <2> QED
    BY <1>1, <1>3, <2>1, <2>2, <2>3 DEF SiteTyped
<1>10. ASSUME NEW f, NEW n, NEW i, StoredIn(f, n, i, shelf'), r.dirty, i = id
       PROVE  i = r.id /\ PutsBack(f, n, i, v)
  <2>1. /\ r.data.auth # NoAuth /\ r.data.auth.family = f /\ r.data.auth.token = n
    BY <1>5, <1>6, <1>10 DEF StoredIn
  <2>2. HeldIn(f, n, r.id, r)
    BY <1>1, <2>1 DEF HeldIn
  <2>3. r.id # NoId
    BY <1>1, <2>2 DEF LivesIn, TokensSound
  <2>4. i = r.id
    BY <1>4, <1>10, <2>3
  <2>5. r.id \in Changed(r)
    BY <1>10 DEF Changed
  <2>6. ~forked' => ~r.behind
    BY <1>3, <2>5
  <2> QED
    BY <2>2, <2>4, <2>6 DEF PutsBack
<1>11. StoresItsTokens(v)
  <2> SUFFICES ASSUME NEW f, NEW n, NEW i, StoredIn(f, n, i, shelf')
               PROVE  StoredIn(f, n, i, shelf) \/ PutsBack(f, n, i, v)
    BY DEF StoresItsTokens
  <2>1. CASE r.dirty /\ i = id
    BY <1>10, <2>1
  <2>2. CASE ~(r.dirty /\ i = id)
    BY <1>5, <1>6, <2>2 DEF StoredIn
  <2> QED
    BY <2>1, <2>2
<1>12. WritesWhatItOwes(v)
  <2> SUFFICES ASSUME NEW i, WillWrite(r, i), i # NoId, NEW f, NEW n
               PROVE  /\ ~HeldIn(f, n, i, view'[v])
                      /\ StoredIn(f, n, i, shelf') => PutsBack(f, n, i, v)
                      /\ \A w \in Views \ {v} : HeldIn(f, n, i, view[w]) => view'[w].behind
    BY DEF WritesWhatItOwes
  <2>1. i \in Changed(r)
    BY DEF WillWrite
  <2>2. ASSUME StoredIn(f, n, i, shelf')
        PROVE  PutsBack(f, n, i, v)
    <3>1. i \notin r.drops
      BY <1>6, <2>2 DEF StoredIn
    <3>2. r.dirty /\ i = r.id
      BY <2>1, <3>1 DEF Changed
    <3>3. i = id
      BY <1>4, <3>2
    <3> QED
      BY <1>10, <2>2, <3>2, <3>3
  <2>3. ASSUME NEW w \in Views \ {v}, HeldIn(f, n, i, view[w])
        PROVE  view'[w].behind
    <3>1. Overtaken(w, Changed(r) \ {NoId})
      BY <1>1, <2>1, <2>3 DEF Overtaken, HeldIn, StagesSound
    <3> QED
      BY <1>8, <3>1
  <2>4. ~HeldIn(f, n, i, view'[v])
    BY <1>7 DEF HeldIn
  <2> QED
    BY <2>2, <2>3, <2>4
<1>13. FlightsGo(v) /\ FamiliesGo
  BY <1>1, <1>3 DEF FlightsGo, FamiliesGo, SiteTyped
<1>14. HoldsItsTokens(v) /\ StageSound(view'[v])
  BY <1>7 DEF HoldsItsTokens, HeldIn, StageSound
<1>15. ActsAlone(v)
  BY <1>1, <1>3, <1>8, <1>11, <1>12, <1>13, <1>14 DEF ActsAlone, Awaits
<1> QED
  BY <1>9, <1>15, ActingAloneKeeps DEF SiteSessionInv

-----------------------------------------------------------------------------
\* The provider rotates the token it is shown, or ends the family.
LEMMA PresentKeeps ==
  ASSUME SiteSessionInv, NEW t \in DOMAIN flights, Present(t)
  PROVE  SiteSessionInv'
<1> DEFINE f == t[1]
           n == t[2]
           good == families[f] = n
<1>1. /\ SiteTyped /\ SessionSound(view, shelf, flights, families, forked)
      /\ TokensSound(view, shelf, families) /\ FlightsSound(view, shelf, flights, families)
      /\ StagesSound(view)
  BY DEF SiteSessionInv, SessionSound
<1>2. PICK lost \in BOOLEAN :
         /\ flights[t] = Pending
         /\ families' = [families EXCEPT ![f] = IF good THEN n + 1 ELSE 0]
         /\ flights' = [flights EXCEPT ![t] = IF good /\ ~lost THEN n + 1 ELSE Refusal]
         /\ UNCHANGED <<shelf, cookie, view, codes, siteNow, idCount, txnCount, forked>>
  BY DEF Present
<1>3. f \in DOMAIN families /\ t = <<f, n>>
  BY <1>1, FlightsAreHeld DEF FlightsSound
<1>4. PICK w \in Views : Awaits(view[w], f, n) /\ HeldIn(f, n, view[w].id, view[w])
  BY <1>1, FlightsAreHeld
<1>5. LivesIn(f, n, view[w].id, view, shelf)
  BY <1>4 DEF LivesIn
<1>6. n \in Nat \ {0}
  BY <1>1, <1>5 DEF TokensSound
<1> HIDE DEF f, n
<1>7. /\ families' \in Seq(Nat) /\ DOMAIN families' = DOMAIN families
      /\ families'[f] = IF good THEN n + 1 ELSE 0
      /\ \A g \in DOMAIN families : g # f => families'[g] = families[g]
  BY <1>1, <1>2, <1>3, <1>6 DEF SiteTyped
<1>8. /\ DOMAIN flights' = DOMAIN flights
      /\ flights'[t] = IF good /\ ~lost THEN n + 1 ELSE Refusal
      /\ \A u \in DOMAIN flights : u # t => flights'[u] = flights[u]
  BY <1>2
<1>9. SiteTyped'
  BY <1>1, <1>2, <1>7 DEF SiteTyped
<1>10. ASSUME NEW g, NEW m, NEW id, LivesIn(g, m, id, view, shelf)
       PROVE  /\ g \in DOMAIN families' /\ m \in Nat \ {0} /\ id # NoId
              /\ families'[g] = 0 \/ m <= families'[g]
              /\ g = f /\ good => m <= n
  <2>1. /\ g \in DOMAIN families /\ m \in Nat \ {0} /\ id # NoId
        /\ families[g] = 0 \/ m <= families[g]
    BY <1>1, <1>10 DEF TokensSound
  <2> QED
    BY <1>6, <1>7, <2>1
<1>11. TokensSound(view, shelf, families')
  BY <1>1, <1>10 DEF TokensSound
<1>12. FlightsSound(view, shelf, flights', families')
  <2> SUFFICES ASSUME NEW u \in DOMAIN flights
               PROVE  /\ u = <<u[1], u[2]>> /\ flights'[u] \in Nat
                      /\ \E x \in Views : Awaits(view[x], u[1], u[2])
                      /\ flights'[u] \notin {Pending, Refusal} =>
                           /\ flights'[u] = u[2] + 1 /\ families'[u[1]] \in {0, u[2] + 1}
                           /\ \A id : ~LivesIn(u[1], u[2] + 1, id, view, shelf)
    BY <1>8 DEF FlightsSound
  <2>1. /\ u = <<u[1], u[2]>> /\ flights[u] \in Nat /\ u[1] \in DOMAIN families
        /\ \E x \in Views : Awaits(view[x], u[1], u[2])
        /\ flights[u] \notin {Pending, Refusal} =>
             /\ flights[u] = u[2] + 1 /\ families[u[1]] \in {0, u[2] + 1}
             /\ \A id : ~LivesIn(u[1], u[2] + 1, id, view, shelf)
    BY <1>1, FlightsAreHeld DEF FlightsSound
  <2>2. CASE u = t
    <3>1. u[1] = f /\ u[2] = n
      BY <1>3, <2>2
    <3>2. flights'[u] \in Nat
      BY <1>6, <1>8, <2>2 DEF Refusal
    <3>3. flights'[u] # Refusal => good /\ flights'[u] = n + 1 /\ families'[f] = n + 1
      BY <1>7, <1>8, <2>2
    <3>4. ASSUME good, NEW id, LivesIn(f, n + 1, id, view, shelf) PROVE FALSE
      BY <1>6, <1>10, <3>4
    <3> QED
      BY <2>1, <3>1, <3>2, <3>3, <3>4
  <2>3. CASE u # t
    <3>1. flights'[u] = flights[u]
      BY <1>8, <2>3
    <3>2. ASSUME flights[u] \notin {Pending, Refusal}
          PROVE  families'[u[1]] \in {0, u[2] + 1}
      <4>1. CASE u[1] # f
        BY <1>7, <2>1, <3>2, <4>1
      <4>2. CASE u[1] = f
        <5>1. ~good
          BY <1>5, <1>6, <2>1, <3>2, <4>2
        <5> QED
          BY <1>7, <4>2, <5>1
      <4> QED
        BY <4>1, <4>2
    <3> QED
      BY <2>1, <3>1, <3>2
  <2> QED
    BY <2>2, <2>3
<1>13. ASSUME NEW g, NEW m, NEW id, NEW besides, LivesIn(g, m, id, view, shelf), families'[g] > m,
              families[g] > m => Explained(g, m, id, view, flights, besides)
       PROVE  Explained(g, m, id, view, flights', besides)
  <2>1. ASSUME families[g] > m PROVE Explained(g, m, id, view, flights', besides)
    <3>1. Explained(g, m, id, view, flights, besides)
      BY <1>13, <2>1
    <3>2. ASSUME <<g, m>> \in DOMAIN flights, flights[<<g, m>>] # Pending
          PROVE  <<g, m>> \in DOMAIN flights' /\ flights'[<<g, m>>] # Pending
      BY <1>2, <1>8, <3>2
    <3> QED
      BY <3>1, <3>2 DEF Explained
  <2>2. ASSUME ~(families[g] > m) PROVE Explained(g, m, id, view, flights', besides)
    <3>1. g \in DOMAIN families /\ m \in Nat \ {0}
      BY <1>7, <1>10, <1>13
    <3>2. g = f
      BY <1>7, <1>13, <2>2, <3>1
    <3>3. good
      BY <1>7, <1>13, <3>1, <3>2
    <3>4. m = n
      BY <1>6, <1>10, <1>13, <2>2, <3>1, <3>2, <3>3
    <3>5. id = view[w].id
      BY <1>1, <1>5, <1>13, <3>2, <3>4 DEF TokensSound
    <3>6. <<g, m>> = t /\ flights'[t] # Pending
      BY <1>3, <1>6, <1>8, <3>2, <3>4 DEF Pending, Refusal
    <3> QED
      BY <1>4, <1>8, <3>2, <3>4, <3>5, <3>6 DEF Explained
  <2> QED
    BY <2>1, <2>2
<1>14. ~forked => StaleExplained(view, shelf, flights', families')
  <2> SUFFICES ASSUME ~forked PROVE StaleExplained(view, shelf, flights', families')
    OBVIOUS
  <2>1. StaleExplained(view, shelf, flights, families)
    BY <1>1 DEF SessionSound
  <2>2. ASSUME NEW g, NEW m, NEW id, StoredIn(g, m, id, shelf), families'[g] > m
        PROVE  Explained(g, m, id, view, flights', {})
    BY <1>13, <2>1, <2>2 DEF StaleExplained, LivesIn
  <2>3. ASSUME NEW g, NEW m, NEW id, NEW v \in Views, HeldIn(g, m, id, view[v]), ~view[v].behind,
               families'[g] > m
        PROVE  Explained(g, m, id, view, flights', {v})
    BY <1>13, <2>1, <2>3 DEF StaleExplained, LivesIn
  <2> QED
    BY <2>2, <2>3 DEF StaleExplained
<1>15. SessionSound(view, shelf, flights', families', forked)
  BY <1>1, <1>11, <1>12, <1>14 DEF SessionSound
<1> QED
  BY <1>2, <1>9, <1>15 DEF SiteSessionInv

\* What the answer makes of a request that waits for it: it is to write the
\* session's id, and holds the newer token or none.
Settles(r, s, f, n, answer) ==
    /\ s \in ViewRows /\ s.ahead /\ s.behind = r.behind /\ s.stage = "handle"
    /\ Changed(r) \ {NoId} \subseteq Changed(s) /\ (r.id # NoId => r.id \in Changed(s))
    /\ s.data.auth # NoAuth =>
          /\ answer # Refusal /\ s.id = r.id
          /\ s.data.auth.family = f /\ s.data.auth.token = answer

LEMMA AnsweredRow ==
  ASSUME NEW t \in DOMAIN flights, flights[t] \in Nat, siteNow \in Nat,
         NEW r \in ViewRows, r.data.auth # NoAuth,
         NEW f, NEW n, Awaits(r, f, n)
  PROVE  Settles(r, Answered(t, r), f, n, flights[t])
<1> DEFINE a == r.data.auth
           b == FromTokens(a, flights[t])
           data == [r.data EXCEPT !.auth = b]
           next == IF flights[t] = Refusal THEN Destroys(r) ELSE Puts(r, data)
           g == GoesTo(next, "handle")
           s == [g EXCEPT !.ahead = TRUE]
<1>1. s = Answered(t, r)
  BY DEF Answered
<1>2. r.data \in SiteData /\ a \in SiteAuths /\ a.family = f
  BY DEF ViewRows, SiteData, Awaits
<1>3. b \in SiteAuths /\ b.family = f /\ b.token = flights[t]
  BY <1>2 DEF FromTokens, SiteAuths
<1> HIDE DEF b
<1>4. data \in SiteData /\ data.auth = b
  BY <1>2, <1>3 DEF SiteData
<1> HIDE DEF data
<1>5. /\ next \in ViewRows /\ next.behind = r.behind
      /\ Changed(r) \ {NoId} \subseteq Changed(next) /\ (r.id # NoId => r.id \in Changed(next))
      /\ next.data.auth # NoAuth =>
            /\ flights[t] # Refusal /\ next.id = r.id
            /\ next.data.auth.family = f /\ next.data.auth.token = flights[t]
  <2>1. CASE flights[t] = Refusal
    <3>1. /\ next \in ViewRows /\ next.data = Blank /\ next.behind = r.behind
          /\ next.drops = r.drops \union ({r.id} \ {NoId})
      BY <2>1, DestroysRow
    <3> HIDE DEF next
    <3> QED
      BY <3>1, BlankData DEF Changed
  <2>2. CASE flights[t] # Refusal
    <3>1. /\ next \in ViewRows /\ next.data = data /\ next.id = r.id /\ next.dirty
          /\ next.drops = r.drops /\ next.behind = r.behind
      BY <1>4, <2>2, PutsRow
    <3> HIDE DEF next
    <3> QED
      BY <1>3, <1>4, <2>2, <3>1 DEF Changed
  <2> QED
    BY <2>1, <2>2
<1> HIDE DEF next
<1>6. /\ g \in ViewRows /\ g.data = next.data /\ g.id = next.id /\ g.dirty = next.dirty
      /\ g.drops = next.drops /\ g.stage = "handle" /\ g.behind = next.behind
  BY <1>5, GoesToRow DEF Stages
<1> HIDE DEF g
<1>7. /\ s \in ViewRows /\ s.data = next.data /\ s.id = next.id /\ s.dirty = next.dirty
      /\ s.drops = next.drops /\ s.stage = "handle" /\ s.behind = next.behind /\ s.ahead
  BY <1>6 DEF ViewRows
<1> HIDE DEF s
<1>8. Changed(s) = Changed(next)
  BY <1>7 DEF Changed
<1>9. Settles(r, s, f, n, flights[t])
  BY <1>5, <1>7, <1>8 DEF Settles
<1> QED
  BY <1>1, <1>9

LEMMA SettleKeeps ==
  ASSUME SiteSessionInv, NEW t \in DOMAIN flights, Settle(t)
  PROVE  SiteSessionInv'
<1> DEFINE f == t[1]
           n == t[2]
           waits(v) == Awaits(view[v], f, n)
<1>1. /\ SiteTyped /\ SessionSound(view, shelf, flights, families, forked)
      /\ TokensSound(view, shelf, families) /\ FlightsSound(view, shelf, flights, families)
      /\ StagesSound(view)
  BY DEF SiteSessionInv, SessionSound
<1>2. /\ flights[t] # Pending
      /\ view' = [v \in Views |-> IF At(v, "waiting") /\ Held(v) = t THEN Answered(t, view[v])
                                  ELSE view[v]]
      /\ flights' = [u \in DOMAIN flights \ {t} |-> flights[u]]
      /\ UNCHANGED <<shelf, idCount, families, codes, siteNow, viewCount, txnCount, cookie, forked>>
  BY DEF Settle, InStore, SameOutside
<1>3. /\ t = <<f, n>> /\ flights[t] \in Nat /\ siteNow \in Nat
      /\ flights[t] # Refusal =>
            /\ flights[t] = n + 1 /\ families[f] \in {0, n + 1}
            /\ \A id : ~LivesIn(f, n + 1, id, view, shelf)
  BY <1>1, <1>2 DEF FlightsSound, SiteTyped
<1>4. \A v \in Views : At(v, "waiting") /\ Held(v) = t <=> waits(v)
  BY <1>3 DEF At, Held, Token, Awaits
<1>5. ASSUME NEW v \in Views, waits(v)
      PROVE  /\ Settles(view[v], view'[v], f, n, flights[t]) /\ HeldIn(f, n, view[v].id, view[v])
             /\ LivesIn(f, n, view[v].id, view, shelf)
             /\ f \in DOMAIN families /\ n \in Nat \ {0} /\ view[v].id # NoId
  <2>1. view[v] \in ViewRows /\ view[v].data.auth # NoAuth
    BY <1>1, <1>5 DEF SiteTyped, Awaits, StagesSound
  <2>2. HeldIn(f, n, view[v].id, view[v])
    BY <1>5, <2>1 DEF HeldIn, Awaits
  <2>3. LivesIn(f, n, view[v].id, view, shelf)
    BY <2>2 DEF LivesIn
  <2>4. f \in DOMAIN families /\ n \in Nat \ {0} /\ view[v].id # NoId
    BY <1>1, <2>3 DEF TokensSound
  <2>5. view'[v] = Answered(t, view[v])
    BY <1>2, <1>4, <1>5
  <2>6. Settles(view[v], Answered(t, view[v]), f, n, flights[t])
    BY <1>3, <1>5, <2>1, AnsweredRow
  <2> QED
    BY <2>2, <2>3, <2>4, <2>5, <2>6
<1>6. ASSUME NEW v \in Views, ~waits(v) PROVE view'[v] = view[v]
  BY <1>2, <1>4, <1>6
<1>7. PICK first \in Views : waits(first)
  BY <1>1 DEF FlightsSound
<1>8. n \in Nat \ {0} /\ f \in DOMAIN families
  BY <1>5, <1>7
<1>9. SiteTyped'
  <2>1. \A v \in Views : view'[v] \in ViewRows \union {Free}
    BY <1>1, <1>5, <1>6 DEF SiteTyped, Settles
  <2>2. view' \in [Views -> ViewRows \union {Free}]
    BY <1>2, <2>1
  <2> QED
    BY <1>1, <1>2, <2>2 DEF SiteTyped
<1> HIDE DEF f, n
<1>10. ASSUME NEW g, NEW m, NEW id, LivesIn(g, m, id, view', shelf')
       PROVE  \/ LivesIn(g, m, id, view, shelf)
              \/ /\ g = f /\ m = n + 1 /\ m = flights[t] /\ flights[t] # Refusal
                 /\ LivesIn(f, n, id, view, shelf)
  <2>1. CASE StoredIn(g, m, id, shelf')
    BY <1>2, <2>1 DEF LivesIn
  <2>2. ASSUME NEW v \in Views, HeldIn(g, m, id, view'[v]), ~waits(v)
        PROVE  LivesIn(g, m, id, view, shelf)
    BY <1>6, <2>2 DEF LivesIn
  <2>3. ASSUME NEW v \in Views, HeldIn(g, m, id, view'[v]), waits(v)
        PROVE  /\ g = f /\ m = n + 1 /\ m = flights[t] /\ flights[t] # Refusal
               /\ LivesIn(f, n, id, view, shelf)
    <3>1. Settles(view[v], view'[v], f, n, flights[t]) /\ LivesIn(f, n, view[v].id, view, shelf)
      BY <1>5, <2>3
    <3>2. /\ flights[t] # Refusal /\ id = view[v].id /\ g = f /\ m = flights[t]
      BY <2>3, <3>1 DEF Settles, HeldIn
    <3> QED
      BY <1>3, <3>1, <3>2
  <2> QED
    BY <1>10, <2>1, <2>2, <2>3 DEF LivesIn
<1>11. TokensSound(view', shelf', families')
  <2>1. ASSUME NEW g, NEW m, NEW id, LivesIn(g, m, id, view', shelf')
        PROVE  /\ g \in DOMAIN families' /\ m \in Nat \ {0} /\ id # NoId
               /\ families'[g] = 0 \/ m <= families'[g]
               /\ \E k : LivesIn(g, k, id, view, shelf)
    <3>1. CASE LivesIn(g, m, id, view, shelf)
      BY <1>1, <1>2, <3>1 DEF TokensSound
    <3>2. CASE /\ g = f /\ m = n + 1 /\ m = flights[t] /\ flights[t] # Refusal
               /\ LivesIn(f, n, id, view, shelf)
      <4>1. id # NoId
        BY <1>1, <3>2 DEF TokensSound
      <4> QED
        BY <1>2, <1>3, <1>8, <3>2, <4>1
    <3> QED
      BY <1>10, <2>1, <3>1, <3>2
  <2>2. ASSUME NEW g, NEW m, NEW k, NEW id, NEW jd,
               LivesIn(g, m, id, view', shelf'), LivesIn(g, k, jd, view', shelf')
        PROVE  id = jd
    <3>1. (\E i : LivesIn(g, i, id, view, shelf)) /\ (\E i : LivesIn(g, i, jd, view, shelf))
      BY <2>1, <2>2
    <3> QED
      BY <1>1, <3>1 DEF TokensSound
  <2> QED
    BY <2>1, <2>2 DEF TokensSound
<1>12. ASSUME NEW u \in DOMAIN flights, u # t, NEW v \in Views, Awaits(view[v], u[1], u[2])
       PROVE  view'[v] = view[v]
  <2>1. u = <<u[1], u[2]>>
    BY <1>1 DEF FlightsSound
  <2>2. ~waits(v)
    BY <1>3, <1>12, <2>1 DEF Awaits
  <2> QED
    BY <1>6, <2>2
<1>13. DOMAIN flights' = DOMAIN flights \ {t} /\ \A u \in DOMAIN flights' : flights'[u] = flights[u]
  BY <1>2
<1>14. FlightsSound(view', shelf', flights', families')
  <2> SUFFICES ASSUME NEW u \in DOMAIN flights, u # t
               PROVE  /\ u = <<u[1], u[2]>> /\ flights[u] \in Nat
                      /\ \E x \in Views : Awaits(view'[x], u[1], u[2])
                      /\ flights[u] \notin {Pending, Refusal} =>
                           /\ flights[u] = u[2] + 1 /\ families[u[1]] \in {0, u[2] + 1}
                           /\ \A id : ~LivesIn(u[1], u[2] + 1, id, view', shelf')
    BY <1>2, <1>13 DEF FlightsSound
  <2>1. /\ u = <<u[1], u[2]>> /\ flights[u] \in Nat
        /\ \E x \in Views : Awaits(view[x], u[1], u[2])
        /\ flights[u] \notin {Pending, Refusal} =>
             /\ flights[u] = u[2] + 1 /\ families[u[1]] \in {0, u[2] + 1}
             /\ \A id : ~LivesIn(u[1], u[2] + 1, id, view, shelf)
    BY <1>1 DEF FlightsSound
  <2>2. PICK x \in Views : Awaits(view[x], u[1], u[2]) /\ HeldIn(u[1], u[2], view[x].id, view[x])
    BY <1>1, FlightsAreHeld
  <2>3. u[2] \in Nat
    BY <1>1, <2>2 DEF TokensSound, LivesIn
  <2>4. ASSUME flights[u] \notin {Pending, Refusal},
               NEW id, LivesIn(u[1], u[2] + 1, id, view', shelf')
        PROVE  FALSE
    <3>1. u[1] = f /\ u[2] + 1 = n + 1
      BY <1>10, <2>1, <2>4
    <3>2. u[2] = n
      BY <1>8, <2>3, <3>1
    <3> QED
      BY <1>3, <2>1, <3>1, <3>2
  <2> QED
    BY <1>12, <2>1, <2>2, <2>4
<1>15. StagesSound(view')
  <2> SUFFICES ASSUME NEW v \in Views, view'[v] # Free
               PROVE  /\ view'[v].stage \in {"refresh", "waiting"} => view'[v].data.auth # NoAuth
                      /\ view'[v].stage = "load" => view'[v].data.auth = NoAuth /\ ~view'[v].ahead
    BY DEF StagesSound
  <2>1. CASE waits(v)
    BY <1>5, <2>1 DEF Settles
  <2>2. CASE ~waits(v)
    BY <1>1, <1>6, <2>2 DEF StagesSound
  <2> QED
    BY <2>1, <2>2
<1>16. ASSUME NEW v \in Views, NEW id, id # NoId, WillWrite(view[v], id)
       PROVE  WillWrite(view'[v], id)
  <2>1. CASE waits(v)
    <3>1. Settles(view[v], view'[v], f, n, flights[t])
      BY <1>5, <2>1
    <3> QED
      BY <1>16, <3>1, RowsAreNotFree DEF Settles, WillWrite
  <2>2. CASE ~waits(v)
    BY <1>6, <1>16, <2>2
  <2> QED
    BY <2>1, <2>2
<1>17. ASSUME NEW g, NEW m, NEW id, id # NoId, NEW besides, \A x \in besides : ~waits(x),
              Explained(g, m, id, view, flights, besides)
       PROVE  Explained(g, m, id, view', flights', besides)
  <2>1. CASE \E x \in Views \ besides : WillWrite(view[x], id)
    BY <1>16, <1>17, <2>1 DEF Explained
  <2>2. CASE /\ <<g, m>> \in DOMAIN flights /\ flights[<<g, m>>] # Pending
             /\ \E x \in Views : Awaits(view[x], g, m) /\ view[x].id = id
    <3>1. PICK x \in Views : Awaits(view[x], g, m) /\ view[x].id = id
      BY <2>2
    <3>2. CASE <<g, m>> = t
      <4>1. waits(x)
        BY <1>3, <3>1, <3>2
      <4>2. Settles(view[x], view'[x], f, n, flights[t])
        BY <1>5, <4>1
      <4>3. WillWrite(view'[x], id)
        BY <1>17, <3>1, <4>2, RowsAreNotFree DEF Settles, WillWrite
      <4> QED
        BY <1>17, <4>1, <4>3 DEF Explained
    <3>3. CASE <<g, m>> # t
      <4>1. view'[x] = view[x]
        BY <1>12, <2>2, <3>1, <3>3
      <4>2. <<g, m>> \in DOMAIN flights' /\ flights'[<<g, m>>] # Pending
        BY <1>13, <2>2, <3>3
      <4> QED
        BY <3>1, <4>1, <4>2 DEF Explained
    <3> QED
      BY <3>2, <3>3
  <2> QED
    BY <1>17, <2>1, <2>2 DEF Explained
<1>18. ~forked => StaleExplained(view', shelf', flights', families')
  <2> SUFFICES ASSUME ~forked PROVE StaleExplained(view', shelf', flights', families')
    OBVIOUS
  <2>1. StaleExplained(view, shelf, flights, families)
    BY <1>1 DEF SessionSound
  <2>2. ASSUME NEW g, NEW m, NEW id, StoredIn(g, m, id, shelf'), families'[g] > m
        PROVE  Explained(g, m, id, view', flights', {})
    <3>1. StoredIn(g, m, id, shelf) /\ families[g] > m
      BY <1>2, <2>2
    <3>2. Explained(g, m, id, view, flights, {}) /\ id # NoId
      BY <1>1, <2>1, <3>1 DEF StaleExplained, LivesIn, TokensSound
    <3> QED
      BY <1>17, <3>2
  <2>3. ASSUME NEW g, NEW m, NEW id, NEW v \in Views, HeldIn(g, m, id, view'[v]), ~view'[v].behind,
               families'[g] > m
        PROVE  Explained(g, m, id, view', flights', {v})
    <3>1. CASE waits(v)
      <4>1. Settles(view[v], view'[v], f, n, flights[t])
        BY <1>5, <3>1
      <4>2. flights[t] # Refusal /\ g = f /\ m = flights[t]
        BY <2>3, <4>1 DEF Settles, HeldIn
      <4> QED
        BY <1>2, <1>3, <1>8, <2>3, <4>2
    <3>2. CASE ~waits(v)
      <4>1. HeldIn(g, m, id, view[v]) /\ ~view[v].behind /\ families[g] > m
        BY <1>2, <1>6, <2>3, <3>2
      <4>2. Explained(g, m, id, view, flights, {v}) /\ id # NoId
        BY <1>1, <2>1, <4>1 DEF StaleExplained, LivesIn, TokensSound
      <4> QED
        BY <1>17, <3>2, <4>2
    <3> QED
      BY <3>1, <3>2
  <2> QED
    BY <2>2, <2>3 DEF StaleExplained
<1>19. SessionSound(view', shelf', flights', families', forked')
  BY <1>2, <1>11, <1>14, <1>15, <1>18 DEF SessionSound
<1> QED
  BY <1>9, <1>19 DEF SiteSessionInv

LEMMA RestartKeeps ==
  ASSUME SiteSessionInv, Restart
  PROVE  SiteSessionInv'
<1>1. /\ view' = [v \in Views |-> Free] /\ flights' = Free /\ forked'
      /\ UNCHANGED <<shelf, idCount, families, codes, siteNow, txnCount, cookie>>
  BY DEF Restart, InStore, SameOutside
<1>2. SiteTyped /\ TokensSound(view, shelf, families)
  BY DEF SiteSessionInv, SessionSound
<1>3. SiteTyped'
  BY <1>1, <1>2 DEF SiteTyped
<1>4. \A f, n, id : LivesIn(f, n, id, view', shelf') => LivesIn(f, n, id, view, shelf)
  BY <1>1 DEF LivesIn, HeldIn
<1>5. TokensSound(view', shelf', families')
  <2>1. ASSUME NEW f, NEW n, NEW id, LivesIn(f, n, id, view', shelf')
        PROVE  /\ f \in DOMAIN families /\ n \in Nat \ {0} /\ id # NoId
               /\ families[f] = 0 \/ n <= families[f]
    BY <1>2, <1>4, <2>1 DEF TokensSound
  <2>2. ASSUME NEW f, NEW n, NEW m, NEW id, NEW jd,
               LivesIn(f, n, id, view', shelf'), LivesIn(f, m, jd, view', shelf')
        PROVE  id = jd
    BY <1>2, <1>4, <2>2 DEF TokensSound
  <2> QED
    BY <1>1, <2>1, <2>2 DEF TokensSound
<1>6. DOMAIN flights' = {}
  BY <1>1 DEF Free
<1>7. FlightsSound(view', shelf', flights', families')
  BY <1>6 DEF FlightsSound
<1>8. StagesSound(view')
  BY <1>1 DEF StagesSound
<1> QED
  BY <1>1, <1>3, <1>5, <1>7, <1>8 DEF SiteSessionInv, SessionSound

LEMMA SiteTimeKeeps ==
  ASSUME SiteSessionInv, SiteTimePasses
  PROVE  SiteSessionInv'
<1>1. /\ siteNow' = siteNow + 1
      /\ UNCHANGED <<shelf, cookie, view, flights, families, codes, idCount, txnCount, forked>>
  BY DEF SiteTimePasses
<1>2. SiteTyped'
  BY <1>1 DEF SiteSessionInv, SiteTyped
<1>3. SessionSound(view', shelf', flights', families', forked')
  BY <1>1 DEF SiteSessionInv
<1> QED
  BY <1>2, <1>3 DEF SiteSessionInv

LEMMA SiteSessionKeeps ==
  ASSUME SiteSessionInv, [SiteSessionNext]_siteSessionVars
  PROVE  SiteSessionInv'
<1>1. ASSUME NEW v \in Views, ServesView(v) PROVE SiteSessionInv'
  BY <1>1, OpenViewKeeps, MiddlewareKeeps, CallApiKeeps, ForceRefreshKeeps, RenderKeeps,
     BeginAuthorizationKeeps, CheckTransactionKeeps, CompleteAuthorizationKeeps, VerifyFormKeeps,
     EndSessionKeeps, FinishKeeps DEF ServesView
<1>2. ASSUME NEW t \in DOMAIN flights, Present(t) \/ Settle(t) PROVE SiteSessionInv'
  BY <1>2, PresentKeeps, SettleKeeps
<1>3. CASE UNCHANGED siteSessionVars
  <2>1. SiteTyped'
    BY <1>3 DEF SiteSessionInv, SiteTyped, siteSessionVars
  <2>2. SessionSound(view', shelf', flights', families', forked')
    BY <1>3 DEF SiteSessionInv, siteSessionVars
  <2> QED
    BY <2>1, <2>2 DEF SiteSessionInv
<1> QED
  BY <1>1, <1>2, <1>3, RestartKeeps, SiteTimeKeeps DEF SiteSessionNext

LEMMA SiteSessionBegins == SiteSessionInit => SiteSessionInv
<1> SUFFICES ASSUME SiteSessionInit PROVE SiteSessionInv
  OBVIOUS
<1>1. /\ DOMAIN shelf = {} /\ view = [v \in Views |-> Free] /\ DOMAIN flights = {}
      /\ families = <<>> /\ codes = {} /\ cookie = 0 /\ siteNow = 0 /\ idCount = 0 /\ txnCount = 0
  BY DEF SiteSessionInit, Free, NoId
<1>2. SiteTyped
  BY <1>1 DEF SiteTyped
<1>3. \A f, n, id : ~StoredIn(f, n, id, shelf) /\ \A v \in Views : ~HeldIn(f, n, id, view[v])
  BY <1>1 DEF StoredIn, HeldIn
<1>4. TokensSound(view, shelf, families)
  BY <1>3 DEF TokensSound, LivesIn
<1>5. FlightsSound(view, shelf, flights, families) /\ StagesSound(view)
  BY <1>1 DEF FlightsSound, StagesSound
<1>6. StaleExplained(view, shelf, flights, families)
  BY <1>3 DEF StaleExplained
<1> QED
  BY <1>2, <1>4, <1>5, <1>6 DEF SiteSessionInv, SessionSound

LEMMA SessionsExplainReplays == SiteSessionInv => ReplaysNeedOverlap
<1> SUFFICES ASSUME SiteSessionInv, ~forked,
                    NEW t \in DOMAIN flights, flights[t] = Pending, ReplaysToken(t)
             PROVE  Overlapped(t)
  BY DEF ReplaysNeedOverlap, Overlapped
<1>1. /\ SessionSound(view, shelf, flights, families, forked)
      /\ StaleExplained(view, shelf, flights, families) /\ t = <<t[1], t[2]>>
  BY DEF SiteSessionInv, SessionSound, FlightsSound
<1>2. PICK w \in Views : Awaits(view[w], t[1], t[2]) /\ HeldIn(t[1], t[2], view[w].id, view[w])
  BY <1>1, FlightsAreHeld
<1>3. CASE view[w].behind
  <2>1. At(w, "waiting") /\ Held(w) = t
    BY <1>1, <1>2 DEF At, Held, Token, Awaits
  <2> QED
    BY <1>3, <2>1 DEF Overlapped
<1>4. CASE ~view[w].behind
  <2>1. Explained(t[1], t[2], view[w].id, view, flights, {w})
    BY <1>1, <1>2, <1>4 DEF StaleExplained, ReplaysToken
  <2>2. PICK x \in Views : WillWrite(view[x], view[w].id)
    BY <1>1, <2>1 DEF Explained
  <2> QED
    BY <2>2 DEF WillWrite, Overlapped
<1> QED
  BY <1>3, <1>4

\* A refresh token is presented a second time only because requests overlapped.
THEOREM ReplaysComeOfOverlap == SiteSessionSpec => []ReplaysNeedOverlap
<1>1. SiteSessionInit => SiteSessionInv
  BY SiteSessionBegins
<1>2. SiteSessionInv /\ [SiteSessionNext]_siteSessionVars => SiteSessionInv'
  BY SiteSessionKeeps
<1>3. SiteSessionInv => ReplaysNeedOverlap
  BY SessionsExplainReplays
<1> QED
  BY <1>1, <1>2, <1>3, PTL DEF SiteSessionSpec
-----------------------------------------------------------------------------
(* PointsReplay: what the replay of the ledger says is what the commands   *)
(* did.  Every entry is replayed by the expressions of the command that    *)
(* wrote it, on the balance and the buckets which that command met.        *)

ReplayRow == [kind : Kinds, amount : Int \ {0}, pot : Pots, of : Nat, taken : [Pots -> Nat]]

RowsReplayable(list) ==
    /\ list \in Seq(ReplayRow)
    /\ \A i \in 1 .. Len(list) :
         /\ list[i].kind \in {"credit", "raise"} => list[i].amount > 0
         /\ list[i].kind = "reversal" => list[i].of \in 1 .. (i - 1)

(* The rows replayed one by one, and where that ends.                      *)
RunsThrough(list, up) ==
    up = [i \in 0 .. Len(list) |->
            IF i = 0 THEN Unspent ELSE Replayed(list, up[i - 1], list[i])]

EndsAt(list, acc) ==
    /\ \E up : RunsThrough(list, up)
    /\ \A up : RunsThrough(list, up) => up[Len(list)] = acc

HeldNow == [pots |-> pots, running |-> funds, sound |-> TRUE]

ReplayInv ==
    /\ pots \in [Pots -> Nat]
    /\ funds \in Int
    /\ RowsReplayable(entries)
    /\ LedgerTotal = funds
    /\ EndsAt(entries, HeldNow)

LEMMA ReplayIsWhereItEnds ==
  ASSUME NEW list, NEW acc, EndsAt(list, acc)
  PROVE  ReplayOf(list) = acc
<1> DEFINE up == CHOOSE up : RunsThrough(list, up)
<1>1. ReplayOf(list) = up[Len(list)]
  BY DEF ReplayOf, RunsThrough
<1>2. RunsThrough(list, up)
  BY DEF EndsAt
<1> HIDE DEF up
<1> QED
  BY <1>1, <1>2 DEF EndsAt

\* A new row is replayed on what the rows before it left: they are replayed as before.
LEMMA ReplayGoesOn ==
  ASSUME NEW list, RowsReplayable(list), NEW e \in ReplayRow, NEW acc, EndsAt(list, acc)
  PROVE  EndsAt(Append(list, e), Replayed(Append(list, e), acc, e))
<1> DEFINE n == Len(list)
           longer == Append(list, e)
<1>1. /\ n \in Nat /\ Len(longer) = n + 1 /\ longer[n + 1] = e
      /\ \A i \in 1 .. n : longer[i] = list[i]
  BY DEF RowsReplayable
<1>2. ASSUME NEW i \in 1 .. n, NEW a
      PROVE  Replayed(longer, a, longer[i]) = Replayed(list, a, list[i])
  <2>1. longer[i] = list[i]
    BY <1>1
  <2>2. list[i].kind = "reversal" => longer[list[i].of] = list[list[i].of]
    <3> SUFFICES ASSUME list[i].kind = "reversal" PROVE longer[list[i].of] = list[list[i].of]
      OBVIOUS
    <3>1. list[i].of \in 1 .. (i - 1)
      BY <1>1 DEF RowsReplayable
    <3>2. list[i].of \in 1 .. n
      BY <3>1, <1>1
    <3> QED
      BY <3>2, <1>1
  <2> HIDE DEF longer, n
  <2> QED
    BY <2>1, <2>2 DEF Replayed
<1> HIDE DEF longer, n
<1>3. \E up : RunsThrough(longer, up)
  <2>1. PICK up : RunsThrough(list, up)
    BY DEF EndsAt
  <2> DEFINE more == [i \in 0 .. n + 1 |->
                        IF i = n + 1 THEN Replayed(longer, up[n], e) ELSE up[i]]
  <2>2. ASSUME NEW i \in 0 .. n + 1
        PROVE  more[i] = IF i = 0 THEN Unspent ELSE Replayed(longer, more[i - 1], longer[i])
    <3>1. CASE i = 0
      <4>1. more[0] = up[0]
        BY <1>1
      <4>2. up[0] = Unspent
        BY <1>1, <2>1 DEF RunsThrough, n
      <4> QED
        BY <3>1, <4>1, <4>2
    <3>2. CASE i \in 1 .. n
      <4>1. more[i] = up[i] /\ more[i - 1] = up[i - 1]
        BY <1>1, <3>2
      <4>2. up[i] = Replayed(list, up[i - 1], list[i])
        <5>1. i \in 0 .. Len(list) /\ i # 0
          BY <1>1, <3>2 DEF n
        <5> QED
          BY <5>1, <2>1 DEF RunsThrough
      <4>3. Replayed(longer, up[i - 1], longer[i]) = Replayed(list, up[i - 1], list[i])
        BY <1>2, <3>2
      <4> HIDE DEF more
      <4> QED
        BY <3>2, <4>1, <4>2, <4>3
    <3>3. CASE i = n + 1
      <4>1. more[n + 1] = Replayed(longer, up[n], e) /\ more[n] = up[n]
        BY <1>1
      <4> HIDE DEF more
      <4>2. i - 1 = n /\ i # 0
        BY <1>1, <3>3
      <4> QED
        BY <1>1, <3>3, <4>1, <4>2
    <3> QED
      BY <1>1, <3>1, <3>2, <3>3
  <2>3. more = [i \in 0 .. n + 1 |-> more[i]]
    OBVIOUS
  <2> HIDE DEF more
  <2>4. more = [i \in 0 .. n + 1 |->
                  IF i = 0 THEN Unspent ELSE Replayed(longer, more[i - 1], longer[i])]
    BY <2>2, <2>3
  <2>5. RunsThrough(longer, more)
    BY <2>4, <1>1 DEF RunsThrough
  <2> QED
    BY <2>5
<1>4. ASSUME NEW up, RunsThrough(longer, up)
      PROVE  up[Len(longer)] = Replayed(longer, acc, e)
  <2>1. \A i \in 0 .. n + 1 :
          up[i] = IF i = 0 THEN Unspent ELSE Replayed(longer, up[i - 1], longer[i])
    BY <1>1, <1>4 DEF RunsThrough
  <2> DEFINE less == [i \in 0 .. n |-> up[i]]
  <2>2. ASSUME NEW i \in 0 .. n
        PROVE  less[i] = IF i = 0 THEN Unspent ELSE Replayed(list, less[i - 1], list[i])
    <3>0. i \in 0 .. n + 1 /\ less[i] = up[i]
      BY <1>1
    <3>1. CASE i = 0
      BY <2>1, <3>0, <3>1
    <3>2. CASE i # 0
      <4>1. i \in 1 .. n /\ i - 1 \in 0 .. n
        BY <1>1, <3>2
      <4>2. less[i - 1] = up[i - 1]
        BY <4>1
      <4>3. Replayed(longer, up[i - 1], longer[i]) = Replayed(list, up[i - 1], list[i])
        BY <1>2, <4>1
      <4>4. up[i] = Replayed(longer, up[i - 1], longer[i])
        BY <2>1, <3>0, <3>2
      <4> HIDE DEF less
      <4> QED
        BY <3>0, <3>2, <4>2, <4>3, <4>4
    <3> QED
      BY <3>1, <3>2
  <2>3. less = [i \in 0 .. n |-> less[i]] /\ less[n] = up[n]
    BY <1>1
  <2> HIDE DEF less
  <2>4. less = [i \in 0 .. n |-> IF i = 0 THEN Unspent ELSE Replayed(list, less[i - 1], list[i])]
    BY <2>2, <2>3
  <2>5. RunsThrough(list, less)
    BY <2>4 DEF RunsThrough, n
  <2>6. less[n] = acc
    BY <2>5 DEF EndsAt, n
  <2>7. up[n + 1] = Replayed(longer, up[n], e)
    <3>1. n + 1 \in 0 .. n + 1 /\ n + 1 # 0 /\ (n + 1) - 1 = n
      BY <1>1
    <3> QED
      BY <2>1, <3>1, <1>1
  <2> QED
    BY <1>1, <2>3, <2>6, <2>7
<1> QED
  BY <1>3, <1>4 DEF EndsAt, longer

-----------------------------------------------------------------------------
\* What is taken from the pots, and what a return gives back to them.
LEMMA FirstOutSound ==
  ASSUME NEW f \in [Pots -> Nat], NEW n \in Nat
  PROVE  /\ FirstOut(f, n) \in [Pots -> Nat]
         /\ \A p \in Pots : FirstOut(f, n)[p] <= f[p]
         /\ InPots(FirstOut(f, n)) \in Nat /\ InPots(FirstOut(f, n)) <= n
<1> DEFINE s == FirstOut(f, n)
<1>1. /\ IsFiniteSet(Pots) /\ PotRank \in [Pots -> Nat]
      /\ \A p, q \in Pots : PotRank[p] = PotRank[q] => p = q
  BY ReplayAssumption
<1>2. s = [p \in Pots |-> s[p]]
  BY DEF FirstOut
<1>3. \A p \in Pots :
        s[p] = LesserOf(f[p], NonNegative(n - SumFunctionOnSet(f, RankedBefore(Pots, PotRank, p))))
  BY DEF RankedBefore, FirstOut, Sooner, AtMost, AboveZero, LesserOf, NonNegative
<1> HIDE DEF s
<1>4. /\ \A p \in Pots : s[p] \in Nat /\ s[p] <= f[p]
      /\ SumFunctionOnSet(s, Pots) = LesserOf(SumFunctionOnSet(f, Pots), NonNegative(n))
  BY <1>1, <1>3, TakenInOrder
<1>5. SumFunctionOnSet(f, Pots) \in Nat
  BY <1>1, SumOfNats
<1>6. InPots(s) \in Nat /\ InPots(s) <= n
  BY <1>4, <1>5 DEF InPots, LesserOf, NonNegative
<1> QED
  BY <1>2, <1>4, <1>6 DEF s

LEMMA ReturnSound ==
  ASSUME NEW on \in Int, NEW n \in Nat, NEW taken \in [Pots -> Nat]
  PROVE  ReturnEnters(on, n, taken) \in [Pots -> Nat]
<1> DEFINE u == Unpaid(on, n)
<1>1. u \in Nat
  BY DEF Unpaid, AtMost, AboveZero
<1> HIDE DEF u
<1> DEFINE back == FirstOut(taken, u)
<1>2. back \in [Pots -> Nat] /\ InPots(back) \in Nat /\ InPots(back) <= u
  BY <1>1, FirstOutSound
<1>3. ReturnEnters(on, n, taken) = Plus(back, Only(Lasting, u - InPots(back)))
  BY DEF ReturnEnters, u
<1> HIDE DEF back
<1>4. u - InPots(back) \in Nat
  BY <1>1, <1>2
<1> DEFINE k == u - InPots(back)
<1>5. k \in Nat /\ ReturnEnters(on, n, taken) = Plus(back, Only(Lasting, k))
  BY <1>3, <1>4
<1> HIDE DEF k
<1> QED
  BY <1>2, <1>5 DEF Plus, Only

LEMMA TotalOfLonger ==
  ASSUME NEW list \in Seq(ReplayRow), NEW e \in ReplayRow
  PROVE  LET longer == Append(list, e)
         IN  SumFunction([i \in DOMAIN longer |-> longer[i].amount])
               = SumFunction([i \in DOMAIN list |-> list[i].amount]) + e.amount
<1> DEFINE n == Len(list)
           longer == Append(list, e)
           f == [i \in 1 .. n |-> list[i].amount]
           g == [i \in 1 .. n + 1 |-> longer[i].amount]
<1>1. /\ n \in Nat /\ DOMAIN list = 1 .. n /\ DOMAIN longer = 1 .. n + 1
      /\ longer[n + 1] = e /\ \A i \in 1 .. n : longer[i] = list[i]
  OBVIOUS
<1>2. e.amount \in Int /\ \A i \in 1 .. n : list[i].amount \in Int
  <2>1. \A i \in 1 .. n : list[i] \in ReplayRow
    OBVIOUS
  <2> QED
    BY <2>1 DEF ReplayRow
<1> HIDE DEF longer, n
<1>3. /\ \A i \in 1 .. n : f[i] \in Int /\ g[i] = f[i]
      /\ g[n + 1] = e.amount /\ \A i \in 1 .. n + 1 : g[i] \in Int
      /\ DOMAIN f = 1 .. n /\ DOMAIN g = 1 .. n + 1
  BY <1>1, <1>2
<1>4. /\ [i \in DOMAIN longer |-> longer[i].amount] = g
      /\ [i \in DOMAIN list |-> list[i].amount] = f
  BY <1>1
<1> DEFINE S == 1 .. n
           T == 1 .. n + 1
<1>5. IsFiniteSet(S) /\ IsFiniteSet(T) /\ T \ {n + 1} = S /\ n + 1 \in T
  <2>1. n + 1 \in Nat /\ 0 + 1 = 1
    BY <1>1
  <2>2. IsFiniteSet(S) /\ IsFiniteSet(T)
    BY <1>1, <2>1, FS_Interval
  <2>3. T \ {n + 1} = S /\ n + 1 \in T
    BY <1>1
  <2> QED
    BY <2>2, <2>3
<1>9. /\ \A i \in S : f[i] \in Int /\ g[i] = f[i]
      /\ \A i \in T : g[i] \in Int
      /\ DOMAIN f = S /\ DOMAIN g = T
  BY <1>3
<1> HIDE DEF f, g, S, T
<1>6. SumFunctionOnSet(g, T) = g[n + 1] + SumFunctionOnSet(g, T \ {n + 1})
  BY <1>5, <1>9, SumWithout
<1>7. SumFunctionOnSet(g, S) = SumFunctionOnSet(f, S) /\ SumFunctionOnSet(f, S) \in Int
  <2>1. SumFunctionOnSet(g, S) = SumFunctionOnSet(f, S)
    BY <1>5, <1>9, SumsAgree
  <2>2. SumFunctionOnSet(f, S) \in Int
    BY <1>5, <1>9, SumWithout
  <2> QED
    BY <2>1, <2>2
<1>8. SumFunction(g) = SumFunction(f) + e.amount
  <2>1. SumFunctionOnSet(g, T) = e.amount + SumFunctionOnSet(f, S)
    BY <1>3, <1>5, <1>6, <1>7
  <2>2. SumFunction(g) = SumFunctionOnSet(g, T) /\ SumFunction(f) = SumFunctionOnSet(f, S)
    BY <1>9 DEF SumFunction
  <2> QED
    BY <1>2, <1>7, <2>1, <2>2
<1> QED
  BY <1>4, <1>8 DEF longer

\* A command keeps the replay in step when its entry is replayed as it left the account.
LEMMA WrittenAsReplayed ==
  ASSUME ReplayInv, NEW kind \in Kinds, NEW n \in Int \ {0}, NEW pot \in Pots, NEW of \in Nat,
         NEW taken \in [Pots -> Nat], NEW holds \in [Pots -> Nat],
         Writes(kind, n, pot, of, taken, holds),
         kind \in {"credit", "raise"} => n > 0,
         kind = "reversal" => of \in 1 .. Len(entries),
         LET e == [kind |-> kind, amount |-> n, pot |-> pot, of |-> of, taken |-> taken]
         IN  Replayed(Append(entries, e), HeldNow, e) = [pots |-> holds, running |-> funds + n, sound |-> TRUE]
  PROVE  ReplayInv'
<1> DEFINE e == [kind |-> kind, amount |-> n, pot |-> pot, of |-> of, taken |-> taken]
<1>1. /\ entries' = Append(entries, e) /\ funds' = funds + n /\ pots' = holds
      /\ e \in ReplayRow /\ e.kind = kind /\ e.amount = n /\ e.of = of
  BY DEF Writes, ReplayRow
<1>2. Replayed(Append(entries, e), HeldNow, e) = [pots |-> holds, running |-> funds + n, sound |-> TRUE]
  OBVIOUS
<1> HIDE DEF e
<1>3. entries \in Seq(ReplayRow) /\ RowsReplayable(entries) /\ funds \in Int
      /\ LedgerTotal = funds /\ EndsAt(entries, HeldNow)
  BY DEF ReplayInv, RowsReplayable
<1>4. pots' \in [Pots -> Nat] /\ funds' \in Int
  BY <1>1, <1>3
<1>5. RowsReplayable(entries')
  <2>1. /\ entries' \in Seq(ReplayRow) /\ Len(entries) \in Nat /\ Len(entries') = Len(entries) + 1
        /\ entries'[Len(entries) + 1] = e
        /\ \A i \in 1 .. Len(entries) : entries'[i] = entries[i]
    BY <1>1, <1>3
  <2>2. ASSUME NEW i \in 1 .. Len(entries')
        PROVE  /\ entries'[i].kind \in {"credit", "raise"} => entries'[i].amount > 0
               /\ entries'[i].kind = "reversal" => entries'[i].of \in 1 .. (i - 1)
    <3>1. CASE i \in 1 .. Len(entries)
      BY <1>3, <2>1, <3>1 DEF RowsReplayable
    <3>2. CASE i = Len(entries) + 1
      <4>1. entries'[i] = e /\ i - 1 = Len(entries)
        BY <2>1, <3>2
      <4> QED
        BY <4>1, <1>1
    <3> QED
      BY <2>1, <3>1, <3>2
  <2> QED
    BY <2>1, <2>2 DEF RowsReplayable
<1>6. LedgerTotal' = funds'
  <2>1. SumFunction([i \in DOMAIN Append(entries, e) |-> Append(entries, e)[i].amount])
          = SumFunction([i \in DOMAIN entries |-> entries[i].amount]) + e.amount
    BY <1>1, <1>3, TotalOfLonger
  <2>2. LedgerTotal' = SumFunction([i \in DOMAIN Append(entries, e) |-> Append(entries, e)[i].amount])
    BY <1>1 DEF LedgerTotal
  <2>3. LedgerTotal = SumFunction([i \in DOMAIN entries |-> entries[i].amount])
    BY DEF LedgerTotal
  <2> QED
    BY <1>1, <1>3, <2>1, <2>2, <2>3
<1>7. EndsAt(Append(entries, e), Replayed(Append(entries, e), HeldNow, e))
  BY <1>1, <1>3, ReplayGoesOn
<1>8. EndsAt(entries', HeldNow')
  <2>1. HeldNow' = [pots |-> holds, running |-> funds + n, sound |-> TRUE]
    BY <1>1 DEF HeldNow
  <2> QED
    BY <1>1, <1>2, <1>7, <2>1
<1> QED
  BY <1>4, <1>5, <1>6, <1>8 DEF ReplayInv

-----------------------------------------------------------------------------
\* Each command, and what the replay makes of its entry.
LEMMA EntersAsReplayed ==
  ASSUME ReplayInv, NEW p \in Pots, NEW n \in Nat \ {0}, NEW kind \in {"credit", "raise"},
         Writes(kind, n, p, NoEntry, Nothing, Plus(pots, Only(p, CreditEnters(funds, n))))
  PROVE  ReplayInv'
<1> DEFINE k == CreditEnters(funds, n)
           holds == Plus(pots, Only(p, k))
           e == [kind |-> kind, amount |-> n, pot |-> p, of |-> NoEntry, taken |-> Nothing]
<1>1. pots \in [Pots -> Nat] /\ funds \in Int
  BY DEF ReplayInv
<1>2. k \in Nat
  BY <1>1 DEF CreditEnters, AboveZero
<1>3. Replayed(Append(entries, e), HeldNow, e) = [pots |-> holds, running |-> funds + n, sound |-> TRUE]
  <2>1. e.kind \in {"credit", "raise"} /\ e.pot = p /\ e.amount = n
    OBVIOUS
  <2>2. HeldNow.pots = pots /\ HeldNow.running = funds /\ HeldNow.sound = TRUE
    BY DEF HeldNow
  <2> HIDE DEF e, k
  <2> QED
    BY <2>1, <2>2 DEF Replayed, k
<1> HIDE DEF k
<1>4. holds \in [Pots -> Nat]
  BY <1>1, <1>2 DEF Plus, Only
<1>5. Nothing \in [Pots -> Nat] /\ NoEntry \in Nat /\ n \in Int \ {0} /\ n > 0
      /\ kind \in Kinds /\ kind # "reversal"
  BY DEF Nothing, NoEntry, Kinds
<1>6. Writes(kind, n, p, NoEntry, Nothing, holds)
  BY DEF k
<1> HIDE DEF holds
<1> QED
  BY <1>3, <1>4, <1>5, <1>6, WrittenAsReplayed DEF e

\* What leaves the pots: no more than they hold, of what some earlier reading saw in them.
LEMMA LeavesAsReplayed ==
  ASSUME ReplayInv, NEW pot \in Pots, NEW n \in Nat \ {0}, NEW of \in Nat,
         NEW kind \in {"debit", "lower", "expiration", "reversal"},
         kind = "reversal" => of \in 1 .. Len(entries),
         NEW taken \in [Pots -> Nat], \A p \in Pots : taken[p] <= pots[p],
         Writes(kind, -n, pot, of, taken, Minus(pots, taken))
  PROVE  ReplayInv'
<1> DEFINE holds == Minus(pots, taken)
           e == [kind |-> kind, amount |-> -n, pot |-> pot, of |-> of, taken |-> taken]
<1>1. pots \in [Pots -> Nat] /\ funds \in Int
  BY DEF ReplayInv
<1>2. holds \in [Pots -> Nat]
  BY <1>1 DEF Minus
<1>3. Replayed(Append(entries, e), HeldNow, e) = [pots |-> holds, running |-> funds + -n, sound |-> TRUE]
  <2>1. e.kind \notin {"credit", "raise"} /\ e.amount = -n /\ ~(e.amount > 0) /\ e.taken = taken
    OBVIOUS
  <2>2. HeldNow.pots = pots /\ HeldNow.running = funds /\ HeldNow.sound = TRUE
    BY DEF HeldNow
  <2> HIDE DEF e
  <2>3. Replayed(Append(entries, e), HeldNow, e)
          = [pots |-> Minus(pots, taken), running |-> funds + -n,
             sound |-> TRUE /\ \A p \in Pots : taken[p] <= pots[p]]
    BY <2>1, <2>2 DEF Replayed
  <2> DEFINE within == \A p \in Pots : taken[p] <= pots[p]
  <2>4. (TRUE /\ within) = TRUE
    OBVIOUS
  <2> HIDE DEF within, holds
  <2> QED
    BY <2>3, <2>4 DEF within, holds
<1>4. -n \in Int \ {0} /\ kind \in Kinds /\ kind \notin {"credit", "raise"}
  BY DEF Kinds
<1>5. Writes(kind, -n, pot, of, taken, holds)
  OBVIOUS
<1> HIDE DEF holds
<1> DEFINE m == -n
<1>6. m \in Int \ {0} /\ Writes(kind, m, pot, of, taken, holds)
      /\ LET f == [kind |-> kind, amount |-> m, pot |-> pot, of |-> of, taken |-> taken]
         IN  Replayed(Append(entries, f), HeldNow, f) = [pots |-> holds, running |-> funds + m, sound |-> TRUE]
  BY <1>3, <1>4, <1>5
<1> HIDE DEF m, e
<1> QED
  BY <1>2, <1>4, <1>6, WrittenAsReplayed

LEMMA ReturnsAsReplayed ==
  ASSUME ReplayInv, NEW i \in 1 .. Len(entries), entries[i].amount < 0,
         Writes("reversal", -entries[i].amount, Lasting, i, Nothing,
                Plus(pots, ReturnEnters(funds, -entries[i].amount, entries[i].taken)))
  PROVE  ReplayInv'
<1>1. pots \in [Pots -> Nat] /\ funds \in Int /\ entries[i] \in ReplayRow /\ entries \in Seq(ReplayRow)
  BY DEF ReplayInv, RowsReplayable
<1>2. entries[i].amount \in Int /\ entries[i].taken \in [Pots -> Nat]
  BY <1>1 DEF ReplayRow
<1> DEFINE n == -entries[i].amount
           taken == entries[i].taken
           holds == Plus(pots, ReturnEnters(funds, n, taken))
           e == [kind |-> "reversal", amount |-> n, pot |-> Lasting, of |-> i, taken |-> Nothing]
<1>3. n \in Nat \ {0} /\ n \in Int \ {0} /\ taken \in [Pots -> Nat]
  BY <1>2
<1>4. Append(entries, e)[i] = entries[i] /\ Append(entries, e)[i].taken = taken
  BY <1>1
<1>5. Writes("reversal", n, Lasting, i, Nothing, holds)
  OBVIOUS
<1> HIDE DEF n, taken
<1>6. Replayed(Append(entries, e), HeldNow, e) = [pots |-> holds, running |-> funds + n, sound |-> TRUE]
  <2>1. /\ e.kind \notin {"credit", "raise"} /\ e.kind = "reversal" /\ e.amount = n /\ e.amount > 0
        /\ e.of = i
    BY <1>3
  <2>2. HeldNow.pots = pots /\ HeldNow.running = funds /\ HeldNow.sound = TRUE
    BY DEF HeldNow
  <2> HIDE DEF e
  <2> QED
    BY <1>4, <2>1, <2>2 DEF Replayed, ReplayedReturn
<1>7. holds \in [Pots -> Nat]
  <2> DEFINE enters == ReturnEnters(funds, n, taken)
  <2>1. enters \in [Pots -> Nat]
    BY <1>1, <1>3, ReturnSound
  <2> HIDE DEF enters
  <2>2. Plus(pots, enters) \in [Pots -> Nat]
    BY <1>1, <2>1 DEF Plus
  <2> QED
    BY <2>2 DEF enters
<1>8. Nothing \in [Pots -> Nat] /\ Lasting \in Pots /\ "reversal" \in Kinds /\ i \in Nat
  BY ReplayAssumption DEF Nothing, Kinds
<1> HIDE DEF holds
<1> QED
  BY <1>3, <1>5, <1>6, <1>7, <1>8, WrittenAsReplayed DEF e

\* The earliest pots are emptied first, those that some earlier reading saw.
LEMMA TakesAsReplayed ==
  ASSUME ReplayInv, NEW n \in Nat \ {0}, NEW of \in Nat,
         NEW kind \in {"debit", "lower", "reversal"}, kind = "reversal" => of \in 1 .. Len(entries),
         PotTakes(kind, n, of, pots)
  PROVE  ReplayInv'
<1> DEFINE taken == FirstOut(pots, n)
<1>1. pots \in [Pots -> Nat] /\ n \in Nat /\ Lasting \in Pots
  BY ReplayAssumption DEF ReplayInv
<1>2. taken \in [Pots -> Nat] /\ \A p \in Pots : taken[p] <= pots[p]
  BY <1>1, FirstOutSound
<1>3. Writes(kind, -n, Lasting, of, taken, Minus(pots, taken))
  BY DEF PotTakes
<1> HIDE DEF taken
<1>4. kind \in {"debit", "lower", "expiration", "reversal"}
  OBVIOUS
<1> QED
  BY <1>1, <1>2, <1>3, <1>4, LeavesAsReplayed

LEMMA OvertakenAsReplayed ==
  ASSUME ReplayInv, NEW n \in Nat \ {0}, LowerOvertaken(n)
  PROVE  ReplayInv'
<1> DEFINE last == entries[Len(entries)]
           entered == Only(last.pot, CreditEnters(funds - last.amount, last.amount))
           seen == Minus(pots, entered)
           taken == FirstOut(seen, n)
<1>1. /\ entries # <<>> /\ last.kind \in {"credit", "raise"} /\ taken[last.pot] = 0
      /\ PotTakes("lower", n, NoEntry, seen)
  BY DEF LowerOvertaken
<1>2. Writes("lower", -n, Lasting, NoEntry, taken, Minus(pots, taken))
  <2> HIDE DEF seen
  <2> QED
    BY <1>1 DEF PotTakes
<1>12. pots \in [Pots -> Nat] /\ funds \in Int /\ Lasting \in Pots /\ NoEntry \in Nat
  BY ReplayAssumption DEF ReplayInv, NoEntry
<1>3. last.pot \in Pots /\ last.amount \in Nat
  <2>1. entries \in Seq(ReplayRow) /\ RowsReplayable(entries)
    BY DEF ReplayInv, RowsReplayable
  <2>2. Len(entries) \in 1 .. Len(entries)
    BY <1>1, <2>1
  <2>3. last \in ReplayRow
    BY <2>1, <2>2
  <2>4. last.amount > 0
    BY <1>1, <2>1, <2>2 DEF RowsReplayable
  <2> HIDE DEF last
  <2> QED
    BY <2>3, <2>4 DEF ReplayRow
<1> HIDE DEF last
<1>4. entered \in [Pots -> Nat] /\ \A p \in Pots : p # last.pot => entered[p] = 0
  <2> DEFINE k == CreditEnters(funds - last.amount, last.amount)
  <2>1. k \in Nat
    BY <1>12, <1>3 DEF CreditEnters, AboveZero
  <2> HIDE DEF k
  <2>2. Only(last.pot, k) \in [Pots -> Nat] /\ \A p \in Pots : p # last.pot => Only(last.pot, k)[p] = 0
    BY <2>1, <1>3 DEF Only
  <2> QED
    BY <2>2 DEF k
<1>5. seen = [p \in Pots |-> pots[p] - entered[p]]
  BY DEF Minus
<1> HIDE DEF entered, seen
<1>6. /\ seen \in [Pots -> Int]
      /\ \A p \in Pots : seen[p] <= pots[p] /\ (p # last.pot => seen[p] = pots[p])
  BY <1>12, <1>4, <1>5
<1>7. seen[last.pot] \in Nat
  <2>1. /\ IsFiniteSet(Pots) /\ PotRank \in [Pots -> Nat]
    BY ReplayAssumption
  <2> DEFINE k == Sooner(seen, last.pot)
             m == seen[last.pot]
  <2>2. k \in Int
    <3> DEFINE D == {e \in Pots : PotRank[e] < PotRank[last.pot]}
    <3>1. IsFiniteSet(D) /\ \A x \in D : seen[x] \in Int
      BY <2>1, <1>6, FS_Subset
    <3> HIDE DEF D
    <3>2. SumFunctionOnSet(seen, D) \in Int
      BY <3>1, SumWithout
    <3> QED
      BY <3>2 DEF D, Sooner
  <2>3. taken[last.pot] = AtMost(m, AboveZero(n - k)) /\ m \in Int
    BY <1>3, <1>6 DEF FirstOut
  <2> HIDE DEF k, m, taken
  <2>4. m \in Nat
    BY <1>1, <2>2, <2>3 DEF AtMost, AboveZero
  <2> QED
    BY <2>4 DEF m
<1>8. seen \in [Pots -> Nat]
  <2>1. \A p \in Pots : seen[p] \in Nat
    BY <1>12, <1>6, <1>7
  <2> QED
    BY <1>6, <2>1
<1>9. taken \in [Pots -> Nat] /\ \A p \in Pots : taken[p] <= seen[p]
  BY <1>8, FirstOutSound
<1> HIDE DEF taken
<1>10. \A p \in Pots : taken[p] <= pots[p]
  <2> TAKE p \in Pots
  <2>1. taken[p] \in Nat /\ seen[p] \in Nat /\ pots[p] \in Nat /\ taken[p] <= seen[p] /\ seen[p] <= pots[p]
    BY <1>12, <1>6, <1>8, <1>9
  <2> QED
    BY <2>1
<1>11. "lower" \in {"debit", "lower", "expiration", "reversal"} /\ "lower" # "reversal"
  OBVIOUS
<1> QED
  BY <1>2, <1>12, <1>9, <1>10, <1>11, LeavesAsReplayed

LEMMA ExpiresAsReplayed ==
  ASSUME ReplayInv, NEW p \in Pots, PotExpires(p)
  PROVE  ReplayInv'
<1> DEFINE taken == Only(p, pots[p])
<1>1. pots \in [Pots -> Nat] /\ pots[p] \in Nat \ {0} /\ NoEntry \in Nat
  BY DEF ReplayInv, PotExpires, NoEntry
<1>2. taken \in [Pots -> Nat] /\ \A q \in Pots : taken[q] <= pots[q]
  BY <1>1 DEF Only
<1>3. Writes("expiration", -pots[p], p, NoEntry, taken, Minus(pots, taken))
  BY DEF PotExpires
<1> HIDE DEF taken
<1>4. "expiration" \in {"debit", "lower", "expiration", "reversal"} /\ "expiration" # "reversal"
  OBVIOUS
<1> QED
  BY <1>1, <1>2, <1>3, <1>4, LeavesAsReplayed

LEMMA ReversesAsReplayed ==
  ASSUME ReplayInv, NEW i \in DOMAIN entries, PotReverses(i)
  PROVE  ReplayInv'
<1>1. entries \in Seq(ReplayRow) /\ i \in 1 .. Len(entries) /\ i \in Nat
  BY DEF ReplayInv, RowsReplayable
<1>2. entries[i].amount \in Int \ {0}
  <2>1. entries[i] \in ReplayRow
    BY <1>1
  <2> QED
    BY <2>1 DEF ReplayRow
<1>3. CASE entries[i].amount > 0
  <2>1. PotTakes("reversal", entries[i].amount, i, pots)
    BY <1>3 DEF PotReverses
  <2>2. entries[i].amount \in Nat \ {0} /\ "reversal" \in {"debit", "lower", "reversal"}
    BY <1>2, <1>3
  <2> QED
    BY <1>1, <2>1, <2>2, TakesAsReplayed
<1>4. CASE entries[i].amount < 0
  <2>1. Writes("reversal", -entries[i].amount, Lasting, i, Nothing,
               Plus(pots, ReturnEnters(funds, -entries[i].amount, entries[i].taken)))
    BY <1>2, <1>4 DEF PotReverses
  <2> QED
    BY <1>1, <1>4, <2>1, ReturnsAsReplayed
<1> QED
  BY <1>2, <1>3, <1>4

LEMMA RebuiltAsItWas ==
  ASSUME ReplayInv, RebuildBalance
  PROVE  UNCHANGED <<pots, funds, entries>>
<1>1. Replay = HeldNow /\ LedgerTotal = funds
  BY ReplayIsWhereItEnds DEF ReplayInv, Replay
<1>2. Replay.pots = pots
  BY <1>1 DEF HeldNow
<1> QED
  BY <1>1, <1>2 DEF RebuildBalance

LEMMA ReplayStart == ReplayInit => ReplayInv
<1> SUFFICES ASSUME ReplayInit PROVE ReplayInv
  OBVIOUS
<1>1. pots = Nothing /\ funds = 0 /\ entries = <<>>
  BY DEF ReplayInit
<1>2. pots \in [Pots -> Nat] /\ funds \in Int
  BY <1>1 DEF Nothing
<1>3. RowsReplayable(entries)
  BY <1>1 DEF RowsReplayable
<1>4. LedgerTotal = funds
  <2> DEFINE f == [i \in DOMAIN entries |-> entries[i].amount]
  <2>1. DOMAIN f = {}
    BY <1>1
  <2>2. LedgerTotal = SumFunctionOnSet(f, {})
    BY <2>1 DEF LedgerTotal, SumFunction
  <2> HIDE DEF f
  <2> QED
    BY <1>1, <2>2, SumOfNone
<1>5. EndsAt(entries, HeldNow)
  <2> DEFINE up == [i \in 0 .. 0 |-> Unspent]
  <2>1. Len(entries) = 0 /\ HeldNow = Unspent
    BY <1>1 DEF HeldNow, Unspent
  <2>2. \A i \in 0 .. 0 : i = 0
    OBVIOUS
  <2>3. RunsThrough(entries, up)
    BY <2>1, <2>2 DEF RunsThrough
  <2>4. ASSUME NEW g, RunsThrough(entries, g) PROVE g[0] = Unspent
    <3>1. 0 \in 0 .. Len(entries)
      BY <2>1
    <3> QED
      BY <3>1, <2>4 DEF RunsThrough
  <2> QED
    BY <2>1, <2>3, <2>4 DEF EndsAt
<1> QED
  BY <1>2, <1>3, <1>4, <1>5 DEF ReplayInv

LEMMA ReplayStep == ReplayInv /\ [ReplayNext]_replayVars => ReplayInv'
<1> SUFFICES ASSUME ReplayInv, [ReplayNext]_replayVars PROVE ReplayInv'
  OBVIOUS
<1>0. PotSums \subseteq Nat \ {0} /\ Lasting \in Pots
  BY ReplayAssumption
<1>1. CASE \E n \in PotSums : PotRaise(n)
  <2>1. PICK n \in PotSums : PotRaise(n)
    BY <1>1
  <2>2. n \in Nat \ {0} /\ "raise" \in {"credit", "raise"}
    BY <1>0
  <2> QED
    BY <1>0, <2>1, <2>2, EntersAsReplayed DEF PotRaise
<1>2. CASE \E n \in PotSums : PotDebit(n)
  <2>1. PICK n \in PotSums : PotTakes("debit", n, NoEntry, pots)
    BY <1>2 DEF PotDebit
  <2>2. n \in Nat \ {0} /\ NoEntry \in Nat /\ "debit" \in {"debit", "lower", "reversal"} /\ "debit" # "reversal"
    BY <1>0 DEF NoEntry
  <2> QED
    BY <2>1, <2>2, TakesAsReplayed
<1>3. CASE \E n \in PotSums : PotLower(n)
  <2>1. PICK n \in PotSums : PotTakes("lower", n, NoEntry, pots)
    BY <1>3 DEF PotLower
  <2>2. n \in Nat \ {0} /\ NoEntry \in Nat /\ "lower" \in {"debit", "lower", "reversal"} /\ "lower" # "reversal"
    BY <1>0 DEF NoEntry
  <2> QED
    BY <2>1, <2>2, TakesAsReplayed
<1>4. CASE \E n \in PotSums : LowerOvertaken(n)
  BY <1>0, <1>4, OvertakenAsReplayed
<1>5. CASE \E p \in Pots, n \in PotSums : PotCredit(p, n)
  <2>1. PICK p \in Pots, n \in PotSums : PotCredit(p, n)
    BY <1>5
  <2>2. n \in Nat \ {0} /\ "credit" \in {"credit", "raise"}
    BY <1>0
  <2> QED
    BY <2>1, <2>2, EntersAsReplayed DEF PotCredit
<1>6. CASE \E p \in Pots : PotExpires(p)
  BY <1>6, ExpiresAsReplayed
<1>7. CASE \E i \in DOMAIN entries : PotReverses(i)
  BY <1>7, ReversesAsReplayed
<1>8. CASE RebuildBalance \/ UNCHANGED replayVars
  <2>1. pots' = pots /\ funds' = funds /\ entries' = entries
    BY <1>8, RebuiltAsItWas DEF replayVars
  <2>2. LedgerTotal' = LedgerTotal
    BY <2>1 DEF LedgerTotal
  <2>3. HeldNow' = HeldNow
    BY <2>1 DEF HeldNow
  <2> QED
    BY <2>1, <2>2, <2>3 DEF ReplayInv
<1> QED
  BY <1>1, <1>2, <1>3, <1>4, <1>5, <1>6, <1>7, <1>8 DEF ReplayNext

\* The replay of the ledger ends with the balance and with every bucket as the commands
\* left it: for any number of entries and pots, and any amounts (RebuildBalance).
THEOREM ReplayReproducesTheCommands == ReplaySpec => []ReplayAgrees
<1>1. ReplayInv => ReplayAgrees
  <2> SUFFICES ASSUME ReplayInv PROVE ReplayAgrees
    OBVIOUS
  <2>1. Replay = HeldNow
    BY ReplayIsWhereItEnds DEF ReplayInv, Replay
  <2> QED
    BY <2>1 DEF ReplayAgrees, HeldNow
<1> QED
  BY <1>1, ReplayStart, ReplayStep, PTL DEF ReplaySpec
-----------------------------------------------------------------------------
(* Quotes: the parts of a work are numbered without a gap and all full but *)
(* the last, so a price per part is one per PartBytes started; and a       *)
(* digest in the order of the parts tells the files apart.                 *)

\* So many full parts and one that is begun: each is started.
LEMMA PartsStarted ==
  ASSUME NEW n \in Nat \ {0}, NEW P \in Nat \ {0}, NEW s \in 1 .. P
  PROVE  (s + P * (n - 1) + P - 1) \div P = n
<1> DEFINE total == s + P * (n - 1) + P - 1
<1>1. total = P * n + (s - 1)
  <2>1. P * (n - 1) = P * n - P /\ P * n \in Int
    OBVIOUS
  <2> QED
    BY <2>1
<1>2. \A q \in Int, r \in Int : 0 <= r /\ r < P /\ P * n + (s - 1) = P * q + r => q = n
  <2> SUFFICES ASSUME NEW q \in Int, NEW r \in Int, 0 <= r, r < P,
                      P * n + (s - 1) = P * q + r
               PROVE  q = n
    OBVIOUS
  <2>1. P * n \in Int /\ P * q \in Int
    OBVIOUS
  <2>2. CASE q >= n + 1
    <3>1. P * q >= P * (n + 1) /\ P * (n + 1) = P * n + P
      BY <2>2
    <3> QED
      BY <2>1, <3>1
  <2>3. CASE q <= n - 1
    <3>1. P * q <= P * (n - 1) /\ P * (n - 1) = P * n - P
      BY <2>3
    <3> QED
      BY <2>1, <3>1
  <2> QED
    BY <2>2, <2>3
<1>3. total \in Int
  BY <1>1
<1> HIDE DEF total
<1>4. /\ total \div P \in Int /\ total % P \in Int /\ 0 <= total % P /\ total % P < P
      /\ total = P * (total \div P) + (total % P)
  BY <1>3
<1>5. total \div P = n
  BY <1>1, <1>2, <1>4
<1> QED
  BY <1>5 DEF total

\* The parts of the files are told apart by their numbers.
LEMMA NumbersApart ==
  ASSUME NEW files, files \in Seq(FilesOf(files)), ContiguousParts(files)
  PROVE  /\ \A i, j \in DOMAIN files : files[i].number = files[j].number => i = j
         /\ \A i \in DOMAIN files : files[i].number \in 1 .. Len(files)
         /\ \A m \in 1 .. Len(files) : \E i \in DOMAIN files : files[i].number = m
<1> DEFINE n == Len(files)
           S == 1 .. n
           number == [i \in S |-> files[i].number]
<1>1. n \in Nat /\ DOMAIN files = S
  OBVIOUS
<1>2. {files[i].number : i \in S} = S
  <2>1. {files[i].number : i \in DOMAIN files} = S
    BY DEF ContiguousParts
  <2> HIDE DEF S
  <2> QED
    BY <1>1, <2>1
<1>3. number \in Surjection(S, S)
  <2>1. \A i \in S : number[i] \in S
    BY <1>2
  <2>2. \A m \in S : \E i \in S : number[i] = m
    BY <1>2
  <2>3. number \in [S -> S]
    BY <2>1
  <2> HIDE DEF number, S
  <2> QED
    BY <2>2, <2>3 DEF Surjection
<1>4. IsFiniteSet(S)
  BY <1>1, FS_Interval
<1>5. number \in Injection(S, S)
  <2> HIDE DEF number, S
  <2> QED
    BY <1>3, <1>4, FS_SurjSameCardinalityImpliesInj
<1>6. \A i, j \in S : number[i] = number[j] => i = j
  <2> HIDE DEF number, S
  <2> QED
    BY <1>5 DEF Injection, IsInjective
<1>7. \A i \in S : number[i] = files[i].number
  OBVIOUS
<1> HIDE DEF number
<1>8. \A i, j \in S : files[i].number = files[j].number => i = j
  BY <1>6, <1>7
<1>9. \A i \in S : files[i].number \in S
  BY <1>2
<1>10. \A m \in S : \E i \in S : files[i].number = m
  BY <1>2
<1> QED
  BY <1>1, <1>8, <1>9, <1>10

LEMMA DigestTellsFiles ==
  ASSUME NEW files, files \in Seq(FilesOf(files)), ContiguousParts(files)
  PROVE  FilesOf(files) = {Digest(files)[m] : m \in DOMAIN Digest(files)}
<1>1. DOMAIN files = 1 .. Len(files)
  OBVIOUS
<1>2. ASSUME NEW i \in DOMAIN files PROVE Numbered(files, files[i].number) = files[i]
  <2> DEFINE F == {files[j] : j \in DOMAIN files}
             m == files[i].number
  <2>1. files[i] \in F /\ files[i].number = m
    OBVIOUS
  <2>2. \A g \in F : g.number = m => g = files[i]
    BY NumbersApart
  <2>3. Numbered(files, m) = CHOOSE g \in F : g.number = m
    BY DEF Numbered
  <2> HIDE DEF F, m
  <2> QED
    BY <2>1, <2>2, <2>3 DEF m
<1>3. \A m \in DOMAIN files : Digest(files)[m] = Numbered(files, m)
  BY DEF Digest
<1>4. DOMAIN Digest(files) = DOMAIN files
  BY DEF Digest
<1>5. ASSUME NEW i \in DOMAIN files
      PROVE  \E m \in DOMAIN Digest(files) : Digest(files)[m] = files[i]
  <2>1. files[i].number \in DOMAIN files
    BY <1>1, NumbersApart
  <2> QED
    BY <1>2, <1>3, <1>4, <2>1
<1>6. ASSUME NEW m \in DOMAIN Digest(files)
      PROVE  \E i \in DOMAIN files : Digest(files)[m] = files[i]
  <2>1. PICK i \in DOMAIN files : files[i].number = m
    BY <1>1, <1>4, NumbersApart
  <2> QED
    BY <1>2, <1>3, <1>4, <2>1
<1> QED
  BY <1>5, <1>6 DEF FilesOf

LEMMA PriceIsOfPartsStarted ==
  ASSUME NEW files, files \in Seq(FilesOf(files)), Priceable(files), files # <<>>
  PROVE  PartsAmount(files) = UnitPoints * StartedParts(files)
<1> DEFINE n == Len(files)
           S == 1 .. n
           size == [i \in S |-> files[i].size]
<1>1. n \in Nat \ {0} /\ DOMAIN files = S /\ IsFiniteSet(S) /\ Cardinality(S) = n
  <2>1. n \in Nat \ {0}
    OBVIOUS
  <2>2. 1 \in Int /\ n \in Int /\ ~(1 > n) /\ n - 1 + 1 = n
    BY <2>1
  <2>3. IsFiniteSet(S) /\ Cardinality(S) = n
    BY <2>2, FS_Interval
  <2> QED
    BY <2>1, <2>3
<1>2. PartBytes \in Nat \ {0} /\ UnitPoints \in Nat
  BY QuotesAssumption
<1>3. PICK l \in S : files[l].number = n
  <2>1. n \in 1 .. Len(files)
    BY <1>1
  <2> QED
    BY <1>1, <2>1, NumbersApart DEF Priceable
<1>4. ASSUME NEW i \in S, i # l PROVE size[i] = PartBytes
  <2>1. files[i].number # n /\ files[i].number \in 1 .. n
    BY <1>1, <1>3, <1>4, NumbersApart DEF Priceable
  <2>2. files[i].number < Len(files)
    BY <1>1, <2>1
  <2>3. files[i].size = PartBytes
    BY <1>1, <2>2 DEF Priceable, FullParts
  <2> QED
    BY <2>3
<1>5. size[l] \in 1 .. PartBytes
  <2>1. ~(files[l].number < Len(files))
    BY <1>1, <1>3
  <2>2. files[l].size \in 1 .. PartBytes
    BY <1>1, <2>1 DEF Priceable, FullParts
  <2> QED
    BY <2>2
<1>6. SumFunctionOnSet(size, S \ {l}) = PartBytes * (n - 1)
  <2> DEFINE R == S \ {l}
  <2>1. IsFiniteSet(R) /\ Cardinality(R) = n - 1
    <3> HIDE DEF S, n
    <3> QED
      BY <1>1, <1>3, FS_RemoveElement, FS_Subset
  <2>2. \A i \in R : size[i] = PartBytes
    BY <1>4
  <2>3. PartBytes \in Int
    BY <1>2
  <2> HIDE DEF R, size, S
  <2>4. SumFunctionOnSet(size, R) = PartBytes * Cardinality(R)
    BY <2>1, <2>2, <2>3, SumOfSame
  <2> QED
    BY <2>1, <2>4 DEF R
<1>7. TotalSize(files) = SumFunctionOnSet(size, S)
  <2>1. DOMAIN size = S /\ [i \in DOMAIN files |-> files[i].size] = size
    BY <1>1
  <2> QED
    BY <2>1 DEF TotalSize, SumFunction
<1>8. TotalSize(files) = size[l] + PartBytes * (n - 1)
  <2>1. \A i \in S : size[i] \in Int
    <3> TAKE i \in S
    <3>1. CASE i = l
      BY <1>5, <3>1
    <3>2. CASE i # l
      BY <1>2, <1>4, <3>2
    <3> QED
      BY <3>1, <3>2
  <2>3. l \in S /\ IsFiniteSet(S)
    BY <1>1
  <2> HIDE DEF size, S
  <2>2. SumFunctionOnSet(size, S) = size[l] + SumFunctionOnSet(size, S \ {l})
    BY <2>1, <2>3, SumWithout
  <2> QED
    BY <1>6, <1>7, <2>2
<1>9. StartedParts(files) = n
  <2> DEFINE s == size[l]
  <2>1. (s + PartBytes * (n - 1) + PartBytes - 1) \div PartBytes = n
    <3> HIDE DEF size, n
    <3> QED
      BY <1>1, <1>2, <1>5, PartsStarted
  <2> QED
    BY <1>8, <2>1 DEF StartedParts
<1>10. PartsAmount(files) = n * UnitPoints
  BY DEF PartsAmount
<1>11. n * UnitPoints = UnitPoints * n
  BY <1>1, <1>2
<1> QED
  BY <1>9, <1>10, <1>11

QuoteRow ==
    [buyer : Buyers, amount : Nat, of : Manifests, digest : {Digest(files) : files \in Manifests},
     release : Nat, until : Nat]

QuotedSound(q) ==
    /\ q.of # NotPublished /\ Priceable(q.of)
    /\ q.amount = PartsAmount(q.of) /\ q.digest = Digest(q.of)

Validated == {"validated", "charged"}

(* What an order has read of its quote and of the work still holds of the  *)
(* quote, which nothing changes.                                           *)
OrderSound(list, k, o) ==
    /\ o.status # "none" => k[2] \in 1 .. Len(list)
    /\ o.status \in {"resolving"} \union Validated =>
         o.at \in Nat /\ list[k[2]].buyer = k[1] /\ o.at < list[k[2]].until
    /\ o.status \in Validated =>
         /\ o \in [status : Validated, at : Nat, saw : Manifests]
         /\ FilesOf(o.saw) = FilesOf(list[k[2]].of)

QuotesInv ==
    /\ work \in Manifests \union {NotPublished}
    /\ release \in Nat /\ quoteTime \in Nat
    /\ quotes \in Seq(QuoteRow)
    /\ \A q \in 1 .. Len(quotes) : QuotedSound(quotes[q])
    /\ orders = [k \in Keys |-> orders[k]]
    /\ \A k \in Keys : OrderSound(quotes, k, orders[k])
    /\ \A c \in charges :
         c[1] \in Keys /\ orders[c[1]].status \in Validated /\ c[2] = quotes[c[1][2]].amount

LEMMA ManifestFiles ==
  ASSUME NEW files \in Manifests PROVE files \in Seq(FilesOf(files))
  BY QuotesAssumption DEF FilesOf

\* An order goes on alone; a validated one stays validated, and only such a one is charged.
LEMMA OrderGoesOn ==
  ASSUME QuotesInv, NEW k \in Keys, NEW o, orders' = [orders EXCEPT ![k] = o],
         OrderSound(quotes, k, o), orders[k].status \in Validated => o.status \in Validated,
         \A c \in charges' : \/ c \in charges
                             \/ c = <<k, quotes[k[2]].amount>> /\ o.status \in Validated,
         UNCHANGED <<work, release, quotes, quoteTime>>
  PROVE  QuotesInv'
<1>1. /\ orders' = [h \in Keys |-> IF h = k THEN o ELSE orders[h]]
  BY DEF QuotesInv
<1>2. /\ orders'[k] = o /\ \A h \in Keys \ {k} : orders'[h] = orders[h]
      /\ orders' = [h \in Keys |-> orders'[h]]
  BY <1>1
<1>3. \A h \in Keys : OrderSound(quotes, h, orders'[h])
  <2> TAKE h \in Keys
  <2>1. CASE h = k
    BY <1>2, <2>1
  <2>2. CASE h # k
    <3>1. orders'[h] = orders[h] /\ OrderSound(quotes, h, orders[h])
      BY <1>2, <2>2 DEF QuotesInv
    <3> QED
      BY <3>1
  <2> QED
    BY <2>1, <2>2
<1>4. ASSUME NEW c \in charges'
      PROVE  c[1] \in Keys /\ orders'[c[1]].status \in Validated /\ c[2] = quotes[c[1][2]].amount
  <2>1. CASE c \in charges
    <3>1. c[1] \in Keys /\ orders[c[1]].status \in Validated /\ c[2] = quotes[c[1][2]].amount
      BY <2>1 DEF QuotesInv
    <3>2. orders'[c[1]].status \in Validated
      BY <1>2, <3>1
    <3> QED
      BY <3>1, <3>2
  <2>2. CASE c = <<k, quotes[k[2]].amount>> /\ o.status \in Validated
    BY <1>2, <2>2
  <2> QED
    BY <1>4, <2>1, <2>2
<1>5. /\ work' \in Manifests \union {NotPublished} /\ release' \in Nat /\ quoteTime' \in Nat
      /\ quotes' = quotes /\ quotes \in Seq(QuoteRow)
      /\ \A q \in 1 .. Len(quotes) : QuotedSound(quotes[q])
  BY DEF QuotesInv
<1> QED
  BY <1>2, <1>3, <1>4, <1>5 DEF QuotesInv

\* A new quote leaves those that were given.
LEMMA QuoteIsGiven ==
  ASSUME QuotesInv, NEW b \in Buyers, QuoteBusinessProduct(b)
  PROVE  QuotesInv'
<1> DEFINE q == [buyer |-> b, amount |-> PartsAmount(work), of |-> work, digest |-> Digest(work),
                 release |-> release, until |-> quoteTime + QuoteTtl]
<1>1. /\ work # NotPublished /\ Priceable(work) /\ quotes' = Append(quotes, q)
      /\ UNCHANGED <<work, release, orders, charges, quoteTime>>
  BY DEF QuoteBusinessProduct
<1>2. /\ work \in Manifests /\ release \in Nat /\ quoteTime + QuoteTtl \in Nat
      /\ quotes \in Seq(QuoteRow)
  BY <1>1, QuotesAssumption DEF QuotesInv
<1>3. PartsAmount(work) \in Nat
  <2>1. Len(work) \in Nat /\ UnitPoints \in Nat
    BY <1>2, ManifestFiles, QuotesAssumption
  <2> QED
    BY <2>1 DEF PartsAmount
<1>4. q \in QuoteRow
  BY <1>2, <1>3 DEF QuoteRow
<1>5. QuotedSound(q)
  BY <1>1 DEF QuotedSound
<1> HIDE DEF q
<1>6. /\ quotes' \in Seq(QuoteRow) /\ Len(quotes) \in Nat /\ Len(quotes') = Len(quotes) + 1
      /\ quotes'[Len(quotes) + 1] = q /\ \A i \in 1 .. Len(quotes) : quotes'[i] = quotes[i]
  BY <1>1, <1>2, <1>4
<1>7. \A i \in 1 .. Len(quotes') : QuotedSound(quotes'[i])
  <2> TAKE i \in 1 .. Len(quotes')
  <2>1. CASE i \in 1 .. Len(quotes)
    <3>1. quotes'[i] = quotes[i] /\ QuotedSound(quotes[i])
      BY <1>6, <2>1 DEF QuotesInv
    <3> QED
      BY <3>1
  <2>2. CASE i = Len(quotes) + 1
    BY <1>5, <1>6, <2>2
  <2> QED
    BY <1>6, <2>1, <2>2
<1>8. ASSUME NEW k \in Keys PROVE OrderSound(quotes', k, orders[k])
  <2>1. OrderSound(quotes, k, orders[k])
    BY DEF QuotesInv
  <2>2. CASE k[2] \in 1 .. Len(quotes)
    <3>1. quotes'[k[2]] = quotes[k[2]] /\ k[2] \in 1 .. Len(quotes')
      BY <1>6, <2>2
    <3> QED
      BY <2>1, <3>1 DEF OrderSound
  <2>3. CASE k[2] \notin 1 .. Len(quotes)
    <3>1. orders[k].status = "none"
      BY <2>1, <2>3 DEF OrderSound
    <3> QED
      BY <3>1 DEF OrderSound, Validated
  <2> QED
    BY <2>2, <2>3
<1>9. ASSUME NEW c \in charges
      PROVE  c[1] \in Keys /\ orders[c[1]].status \in Validated /\ c[2] = quotes'[c[1][2]].amount
  <2>1. c[1] \in Keys /\ orders[c[1]].status \in Validated /\ c[2] = quotes[c[1][2]].amount
    BY DEF QuotesInv
  <2>2. orders[c[1]].status # "none" /\ OrderSound(quotes, c[1], orders[c[1]])
    BY <2>1 DEF QuotesInv, Validated
  <2>3. c[1][2] \in 1 .. Len(quotes)
    BY <2>2 DEF OrderSound
  <2> QED
    BY <1>6, <2>1, <2>3
<1>10. orders = [k \in Keys |-> orders[k]] /\ work \in Manifests \union {NotPublished} /\ quoteTime \in Nat
  BY DEF QuotesInv
<1> QED
  BY <1>1, <1>2, <1>6, <1>7, <1>8, <1>9, <1>10 DEF QuotesInv

LEMMA ValidationReads ==
  ASSUME QuotesInv, NEW k \in Keys, ValidateReads(k)
  PROVE  QuotesInv'
<1> DEFINE o == [status |-> "resolving", at |-> quoteTime]
<1>1. /\ orders[k].status = "started" /\ ClaimsHold(k) /\ orders' = [orders EXCEPT ![k] = o]
      /\ UNCHANGED <<work, release, quotes, charges, quoteTime>>
  BY DEF ValidateReads
<1>2. OrderSound(quotes, k, orders[k]) /\ quoteTime \in Nat
  BY DEF QuotesInv
<1>3. OrderSound(quotes, k, o)
  <2>1. k[2] \in 1 .. Len(quotes)
    BY <1>1, <1>2 DEF OrderSound
  <2>2. quotes[k[2]].buyer = k[1] /\ quoteTime < quotes[k[2]].until
    BY <1>1 DEF ClaimsHold
  <2>3. o.status = "resolving" /\ o.at = quoteTime
    OBVIOUS
  <2> HIDE DEF o
  <2> QED
    BY <1>2, <2>1, <2>2, <2>3 DEF OrderSound, Validated
<1>4. orders[k].status \notin Validated /\ \A c \in charges' : c \in charges
  BY <1>1 DEF Validated
<1> HIDE DEF o
<1> QED
  BY <1>1, <1>3, <1>4, OrderGoesOn

LEMMA ValidationEnds ==
  ASSUME QuotesInv, NEW k \in Keys, ValidateQuote(k)
  PROVE  QuotesInv'
<1> DEFINE o == [status |-> "validated", at |-> orders[k].at, saw |-> work]
<1>1. /\ orders[k].status = "resolving" /\ StillCurrent(quotes[k[2]])
      /\ orders' = [orders EXCEPT ![k] = o]
      /\ UNCHANGED <<work, release, quotes, charges, quoteTime>>
  BY DEF ValidateQuote
<1>2. /\ OrderSound(quotes, k, orders[k]) /\ quotes \in Seq(QuoteRow)
      /\ \A q \in 1 .. Len(quotes) : QuotedSound(quotes[q])
      /\ work \in Manifests \union {NotPublished}
  BY DEF QuotesInv
<1>3. /\ k[2] \in 1 .. Len(quotes) /\ orders[k].at \in Nat /\ quotes[k[2]].buyer = k[1]
      /\ orders[k].at < quotes[k[2]].until
  BY <1>1, <1>2 DEF OrderSound
<1>4. work \in Manifests /\ Priceable(work) /\ Digest(work) = quotes[k[2]].digest
  BY <1>1, <1>2 DEF StillCurrent
<1>5. FilesOf(work) = FilesOf(quotes[k[2]].of)
  <2> DEFINE of == quotes[k[2]].of
  <2>1. /\ quotes[k[2]] \in QuoteRow /\ QuotedSound(quotes[k[2]])
    BY <1>2, <1>3
  <2>2. of \in Manifests /\ Priceable(of) /\ Digest(work) = Digest(of)
    BY <1>4, <2>1 DEF QuoteRow, QuotedSound
  <2> HIDE DEF of
  <2>3. /\ FilesOf(work) = {Digest(work)[m] : m \in DOMAIN Digest(work)}
        /\ FilesOf(of) = {Digest(of)[m] : m \in DOMAIN Digest(of)}
    BY <1>4, <2>2, ManifestFiles, DigestTellsFiles DEF Priceable
  <2>4. FilesOf(work) = FilesOf(of)
    BY <2>2, <2>3
  <2> QED
    BY <2>4 DEF of
<1>6. OrderSound(quotes, k, o)
  <2>1. /\ o.status = "validated" /\ o.at = orders[k].at /\ o.saw = work
        /\ o \in [status : Validated, at : Nat, saw : Manifests]
    BY <1>3, <1>4 DEF Validated
  <2> HIDE DEF o
  <2> QED
    BY <1>3, <1>5, <2>1 DEF OrderSound
<1>7. orders[k].status \notin Validated /\ \A c \in charges' : c \in charges
  BY <1>1 DEF Validated
<1> HIDE DEF o
<1> QED
  BY <1>1, <1>6, <1>7, OrderGoesOn

LEMMA ValidationFails ==
  ASSUME QuotesInv, NEW k \in Keys, NEW status \in {"started", "failed"}, ValidateFails(k, status)
  PROVE  QuotesInv'
<1> DEFINE o == [status |-> status]
<1>1. /\ orders[k].status \in {"started", "resolving"} /\ orders' = [orders EXCEPT ![k] = o]
      /\ UNCHANGED <<work, release, quotes, charges, quoteTime>>
  BY DEF ValidateFails
<1>2. OrderSound(quotes, k, o)
  <2>1. o.status = status
    OBVIOUS
  <2>2. k[2] \in 1 .. Len(quotes)
    BY <1>1 DEF QuotesInv, OrderSound
  <2> HIDE DEF o
  <2> QED
    BY <2>1, <2>2 DEF OrderSound, Validated
<1>3. orders[k].status \notin Validated /\ \A c \in charges' : c \in charges
  BY <1>1 DEF Validated
<1> HIDE DEF o
<1> QED
  BY <1>1, <1>2, <1>3, OrderGoesOn

LEMMA ConsumptionStarts ==
  ASSUME QuotesInv, NEW k \in Keys, Consume(k)
  PROVE  QuotesInv'
<1> DEFINE o == [status |-> "started"]
<1>1. /\ k[2] \in DOMAIN quotes /\ orders[k] = NotStarted /\ orders' = [orders EXCEPT ![k] = o]
      /\ UNCHANGED <<work, release, quotes, charges, quoteTime>>
  BY DEF Consume
<1>2. OrderSound(quotes, k, o)
  <2>1. o.status = "started"
    OBVIOUS
  <2>2. k[2] \in 1 .. Len(quotes)
    BY <1>1 DEF QuotesInv
  <2> HIDE DEF o
  <2> QED
    BY <2>1, <2>2 DEF OrderSound, Validated
<1>3. orders[k].status \notin Validated /\ \A c \in charges' : c \in charges
  BY <1>1 DEF Validated, NotStarted
<1> HIDE DEF o
<1> QED
  BY <1>1, <1>2, <1>3, OrderGoesOn

LEMMA QuoteIsDebited ==
  ASSUME QuotesInv, NEW k \in Keys, Debit(k)
  PROVE  QuotesInv'
<1>1. /\ orders[k].status = "validated"
      /\ charges' = charges \union {<<k, quotes[k[2]].amount>>}
      /\ orders' \in {orders, [orders EXCEPT ![k].status = "charged"]}
      /\ UNCHANGED <<work, release, quotes, quoteTime>>
  BY DEF Debit
<1>2. OrderSound(quotes, k, orders[k]) /\ orders = [h \in Keys |-> orders[h]]
  BY DEF QuotesInv
<1>3. \A c \in charges' : c \in charges \/ c = <<k, quotes[k[2]].amount>>
  BY <1>1
<1>4. CASE orders' = orders
  <2>1. orders' = [orders EXCEPT ![k] = orders[k]]
    BY <1>2, <1>4
  <2>2. orders[k].status \in Validated
    BY <1>1 DEF Validated
  <2> DEFINE o == orders[k]
  <2>3. /\ orders' = [orders EXCEPT ![k] = o] /\ OrderSound(quotes, k, o) /\ o.status \in Validated
    BY <1>2, <2>1, <2>2
  <2> HIDE DEF o
  <2> QED
    BY <1>1, <1>3, <2>3, OrderGoesOn
<1>5. CASE orders' = [orders EXCEPT ![k].status = "charged"]
  <2> DEFINE o == [orders[k] EXCEPT !.status = "charged"]
  <2>1. orders' = [orders EXCEPT ![k] = o]
    BY <1>2, <1>5
  <2>2. /\ orders[k] \in [status : Validated, at : Nat, saw : Manifests]
        /\ FilesOf(orders[k].saw) = FilesOf(quotes[k[2]].of) /\ k[2] \in 1 .. Len(quotes)
        /\ quotes[k[2]].buyer = k[1] /\ orders[k].at < quotes[k[2]].until
    BY <1>1, <1>2 DEF OrderSound, Validated
  <2>3. /\ o \in [status : Validated, at : Nat, saw : Manifests]
        /\ o.status = "charged" /\ o.at = orders[k].at /\ o.saw = orders[k].saw
    BY <2>2 DEF Validated
  <2> HIDE DEF o
  <2>4. OrderSound(quotes, k, o) /\ o.status \in Validated
    BY <2>2, <2>3 DEF OrderSound, Validated
  <2> QED
    BY <1>1, <1>3, <2>1, <2>4, OrderGoesOn
<1> QED
  BY <1>1, <1>4, <1>5

LEMMA QuotesStart == QuotesInit => QuotesInv
<1> SUFFICES ASSUME QuotesInit PROVE QuotesInv
  OBVIOUS
<1>1. /\ work = NotPublished /\ release = 1 /\ quotes = <<>> /\ charges = {} /\ quoteTime = 0
      /\ orders = [k \in Keys |-> NotStarted]
  BY DEF QuotesInit
<1>2. NotStarted.status = "none"
  BY DEF NotStarted
<1>3. ASSUME NEW k \in Keys PROVE OrderSound(quotes, k, orders[k])
  <2>1. orders[k].status = "none"
    BY <1>1, <1>2
  <2> QED
    BY <2>1 DEF OrderSound, Validated
<1>4. orders = [k \in Keys |-> orders[k]]
  BY <1>1
<1>5. quotes \in Seq(QuoteRow) /\ Len(quotes) = 0
  BY <1>1
<1> QED
  BY <1>1, <1>3, <1>4, <1>5 DEF QuotesInv

LEMMA QuotesStep == QuotesInv /\ [QuotesNext]_quotesVars => QuotesInv'
<1> SUFFICES ASSUME QuotesInv, [QuotesNext]_quotesVars PROVE QuotesInv'
  OBVIOUS
<1>1. CASE /\ UNCHANGED <<quotes, orders, charges>>
           /\ work' \in Manifests \union {NotPublished} /\ release' \in Nat /\ quoteTime' \in Nat
  BY <1>1 DEF QuotesInv
<1>2. work \in Manifests \union {NotPublished} /\ release \in Nat /\ quoteTime \in Nat
  BY DEF QuotesInv
<1>3. CASE \E files \in Manifests \union {NotPublished} : WorkChanges(files)
  <2>1. /\ UNCHANGED <<quotes, orders, charges, release, quoteTime>>
        /\ work' \in Manifests \union {NotPublished}
    BY <1>3 DEF WorkChanges
  <2> QED
    BY <1>1, <1>2, <2>1
<1>4. CASE Deploys
  <2>1. UNCHANGED <<quotes, orders, charges, work, quoteTime>> /\ release' = release + 1
    BY <1>4 DEF Deploys
  <2> QED
    BY <1>1, <1>2, <2>1
<1>5. CASE QuoteTimePasses
  <2>1. UNCHANGED <<quotes, orders, charges, work, release>> /\ quoteTime' = quoteTime + 1
    BY <1>5 DEF QuoteTimePasses
  <2> QED
    BY <1>1, <1>2, <2>1
<1>6. CASE \E b \in Buyers : QuoteBusinessProduct(b)
  BY <1>6, QuoteIsGiven
<1>7. CASE \E k \in Keys : Consume(k)
  BY <1>7, ConsumptionStarts
<1>8. CASE \E k \in Keys : ValidateReads(k)
  BY <1>8, ValidationReads
<1>9. CASE \E k \in Keys : ValidateQuote(k)
  BY <1>9, ValidationEnds
<1>10. CASE \E k \in Keys : Debit(k)
  BY <1>10, QuoteIsDebited
<1>11. CASE \E k \in Keys : \E status \in {"started", "failed"} : ValidateFails(k, status)
  BY <1>11, ValidationFails
<1>12. CASE UNCHANGED quotesVars
  BY <1>1, <1>2, <1>12 DEF quotesVars
<1> QED
  BY <1>3, <1>4, <1>5, <1>6, <1>7, <1>8, <1>9, <1>10, <1>11, <1>12 DEF QuotesNext

\* A charge is for every part the quoted files start, of a quote of the buyer's own that was
\* current when the order was validated: for any manifests, prices and number of quotes, and
\* whatever editors and deployments do meanwhile (_fresh_claims).
THEOREM ChargesAreAsQuoted == QuotesSpec => []ChargedAsQuoted
<1>1. QuotesInv => ChargedAsQuoted
  <2> SUFFICES ASSUME QuotesInv, NEW c \in charges
               PROVE  /\ quotes[c[1][2]].buyer = c[1][1]
                      /\ c[2] = UnitPoints * StartedParts(quotes[c[1][2]].of)
                      /\ FilesOf(orders[c[1]].saw) = FilesOf(quotes[c[1][2]].of)
                      /\ orders[c[1]].at < quotes[c[1][2]].until
    BY DEF ChargedAsQuoted
  <2>1. /\ c[1] \in Keys /\ orders[c[1]].status \in Validated /\ c[2] = quotes[c[1][2]].amount
        /\ quotes \in Seq(QuoteRow) /\ OrderSound(quotes, c[1], orders[c[1]])
    BY DEF QuotesInv
  <2> DEFINE q == quotes[c[1][2]]
  <2>2. /\ c[1][2] \in 1 .. Len(quotes) /\ q.buyer = c[1][1] /\ orders[c[1]].at < q.until
        /\ FilesOf(orders[c[1]].saw) = FilesOf(q.of)
    BY <2>1 DEF OrderSound, Validated
  <2>3. q \in QuoteRow /\ QuotedSound(q)
    BY <2>1, <2>2 DEF QuotesInv
  <2> HIDE DEF q
  <2>4. /\ q.of \in Manifests /\ q.of # <<>> /\ Priceable(q.of) /\ q.amount = PartsAmount(q.of)
    BY <2>3 DEF QuoteRow, QuotedSound, NotPublished
  <2>5. PartsAmount(q.of) = UnitPoints * StartedParts(q.of)
    BY <2>4, ManifestFiles, PriceIsOfPartsStarted
  <2> QED
    BY <2>1, <2>2, <2>4, <2>5 DEF q
<1> QED
  BY <1>1, QuotesStart, QuotesStep, PTL DEF QuotesSpec
=============================================================================
