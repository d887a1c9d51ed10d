---------------------------- MODULE WorkflowProof ----------------------------
(***************************************************************************)
(* Safety of WorkflowRunner for every number of steps, attempts, loops,    *)
(* requests, crashes and expired leases: first for workflows without       *)
(* waits, then what holds whatever the steps wait for, and what it takes   *)
(* for a wait to be honoured.                                              *)
(***************************************************************************)
EXTENDS WorkflowRunner, TLAPS

NothingWaits == \A i \in Steps : WaitsFor[i] = {}

Numbers == 1..MaxAttempts
Done(i) == \E n \in Numbers : <<i, n>> \in executed
Stuck(i) == <<i, MaxAttempts>> \in failed \/ \E n \in Numbers : <<i, n>> \in permanent

(* Attempts of a step are numbered without a gap, and all before the last  *)
(* have failed and were to be retried.                                     *)
Numbered ==
    /\ executed \cap failed = {}
    /\ \A i \in Steps, n \in Numbers, m \in Numbers :
        <<i, n>> \in executed \cup failed /\ m < n => <<i, m>> \in failed \ permanent
    /\ \A i \in Steps : \E k \in 0..MaxAttempts : Made(i) = 1..k

Ordered ==
    \A i \in Steps, n \in Numbers :
        <<i, n>> \in executed \cup failed => \A j \in 1..(i - 1) : Done(j)

RowSound ==
    /\ \A j \in 1..(step - 1) : Done(j)
    /\ results = ExecutedSteps
    /\ waitingFor = 0
    /\ status = "completed" => \A i \in Steps : Done(i)
    /\ status = "failed" => \E i \in Steps : Stuck(i)

(* What an actor read may be old, but the steps before its own are         *)
(* executed, and its results are all there are while its own step is not.  *)
Working == {"look", "replay", "exhausted", "run", "complete"}
ActorSound(a) ==
    /\ pc[a] \notin {"signals", "wait"}
    /\ pc[a] = "send" => sig[a] \in Signals
    /\ snap[a].waitingFor = 0
    /\ pc[a] \in Working =>
        /\ snap[a].status \notin Terminal
        /\ \A j \in 1..(snap[a].step - 1) : Done(j)
    /\ pc[a] \in Working \ {"complete"} => snap[a].step \in Steps
    /\ pc[a] = "complete" => snap[a].step = Finished
    /\ pc[a] = "replay" => Done(snap[a].step)
    /\ pc[a] = "exhausted" => Stuck(snap[a].step)
    /\ pc[a] = "run" =>
        /\ num[a] \in Numbers
        /\ \A m \in 1..(num[a] - 1) : <<snap[a].step, m>> \in failed \ permanent
    /\ pc[a] \in {"look", "run"} /\ ~Done(snap[a].step) => snap[a].results = ExecutedSteps

AttemptsSound == Numbered /\ Ordered
WorkflowInv == TypeOK /\ AttemptsSound /\ RowSound /\ \A a \in Actors : ActorSound(a)

-----------------------------------------------------------------------------
(* Consequences of the invariant.                                          *)

\* The last attempt, whose number the code reads as a maximum (runner.py last_attempt).
LEMMA LastIsLast ==
  ASSUME WorkflowAssumption, Numbered, NEW i \in Steps
  PROVE  /\ LastAttempt(i) \in 0..MaxAttempts
         /\ Made(i) = 1..LastAttempt(i)
<1>1. PICK k \in 0..MaxAttempts : Made(i) = 1..k
  BY DEF Numbered
<1>2. CASE k = 0
  BY <1>1, <1>2 DEF LastAttempt, WorkflowAssumption
<1>3. CASE k # 0
  <2>1. k \in Made(i) /\ \A m \in Made(i) : m <= k
    BY <1>1, <1>3 DEF WorkflowAssumption
  <2>2. \A n \in Made(i) : (\A m \in Made(i) : m <= n) => n = k
    BY <1>1, <2>1 DEF WorkflowAssumption
  <2>3. LastAttempt(i) = k
    BY <2>1, <2>2 DEF LastAttempt
  <2> QED
    BY <1>1, <2>3
<1> QED
  BY <1>2, <1>3

\* A step whose policy is exhausted is not executed.
LEMMA StuckNotDone ==
  ASSUME WorkflowAssumption, TypeOK, Numbered, NEW i \in Steps, Stuck(i)
  PROVE  ~Done(i)
<1> SUFFICES ASSUME NEW n \in Numbers, <<i, n>> \in executed PROVE FALSE
  BY DEF Done
<1>1. \A m \in Numbers : m < n => <<i, m>> \in failed \ permanent
  BY DEF Numbered
<1>2. <<i, n>> \notin failed /\ <<i, n>> \notin permanent
  BY DEF Numbered, TypeOK
<1>3. CASE <<i, MaxAttempts>> \in failed
  <2>1. MaxAttempts \in Numbers /\ n <= MaxAttempts /\ n # MaxAttempts
    BY <1>2, <1>3 DEF Numbers, WorkflowAssumption
  <2>2. n < MaxAttempts
    BY <2>1 DEF Numbers, WorkflowAssumption
  <2>3. <<i, n>> \in failed
    BY <1>3, <2>1, <2>2 DEF Numbered
  <2> QED
    BY <1>2, <2>3
<1>4. CASE \E m \in Numbers : <<i, m>> \in permanent
  <2>1. PICK m \in Numbers : <<i, m>> \in permanent
    BY <1>4
  <2>2. m # n /\ ~(m < n)
    BY <1>1, <1>2, <2>1
  <2>3. n < m
    BY <2>2 DEF Numbers, WorkflowAssumption
  <2>4. <<i, n>> \in failed
    BY <2>1, <2>3 DEF Numbered, TypeOK
  <2> QED
    BY <1>2, <2>4
<1> QED
  BY <1>3, <1>4 DEF Stuck

\* An actor whose attempt is new runs the first step that is not executed, with all
\* earlier attempts of it retried, on an instance that has not ended: why a commit based
\* on an old row does no harm (runner.py _step_once, the unique key of attempts).
LEMMA NewAttempt ==
  ASSUME WorkflowAssumption, WorkflowInv, NEW a \in Actors, pc[a] = "run", ~Taken(a)
  PROVE  /\ snap[a].step \in Steps /\ num[a] \in Numbers
         /\ Made(snap[a].step) = 1..(num[a] - 1)
         /\ ~Done(snap[a].step) /\ ~Stuck(snap[a].step)
         /\ \A j \in Steps : j < snap[a].step <=> Done(j)
         /\ status \notin Terminal
<1> DEFINE i == snap[a].step
           n == num[a]
<1>1. /\ i \in Steps /\ n \in Numbers
      /\ \A m \in 1..(n - 1) : <<i, m>> \in failed \ permanent
      /\ \A j \in 1..(i - 1) : Done(j)
  BY DEF WorkflowInv, ActorSound, Working
<1>2. <<i, n>> \notin executed \cup failed
  BY DEF Taken, Mine
<1>3. Numbered /\ Ordered /\ TypeOK /\ RowSound
  BY DEF WorkflowInv, AttemptsSound
<1> HIDE DEF i, n
<1>4. Made(i) = 1..(n - 1)
  <2>1. PICK k \in 0..MaxAttempts : Made(i) = 1..k
    BY <1>1, <1>3 DEF Numbered
  <2>2. n \notin Made(i)
    BY <1>2 DEF Made
  <2>3. \A m \in 1..(n - 1) : m \in Made(i)
    BY <1>1 DEF Made, Numbers, WorkflowAssumption
  <2>4. k < n
    BY <1>1, <2>1, <2>2 DEF Numbers, WorkflowAssumption
  <2>5. n - 1 <= k
    BY <1>1, <2>1, <2>3 DEF Numbers, WorkflowAssumption
  <2>6. k = n - 1
    BY <1>1, <2>4, <2>5 DEF Numbers, WorkflowAssumption
  <2> QED
    BY <2>1, <2>6
<1>5. \A m \in Numbers : <<i, m>> \in executed \cup failed =>
         <<i, m>> \in failed \ permanent /\ m < n
  <2> SUFFICES ASSUME NEW m \in Numbers, <<i, m>> \in executed \cup failed
               PROVE  <<i, m>> \in failed \ permanent /\ m < n
    OBVIOUS
  <2>1. m \in 1..(n - 1)
    BY <1>4 DEF Made, Numbers
  <2> QED
    BY <1>1, <2>1 DEF Numbers, WorkflowAssumption
<1>6. ~Done(i)
  BY <1>3, <1>5 DEF Done, Numbered
<1>7. ~Stuck(i)
  <2>1. MaxAttempts \in Numbers
    BY DEF Numbers, WorkflowAssumption
  <2>2. <<i, MaxAttempts>> \notin failed
    <3>1. ~(MaxAttempts < n)
      BY <1>1 DEF Numbers, WorkflowAssumption
    <3> QED
      BY <1>5, <2>1, <3>1
  <2>3. \A m \in Numbers : <<i, m>> \notin permanent
    BY <1>3, <1>5 DEF TypeOK
  <2> QED
    BY <2>2, <2>3 DEF Stuck
<1>8. \A j \in Steps : i < j => ~Stuck(j) /\ ~Done(j)
  <2> SUFFICES ASSUME NEW j \in Steps, i < j PROVE ~Stuck(j) /\ ~Done(j)
    OBVIOUS
  <2>1. i \in 1..(j - 1)
    BY <1>1 DEF Steps, WorkflowAssumption
  <2>2. \A m \in Numbers : <<j, m>> \notin executed \cup failed
    BY <1>3, <1>6, <2>1 DEF Ordered
  <2>3. MaxAttempts \in Numbers
    BY DEF Numbers, WorkflowAssumption
  <2>4. \A m \in Numbers : <<j, m>> \notin permanent
    BY <1>3, <2>2 DEF TypeOK
  <2> QED
    BY <2>2, <2>3, <2>4 DEF Done, Stuck
<1>9. \A j \in Steps : j < i <=> Done(j)
  <2> SUFFICES ASSUME NEW j \in Steps PROVE j < i <=> Done(j)
    OBVIOUS
  <2>1. j < i => j \in 1..(i - 1)
    BY <1>1 DEF Steps, WorkflowAssumption
  <2>2. j < i \/ j = i \/ i < j
    BY <1>1 DEF Steps, WorkflowAssumption
  <2>3. i < j => ~(j < i)
    BY <1>1 DEF Steps, WorkflowAssumption
  <2>4. j = i => ~(j < i)
    BY <1>1 DEF Steps, WorkflowAssumption
  <2> QED
    BY <1>1, <1>6, <1>8, <2>1, <2>2, <2>3, <2>4
<1>10. status \notin Terminal
  <2>1. status # "completed"
    BY <1>1, <1>3, <1>6 DEF RowSound
  <2>2. status # "failed"
    <3> SUFFICES ASSUME NEW s \in Steps, Stuck(s) PROVE FALSE
      BY <1>3 DEF RowSound
    <3>1. ~Done(s)
      BY <1>3, StuckNotDone
    <3>2. s = i \/ i < s
      BY <1>1, <1>9, <3>1 DEF Steps, WorkflowAssumption
    <3> QED
      BY <1>7, <1>8, <3>2
  <2> QED
    BY <2>1, <2>2 DEF Terminal
<1> QED
  BY <1>1, <1>4, <1>6, <1>7, <1>9, <1>10 DEF i, n

-----------------------------------------------------------------------------
(* Steps that write no attempt, one part of the invariant at a time.       *)

\* Attempts that are not written stay numbered and in order.
LEMMA QuietAttempts ==
  ASSUME AttemptsSound, UNCHANGED attempts
  PROVE  AttemptsSound' /\ (\A i \in Steps : Done(i) <=> Done(i)') /\ ExecutedSteps' = ExecutedSteps
BY DEF AttemptsSound, Numbered, Ordered, Done, Made, ExecutedSteps, attempts

\* A transaction that is neither inside a step nor inside a wait has nothing to keep.
LEMMA OutsideSound ==
  ASSUME NEW b \in Actors, pc'[b] \in {"idle", "insert", "load", "send"},
         pc'[b] = "send" => sig'[b] \in Signals,
         snap'[b].waitingFor = 0
  PROVE  ActorSound(b)'
BY DEF ActorSound, Working

\* What other transactions commit does not reach the memory of this one.
LEMMA QuietSound ==
  ASSUME NEW b \in Actors, ActorSound(b), UNCHANGED attempts,
         pc'[b] = pc[b], snap'[b] = snap[b], num'[b] = num[b], sig'[b] = sig[b]
  PROVE  ActorSound(b)'
BY DEF ActorSound, Working, Done, Stuck, ExecutedSteps, attempts

\* An actor that ends a transaction forgets it, and nobody else notices.
LEMMA LeaveSound ==
  ASSUME WorkflowInv, NEW a \in Actors, NEW p \in {"idle", "insert", "load"},
         Leave(a, p), UNCHANGED attempts
  PROVE  \A b \in Actors : ActorSound(b)'
<1> SUFFICES ASSUME NEW b \in Actors PROVE ActorSound(b)'
  OBVIOUS
<1>1. CASE b = a
  <2>1. pc'[b] = p /\ snap'[b].waitingFor = 0
    BY <1>1 DEF WorkflowInv, TypeOK, Leave, NoSnapshot
  <2> QED
    BY <2>1, OutsideSound
<1>2. CASE b # a
  BY <1>2, QuietSound DEF WorkflowInv, TypeOK, Leave
<1> QED
  BY <1>1, <1>2

\* The same for an actor that only moves on.
LEMMA GoToSound ==
  ASSUME WorkflowInv, NEW a \in Actors, NEW p \in {"idle", "insert", "load"},
         GoTo(a, p), UNCHANGED attempts
  PROVE  \A b \in Actors : ActorSound(b)'
<1> SUFFICES ASSUME NEW b \in Actors PROVE ActorSound(b)'
  OBVIOUS
<1>1. CASE b = a
  <2>1. pc'[b] = p /\ snap'[b].waitingFor = 0
    BY <1>1 DEF WorkflowInv, TypeOK, GoTo, ActorSound
  <2> QED
    BY <2>1, OutsideSound
<1>2. CASE b # a
  BY <1>2, QuietSound DEF WorkflowInv, TypeOK, GoTo
<1> QED
  BY <1>1, <1>2

\* The variables of the actors keep their types.
ActorsTyped == /\ pc \in [Actors -> Points]
               /\ snap \in [Actors -> Snapshot]
               /\ num \in [Actors -> 0..MaxAttempts]
               /\ sig \in [Actors -> Signals \cup {NoSignal}]

\* No snapshot is a snapshot.
LEMMA NoSnapshotTyped == WorkflowAssumption => NoSnapshot \in Snapshot
<1> SUFFICES ASSUME WorkflowAssumption PROVE NoSnapshot \in Snapshot
  OBVIOUS
<1>1. 1 \in 1..Finished /\ 0 \in 0..StepCount
  BY DEF WorkflowAssumption, Finished
<1> QED
  BY <1>1 DEF NoSnapshot, Snapshot, Leases

\* Ending a transaction or moving on keeps them.
LEMMA ActorTypes ==
  ASSUME WorkflowAssumption, TypeOK, NEW a \in Actors, NEW p \in Points,
         Leave(a, p) \/ GoTo(a, p)
  PROVE  ActorsTyped'
<1>1. 0 \in 0..MaxAttempts
  BY DEF WorkflowAssumption
<1>2. CASE Leave(a, p)
  BY <1>1, <1>2, NoSnapshotTyped DEF Leave, TypeOK, ActorsTyped
<1>3. CASE GoTo(a, p)
  BY <1>3 DEF GoTo, TypeOK, ActorsTyped
<1> QED
  BY <1>2, <1>3

\* A row that only becomes pending stays sound.
LEMMA QuietRow ==
  ASSUME RowSound, UNCHANGED attempts, UNCHANGED <<step, results, waitingFor>>,
         status' = status \/ status' = "pending"
  PROVE  RowSound'
BY DEF RowSound, Done, Stuck, ExecutedSteps, attempts

-----------------------------------------------------------------------------
(* The actions that write no attempt.                                      *)

\* Starting, claiming, giving up on a conflict, a crash and the passing of time.
LEMMA OutsideStep ==
  ASSUME WorkflowAssumption, WorkflowInv,
         \/ \E c \in Callers \cup Starters : Start(c) \/ Insert(c)
         \/ \E r \in Runners : ClaimDue(r)
         \/ \E a \in Advancers : Conflict(a)
         \/ \E a \in Actors : Crash(a)
         \/ LeaseExpires
         \/ RetryDue
  PROVE  WorkflowInv'
<1> DEFINE Rest == /\ UNCHANGED <<attempts, step, results, waitingFor, signals>>
                   /\ status' = status \/ status' = "pending"
                   /\ wake' \in {"none", "now", "later"} /\ lease' \in Leases
                   /\ faults' \in 0..MaxFaults
<1>0. TypeOK /\ AttemptsSound /\ RowSound /\ \A b \in Actors : ActorSound(b)
  BY DEF WorkflowInv
<1>1. ASSUME Rest, ActorsTyped', \A b \in Actors : ActorSound(b)' PROVE WorkflowInv'
  <2>1. TypeOK'
    BY <1>0, <1>1 DEF TypeOK, ActorsTyped, attempts, signals, Statuses
  <2>2. AttemptsSound'
    BY <1>0, <1>1, QuietAttempts
  <2>3. RowSound'
    BY <1>0, <1>1, QuietRow
  <2> QED
    BY <1>1, <2>1, <2>2, <2>3 DEF WorkflowInv
<1>2. ASSUME NEW a \in Actors, NEW p \in {"idle", "insert", "load"}, Leave(a, p) \/ GoTo(a, p), Rest
      PROVE  WorkflowInv'
  <2>1. ActorsTyped'
    BY <1>0, <1>2, ActorTypes DEF Points
  <2>2. \A b \in Actors : ActorSound(b)'
    BY <1>2, LeaveSound, GoToSound
  <2> QED
    BY <1>1, <1>2, <2>1, <2>2
<1>3. ASSUME UNCHANGED actors, Rest PROVE WorkflowInv'
  <2>1. ActorsTyped'
    BY <1>0, <1>3 DEF TypeOK, ActorsTyped, actors
  <2>2. \A b \in Actors : ActorSound(b)'
    BY <1>0, <1>3, QuietSound DEF actors
  <2> QED
    BY <1>1, <1>3, <2>1, <2>2
<1>4. ASSUME NEW c \in Callers \cup Starters, Start(c) PROVE WorkflowInv'
  <2>1. Rest
    BY <1>0, <1>4 DEF Start, row, TypeOK
  <2>2. PICK p \in {"idle", "insert", "load"} : GoTo(c, p)
    BY <1>4 DEF Start, Started
  <2> QED
    BY <1>2, <2>1, <2>2 DEF Actors, Advancers
<1>5. ASSUME NEW c \in Callers \cup Starters, Insert(c) PROVE WorkflowInv'
  <2>1. Rest
    BY <1>0, <1>5 DEF Insert, TypeOK
  <2>2. PICK p \in {"idle", "insert", "load"} : GoTo(c, p)
    BY <1>5 DEF Insert, Started
  <2> QED
    BY <1>2, <2>1, <2>2 DEF Actors, Advancers
<1>6. ASSUME NEW r \in Runners, ClaimDue(r) PROVE WorkflowInv'
  <2>1. Rest
    BY <1>0, <1>6 DEF ClaimDue, TypeOK, Leases
  <2>2. GoTo(r, "load")
    BY <1>6 DEF ClaimDue
  <2> QED
    BY <1>2, <2>1, <2>2 DEF Actors, Advancers
<1>7. ASSUME NEW a \in Advancers, Conflict(a) PROVE WorkflowInv'
  <2>1. Rest
    BY <1>0, <1>7 DEF Conflict, row, TypeOK
  <2>2. Leave(a, "idle")
    BY <1>7 DEF Conflict
  <2> QED
    BY <1>2, <2>1, <2>2 DEF Actors
<1>8. ASSUME NEW a \in Actors, Crash(a) PROVE WorkflowInv'
  <2>1. faults' \in 0..MaxFaults
    BY <1>0, <1>8 DEF Crash, TypeOK, WorkflowAssumption
  <2>2. Rest
    BY <1>0, <1>8, <2>1 DEF Crash, row, TypeOK
  <2>3. Leave(a, "idle")
    BY <1>8 DEF Crash
  <2> QED
    BY <1>2, <2>2, <2>3
<1>9. ASSUME LeaseExpires PROVE WorkflowInv'
  <2>1. faults' \in 0..MaxFaults
    BY <1>0, <1>9 DEF LeaseExpires, TypeOK, WorkflowAssumption
  <2>2. Rest /\ UNCHANGED actors
    BY <1>0, <1>9, <2>1 DEF LeaseExpires, TypeOK, Leases
  <2> QED
    BY <1>3, <2>2
<1>10. ASSUME RetryDue PROVE WorkflowInv'
  <2>1. Rest /\ UNCHANGED actors
    BY <1>0, <1>10 DEF RetryDue, TypeOK
  <2> QED
    BY <1>3, <2>1
<1> QED
  BY <1>4, <1>5, <1>6, <1>7, <1>8, <1>9, <1>10

\* Reading the row: what is read is sound because the row is.
LEMMA LoadStep ==
  ASSUME WorkflowAssumption, WorkflowInv, NEW a \in Actors, Load(a)
  PROVE  WorkflowInv'
<1>0. TypeOK /\ AttemptsSound /\ RowSound /\ \A b \in Actors : ActorSound(b)
  BY DEF WorkflowInv
<1>1. UNCHANGED <<row, attempts, signals, faults>>
  BY DEF Load
<1>2. AttemptsSound' /\ (\A i \in Steps : Done(i) <=> Done(i)') /\ ExecutedSteps' = ExecutedSteps
  BY <1>0, <1>1, QuietAttempts
<1>3. RowSound'
  BY <1>0, <1>1, QuietRow DEF row
<1>4. CASE status \in Terminal
  <2>1. Leave(a, "idle")
    BY <1>4 DEF Load
  <2>2. ActorsTyped'
    BY <1>0, <2>1, ActorTypes DEF Points
  <2>3. \A b \in Actors : ActorSound(b)'
    BY <1>1, <2>1, LeaveSound
  <2>4. TypeOK'
    BY <1>0, <1>1, <2>2 DEF TypeOK, ActorsTyped, row, attempts, signals
  <2> QED
    BY <1>2, <1>3, <2>3, <2>4 DEF WorkflowInv
<1>5. CASE status \notin Terminal
  <2>1. /\ pc' = [pc EXCEPT ![a] = IF step = Finished THEN "complete" ELSE "look"]
        /\ snap' = [snap EXCEPT ![a] = Read]
        /\ UNCHANGED <<num, sig>>
    BY <1>5 DEF Load
  <2>2. Read \in Snapshot
    BY <1>0 DEF TypeOK, Read, Snapshot
  <2>3. ActorsTyped'
    BY <1>0, <2>1, <2>2 DEF TypeOK, ActorsTyped, Points
  <2>4. TypeOK'
    BY <1>0, <1>1, <2>3 DEF TypeOK, ActorsTyped, row, attempts, signals
  <2>5. ASSUME NEW b \in Actors, b # a PROVE ActorSound(b)'
    <3>1. pc'[b] = pc[b] /\ snap'[b] = snap[b] /\ num'[b] = num[b] /\ sig'[b] = sig[b]
      BY <1>0, <2>1, <2>5 DEF TypeOK
    <3> QED
      BY <1>0, <1>1, <3>1, QuietSound
  <2>6. ActorSound(a)'
    <3>1. snap'[a] = Read
      BY <1>0, <2>1 DEF TypeOK
    <3>2. /\ snap'[a].step = step /\ snap'[a].status = status
          /\ snap'[a].results = results /\ snap'[a].waitingFor = waitingFor
      BY <3>1 DEF Read
    <3>3. \A j \in 1..(step - 1) : Done(j)'
      <4>1. ASSUME NEW j \in 1..(step - 1) PROVE j \in Steps
        BY <1>0, <4>1 DEF TypeOK, Steps, Finished, WorkflowAssumption
      <4> QED
        BY <1>0, <1>2, <4>1 DEF RowSound
    <3>4. step = Finished => pc'[a] = "complete"
      BY <1>0, <2>1 DEF TypeOK
    <3>5. step # Finished => pc'[a] = "look" /\ step \in Steps
      BY <1>0, <2>1 DEF TypeOK, Steps, Finished, WorkflowAssumption
    <3>6. waitingFor = 0 /\ results = ExecutedSteps'
      BY <1>0, <1>2 DEF RowSound
    <3> QED
      BY <1>5, <3>2, <3>3, <3>4, <3>5, <3>6 DEF ActorSound, Working
  <2> QED
    BY <1>2, <1>3, <2>4, <2>5, <2>6 DEF WorkflowInv
<1> QED
  BY <1>4, <1>5

\* Looking at the last attempt: what the actor does next is what its step needs.
LEMMA LookStep ==
  ASSUME WorkflowAssumption, WorkflowInv, NEW a \in Actors, Look(a)
  PROVE  WorkflowInv'
<1> DEFINE i == snap[a].step
           n == LastAttempt(i)
<1>0. TypeOK /\ AttemptsSound /\ RowSound /\ Numbered /\ \A b \in Actors : ActorSound(b)
  BY DEF WorkflowInv, AttemptsSound
<1>1. UNCHANGED <<row, attempts, signals, faults, snap, sig>>
  BY DEF Look
<1>2. AttemptsSound' /\ (\A j \in Steps : Done(j) <=> Done(j)') /\ ExecutedSteps' = ExecutedSteps
  BY <1>0, <1>1, QuietAttempts
<1>3. RowSound'
  BY <1>0, <1>1, QuietRow DEF row
<1>4. /\ pc[a] = "look" /\ i \in Steps /\ snap[a].waitingFor = 0
      /\ snap[a].status \notin Terminal
      /\ \A j \in 1..(i - 1) : Done(j)
      /\ ~Done(i) => snap[a].results = ExecutedSteps
  BY <1>0 DEF Look, ActorSound, Working
<1>5. n \in 0..MaxAttempts /\ Made(i) = 1..n
  BY <1>0, <1>4, LastIsLast
<1>6. /\ pc' = [pc EXCEPT ![a] = NextMove(i, n)]
      /\ num' = [num EXCEPT ![a] = IF NextMove(i, n) = "run" THEN n + 1 ELSE 0]
  BY DEF Look
<1> HIDE DEF n
<1>7. NextMove(i, n) \in {"replay", "exhausted", "run"}
  BY DEF NextMove
<1>8. NextMove(i, n) = "replay" => Done(i)
  <2>1. <<i, n>> \in executed => n \in Numbers
    BY <1>0 DEF TypeOK, Attempts, Numbers
  <2> QED
    BY <2>1 DEF NextMove, Done
<1>9. NextMove(i, n) = "exhausted" => Stuck(i)
  <2> SUFFICES ASSUME <<i, n>> \in failed, ~ShouldRetry(n, <<i, n>> \in permanent) PROVE Stuck(i)
    BY DEF NextMove
  <2>1. n \in Numbers
    BY <1>0 DEF TypeOK, Attempts, Numbers
  <2>2. CASE <<i, n>> \in permanent
    BY <2>1, <2>2 DEF Stuck
  <2>3. CASE ~(n < MaxAttempts)
    <3>1. n = MaxAttempts
      BY <1>5, <2>3 DEF WorkflowAssumption
    <3> QED
      BY <3>1 DEF Stuck
  <2> QED
    BY <2>2, <2>3 DEF ShouldRetry
<1>10. ASSUME NextMove(i, n) = "run"
       PROVE  n + 1 \in Numbers /\ \A m \in 1..n : <<i, m>> \in failed \ permanent
  <2>1. <<i, n>> \notin executed
    BY <1>10 DEF NextMove
  <2>2. <<i, n>> \in failed => n < MaxAttempts /\ <<i, n>> \notin permanent
    BY <1>10, <2>1 DEF NextMove, ShouldRetry
  <2>3. CASE n = 0
    BY <2>3 DEF Numbers, WorkflowAssumption
  <2>4. CASE n # 0
    <3>1. n \in Numbers /\ n \in Made(i)
      BY <1>5, <2>4 DEF Numbers, WorkflowAssumption
    <3>2. <<i, n>> \in failed
      BY <2>1, <3>1 DEF Made
    <3>3. \A m \in Numbers : m < n => <<i, m>> \in failed \ permanent
      BY <1>0, <1>4, <3>1, <3>2 DEF Numbered
    <3>4. n + 1 \in Numbers
      BY <2>2, <3>1, <3>2 DEF Numbers, WorkflowAssumption
    <3>5. ASSUME NEW m \in 1..n PROVE <<i, m>> \in failed \ permanent
      <4>1. m \in Numbers /\ (m < n \/ m = n)
        BY <3>1, <3>5 DEF Numbers, WorkflowAssumption
      <4> QED
        BY <2>2, <3>2, <3>3, <4>1
    <3> QED
      BY <3>4, <3>5
  <2> QED
    BY <2>3, <2>4
<1>11. TypeOK'
  <2>1. (IF NextMove(i, n) = "run" THEN n + 1 ELSE 0) \in 0..MaxAttempts
    BY <1>10 DEF Numbers, WorkflowAssumption
  <2>2. pc' \in [Actors -> Points] /\ num' \in [Actors -> 0..MaxAttempts]
    BY <1>0, <1>6, <1>7, <2>1 DEF TypeOK, Points
  <2> QED
    BY <1>0, <1>1, <2>2 DEF TypeOK, row, attempts, signals
<1>12. ASSUME NEW b \in Actors, b # a PROVE ActorSound(b)'
  <2>1. pc'[b] = pc[b] /\ snap'[b] = snap[b] /\ num'[b] = num[b] /\ sig'[b] = sig[b]
    BY <1>0, <1>1, <1>6, <1>12 DEF TypeOK
  <2> QED
    BY <1>0, <1>1, <2>1, QuietSound
<1>13. ActorSound(a)'
  <2>1. /\ pc'[a] = NextMove(i, n) /\ snap'[a] = snap[a]
        /\ NextMove(i, n) = "run" => num'[a] = n + 1
    BY <1>0, <1>1, <1>6 DEF TypeOK
  <2>2. \A j \in 1..(i - 1) : Done(j)'
    BY <1>1, <1>4 DEF Done, attempts
  <2>3. (Done(i) => Done(i)') /\ (Stuck(i) => Stuck(i)') /\ (~Done(i)' => ~Done(i))
    BY <1>1 DEF Done, Stuck, attempts
  <2>4. NextMove(i, n) = "run" =>
           /\ num'[a] \in Numbers
           /\ \A m \in 1..(num'[a] - 1) : <<i, m>> \in failed' \ permanent'
    <3> SUFFICES ASSUME NextMove(i, n) = "run"
                 PROVE  /\ num'[a] \in Numbers
                        /\ \A m \in 1..(num'[a] - 1) : <<i, m>> \in failed' \ permanent'
      OBVIOUS
    <3>1. num'[a] = n + 1 /\ (n + 1) - 1 = n
      BY <1>5, <2>1
    <3> QED
      BY <1>1, <1>10, <3>1 DEF attempts
  <2>5. i = snap'[a].step
    BY <2>1
  <2>6. /\ snap'[a].waitingFor = 0 /\ snap'[a].status \notin Terminal
        /\ snap'[a].step \in Steps
        /\ \A j \in 1..(snap'[a].step - 1) : Done(j)'
    BY <1>4, <2>1, <2>2, <2>5
  <2>7. CASE NextMove(i, n) = "replay"
    <3>1. Done(snap[a].step)' /\ pc'[a] = "replay"
      BY <1>8, <2>1, <2>3, <2>5, <2>7
    <3> QED
      BY <2>6, <3>1 DEF ActorSound, Working
  <2>8. CASE NextMove(i, n) = "exhausted"
    <3>1. Stuck(snap[a].step)' /\ pc'[a] = "exhausted"
      BY <1>9, <2>1, <2>3, <2>5, <2>8
    <3> QED
      BY <2>6, <3>1 DEF ActorSound, Working
  <2>9. CASE NextMove(i, n) = "run"
    <3>1. pc'[a] = "run" /\ num'[a] \in Numbers
      BY <2>1, <2>4, <2>9
    <3>2. \A m \in 1..(num'[a] - 1) : <<snap'[a].step, m>> \in failed' \ permanent'
      BY <2>4, <2>5, <2>9
    <3>3. ~Done(snap[a].step)' => snap'[a].results = ExecutedSteps'
      BY <1>2, <1>4, <2>1, <2>3, <2>5
    <3> QED
      BY <2>6, <3>1, <3>2, <3>3 DEF ActorSound, Working
  <2> QED
    BY <1>7, <2>7, <2>8, <2>9
<1> QED
  BY <1>2, <1>3, <1>11, <1>12, <1>13 DEF WorkflowInv

\* Moving on from an executed step.
LEMMA ReplayStep ==
  ASSUME WorkflowAssumption, WorkflowInv, NEW a \in Actors, Replay(a)
  PROVE  WorkflowInv'
<1>0. TypeOK /\ AttemptsSound /\ RowSound /\ ActorSound(a)
  BY DEF WorkflowInv
<1>1. Leave(a, "load") /\ UNCHANGED attempts
  BY DEF Replay, attempts
<1>2. AttemptsSound' /\ (\A j \in Steps : Done(j) <=> Done(j)') /\ ExecutedSteps' = ExecutedSteps
  BY <1>0, <1>1, QuietAttempts
<1>3. /\ snap[a].step \in Steps /\ Done(snap[a].step)
      /\ \A j \in 1..(snap[a].step - 1) : Done(j)
  BY <1>0 DEF Replay, ActorSound, Working
<1>4. step' \in 1..Finished /\ \A j \in 1..(step' - 1) : Done(j)'
  <2>1. step' = snap[a].step + 1 /\ (snap[a].step + 1) - 1 = snap[a].step
    BY <1>3 DEF Replay, Steps, WorkflowAssumption
  <2>2. step' \in 1..Finished
    BY <1>3, <2>1 DEF Steps, Finished, WorkflowAssumption
  <2>3. ASSUME NEW j \in 1..snap[a].step PROVE Done(j)'
    <3>1. j \in Steps /\ (j = snap[a].step \/ j \in 1..(snap[a].step - 1))
      BY <1>3, <2>3 DEF Steps, WorkflowAssumption
    <3> QED
      BY <1>2, <1>3, <3>1
  <2> QED
    BY <2>1, <2>2, <2>3
<1>5. RowSound'
  <2>1. UNCHANGED <<status, results, waitingFor>>
    BY DEF Replay
  <2>2. status' = "failed" => \E i \in Steps : Stuck(i)'
    BY <1>0, <1>1, <2>1 DEF RowSound, Stuck, attempts
  <2> QED
    BY <1>0, <1>2, <1>4, <2>1, <2>2 DEF RowSound
<1>6. \A b \in Actors : ActorSound(b)'
  BY <1>1, LeaveSound
<1>7. TypeOK'
  <2>1. ActorsTyped'
    BY <1>0, <1>1, ActorTypes DEF Points
  <2> QED
    BY <1>0, <1>4, <2>1 DEF TypeOK, ActorsTyped, Replay, attempts, signals
<1> QED
  BY <1>2, <1>5, <1>6, <1>7 DEF WorkflowInv

\* Ending the instance, failed or completed, from what an old row says.
LEMMA EndStep ==
  ASSUME WorkflowAssumption, WorkflowInv, NEW a \in Actors, Exhausted(a) \/ Complete(a)
  PROVE  WorkflowInv'
<1>0. TypeOK /\ AttemptsSound /\ RowSound /\ ActorSound(a)
  BY DEF WorkflowInv
<1>1. /\ Leave(a, "idle") /\ ReleaseLease(a)
      /\ UNCHANGED <<attempts, step, wake, results, waitingFor, signals, faults>>
  BY DEF Exhausted, Complete
<1>2. AttemptsSound' /\ (\A j \in Steps : Done(j) <=> Done(j)') /\ ExecutedSteps' = ExecutedSteps
  BY <1>0, <1>1, QuietAttempts
<1>3. snap[a].status \notin Terminal
  BY <1>0 DEF Exhausted, Complete, ActorSound, Working
<1>4. /\ status' \in Statuses
      /\ status' = "completed" => \A i \in Steps : Done(i)'
      /\ status' = "failed" => \E i \in Steps : Stuck(i)'
  <2>1. CASE Exhausted(a)
    <3>1. status' = "failed"
      BY <1>3, <2>1 DEF Exhausted, SetStatus, Written, Terminal
    <3>2. snap[a].step \in Steps /\ Stuck(snap[a].step)
      BY <1>0, <2>1 DEF Exhausted, ActorSound, Working
    <3>3. \E i \in Steps : Stuck(i)'
      BY <1>1, <3>2 DEF Stuck, attempts
    <3> QED
      BY <3>1, <3>3 DEF Statuses
  <2>2. CASE Complete(a)
    <3>1. status' = "completed"
      BY <1>3, <2>2 DEF Complete, SetStatus, Written, Terminal
    <3>2. \A j \in 1..(Finished - 1) : Done(j)
      BY <1>0, <2>2 DEF Complete, ActorSound, Working
    <3>3. Finished - 1 = StepCount
      BY DEF Finished, WorkflowAssumption
    <3>4. \A i \in Steps : Done(i)'
      BY <1>2, <3>2, <3>3 DEF Steps
    <3> QED
      BY <3>1, <3>4 DEF Statuses
  <2> QED
    BY <2>1, <2>2
<1>5. RowSound'
  <2>1. step \in 1..Finished
    BY <1>0 DEF TypeOK
  <2>2. \A j \in 1..(step - 1) : j \in Steps
    BY <2>1 DEF Steps, Finished, WorkflowAssumption
  <2> QED
    BY <1>0, <1>1, <1>2, <1>4, <2>2 DEF RowSound
<1>6. \A b \in Actors : ActorSound(b)'
  BY <1>1, LeaveSound
<1>7. TypeOK'
  <2>1. ActorsTyped'
    BY <1>0, <1>1, ActorTypes DEF Points
  <2>2. lease' \in Leases
    BY <1>0, <1>1 DEF TypeOK, ReleaseLease, Written, Leases
  <2> QED
    BY <1>0, <1>1, <1>4, <2>1, <2>2 DEF TypeOK, ActorsTyped, attempts, signals
<1> QED
  BY <1>2, <1>5, <1>6, <1>7 DEF WorkflowInv

\* Signals change no row that does not wait.
LEMMA SignalStep ==
  ASSUME WorkflowAssumption, WorkflowInv, NEW d \in Actors,
         (\E s \in Signals : Send(d, s)) \/ StoreSignal(d)
  PROVE  WorkflowInv'
<1>0. TypeOK /\ AttemptsSound /\ RowSound /\ \A b \in Actors : ActorSound(b)
  BY DEF WorkflowInv
<1>1. UNCHANGED <<row, attempts, faults, delivered>>
  <2>1. ASSUME NEW s \in Signals, Send(d, s) PROVE UNCHANGED <<row, attempts, faults, delivered>>
    BY <2>1 DEF Send, signals
  <2>2. ASSUME StoreSignal(d) PROVE UNCHANGED <<row, attempts, faults, delivered>>
    <3>1. ~Wakes(d)
      BY <1>0 DEF Wakes, ActorSound
    <3> QED
      BY <2>2, <3>1 DEF StoreSignal, row
  <2> QED
    BY <2>1, <2>2
<1>2. AttemptsSound' /\ RowSound'
  BY <1>0, <1>1, QuietAttempts, QuietRow DEF row
<1>3. ASSUME NEW s \in Signals, Send(d, s) PROVE WorkflowInv'
  <2>1. /\ pc' = [pc EXCEPT ![d] = "send"]
        /\ snap' = [snap EXCEPT ![d] = Read]
        /\ sig' = [sig EXCEPT ![d] = s]
        /\ UNCHANGED <<num, stored>>
    BY <1>3 DEF Send, signals
  <2>2. Read \in Snapshot
    BY <1>0 DEF TypeOK, Read, Snapshot
  <2>3. ActorsTyped'
    BY <1>0, <2>1, <2>2 DEF TypeOK, ActorsTyped, Points
  <2>4. TypeOK'
    BY <1>0, <1>1, <2>1, <2>3 DEF TypeOK, ActorsTyped, row, attempts
  <2>5. ASSUME NEW b \in Actors PROVE ActorSound(b)'
    <3>1. CASE b = d
      <4>1. pc'[b] = "send" /\ sig'[b] \in Signals /\ snap'[b].waitingFor = 0
        BY <1>0, <2>1, <3>1 DEF TypeOK, Read, RowSound
      <4> QED
        BY <4>1, OutsideSound
    <3>2. CASE b # d
      BY <1>0, <1>1, <2>1, <3>2, QuietSound DEF TypeOK
    <3> QED
      BY <3>1, <3>2
  <2> QED
    BY <1>2, <2>4, <2>5 DEF WorkflowInv
<1>4. ASSUME StoreSignal(d) PROVE WorkflowInv'
  <2>1. Leave(d, "idle")
    BY <1>4 DEF StoreSignal
  <2>2. ActorsTyped'
    BY <1>0, <2>1, ActorTypes DEF Points
  <2>3. stored' = stored \/ stored' = stored \cup {sig[d]}
    BY <1>4 DEF StoreSignal
  <2>4. sig[d] \in Signals
    BY <1>0, <1>4 DEF StoreSignal, ActorSound
  <2>5. TypeOK'
    BY <1>0, <1>1, <2>2, <2>3, <2>4 DEF TypeOK, ActorsTyped, row, attempts
  <2>6. \A b \in Actors : ActorSound(b)'
    BY <1>1, <2>1, LeaveSound
  <2> QED
    BY <1>2, <2>5, <2>6 DEF WorkflowInv
<1> QED
  BY <1>3, <1>4

-----------------------------------------------------------------------------
(* The commit of an attempt.                                               *)

\* A new attempt is numbered after those of its step, and comes after the steps in front.
LEMMA AttemptCommitted ==
  ASSUME WorkflowAssumption, WorkflowInv, NEW a \in Actors, pc[a] = "run", ~Taken(a),
         \/ executed' = executed \cup {Mine(a)} /\ UNCHANGED <<failed, permanent>>
         \/ /\ failed' = failed \cup {Mine(a)} /\ UNCHANGED executed
            /\ permanent' = permanent \/ permanent' = permanent \cup {Mine(a)}
  PROVE  AttemptsSound'
<1> DEFINE i == snap[a].step
           n == num[a]
<1>1. /\ i \in Steps /\ n \in Numbers
      /\ Made(i) = 1..(n - 1) /\ \A j \in Steps : j < i <=> Done(j)
      /\ \A m \in 1..(n - 1) : <<i, m>> \in failed \ permanent
  <2>1. \A m \in 1..(n - 1) : <<i, m>> \in failed \ permanent
    BY DEF WorkflowInv, ActorSound
  <2> QED
    BY <2>1, NewAttempt
<1>2. Mine(a) = <<i, n>> /\ <<i, n>> \notin executed \cup failed
  BY DEF Mine, Taken
<1>3. Numbered /\ Ordered /\ TypeOK
  BY DEF WorkflowInv, AttemptsSound
<1> HIDE DEF i, n
<1>4. /\ executed' \cup failed' = executed \cup failed \cup {<<i, n>>}
      /\ executed' \cap failed' = {}
      /\ failed \ permanent \subseteq failed' \ permanent'
  BY <1>2, <1>3 DEF Numbered
<1>5. \A j \in Steps : Done(j) => Done(j)'
  BY DEF Done
<1>6. Numbered'
  <2>1. ASSUME NEW j \in Steps, NEW k \in Numbers, NEW m \in Numbers,
               <<j, k>> \in executed' \cup failed', m < k
        PROVE  <<j, m>> \in failed' \ permanent'
    <3>1. CASE <<j, k>> \in executed \cup failed
      BY <1>3, <1>4, <2>1, <3>1 DEF Numbered
    <3>2. CASE <<j, k>> = <<i, n>>
      <4>1. j = i /\ m \in 1..(n - 1)
        BY <1>1, <2>1, <3>2 DEF Numbers, WorkflowAssumption
      <4> QED
        BY <1>1, <1>4, <4>1
    <3> QED
      BY <1>4, <2>1, <3>1, <3>2
  <2>2. ASSUME NEW j \in Steps PROVE \E k \in 0..MaxAttempts : Made(j)' = 1..k
    <3>1. CASE j = i
      <4>1. Made(j)' = Made(i) \cup {n}
        BY <1>1, <1>4, <3>1 DEF Made, Numbers
      <4>2. 1..(n - 1) \cup {n} = 1..n
        BY <1>1 DEF Numbers, WorkflowAssumption
      <4>3. n \in 0..MaxAttempts
        BY <1>1 DEF Numbers, WorkflowAssumption
      <4> QED
        BY <1>1, <4>1, <4>2, <4>3
    <3>2. CASE j # i
      <4>1. Made(j)' = Made(j)
        BY <1>4, <3>2 DEF Made
      <4> QED
        BY <1>3, <4>1 DEF Numbered
    <3> QED
      BY <3>1, <3>2
  <2> QED
    BY <1>4, <2>1, <2>2 DEF Numbered
<1>7. Ordered'
  <2> SUFFICES ASSUME NEW j \in Steps, NEW k \in Numbers, <<j, k>> \in executed' \cup failed',
                      NEW q \in 1..(j - 1)
               PROVE  Done(q)'
    BY DEF Ordered
  <2>1. q \in Steps /\ q < j
    BY DEF Steps, WorkflowAssumption
  <2>2. CASE <<j, k>> \in executed \cup failed
    BY <1>3, <1>5, <2>1, <2>2 DEF Ordered
  <2>3. CASE <<j, k>> = <<i, n>>
    BY <1>1, <1>5, <2>1, <2>3
  <2> QED
    BY <1>4, <2>2, <2>3
<1> QED
  BY <1>6, <1>7 DEF AttemptsSound

\* A handler's success: the actor that read an old row can only lose, and the others
\* that read it before this commit run a step that is executed now.
LEMMA SucceedStep ==
  ASSUME WorkflowAssumption, WorkflowInv, NEW a \in Actors, Succeed(a)
  PROVE  WorkflowInv'
<1> DEFINE i == snap[a].step
           n == num[a]
<1>0. TypeOK /\ AttemptsSound /\ RowSound /\ \A b \in Actors : ActorSound(b)
  BY DEF WorkflowInv
<1>1. /\ pc[a] = "run" /\ ~Taken(a)
      /\ executed' = executed \cup {<<i, n>>}
      /\ results' = snap[a].results \cup {i} /\ waitingFor' = snap[a].waitingFor
      /\ step' = i + 1 /\ wake' = "now" /\ Leave(a, "load")
      /\ UNCHANGED <<status, lease, failed, permanent, signals, faults>>
  BY DEF Succeed, Running, Mine
<1>2. /\ i \in Steps /\ n \in Numbers /\ ~Done(i)
      /\ \A j \in Steps : j < i <=> Done(j)
      /\ status \notin Terminal
  BY <1>1, NewAttempt
<1>3. AttemptsSound'
  BY <1>1, AttemptCommitted DEF Mine
<1>4. snap[a].waitingFor = 0 /\ snap[a].results = ExecutedSteps
  BY <1>0, <1>1, <1>2 DEF ActorSound
<1>5. \A b \in Actors \ {a} : /\ pc'[b] = pc[b] /\ snap'[b] = snap[b]
                              /\ num'[b] = num[b] /\ sig'[b] = sig[b]
  BY <1>0, <1>1 DEF Leave, TypeOK
<1>6. pc'[a] = "load" /\ snap'[a] = NoSnapshot
  BY <1>0, <1>1 DEF Leave, TypeOK
<1>7. TypeOK'
  <2>1. ActorsTyped'
    BY <1>0, <1>1, ActorTypes DEF Points
  <2>2. step' \in 1..Finished /\ results' \subseteq Steps /\ waitingFor' \in 0..StepCount
    BY <1>0, <1>1, <1>2, <1>4 DEF TypeOK, Steps, Finished, ExecutedSteps, WorkflowAssumption
  <2>3. executed' \subseteq Attempts
    BY <1>0, <1>1, <1>2 DEF TypeOK, Attempts, Numbers
  <2> QED
    BY <1>0, <1>1, <2>1, <2>2, <2>3 DEF TypeOK, ActorsTyped, signals
<1> HIDE DEF i, n
<1>8. \A j \in Steps : Done(j)' <=> Done(j) \/ j = i
  BY <1>1, <1>2 DEF Done
<1>9. ExecutedSteps' = ExecutedSteps \cup {i}
  BY <1>2, <1>8 DEF ExecutedSteps, Done, Numbers
<1>10. RowSound'
  <2>1. ASSUME NEW j \in 1..(step' - 1) PROVE Done(j)'
    <3>1. j \in Steps /\ (j < i \/ j = i)
      BY <1>1, <1>2, <2>1 DEF Steps, WorkflowAssumption
    <3> QED
      BY <1>2, <1>8, <3>1
  <2>2. results' = ExecutedSteps' /\ waitingFor' = 0
    BY <1>1, <1>4, <1>9
  <2>3. status' \notin Terminal
    BY <1>1, <1>2
  <2> QED
    BY <2>1, <2>2, <2>3 DEF RowSound, Terminal
<1>11. ASSUME NEW b \in Actors, b # a PROVE ActorSound(b)'
  <2> DEFINE s == snap[b].step
  <2>1. /\ pc'[b] = pc[b] /\ snap'[b] = snap[b]
        /\ num'[b] = num[b] /\ sig'[b] = sig[b]
    BY <1>5, <1>11
  <2>2. ActorSound(b)
    BY <1>0
  <2>3. \A j : Done(j) => Done(j)'
    BY <1>1 DEF Done
  <2>4. \A j : Stuck(j)' <=> Stuck(j)
    BY <1>1 DEF Stuck
  <2>5. ASSUME pc[b] \in {"look", "run"}, ~Done(s)' PROVE FALSE
    <3>1. s \in Steps /\ (\A j \in 1..(s - 1) : Done(j))
      BY <2>2, <2>5 DEF ActorSound, Working
    <3>2. ~Done(s) /\ s # i
      BY <1>8, <2>1, <2>3, <2>5, <3>1
    <3>3. i < s
      BY <1>2, <3>1, <3>2 DEF Steps, WorkflowAssumption
    <3>4. i \in 1..(s - 1)
      BY <1>2, <3>1, <3>3 DEF Steps, WorkflowAssumption
    <3> QED
      BY <1>2, <3>1, <3>4
  <2>6. /\ failed' = failed /\ permanent' = permanent
    BY <1>1
  <2> QED
    BY <2>1, <2>2, <2>3, <2>4, <2>5, <2>6 DEF ActorSound, Working
<1>12. ActorSound(a)'
  BY <1>6, OutsideSound DEF NoSnapshot
<1> QED
  BY <1>3, <1>7, <1>10, <1>11, <1>12 DEF WorkflowInv

\* A handler's failure: retried later, or the instance fails by policy.
LEMMA FailedStep ==
  ASSUME WorkflowAssumption, WorkflowInv, NEW a \in Actors, NEW isPermanent \in BOOLEAN,
         Fail(a, isPermanent)
  PROVE  WorkflowInv'
<1> DEFINE i == snap[a].step
           n == num[a]
<1>0. TypeOK /\ AttemptsSound /\ RowSound /\ \A b \in Actors : ActorSound(b)
  BY DEF WorkflowInv
<1>1. /\ pc[a] = "run" /\ ~Taken(a)
      /\ failed' = failed \cup {<<i, n>>}
      /\ isPermanent => permanent' = permanent \cup {<<i, n>>}
      /\ ~isPermanent => permanent' = permanent
      /\ ReleaseLease(a) /\ Leave(a, "idle")
      /\ UNCHANGED <<step, results, waitingFor, executed, signals, faults>>
  BY DEF Fail, Running, Mine
<1>2. /\ i \in Steps /\ n \in Numbers /\ status \notin Terminal /\ <<i, n>> \notin failed
  BY <1>1, NewAttempt DEF Taken, Mine
<1>3. AttemptsSound'
  BY <1>1, AttemptCommitted DEF Mine
<1>4. \A b \in Actors \ {a} : /\ pc'[b] = pc[b] /\ snap'[b] = snap[b]
                              /\ num'[b] = num[b] /\ sig'[b] = sig[b]
  BY <1>0, <1>1 DEF Leave, TypeOK
<1>5. pc'[a] = "idle" /\ snap'[a] = NoSnapshot
  BY <1>0, <1>1 DEF Leave, TypeOK
<1>6. \/ status' = status /\ wake' = "later"
      \/ status' = "failed" /\ wake' = wake /\ (isPermanent \/ n = MaxAttempts)
  <2>1. CASE ShouldRetry(n, isPermanent)
    BY <2>1 DEF Fail
  <2>2. CASE ~ShouldRetry(n, isPermanent)
    <3>1. isPermanent \/ n = MaxAttempts
      BY <1>2, <2>2 DEF ShouldRetry, Numbers, WorkflowAssumption
    <3>2. snap[a].status \notin Terminal
      BY <1>0, <1>1 DEF ActorSound, Working
    <3>3. SetStatus(a, "failed") /\ UNCHANGED wake
      BY <2>2 DEF Fail
    <3> QED
      BY <3>1, <3>2, <3>3 DEF SetStatus, Written, Terminal
  <2> QED
    BY <2>1, <2>2
<1>7. TypeOK'
  <2>1. ActorsTyped'
    BY <1>0, <1>1, ActorTypes DEF Points
  <2>2. failed' \subseteq Attempts /\ permanent' \subseteq failed'
    BY <1>0, <1>1, <1>2 DEF TypeOK, Attempts, Numbers
  <2>3. status' \in Statuses \cup {"absent"} /\ wake' \in {"none", "now", "later"}
    BY <1>0, <1>6 DEF TypeOK, Statuses
  <2>4. lease' \in Leases
    BY <1>0, <1>1 DEF TypeOK, ReleaseLease, Written, Leases
  <2> QED
    BY <1>0, <1>1, <2>1, <2>2, <2>3, <2>4 DEF TypeOK, ActorsTyped, signals
<1> HIDE DEF i, n
<1>8. (\A j : Done(j)' <=> Done(j)) /\ ExecutedSteps' = ExecutedSteps
  BY <1>1 DEF Done, ExecutedSteps
<1>9. \A j : Stuck(j) => Stuck(j)'
  BY <1>1 DEF Stuck
<1>10. RowSound'
  <2>1. status' = "failed" => \E j \in Steps : Stuck(j)'
    BY <1>1, <1>2, <1>6 DEF Stuck, Terminal
  <2>2. status' # "completed"
    BY <1>2, <1>6 DEF Terminal
  <2>3. /\ \A j \in 1..(step' - 1) : Done(j)'
        /\ results' = ExecutedSteps' /\ waitingFor' = 0
    BY <1>0, <1>1, <1>8 DEF RowSound
  <2> QED
    BY <2>1, <2>2, <2>3 DEF RowSound
<1>11. ASSUME NEW b \in Actors, b # a PROVE ActorSound(b)'
  <2>1. /\ pc'[b] = pc[b] /\ snap'[b] = snap[b]
        /\ num'[b] = num[b] /\ sig'[b] = sig[b]
    BY <1>4, <1>11
  <2>2. ActorSound(b)
    BY <1>0
  <2>3. \A p : p \in failed \ permanent => p \in failed' \ permanent'
    BY <1>1, <1>2
  <2> QED
    BY <1>8, <1>9, <2>1, <2>2, <2>3 DEF ActorSound, Working
<1>12. ActorSound(a)'
  BY <1>5, OutsideSound DEF NoSnapshot
<1> QED
  BY <1>3, <1>7, <1>10, <1>11, <1>12 DEF WorkflowInv

-----------------------------------------------------------------------------
(* The invariant and what follows from it.                                 *)

\* Nothing has happened.
LEMMA WorkflowInit == WorkflowAssumption /\ Init => WorkflowInv
<1> SUFFICES ASSUME WorkflowAssumption, Init PROVE WorkflowInv
  OBVIOUS
<1>1. TypeOK
  <2>1. 1 \in 1..Finished /\ 0 \in 0..StepCount /\ 0 \in 0..MaxAttempts /\ 0 \in 0..MaxFaults
    BY DEF WorkflowAssumption, Finished
  <2> QED
    BY <2>1, NoSnapshotTyped DEF Init, TypeOK, Leases, Points
<1>2. AttemptsSound
  <2>1. \A i \in Steps : Made(i) = 1..0
    BY DEF Init, Made
  <2>2. 0 \in 0..MaxAttempts
    BY DEF WorkflowAssumption
  <2> QED
    BY <2>1, <2>2 DEF Init, AttemptsSound, Numbered, Ordered
<1>3. RowSound
  <2>1. 1..(step - 1) = {}
    BY DEF Init
  <2> QED
    BY <2>1 DEF Init, RowSound, ExecutedSteps
<1>4. \A a \in Actors : ActorSound(a)
  BY DEF Init, ActorSound, Working, NoSnapshot
<1> QED
  BY <1>1, <1>2, <1>3, <1>4 DEF WorkflowInv

\* Every action of the runner, of whoever advances, keeps the invariant.
LEMMA AdvanceStep ==
  ASSUME WorkflowAssumption, NothingWaits, WorkflowInv, NEW a \in Advancers, Advance(a)
  PROVE  WorkflowInv'
<1>0. a \in Actors /\ ActorSound(a)
  BY DEF Actors, WorkflowInv
<1>1. ASSUME Load(a) PROVE WorkflowInv'
  BY <1>0, <1>1, LoadStep
<1>2. ASSUME Look(a) PROVE WorkflowInv'
  BY <1>0, <1>2, LookStep
<1>3. ASSUME Replay(a) PROVE WorkflowInv'
  BY <1>0, <1>3, ReplayStep
<1>4. ASSUME Exhausted(a) \/ Complete(a) PROVE WorkflowInv'
  BY <1>0, <1>4, EndStep
<1>5. ASSUME Conflict(a) PROVE WorkflowInv'
  BY <1>5, OutsideStep
<1>6. ASSUME Succeed(a) PROVE WorkflowInv'
  BY <1>0, <1>6, SucceedStep
<1>7. ASSUME NEW isPermanent \in BOOLEAN, Fail(a, isPermanent) PROVE WorkflowInv'
  BY <1>0, <1>7, FailedStep
<1>8. ~LookForSignal(a)
  BY <1>0 DEF NothingWaits, LookForSignal, Running, ActorSound, Working
<1>9. ~ConsumeStored(a) /\ ~EnterWaiting(a)
  BY <1>0 DEF ConsumeStored, EnterWaiting, ActorSound
<1> QED
  BY <1>1, <1>2, <1>3, <1>4, <1>5, <1>6, <1>7, <1>8, <1>9 DEF Advance

\* Every step of the system keeps the invariant.
LEMMA WorkflowStep ==
  ASSUME WorkflowAssumption, NothingWaits PROVE WorkflowInv /\ [Next]_vars => WorkflowInv'
<1> SUFFICES ASSUME WorkflowInv, [Next]_vars PROVE WorkflowInv'
  OBVIOUS
<1>1. ASSUME NEW a \in Advancers, Advance(a) PROVE WorkflowInv'
  BY <1>1, AdvanceStep
<1>2. ASSUME NEW d \in Senders, (\E s \in Signals : Send(d, s)) \/ StoreSignal(d)
      PROVE  WorkflowInv'
  BY <1>2, SignalStep DEF Actors
<1>3. ASSUME \/ \E c \in Callers \cup Starters : Start(c) \/ Insert(c)
             \/ \E r \in Runners : ClaimDue(r)
             \/ \E a \in Actors : Crash(a)
             \/ LeaseExpires
             \/ RetryDue
      PROVE  WorkflowInv'
  BY <1>3, OutsideStep
<1>4. ASSUME UNCHANGED vars PROVE WorkflowInv'
  <2>1. /\ UNCHANGED <<row, attempts, signals, actors, faults>>
        /\ TypeOK /\ AttemptsSound /\ RowSound /\ \A a \in Actors : ActorSound(a)
    BY <1>4 DEF vars, WorkflowInv
  <2>2. TypeOK'
    BY <2>1 DEF TypeOK, row, attempts, signals, actors
  <2>3. AttemptsSound' /\ RowSound'
    BY <2>1, QuietAttempts, QuietRow DEF row
  <2>4. \A a \in Actors : ActorSound(a)'
    BY <2>1, QuietSound DEF actors
  <2> QED
    BY <2>2, <2>3, <2>4 DEF WorkflowInv
<1> QED
  BY <1>1, <1>2, <1>3, <1>4 DEF Next

\* The row, its attempts and what every actor believes of them fit together at all times,
\* however many loops, requests and crashes there are.
THEOREM WorkflowCorrect == NothingWaits => (Spec => []WorkflowInv)
<1> SUFFICES ASSUME NothingWaits PROVE Spec => []WorkflowInv
  OBVIOUS
<1>1. WorkflowInv /\ [Next]_vars => WorkflowInv'
  BY WorkflowStep, WorkflowAssumption
<1>2. Init => WorkflowInv
  BY WorkflowInit, WorkflowAssumption
<1> QED
  BY <1>1, <1>2, PTL DEF Spec

\* Two actors that advance the same instance never both commit a step.
THEOREM StepExecutedOnce == NothingWaits => (Spec => []ExecutedOnce)
<1> SUFFICES ASSUME NothingWaits PROVE Spec => []ExecutedOnce
  OBVIOUS
<1>1. WorkflowInv => ExecutedOnce
  <2> SUFFICES ASSUME WorkflowInv, NEW i \in Steps, NEW n \in Made(i)
               PROVE  /\ 1..n \subseteq Made(i)
                      /\ <<i, n>> \in executed => n = LastAttempt(i) /\ <<i, n>> \notin failed
    BY DEF ExecutedOnce
  <2>1. Numbered
    BY DEF WorkflowInv, AttemptsSound
  <2>2. LastAttempt(i) \in 0..MaxAttempts /\ Made(i) = 1..LastAttempt(i)
    BY <2>1, WorkflowAssumption, LastIsLast
  <2>3. 1..n \subseteq Made(i)
    BY <2>2
  <2>4. ASSUME <<i, n>> \in executed PROVE n = LastAttempt(i)
    <3> DEFINE k == LastAttempt(i)
    <3>1. n \in Numbers /\ k \in Numbers /\ k \in Made(i)
      BY <2>2, WorkflowAssumption DEF Numbers, Made, WorkflowAssumption
    <3>2. <<i, k>> \in executed \cup failed
      BY <3>1 DEF Made
    <3>3. n < k => <<i, n>> \in failed
      BY <2>1, <3>1, <3>2 DEF Numbered
    <3>4. ~(n < k)
      BY <2>1, <2>4, <3>3 DEF Numbered
    <3> HIDE DEF k
    <3>5. n <= k
      BY <2>2 DEF k
    <3>6. n = k
      BY <3>1, <3>4, <3>5 DEF Numbers, WorkflowAssumption
    <3> QED
      BY <3>6 DEF k
  <2>5. <<i, n>> \in executed => <<i, n>> \notin failed
    BY <2>1 DEF Numbered
  <2> QED
    BY <2>3, <2>4, <2>5
<1> QED
  BY <1>1, WorkflowCorrect, PTL

\* Blind writes of current_step from old rows never skip a step.
THEOREM NoStepSkipped == NothingWaits => (Spec => []StepsInOrder)
<1> SUFFICES ASSUME NothingWaits PROVE Spec => []StepsInOrder
  OBVIOUS
<1>1. WorkflowInv => StepsInOrder
  <2> SUFFICES ASSUME WorkflowInv PROVE StepsInOrder
    OBVIOUS
  <2>0. Ordered /\ RowSound
    BY DEF WorkflowInv, AttemptsSound
  <2>1. ASSUME NEW i \in Steps, Made(i) # {}, NEW j \in 1..(i - 1) PROVE j \in ExecutedSteps
    <3>1. PICK n \in Numbers : <<i, n>> \in executed \cup failed
      BY <2>1 DEF Made, Numbers
    <3>2. Done(j) /\ j \in Steps
      BY <2>0, <3>1, WorkflowAssumption DEF Ordered, Steps, WorkflowAssumption
    <3> QED
      BY <3>2 DEF ExecutedSteps, Done, Numbers
  <2>2. status = "completed" => ExecutedSteps = Steps
    BY <2>0 DEF RowSound, ExecutedSteps, Done, Numbers
  <2> QED
    BY <2>1, <2>2 DEF StepsInOrder
<1> QED
  BY <1>1, WorkflowCorrect, PTL

\* The state column, rewritten whole from what each actor read, loses no result.
THEOREM NoResultLost == NothingWaits => (Spec => []ResultsKept)
<1> SUFFICES ASSUME NothingWaits PROVE Spec => []ResultsKept
  OBVIOUS
<1>1. WorkflowInv => ResultsKept
  BY DEF WorkflowInv, RowSound, ResultsKept
<1> QED
  BY <1>1, WorkflowCorrect, PTL

\* An instance fails only when the last attempt of a step that was never executed was
\* permanent or the last the policy allows.
THEOREM FailsByPolicy == NothingWaits => (Spec => []FailedByPolicy)
<1> SUFFICES ASSUME NothingWaits PROVE Spec => []FailedByPolicy
  OBVIOUS
<1>1. WorkflowInv => FailedByPolicy
  <2> SUFFICES ASSUME WorkflowInv, NEW i \in Steps, Stuck(i)
               PROVE  /\ i \notin ExecutedSteps
                      /\ <<i, MaxAttempts>> \in failed \/ <<i, LastAttempt(i)>> \in permanent
    BY DEF WorkflowInv, RowSound, FailedByPolicy
  <2>1. Numbered /\ TypeOK
    BY DEF WorkflowInv, AttemptsSound
  <2>2. i \notin ExecutedSteps
    BY <2>1, WorkflowAssumption, StuckNotDone DEF ExecutedSteps, Done, Numbers
  <2>3. ASSUME NEW n \in Numbers, <<i, n>> \in permanent
        PROVE  <<i, LastAttempt(i)>> \in permanent
    <3> DEFINE k == LastAttempt(i)
    <3>1. k \in 0..MaxAttempts /\ Made(i) = 1..k
      BY <2>1, WorkflowAssumption, LastIsLast
    <3>2. n \in Made(i)
      BY <2>1, <2>3 DEF Made, Numbers, TypeOK
    <3> HIDE DEF k
    <3>3. k \in Numbers /\ k \in Made(i) /\ n <= k
      BY <3>1, <3>2, WorkflowAssumption DEF Numbers, WorkflowAssumption
    <3>4. <<i, k>> \in executed \cup failed
      BY <3>3 DEF Made
    <3>5. ~(n < k)
      BY <2>1, <2>3, <3>3, <3>4 DEF Numbered
    <3>6. n = k
      BY <3>3, <3>5, WorkflowAssumption DEF Numbers, WorkflowAssumption
    <3> QED
      BY <2>3, <3>6 DEF k
  <2> QED
    BY <2>2, <2>3 DEF Stuck
<1> QED
  BY <1>1, WorkflowCorrect, PTL

\* Once an instance has ended, nobody changes what it did.
THEOREM TerminalStays == NothingWaits => (Spec => TerminalIsFinal)
<1> SUFFICES ASSUME NothingWaits PROVE Spec => TerminalIsFinal
  OBVIOUS
<1>1. ASSUME WorkflowInv, [Next]_vars, status \in Terminal
      PROVE  UNCHANGED <<status, results, attempts>>
  <2>0. WorkflowAssumption /\ TypeOK /\ RowSound /\ Numbered /\ \A a \in Actors : ActorSound(a)
    BY <1>1, WorkflowAssumption DEF WorkflowInv, AttemptsSound
  <2>1. ASSUME NEW a \in Advancers, Advance(a) PROVE UNCHANGED <<status, results, attempts>>
    <3>0. a \in Actors
      BY DEF Actors
    <3>1. ~Succeed(a) /\ ~(\E isPermanent \in BOOLEAN : Fail(a, isPermanent))
      BY <1>1, <2>0, <3>0, NewAttempt DEF Succeed, Fail, Running
    <3>2. ~ConsumeStored(a) /\ ~EnterWaiting(a)
      BY <2>0, <3>0 DEF ConsumeStored, EnterWaiting, ActorSound
    <3>3. ASSUME Exhausted(a) PROVE UNCHANGED <<status, results, attempts>>
      <4>1. snap[a].step \in Steps /\ Stuck(snap[a].step) /\ snap[a].status \notin Terminal
        BY <2>0, <3>0, <3>3 DEF Exhausted, ActorSound, Working
      <4>2. ~Done(snap[a].step)
        BY <2>0, <4>1, StuckNotDone
      <4>3. status # "completed"
        BY <2>0, <4>1, <4>2 DEF RowSound
      <4> QED
        BY <1>1, <3>3, <4>1, <4>3 DEF Exhausted, SetStatus, Written, Terminal
    <3>4. ASSUME Complete(a) PROVE UNCHANGED <<status, results, attempts>>
      <4>1. /\ \A j \in 1..(Finished - 1) : Done(j)
            /\ snap[a].status \notin Terminal
        BY <2>0, <3>0, <3>4 DEF Complete, ActorSound, Working
      <4>2. Finished - 1 = StepCount
        BY <2>0 DEF Finished, WorkflowAssumption
      <4>3. \A j \in Steps : Done(j)
        BY <4>1, <4>2 DEF Steps
      <4>4. status # "failed"
        BY <2>0, <4>3, StuckNotDone DEF RowSound
      <4> QED
        BY <1>1, <3>4, <4>1, <4>4 DEF Complete, SetStatus, Written, Terminal
    <3> QED
      BY <2>1, <3>1, <3>2, <3>3, <3>4
         DEF Advance, Load, Look, Replay, Conflict, LookForSignal, row
  <2>2. ASSUME NEW d \in Senders, StoreSignal(d) PROVE UNCHANGED <<status, results, attempts>>
    <3>1. ~Wakes(d)
      BY <2>0 DEF Wakes, ActorSound, Actors
    <3> QED
      BY <2>2, <3>1 DEF StoreSignal, row
  <2>3. ASSUME \/ \E c \in Callers \cup Starters : Start(c) \/ Insert(c)
               \/ \E r \in Runners : ClaimDue(r)
               \/ \E d \in Senders : \E s \in Signals : Send(d, s)
               \/ \E a \in Actors : Crash(a)
               \/ LeaseExpires
               \/ RetryDue
        PROVE  UNCHANGED <<status, results, attempts>>
    BY <1>1, <2>3 DEF Start, Insert, ClaimDue, Send, Crash, LeaseExpires, RetryDue, row, Terminal
  <2>4. ASSUME UNCHANGED vars PROVE UNCHANGED <<status, results, attempts>>
    BY <2>4 DEF vars, row
  <2> QED
    BY <1>1, <2>1, <2>2, <2>3, <2>4 DEF Next
<1>2. WorkflowInv /\ [Next]_vars => [(status \in Terminal) =>
            UNCHANGED <<status, results, attempts>> ]_vars
  BY <1>1
<1> QED
  BY <1>2, WorkflowCorrect, PTL DEF Spec, TerminalIsFinal

\* What no actor can undo, with or without the lease, for every number of loops and
\* requests, steps and attempts (runner.py _step_once).
THEOREM WorkStandsAlways == NothingWaits => (Spec => WorkStands)
<1> SUFFICES ASSUME NothingWaits PROVE Spec => WorkStands
  OBVIOUS
<1>1. Spec => []ExecutedOnce /\ []StepsInOrder /\ []ResultsKept /\ TerminalIsFinal
  BY StepExecutedOnce, NoStepSkipped, NoResultLost, TerminalStays
<1>2. []ExecutedOnce /\ []StepsInOrder /\ []ResultsKept
          => [](ExecutedOnce /\ StepsInOrder /\ ResultsKept)
  BY PTL
<1> QED
  BY <1>1, <1>2 DEF WorkStands

-----------------------------------------------------------------------------
(* Workflows that wait.  Whatever the steps wait for, attempts have no gap  *)
(* and an actor knows the step, the number and the signal it works with.    *)

Gapless == \A i \in Steps : \E k \in 0..MaxAttempts : Made(i) = 1..k

AtAStep == {"look", "replay", "exhausted", "run", "wait"}
Shaped(a) ==
    /\ pc[a] \in AtAStep => snap[a].step \in Steps
    /\ pc[a] \in {"run", "wait"} =>
        num[a] \in Numbers /\ 1..(num[a] - 1) \subseteq Made(snap[a].step)
    /\ pc[a] = "wait" => \/ sig[a] = NoSignal /\ WaitsFor[snap[a].step] # {}
                         \/ sig[a] \in stored \cap WaitsFor[snap[a].step]
    /\ pc[a] = "send" => sig[a] \in Signals

ShapeInv == TypeOK /\ Gapless /\ \A a \in Actors : Shaped(a)

\* An actor the step does not touch, and one that is done with its transaction.
LEMMA ShapeKept ==
  ASSUME NEW b \in Actors, Shaped(b), stored \subseteq stored',
         \A i \in Steps : Made(i) \subseteq Made(i)',
         pc'[b] = pc[b], snap'[b] = snap[b], num'[b] = num[b], sig'[b] = sig[b]
  PROVE  Shaped(b)'
<1>1. pc[b] \in {"run", "wait"} => snap[b].step \in Steps
  BY DEF Shaped, AtAStep
<1>2. pc[b] \in {"run", "wait"} => 1..(num[b] - 1) \subseteq Made(snap[b].step)'
  BY <1>1 DEF Shaped
<1> QED
  BY <1>2 DEF Shaped, Made

LEMMA ShapeFree ==
  ASSUME NEW b \in Actors, pc'[b] \in {"idle", "insert", "load", "complete"}
  PROVE  Shaped(b)'
BY DEF Shaped, AtAStep

\* Ending a transaction or moving on, when no attempt is lost.
LEMMA ShapesKept ==
  ASSUME TypeOK, \A b \in Actors : Shaped(b), stored \subseteq stored',
         \A i \in Steps : Made(i) \subseteq Made(i)', NEW a \in Actors,
         NEW p \in {"idle", "insert", "load"}, Leave(a, p) \/ GoTo(a, p)
  PROVE  \A b \in Actors : Shaped(b)'
<1> SUFFICES ASSUME NEW b \in Actors PROVE Shaped(b)'
  OBVIOUS
<1>1. CASE b = a
  <2>1. pc'[b] = p
    BY <1>1 DEF TypeOK, Leave, GoTo
  <2> QED
    BY <2>1, ShapeFree
<1>2. CASE b # a
  <2>1. pc'[b] = pc[b] /\ snap'[b] = snap[b] /\ num'[b] = num[b] /\ sig'[b] = sig[b]
    BY <1>2 DEF TypeOK, Leave, GoTo
  <2> QED
    BY <2>1, ShapeKept
<1> QED
  BY <1>1, <1>2

\* Attempts that are not written.
LEMMA AttemptsKept ==
  ASSUME Gapless, UNCHANGED attempts
  PROVE  Gapless' /\ \A i \in Steps : Made(i)' = Made(i)
BY DEF Gapless, Made, attempts

\* One more attempt of a step, under a number that nobody took.
LEMMA AttemptAdded ==
  ASSUME WorkflowAssumption, TypeOK, Gapless, NEW a \in Actors, Shaped(a),
         pc[a] \in {"run", "wait"}, ~Taken(a),
         executed' \cup failed' = executed \cup failed \cup {Mine(a)}
  PROVE  /\ Gapless' /\ Mine(a) \in Attempts
         /\ \A i \in Steps : Made(i) \subseteq Made(i)'
         /\ \A i \in Steps : i # snap[a].step => Made(i)' = Made(i)
<1>0. PICK s \in Steps, n \in Numbers : s = snap[a].step /\ n = num[a]
  BY DEF Shaped, AtAStep
<1>1. s \in Steps /\ n \in Numbers /\ 1..(n - 1) \subseteq Made(s)
  BY <1>0 DEF Shaped
<1>2. <<s, n>> \notin executed \cup failed /\ Mine(a) = <<s, n>>
  BY <1>0 DEF Taken, Mine
<1>3. \A i \in Steps : Made(i)' = IF i = s THEN Made(i) \cup {n} ELSE Made(i)
  BY <1>1, <1>2 DEF Made, Numbers
<1>4. Made(s) = 1..(n - 1)
  <2>1. PICK k \in 0..MaxAttempts : Made(s) = 1..k
    BY <1>1 DEF Gapless
  <2>2. n \notin 1..k
    BY <1>2, <2>1 DEF Made
  <2>3. n \in Nat /\ n >= 1 /\ k \in Nat
    BY <1>1, <2>1 DEF Numbers, WorkflowAssumption
  <2>4. k < n
    BY <2>2, <2>3
  <2>5. n - 1 <= k
    <3>1. CASE n = 1
      BY <2>3, <3>1
    <3>2. CASE n # 1
      <4>1. n - 1 \in 1..(n - 1)
        BY <2>3, <3>2
      <4>2. n - 1 \in 1..k
        BY <1>1, <2>1, <4>1
      <4> QED
        BY <2>3, <4>2
    <3> QED
      BY <3>1, <3>2
  <2>6. k = n - 1
    BY <2>3, <2>4, <2>5
  <2> QED
    BY <2>1, <2>6
<1>5. Made(s)' = 1..n /\ n \in 0..MaxAttempts
  <2>1. n \in Nat /\ n >= 1 /\ n <= MaxAttempts /\ MaxAttempts \in Nat
    BY <1>1 DEF Numbers, WorkflowAssumption
  <2>2. (1..(n - 1)) \cup {n} = 1..n
    <3>1. \A m : m \in (1..(n - 1)) \cup {n} <=> m \in 1..n
      BY <2>1
    <3> QED
      BY <3>1
  <2>3. Made(s)' = 1..n
    BY <1>1, <1>3, <1>4, <2>2 DEF Made
  <2> QED
    BY <2>1, <2>3
<1>6. Gapless'
  BY <1>3, <1>5 DEF Gapless
<1> QED
  BY <1>0, <1>1, <1>2, <1>3, <1>6 DEF Attempts, Numbers

\* What the attempts of a step allow for the next.
LEMMA NextAttempt ==
  ASSUME WorkflowAssumption, TypeOK, Gapless, NEW i \in Steps
  PROVE  /\ LastAttempt(i) \in Nat /\ Made(i) = 1..LastAttempt(i)
         /\ NextMove(i, LastAttempt(i)) = "run" => LastAttempt(i) + 1 \in Numbers
         /\ NextMove(i, LastAttempt(i)) = "replay" => Done(i)
<1>1. PICK k \in 0..MaxAttempts : Made(i) = 1..k
  BY DEF Gapless
<1>2. LastAttempt(i) = k
  <2>1. CASE k = 0
    BY <1>1, <2>1 DEF LastAttempt, WorkflowAssumption
  <2>2. CASE k # 0
    <3>1. k \in Made(i) /\ \A m \in Made(i) : m <= k
      BY <1>1, <2>2 DEF WorkflowAssumption
    <3>2. \A n \in Made(i) : (\A m \in Made(i) : m <= n) => n = k
      BY <1>1, <3>1 DEF WorkflowAssumption
    <3> QED
      BY <3>1, <3>2 DEF LastAttempt
  <2> QED
    BY <2>1, <2>2
<1>3. ASSUME NextMove(i, k) = "run" PROVE k + 1 \in Numbers
  <2>1. CASE k = 0
    BY <2>1 DEF Numbers, WorkflowAssumption
  <2>2. CASE k # 0
    <3>1. k \in Made(i)
      BY <1>1, <2>2 DEF WorkflowAssumption
    <3>2. <<i, k>> \in failed /\ k < MaxAttempts
      BY <1>3, <3>1 DEF NextMove, ShouldRetry, Made
    <3> QED
      BY <3>2 DEF Numbers, WorkflowAssumption
  <2> QED
    BY <2>1, <2>2
<1>4. ASSUME NextMove(i, k) = "replay" PROVE Done(i)
  BY <1>4 DEF NextMove, Done, Numbers, TypeOK, Attempts
<1> QED
  BY <1>1, <1>2, <1>3, <1>4

\* The parts of the type invariant an action leaves to its actors.
RowTyped ==
    /\ status \in Statuses \cup {"absent"} /\ step \in 1..Finished
    /\ wake \in {"none", "now", "later"} /\ lease \in Leases
    /\ results \subseteq Steps /\ waitingFor \in 0..StepCount
    /\ faults \in 0..MaxFaults

\* Requests, claims, crashes and time.
LEMMA ShapeOutside ==
  ASSUME WorkflowAssumption, ShapeInv,
         \/ \E c \in Callers \cup Starters : Start(c) \/ Insert(c)
         \/ \E r \in Runners : ClaimDue(r)
         \/ \E a \in Advancers : Conflict(a) \/ Complete(a) \/ Exhausted(a)
         \/ \E a \in Actors : Crash(a)
         \/ LeaseExpires
         \/ RetryDue
         \/ UNCHANGED vars
  PROVE  ShapeInv'
<1>0. TypeOK /\ Gapless /\ \A b \in Actors : Shaped(b)
  BY DEF ShapeInv
<1>1. UNCHANGED <<attempts, signals>>
  BY DEF Start, Insert, ClaimDue, Conflict, Complete, Exhausted, Crash, LeaseExpires, RetryDue,
         vars
<1>2. Gapless' /\ \A i \in Steps : Made(i)' = Made(i)
  BY <1>0, <1>1, AttemptsKept
<1>3. RowTyped'
  <2>1. UNCHANGED <<step, results, waitingFor>>
    BY DEF Start, Insert, ClaimDue, Conflict, Complete, Exhausted, Crash, LeaseExpires, RetryDue,
           vars, row
  <2>2. status' \in Statuses \cup {"absent"}
    BY <1>0 DEF Start, Insert, ClaimDue, Conflict, Complete, Exhausted, Crash, LeaseExpires,
                RetryDue, vars, row, TypeOK, Statuses, SetStatus, Written
  <2>3. wake' \in {"none", "now", "later"} /\ lease' \in Leases
    BY <1>0 DEF Start, Insert, ClaimDue, Conflict, Complete, Exhausted, Crash, LeaseExpires,
                RetryDue, vars, row, TypeOK, Leases, ReleaseLease, Written
  <2>4. faults' \in 0..MaxFaults
    BY <1>0 DEF Start, Insert, ClaimDue, Conflict, Complete, Exhausted, Crash, LeaseExpires,
                RetryDue, vars, TypeOK, WorkflowAssumption
  <2> QED
    BY <1>0, <2>1, <2>2, <2>3, <2>4 DEF RowTyped, TypeOK
<1>4. ASSUME ActorsTyped', \A b \in Actors : Shaped(b)' PROVE ShapeInv'
  BY <1>0, <1>1, <1>2, <1>3, <1>4 DEF ShapeInv, TypeOK, RowTyped, ActorsTyped, attempts, signals
<1>5. ASSUME NEW a \in Actors, NEW p \in {"idle", "insert", "load"}, Leave(a, p) \/ GoTo(a, p)
      PROVE  ShapeInv'
  <2>1. ActorsTyped'
    BY <1>0, <1>5, ActorTypes DEF Points
  <2>2. \A b \in Actors : Shaped(b)'
    BY <1>0, <1>1, <1>2, <1>5, ShapesKept DEF signals
  <2> QED
    BY <1>4, <2>1, <2>2
<1>6. ASSUME UNCHANGED actors PROVE ShapeInv'
  <2>1. ActorsTyped'
    BY <1>0, <1>6 DEF TypeOK, ActorsTyped, actors
  <2>2. \A b \in Actors : Shaped(b)'
    BY <1>0, <1>1, <1>2, <1>6, ShapeKept DEF actors, signals
  <2> QED
    BY <1>4, <2>1, <2>2
<1>7. ASSUME NEW c \in Callers \cup Starters, Start(c) \/ Insert(c) PROVE ShapeInv'
  <2>1. PICK p \in {"idle", "insert", "load"} : GoTo(c, p)
    BY <1>7 DEF Start, Insert, Started
  <2> QED
    BY <1>5, <2>1 DEF Actors, Advancers
<1>8. ASSUME NEW r \in Runners, ClaimDue(r) PROVE ShapeInv'
  BY <1>5, <1>8 DEF ClaimDue, Actors, Advancers
<1>9. ASSUME NEW a \in Advancers, Conflict(a) \/ Complete(a) \/ Exhausted(a) PROVE ShapeInv'
  BY <1>5, <1>9 DEF Conflict, Complete, Exhausted, Actors
<1>10. ASSUME NEW a \in Actors, Crash(a) PROVE ShapeInv'
  BY <1>5, <1>10 DEF Crash
<1>11. CASE LeaseExpires \/ RetryDue \/ UNCHANGED vars
  BY <1>6, <1>11 DEF LeaseExpires, RetryDue, vars
<1> QED
  BY <1>7, <1>8, <1>9, <1>10, <1>11

\* Reading the row, and the last attempt of its step.
LEMMA ShapeReads ==
  ASSUME WorkflowAssumption, ShapeInv, NEW a \in Actors, Load(a) \/ Look(a)
  PROVE  ShapeInv'
<1>0. TypeOK /\ Gapless /\ \A b \in Actors : Shaped(b)
  BY DEF ShapeInv
<1>1. UNCHANGED <<row, attempts, signals, faults>>
  BY DEF Load, Look
<1>2. Gapless' /\ \A i \in Steps : Made(i)' = Made(i)
  BY <1>0, <1>1, AttemptsKept
<1>3. ASSUME ActorsTyped', \A b \in Actors : Shaped(b)' PROVE ShapeInv'
  BY <1>0, <1>1, <1>2, <1>3 DEF ShapeInv, TypeOK, ActorsTyped, row, attempts, signals
<1>4. ASSUME NEW b \in Actors, b # a PROVE Shaped(b)'
  <2>1. pc'[b] = pc[b] /\ snap'[b] = snap[b] /\ num'[b] = num[b] /\ sig'[b] = sig[b]
    BY <1>0, <1>4 DEF Load, Look, Leave, TypeOK
  <2> QED
    BY <1>0, <1>1, <1>2, <2>1, ShapeKept DEF signals
<1>5. CASE Load(a) /\ status \in Terminal
  <2>1. Leave(a, "idle")
    BY <1>5 DEF Load
  <2>2. ActorsTyped'
    BY <1>0, <2>1, ActorTypes DEF Points
  <2>3. \A b \in Actors : Shaped(b)'
    BY <1>0, <1>1, <1>2, <2>1, ShapesKept DEF signals
  <2> QED
    BY <1>3, <2>2, <2>3
<1>6. CASE Load(a) /\ status \notin Terminal
  <2>1. /\ pc' = [pc EXCEPT ![a] = IF step = Finished THEN "complete" ELSE "look"]
        /\ snap' = [snap EXCEPT ![a] = Read] /\ UNCHANGED <<num, sig>>
    BY <1>6 DEF Load
  <2>2. Read \in Snapshot
    BY <1>0, <1>6 DEF Read, Snapshot, TypeOK, Statuses
  <2>3. ActorsTyped'
    BY <1>0, <2>1, <2>2 DEF ActorsTyped, TypeOK, Points
  <2>4. Shaped(a)'
    <3>1. CASE step = Finished
      BY <1>0, <2>1, <3>1, ShapeFree DEF TypeOK
    <3>2. CASE step # Finished
      <4>1. pc'[a] = "look" /\ snap'[a].step = step
        BY <1>0, <2>1, <3>2 DEF TypeOK, Read
      <4>2. step \in Steps
        BY <1>0, <3>2 DEF TypeOK, Steps, Finished, WorkflowAssumption
      <4> QED
        BY <4>1, <4>2 DEF Shaped
    <3> QED
      BY <3>1, <3>2
  <2> QED
    BY <1>3, <1>4, <2>3, <2>4
<1>7. CASE Look(a)
  <2>0. PICK i \in Steps : i = snap[a].step
    BY <1>0, <1>7 DEF Look, Shaped, AtAStep
  <2> DEFINE n == LastAttempt(i)
             move == NextMove(i, n)
  <2>1. /\ pc' = [pc EXCEPT ![a] = move] /\ UNCHANGED <<snap, sig>>
        /\ num' = [num EXCEPT ![a] = IF move = "run" THEN n + 1 ELSE 0]
    BY <1>7, <2>0 DEF Look
  <2>2. n \in Nat /\ Made(i) = 1..n /\ (move = "run" => n + 1 \in Numbers)
    BY <1>0, <2>0, NextAttempt
  <2>3. move \in {"replay", "exhausted", "run"}
    BY DEF NextMove
  <2>4. 0 \in 0..MaxAttempts /\ (move = "run" => n + 1 \in 0..MaxAttempts)
    BY <2>2 DEF Numbers, WorkflowAssumption
  <2> HIDE DEF move, n
  <2>6. ActorsTyped'
    BY <1>0, <2>1, <2>3, <2>4 DEF ActorsTyped, TypeOK, Points
  <2>7. Shaped(a)'
    <3>1. /\ pc'[a] = move /\ snap'[a].step = i /\ num'[a] = IF move = "run" THEN n + 1 ELSE 0
      BY <1>0, <2>0, <2>1 DEF TypeOK
    <3>2. CASE move = "run"
      <4>1. num'[a] \in Numbers /\ num'[a] = n + 1 /\ 1..n = Made(i)'
        BY <1>2, <2>0, <2>2, <3>1, <3>2
      <4>2. 1..(num'[a] - 1) \subseteq Made(i)'
        BY <2>2, <4>1
      <4> QED
        BY <2>0, <3>1, <3>2, <4>1, <4>2 DEF Shaped, Made
    <3>3. CASE move # "run"
      BY <2>0, <2>3, <3>1, <3>3 DEF Shaped
    <3> QED
      BY <3>2, <3>3
  <2> QED
    BY <1>3, <1>4, <2>6, <2>7
<1> QED
  BY <1>5, <1>6, <1>7

\* Commits that add an attempt, or move on behind one.
LEMMA ShapeCommits ==
  ASSUME WorkflowAssumption, ShapeInv, NEW a \in Actors,
         \/ Replay(a) \/ Succeed(a) \/ ConsumeStored(a) \/ EnterWaiting(a)
         \/ \E isPermanent \in BOOLEAN : Fail(a, isPermanent)
  PROVE  ShapeInv'
<1>0. TypeOK /\ Gapless /\ \A b \in Actors : Shaped(b)
  BY DEF ShapeInv
<1>1. snap[a].step \in Steps /\ snap[a] \in Snapshot
  BY <1>0 DEF Replay, Succeed, ConsumeStored, EnterWaiting, Fail, Running, Shaped, AtAStep, TypeOK
<1>2. PICK p \in {"idle", "load"} : Leave(a, p)
  BY DEF Replay, Succeed, ConsumeStored, EnterWaiting, Fail
<1>3. /\ snap[a].step + 1 \in 1..Finished /\ snap[a].step \in 0..StepCount
      /\ snap[a].results \cup {snap[a].step} \subseteq Steps
      /\ snap[a].waitingFor \in 0..StepCount
  BY <1>1 DEF Snapshot, Steps, Finished, WorkflowAssumption
<1>4. RowTyped'
  <2>1. CASE Replay(a)
    BY <1>0, <1>3, <2>1 DEF Replay, RowTyped, TypeOK
  <2>2. CASE Succeed(a)
    BY <1>0, <1>3, <2>2 DEF Succeed, RowTyped, TypeOK
  <2>3. CASE ConsumeStored(a)
    BY <1>0, <1>3, <2>3 DEF ConsumeStored, RowTyped, TypeOK
  <2>4. CASE EnterWaiting(a)
    BY <1>0, <1>3, <2>4 DEF EnterWaiting, RowTyped, TypeOK, SetStatus, ReleaseLease, Written,
                            Statuses, Leases
  <2>5. CASE \E isPermanent \in BOOLEAN : Fail(a, isPermanent)
    BY <1>0, <2>5 DEF Fail, RowTyped, TypeOK, SetStatus, ReleaseLease, Written, Statuses, Leases
  <2> QED
    BY <2>1, <2>2, <2>3, <2>4, <2>5
<1>5. ActorsTyped'
  BY <1>0, <1>2, ActorTypes DEF Points
<1>6. stored' = stored /\ delivered' \subseteq stored
  BY <1>0 DEF Replay, Succeed, ConsumeStored, EnterWaiting, Fail, signals, Shaped, TypeOK
<1>7. /\ Gapless' /\ \A i \in Steps : Made(i) \subseteq Made(i)'
      /\ executed' \subseteq Attempts /\ failed' \subseteq Attempts /\ permanent' \subseteq failed'
  <2>1. CASE Replay(a)
    <3>1. UNCHANGED attempts
      BY <2>1 DEF Replay
    <3> QED
      BY <1>0, <3>1, AttemptsKept DEF TypeOK, attempts
  <2>2. CASE ~Replay(a)
    <3>1. /\ pc[a] \in {"run", "wait"} /\ ~Taken(a)
          /\ executed' \cup failed' = executed \cup failed \cup {Mine(a)}
      BY <2>2 DEF Succeed, ConsumeStored, EnterWaiting, Fail, Running
    <3>2. permanent' \subseteq failed'
      BY <1>0, <2>2 DEF Succeed, ConsumeStored, EnterWaiting, Fail, TypeOK
    <3>3. Gapless' /\ Mine(a) \in Attempts /\ \A i \in Steps : Made(i) \subseteq Made(i)'
      BY <1>0, <3>1, AttemptAdded
    <3>4. executed \subseteq Attempts /\ failed \subseteq Attempts
      BY <1>0 DEF TypeOK
    <3> QED
      BY <3>1, <3>2, <3>3, <3>4
  <2> QED
    BY <2>1, <2>2
<1>8. \A b \in Actors : Shaped(b)'
  BY <1>0, <1>2, <1>6, <1>7, ShapesKept
<1>9. stored \subseteq Signals
  BY <1>0 DEF TypeOK
<1>10. TypeOK'
  BY <1>4, <1>5, <1>6, <1>7, <1>9 DEF TypeOK, RowTyped, ActorsTyped
<1> QED
  BY <1>7, <1>8, <1>10 DEF ShapeInv

\* The query for a signal, and the sender's own transaction.
LEMMA ShapeSignals ==
  ASSUME WorkflowAssumption, ShapeInv, NEW a \in Actors,
         LookForSignal(a) \/ (\E s \in Signals : Send(a, s)) \/ StoreSignal(a)
  PROVE  ShapeInv'
<1>0. TypeOK /\ Gapless /\ \A b \in Actors : Shaped(b)
  BY DEF ShapeInv
<1>1. UNCHANGED <<attempts, delivered, faults>> /\ stored \subseteq stored'
  BY DEF LookForSignal, Send, StoreSignal, signals
<1>2. Gapless' /\ \A i \in Steps : Made(i)' = Made(i)
  BY <1>0, <1>1, AttemptsKept
<1>3. ASSUME RowTyped', ActorsTyped', stored' \subseteq Signals, \A b \in Actors : Shaped(b)'
      PROVE  ShapeInv'
  BY <1>0, <1>1, <1>2, <1>3 DEF ShapeInv, TypeOK, RowTyped, ActorsTyped, attempts
<1>4. ASSUME NEW b \in Actors, b # a PROVE Shaped(b)'
  <2>1. pc'[b] = pc[b] /\ snap'[b] = snap[b] /\ num'[b] = num[b] /\ sig'[b] = sig[b]
    BY <1>0, <1>4 DEF LookForSignal, Send, StoreSignal, Leave, TypeOK
  <2> QED
    BY <1>0, <1>1, <1>2, <2>1, ShapeKept
<1>5. CASE LookForSignal(a)
  <2>1. PICK s \in Undelivered(snap[a].step) \cup {NoSignal} : sig' = [sig EXCEPT ![a] = s]
    BY <1>5 DEF LookForSignal
  <2>2. /\ pc' = [pc EXCEPT ![a] = "wait"] /\ pc[a] = "run" /\ WaitsFor[snap[a].step] # {}
        /\ UNCHANGED <<row, signals, snap, num>>
    BY <1>5 DEF LookForSignal, Running
  <2>3. s = NoSignal \/ s \in stored \cap WaitsFor[snap[a].step]
    BY <2>1 DEF Undelivered
  <2>4. s \in Signals \cup {NoSignal}
    BY <1>0, <2>3 DEF TypeOK
  <2>5. RowTyped' /\ stored' \subseteq Signals
    BY <1>0, <1>1, <2>2 DEF RowTyped, TypeOK, row, signals
  <2>6. ActorsTyped'
    BY <1>0, <2>1, <2>2, <2>4 DEF ActorsTyped, TypeOK, Points
  <2>7. pc'[a] = "wait" /\ sig'[a] = s
    BY <1>0, <2>1, <2>2 DEF TypeOK
  <2>8. Shaped(a)'
    BY <1>0, <1>1, <2>2, <2>3, <2>7 DEF Shaped, AtAStep, Made, attempts, signals
  <2> QED
    BY <1>3, <1>4, <2>5, <2>6, <2>8
<1>6. ASSUME NEW s \in Signals, Send(a, s) PROVE ShapeInv'
  <2>1. /\ pc' = [pc EXCEPT ![a] = "send"] /\ snap' = [snap EXCEPT ![a] = Read]
        /\ sig' = [sig EXCEPT ![a] = s] /\ UNCHANGED <<row, signals, num>>
        /\ status \in Statuses
    BY <1>0, <1>6 DEF Send, TypeOK
  <2>2. Read \in Snapshot
    BY <1>0, <2>1 DEF Read, Snapshot, TypeOK
  <2>3. ActorsTyped'
    BY <1>0, <2>1, <2>2 DEF ActorsTyped, TypeOK, Points
  <2>4. RowTyped' /\ stored' \subseteq Signals
    BY <1>0, <1>1, <2>1 DEF RowTyped, TypeOK, row, signals
  <2>5. Shaped(a)'
    BY <1>0, <2>1 DEF Shaped, AtAStep, TypeOK
  <2> QED
    BY <1>3, <1>4, <2>3, <2>4, <2>5
<1>7. CASE StoreSignal(a)
  <2>1. Leave(a, "idle") /\ sig[a] \in Signals /\ snap[a] \in Snapshot
    BY <1>0, <1>7 DEF StoreSignal, Shaped, TypeOK
  <2>2. ActorsTyped'
    BY <1>0, <2>1, ActorTypes DEF Points
  <2>3. stored' \subseteq Signals
    BY <1>0, <1>7, <2>1 DEF StoreSignal, TypeOK
  <2>4. CASE UNCHANGED row
    <3>1. RowTyped'
      BY <1>0, <1>1, <2>4 DEF RowTyped, TypeOK, row
    <3>2. \A b \in Actors : Shaped(b)'
      BY <1>0, <1>1, <1>2, <2>1, ShapesKept
    <3> QED
      BY <1>3, <2>2, <2>3, <3>1, <3>2
  <2>5. CASE ~UNCHANGED row
    <3>1. /\ SetStatus(a, "pending") /\ wake' = "now" /\ results' = snap[a].results
          /\ waitingFor' = 0 /\ UNCHANGED lease
          /\ step' \in {step, Finished, snap[a].step + 1} /\ (step' = snap[a].step + 1 =>
                step' = step \/ snap[a].step # Finished)
      BY <1>7, <2>5 DEF StoreSignal, Written
    <3>2. step' \in 1..Finished
      <4>1. snap[a].step \in 1..Finished /\ step \in 1..Finished /\ Finished \in Nat \ {0}
        BY <1>0, <2>1 DEF TypeOK, Snapshot, Finished, WorkflowAssumption
      <4>2. CASE step' = snap[a].step + 1 /\ snap[a].step # Finished
        BY <4>1, <4>2
      <4> QED
        BY <3>1, <4>1, <4>2
    <3>3. RowTyped'
      BY <1>0, <1>1, <2>1, <3>1, <3>2
         DEF RowTyped, TypeOK, SetStatus, Written, Statuses, Snapshot, WorkflowAssumption
    <3>4. \A b \in Actors : Shaped(b)'
      BY <1>0, <1>1, <1>2, <2>1, ShapesKept
    <3> QED
      BY <1>3, <2>2, <2>3, <3>3, <3>4
  <2> QED
    BY <2>4, <2>5
<1> QED
  BY <1>5, <1>6, <1>7

LEMMA ShapeStep ==
  ASSUME WorkflowAssumption PROVE ShapeInv /\ [Next]_vars => ShapeInv'
<1> SUFFICES ASSUME ShapeInv, [Next]_vars PROVE ShapeInv'
  OBVIOUS
<1>1. ASSUME NEW a \in Advancers, Advance(a) PROVE ShapeInv'
  <2>1. a \in Actors
    BY DEF Actors
  <2>2. CASE Conflict(a) \/ Complete(a) \/ Exhausted(a)
    BY <2>2, ShapeOutside
  <2>3. CASE Load(a) \/ Look(a)
    BY <2>1, <2>3, ShapeReads
  <2>4. CASE \/ Replay(a) \/ Succeed(a) \/ ConsumeStored(a) \/ EnterWaiting(a)
             \/ \E isPermanent \in BOOLEAN : Fail(a, isPermanent)
    BY <2>1, <2>4, ShapeCommits
  <2>5. CASE LookForSignal(a)
    BY <2>1, <2>5, ShapeSignals
  <2> QED
    BY <1>1, <2>2, <2>3, <2>4, <2>5 DEF Advance
<1>2. ASSUME NEW d \in Senders, (\E s \in Signals : Send(d, s)) \/ StoreSignal(d) PROVE ShapeInv'
  BY <1>2, ShapeSignals DEF Actors
<1>3. CASE \/ \E c \in Callers \cup Starters : Start(c) \/ Insert(c)
           \/ \E r \in Runners : ClaimDue(r)
           \/ \E a \in Actors : Crash(a)
           \/ LeaseExpires
           \/ RetryDue
           \/ UNCHANGED vars
  BY <1>3, ShapeOutside
<1> QED
  BY <1>1, <1>2, <1>3 DEF Next

LEMMA ShapeStarts == WorkflowAssumption /\ Init => ShapeInv
<1> SUFFICES ASSUME WorkflowAssumption, Init PROVE ShapeInv
  OBVIOUS
<1>1. TypeOK
  <2>1. 1 \in 1..Finished /\ 0 \in 0..StepCount /\ 0 \in 0..MaxAttempts /\ 0 \in 0..MaxFaults
    BY DEF WorkflowAssumption, Finished
  <2> QED
    BY <2>1, NoSnapshotTyped DEF Init, TypeOK, Leases, Points, Statuses
<1>2. Gapless
  <2>1. 0 \in 0..MaxAttempts /\ 1..0 = {}
    BY DEF WorkflowAssumption
  <2>2. \A i \in Steps : Made(i) = {}
    BY DEF Init, Made
  <2> QED
    BY <2>1, <2>2 DEF Gapless
<1>3. \A a \in Actors : Shaped(a)
  BY DEF Init, Shaped, AtAStep
<1> QED
  BY <1>1, <1>2, <1>3 DEF ShapeInv

\* Every column of an instance keeps its type and the attempts of a step are
\* numbered without a gap, whatever its steps wait for and whoever advances it
\* (_step_once, deliver_signal).
THEOREM RowsKeepTheirTypes == Spec => []TypeOK
<1>1. Init => ShapeInv
  BY ShapeStarts, WorkflowAssumption
<1>2. ShapeInv /\ [Next]_vars => ShapeInv'
  BY ShapeStep, WorkflowAssumption
<1>3. ShapeInv => TypeOK
  BY DEF ShapeInv
<1> QED
  BY <1>1, <1>2, <1>3, PTL DEF Spec

-----------------------------------------------------------------------------
(* One loop, one step that waits.  Until a signal the step waits for is     *)
(* stored nobody gets past it: its attempt is executed only by the commit   *)
(* that makes the instance wait, and then the loop does not find it due.    *)

SoleLoop(r) == r \in Runners /\ Advancers = {r}
SoleWait(w) == w \in Steps /\ WaitsFor[w] # {} /\ \A i \in Steps \ {w} : WaitsFor[i] = {}

Sent(w) == stored \cap WaitsFor[w] # {}

BeforeWait(r, w) ==
    /\ step <= w /\ status # "completed" /\ waitingFor \in {0, w}
    /\ \A i \in Steps : w < i => Made(i) = {}
    /\ Done(w) <=> status = "waiting"
    /\ status = "waiting" => pc[r] = "idle"
    /\ \A a \in Actors : snap[a].waitingFor \in {0, w}
    /\ pc[r] # "complete"
    /\ pc[r] \in AtAStep => snap[r].step <= w /\ snap[r].status # "waiting"
    /\ pc[r] = "replay" => snap[r].step < w

WaitInv(r, w) == Sent(w) \/ BeforeWait(r, w)

\* What the actors have read of the column, and what becomes of it.
LEMMA ReadWaits ==
  ASSUME TypeOK, NEW w, \A b \in Actors : snap[b].waitingFor \in {0, w}, NEW a \in Actors,
         NEW rec, snap' = [snap EXCEPT ![a] = rec], rec.waitingFor \in {0, w}
  PROVE  \A b \in Actors : snap'[b].waitingFor \in {0, w}
BY DEF TypeOK

\* Actors beside the loop: they start the instance, send signals, crash.
LEMMA BesideTheLoop ==
  ASSUME WorkflowAssumption, ShapeInv, NEW r, NEW w, SoleLoop(r), SoleWait(w), BeforeWait(r, w),
         NEW a \in Actors, a # r,
         \/ Start(a) \/ Insert(a) \/ (\E s \in Signals : Send(a, s)) \/ StoreSignal(a) \/ Crash(a)
  PROVE  WaitInv(r, w)'
<1>0. TypeOK /\ r \in Actors
  BY DEF ShapeInv, SoleLoop, Actors, Advancers
<1>1. /\ UNCHANGED attempts
      /\ pc'[r] = pc[r] /\ snap'[r] = snap[r]
  BY <1>0 DEF Start, Insert, Send, StoreSignal, Crash, GoTo, Leave, TypeOK
<1>2. Done(w)' = Done(w) /\ \A i \in Steps : Made(i)' = Made(i)
  BY <1>1 DEF Done, Made, attempts
<1>3. \A b \in Actors : snap'[b].waitingFor \in {0, w}
  <2>0. \A b \in Actors : snap[b].waitingFor \in {0, w}
    BY DEF BeforeWait
  <2>1. CASE UNCHANGED snap
    BY <2>0, <2>1
  <2>2. CASE snap' = [snap EXCEPT ![a] = NoSnapshot]
    <3>1. NoSnapshot.waitingFor \in {0, w}
      BY DEF NoSnapshot
    <3> QED
      BY <1>0, <2>0, <2>2, <3>1, ReadWaits
  <2>3. CASE snap' = [snap EXCEPT ![a] = Read]
    <3>1. Read.waitingFor \in {0, w}
      BY DEF Read, BeforeWait
    <3> QED
      BY <1>0, <2>0, <2>3, <3>1, ReadWaits
  <2> QED
    BY <2>1, <2>2, <2>3 DEF Start, Insert, Send, StoreSignal, Crash, GoTo, Leave
<1>4. ASSUME UNCHANGED <<step, waitingFor>>,
             status' = status \/ (status = "absent" /\ status' = "pending")
      PROVE  BeforeWait(r, w)'
  <2>1. /\ step' <= w /\ status' # "completed" /\ waitingFor' \in {0, w}
        /\ (Done(w) <=> status' = "waiting") /\ (status' = "waiting" => pc[r] = "idle")
    BY <1>4 DEF BeforeWait
  <2> QED
    BY <1>1, <1>2, <1>3, <2>1 DEF BeforeWait, Done
<1>5. CASE Start(a) \/ Insert(a) \/ (\E s \in Signals : Send(a, s)) \/ Crash(a)
  <2>1. UNCHANGED <<step, waitingFor>> /\ (status' = status \/ (status = "absent" /\ status' = "pending"))
    BY <1>5 DEF Start, Insert, Send, Crash, row
  <2> QED
    BY <1>4, <2>1 DEF WaitInv
<1>6. CASE StoreSignal(a)
  <2>1. CASE UNCHANGED row
    BY <1>4, <2>1 DEF WaitInv, row
  <2>2. CASE ~UNCHANGED row
    <3>1. Wakes(a) /\ stored' = stored \cup {sig[a]}
      BY <1>6, <2>2 DEF StoreSignal
    <3>2. snap[a].waitingFor = w
      BY <3>1 DEF Wakes, BeforeWait
    <3> QED
      BY <3>1, <3>2 DEF Wakes, Sent, WaitInv
  <2> QED
    BY <2>1, <2>2
<1> QED
  BY <1>5, <1>6

\* The loop between two transactions, and time.
LEMMA LoopOutside ==
  ASSUME WorkflowAssumption, ShapeInv, NEW r, NEW w, SoleLoop(r), SoleWait(w), BeforeWait(r, w),
         ClaimDue(r) \/ Conflict(r) \/ Crash(r) \/ LeaseExpires \/ RetryDue \/ UNCHANGED vars
  PROVE  BeforeWait(r, w)'
<1>0. TypeOK /\ r \in Actors
  BY DEF ShapeInv, SoleLoop, Actors, Advancers
<1>1. UNCHANGED <<attempts, step, status, waitingFor>>
  BY DEF ClaimDue, Conflict, Crash, LeaseExpires, RetryDue, vars, row
<1>2. Done(w)' = Done(w) /\ \A i \in Steps : Made(i)' = Made(i)
  BY <1>1 DEF Done, Made, attempts
<1>3. \A b \in Actors : snap'[b].waitingFor \in {0, w}
  <2>0. \A b \in Actors : snap[b].waitingFor \in {0, w}
    BY DEF BeforeWait
  <2>1. CASE UNCHANGED snap
    BY <2>0, <2>1
  <2>2. CASE snap' = [snap EXCEPT ![r] = NoSnapshot]
    <3>1. NoSnapshot.waitingFor \in {0, w}
      BY DEF NoSnapshot
    <3> QED
      BY <1>0, <2>0, <2>2, <3>1, ReadWaits
  <2> QED
    BY <2>1, <2>2 DEF ClaimDue, Conflict, Crash, LeaseExpires, RetryDue, vars, actors, GoTo, Leave
<1>4. \/ pc'[r] = "idle"
      \/ pc'[r] = "load" /\ status = "pending"
      \/ pc'[r] = pc[r] /\ snap'[r] = snap[r]
  BY <1>0 DEF ClaimDue, Claimable, Conflict, Crash, LeaseExpires, RetryDue, vars, actors, GoTo,
              Leave, TypeOK
<1>5. /\ status' = "waiting" => pc'[r] = "idle"
      /\ pc'[r] # "complete"
      /\ pc'[r] \in AtAStep => snap'[r].step <= w /\ snap'[r].status # "waiting"
      /\ pc'[r] = "replay" => snap'[r].step < w
  BY <1>1, <1>4 DEF BeforeWait, AtAStep
<1>6. /\ step' <= w /\ status' # "completed" /\ waitingFor' \in {0, w}
      /\ (Done(w) <=> status' = "waiting")
  BY <1>1 DEF BeforeWait
<1> QED
  BY <1>2, <1>3, <1>5, <1>6 DEF BeforeWait, Done

\* The loop reads the row, its last attempt, the signals.
LEMMA LoopReads ==
  ASSUME WorkflowAssumption, ShapeInv, NEW r, NEW w, SoleLoop(r), SoleWait(w), BeforeWait(r, w),
         Load(r) \/ Look(r) \/ LookForSignal(r)
  PROVE  BeforeWait(r, w)'
<1>0. TypeOK /\ Gapless /\ r \in Actors /\ Shaped(r) /\ pc[r] # "idle" /\ status # "waiting" /\ ~Done(w)
  BY DEF ShapeInv, SoleLoop, Actors, Advancers, BeforeWait, Load, Look, LookForSignal, Running
<1>1. UNCHANGED <<attempts, row>>
  BY DEF Load, Look, LookForSignal
<1>2. Done(w)' = Done(w) /\ \A i \in Steps : Made(i)' = Made(i)
  BY <1>1 DEF Done, Made, attempts
<1>3. /\ step' <= w /\ status' # "completed" /\ status' # "waiting" /\ waitingFor' \in {0, w}
  BY <1>0, <1>1 DEF BeforeWait, row
<1>4. ASSUME \A b \in Actors : snap'[b].waitingFor \in {0, w},
             pc'[r] # "complete",
             pc'[r] \in AtAStep => snap'[r].step <= w /\ snap'[r].status # "waiting",
             pc'[r] = "replay" => snap'[r].step < w
      PROVE  BeforeWait(r, w)'
  BY <1>0, <1>2, <1>3, <1>4 DEF BeforeWait, Done
<1>5. \A b \in Actors : snap[b].waitingFor \in {0, w}
  BY DEF BeforeWait
<1>6. CASE Load(r)
  <2>1. CASE status \in Terminal
    <3>1. snap' = [snap EXCEPT ![r] = NoSnapshot] /\ pc'[r] = "idle"
      BY <1>0, <1>6, <2>1 DEF Load, Leave, TypeOK
    <3>2. NoSnapshot.waitingFor \in {0, w}
      BY DEF NoSnapshot
    <3>3. \A b \in Actors : snap'[b].waitingFor \in {0, w}
      BY <1>0, <1>5, <3>1, <3>2, ReadWaits
    <3> QED
      BY <1>4, <3>1, <3>3 DEF AtAStep
  <2>2. CASE status \notin Terminal
    <3>1. step # Finished /\ step <= w
      <4>1. w < Finished
        BY DEF SoleWait, Steps, Finished, WorkflowAssumption
      <4> QED
        BY <4>1 DEF BeforeWait, SoleWait, Steps, Finished, WorkflowAssumption
    <3>2. snap' = [snap EXCEPT ![r] = Read] /\ pc'[r] = "look"
      BY <1>0, <1>6, <2>2, <3>1 DEF Load, TypeOK
    <3>3. Read.waitingFor \in {0, w} /\ Read.step <= w /\ Read.status # "waiting"
      BY <1>0, <3>1 DEF Read, BeforeWait
    <3>4. \A b \in Actors : snap'[b].waitingFor \in {0, w}
      BY <1>0, <1>5, <3>2, <3>3, ReadWaits
    <3>5. snap'[r] = Read
      BY <1>0, <3>2 DEF TypeOK
    <3> QED
      BY <1>4, <3>2, <3>3, <3>4, <3>5
  <2> QED
    BY <2>1, <2>2
<1>7. CASE Look(r)
  <2>0. PICK i \in Steps : i = snap[r].step
    BY <1>0, <1>7 DEF Look, Shaped, AtAStep
  <2>1. /\ pc'[r] = NextMove(i, LastAttempt(i)) /\ snap' = snap
        /\ i <= w /\ snap[r].status # "waiting"
    BY <1>0, <1>7, <2>0 DEF Look, TypeOK, BeforeWait, AtAStep
  <2>2. NextMove(i, LastAttempt(i)) = "replay" => Done(i)
    BY <1>0, <2>0, NextAttempt
  <2>3. pc'[r] = "replay" => i < w
    <3>1. i # w => i < w
      BY <2>0, <2>1 DEF SoleWait, Steps, WorkflowAssumption
    <3> QED
      BY <1>0, <2>1, <2>2, <3>1
  <2>4. pc'[r] # "complete"
    BY <2>1 DEF NextMove
  <2> QED
    BY <1>4, <1>5, <2>0, <2>1, <2>3, <2>4
<1>8. CASE LookForSignal(r)
  <2>1. snap' = snap /\ pc'[r] = "wait" /\ pc[r] = "run"
    BY <1>0, <1>8 DEF LookForSignal, Running, TypeOK
  <2>2. snap[r].step <= w /\ snap[r].status # "waiting"
    BY <2>1 DEF BeforeWait, AtAStep
  <2> QED
    BY <1>4, <1>5, <2>1, <2>2
<1> QED
  BY <1>6, <1>7, <1>8

\* The loop commits a step before the wait, or the wait.
LEMMA LoopCommits ==
  ASSUME WorkflowAssumption, ShapeInv, NEW r, NEW w, SoleLoop(r), SoleWait(w), BeforeWait(r, w),
         \/ Replay(r) \/ Succeed(r) \/ Exhausted(r) \/ Complete(r) \/ EnterWaiting(r)
         \/ \E isPermanent \in BOOLEAN : Fail(r, isPermanent)
  PROVE  BeforeWait(r, w)'
<1>0. /\ TypeOK /\ Gapless /\ r \in Actors /\ Shaped(r) /\ ~Complete(r)
      /\ status # "waiting" /\ ~Done(w) /\ status # "completed"
  BY DEF ShapeInv, SoleLoop, Actors, Advancers, BeforeWait, Replay, Succeed, Exhausted, Complete,
         EnterWaiting, Fail, Running
<1>1. PICK i \in Steps : i = snap[r].step
  BY <1>0 DEF Replay, Succeed, Exhausted, EnterWaiting, Fail, Running, Shaped, AtAStep
<1>2. i <= w /\ snap[r].status # "waiting" /\ (pc[r] = "replay" => i < w)
  BY <1>0, <1>1 DEF BeforeWait, Replay, Succeed, Exhausted, EnterWaiting, Fail, Running, AtAStep
<1>3. i \in Nat /\ w \in Nat /\ \A j \in Steps : j \in Nat
  BY DEF SoleWait, Steps, WorkflowAssumption
<1>4. pc'[r] \in {"idle", "load"} /\ snap' = [snap EXCEPT ![r] = NoSnapshot]
  BY <1>0 DEF Replay, Succeed, Exhausted, EnterWaiting, Fail, Leave, TypeOK
<1>5. \A b \in Actors : snap'[b].waitingFor \in {0, w}
  <2>1. NoSnapshot.waitingFor \in {0, w} /\ \A b \in Actors : snap[b].waitingFor \in {0, w}
    BY DEF NoSnapshot, BeforeWait
  <2> QED
    BY <1>0, <1>4, <2>1, ReadWaits
<1>6. \A j \in Steps : w < j => Made(j)' = {}
  <2> SUFFICES ASSUME NEW j \in Steps, w < j PROVE Made(j)' = {}
    OBVIOUS
  <2>1. Made(j) = {} /\ j # i
    BY <1>2, <1>3 DEF BeforeWait
  <2>2. CASE Replay(r) \/ Exhausted(r)
    BY <2>1, <2>2 DEF Replay, Exhausted, attempts, Made
  <2>3. CASE ~(Replay(r) \/ Exhausted(r))
    <3>1. /\ pc[r] \in {"run", "wait"} /\ ~Taken(r)
          /\ executed' \cup failed' = executed \cup failed \cup {Mine(r)}
      BY <1>0, <2>3 DEF Succeed, EnterWaiting, Fail, Running
    <3>2. \A q \in Steps : q # snap[r].step => Made(q)' = Made(q)
      BY <1>0, <3>1, AttemptAdded
    <3> QED
      BY <1>1, <2>1, <3>2
  <2> QED
    BY <2>2, <2>3
<1>7. \A b \in Actors : snap[b].waitingFor \in {0, w}
  BY DEF BeforeWait
<1>8. step <= w /\ waitingFor \in {0, w}
  BY DEF BeforeWait
<1>9. CASE EnterWaiting(r)
  <2>1. i = w
    BY <1>0, <1>1, <1>9 DEF EnterWaiting, Shaped, SoleWait
  <2>2. status' = "waiting" /\ waitingFor' = w /\ step' = step /\ pc'[r] = "idle"
    BY <1>0, <1>1, <1>2, <1>9, <2>1 DEF EnterWaiting, SetStatus, Written, Leave, TypeOK
  <2>3. Done(w)'
    <3>1. <<w, num[r]>> \in executed' /\ num[r] \in Numbers
      BY <1>0, <1>1, <1>9, <2>1 DEF EnterWaiting, Mine, Shaped
    <3> QED
      BY <3>1 DEF Done, Numbers
  <2>4. step' <= w
    BY <1>8, <2>2
  <2> QED
    BY <1>5, <1>6, <2>2, <2>3, <2>4 DEF BeforeWait, AtAStep
<1>10. CASE ~EnterWaiting(r)
  <2>1. step' <= w
    <3>1. CASE Replay(r)
      BY <1>1, <1>2, <1>3, <3>1 DEF Replay
    <3>2. CASE Succeed(r)
      <4>1. i # w /\ step' = i + 1
        BY <1>1, <3>2 DEF Succeed, SoleWait
      <4> QED
        BY <1>2, <1>3, <4>1
    <3>3. CASE Exhausted(r) \/ \E isPermanent \in BOOLEAN : Fail(r, isPermanent)
      BY <1>8, <3>3 DEF Exhausted, Fail
    <3> QED
      BY <1>0, <1>10, <3>1, <3>2, <3>3
  <2>2. status' \in {status, "failed"}
    BY <1>0, <1>10 DEF Replay, Succeed, Exhausted, Fail, SetStatus, Written
  <2>3. waitingFor' \in {0, w}
    BY <1>0, <1>7, <1>8, <1>10 DEF Replay, Succeed, Exhausted, Fail
  <2>4. ~Done(w)'
    <3>1. CASE Succeed(r)
      <4>1. i # w /\ executed' = executed \cup {<<i, num[r]>>}
        BY <1>1, <3>1 DEF Succeed, SoleWait, Mine
      <4> QED
        BY <1>0, <4>1 DEF Done, Numbers
    <3>2. CASE ~Succeed(r)
      <4>1. executed' = executed
        BY <1>0, <1>10, <3>2 DEF Replay, Exhausted, Fail, attempts
      <4> QED
        BY <1>0, <4>1 DEF Done
    <3> QED
      BY <3>1, <3>2
  <2>5. status' # "completed" /\ status' # "waiting"
    BY <1>0, <2>2
  <2> QED
    BY <1>4, <1>5, <1>6, <2>1, <2>3, <2>4, <2>5 DEF BeforeWait, AtAStep
<1> QED
  BY <1>9, <1>10

LEMMA WaitStep ==
  ASSUME WorkflowAssumption, ShapeInv, [Next]_vars, NEW r, NEW w, SoleLoop(r), SoleWait(w),
         WaitInv(r, w)
  PROVE  WaitInv(r, w)'
<1>1. CASE Sent(w)
  <2>1. stored \subseteq stored'
    <3>1. ASSUME NEW a \in Advancers, Advance(a) PROVE UNCHANGED stored
      BY <3>1 DEF Advance, Load, Look, Replay, Exhausted, Complete, Conflict, Succeed, Fail,
                  LookForSignal, ConsumeStored, EnterWaiting, signals
    <3>2. ASSUME NEW d \in Senders, (\E s \in Signals : Send(d, s)) \/ StoreSignal(d)
          PROVE  stored \subseteq stored'
      BY <3>2 DEF Send, StoreSignal, signals
    <3>3. CASE ~((\E a \in Advancers : Advance(a))
                  \/ \E d \in Senders : (\E s \in Signals : Send(d, s)) \/ StoreSignal(d))
      <4>1. UNCHANGED signals
        BY <3>3 DEF Next, Start, Insert, ClaimDue, Crash, LeaseExpires, RetryDue, vars
      <4> QED
        BY <4>1 DEF signals
    <3> QED
      BY <3>1, <3>2, <3>3
  <2> QED
    BY <1>1, <2>1 DEF Sent, WaitInv
<1>2. CASE ~Sent(w)
  <2>0. BeforeWait(r, w) /\ r \in Runners /\ Advancers = {r} /\ Callers = {}
    BY <1>2 DEF WaitInv, SoleLoop, Advancers, WorkflowAssumption
  <2>1. CASE Advance(r)
    <3>1. CASE Load(r) \/ Look(r) \/ LookForSignal(r)
      BY <2>0, <3>1, LoopReads DEF WaitInv
    <3>2. CASE \/ Replay(r) \/ Succeed(r) \/ Exhausted(r) \/ Complete(r) \/ EnterWaiting(r)
               \/ \E isPermanent \in BOOLEAN : Fail(r, isPermanent)
      BY <2>0, <3>2, LoopCommits DEF WaitInv
    <3>3. CASE Conflict(r)
      BY <2>0, <3>3, LoopOutside DEF WaitInv
    <3>4. CASE ConsumeStored(r)
      <4>1. sig[r] \in stored \cap WaitsFor[snap[r].step] /\ snap[r].step \in Steps
        BY <2>0, <3>4 DEF ConsumeStored, ShapeInv, Shaped, AtAStep, Actors, Advancers
      <4> QED
        BY <1>2, <4>1 DEF SoleWait, Sent
    <3> QED
      BY <2>1, <3>1, <3>2, <3>3, <3>4 DEF Advance
  <2>2. CASE ClaimDue(r) \/ Crash(r) \/ LeaseExpires \/ RetryDue \/ UNCHANGED vars
    BY <2>0, <2>2, LoopOutside DEF WaitInv
  <2>3. ASSUME NEW a \in Actors, a # r,
               \/ Start(a) \/ Insert(a) \/ (\E s \in Signals : Send(a, s)) \/ StoreSignal(a)
               \/ Crash(a)
        PROVE  WaitInv(r, w)'
    BY <2>0, <2>3, BesideTheLoop
  <2>4. /\ \A c \in Callers \cup Starters : c \in Actors /\ c # r
        /\ \A d \in Senders : d \in Actors /\ d # r
        /\ \A q \in Runners : q = r
    BY <2>0 DEF Actors, Advancers, WorkflowAssumption
  <2>5. CASE \E c \in Callers \cup Starters : Start(c) \/ Insert(c)
    BY <2>3, <2>4, <2>5
  <2>6. CASE \E d \in Senders : (\E s \in Signals : Send(d, s)) \/ StoreSignal(d)
    BY <2>3, <2>4, <2>6
  <2>7. CASE \E a \in Actors : Crash(a)
    BY <2>2, <2>3, <2>7
  <2>8. CASE (\E q \in Runners : ClaimDue(q)) \/ (\E a \in Advancers : Advance(a))
    BY <2>0, <2>1, <2>2, <2>4, <2>8
  <2> QED
    BY <2>2, <2>5, <2>6, <2>7, <2>8 DEF Next
<1> QED
  BY <1>1, <1>2

LEMMA WaitStarts ==
  ASSUME WorkflowAssumption, Init, NEW r, NEW w, SoleLoop(r), SoleWait(w)
  PROVE  WaitInv(r, w)
<1>1. r \in Actors /\ 1 <= w
  BY DEF SoleLoop, SoleWait, Actors, Advancers, Steps, WorkflowAssumption
<1>2. \A a \in Actors : snap[a].waitingFor = 0 /\ pc[a] = "idle"
  BY DEF Init, NoSnapshot
<1>3. (\A i \in Steps : Made(i) = {}) /\ ~Done(w)
  BY DEF Init, Made, Done
<1>4. step <= w /\ status = "absent" /\ waitingFor = 0
  BY <1>1 DEF Init
<1> QED
  BY <1>1, <1>2, <1>3, <1>4 DEF WaitInv, BeforeWait, AtAStep

OneLoopOneWait == /\ \E r : SoleLoop(r)
                  /\ \A i, j \in Steps : WaitsFor[i] # {} /\ WaitsFor[j] # {} => i = j

\* With one loop and one step that waits, no step behind the wait runs before a
\* signal it asks for is stored, whatever the number of steps, starters, senders
\* and signals and however often the loop dies (_step_once, deliver_signal).
THEOREM WaitsAreHonoured == OneLoopOneWait => (Spec => []WaitHonoured)
<1> SUFFICES ASSUME OneLoopOneWait PROVE Spec => []WaitHonoured
  OBVIOUS
<1>1. PICK r : SoleLoop(r)
  BY DEF OneLoopOneWait
<1>2. CASE \A i \in Steps : WaitsFor[i] = {}
  <2>1. WaitHonoured
    BY <1>2 DEF WaitHonoured
  <2> QED
    BY <2>1, PTL
<1>3. CASE \E w \in Steps : WaitsFor[w] # {}
  <2>1. PICK w : SoleWait(w)
    BY <1>3 DEF OneLoopOneWait, SoleWait
  <2> DEFINE Inv == ShapeInv /\ WaitInv(r, w)
  <2>2. Init => Inv
    BY <1>1, <2>1, ShapeStarts, WaitStarts, WorkflowAssumption
  <2>3. Inv /\ [Next]_vars => Inv'
    BY <1>1, <2>1, ShapeStep, WaitStep, WorkflowAssumption
  <2>4. Inv => WaitHonoured
    <3> SUFFICES ASSUME Inv, NEW i \in Steps, WaitsFor[i] # {}, ~Sent(w),
                        IF i < StepCount THEN Made(i + 1) # {} ELSE status = "completed"
                 PROVE  FALSE
      BY <2>1 DEF WaitHonoured, SoleWait, Sent
    <3>1. i = w /\ BeforeWait(r, w)
      BY <2>1 DEF SoleWait, WaitInv
    <3>2. i < StepCount /\ Made(i + 1) # {}
      BY <3>1 DEF BeforeWait
    <3>3. i + 1 \in Steps /\ w < i + 1
      BY <3>1, <3>2, WorkflowAssumption DEF Steps, WorkflowAssumption
    <3> QED
      BY <3>1, <3>2, <3>3 DEF BeforeWait
  <2> QED
    BY <2>2, <2>3, <2>4, PTL DEF Spec
<1> QED
  BY <1>2, <1>3

-----------------------------------------------------------------------------
(* An attempt that is executed is the last of its step, and nobody works    *)
(* with a number behind one.                                                *)

OnceInv ==
    /\ executed \cap failed = {}
    /\ \A i \in Steps, n \in Numbers : <<i, n>> \in executed => \A m \in Made(i) : m <= n
    /\ \A a \in Actors : pc[a] \in {"run", "wait"} =>
        \A m \in Numbers : <<snap[a].step, m>> \in executed => num[a] <= m

\* Actors that keep the number they have, or have none.
LEMMA QuietOnce ==
  ASSUME OnceInv, UNCHANGED attempts,
         \A a \in Actors : pc'[a] \in {"run", "wait"} =>
             pc[a] \in {"run", "wait"} /\ snap'[a] = snap[a] /\ num'[a] = num[a]
  PROVE  OnceInv'
BY DEF OnceInv, Made, attempts

\* A new attempt is the first to be executed, with all numbers before it failed.
LEMMA CommitOnce ==
  ASSUME WorkflowAssumption, ShapeInv, ShapeInv', OnceInv, NEW a \in Actors,
         \/ Succeed(a) \/ ConsumeStored(a) \/ EnterWaiting(a)
         \/ \E isPermanent \in BOOLEAN : Fail(a, isPermanent)
  PROVE  OnceInv'
<1>0. TypeOK /\ Gapless /\ \A b \in Actors : Shaped(b)
  BY DEF ShapeInv
<1>1. /\ pc[a] \in {"run", "wait"} /\ ~Taken(a)
      /\ executed' \cup failed' = executed \cup failed \cup {Mine(a)}
      /\ \/ executed' = executed \cup {Mine(a)} /\ failed' = failed
         \/ executed' = executed /\ failed' = failed \cup {Mine(a)}
  BY DEF Succeed, ConsumeStored, EnterWaiting, Fail, Running
<1>2. PICK s \in Steps, n \in Numbers : s = snap[a].step /\ n = num[a]
  BY <1>0, <1>1 DEF Shaped, AtAStep
<1>3. Mine(a) = <<s, n>> /\ <<s, n>> \notin executed \cup failed
  BY <1>1, <1>2 DEF Mine, Taken
<1>4. Numbers \subseteq Nat
  BY DEF Numbers
<1>5. PICK k \in 0..MaxAttempts : Made(s) = 1..k
  BY <1>0 DEF Gapless
<1>6. PICK l \in 0..MaxAttempts : Made(s)' = 1..l
  BY DEF ShapeInv, Gapless
<1>7. Made(s)' = Made(s) \cup {n} /\ n \notin Made(s)
  BY <1>1, <1>3 DEF Made, Numbers
<1>8. k = n - 1 /\ l = n
  <2>1. n \in 1..l /\ n \notin 1..k /\ k \in Nat /\ l \in Nat /\ n \in Nat /\ n >= 1
    BY <1>2, <1>4, <1>5, <1>6, <1>7 DEF Numbers, WorkflowAssumption
  <2>2. \A m \in Nat : m \in 1..l <=> m \in 1..k \/ m = n
    BY <1>5, <1>6, <1>7
  <2>3. k < n
    BY <2>1
  <2>4. l <= n
    <3>1. l \in 1..k \/ l = n
      BY <2>1, <2>2
    <3> QED
      BY <2>1, <2>3, <3>1
  <2>5. n - 1 <= k
    <3>1. n = 1 \/ n - 1 \in 1..l
      BY <2>1
    <3>2. n = 1 \/ n - 1 \in 1..k
      BY <2>1, <2>2, <3>1
    <3> QED
      BY <2>1, <3>2
  <2> QED
    BY <2>1, <2>3, <2>4, <2>5
<1>9. \A m \in Numbers : <<s, m>> \notin executed
  <2> SUFFICES ASSUME NEW m \in Numbers, <<s, m>> \in executed PROVE FALSE
    OBVIOUS
  <2>1. n <= m
    BY <1>1, <1>2 DEF OnceInv
  <2>2. m \in 1..k
    BY <1>5 DEF Made, Numbers
  <2> QED
    BY <1>2, <1>4, <1>8, <2>1, <2>2
<1>10. executed' \cap failed' = {}
  BY <1>1, <1>3 DEF OnceInv
<1>11. \A i \in Steps, q \in Numbers : <<i, q>> \in executed' => \A m \in Made(i)' : m <= q
  <2> SUFFICES ASSUME NEW i \in Steps, NEW q \in Numbers, <<i, q>> \in executed', NEW m \in Made(i)'
               PROVE  m <= q
    OBVIOUS
  <2>1. CASE i = s
    <3>1. q = n
      BY <1>1, <1>3, <1>9, <2>1
    <3>2. m \in 1..n
      BY <1>6, <1>8, <2>1
    <3> QED
      BY <1>4, <3>1, <3>2
  <2>2. CASE i # s
    <3>1. <<i, q>> \in executed /\ m \in Made(i)
      BY <1>1, <1>3, <2>2 DEF Made
    <3> QED
      BY <3>1 DEF OnceInv
  <2> QED
    BY <2>1, <2>2
<1>12. ASSUME NEW b \in Actors, pc'[b] \in {"run", "wait"}, NEW m \in Numbers,
              <<snap'[b].step, m>> \in executed'
       PROVE  num'[b] <= m
  <2>1. b # a /\ pc'[b] = pc[b] /\ snap'[b] = snap[b] /\ num'[b] = num[b]
    <3>1. PICK p \in {"idle", "load"} : Leave(a, p)
      BY DEF Succeed, ConsumeStored, EnterWaiting, Fail
    <3> QED
      BY <1>0, <1>12, <3>1 DEF Leave, TypeOK
  <2>2. CASE <<snap[b].step, m>> \in executed
    BY <1>12, <2>1, <2>2 DEF OnceInv
  <2>3. CASE <<snap[b].step, m>> \notin executed
    <3>1. snap[b].step = s /\ m = n
      BY <1>1, <1>3, <1>12, <2>1, <2>3
    <3>2. num[b] \in Numbers /\ 1..(num[b] - 1) \subseteq 1..k
      BY <1>0, <1>5, <1>12, <2>1, <3>1 DEF Shaped
    <3>3. num[b] <= n
      <4>1. num[b] \in Nat /\ num[b] >= 1 /\ n \in Nat /\ n >= 1
        BY <1>2, <3>2 DEF Numbers, WorkflowAssumption
      <4>2. num[b] = 1 \/ num[b] - 1 \in 1..k
        BY <3>2, <4>1
      <4> QED
        BY <1>8, <4>1, <4>2
    <3> QED
      BY <2>1, <3>1, <3>3
  <2> QED
    BY <2>2, <2>3
<1> QED
  BY <1>10, <1>11, <1>12 DEF OnceInv

\* The number a step's last attempt gives: nothing is executed under it or later.
LEMMA LookOnce ==
  ASSUME WorkflowAssumption, ShapeInv, OnceInv, NEW a \in Actors, Look(a)
  PROVE  OnceInv'
<1>0. TypeOK /\ Gapless /\ \A b \in Actors : Shaped(b)
  BY DEF ShapeInv
<1>1. PICK i \in Steps : i = snap[a].step
  BY <1>0 DEF Look, Shaped, AtAStep
<1>2. /\ UNCHANGED attempts /\ snap' = snap /\ pc'[a] = NextMove(i, LastAttempt(i))
      /\ \A b \in Actors : b # a => pc'[b] = pc[b] /\ num'[b] = num[b]
  BY <1>0, <1>1 DEF Look, TypeOK
<1>3. ASSUME pc'[a] \in {"run", "wait"}, NEW m \in Numbers PROVE <<i, m>> \notin executed
  <2>1. NextMove(i, LastAttempt(i)) = "run"
    BY <1>2, <1>3 DEF NextMove
  <2>2. Made(i) = 1..LastAttempt(i) /\ LastAttempt(i) \in Nat
    BY <1>0, NextAttempt
  <2>3. <<i, LastAttempt(i)>> \notin executed
    BY <2>1 DEF NextMove
  <2> SUFFICES ASSUME <<i, m>> \in executed PROVE FALSE
    OBVIOUS
  <2>4. m \in Made(i) /\ m \in Nat /\ m >= 1
    BY DEF Made, Numbers
  <2>5. LastAttempt(i) \in Made(i) /\ m <= LastAttempt(i)
    BY <2>2, <2>4
  <2>6. LastAttempt(i) <= m
    BY <2>5 DEF OnceInv
  <2>7. m = LastAttempt(i)
    BY <2>2, <2>4, <2>5, <2>6
  <2> QED
    BY <2>3, <2>7
<1>4. ASSUME NEW b \in Actors, pc'[b] \in {"run", "wait"}, NEW m \in Numbers,
             <<snap'[b].step, m>> \in executed'
      PROVE  num'[b] <= m
  <2>1. <<snap[b].step, m>> \in executed
    BY <1>2, <1>4 DEF attempts
  <2>2. b # a
    BY <1>1, <1>3, <1>4, <2>1
  <2> QED
    BY <1>2, <1>4, <2>1, <2>2 DEF OnceInv
<1>5. executed' = executed /\ failed' = failed /\ \A j \in Steps : Made(j)' = Made(j)
  BY <1>2 DEF attempts, Made
<1> QED
  BY <1>4, <1>5 DEF OnceInv

LEMMA OnceStep ==
  ASSUME WorkflowAssumption
  PROVE  ShapeInv /\ OnceInv /\ [Next]_vars => (ShapeInv /\ OnceInv)'
<1> SUFFICES ASSUME ShapeInv, OnceInv, [Next]_vars PROVE ShapeInv' /\ OnceInv'
  OBVIOUS
<1>0. ShapeInv'
  BY ShapeStep
<1>1. ASSUME NEW a \in Actors,
             \/ Succeed(a) \/ ConsumeStored(a) \/ EnterWaiting(a)
             \/ \E isPermanent \in BOOLEAN : Fail(a, isPermanent)
      PROVE  OnceInv'
  BY <1>0, <1>1, CommitOnce
<1>2. ASSUME NEW a \in Actors, Look(a) PROVE OnceInv'
  BY <1>2, LookOnce
<1>3. ASSUME UNCHANGED attempts, NEW a \in Actors,
             \A b \in Actors : b # a => pc'[b] = pc[b] /\ snap'[b] = snap[b] /\ num'[b] = num[b],
             \/ pc'[a] \notin {"run", "wait"}
             \/ pc[a] = "run" /\ snap'[a] = snap[a] /\ num'[a] = num[a]
      PROVE  OnceInv'
  BY <1>3, QuietOnce
<1>4. TypeOK
  BY DEF ShapeInv
<1>5. ASSUME NEW a \in Actors, NEW p \in {"idle", "insert", "load"}, Leave(a, p) \/ GoTo(a, p),
             UNCHANGED attempts
      PROVE  OnceInv'
  BY <1>3, <1>4, <1>5 DEF Leave, GoTo, TypeOK
<1>6. ASSUME NEW a \in Advancers, Advance(a) PROVE OnceInv'
  <2>1. a \in Actors
    BY DEF Actors
  <2>2. CASE Conflict(a) \/ Complete(a) \/ Exhausted(a) \/ Replay(a)
    BY <1>5, <2>1, <2>2 DEF Conflict, Complete, Exhausted, Replay
  <2>3. CASE Load(a)
    <3>1. UNCHANGED attempts /\ pc'[a] \in {"idle", "look", "complete"}
      BY <1>4, <2>1, <2>3 DEF Load, Leave, TypeOK
    <3>2. \A b \in Actors : b # a => pc'[b] = pc[b] /\ snap'[b] = snap[b] /\ num'[b] = num[b]
      BY <1>4, <2>1, <2>3 DEF Load, Leave, TypeOK
    <3> QED
      BY <1>3, <2>1, <3>1, <3>2
  <2>4. CASE LookForSignal(a)
    <3>1. /\ UNCHANGED <<attempts, snap, num>> /\ pc[a] = "run"
          /\ \A b \in Actors : b # a => pc'[b] = pc[b]
      BY <1>4, <2>1, <2>4 DEF LookForSignal, Running, TypeOK
    <3> QED
      BY <1>3, <2>1, <3>1
  <2> QED
    BY <1>1, <1>2, <1>6, <2>1, <2>2, <2>3, <2>4 DEF Advance
<1>7. ASSUME NEW d \in Senders, (\E s \in Signals : Send(d, s)) \/ StoreSignal(d) PROVE OnceInv'
  <2>1. d \in Actors /\ UNCHANGED attempts
    BY <1>7 DEF Send, StoreSignal, Actors
  <2>2. pc'[d] \in {"send", "idle"}
    BY <1>4, <1>7, <2>1 DEF Send, StoreSignal, Leave, TypeOK
  <2>3. \A b \in Actors : b # d => pc'[b] = pc[b] /\ snap'[b] = snap[b] /\ num'[b] = num[b]
    BY <1>4, <1>7 DEF Send, StoreSignal, Leave, TypeOK
  <2> QED
    BY <1>3, <2>1, <2>2, <2>3
<1>8. ASSUME NEW c \in Callers \cup Starters, Start(c) \/ Insert(c) PROVE OnceInv'
  <2>1. UNCHANGED attempts /\ c \in Actors /\ \E p \in {"idle", "insert", "load"} : GoTo(c, p)
    BY <1>8 DEF Start, Insert, Started, Actors, Advancers
  <2> QED
    BY <1>5, <2>1
<1>9. ASSUME NEW a \in Actors, ClaimDue(a) \/ Crash(a) PROVE OnceInv'
  <2>1. UNCHANGED attempts /\ \E p \in {"idle", "load"} : Leave(a, p) \/ GoTo(a, p)
    BY <1>9 DEF ClaimDue, Crash
  <2> QED
    BY <1>5, <2>1
<1>10. CASE LeaseExpires \/ RetryDue \/ UNCHANGED vars
  <2>1. UNCHANGED <<attempts, actors>>
    BY <1>10 DEF LeaseExpires, RetryDue, vars
  <2>2. pc' = pc /\ snap' = snap /\ num' = num
    BY <2>1 DEF actors
  <2>3. \A a \in Actors : pc'[a] \in {"run", "wait"} =>
            pc[a] \in {"run", "wait"} /\ snap'[a] = snap[a] /\ num'[a] = num[a]
    BY <2>2
  <2> QED
    BY <1>0, <2>1, <2>3, QuietOnce
<1> QED
  BY <1>0, <1>6, <1>7, <1>8, <1>9, <1>10 DEF Next, Actors, Advancers

\* A step is executed once, by the last of its attempts, also in a workflow that
\* waits: whether the runner, a request or the arrival of a signal advances it
\* (_step_once and the unique key of the attempts).
THEOREM ExecutedOnceWithWaits == Spec => []ExecutedOnce
<1>1. Init => ShapeInv /\ OnceInv
  <2>1. Init => OnceInv
    BY DEF Init, OnceInv
  <2> QED
    BY <2>1, ShapeStarts, WorkflowAssumption
<1>2. ShapeInv /\ OnceInv /\ [Next]_vars => (ShapeInv /\ OnceInv)'
  BY OnceStep, WorkflowAssumption
<1>3. ShapeInv /\ OnceInv => ExecutedOnce
  <2> SUFFICES ASSUME ShapeInv, OnceInv, NEW i \in Steps, NEW n \in Made(i)
               PROVE  /\ 1..n \subseteq Made(i)
                      /\ <<i, n>> \in executed => n = LastAttempt(i) /\ <<i, n>> \notin failed
    BY DEF ExecutedOnce
  <2>1. Made(i) = 1..LastAttempt(i) /\ LastAttempt(i) \in Nat
    BY NextAttempt, WorkflowAssumption DEF ShapeInv
  <2>2. n \in Nat /\ 1 <= n /\ n <= LastAttempt(i) /\ n \in Numbers
    BY <2>1 DEF Made, Numbers
  <2>3. 1..n \subseteq Made(i) /\ LastAttempt(i) \in Made(i)
    BY <2>1, <2>2
  <2>4. ASSUME <<i, n>> \in executed PROVE n = LastAttempt(i) /\ <<i, n>> \notin failed
    <3>1. LastAttempt(i) <= n
      BY <2>2, <2>3, <2>4 DEF OnceInv
    <3> QED
      BY <2>1, <2>2, <2>4, <3>1 DEF OnceInv
  <2> QED
    BY <2>3, <2>4
<1> QED
  BY <1>1, <1>2, <1>3, PTL DEF Spec

=============================================================================
