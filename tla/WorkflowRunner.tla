--------------------------- MODULE WorkflowRunner ---------------------------
(***************************************************************************)
(* One persistent workflow instance of the kernel: the row, its step       *)
(* attempts and its signals; the run_due loops that claim the instance     *)
(* under a lease; the request handlers that start it and advance it        *)
(* without one; the senders of signals.                                    *)
(*                                                                         *)
(* An actor reads the row when its transaction begins and writes, at the   *)
(* commit, only the columns it changed against what it read: what happens  *)
(* between the two is what the module is about.  Time is abstracted to     *)
(* whether wake_at has come and whether the lease is live or expired.      *)
(***************************************************************************)
EXTENDS Naturals, FiniteSets

CONSTANTS
    StepCount,    \* activities of the workflow, in order 1..StepCount
    Signals,      \* signal ids that may be sent
    WaitsFor,     \* WaitsFor[i]: the signals that match the key step i waits for, {} if none
    MaxAttempts,  \* RetryPolicy.max_attempts
    Runners,      \* WorkflowRunner.run_due loops
    Callers,      \* request handlers: runner.start, then runner.advance
    Starters,     \* commands and event handlers that only call runner.start
    Senders,      \* callers of deliver_signal
    MaxFaults     \* bound: crashes and overrun leases in one behaviour

Steps == 1..StepCount
Finished == StepCount + 1   \* current_step is None
Advancers == Runners \cup Callers
Actors == Advancers \cup Starters \cup Senders
NoSignal == "no signal"

ASSUME WorkflowAssumption ==
    /\ StepCount \in Nat \ {0}
    /\ WaitsFor \in [Steps -> SUBSET Signals]
    /\ MaxAttempts \in Nat \ {0}
    /\ Runners \cap Callers = {}
    /\ Advancers \cap (Starters \cup Senders) = {}
    /\ Starters \cap Senders = {}
    /\ MaxFaults \in Nat
    /\ NoSignal \notin Signals

\* Workflows none of whose steps waits, or one does.
WaitingAt(i) == [j \in Steps |-> IF j = i THEN Signals ELSE {}]
NoWaits == [i \in Steps |-> {}]
FirstWaits == WaitingAt(1)
SecondWaits == WaitingAt(2)

VARIABLES
    \* kernel_workflow_instances: the row; of its state column the steps whose result
    \* it holds and the step whose signal it waits for (0: none)
    status, step, wake, lease, results, waitingFor,
    \* kernel_workflow_step_attempts: pairs <<step, attempt>> by status; permanent is
    \* the subset of failed with an error category that is not retried
    executed, failed, permanent,
    \* kernel_workflow_signals, and those of them with delivered_at set
    stored, delivered,
    \* each actor's transaction: where it is, the row as it read it, the attempt it
    \* runs as, the signal it sends or consumes
    pc, snap, num, sig,
    \* crashes and overrun leases so far
    faults

row == <<status, step, wake, lease, results, waitingFor>>
attempts == <<executed, failed, permanent>>
signals == <<stored, delivered>>
actors == <<pc, snap, num, sig>>
vars == <<row, attempts, signals, actors, faults>>

Statuses == {"pending", "waiting", "completed", "failed"}
Terminal == {"completed", "failed"}
Leases == {"none", "live", "expired"}
Points == {"idle", "insert", "load", "look", "replay", "exhausted", "run", "signals",
           "wait", "complete", "send"}

Snapshot == [status: Statuses \cup {"absent"}, step: 1..Finished, lease: Leases,
             results: SUBSET Steps, waitingFor: 0..StepCount]
NoSnapshot == [status |-> "absent", step |-> 1, lease |-> "none", results |-> {},
               waitingFor |-> 0]
Attempts == Steps \X (1..MaxAttempts)

TypeOK ==
    /\ status \in Statuses \cup {"absent"}
    /\ step \in 1..Finished
    /\ wake \in {"none", "now", "later"}
    /\ lease \in Leases
    /\ results \subseteq Steps
    /\ waitingFor \in 0..StepCount
    /\ executed \subseteq Attempts
    /\ failed \subseteq Attempts
    /\ permanent \subseteq failed
    /\ stored \subseteq Signals
    /\ delivered \subseteq stored
    /\ pc \in [Actors -> Points]
    /\ snap \in [Actors -> Snapshot]
    /\ num \in [Actors -> 0..MaxAttempts]
    /\ sig \in [Actors -> Signals \cup {NoSignal}]
    /\ faults \in 0..MaxFaults

Init ==
    /\ status = "absent"
    /\ step = 1
    /\ wake = "none"
    /\ lease = "none"
    /\ results = {}
    /\ waitingFor = 0
    /\ executed = {}
    /\ failed = {}
    /\ permanent = {}
    /\ stored = {}
    /\ delivered = {}
    /\ pc = [a \in Actors |-> "idle"]
    /\ snap = [a \in Actors |-> NoSnapshot]
    /\ num = [a \in Actors |-> 0]
    /\ sig = [a \in Actors |-> NoSignal]
    /\ faults = 0

-----------------------------------------------------------------------------
(* What a transaction does to the memory of its actor.                     *)
GoTo(a, point) ==
    /\ pc' = [pc EXCEPT ![a] = point]
    /\ UNCHANGED <<snap, num, sig>>

Leave(a, point) ==
    /\ pc' = [pc EXCEPT ![a] = point]
    /\ snap' = [snap EXCEPT ![a] = NoSnapshot]
    /\ num' = [num EXCEPT ![a] = 0]
    /\ sig' = [sig EXCEPT ![a] = NoSignal]

(* The row as this transaction read it.                                    *)
Read == [status |-> status, step |-> step, lease |-> lease, results |-> results,
         waitingFor |-> waitingFor]

(* Setting a column to the value that was read is not part of the UPDATE.  *)
Written(read, new, current) == IF new = read THEN current ELSE new

SetStatus(a, new) == status' = Written(snap[a].status, new, status)
ReleaseLease(a) == lease' = Written(snap[a].lease, "none", lease)

-----------------------------------------------------------------------------
(* WorkflowRunner.start: select by business key, insert when there is none; *)
(* the unique key rejects the second of two concurrent inserts.  A caller   *)
(* whose instance is terminal only reports it.                              *)
Started(c) == IF c \in Callers THEN "load" ELSE "idle"

Start(c) ==
    /\ pc[c] = "idle"
    /\ status \notin Terminal
    /\ GoTo(c, IF status = "absent" THEN "insert" ELSE Started(c))
    /\ UNCHANGED <<row, attempts, signals, faults>>

Insert(c) ==
    /\ pc[c] = "insert"
    /\ IF status = "absent"
       THEN /\ status' = "pending"
            /\ wake' = "now"
            /\ GoTo(c, Started(c))
       ELSE /\ UNCHANGED <<status, wake>>
            /\ GoTo(c, "idle")
    /\ UNCHANGED <<step, lease, results, waitingFor, attempts, signals, faults>>

(* WorkflowRepository.claim_due.                                           *)
ClaimableOnce ==  \* mutant of Claimable: an expired lease is never taken over
    status = "pending" /\ wake = "now" /\ lease = "none"

Claimable == status = "pending" /\ wake = "now" /\ lease # "live"

ClaimDue(r) ==
    /\ pc[r] = "idle"
    /\ Claimable
    /\ lease' = "live"
    /\ GoTo(r, "load")
    /\ UNCHANGED <<status, step, wake, results, waitingFor, attempts, signals, faults>>

-----------------------------------------------------------------------------
(* _step_once, first statement: session.get.                               *)
Load(a) ==
    /\ pc[a] = "load"
    /\ IF status \in Terminal
       THEN Leave(a, "idle")
       ELSE /\ pc' = [pc EXCEPT ![a] = IF step = Finished THEN "complete" ELSE "look"]
            /\ snap' = [snap EXCEPT ![a] = Read]
            /\ UNCHANGED <<num, sig>>
    /\ UNCHANGED <<row, attempts, signals, faults>>

(* RetryPolicy.should_retry of an attempt with this number.                *)
ShouldRetry(n, isPermanent) == ~isPermanent /\ n < MaxAttempts

Made(i) == {n \in 1..MaxAttempts : <<i, n>> \in executed \cup failed}
LastAttempt(i) == IF Made(i) = {} THEN 0 ELSE CHOOSE n \in Made(i) : \A m \in Made(i) : m <= n

(* last_attempt(current_step) is a second statement: under READ COMMITTED  *)
(* it sees attempts committed after the row was read.                      *)
NextMove(i, n) ==
    IF <<i, n>> \in executed THEN "replay"
    ELSE IF <<i, n>> \in failed /\ ~ShouldRetry(n, <<i, n>> \in permanent) THEN "exhausted"
    ELSE "run"

Look(a) ==
    /\ pc[a] = "look"
    /\ LET i == snap[a].step
           n == LastAttempt(i)
       IN /\ pc' = [pc EXCEPT ![a] = NextMove(i, n)]
          /\ num' = [num EXCEPT ![a] = IF NextMove(i, n) = "run" THEN n + 1 ELSE 0]
    /\ UNCHANGED <<row, attempts, signals, snap, sig, faults>>

(* The executed attempt is still that of the current step: move on.        *)
ReplayCounting(a) ==  \* mutant of Replay: current_step is counted up in the database
    /\ pc[a] = "replay"
    /\ step' = IF step < Finished THEN step + 1 ELSE Finished
    /\ wake' = "now"
    /\ Leave(a, "load")
    /\ UNCHANGED <<status, lease, results, waitingFor, attempts, signals, faults>>

Replay(a) ==
    /\ pc[a] = "replay"
    /\ step' = snap[a].step + 1
    /\ wake' = "now"
    /\ Leave(a, "load")
    /\ UNCHANGED <<status, lease, results, waitingFor, attempts, signals, faults>>

Exhausted(a) ==
    /\ pc[a] = "exhausted"
    /\ SetStatus(a, "failed")
    /\ ReleaseLease(a)
    /\ Leave(a, "idle")
    /\ UNCHANGED <<step, wake, results, waitingFor, attempts, signals, faults>>

(* current_step is None.                                                   *)
Complete(a) ==
    /\ pc[a] = "complete"
    /\ SetStatus(a, "completed")
    /\ ReleaseLease(a)
    /\ Leave(a, "idle")
    /\ UNCHANGED <<step, wake, results, waitingFor, attempts, signals, faults>>

-----------------------------------------------------------------------------
(* The handler has returned or raised; its attempt is one insert of the    *)
(* commit, and (workflow, step, attempt) is unique.                        *)
Running(a) == pc[a] = "run"
Mine(a) == <<snap[a].step, num[a]>>

Taken(a) == Mine(a) \in executed \cup failed

(* IntegrityError: rolled back, and raised out of advance.                 *)
Conflict(a) ==
    /\ pc[a] \in {"run", "wait"}
    /\ Taken(a)
    /\ Leave(a, "idle")
    /\ UNCHANGED <<row, attempts, signals, faults>>

Succeed(a) ==
    /\ Running(a)
    /\ WaitsFor[snap[a].step] = {}
    /\ ~Taken(a)
    /\ executed' = executed \cup {Mine(a)}
    /\ results' = snap[a].results \cup {snap[a].step}
    /\ waitingFor' = snap[a].waitingFor
    /\ step' = snap[a].step + 1
    /\ wake' = "now"
    /\ Leave(a, "load")
    /\ UNCHANGED <<status, lease, failed, permanent, signals, faults>>

(* The failed attempt is persisted; retried later or the instance fails.   *)
Fail(a, isPermanent) ==
    /\ Running(a)
    /\ ~Taken(a)
    /\ failed' = failed \cup {Mine(a)}
    /\ permanent' = IF isPermanent THEN permanent \cup {Mine(a)} ELSE permanent
    /\ IF ShouldRetry(num[a], isPermanent)
       THEN wake' = "later" /\ UNCHANGED status
       ELSE SetStatus(a, "failed") /\ UNCHANGED wake
    /\ ReleaseLease(a)
    /\ Leave(a, "idle")
    /\ UNCHANGED <<step, results, waitingFor, executed, signals, faults>>

-----------------------------------------------------------------------------
(* A step that waits: the runner looks for a stored signal, then commits   *)
(* either its consumption or the waiting state.                            *)
Undelivered(i) == (stored \ delivered) \cap WaitsFor[i]

LookForSignal(a) ==
    /\ Running(a)
    /\ WaitsFor[snap[a].step] # {}
    /\ \E s \in IF Undelivered(snap[a].step) = {} THEN {NoSignal} ELSE Undelivered(snap[a].step) :
        sig' = [sig EXCEPT ![a] = s]
    /\ pc' = [pc EXCEPT ![a] = "wait"]
    /\ UNCHANGED <<row, attempts, signals, snap, num, faults>>

ConsumeStored(a) ==
    /\ pc[a] = "wait"
    /\ sig[a] # NoSignal
    /\ ~Taken(a)
    /\ executed' = executed \cup {Mine(a)}
    /\ delivered' = delivered \cup {sig[a]}
    /\ results' = snap[a].results \cup {snap[a].step}
    /\ waitingFor' = snap[a].waitingFor
    /\ step' = snap[a].step + 1
    /\ wake' = "now"
    /\ Leave(a, "load")
    /\ UNCHANGED <<status, lease, failed, permanent, stored, faults>>

EnterWaitingStillDue(a) ==  \* mutant of EnterWaiting: the instance stays pending and due
    /\ pc[a] = "wait"
    /\ sig[a] = NoSignal
    /\ ~Taken(a)
    /\ executed' = executed \cup {Mine(a)}
    /\ ReleaseLease(a)
    /\ results' = snap[a].results \cup {snap[a].step}
    /\ waitingFor' = snap[a].step
    /\ wake' = "now"
    /\ Leave(a, "idle")
    /\ UNCHANGED <<status, step, failed, permanent, signals, faults>>

EnterWaiting(a) ==
    /\ pc[a] = "wait"
    /\ sig[a] = NoSignal
    /\ ~Taken(a)
    /\ executed' = executed \cup {Mine(a)}
    /\ SetStatus(a, "waiting")
    /\ ReleaseLease(a)
    /\ results' = snap[a].results \cup {snap[a].step}
    /\ waitingFor' = snap[a].step
    /\ wake' = "none"
    /\ Leave(a, "idle")
    /\ UNCHANGED <<step, failed, permanent, signals, faults>>

(* deliver_signal: read the row and look the signal up by its id ...       *)
Send(d, s) ==
    /\ pc[d] = "idle"
    /\ status \notin Terminal \cup {"absent"}
    /\ s \notin stored
    /\ pc' = [pc EXCEPT ![d] = "send"]
    /\ snap' = [snap EXCEPT ![d] = Read]
    /\ sig' = [sig EXCEPT ![d] = s]
    /\ UNCHANGED <<row, attempts, signals, num, faults>>

(* ... then store it, and wake the instance if the row that was read waits *)
(* for this key.  A signal stored since violates the unique key.           *)
Wakes(d) ==
    /\ snap[d].status = "waiting"
    /\ snap[d].waitingFor # 0
    /\ sig[d] \in WaitsFor[snap[d].waitingFor]

AlreadyStored(d) == sig[d] \in stored

StoreSignal(d) ==
    /\ pc[d] = "send"
    /\ IF AlreadyStored(d)
       THEN UNCHANGED <<row, stored>>
       ELSE /\ stored' = stored \cup {sig[d]}
            /\ IF Wakes(d)
               THEN /\ SetStatus(d, "pending")
                    /\ step' = Written(snap[d].step,
                                       IF snap[d].step = Finished THEN Finished
                                       ELSE snap[d].step + 1, step)
                    /\ wake' = "now"
                    /\ results' = snap[d].results
                    /\ waitingFor' = 0
                    /\ UNCHANGED lease
               ELSE UNCHANGED row
    /\ Leave(d, "idle")
    /\ UNCHANGED <<attempts, delivered, faults>>

-----------------------------------------------------------------------------
(* The process dies, the request is cancelled, or an error escapes; the    *)
(* transaction is rolled back and a lease stays until it expires.          *)
Crash(a) ==
    /\ pc[a] # "idle"
    /\ faults < MaxFaults
    /\ faults' = faults + 1
    /\ Leave(a, "idle")
    /\ UNCHANGED <<row, attempts, signals>>

(* Under a busy loop it is a fault: a step outlived lease_seconds.         *)
LeaseExpires ==
    /\ lease = "live"
    /\ lease' = "expired"
    /\ IF \E r \in Runners : pc[r] # "idle"
       THEN faults < MaxFaults /\ faults' = faults + 1
       ELSE UNCHANGED faults
    /\ UNCHANGED <<status, step, wake, results, waitingFor, attempts, signals, actors>>

RetryDue ==
    /\ wake = "later"
    /\ wake' = "now"
    /\ UNCHANGED <<status, step, lease, results, waitingFor, attempts, signals, actors, faults>>

Advance(a) ==
    \/ Load(a)
    \/ Look(a)
    \/ Replay(a)
    \/ Exhausted(a)
    \/ Complete(a)
    \/ Conflict(a)
    \/ Succeed(a)
    \/ \E isPermanent \in BOOLEAN : Fail(a, isPermanent)
    \/ LookForSignal(a)
    \/ ConsumeStored(a)
    \/ EnterWaiting(a)

Next ==
    \/ \E c \in Callers \cup Starters : Start(c) \/ Insert(c)
    \/ \E r \in Runners : ClaimDue(r)
    \/ \E a \in Advancers : Advance(a)
    \/ \E d \in Senders : (\E s \in Signals : Send(d, s)) \/ StoreSignal(d)
    \/ \E a \in Actors : Crash(a)
    \/ LeaseExpires
    \/ RetryDue

(* container.start loops run_due forever; clocks run; requests may stop.   *)
Fairness ==
    /\ \A r \in Runners : WF_vars(ClaimDue(r)) /\ WF_vars(Advance(r))
    /\ WF_vars(LeaseExpires)
    /\ WF_vars(RetryDue)

Spec == Init /\ [][Next]_vars
FairSpec == Spec /\ Fairness

-----------------------------------------------------------------------------
ExecutedSteps == {i \in Steps : \E n \in 1..MaxAttempts : <<i, n>> \in executed}

\* A step is executed at most once, by the last of its attempts, and attempts are
\* numbered without a gap: two actors that advance the same instance, with or
\* without its lease, never both commit the step (the unique key of
\* kernel_workflow_step_attempts, numbers taken from last_attempt).
ExecutedOnce ==
    \A i \in Steps : \A n \in Made(i) :
        /\ 1..n \subseteq Made(i)
        /\ <<i, n>> \in executed => n = LastAttempt(i) /\ <<i, n>> \notin failed

\* No step has an attempt before every step in front of it was executed, and a
\* completed instance has executed all of them: blind writes of current_step by
\* actors that read an old row never skip a step.
StepsInOrder ==
    /\ \A i \in Steps : Made(i) # {} => 1..(i - 1) \subseteq ExecutedSteps
    /\ status = "completed" => ExecutedSteps = Steps

\* The state column, rewritten whole from what each actor read, holds the result of
\* every executed step and of no other: no concurrent commit loses one.
ResultsKept == results = ExecutedSteps

\* A failed instance failed by policy: some step is not executed and its last attempt
\* was permanent or the last that RetryPolicy.max_attempts allows.
FailedByPolicy ==
    status = "failed" =>
        \E i \in Steps \ ExecutedSteps :
            <<i, MaxAttempts>> \in failed \/ <<i, LastAttempt(i)>> \in permanent

\* Once completed or failed, an instance keeps its status, its results and its
\* attempts, whoever was still in the middle of a step of it.
TerminalIsFinal ==
    [][(status \in Terminal) => UNCHANGED <<status, results, attempts>> ]_vars

\* What the actors of one instance, most of them without its lease, cannot undo: steps
\* are executed once and in order, keep their results, and the end is final.
WorkStands == [](ExecutedOnce /\ StepsInOrder /\ ResultsKept) /\ TerminalIsFinal

\* A step behind a wait runs only once a signal the wait asks for has been sent
\* ("Advance one instance until it waits, completes or fails", runner.py:348).
WaitHonoured ==
    \A i \in Steps :
        WaitsFor[i] # {} /\ (IF i < StepCount THEN Made(i + 1) # {} ELSE status = "completed")
        => stored \cap WaitsFor[i] # {}

\* A started instance without waits ends completed or failed, whatever crashes,
\* expired leases and lost attempts occur on the way (container.start's loop).
EventuallyTerminal == (status = "pending") ~> (status \in Terminal)

\* An instance whose signal was stored, before or while it waits, ends
\* ("signals may arrive before the workflow waits and are consumed from durable
\* storage", runner.py:9).
StoredSignalWakes ==
    (\A i \in Steps : WaitsFor[i] # {} => stored \cap WaitsFor[i] # {}) /\ status # "absent"
        ~> status \in Terminal

=============================================================================
