-------------------------------- MODULE Tasks --------------------------------
(***************************************************************************)
(* The task queue of the kernel: the rows of kernel_task_instances, the    *)
(* TaskWorker loops that claim and execute them, and the retention of      *)
(* terminal rows; and the cron scheduler that enqueues into it.            *)
(*                                                                         *)
(* A worker leases a batch, then executes it row by row without looking at *)
(* the lease again.  An execution reads the row, runs the handler and      *)
(* writes back the columns its outcome changed against what it read, so    *)
(* the outcomes of two workers that hold one row overwrite each other.     *)
(***************************************************************************)
EXTENDS Integers, FiniteSets, FiniteSetsExt

CONSTANTS
    Workers,         \* the run_cycle loops, one per process
    MaxTasks,        \* bound: rows ever enqueued
    MaxTaskAttempts, \* RetryPolicy.max_attempts of every TaskSpec
    Batch,           \* rows claimed by one cycle
    MaxOverruns,     \* bound: leases that end under the worker that holds them
    MaxTaskCrashes   \* bound: crashes of workers

ASSUME TasksAssumption ==
    /\ {MaxTasks, MaxTaskAttempts, Batch} \subseteq Nat \ {0}
    /\ {MaxOverruns, MaxTaskCrashes} \subseteq Nat

VARIABLES
    task,         \* the rows
    todo,         \* what is left of each worker's batch
    executing,    \* the row each worker executes, or 0
    saw,          \* the row as that execution read it
    overruns,     \* leases of each row that ended under their holder
    completions,  \* handler runs of each row that committed as completed
    taskCrashes

tasksVars == <<task, todo, executing, saw, overruns, completions, taskCrashes>>

TaskIds == 1..MaxTasks
Live == {"pending", "claimed"}
FinalStates == {"completed", "dead"}

(* Due stands for next_run_at, lease for lease_owner and lease_expires_at. *)
Rows == [status : {"absent", "deleted"} \union Live \union FinalStates,
         attempt : 0..(MaxTaskAttempts + MaxOverruns),
         due : BOOLEAN,
         lease : {"none", "live", "expired"}]

NoRow == [status |-> "absent", attempt |-> 0, due |-> FALSE, lease |-> "none"]
NewRow == [NoRow EXCEPT !.status = "pending", !.due = TRUE]

TasksTypeOK ==
    /\ task \in [TaskIds -> Rows]
    /\ todo \in [Workers -> SUBSET TaskIds]
    /\ executing \in [Workers -> {0} \union TaskIds]
    /\ saw \in [Workers -> Rows]
    /\ overruns \in [TaskIds -> 0..MaxOverruns]
    /\ completions \in [TaskIds -> Nat]
    /\ taskCrashes \in 0..MaxTaskCrashes

TasksInit ==
    /\ task = [id \in TaskIds |-> NoRow]
    /\ todo = [w \in Workers |-> {}]
    /\ executing = [w \in Workers |-> 0]
    /\ saw = [w \in Workers |-> NoRow]
    /\ overruns = [id \in TaskIds |-> 0]
    /\ completions = [id \in TaskIds |-> 0]
    /\ taskCrashes = 0

FreshTask(id) == id = Min({i \in TaskIds : task[i].status = "absent"} \union {MaxTasks})
             /\ task[id].status = "absent"

-----------------------------------------------------------------------------
(* claim_due: the oldest due rows whose lease is not live, under SKIP      *)
(* LOCKED; which ones are the oldest is left open.                         *)
ClaimableTask(id) ==
    task[id].status \in Live /\ task[id].due /\ task[id].lease # "live"

ClaimTasks(w) ==
    /\ executing[w] = 0 /\ todo[w] = {}
    /\ LET due == {id \in TaskIds : ClaimableTask(id)} IN
       \E ids \in SUBSET due :
          /\ ids # {}
          /\ Cardinality(ids) = Min({Batch, Cardinality(due)})
          /\ task' = [id \in TaskIds |->
                IF id \in ids THEN [task[id] EXCEPT !.status = "claimed", !.lease = "live"]
                ELSE task[id]]
          /\ todo' = [todo EXCEPT ![w] = ids]
    /\ UNCHANGED <<executing, saw, overruns, completions, taskCrashes>>

(* _execute, up to the handler: the row as the session reads it now; a     *)
(* deleted row is passed over.                                             *)
ExecuteTask(w) ==
    /\ executing[w] = 0
    /\ \E id \in todo[w] :
          /\ todo' = [todo EXCEPT ![w] = @ \ {id}]
          /\ IF task[id].status = "deleted"
             THEN UNCHANGED <<executing, saw>>
             ELSE /\ executing' = [executing EXCEPT ![w] = id]
                  /\ saw' = [saw EXCEPT ![w] = task[id]]
    /\ UNCHANGED <<task, overruns, completions, taskCrashes>>

(* The flush updates the columns that differ from what was read; only a    *)
(* retry moves next_run_at.                                                *)
WrittenTask(read, new, row) ==
    [status  |-> IF new.status # read.status THEN new.status ELSE row.status,
     attempt |-> IF new.attempt # read.attempt THEN new.attempt ELSE row.attempt,
     due     |-> new.status # "pending" /\ row.due,
     lease   |-> IF new.lease # read.lease THEN new.lease ELSE row.lease]

EndsExecution(w) ==
    /\ executing' = [executing EXCEPT ![w] = 0]
    /\ saw' = [saw EXCEPT ![w] = NoRow]

(* The commit of an outcome.  On a row that retention deleted the update   *)
(* matches nothing: the error rolls the handler back and leaves run_cycle, *)
(* which gives up the rest of the batch to its leases.                     *)
Settles(w, outcome) ==
    LET id == executing[w] IN
    /\ IF task[id].status = "deleted"
       THEN /\ todo' = [todo EXCEPT ![w] = {}]
            /\ UNCHANGED <<task, completions>>
       ELSE /\ task' = [task EXCEPT ![id] = WrittenTask(saw[w], outcome, @)]
            /\ completions' = IF outcome.status = "completed"
                              THEN [completions EXCEPT ![id] = @ + 1] ELSE completions
            /\ UNCHANGED todo
    /\ EndsExecution(w)
    /\ UNCHANGED <<overruns, taskCrashes>>

CompleteTask(w) ==
    /\ executing[w] # 0
    /\ Settles(w, [saw[w] EXCEPT !.status = "completed", !.lease = "none"])

(* A failure, a timeout included: a retry while attempts are left ...      *)
RetriesForever(w) ==  \* mutant of RetryTask: the attempts are not counted
    /\ executing[w] # 0
    /\ Settles(w, [saw[w] EXCEPT !.status = "pending", !.lease = "none"])

RetryTask(w) ==
    /\ executing[w] # 0
    /\ saw[w].attempt + 1 < MaxTaskAttempts
    /\ Settles(w, [saw[w] EXCEPT !.status = "pending", !.attempt = @ + 1,
                                 !.lease = "none"])

(* ... and dead at the last one, or at once for a permanent failure or an  *)
(* unregistered key.                                                       *)
BuryTask(w) ==
    /\ executing[w] # 0
    /\ Settles(w, [saw[w] EXCEPT !.status = "dead", !.attempt = @ + 1, !.lease = "none"])

(* A crash or a shutdown: the open transaction and the batch are gone.     *)
CrashWorker(w) ==
    /\ taskCrashes < MaxTaskCrashes
    /\ executing[w] # 0 \/ todo[w] # {}
    /\ EndsExecution(w)
    /\ todo' = [todo EXCEPT ![w] = {}]
    /\ taskCrashes' = taskCrashes + 1
    /\ UNCHANGED <<task, overruns, completions>>

-----------------------------------------------------------------------------
(* Time.  A batch runs row by row, so a lease may end before its holder.   *)
Held(id) == \E w \in Workers : id \in todo[w] \union {executing[w]}

TaskLeaseEnds(id) ==
    /\ task[id].lease = "live"
    /\ IF Held(id) THEN /\ overruns[id] < MaxOverruns
                        /\ overruns' = [overruns EXCEPT ![id] = @ + 1]
                   ELSE UNCHANGED overruns
    /\ task' = [task EXCEPT ![id].lease = "expired"]
    /\ UNCHANGED <<todo, executing, saw, completions, taskCrashes>>

TaskBecomesDue(id) ==
    /\ task[id].status = "pending" /\ ~task[id].due
    /\ task' = [task EXCEPT ![id].due = TRUE]
    /\ UNCHANGED <<todo, executing, saw, overruns, completions, taskCrashes>>

(* ExecutionLogCleaner: terminal rows older than the cutoff.               *)
CleanTasks ==
    /\ \E old \in SUBSET {id \in TaskIds : task[id].status \in FinalStates} :
          /\ old # {}
          /\ task' = [id \in TaskIds |->
                IF id \in old THEN [NoRow EXCEPT !.status = "deleted"] ELSE task[id]]
    /\ UNCHANGED <<todo, executing, saw, overruns, completions, taskCrashes>>

TaskSteps(w) == ClaimTasks(w) \/ ExecuteTask(w) \/ CompleteTask(w) \/ RetryTask(w) \/ BuryTask(w)

TaskTime(id) == TaskLeaseEnds(id) \/ TaskBecomesDue(id)

TasksNext ==
    \/ \E w \in Workers : TaskSteps(w) \/ CrashWorker(w)
    \/ \E id \in TaskIds : TaskTime(id)
    \/ CleanTasks

-----------------------------------------------------------------------------
(* The cron scheduler, which feeds the queue.  The next fire time of each  *)
(* key is a row of kernel_cron_state.  A tick samples the clock once, then *)
(* visits the keys in a transaction each: it creates the missing anchor,   *)
(* or moves a due one past its clock with a conditional update and         *)
(* enqueues one task with it.  Several processes tick, with clocks sampled *)
(* at different moments.                                                   *)
CONSTANTS
    Keys,       \* the registered cron keys
    Tickers,    \* the tick loops, one per process
    MaxTime,    \* bound: the clock
    FireTimes   \* FireTimes[k]: the times at which the schedule of k fires

ASSUME CronAssumption ==
    /\ MaxTime \in Nat \ {0}
    /\ FireTimes \in [Keys -> SUBSET (1..(MaxTime + 1))]
    /\ \A k \in Keys : MaxTime + 1 \in FireTimes[k]
    /\ \A k \in Keys : Cardinality(FireTimes[k]) - 1 <= MaxTasks

VARIABLES
    clock,
    anchor,      \* next_run_at of each key, 0 while the row does not exist
    tickNow,     \* the clock each tick sampled, 0 between ticks
    visiting,    \* the keys a tick has left
    tickSaw,     \* <<key, anchor>> of the open transaction of each tick
    firedBy      \* the key each task was enqueued for

cronVars == <<clock, anchor, tickNow, visiting, tickSaw, firedBy>>
NoTick == <<>>

Times == 0..(MaxTime + 1)

CronTypeOK ==
    /\ TasksTypeOK
    /\ clock \in 1..MaxTime
    /\ anchor \in [Keys -> Times]
    /\ tickNow \in [Tickers -> 0..MaxTime]
    /\ visiting \in [Tickers -> SUBSET Keys]
    /\ tickSaw \in [Tickers -> {NoTick} \union (Keys \X Times)]
    /\ firedBy \in [TaskIds -> {NoTick} \union {<<k>> : k \in Keys}]

CronInit ==
    /\ TasksInit
    /\ clock = 1
    /\ anchor = [k \in Keys |-> 0]
    /\ tickNow = [t \in Tickers |-> 0]
    /\ visiting = [t \in Tickers |-> {}]
    /\ tickSaw = [t \in Tickers |-> NoTick]
    /\ firedBy = [id \in TaskIds |-> NoTick]

NextFire(k, now) == Min({f \in FireTimes[k] : f > now})

-----------------------------------------------------------------------------
BeginTick(t) ==
    /\ visiting[t] = {} /\ tickSaw[t] = NoTick
    /\ tickNow' = [tickNow EXCEPT ![t] = clock]
    /\ visiting' = [visiting EXCEPT ![t] = Keys]
    /\ UNCHANGED <<clock, anchor, tickSaw, firedBy, tasksVars>>

ReadAnchor(t) ==
    /\ tickSaw[t] = NoTick
    /\ \E k \in visiting[t] :
          /\ tickSaw' = [tickSaw EXCEPT ![t] = <<k, anchor[k]>>]
          /\ visiting' = [visiting EXCEPT ![t] = @ \ {k}]
    /\ UNCHANGED <<clock, anchor, tickNow, firedBy, tasksVars>>

EndsVisit(t) ==
    /\ tickSaw' = [tickSaw EXCEPT ![t] = NoTick]
    /\ UNCHANGED <<clock, tickNow, visiting>>

(* No row was found: it is inserted unless another tick did so first.      *)
CreateAnchor(t) ==
    /\ tickSaw[t] # NoTick /\ tickSaw[t][2] = 0
    /\ LET k == tickSaw[t][1] IN
       anchor' = IF anchor[k] = 0 THEN [anchor EXCEPT ![k] = NextFire(k, tickNow[t])]
                 ELSE anchor
    /\ EndsVisit(t)
    /\ UNCHANGED <<firedBy, tasksVars>>

NotDue(t) ==
    /\ tickSaw[t] # NoTick /\ tickSaw[t][2] > tickNow[t]
    /\ EndsVisit(t)
    /\ UNCHANGED <<anchor, firedBy, tasksVars>>

(* A due anchor: missed windows are coalesced, the update decides who      *)
(* fires, and the task is enqueued with it.                                *)
ClaimsBlindly(k, now) ==  \* mutant of ClaimsWindow: the update does not compare
    TRUE

ClaimsWindow(k, now) == anchor[k] <= now

FireCron(t) ==
    /\ tickSaw[t] # NoTick /\ tickSaw[t][2] \in 1..tickNow[t]
    /\ LET k == tickSaw[t][1] IN
       IF ClaimsWindow(k, tickNow[t])
       THEN /\ anchor' = [anchor EXCEPT ![k] = NextFire(k, tickNow[t])]
            /\ \E id \in TaskIds :
                  /\ FreshTask(id)
                  /\ task' = [task EXCEPT ![id] = NewRow]
                  /\ firedBy' = [firedBy EXCEPT ![id] = <<k>>]
       ELSE UNCHANGED <<anchor, task, firedBy>>
    /\ EndsVisit(t)
    /\ UNCHANGED <<todo, executing, saw, overruns, completions, taskCrashes>>

CronClock ==
    /\ clock < MaxTime
    /\ clock' = clock + 1
    /\ UNCHANGED <<anchor, tickNow, visiting, tickSaw, firedBy, tasksVars>>

TickSteps(t) == BeginTick(t) \/ ReadAnchor(t) \/ CreateAnchor(t) \/ NotDue(t) \/ FireCron(t)

CronNext ==
    \/ \E t \in Tickers : TickSteps(t)
    \/ CronClock
    \/ TasksNext /\ UNCHANGED cronVars

CronSpec == CronInit /\ [][CronNext]_<<cronVars, tasksVars>>

-----------------------------------------------------------------------------
(* tick fires a due window for a single process: a key has never enqueued  *)
(* more tasks than windows of its schedule have passed, however many       *)
(* processes tick and whatever clocks they sampled.                        *)
OneTaskPerWindow ==
    \A k \in Keys :
        Cardinality({id \in TaskIds : firedBy[id] = <<k>>})
            <= Cardinality({f \in FireTimes[k] : f <= clock})

(* run_cycle: a row whose lease never ended under a worker that held it is *)
(* completed once at most; crashes, retries and retention never repeat a   *)
(* committed handler.  The repeats are not bounded by the number of such   *)
(* leases: three workers that hold one row may write "completed" over      *)
(* "completed", which changes no status, so that the row goes on.          *)
RepeatsNeedOverruns ==
    \A id \in TaskIds : overruns[id] = 0 => completions[id] <= 1

(* Every row that was enqueued is completed or dead in the end, whatever   *)
(* its workers overwrite, under retries bounded by the policy.             *)
TasksSettle ==
    \A id \in TaskIds : task[id].status \in Live ~> [](task[id].status \notin Live)

(* A window of a schedule does its work once: one task, and one completion *)
(* unless a worker overran its lease (tick and run_cycle).                 *)
WorkedOnce == OneTaskPerWindow /\ RepeatsNeedOverruns

=============================================================================
