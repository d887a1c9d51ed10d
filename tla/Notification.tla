---------------------------- MODULE Notification ----------------------------
(***************************************************************************)
(* One notification: its delivery row, the workflows that send it, and the *)
(* commands of the administrators.                                         *)
(*                                                                         *)
(* A run of the deliver activity reads the row, calls a provider, and      *)
(* commits: while it sends, nothing of it can be seen.  Its lease ends at  *)
(* the moment it is taken, so the commands never find it alive.  The first *)
(* workflow has the key delivery:<id>, a retry delivery:<id>:retry:<n>.    *)
(***************************************************************************)
EXTENDS Naturals

CONSTANTS
    Couriers,      \* processes that run workflow steps
    Staff,         \* administrators and requesters at work at one time
    MaxSends,      \* the attempts of a policy, of the delivery and of the step
    MaxNotices     \* bound: commands

ASSUME NotificationAssumption ==
    MaxSends \in Nat \ {0} /\ MaxNotices \in Nat

VARIABLES
    delivery,    \* its row, and whether the intent still holds the token
    notice,      \* the state of the intent
    outcomes,    \* attempt rows of providers: their numbers are unique
    flows,       \* flows[n]: the workflow of key n, 0 the first one
    run,         \* what each courier read
    admin,        \* what each of the staff read
    notices,
    unrecorded   \* some run has ended without a row of its outcome

notificationVars == <<delivery, notice, outcomes, flows, run, admin, notices,
                      unrecorded>>

DeliveryStates == {"pending", "sending", "delivered", "unknown", "failed", "dead",
                   "cancelled"}
FlowKeys == 0..(MaxSends * (MaxNotices + 1))
NotRequested == [status |-> "absent", attempt |-> 0, token |-> TRUE]
AtEase == [does |-> "nothing"]

NotificationTypeOK ==
    /\ delivery \in [status : DeliveryStates \union {"absent", "cleaned"},
                     attempt : FlowKeys, token : BOOLEAN]
    /\ notice \in {"absent", "pending", "delivered", "cancelled"}
    /\ outcomes \subseteq FlowKeys
    /\ flows \in [FlowKeys -> [state : {"none", "live", "ended"}, tries : 0..MaxSends]]
    /\ notices \in 0..MaxNotices
    /\ unrecorded \in BOOLEAN

NotificationInit ==
    /\ delivery = NotRequested
    /\ notice = "absent"
    /\ outcomes = {}
    /\ flows = [n \in FlowKeys |-> [state |-> "none", tries |-> 0]]
    /\ run = [c \in Couriers |-> AtEase]
    /\ admin = [s \in Staff |-> AtEase]
    /\ notices = 0
    /\ unrecorded = FALSE

InTable == delivery.status \in DeliveryStates

\* A column set back to what was read is not part of the update.
Column(read, new, current) == IF new = read THEN current ELSE new

-----------------------------------------------------------------------------
(* Commands.  Each begins with a read and commits what it changed.         *)

Begins(s, does) ==
    /\ admin[s] = AtEase /\ notices < MaxNotices
    /\ admin' = [admin EXCEPT ![s] = [does |-> does, row |-> delivery, flow |-> 0]]
    /\ notices' = notices + 1

\* The intent is new, or its key is known; the unique key makes this one step.
RequestNotification(s) ==
    /\ Begins(s, "start")
    /\ IF delivery.status = "absent"
       THEN delivery' = [NotRequested EXCEPT !.status = "pending"] /\ notice' = "pending"
       ELSE InTable /\ UNCHANGED <<delivery, notice>>
    /\ UNCHANGED <<outcomes, flows, run, unrecorded>>

CancelReads(s) ==
    /\ delivery.status = "pending"
    /\ Begins(s, "cancel")
    /\ UNCHANGED <<delivery, notice, outcomes, flows, run, unrecorded>>

CancelPendingNotification(s) ==
    /\ admin[s].does = "cancel"
    /\ IF InTable
       THEN /\ delivery' = [delivery EXCEPT !.status = "cancelled"]
            /\ notice' = IF notice = "pending" THEN "cancelled" ELSE notice
       ELSE UNCHANGED <<delivery, notice>>
    /\ admin' = [admin EXCEPT ![s] = AtEase]
    /\ UNCHANGED <<outcomes, flows, run, notices, unrecorded>>

RetryReads(s) ==
    /\ delivery.status \in DeliveryStates \ {"delivered"}
    /\ Begins(s, "retry")
    /\ UNCHANGED <<delivery, notice, outcomes, flows, run, unrecorded>>

RetryDelivery(s) ==
    /\ admin[s].does = "retry"
    /\ LET row == admin[s].row IN
       IF InTable
       THEN /\ delivery' = [delivery EXCEPT !.status = Column(row.status, "pending", @)]
            /\ notice' = IF notice = "cancelled" THEN "pending" ELSE notice
            /\ admin' = [admin EXCEPT ![s] = [@ EXCEPT !.does = "start",
                                                     !.flow = row.attempt + 1]]
       ELSE /\ admin' = [admin EXCEPT ![s] = AtEase]
            /\ UNCHANGED <<delivery, notice>>
    /\ UNCHANGED <<outcomes, flows, run, notices, unrecorded>>

\* runner.start in a transaction of its own: a key that exists starts nothing.
StartDelivery(s) ==
    /\ admin[s].does = "start"
    /\ LET n == admin[s].flow IN
       flows' = IF flows[n].state = "none" THEN [flows EXCEPT ![n].state = "live"] ELSE flows
    /\ admin' = [admin EXCEPT ![s] = AtEase]
    /\ UNCHANGED <<delivery, notice, outcomes, run, notices, unrecorded>>

\* The request ends here, whatever it has committed.
LeaveDesk(s) ==
    /\ admin[s] # AtEase
    /\ admin' = [admin EXCEPT ![s] = AtEase]
    /\ UNCHANGED <<delivery, notice, outcomes, flows, run, notices, unrecorded>>

\* cleanup_notifications_in_uow, of a delivery that is old enough.
CleanNotifications ==
    /\ delivery.status \in {"delivered", "failed", "dead", "cancelled"}
    /\ delivery' = [delivery EXCEPT !.status = "cleaned"]
    /\ outcomes' = {}
    /\ UNCHANGED <<notice, flows, run, admin, notices, unrecorded>>

-----------------------------------------------------------------------------
(* The runs of the workflows.                                              *)

(* A lease that has ended lets a second process run the same workflow.     *)
BeginRun(c, n) ==
    /\ run[c] = AtEase /\ flows[n].state = "live"
    /\ IF delivery.status \in {"pending", "sending", "unknown"}
       THEN /\ run' = [run EXCEPT ![c] = [does |-> "send", flow |-> n,
                                          tries |-> flows[n].tries, row |-> delivery]]
            /\ UNCHANGED flows
       ELSE /\ flows' = [flows EXCEPT ![n].state = "ended"]
            /\ UNCHANGED run
    /\ UNCHANGED <<delivery, notice, outcomes, admin, notices, unrecorded>>

Sends(c) == run[c].does = "send"
Attempt(c) == run[c].row.attempt + 1

\* A mutant of NumberIsFree: attempt rows have no unique key.
NumberUnchecked(c) == TRUE

NumberIsFree(c) == Attempt(c) \notin outcomes

\* What keeps a run from committing: the row is gone, or the step has been settled.
CommitsRun(c) ==
    /\ Sends(c) /\ InTable
    /\ flows[run[c].flow].tries = run[c].tries /\ flows[run[c].flow].state = "live"
    /\ run' = [run EXCEPT ![c] = AtEase]

EndFlow(c) == flows' = [flows EXCEPT ![run[c].flow].state = "ended"]

\* The workflow's own policy counts the failures of its step.
FailStep(c) ==
    LET n == run[c].flow IN
    flows' = [flows EXCEPT ![n] = [state |-> IF @.tries + 1 < MaxSends THEN "live" ELSE "ended",
                                   tries |-> @.tries + 1]]

WriteDelivery(c, status, keepsToken) ==
    delivery' = [status |-> Column(run[c].row.status, status, delivery.status),
                 attempt |-> Attempt(c),
                 token |-> IF keepsToken THEN delivery.token ELSE FALSE]

\* A provider has answered: the answer is a row of its own.
Answered(c) ==
    /\ CommitsRun(c) /\ NumberIsFree(c)
    /\ outcomes' = outcomes \union {Attempt(c)}

Delivered(c) ==
    /\ Answered(c)
    /\ WriteDelivery(c, "delivered", FALSE)
    /\ notice' = "delivered"
    /\ EndFlow(c)
    /\ UNCHANGED <<admin, notices, unrecorded>>

\* The provider may have sent it or not; the activity itself succeeds.
AnswerUnknown(c) ==
    /\ Answered(c)
    /\ WriteDelivery(c, "unknown", TRUE)
    /\ EndFlow(c)
    /\ UNCHANGED <<notice, admin, notices, unrecorded>>

RefusedForGood(c) ==
    /\ Answered(c)
    /\ WriteDelivery(c, "failed", FALSE)
    /\ EndFlow(c)
    /\ UNCHANGED <<notice, admin, notices, unrecorded>>

\* A passing failure: pending again and a failed step, or dead at the last attempt.
RefusedForNow(c) ==
    /\ Answered(c)
    /\ IF Attempt(c) >= MaxSends
       THEN WriteDelivery(c, "dead", FALSE) /\ EndFlow(c)
       ELSE WriteDelivery(c, "pending", TRUE) /\ FailStep(c)
    /\ UNCHANGED <<notice, admin, notices, unrecorded>>

\* Nobody was called: no template, no address, no provider, no key to the secret.
FailPermanently(c) ==
    /\ CommitsRun(c)
    /\ WriteDelivery(c, "failed", FALSE)
    /\ EndFlow(c)
    /\ unrecorded' = TRUE
    /\ UNCHANGED <<notice, outcomes, admin, notices>>

\* The trigger is no longer registered: neither the attempt nor the token is touched.
FailUnregistered(c) ==
    /\ CommitsRun(c)
    /\ delivery' = [delivery EXCEPT !.status = "failed"]
    /\ EndFlow(c)
    /\ unrecorded' = TRUE
    /\ UNCHANGED <<notice, outcomes, admin, notices>>

\* The step's timeout cuts the call short; what the row has become is committed.
SendTimesOut(c) ==
    /\ CommitsRun(c)
    /\ WriteDelivery(c, "sending", TRUE)
    /\ FailStep(c)
    /\ unrecorded' = TRUE
    /\ UNCHANGED <<notice, outcomes, admin, notices>>

\* A commit that collides, or a process that dies: the workflow is run again.
LoseRun(c) ==
    /\ Sends(c)
    /\ \/ ~InTable
       \/ ~NumberIsFree(c)
       \/ flows[run[c].flow] # [state |-> "live", tries |-> run[c].tries]
    /\ run' = [run EXCEPT ![c] = AtEase]
    /\ UNCHANGED <<delivery, notice, outcomes, flows, admin, notices, unrecorded>>

CrashCourier(c) ==
    /\ Sends(c)
    /\ run' = [run EXCEPT ![c] = AtEase]
    /\ UNCHANGED <<delivery, notice, outcomes, flows, admin, notices, unrecorded>>

CourierSteps(c) ==
    \/ \E n \in FlowKeys : BeginRun(c, n)
    \/ Delivered(c)
    \/ AnswerUnknown(c)
    \/ RefusedForGood(c)
    \/ RefusedForNow(c)
    \/ FailPermanently(c)
    \/ FailUnregistered(c)
    \/ SendTimesOut(c)
    \/ LoseRun(c)
    \/ CrashCourier(c)

NotificationNext ==
    \/ \E s \in Staff :
         \/ RequestNotification(s)
         \/ CancelReads(s)
         \/ CancelPendingNotification(s)
         \/ RetryReads(s)
         \/ RetryDelivery(s)
         \/ StartDelivery(s)
         \/ LeaveDesk(s)
    \/ \E c \in Couriers : CourierSteps(c)
    \/ CleanNotifications

NotificationSpec == NotificationInit /\ [][NotificationNext]_notificationVars

-----------------------------------------------------------------------------
(* Two runs of one delivery, of one workflow or of two, may both reach a   *)
(* provider.  While every run leaves a row of its outcome, the answer the  *)
(* later of them gets never takes the place of a delivery committed.       *)
SendsDoNotOverwrite ==
    [][(/\ delivery.status = "delivered" /\ ~unrecorded
        /\ outcomes \subseteq outcomes' /\ outcomes # outcomes')
       => delivery'.status = "delivered"]_notificationVars
=============================================================================
