----------------------------- MODULE Consumption -----------------------------
(***************************************************************************)
(* One consumption of the business center: the workflow                    *)
(* business_center.consume.v1 run by WorkflowRunner, its four activities   *)
(* validate, debit, fulfill and compensate, and the effects they write in    *)
(* units of work of their own: the ledger entries of the points program    *)
(* and the download grant of the archive.                                  *)
(*                                                                         *)
(* A handler is a sequence of committed transactions between the runner's  *)
(* read of the row and the commit of the attempt; a timeout, a crash or    *)
(* another actor may come between any two of them.                         *)
(***************************************************************************)
EXTENDS WorkflowRunner

CONSTANT
    ProviderFails  \* whether the fulfillment port may be temporarily unavailable

ValidateStep == 1
DebitStep == 2
Fulfill == 3
Compensate == 4

\* None of the activities waits for a signal.
ASSUME ConsumptionAssumption ==
    /\ StepCount = Compensate
    /\ WaitsFor = NoWaits
    /\ ProviderFails \in BOOLEAN

VARIABLES
    debits,       \* ledger entries of this consumption's debit
    reversals,    \* reversals of that debit
    grant,        \* the archive grant of this consumption
    item,         \* the archive item it is for
    fulfillment,  \* the status the fulfill activity returned, in the workflow state
    doing         \* how far each actor's handler has come

effects == <<debits, reversals, grant, item, fulfillment>>
consumptionVars == <<vars, effects, doing>>

ConsumptionInit ==
    /\ Init
    /\ debits = 0
    /\ reversals = 0
    /\ grant = "none"
    /\ item = "active"
    /\ fulfillment = "none"
    /\ doing = [a \in Advancers |-> "start"]

-----------------------------------------------------------------------------
In(a, activity, point) ==
    Running(a) /\ snap[a].step = activity /\ doing[a] = point

Becomes(a, point) == doing' = [doing EXCEPT ![a] = point]

(* DebitPoints: one entry per idempotency key; an existing one is returned. *)
Debit(a) ==
    /\ In(a, DebitStep, "start")
    /\ debits' = 1
    /\ Becomes(a, "done")
    /\ UNCHANGED <<vars, reversals, grant, item, fulfillment>>

(* IssueDownloadGrant: an existing grant is returned as it is; otherwise   *)
(* every item must be active ...                                           *)
IssueReads(a) ==
    /\ In(a, Fulfill, "start")
    /\ Becomes(a, IF grant # "none" THEN "issued"
                  ELSE IF item = "active" THEN "issuing" ELSE "refused")
    /\ UNCHANGED <<vars, effects>>

(* ... when it is inserted; the digest of the key is unique, and the loser *)
(* of a race returns the winner's grant.                                   *)
IssueInserts(a) ==
    /\ In(a, Fulfill, "issuing")
    /\ grant' = IF grant = "none" THEN "pending" ELSE grant
    /\ Becomes(a, "issued")
    /\ UNCHANGED <<vars, debits, reversals, item, fulfillment>>

(* ActivateDownloadGrant, unless the grant is already active; its window   *)
(* may have passed since it was issued.                                    *)
Activate(a) ==
    /\ In(a, Fulfill, "issued")
    /\ \/ /\ grant = "active"
          /\ Becomes(a, "done")
          /\ UNCHANGED grant
       \/ /\ grant = "pending"
          /\ grant' = "active"
          /\ Becomes(a, "done")
       \/ /\ grant \in {"pending", "expired"}
          /\ grant' = "expired"
          /\ Becomes(a, "refused")
    /\ UNCHANGED <<vars, debits, reversals, item, fulfillment>>

(* FulfillmentTemporarilyUnavailable, DEPENDENCY_UNAVAILABLE: below        *)
(* fulfillment_terminal_attempts it is raised, at that count it is final.  *)
Unavailable(a) ==
    /\ ProviderFails
    /\ In(a, Fulfill, "start") \/ In(a, Fulfill, "issued")
    /\ num[a] >= MaxAttempts
    /\ Becomes(a, "refused")
    /\ UNCHANGED <<vars, effects>>

(* ReverseLedgerEntry: one reversal per key and per entry, under a lock of *)
(* the entry; only when the fulfillment was not delivered.                 *)
AlwaysCompensates ==  \* mutant of CompensationDue: a fulfilled consumption is reversed too
    TRUE

CompensationDue == fulfillment = "terminal_failure"

ReverseDebit(a) ==
    /\ In(a, Compensate, "start")
    /\ CompensationDue
    /\ reversals' = 1
    /\ Becomes(a, "done")
    /\ UNCHANGED <<vars, debits, grant, item, fulfillment>>

-----------------------------------------------------------------------------
(* What the handler returns; the runner then commits the attempt.          *)
Returns(a) ==
    \/ In(a, ValidateStep, "start")
    \/ In(a, DebitStep, "done")
    \/ In(a, Fulfill, "done") \/ In(a, Fulfill, "refused")
    \/ In(a, Compensate, IF CompensationDue THEN "done" ELSE "start")

Return(a) ==
    /\ Returns(a)
    /\ Succeed(a)
    /\ fulfillment' = IF snap[a].step # Fulfill THEN fulfillment
                      ELSE IF doing[a] = "done" THEN "fulfilled" ELSE "terminal_failure"
    /\ Becomes(a, "start")
    /\ UNCHANGED <<debits, reversals, grant, item>>

(* What it raises: a timeout or a database error at any point, a rejection *)
(* (invalid quote, program not reversible) before it has written; fulfill  *)
(* turns rejections into terminal_failure itself.                          *)
Raise(a, isPermanent) ==
    /\ doing[a] # "refused"
    /\ isPermanent => doing[a] = "start" /\ snap[a].step # Fulfill
    /\ Fail(a, isPermanent)
    /\ Becomes(a, "start")
    /\ UNCHANGED effects

(* MarkArchiveItemUnavailable, RetireArchiveItem or a failed verification. *)
ItemUnavailable ==
    /\ item = "active"
    /\ item' = "unavailable"
    /\ UNCHANGED <<vars, debits, reversals, grant, fulfillment, doing>>

-----------------------------------------------------------------------------
(* The steps of the runner that do not depend on the handler.              *)
Bookkeeping(a) ==
    /\ Load(a) \/ Look(a) \/ Replay(a) \/ Exhausted(a) \/ Complete(a) \/ Conflict(a)
    /\ Becomes(a, "start")
    /\ UNCHANGED effects

Abandon(a) == Crash(a) /\ Becomes(a, "start") /\ UNCHANGED effects

Request(c) == (Start(c) \/ Insert(c) \/ (c \in Starters /\ Crash(c))) /\ UNCHANGED <<effects, doing>>
Claim(r) == ClaimDue(r) /\ UNCHANGED <<effects, doing>>
Wait == (LeaseExpires \/ RetryDue) /\ UNCHANGED <<effects, doing>>

(* A handler returns or is timed out; the loop runs on; requests may stop. *)
HandlerStep(a) ==
    \/ Debit(a)
    \/ IssueReads(a)
    \/ IssueInserts(a)
    \/ Activate(a)
    \/ Unavailable(a)
    \/ ReverseDebit(a)
    \/ Return(a)
    \/ \E isPermanent \in BOOLEAN : Raise(a, isPermanent)

ConsumptionNext ==
    \/ \E c \in Callers \cup Starters : Request(c)
    \/ \E r \in Runners : Claim(r)
    \/ \E a \in Advancers : Bookkeeping(a) \/ HandlerStep(a) \/ Abandon(a)
    \/ Wait
    \/ ItemUnavailable

ConsumptionSpec ==
    /\ ConsumptionInit
    /\ [][ConsumptionNext]_consumptionVars
    /\ WF_consumptionVars(Wait)
    /\ \A r \in Runners :
        WF_consumptionVars(Claim(r)) /\ WF_consumptionVars(Bookkeeping(r) \/ HandlerStep(r))

-----------------------------------------------------------------------------
\* The effects an activity leaves are of the kinds its capability writes.
ConsumptionTypeOK ==
    /\ TypeOK
    /\ debits \in 0..1 /\ reversals \in 0..1
    /\ grant \in {"none", "pending", "active", "expired"}
    /\ item \in {"active", "unavailable"}
    /\ fulfillment \in {"none", "fulfilled", "terminal_failure"}
    /\ doing \in [Advancers -> {"start", "issuing", "issued", "refused", "done"}]

\* A refunded consumption holds no active grant: compensation is for a consumption that
\* certainly has no usable delivery (features/business-center.md:62).
RefundedHoldsNothing == reversals = 1 => grant # "active"

\* "A terminated failure has an explicit reversal" (features/business-center.md:103):
\* a failed consumption has given the money back or delivered.
FailedKeepsNoMoney == status = "failed" => debits = reversals \/ grant = "active"

\* What the user sees of the effects, for the abstract specification.
Seen ==
    IF debits = 0 THEN "open"
    ELSE IF reversals = 0 THEN (IF grant = "active" THEN "delivered" ELSE "paid")
    ELSE (IF grant = "active" THEN "both" ELSE "refunded")

Abstract == INSTANCE Purchase WITH outcome <- Seen

\* A consumption advanced by one actor at a time, whatever crashes and timeouts it meets,
\* is a Purchase (for a port that is never unavailable, as the archive's is: a port that
\* fails after it has delivered would be refunded).
ImplementsPurchase == Abstract!Spec

=============================================================================
