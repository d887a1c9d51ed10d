---------------------------- MODULE Fulfillment ----------------------------
(***************************************************************************)
(* The user center's fulfillment of a paid order for points and the        *)
(* compensation of its refunds, composed with the payment order.  Events   *)
(* of the outbox start one workflow per order and one per refund; they are *)
(* delivered at least once and in any order.  An activity commits in a     *)
(* unit of work of its own and may run again before its attempt is         *)
(* recorded; one whose error stays ends its workflow.                      *)
(***************************************************************************)
EXTENDS Payments

VARIABLES
    buying,     \* the workflow point_purchase.fulfill.v1
    entry,      \* the ledger entry of the credit
    credits,    \* ledger entries that credited the order
    undoing     \* the workflow refund.compensate.v1 of each refund

fulfillmentVars == <<buying, entry, credits, undoing>>

FulfillmentTypeOK ==
    /\ buying \in {"none", "started", "validated", "credited", "failed"}
    /\ entry \in {"none", "credited", "reversed"}
    /\ credits \in Nat
    /\ undoing \in [Refunds -> {"none", "started", "found", "missing", "reversed", "failed"}]

FulfillmentInit ==
    /\ PaymentsInit
    /\ buying = "none"
    /\ entry = "none"
    /\ credits = 0
    /\ undoing = [k \in Refunds |-> "none"]

-----------------------------------------------------------------------------
(* fulfill_captured_payment: one workflow per order.                       *)
StartBuying ==
    /\ captureEvents > 0
    /\ buying = "none"
    /\ buying' = "started"
    /\ UNCHANGED <<entry, credits, undoing, paymentsVars>>

CapturedOrder == order.state \in {"captured", "partially_refunded", "refunded"}

Validate ==
    /\ buying = "started"
    /\ buying' = IF CapturedOrder THEN "validated" ELSE "failed"
    /\ UNCHANGED <<entry, credits, undoing, paymentsVars>>

(* CreditPoints with the key of the order.                                 *)
CreditOnce ==
    IF entry = "none" THEN entry' = "credited" /\ credits' = credits + 1
                      ELSE UNCHANGED <<entry, credits>>

CreditPurchase ==
    /\ buying = "validated"
    /\ credits <= 1    \* bound: no property needs a third credit
    /\ CreditOnce
    /\ UNCHANGED <<buying, undoing, paymentsVars>>

RecordCredit ==
    /\ buying = "validated" /\ entry # "none"
    /\ buying' = "credited"
    /\ UNCHANGED <<entry, credits, undoing, paymentsVars>>

-----------------------------------------------------------------------------
(* compensate_refund: one workflow per refund.                             *)
Undo(k, from, to) ==
    /\ undoing[k] = from
    /\ undoing' = [undoing EXCEPT ![k] = to]

StartUndoing(k) ==
    /\ k \in refundEvents
    /\ Undo(k, "none", "started")
    /\ UNCHANGED <<buying, entry, credits, paymentsVars>>

(* resolve: the credit as it is found now becomes part of the workflow's   *)
(* state, and is not looked up again.                                      *)
ResolveRefund(k) ==
    /\ Undo(k, "started", IF entry = "none" THEN "missing" ELSE "found")
    /\ UNCHANGED <<buying, entry, credits, paymentsVars>>

(* reverse: without an entry every attempt fails; an entry is reversed     *)
(* once, for the first refund that comes.                                  *)
ReverseRefund(k) ==
    /\ \/ Undo(k, "missing", "failed") /\ UNCHANGED entry
       \/ entry = "credited" /\ Undo(k, "found", "reversed") /\ entry' = "reversed"
       \/ entry = "reversed" /\ Undo(k, "found", "failed") /\ UNCHANGED entry
    /\ UNCHANGED <<buying, credits, paymentsVars>>

FulfillSteps ==
    \/ StartBuying \/ Validate \/ CreditPurchase \/ RecordCredit
    \/ \E k \in Refunds : StartUndoing(k) \/ ResolveRefund(k) \/ ReverseRefund(k)

FulfillmentNext ==
    \/ PaymentsNext /\ UNCHANGED fulfillmentVars
    \/ FulfillSteps

FulfillmentSpec == FulfillmentInit /\ [][FulfillmentNext]_<<paymentsVars, fulfillmentVars>>

-----------------------------------------------------------------------------
(* Webhook and reconciliation may both capture an order and announce it,   *)
(* and an attempt may run again after its credit committed: the order is   *)
(* credited once, and only after a capture.                                *)
CreditedOncePerOrder ==
    /\ credits <= 1
    /\ credits > 0 => captureEvents > 0

(* An order that was captured is credited in the end, unless its state was *)
(* overwritten and the workflow found it so.                               *)
CapturedIsCredited ==
    order.captured > 0 ~> entry # "none" \/ buying = "failed"

(* The money of an order adds up on both sides: what came and went by the  *)
(* provider, and the points that were credited for it.                     *)
MoneyAddsUp == RefundsAddUp /\ CreditedOncePerOrder

=============================================================================
