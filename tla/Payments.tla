------------------------------- MODULE Payments -------------------------------
(***************************************************************************)
(* The payments capability, for one order: the commands that start, cancel,*)
(* reconcile and refund it, the webhooks of the provider, and the provider *)
(* itself, an outside system modelled from the calls made to it.           *)
(*                                                                         *)
(* Webhooks and refunds lock the row.  The other commands read it in a     *)
(* unit of work, check the transition on what they read and write the new  *)
(* state without a condition; between the read and the write anything may  *)
(* commit, and between two units of work the provider answers.             *)
(***************************************************************************)
EXTENDS Integers, FiniteSets, Functions, Sequences

CONSTANTS
    Payers,        \* requests that may be open at one time
    Refunds,       \* idempotency keys of refund requests
    Price,         \* the amount of the order
    MaxPayCalls    \* bound: commands begun

ASSUME PaymentsAssumption ==
    /\ IsFiniteSet(Refunds)
    /\ Price \in Nat \ {0}
    /\ MaxPayCalls \in Nat

VARIABLES
    order,       \* the payment_orders row
    refund,      \* the payment_refunds rows, by key
    receipts,    \* payment_webhook_receipts: the events processed
    calls,       \* the open commands
    captureEvents,   \* payment.captured.v1 events committed
    refundEvents,    \* payment.refund_completed.v1 events committed, by key
    provider,    \* what the provider did: the payment and its refunds
    payCalls

paymentsVars == <<order, refund, receipts, calls, captureEvents, refundEvents, provider, payCalls>>

OrderStates == {"created", "pending", "captured", "partially_refunded",
                "refunded", "cancelled", "failed"}
Amounts == 0..Price
Idle == <<>>

AllowedTransitions ==
    [created |-> {"pending", "cancelled", "failed"},
     pending |-> {"captured", "cancelled", "failed"},
     captured |-> {"partially_refunded", "refunded"},
     partially_refunded |-> {"refunded"},
     refunded |-> {}, cancelled |-> {}, failed |-> {}]

Orders == [state : OrderStates, captured : Amounts, refunded : 0..(2 * Price), ref : BOOLEAN]
RefundRows == [state : {"none", "pending", "completed"}, amount : Amounts]
NoRefund == [state |-> "none", amount |-> 0]

PaymentEvents == {<<"capture">>, <<"failure">>} \union ({"refund"} \X Refunds)

PaymentsTypeOK ==
    /\ order \in Orders
    /\ refund \in [Refunds -> RefundRows]
    /\ receipts \subseteq PaymentEvents
    /\ captureEvents \in 0..(1 + MaxPayCalls)
    /\ refundEvents \subseteq Refunds
    /\ provider \in [payment : {"none", "open", "paid", "failed"},
                     refund : [Refunds -> RefundRows]]
    /\ DOMAIN calls = Payers
    /\ payCalls \in 0..MaxPayCalls

(* CreatePaymentOrder: one order for the idempotency key.                  *)
PaymentsInit ==
    /\ order = [state |-> "created", captured |-> 0, refunded |-> 0, ref |-> FALSE]
    /\ refund = [k \in Refunds |-> NoRefund]
    /\ receipts = {}
    /\ calls = [r \in Payers |-> Idle]
    /\ captureEvents = 0
    /\ refundEvents = {}
    /\ provider = [payment |-> "none", refund |-> [k \in Refunds |-> NoRefund]]
    /\ payCalls = 0

SumOf(rows) == SumFunction([k \in Refunds |-> rows[k].amount])
Completed == [k \in Refunds |-> IF refund[k].state = "completed" THEN refund[k] ELSE NoRefund]

MayBecome(from, target) == target \in AllowedTransitions[from]

-----------------------------------------------------------------------------
OpensPayment(r, call) ==
    /\ calls[r] = Idle /\ payCalls < MaxPayCalls
    /\ payCalls' = payCalls + 1
    /\ calls' = [calls EXCEPT ![r] = call]

PayGoes(r, call) == calls' = [calls EXCEPT ![r] = call] /\ UNCHANGED payCalls

At(r, point) == calls[r] # Idle /\ calls[r][1] = point

(* A refusal, an error of the provider or a crash.                         *)
GiveUpPayment(r) ==
    /\ calls[r] # Idle
    /\ PayGoes(r, Idle)
    /\ UNCHANGED <<order, refund, receipts, captureEvents, refundEvents, provider>>

(* StartPaymentAttempt: a session of the provider, reused by its           *)
(* idempotency key, then the row is read again ...                         *)
StartPaymentAttempt(r) ==
    /\ ~(order.state = "pending" /\ order.ref)
    /\ OpensPayment(r, <<"start">>)
    /\ provider' = [provider EXCEPT !.payment = IF @ = "none" THEN "open" ELSE @]
    /\ UNCHANGED <<order, refund, receipts, captureEvents, refundEvents>>

(* ... and so does every command before it writes, whose transition was    *)
(* allowed on the row its unit of work read.                               *)
ReadOrder(r, point, target) ==
    /\ MayBecome(order.state, target)
    /\ calls[r] = Idle => OpensPayment(r, <<point>>)
    /\ calls[r] # Idle => PayGoes(r, <<point>>)
    /\ UNCHANGED <<order, refund, receipts, captureEvents, refundEvents, provider>>

StartReads(r) == At(r, "start") /\ ReadOrder(r, "started", "pending")

StartWrites(r) ==
    /\ At(r, "started")
    /\ order' = [order EXCEPT !.state = "pending", !.ref = TRUE]
    /\ PayGoes(r, Idle)
    /\ UNCHANGED <<refund, receipts, captureEvents, refundEvents, provider>>

CancelPaymentReads(r) == calls[r] = Idle /\ ReadOrder(r, "cancelling", "cancelled")

CancelPaymentOrder(r) ==
    /\ At(r, "cancelling")
    /\ order' = [order EXCEPT !.state = "cancelled"]
    /\ PayGoes(r, Idle)
    /\ UNCHANGED <<refund, receipts, captureEvents, refundEvents, provider>>

(* ReconcilePaymentOrder: the provider is asked about an order that is     *)
(* open; paid and failed are written, other answers change nothing.        *)
ReconcileAsks(r) ==
    /\ order.ref /\ order.state \notin {"captured", "refunded", "cancelled", "failed"}
    /\ provider.payment \in {"paid", "failed"}
    /\ OpensPayment(r, <<"asked", provider.payment>>)
    /\ UNCHANGED <<order, refund, receipts, captureEvents, refundEvents, provider>>

ReconcileReads(r) ==
    \/ At(r, "asked") /\ calls[r][2] = "paid" /\ ReadOrder(r, "capturing", "captured")
    \/ At(r, "asked") /\ calls[r][2] = "failed" /\ ReadOrder(r, "failing", "failed")

ReconcilesSilently(r) ==  \* mutant of ReconcileCaptures: no event is emitted
    /\ At(r, "capturing")
    /\ order' = [order EXCEPT !.state = "captured", !.captured = Price]
    /\ PayGoes(r, Idle)
    /\ UNCHANGED <<refund, receipts, captureEvents, refundEvents, provider>>

ReconcileCaptures(r) ==
    /\ At(r, "capturing")
    /\ order' = [order EXCEPT !.state = "captured", !.captured = Price]
    /\ captureEvents' = captureEvents + 1
    /\ PayGoes(r, Idle)
    /\ UNCHANGED <<refund, receipts, refundEvents, provider>>

ReconcileFails(r) ==
    /\ At(r, "failing")
    /\ order' = [order EXCEPT !.state = "failed"]
    /\ PayGoes(r, Idle)
    /\ UNCHANGED <<refund, receipts, captureEvents, refundEvents, provider>>

-----------------------------------------------------------------------------
Refunding(o, amount) ==
    LET total == o.refunded + amount
    IN  [o EXCEPT !.refunded = total,
                  !.state = IF total >= o.captured THEN "refunded" ELSE "partially_refunded"]

(* RequestRefund: a known key returns its refund; the amount is checked on *)
(* the row as it was read, and the provider refunds once per key.          *)
RefundAsks(r) ==
    /\ order.state \in {"captured", "partially_refunded", "refunded"}
    /\ \E k \in Refunds, amount \in 1..Price, answer \in {"pending", "completed"} :
          /\ refund[k].state = "none"
          /\ order.refunded + amount <= order.captured
          /\ \/ /\ provider.refund[k].state = "none"
                /\ SumOf(provider.refund) + amount <= Price
                /\ provider' = [provider EXCEPT !.refund[k] = [state |-> answer, amount |-> amount]]
             \/ /\ provider.refund[k] = [state |-> answer, amount |-> amount]
                /\ UNCHANGED provider
          /\ OpensPayment(r, <<"refunding", k, amount, answer, order>>)
    /\ UNCHANGED <<order, refund, receipts, captureEvents, refundEvents>>

(* Then the row is locked and the amount checked again; the key is unique. *)
RefundsUnlocked(r) ==  \* mutant of LockedOrder: the row read before the provider's answer is used
    calls[r][5]

LockedOrder(r) == order

RequestRefund(r) ==
    /\ At(r, "refunding")
    /\ LET k == calls[r][2]
           amount == calls[r][3]
           answer == calls[r][4]
           next == Refunding(LockedOrder(r), amount)
       IN
       /\ LockedOrder(r).refunded + amount <= LockedOrder(r).captured
       /\ refund[k].state = "none"
       /\ refund' = [refund EXCEPT ![k] = [state |-> answer, amount |-> amount]]
       /\ IF answer = "completed"
          THEN /\ MayBecome(LockedOrder(r).state, next.state)
               /\ order' = next
               /\ refundEvents' = refundEvents \union {k}
          ELSE UNCHANGED <<order, refundEvents>>
    /\ PayGoes(r, Idle)
    /\ UNCHANGED <<receipts, captureEvents, provider>>

-----------------------------------------------------------------------------

(* ProcessVerifiedWebhook, under a lock of the row: an event is processed  *)
(* once, a rejection included.  The amount of every event must be the      *)
(* amount of the order, that of a refund too.                              *)
NewEvent(e) == e \notin receipts

WebhookCapture ==
    /\ provider.payment = "paid" /\ NewEvent(<<"capture">>)
    /\ receipts' = receipts \union {<<"capture">>}
    /\ IF MayBecome(order.state, "captured")
       THEN /\ order' = [order EXCEPT !.state = "captured", !.captured = Price]
            /\ captureEvents' = captureEvents + 1
       ELSE UNCHANGED <<order, captureEvents>>
    /\ UNCHANGED <<refund, calls, refundEvents, provider, payCalls>>

WebhookFailure ==
    /\ provider.payment = "failed" /\ NewEvent(<<"failure">>)
    /\ receipts' = receipts \union {<<"failure">>}
    /\ order' = IF MayBecome(order.state, "failed") THEN [order EXCEPT !.state = "failed"] ELSE order
    /\ UNCHANGED <<refund, calls, captureEvents, refundEvents, provider, payCalls>>

(* A refund event completes the pending refund of its amount.              *)
Candidates(amount) ==
    {k \in Refunds : refund[k] = [state |-> "pending", amount |-> amount]}

WebhookRefund ==
    \E k \in Refunds :
        LET amount == provider.refund[k].amount
            next == Refunding(order, amount)
        IN
        /\ provider.refund[k].state = "completed" /\ NewEvent(<<"refund", k>>)
        /\ receipts' = receipts \union {<<"refund", k>>}
        /\ IF /\ amount = Price
              /\ order.state \in {"captured", "partially_refunded"}
              /\ Candidates(amount) # {}
              /\ next.state = order.state \/ MayBecome(order.state, next.state)
           THEN \E j \in Candidates(amount) :
                   /\ refund' = [refund EXCEPT ![j].state = "completed"]
                   /\ order' = next
                   /\ refundEvents' = refundEvents \union {j}
           ELSE UNCHANGED <<order, refund, refundEvents>>
        /\ UNCHANGED <<calls, captureEvents, provider, payCalls>>

(* The provider: the customer pays or not, a pending refund completes.     *)
CustomerPays ==
    /\ provider.payment = "open"
    /\ \E outcome \in {"paid", "failed"} : provider' = [provider EXCEPT !.payment = outcome]
    /\ UNCHANGED <<order, refund, receipts, calls, captureEvents, refundEvents, payCalls>>

ProviderRefunds ==
    /\ \E k \in Refunds :
          /\ provider.refund[k].state = "pending"
          /\ provider' = [provider EXCEPT !.refund[k].state = "completed"]
    /\ UNCHANGED <<order, refund, receipts, calls, captureEvents, refundEvents, payCalls>>

PayCommand(r) ==
    \/ StartPaymentAttempt(r) \/ StartReads(r) \/ StartWrites(r)
    \/ CancelPaymentReads(r) \/ CancelPaymentOrder(r)
    \/ ReconcileAsks(r) \/ ReconcileReads(r) \/ ReconcileCaptures(r) \/ ReconcileFails(r)
    \/ RefundAsks(r) \/ RequestRefund(r) \/ GiveUpPayment(r)

PaymentsNext ==
    \/ \E r \in Payers : PayCommand(r)
    \/ WebhookCapture \/ WebhookFailure \/ WebhookRefund
    \/ CustomerPays \/ ProviderRefunds

-----------------------------------------------------------------------------
(* The refunds completed on the order add up to its refunded_amount and    *)
(* never exceed what was captured, whichever of webhook and request        *)
(* completed them.                                                         *)
RefundsAddUp ==
    /\ order.refunded = SumOf(Completed)
    /\ order.refunded <= order.captured

=============================================================================
