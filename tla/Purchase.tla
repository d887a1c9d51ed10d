------------------------------ MODULE Purchase ------------------------------
(***************************************************************************)
(* What a consumption of the business center promises its user: nothing is *)
(* handed over before it is paid, it is paid once, and a purchase ends     *)
(* with either the goods or the money, never both.                         *)
(***************************************************************************)
VARIABLE outcome

TypeOK == outcome \in {"open", "paid", "delivered", "refunded"}

Init == outcome = "open"

Pay == outcome = "open" /\ outcome' = "paid"
Deliver == outcome = "paid" /\ outcome' = "delivered"
Refund == outcome = "paid" /\ outcome' = "refunded"

Next == Pay \/ Deliver \/ Refund

Spec == Init /\ [][Next]_outcome

=============================================================================
