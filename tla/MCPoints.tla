------------------------------ MODULE MCPoints ------------------------------
(* Instances of PointsLedger for TLC: one account, its commands by name.   *)
EXTENDS PointsLedger, TLC

CONSTANTS perpetual, expiring, credit, gift, debit, lower, undo, redo, revoke, freeze, thaw

LedgerKind == [o \in Commands |->
    CASE o = credit -> "credit" [] o = gift -> "raise" [] o = debit -> "debit"
      [] o = lower -> "lower" [] o \in {undo, redo, revoke} -> "reverse"
      [] o = freeze -> "freeze" [] o = thaw -> "unfreeze"]

LedgerAmount == [o \in Commands |-> IF o \in {gift, freeze, thaw} THEN 1 ELSE 2]

LedgerOf ==
    credit :> expiring @@ gift :> perpetual @@ undo :> debit @@ redo :> debit @@ revoke :> credit

LedgerRank == expiring :> 0 @@ perpetual :> 1
=============================================================================
