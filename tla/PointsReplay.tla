----------------------------- MODULE PointsReplay -----------------------------
(***************************************************************************)
(* RebuildBalance: the buckets of one account, recomputed from its ledger. *)
(* The commands that write the ledger come one after another here (their   *)
(* interleaving is PointsLedger's), but for the one overlap the ledger     *)
(* admits: a lowering that read its buckets before the last credit.        *)
(***************************************************************************)
EXTENDS Integers, Sequences, FiniteSets, Functions

CONSTANTS
    Pots,         \* the buckets of the account
    Lasting,      \* the perpetual one
    PotRank,      \* the order of their expiry, of their creation where it is the same
    PotSums,      \* amounts
    MaxEntries    \* bound: ledger entries

ASSUME ReplayAssumption ==
    /\ IsFiniteSet(Pots) /\ Lasting \in Pots
    /\ PotRank \in [Pots -> Nat]
    /\ \A p, q \in Pots : PotRank[p] = PotRank[q] => p = q
    /\ PotSums \subseteq Nat \ {0} /\ MaxEntries \in Nat

VARIABLES
    pots,         \* points_buckets.amount
    funds,        \* points_balances.balance
    standing,     \* points_accounts.state
    entries       \* points_ledger_entries, with their points_debit_allocations

replayVars == <<pots, funds, standing, entries>>

Nothing == [p \in Pots |-> 0]
Kinds == {"credit", "raise", "debit", "lower", "expiration", "reversal"}
NoEntry == 0

ReplayTypeOK ==
    /\ pots \in [Pots -> Nat]
    /\ funds \in Int
    /\ standing \in {"active", "debt"}
    /\ Len(entries) <= MaxEntries
    /\ \A i \in DOMAIN entries :
        /\ entries[i].kind \in Kinds
        /\ entries[i].pot \in Pots
        /\ entries[i].of \in 0..(i - 1)
        /\ entries[i].taken \in [Pots -> Nat]

ReplayInit ==
    /\ pots = Nothing
    /\ funds = 0
    /\ standing = "active"
    /\ entries = <<>>

AboveZero(n) == IF n > 0 THEN n ELSE 0
AtMost(m, n) == IF m <= n THEN m ELSE n
InPots(f) == SumFunctionOnSet(f, Pots)
Sooner(f, p) == SumFunctionOnSet(f, {e \in Pots : PotRank[e] < PotRank[p]})

(* n points out of f, or as much as f has, the earliest expiry first.      *)
FirstOut(f, n) == [p \in Pots |-> AtMost(f[p], AboveZero(n - Sooner(f, p)))]

Plus(f, g) == [p \in Pots |-> f[p] + g[p]]
Minus(f, g) == [p \in Pots |-> f[p] - g[p]]
Only(p, n) == [q \in Pots |-> IF q = p THEN n ELSE 0]

(* What a credit of n on a balance puts into its bucket, and what the      *)
(* return of n gives back to the buckets it was taken from: the debt is    *)
(* paid first, and what no bucket takes goes to the perpetual one.         *)
CreditEnters(on, n) == AboveZero(on + n) - AboveZero(on)
Unpaid(on, n) == n - AtMost(AboveZero(-on), n)

ReturnEnters(on, n, taken) ==
    LET back == FirstOut(taken, Unpaid(on, n))
    IN  Plus(back, Only(Lasting, Unpaid(on, n) - InPots(back)))

-----------------------------------------------------------------------------
(* The replay: zero buckets, and every entry in its order.                 *)
ReplaysWhole(on, n, taken) ==  \* mutant of ReplayedReturn: the debt is not paid down first
    Plus(FirstOut(taken, n), Only(Lasting, n - InPots(FirstOut(taken, n))))

ReplayedReturn(on, n, taken) == ReturnEnters(on, n, taken)

Replayed(list, acc, e) ==
    LET enters(f) == [pots |-> Plus(acc.pots, f), running |-> acc.running + e.amount,
                      sound |-> acc.sound]
        leaves(f) == [pots |-> Minus(acc.pots, f), running |-> acc.running + e.amount,
                      sound |-> acc.sound /\ \A p \in Pots : f[p] <= acc.pots[p]]
    IN
    IF e.kind \in {"credit", "raise"} THEN enters(Only(e.pot, CreditEnters(acc.running, e.amount)))
    ELSE IF e.kind = "reversal" /\ e.amount > 0
    THEN enters(ReplayedReturn(acc.running, e.amount, list[e.of].taken))
    ELSE leaves(e.taken)

Unspent == [pots |-> Nothing, running |-> 0, sound |-> TRUE]

ReplayOf(list) ==
    LET upTo[i \in 0 .. Len(list)] ==
          IF i = 0 THEN Unspent ELSE Replayed(list, upTo[i - 1], list[i])
    IN  upTo[Len(list)]

Replay == ReplayOf(entries)

-----------------------------------------------------------------------------
StandingOf(n) == IF n < 0 THEN "debt" ELSE "active"

Writes(kind, n, pot, of, taken, holds) ==
    /\ Len(entries) < MaxEntries
    /\ entries' = Append(entries, [kind |-> kind, amount |-> n, pot |-> pot, of |-> of,
                                   taken |-> taken])
    /\ funds' = funds + n
    /\ standing' = StandingOf(funds + n)
    /\ pots' = holds

(* CreditPoints, to the bucket of its behavior, and AdjustPoints upwards.  *)
PotCredit(p, n) ==
    Writes("credit", n, p, NoEntry, Nothing, Plus(pots, Only(p, CreditEnters(funds, n))))

PotRaise(n) ==
    Writes("raise", n, Lasting, NoEntry, Nothing, Plus(pots, Only(Lasting, CreditEnters(funds, n))))

PotTakes(kind, n, of, seen) ==
    LET taken == FirstOut(seen, n)
    IN  Writes(kind, -n, Lasting, of, taken, Minus(pots, taken))

PotDebit(n) ==
    /\ standing = "active" /\ n <= InPots(pots)
    /\ PotTakes("debit", n, NoEntry, pots)

PotLower(n) == PotTakes("lower", n, NoEntry, pots)

(* The lowering selected the buckets before the last credit entered one    *)
(* of them; it takes nothing from that one, so no version tells.           *)
LowerOvertaken(n) ==
    /\ entries # <<>>
    /\ LET last == entries[Len(entries)]
           entered == Only(last.pot, CreditEnters(funds - last.amount, last.amount))
           seen == Minus(pots, entered)
       IN
       /\ last.kind \in {"credit", "raise"}
       /\ InPots(entered) > 0 /\ FirstOut(seen, n)[last.pot] = 0
       /\ PotTakes("lower", n, NoEntry, seen)

(* ExpireBuckets, one of the due buckets.                                  *)
PotExpires(p) ==
    /\ p # Lasting /\ pots[p] > 0
    /\ Writes("expiration", -pots[p], p, NoEntry, Only(p, pots[p]), Minus(pots, Only(p, pots[p])))

(* ReverseLedgerEntry: any entry but a reversal, once.                     *)
PotReverses(i) ==
    /\ entries[i].kind # "reversal"
    /\ \A j \in DOMAIN entries : entries[j].of # i
    /\ IF entries[i].amount > 0
       THEN PotTakes("reversal", entries[i].amount, i, pots)
       ELSE Writes("reversal", -entries[i].amount, Lasting, i, Nothing,
                   Plus(pots, ReturnEnters(funds, -entries[i].amount, entries[i].taken)))

(* RebuildBalance, not a dry run: the buckets are replayed only when they  *)
(* do not add up to the balance, and not if the replay meets a bucket      *)
(* below zero.                                                             *)
LedgerTotal == SumFunction([i \in DOMAIN entries |-> entries[i].amount])

RebuildBalance ==
    /\ funds' = LedgerTotal
    /\ standing' = StandingOf(LedgerTotal)
    /\ IF InPots(pots) # AboveZero(LedgerTotal)
       THEN Replay.sound /\ pots' = Replay.pots
       ELSE UNCHANGED pots
    /\ UNCHANGED entries

ReplayNext ==
    \/ \E n \in PotSums : PotRaise(n) \/ PotDebit(n) \/ PotLower(n) \/ LowerOvertaken(n)
    \/ \E p \in Pots, n \in PotSums : PotCredit(p, n)
    \/ \E p \in Pots : PotExpires(p)
    \/ \E i \in DOMAIN entries : PotReverses(i)
    \/ RebuildBalance

ReplaySpec == ReplayInit /\ [][ReplayNext]_replayVars

-----------------------------------------------------------------------------
(* "The replay reproduces the runtime FIFO/debt semantics exactly" (the    *)
(* comment at commands.py:1267): whatever credits, debits, adjustments,    *)
(* expirations and reversals came before, a replay of the ledger ends with *)
(* the balance and with every bucket as the commands left it.              *)
ReplayAgrees ==
    /\ Replay.sound
    /\ Replay.running = funds
    /\ Replay.pots = pots

=============================================================================
