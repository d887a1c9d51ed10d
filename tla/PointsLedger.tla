---------------------------- MODULE PointsLedger ----------------------------
(***************************************************************************)
(* One points account: its balance snapshot, its buckets and its ledger    *)
(* under concurrent commands.  A command is one transaction that reads the *)
(* account, then the buckets, then the balance, and writes at the end; no  *)
(* row is locked while it reads.  Its updates carry the versions it read,  *)
(* and a row it updates stays locked until its commit, so all its updates  *)
(* and its commit are one step here, possible when the versions are still  *)
(* those it read.                                                          *)
(***************************************************************************)
EXTENDS Integers, FiniteSets, Functions

CONSTANTS
    Users,       \* requests and workflow activities, one command at a time
    Sweeper,     \* the worker that runs ExpireBuckets
    Commands,    \* commands with an idempotency key (or a freeze) given once
    Sweep,       \* the sweep, which may run again
    Kind,        \* what each command does
    Amount,      \* its amount
    Of,          \* the bucket a credit is routed to, the command a reversal reverses
    Buckets,     \* the buckets the account may have
    Perpetual,   \* the one without expiry
    Rank,        \* the order of their expiry, the perpetual one last
    AdminAlone   \* whether administrators act while nobody else does

Clients == Users \cup {Sweeper}
Credits == {o \in Commands : Kind[o] \in {"credit", "raise"}}
Charges == {o \in Commands : Kind[o] \in {"debit", "lower"}}
Reversals == {o \in Commands : Kind[o] = "reverse"}

ASSUME LedgerAssumption ==
    /\ IsFiniteSet(Buckets)
    /\ Perpetual \in Buckets
    /\ Sweeper \notin Users
    /\ Sweep \notin Commands
    /\ Kind \in [Commands -> {"credit", "raise", "debit", "lower", "reverse", "freeze", "unfreeze"}]
    /\ Amount \in [Commands -> Nat \ {0}]
    /\ \A o \in Credits : Of[o] \in Buckets
    /\ \A o \in Reversals : Of[o] \in Credits \cup Charges /\ Amount[o] = Amount[Of[o]]
    /\ Rank \in [Buckets -> Nat]
    /\ \A b, e \in Buckets : Rank[b] = Rank[e] => b = e
    /\ AdminAlone \in BOOLEAN

VARIABLES
    state,     \* points_accounts.state, "none" before the account is opened
    balance,   \* points_balances.balance
    bVersion,  \* points_balances.version, 0 before the account is opened
    amount,    \* points_buckets.amount
    version,   \* points_buckets.version, 0 for a bucket that does not exist
    ledger,    \* the sum of the account's ledger entries
    posted,    \* the commands whose entry is in the ledger
    alloc,     \* points_debit_allocations: what each command took from each bucket
    due,       \* the expiring buckets whose time has come
    progress,        \* what each client's transaction does next
    op,        \* the command it runs
    sState,    \* the account state it read
    sAmount,   \* the bucket amounts it read
    sVersion,  \* the bucket versions it read
    sBalance,  \* the balance it read
    sBVersion  \* the balance version it read

account == <<state, balance, bVersion, amount, version, ledger, posted, alloc>>
snapshots == <<sState, sAmount, sVersion, sBalance, sBVersion>>
pointsVars == <<account, due, progress, op, snapshots>>

States == {"none", "active", "debt", "frozen"}
NoPoints == [b \in Buckets |-> 0]

\* One account: the shape of the rows, and no bucket below zero (models.py:112-116).
PointsTypeOK ==
    /\ state \in States
    /\ balance \in Int
    /\ bVersion \in Nat
    /\ amount \in [Buckets -> Nat]
    /\ version \in [Buckets -> Nat]
    /\ ledger \in Int
    /\ posted \subseteq Commands
    /\ alloc \in [Commands -> [Buckets -> Nat]]
    /\ due \subseteq Buckets \ {Perpetual}
    /\ progress \in [Clients -> {"idle", "buckets", "balance", "commit"}]
    /\ op \in [Clients -> Commands \cup {Sweep}]
    /\ sState \in [Clients -> States]
    /\ sAmount \in [Clients -> [Buckets -> Nat]]
    /\ sVersion \in [Clients -> [Buckets -> Nat]]
    /\ sBalance \in [Clients -> Int]
    /\ sBVersion \in [Clients -> Nat]

PointsInit ==
    /\ state = "none"
    /\ balance = 0
    /\ bVersion = 0
    /\ amount = NoPoints
    /\ version = NoPoints
    /\ ledger = 0
    /\ posted = {}
    /\ alloc = [o \in Commands |-> NoPoints]
    /\ due = {}
    /\ progress = [c \in Clients |-> "idle"]
    /\ op = [c \in Clients |-> Sweep]
    /\ sState = [c \in Clients |-> "none"]
    /\ sAmount = [c \in Clients |-> NoPoints]
    /\ sVersion = [c \in Clients |-> NoPoints]
    /\ sBalance = [c \in Clients |-> 0]
    /\ sBVersion = [c \in Clients |-> 0]

-----------------------------------------------------------------------------
(* Amounts.  A command's points come from the buckets in the order of      *)
(* their expiry: each gives what is left to give after the earlier ones.   *)
Least(m, n) == IF m <= n THEN m ELSE n
Positive(n) == IF n > 0 THEN n ELSE 0
Total(points) == SumFunctionOnSet(points, Buckets)
Earlier(points, b) == SumFunctionOnSet(points, {e \in Buckets : Rank[e] < Rank[b]})
Share(points, n) == [b \in Buckets |-> Least(points[b], Positive(n - Earlier(points, b)))]

Reverses(o) == o \in Reversals
TakesBack(o) == Reverses(o) /\ Of[o] \in Credits
GivesBack(o) == Reverses(o) /\ Of[o] \in Charges
Credited(o) == o \in Credits
Consumes(o) == o \in Charges \/ TakesBack(o)
Freezes(o) == o \in Commands /\ Kind[o] \in {"freeze", "unfreeze"}

\* The administrator's commands that may put the account into debt or freeze it.
ByAdmin(o) == Freezes(o) \/ TakesBack(o) \/ (o \in Commands /\ Kind[o] = "lower")

InFlight(c) == progress[c] # "idle"
AloneIfAdmin(o) ==
    AdminAlone => \A c \in Clients : InFlight(c) => ~ByAdmin(o) /\ ~ByAdmin(op[c])

(* The signed amount of the ledger entries the command writes.             *)
Entry(c) ==
    IF op[c] = Sweep THEN -Total(sAmount[c])
    ELSE IF Credited(op[c]) \/ GivesBack(op[c]) THEN Amount[op[c]]
    ELSE IF Consumes(op[c]) THEN -Amount[op[c]]
    ELSE 0

NewBalance(c) == sBalance[c] + Entry(c)

(* What a restoration has left after paying the debt, and what of it the   *)
(* buckets of the original entry take.                                     *)
Excess(c) == Amount[op[c]] - Least(Positive(-sBalance[c]), Amount[op[c]])
Returned(c) == Share(alloc[Of[op[c]]], Excess(c))
TakenBy(c) == IF op[c] = Sweep THEN sAmount[c]
            ELSE IF Consumes(op[c]) THEN Share(sAmount[c], Amount[op[c]])
            ELSE NoPoints

(* Only the part of a credit above zero enters its bucket.                 *)
AddsWhole(c) ==  \* mutant of CreditAdds: a credit enters its bucket whole, the debt is not paid first
    [b \in Buckets |->
        IF Credited(op[c]) THEN (IF b = Of[op[c]] THEN Amount[op[c]] ELSE 0)
        ELSE IF GivesBack(op[c])
        THEN Returned(c)[b] + (IF b = Perpetual THEN Excess(c) - Total(Returned(c)) ELSE 0)
        ELSE 0]

CreditAdds(c) ==
    [b \in Buckets |->
        IF Credited(op[c])
        THEN (IF b = Of[op[c]]
              THEN Positive(NewBalance(c)) - Positive(NewBalance(c) - Amount[op[c]]) ELSE 0)
        ELSE IF GivesBack(op[c])
        THEN Returned(c)[b] + (IF b = Perpetual THEN Excess(c) - Total(Returned(c)) ELSE 0)
        ELSE 0]

Changes(c, b) == CreditAdds(c)[b] + TakenBy(c)[b] > 0

(* A first write opens the account with its perpetual bucket, and a credit *)
(* creates the bucket it is routed to.                                     *)
OpensAccount(c) == sState[c] = "none"
Creates(c, b) ==
    \/ OpensAccount(c) /\ b = Perpetual
    \/ Credited(op[c]) /\ b = Of[op[c]] /\ sVersion[c][b] = 0

-----------------------------------------------------------------------------
Goes(c, point) == progress' = [progress EXCEPT ![c] = point]

(* The end of a transaction: its session and what it read are gone.        *)
ClosesClient(c) ==
    /\ Goes(c, "idle")
    /\ op' = [op EXCEPT ![c] = Sweep]
    /\ sState' = [sState EXCEPT ![c] = "none"]
    /\ sAmount' = [sAmount EXCEPT ![c] = NoPoints]
    /\ sVersion' = [sVersion EXCEPT ![c] = NoPoints]
    /\ sBalance' = [sBalance EXCEPT ![c] = 0]
    /\ sBVersion' = [sBVersion EXCEPT ![c] = 0]

(* The idempotency key, the account and its state are looked up.  A        *)
(* reversal locks the entry it reverses, so two of them take turns.        *)
ReversibleUnlocked(o) ==  \* mutant of Reversible: the entry is read without FOR UPDATE
    /\ Of[o] \in posted
    /\ \A p \in posted : Reverses(p) => Of[p] # Of[o]

Reversible(o) ==
    /\ Of[o] \in posted
    /\ \A p \in posted : Reverses(p) => Of[p] # Of[o]
    /\ \A c \in Clients : InFlight(c) /\ Reverses(op[c]) => Of[op[c]] # Of[o]

Allowed(o) ==
    /\ Kind[o] = "credit" => state # "frozen"
    /\ Kind[o] = "debit" => state \notin {"frozen", "debt"}
    /\ Reverses(o) => Reversible(o)
    /\ Freezes(o) => state # "none"

Begin(c, o) ==
    /\ progress[c] = "idle"
    /\ o \notin posted
    /\ Allowed(o)
    /\ AloneIfAdmin(o)
    /\ op' = [op EXCEPT ![c] = o]
    /\ sState' = [sState EXCEPT ![c] = state]
    /\ Goes(c, "buckets")
    /\ UNCHANGED <<account, due, sAmount, sVersion, sBalance, sBVersion>>

(* ExpireBuckets selects the due buckets that are not empty.               *)
SweepsUnlessFrozen(b) ==  \* mutant of Sweeps: frozen accounts are left out
    b \in due /\ amount[b] > 0 /\ state # "frozen"

Sweeps(b) == b \in due /\ amount[b] > 0

BeginSweep ==
    /\ progress[Sweeper] = "idle"
    /\ \E b \in Buckets : Sweeps(b)
    /\ AloneIfAdmin(Sweep)
    /\ op' = [op EXCEPT ![Sweeper] = Sweep]
    /\ Goes(Sweeper, "buckets")
    /\ UNCHANGED <<account, due, snapshots>>

(* The perpetual bucket's row may have been loaded already while the       *)
(* account was looked up; a commit on it in between only makes a conflict. *)
ReadBuckets(c) ==
    /\ progress[c] = "buckets"
    /\ sAmount' = [sAmount EXCEPT ![c] =
                    [b \in Buckets |-> IF op[c] = Sweep /\ ~Sweeps(b) THEN 0 ELSE amount[b]]]
    /\ sVersion' = [sVersion EXCEPT ![c] = version]
    /\ sState' = IF op[c] = Sweep THEN [sState EXCEPT ![c] = state] ELSE sState
    /\ Goes(c, "balance")
    /\ UNCHANGED <<account, due, op, sBalance, sBVersion>>

ReadBalance(c) ==
    /\ progress[c] = "balance"
    /\ sBalance' = [sBalance EXCEPT ![c] = balance]
    /\ sBVersion' = [sBVersion EXCEPT ![c] = bVersion]
    /\ Goes(c, "commit")
    /\ UNCHANGED <<account, due, op, sState, sAmount, sVersion>>

-----------------------------------------------------------------------------
(* Every conditional update of the transaction finds its row as it was     *)
(* read, and no insert meets a unique key.  A restoration that falls back  *)
(* to the perpetual bucket reads that row when it writes it.               *)
FallsBack(c, b) == GivesBack(op[c]) /\ b = Perpetual /\ alloc[Of[op[c]]][b] = 0

FreshBalance(c) ==  \* mutant of Fresh: the bucket rows are updated without their version
    bVersion = sBVersion[c] /\ (OpensAccount(c) => bVersion = 0)

Fresh(c) ==
    /\ bVersion = sBVersion[c]
    /\ \A b \in Buckets :
        (Changes(c, b) \/ Creates(c, b)) /\ ~FallsBack(c, b) => version[b] = sVersion[c][b]
    /\ OpensAccount(c) => bVersion = 0

(* A debit must find its amount in the buckets it read.                    *)
Affordable(c) == Kind[op[c]] = "debit" => Amount[op[c]] <= Total(sAmount[c])

(* _sync_account_state works on the state read at the beginning and writes *)
(* the row only when it changes that.                                      *)
Loaded(c) == IF OpensAccount(c) THEN "active" ELSE sState[c]

Synced(c) ==
    IF NewBalance(c) < 0 /\ Loaded(c) # "debt" THEN "debt"
    ELSE IF NewBalance(c) >= 0 /\ Loaded(c) = "debt" THEN "active"
    ELSE IF OpensAccount(c) THEN "active" ELSE state

Bumped(c, b) ==
    IF Changes(c, b) THEN (IF Creates(c, b) THEN 2 ELSE version[b] + 1)
    ELSE IF Creates(c, b) THEN 1 ELSE version[b]

Post(c) ==
    /\ progress[c] = "commit"
    /\ ~Freezes(op[c])
    /\ op[c] \notin posted
    /\ op[c] # Sweep => Affordable(c)
    /\ Fresh(c)
    /\ balance' = NewBalance(c)
    /\ bVersion' = bVersion + 1
    /\ amount' = [b \in Buckets |-> amount[b] + CreditAdds(c)[b] - TakenBy(c)[b]]
    /\ version' = [b \in Buckets |-> Bumped(c, b)]
    /\ ledger' = ledger + Entry(c)
    /\ state' = Synced(c)
    /\ posted' = posted \cup ({op[c]} \ {Sweep})
    /\ alloc' = IF op[c] = Sweep THEN alloc ELSE [alloc EXCEPT ![op[c]] = TakenBy(c)]
    /\ ClosesClient(c)
    /\ UNCHANGED due

(* FreezePointsAccount and its opposite write the account row as read.     *)
Target(c) ==
    IF Kind[op[c]] = "freeze" THEN "frozen"
    ELSE IF sState[c] # "frozen" THEN sState[c]
    ELSE IF sBalance[c] >= 0 THEN "active" ELSE "debt"

SetState(c) ==
    /\ progress[c] = "commit"
    /\ Freezes(op[c])
    /\ state' = IF Target(c) = sState[c] THEN state ELSE Target(c)
    /\ posted' = posted \cup {op[c]}
    /\ ClosesClient(c)
    /\ UNCHANGED <<balance, bVersion, amount, version, ledger, alloc, due>>

(* A conflict, a duplicate key or too few points: the transaction is       *)
(* rolled back, and its caller may try again.  (One that is cancelled      *)
(* earlier has written nothing and is as if it had not begun.)             *)
Abort(c) ==
    /\ progress[c] = "commit"
    /\ ~Freezes(op[c])
    /\ ~(op[c] \notin posted /\ (op[c] # Sweep => Affordable(c)) /\ Fresh(c))
    /\ ClosesClient(c)
    /\ UNCHANGED <<account, due>>

(* The expiry of a bucket passes.                                          *)
Elapse(b) ==
    /\ b \notin due
    /\ b # Perpetual
    /\ due' = due \cup {b}
    /\ UNCHANGED <<account, progress, op, snapshots>>

PointsNext ==
    \/ \E c \in Users, o \in Commands : Begin(c, o)
    \/ BeginSweep
    \/ \E c \in Clients : ReadBuckets(c) \/ ReadBalance(c) \/ Post(c) \/ SetState(c) \/ Abort(c)
    \/ \E b \in Buckets : Elapse(b)

PointsSpec == PointsInit /\ [][PointsNext]_pointsVars

(* A transaction that has begun ends, and the cron loop sweeps again.      *)
Proceeds(c) == ReadBuckets(c) \/ ReadBalance(c) \/ Post(c) \/ SetState(c) \/ Abort(c)

FairPointsSpec ==
    /\ PointsSpec
    /\ \A c \in Clients : WF_pointsVars(Proceeds(c))
    /\ WF_pointsVars(BeginSweep)

-----------------------------------------------------------------------------
\* The snapshot agrees with the ledger it summarises, whatever the interleaving: entry
\* and snapshot change in one unit of work (capabilities/points.md:55).
BalanceIsLedger == balance = ledger

\* The buckets hold exactly what may be spent: the balance, or nothing in debt
\* (capabilities/points.md:63; diagnostics compare the two).
BucketsMatchBalance == Total(amount) = Positive(balance)

\* "A reversal of one entry succeeds at most once" (capabilities/points.md:56).
ReversedOnce ==
    \A p, q \in posted : Reverses(p) /\ Reverses(q) /\ Of[p] = Of[q] => p = q

\* The ledger can be relied on: the balance is its sum and no entry is taken back twice.
LedgerStands == BalanceIsLedger /\ ReversedOnce

\* "An ordinary debit never leaves the balance below zero" (capabilities/points.md:52):
\* no step that posts a debit does.
DebitNeverOverdraws ==
    [][\A o \in Commands : Kind[o] = "debit" /\ o \in posted' \ posted => balance' >= 0]_pointsVars

\* Points that are past their expiry go: a due bucket is emptied, by the sweep or by
\* being spent, and again if a reversal refills it (commands.py:1039-1154).
DuePointsGo == \A b \in Buckets : (b \in due /\ amount[b] > 0) ~> (amount[b] = 0)

=============================================================================
