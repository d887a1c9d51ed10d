---------------------------- MODULE AccountsProof ----------------------------
(***************************************************************************)
(* What is kept in two places adds up: the buckets of an account and its   *)
(* balance, the refunds of an order and what was captured, the counters of *)
(* a content and the rows they count; for every number of clients, orders, *)
(* fans and commands.                                                      *)
(***************************************************************************)
EXTENDS PointsLedger, Fulfillment, Engagement, FiniteSums

-----------------------------------------------------------------------------
(* PointsLedger: the balance is the sum of the ledger, and an entry is     *)
(* reversed at most once, whatever administrators do.                      *)

(* What the proofs need to know of the shape of the state.                 *)
Control ==
    /\ bVersion \in Nat
    /\ posted \subseteq Commands
    /\ progress \in [Clients -> {"idle", "buckets", "balance", "commit"}]
    /\ op \in [Clients -> Commands \cup {Sweep}]
    /\ sBVersion \in [Clients -> Nat]
    /\ sBalance = [c \in Clients |-> sBalance[c]]

(* A balance version stands for one balance: who holds the current version *)
(* holds the current balance.                                              *)
VersionNamesBalance ==
    \A c \in Clients : progress[c] = "commit" =>
        /\ sBVersion[c] <= bVersion
        /\ sBVersion[c] = bVersion => sBalance[c] = balance

LedgerInv == Control /\ VersionNamesBalance /\ BalanceIsLedger

(* Who is reversing an entry is alone with it, and it is not reversed yet. *)
ReversesAlone ==
    \A c \in Clients : InFlight(c) /\ Reverses(op[c]) =>
        /\ \A p \in posted : Reverses(p) => Of[p] # Of[op[c]]
        /\ \A d \in Clients : InFlight(d) /\ Reverses(op[d]) /\ Of[op[d]] = Of[op[c]] => d = c

ReversalInv == Control /\ ReversesAlone /\ ReversedOnce

-----------------------------------------------------------------------------
\* The initial state: an account that is not opened yet, and nobody at work.
LEMMA InitialInv == PointsInit => LedgerInv /\ ReversalInv
  BY DEF PointsInit, LedgerInv, ReversalInv, Control, VersionNamesBalance, BalanceIsLedger, ReversesAlone,
         ReversedOnce, InFlight

\* Every step keeps the shape (PointsLedger.tla, all actions).
LEMMA ControlStep == Control /\ [PointsNext]_pointsVars => Control'
<1> SUFFICES ASSUME Control, [PointsNext]_pointsVars PROVE Control'
  OBVIOUS
<1> USE DEF Control
<1>1. CASE \E c \in Users, o \in Commands : Begin(c, o)
  BY <1>1 DEF Begin, Goes, account, Clients
<1>2. CASE BeginSweep
  BY <1>2 DEF BeginSweep, Goes, account, snapshots, Clients
<1>3. CASE \E c \in Clients : ReadBuckets(c)
  BY <1>3 DEF ReadBuckets, Goes, account
<1>4. CASE \E c \in Clients : ReadBalance(c)
  BY <1>4 DEF ReadBalance, Goes, account
<1>5. CASE \E c \in Clients : Post(c)
  <2>1. PICK c \in Clients : Post(c)
    BY <1>5
  <2>2. bVersion' = bVersion + 1 /\ posted' = posted \cup ({op[c]} \ {Sweep}) /\ ClosesClient(c)
    BY <2>1 DEF Post
  <2>3. bVersion' \in Nat /\ posted' \subseteq Commands
    BY <2>2
  <2> QED
    BY <2>2, <2>3 DEF ClosesClient, Goes
<1>6. CASE \E c \in Clients : SetState(c)
  <2>1. PICK c \in Clients : SetState(c)
    BY <1>6
  <2>2. UNCHANGED bVersion /\ posted' = posted \cup {op[c]} /\ op[c] \in Commands
    BY <2>1 DEF SetState, Freezes
  <2> QED
    BY <2>1, <2>2 DEF SetState, ClosesClient, Goes
<1>7. CASE \E c \in Clients : Abort(c)
  <2>1. PICK c \in Clients : Abort(c)
    BY <1>7
  <2>2. UNCHANGED <<bVersion, posted>> /\ ClosesClient(c)
    BY <2>1 DEF Abort, account
  <2> QED
    BY <2>2 DEF ClosesClient, Goes
<1>8. CASE \E b \in Buckets : Elapse(b)
  BY <1>8 DEF Elapse, account, snapshots
<1>9. CASE UNCHANGED pointsVars
  BY <1>9 DEF pointsVars, account, snapshots
<1> QED
  BY <1>1, <1>2, <1>3, <1>4, <1>5, <1>6, <1>7, <1>8, <1>9 DEF PointsNext

\* A step that leaves balance, ledger and versions alone and lets nobody reach "commit"
\* keeps what versions say of the balance.
LEMMA BalanceUntouched ==
  ASSUME LedgerInv, Control',
         UNCHANGED <<balance, bVersion, ledger>>,
         \A c \in Clients : progress'[c] = "commit" =>
            progress[c] = "commit" /\ sBVersion'[c] = sBVersion[c] /\ sBalance'[c] = sBalance[c]
  PROVE  LedgerInv'
  BY DEF LedgerInv, VersionNamesBalance, BalanceIsLedger

\* The version check of the balance update (commands.py:243-277, 360-424): a transaction
\* that passes it adds its entry to the balance that is there.
LEMMA LedgerStep == LedgerInv /\ [PointsNext]_pointsVars => LedgerInv'
<1> SUFFICES ASSUME LedgerInv, [PointsNext]_pointsVars PROVE LedgerInv'
  OBVIOUS
<1>0. Control /\ Control'
  BY ControlStep DEF LedgerInv
<1>1. CASE \E c \in Users, o \in Commands : Begin(c, o)
  <2>1. PICK c \in Users, o \in Commands : Begin(c, o)
    BY <1>1
  <2> QED
    BY <2>1, <1>0, BalanceUntouched DEF Begin, Goes, account, Clients, Control
<1>2. CASE BeginSweep
  BY <1>2, <1>0, BalanceUntouched DEF BeginSweep, Goes, account, snapshots, Clients, Control
<1>3. CASE \E c \in Clients : ReadBuckets(c)
  <2>1. PICK c \in Clients : ReadBuckets(c)
    BY <1>3
  <2> QED
    BY <2>1, <1>0, BalanceUntouched DEF ReadBuckets, Goes, account, Control
<1>4. CASE \E c \in Clients : ReadBalance(c)
  <2>1. PICK c \in Clients : ReadBalance(c)
    BY <1>4
  <2>2. UNCHANGED <<balance, bVersion, ledger>>
    BY <2>1 DEF ReadBalance, account
  <2>3. sBalance'[c] = balance /\ sBVersion'[c] = bVersion
    BY <2>1, <1>0 DEF ReadBalance, Control
  <2>4. \A d \in Clients \ {c} :
           progress'[d] = progress[d] /\ sBalance'[d] = sBalance[d] /\ sBVersion'[d] = sBVersion[d]
    BY <2>1, <1>0 DEF ReadBalance, Goes, Control
  <2>5. VersionNamesBalance'
    BY <2>2, <2>3, <2>4, <1>0 DEF LedgerInv, VersionNamesBalance, Control
  <2> QED
    BY <2>2, <2>5, <1>0 DEF LedgerInv, BalanceIsLedger
<1>5. CASE \E c \in Clients : Post(c)
  <2>1. PICK c \in Clients : Post(c)
    BY <1>5
  <2>2. sBalance[c] = balance
    BY <2>1 DEF Post, Fresh, LedgerInv, VersionNamesBalance
  <2>3. balance' = balance + Entry(c) /\ ledger' = ledger + Entry(c)
    BY <2>1, <2>2 DEF Post, NewBalance
  <2>4. BalanceIsLedger'
    BY <2>3 DEF LedgerInv, BalanceIsLedger
  <2>5. bVersion' = bVersion + 1
    BY <2>1 DEF Post
  <2>6. \A d \in Clients : progress'[d] = "commit" => progress[d] = "commit" /\ sBVersion'[d] = sBVersion[d]
    BY <2>1, <1>0 DEF Post, ClosesClient, Goes, Control
  <2>7. VersionNamesBalance'
    <3> SUFFICES ASSUME NEW d \in Clients, progress'[d] = "commit"
                 PROVE  sBVersion'[d] <= bVersion' /\ sBVersion'[d] # bVersion'
      BY DEF VersionNamesBalance
    <3>1. sBVersion[d] <= bVersion /\ sBVersion[d] \in Nat /\ bVersion \in Nat
      BY <2>6, <1>0 DEF LedgerInv, VersionNamesBalance, Control
    <3> QED
      BY <3>1, <2>5, <2>6
  <2> QED
    BY <2>4, <2>7, <1>0 DEF LedgerInv
<1>6. CASE \E c \in Clients : SetState(c)
  <2>1. PICK c \in Clients : SetState(c)
    BY <1>6
  <2> QED
    BY <2>1, <1>0, BalanceUntouched DEF SetState, ClosesClient, Goes, Control
<1>7. CASE \E c \in Clients : Abort(c)
  <2>1. PICK c \in Clients : Abort(c)
    BY <1>7
  <2> QED
    BY <2>1, <1>0, BalanceUntouched DEF Abort, ClosesClient, Goes, account, Control
<1>8. CASE \E b \in Buckets : Elapse(b)
  BY <1>8, <1>0, BalanceUntouched DEF Elapse, account, snapshots
<1>9. CASE UNCHANGED pointsVars
  BY <1>9, <1>0, BalanceUntouched DEF pointsVars, account, snapshots
<1> QED
  BY <1>1, <1>2, <1>3, <1>4, <1>5, <1>6, <1>7, <1>8, <1>9 DEF PointsNext

\* The balance snapshot is the sum of the ledger, whatever the interleaving of credits,
\* debits, adjustments, reversals, sweeps and freezes (commands.py:243-481).
THEOREM BalanceAgreesWithLedger == PointsSpec => []BalanceIsLedger
<1>1. PointsInit => LedgerInv
  BY InitialInv
<1>2. LedgerInv /\ [PointsNext]_pointsVars => LedgerInv'
  BY LedgerStep
<1>3. LedgerInv => BalanceIsLedger
  BY DEF LedgerInv
<1> QED
  BY <1>1, <1>2, <1>3, PTL DEF PointsSpec

-----------------------------------------------------------------------------
\* A step that posts nothing, and after which whoever is at work was already, at the same
\* command, keeps the locks on the entries.
LEMMA LocksUntouched ==
  ASSUME ReversalInv, Control', posted' = posted,
         \A c \in Clients : progress'[c] # "idle" => progress[c] # "idle" /\ op'[c] = op[c]
  PROVE  ReversalInv'
  BY DEF ReversalInv, ReversesAlone, ReversedOnce, InFlight, Reverses, Control

\* The lock of the reversed entry (commands.py:864-866) and the count under it
\* (commands.py:882-891).
LEMMA ReversalStep == ReversalInv /\ [PointsNext]_pointsVars => ReversalInv'
<1> SUFFICES ASSUME ReversalInv, [PointsNext]_pointsVars PROVE ReversalInv'
  OBVIOUS
<1>0. Control /\ Control'
  BY ControlStep DEF ReversalInv
<1>1. CASE \E c \in Users, o \in Commands : Begin(c, o)
  <2>1. PICK c \in Users, o \in Commands : Begin(c, o)
    BY <1>1
  <2>2. posted' = posted /\ c \in Clients
    BY <2>1 DEF Begin, account, Clients
  <2>3. op'[c] = o /\ \A d \in Clients \ {c} : op'[d] = op[d] /\ progress'[d] = progress[d]
    BY <2>1, <2>2, <1>0 DEF Begin, Goes, Control
  <2>4. Reverses(o) =>
           /\ \A p \in posted : Reverses(p) => Of[p] # Of[o]
           /\ \A d \in Clients : InFlight(d) /\ Reverses(op[d]) => Of[op[d]] # Of[o]
    BY <2>1 DEF Begin, Allowed, Reversible
  <2>5. ReversesAlone'
    BY <2>2, <2>3, <2>4 DEF ReversalInv, ReversesAlone, InFlight, Reverses
  <2> QED
    BY <2>2, <2>5, <1>0 DEF ReversalInv, ReversedOnce, Reverses
<1>2. CASE BeginSweep
  <2>1. posted' = posted /\ Sweeper \in Clients
    BY <1>2 DEF BeginSweep, account, Clients
  <2>2. op'[Sweeper] = Sweep /\ \A d \in Clients \ {Sweeper} : op'[d] = op[d] /\ progress'[d] = progress[d]
    BY <1>2, <2>1, <1>0 DEF BeginSweep, Goes, Control
  <2>3. ~Reverses(Sweep)
    BY LedgerAssumption DEF Reverses, Reversals
  <2>4. ReversesAlone'
    BY <2>1, <2>2, <2>3 DEF ReversalInv, ReversesAlone, InFlight, Reverses
  <2> QED
    BY <2>1, <2>4, <1>0 DEF ReversalInv, ReversedOnce, Reverses
<1>3. CASE \E c \in Clients : ReadBuckets(c)
  <2>1. PICK c \in Clients : ReadBuckets(c)
    BY <1>3
  <2> QED
    BY <2>1, <1>0, LocksUntouched DEF ReadBuckets, Goes, account, Control
<1>4. CASE \E c \in Clients : ReadBalance(c)
  <2>1. PICK c \in Clients : ReadBalance(c)
    BY <1>4
  <2> QED
    BY <2>1, <1>0, LocksUntouched DEF ReadBalance, Goes, account, Control
<1>5. CASE \E c \in Clients : Post(c) \/ SetState(c)
  <2>1. PICK c \in Clients : Post(c) \/ SetState(c)
    BY <1>5
  <2>2. progress[c] = "commit" /\ ClosesClient(c)
    BY <2>1 DEF Post, SetState
  <2>3. progress'[c] = "idle" /\ \A d \in Clients \ {c} : op'[d] = op[d] /\ progress'[d] = progress[d]
    BY <2>2, <1>0 DEF ClosesClient, Goes, Control
  <2>4. posted' \subseteq posted \cup {op[c]}
    BY <2>1 DEF Post, SetState
  <2>5. ReversesAlone'
    BY <2>2, <2>3, <2>4 DEF ReversalInv, ReversesAlone, InFlight, Reverses
  <2>6. ReversedOnce'
    BY <2>2, <2>4 DEF ReversalInv, ReversesAlone, ReversedOnce, InFlight, Reverses
  <2> QED
    BY <2>5, <2>6, <1>0 DEF ReversalInv
<1>6. CASE \E c \in Clients : Abort(c)
  <2>1. PICK c \in Clients : Abort(c)
    BY <1>6
  <2> QED
    BY <2>1, <1>0, LocksUntouched DEF Abort, ClosesClient, Goes, account, Control
<1>7. CASE \E b \in Buckets : Elapse(b)
  BY <1>7, <1>0, LocksUntouched DEF Elapse, account
<1>8. CASE UNCHANGED pointsVars
  BY <1>8, <1>0, LocksUntouched DEF pointsVars, account
<1> QED
  BY <1>1, <1>2, <1>3, <1>4, <1>5, <1>6, <1>7, <1>8 DEF PointsNext

\* However many administrators and compensations reverse an entry, under whatever keys, one
\* reversal of it is posted (commands.py:846-942).
THEOREM OneReversalPerEntry == PointsSpec => []ReversedOnce
<1>1. PointsInit => ReversalInv
  BY InitialInv
<1>2. ReversalInv /\ [PointsNext]_pointsVars => ReversalInv'
  BY ReversalStep
<1>3. ReversalInv => ReversedOnce
  BY DEF ReversalInv
<1> QED
  BY <1>1, <1>2, <1>3, PTL DEF PointsSpec

\* The ledger can be relied on, for any number of clients, commands and buckets
\* (commands.py: every change of the balance posts its entry in the same transaction).
THEOREM LedgerCanBeReliedOn == PointsSpec => []LedgerStands
<1>1. BalanceIsLedger /\ ReversedOnce => LedgerStands
  BY DEF LedgerStands
<1> QED
  BY <1>1, BalanceAgreesWithLedger, OneReversalPerEntry, PTL

-----------------------------------------------------------------------------
(* PointsLedger: what is taken from the buckets in the order of expiry.    *)

\* A share takes from each bucket no more than it has, and all together no more than was
\* asked for, nor less while there is any (commands.py:360-424).
LEMMA SharesAddUp ==
  ASSUME NEW p \in [Buckets -> Nat], NEW n \in Int
  PROVE  /\ Share(p, n) \in [Buckets -> Nat]
         /\ \A b \in Buckets : Share(p, n)[b] <= p[b]
         /\ Total(Share(p, n)) = Least(Total(p), Positive(n))
<1> DEFINE s == Share(p, n)
<1>1. /\ IsFiniteSet(Buckets) /\ Rank \in [Buckets -> Nat]
      /\ \A b, e \in Buckets : Rank[b] = Rank[e] => b = e
  BY LedgerAssumption
<1>2. s = [b \in Buckets |-> s[b]]
  BY DEF Share
<1>3. \A b \in Buckets :
        s[b] = LesserOf(p[b], NonNegative(n - SumFunctionOnSet(p, RankedBefore(Buckets, Rank, b))))
  BY DEF Share, Earlier, RankedBefore, Least, Positive, LesserOf, NonNegative
<1> HIDE DEF s
<1>4. /\ \A b \in Buckets : s[b] \in Nat /\ s[b] <= p[b]
      /\ SumFunctionOnSet(s, Buckets) = LesserOf(SumFunctionOnSet(p, Buckets), NonNegative(n))
  BY <1>1, <1>3, TakenInOrder
<1>5. s \in [Buckets -> Nat]
  BY <1>2, <1>4
<1> QED
  BY <1>4, <1>5 DEF s, Total, Least, Positive, LesserOf, NonNegative
-----------------------------------------------------------------------------
(* PointsLedger: the buckets hold what may be spent, as long as an         *)
(* administrator who may put the account into debt is alone with it.       *)

(* A bucket version stands for one amount; the sweep reads as zero what it *)
(* leaves alone.                                                           *)
VersionNamesAmount ==
    \A c \in Clients : progress[c] \in {"balance", "commit"} => \A b \in Buckets :
        /\ sVersion[c][b] <= version[b]
        /\ sVersion[c][b] = version[b] /\ (op[c] # Sweep \/ sAmount[c][b] > 0) =>
              sAmount[c][b] = amount[b]

(* An administrator's transaction is alone in flight and its reads last.   *)
AdministratorAlone ==
    \A c, d \in Clients : ByAdmin(op[c]) /\ InFlight(c) /\ InFlight(d) => c = d

AdministratorReads ==
    \A c \in Clients : ByAdmin(op[c]) /\ progress[c] \in {"balance", "commit"} =>
        sAmount[c] = amount

NotOpenedYet == bVersion = 0 => balance = 0 /\ \A b \in Buckets : version[b] = 0

(* What holds of the rows whoever runs beside whom.                        *)
RowsInv ==
    /\ PointsTypeOK
    /\ LedgerInv
    /\ VersionNamesAmount
    /\ NotOpenedYet

BucketsInv ==
    /\ RowsInv
    /\ AdministratorAlone
    /\ AdministratorReads
    /\ BucketsMatchBalance

-----------------------------------------------------------------------------
\* What a transaction takes: no more than it read, and nothing unless it consumes.
LEMMA TakenSound ==
  ASSUME PointsTypeOK, NEW c \in Clients
  PROVE  /\ TakenBy(c) \in [Buckets -> Nat]
         /\ \A b \in Buckets : TakenBy(c)[b] <= sAmount[c][b]
         /\ op[c] = Sweep => Total(TakenBy(c)) = Total(sAmount[c])
         /\ op[c] # Sweep /\ Consumes(op[c]) =>
               Total(TakenBy(c)) = Least(Total(sAmount[c]), Amount[op[c]])
         /\ op[c] # Sweep /\ ~Consumes(op[c]) => TakenBy(c) = NoPoints
<1>1. sAmount[c] \in [Buckets -> Nat] /\ op[c] \in Commands \cup {Sweep}
  BY DEF PointsTypeOK
<1>2. CASE op[c] = Sweep
  <2>1. TakenBy(c) = sAmount[c]
    BY <1>2 DEF TakenBy
  <2> QED
    BY <1>1, <1>2, <2>1
<1>3. CASE op[c] # Sweep /\ Consumes(op[c])
  <2>1. TakenBy(c) = Share(sAmount[c], Amount[op[c]])
    BY <1>3 DEF TakenBy
  <2>2. Amount[op[c]] \in Nat \ {0}
    BY <1>1, <1>3, LedgerAssumption
  <2>3. Positive(Amount[op[c]]) = Amount[op[c]]
    BY <2>2 DEF Positive
  <2>4. Total(TakenBy(c)) = Least(Total(sAmount[c]), Amount[op[c]])
    BY <1>1, <2>1, <2>2, <2>3, SharesAddUp
  <2>5. TakenBy(c) \in [Buckets -> Nat] /\ \A b \in Buckets : TakenBy(c)[b] <= sAmount[c][b]
    BY <1>1, <2>1, <2>2, SharesAddUp
  <2> QED
    BY <1>3, <2>4, <2>5
<1>4. CASE op[c] # Sweep /\ ~Consumes(op[c])
  <2>1. TakenBy(c) = NoPoints
    BY <1>4 DEF TakenBy
  <2> QED
    BY <1>1, <1>4, <2>1 DEF NoPoints
<1> QED
  BY <1>2, <1>3, <1>4

\* The commands are of one kind each, and the sweep is of none.
LEMMA KindsApart ==
  ASSUME NEW o \in Commands \cup {Sweep}
  PROVE  /\ o = Sweep => ~Credited(o) /\ ~GivesBack(o) /\ ~Consumes(o) /\ ~ByAdmin(o)
         /\ Credited(o) => ~GivesBack(o) /\ ~Consumes(o) /\ Of[o] \in Buckets
         /\ GivesBack(o) => ~Consumes(o) /\ Of[o] \in Commands
         /\ Consumes(o) \/ Credited(o) \/ GivesBack(o) => Amount[o] \in Nat \ {0}
  BY LedgerAssumption DEF Credited, GivesBack, Consumes, ByAdmin, Freezes, TakesBack, Reverses,
     Credits, Charges, Reversals

\* The total of what differs from nothing at one bucket.
LEMMA TotalAt ==
  ASSUME NEW p, NEW b \in Buckets, p[b] \in Int, \A e \in Buckets \ {b} : p[e] = 0
  PROVE  Total(p) = p[b]
<1>1. IsFiniteSet(Buckets)
  BY LedgerAssumption
<1>2. SumFunctionOnSet(NoPoints, Buckets) = 0
  BY <1>1, SumOfZeros DEF NoPoints
<1>3. \A x \in Buckets : NoPoints[x] \in Int /\ p[x] \in Int
  BY DEF NoPoints
<1>4. \A x \in Buckets \ {b} : p[x] = NoPoints[x]
  BY DEF NoPoints
<1>5. SumFunctionOnSet(p, Buckets) = SumFunctionOnSet(NoPoints, Buckets) + (p[b] - NoPoints[b])
  BY <1>1, <1>3, <1>4, SumChangedAt
<1>6. NoPoints[b] = 0
  BY DEF NoPoints
<1> QED
  BY <1>2, <1>5, <1>6 DEF Total

\* What a transaction adds: of a credit the part above zero (commands.py:243-277), of a
\* restoration what the debt leaves, in the buckets it came from or the perpetual one.
LEMMA AddsSound ==
  ASSUME PointsTypeOK, NEW c \in Clients
  PROVE  /\ CreditAdds(c) \in [Buckets -> Nat]
         /\ Credited(op[c]) =>
               Total(CreditAdds(c)) = Positive(NewBalance(c)) - Positive(NewBalance(c) - Amount[op[c]])
         /\ GivesBack(op[c]) => Total(CreditAdds(c)) = Excess(c)
         /\ ~Credited(op[c]) /\ ~GivesBack(op[c]) => CreditAdds(c) = NoPoints
<1>0. op[c] \in Commands \cup {Sweep} /\ sBalance[c] \in Int
  BY DEF PointsTypeOK
<1>1. CASE Credited(op[c])
  <2> DEFINE o == op[c]
             raise == Positive(NewBalance(c)) - Positive(NewBalance(c) - Amount[o])
  <2>1. Of[o] \in Buckets /\ Amount[o] \in Nat \ {0} /\ o # Sweep /\ ~GivesBack(o)
    BY <1>0, <1>1, KindsApart
  <2>2. NewBalance(c) \in Int
    BY <1>0, <1>1, <2>1 DEF NewBalance, Entry
  <2>3. raise \in Nat
    BY <2>1, <2>2 DEF Positive
  <2>4. CreditAdds(c) = [b \in Buckets |-> IF b = Of[o] THEN raise ELSE 0]
    BY <1>1 DEF CreditAdds
  <2> HIDE DEF raise
  <2>5. CreditAdds(c) \in [Buckets -> Nat]
    BY <2>3, <2>4
  <2>6. CreditAdds(c)[Of[o]] = raise /\ \A e \in Buckets \ {Of[o]} : CreditAdds(c)[e] = 0
    BY <2>1, <2>4
  <2>7. Total(CreditAdds(c)) = raise
    BY <2>1, <2>3, <2>6, TotalAt
  <2> QED
    BY <1>1, <2>1, <2>5, <2>7 DEF raise
<1>2. CASE GivesBack(op[c])
  <2> DEFINE r == Returned(c)
             n == Excess(c)
             a == CreditAdds(c)
  <2>1. Of[op[c]] \in Commands /\ Amount[op[c]] \in Nat \ {0} /\ ~Credited(op[c])
    BY <1>0, <1>2, KindsApart
  <2>2. n \in Nat
    BY <1>0, <2>1 DEF Excess, Least, Positive
  <2>3. alloc[Of[op[c]]] \in [Buckets -> Nat]
    BY <2>1 DEF PointsTypeOK
  <2>4. r = Share(alloc[Of[op[c]]], n)
    BY DEF Returned
  <2> HIDE DEF n, r
  <2>5. r \in [Buckets -> Nat] /\ Total(r) = Least(Total(alloc[Of[op[c]]]), Positive(n))
    <3>1. n \in Int
      BY <2>2
    <3>2. /\ Share(alloc[Of[op[c]]], n) \in [Buckets -> Nat]
          /\ Total(Share(alloc[Of[op[c]]], n)) = Least(Total(alloc[Of[op[c]]]), Positive(n))
      BY <2>3, <3>1, SharesAddUp
    <3> QED
      BY <2>4, <3>2
  <2>6. Total(r) \in Nat
    BY <2>5, SumOfNats, LedgerAssumption DEF Total
  <2>7. Total(alloc[Of[op[c]]]) \in Nat
    BY <2>3, SumOfNats, LedgerAssumption DEF Total
  <2>8. n - Total(r) \in Nat
    BY <2>2, <2>5, <2>6, <2>7 DEF Least, Positive
  <2>9. a = [b \in Buckets |-> r[b] + (IF b = Perpetual THEN n - Total(r) ELSE 0)]
    BY <1>2, <2>1 DEF CreditAdds, r, n
  <2>10. a \in [Buckets -> Nat]
    BY <2>5, <2>8, <2>9
  <2>11. Perpetual \in Buckets /\ IsFiniteSet(Buckets)
    BY LedgerAssumption
  <2>12. a[Perpetual] = r[Perpetual] + (n - Total(r))
         /\ \A e \in Buckets \ {Perpetual} : a[e] = r[e]
    BY <2>5, <2>8, <2>9, <2>11
  <2> HIDE DEF a
  <2>13. Total(a) = Total(r) + (a[Perpetual] - r[Perpetual])
    <3>1. \A x \in Buckets : r[x] \in Int /\ a[x] \in Int
      BY <2>5, <2>10
    <3>2. SumFunctionOnSet(a, Buckets) = SumFunctionOnSet(r, Buckets) + (a[Perpetual] - r[Perpetual])
      BY <3>1, <2>11, <2>12, SumChangedAt
    <3> QED
      BY <3>2 DEF Total
  <2>14. r[Perpetual] \in Nat
    BY <2>5, <2>11
  <2>15. Total(a) = n
    BY <2>2, <2>6, <2>12, <2>13, <2>14
  <2> QED
    BY <1>2, <2>1, <2>10, <2>15 DEF a, n
<1>3. CASE ~Credited(op[c]) /\ ~GivesBack(op[c])
  <2>1. CreditAdds(c) = NoPoints
    BY <1>3 DEF CreditAdds, NoPoints
  <2> QED
    BY <1>3, <2>1 DEF NoPoints
<1> QED
  BY <1>1, <1>2, <1>3

\* The version checks of a posting (Fresh): what it takes was still there, and whatever it
\* changes gets a version nobody has read (commands.py:243-277, 386-404).
LEMMA PostedRows ==
  ASSUME RowsInv, NEW c \in Clients, Post(c)
  PROVE  /\ sBalance[c] = balance
         /\ \A b \in Buckets : TakenBy(c)[b] <= amount[b]
         /\ \A b \in Buckets : version[b] <= version'[b] /\ version'[b] \in Nat
         /\ \A b \in Buckets : version'[b] = version[b] => amount'[b] = amount[b]
         /\ amount' \in [Buckets -> Nat]
<1> DEFINE A == CreditAdds(c)
           T == TakenBy(c)
<1>0. PointsTypeOK /\ VersionNamesAmount /\ VersionNamesBalance /\ NotOpenedYet
  BY DEF RowsInv, LedgerInv
<1>1. progress[c] = "commit" /\ Fresh(c) /\ op[c] \in Commands \cup {Sweep}
  BY <1>0 DEF Post, PointsTypeOK
<1>2. sBalance[c] = balance
  BY <1>0, <1>1 DEF VersionNamesBalance, Fresh
<1>3. A \in [Buckets -> Nat] /\ T \in [Buckets -> Nat]
  BY <1>0, TakenSound, AddsSound
<1>4. \A b \in Buckets : amount[b] \in Nat /\ version[b] \in Nat /\ sAmount[c][b] \in Nat
  BY <1>0 DEF PointsTypeOK
<1>5. \A b \in Buckets : T[b] <= sAmount[c][b]
  BY <1>0, TakenSound
<1>6. GivesBack(op[c]) => T = NoPoints
  BY <1>0, <1>1, TakenSound, KindsApart
<1>7. ASSUME NEW b \in Buckets PROVE T[b] <= amount[b]
  <2>1. CASE T[b] = 0
    BY <2>1, <1>4
  <2>2. CASE T[b] > 0
    <3>1. Changes(c, b) /\ ~FallsBack(c, b)
      BY <2>2, <1>3, <1>6 DEF Changes, FallsBack, NoPoints
    <3>2. version[b] = sVersion[c][b]
      BY <3>1, <1>1 DEF Fresh
    <3>3. sAmount[c][b] > 0
      BY <2>2, <1>3, <1>4, <1>5
    <3>4. sAmount[c][b] = amount[b]
      BY <3>2, <3>3, <1>0, <1>1 DEF VersionNamesAmount
    <3> QED
      BY <3>4, <1>5
  <2> QED
    BY <2>1, <2>2, <1>3
<1>8. ASSUME NEW b \in Buckets, Creates(c, b) PROVE version[b] = 0
  <2>1. CASE OpensAccount(c)
    BY <2>1, <1>0, <1>1 DEF Fresh, NotOpenedYet
  <2>2. CASE ~OpensAccount(c)
    <3>1. Credited(op[c]) /\ sVersion[c][b] = 0
      BY <1>8, <2>2 DEF Creates
    <3>2. ~FallsBack(c, b)
      BY <3>1, <1>1, KindsApart DEF FallsBack
    <3> QED
      BY <3>1, <3>2, <1>8, <1>1 DEF Fresh
  <2> QED
    BY <2>1, <2>2
<1>9. \A b \in Buckets : amount'[b] = amount[b] + A[b] - T[b] /\ version'[b] = Bumped(c, b)
  BY DEF Post
<1>10. ASSUME NEW b \in Buckets
       PROVE  /\ version[b] <= version'[b] /\ version'[b] \in Nat
              /\ version'[b] = version[b] => A[b] + T[b] = 0
  <2>1. version[b] \in Nat /\ version'[b] = Bumped(c, b)
    BY <1>4, <1>9
  <2>2. CASE Changes(c, b) /\ Creates(c, b)
    BY <2>1, <2>2, <1>8 DEF Bumped
  <2>3. CASE Changes(c, b) /\ ~Creates(c, b)
    BY <2>1, <2>3 DEF Bumped
  <2>4. CASE ~Changes(c, b)
    <3>1. A[b] + T[b] = 0
      BY <2>4, <1>3 DEF Changes
    <3>2. CASE Creates(c, b)
      BY <2>1, <2>4, <3>1, <3>2, <1>8 DEF Bumped
    <3>3. CASE ~Creates(c, b)
      BY <2>1, <2>4, <3>1, <3>3 DEF Bumped
    <3> QED
      BY <3>2, <3>3
  <2> QED
    BY <2>2, <2>3, <2>4
<1>11. \A b \in Buckets : A[b] \in Nat /\ T[b] \in Nat
  BY <1>3
<1>12. \A b \in Buckets : version'[b] = version[b] => amount'[b] = amount[b]
  <2> HIDE DEF A, T
  <2> QED
    BY <1>4, <1>9, <1>10, <1>11
<1>13. amount' \in [Buckets -> Nat]
  <2>1. amount' = [b \in Buckets |-> amount[b] + A[b] - T[b]]
    BY DEF Post
  <2> HIDE DEF A, T
  <2>2. \A b \in Buckets : amount[b] + A[b] - T[b] \in Nat
    BY <1>4, <1>7, <1>11
  <2> QED
    BY <2>1, <2>2
<1> QED
  BY <1>2, <1>7, <1>10, <1>12, <1>13

\* The balance and the buckets after a posting.  A debit takes what it found, whatever has
\* happened to the other buckets since; an administrator's takes what there is.
LEMMA PostedTotal ==
  ASSUME AdminAlone, BucketsInv, NEW c \in Clients, Post(c)
  PROVE  /\ BucketsMatchBalance'
         /\ op[c] \in Commands /\ Kind[op[c]] = "debit" => balance' >= 0
<1> DEFINE A == CreditAdds(c)
           T == TakenBy(c)
           o == op[c]
           h == [b \in Buckets |-> amount[b] + A[b]]
<1>0. PointsTypeOK /\ BucketsMatchBalance /\ AdministratorReads
  BY DEF BucketsInv, RowsInv
<1>1. progress[c] = "commit" /\ o \in Commands \cup {Sweep} /\ balance \in Int
      /\ IsFiniteSet(Buckets)
  BY <1>0, LedgerAssumption DEF Post, PointsTypeOK
<1>2. sBalance[c] = balance /\ (\A b \in Buckets : T[b] <= amount[b]) /\ amount' \in [Buckets -> Nat]
  BY PostedRows DEF BucketsInv
<1>3. A \in [Buckets -> Nat] /\ T \in [Buckets -> Nat] /\ amount \in [Buckets -> Nat]
      /\ sAmount[c] \in [Buckets -> Nat]
  BY <1>0, TakenSound, AddsSound DEF PointsTypeOK
<1>4. Total(amount) \in Nat /\ Total(A) \in Nat /\ Total(T) \in Nat /\ Total(sAmount[c]) \in Nat
  BY <1>1, <1>3, SumOfNats DEF Total
<1>5. Total(amount') = Total(amount) + Total(A) - Total(T)
  <2>1. \A b \in Buckets : amount'[b] = amount[b] + A[b] - T[b]
    BY DEF Post
  <2> HIDE DEF A, T
  <2>2. Total(h) = Total(amount) + Total(A)
    <3>1. \A b \in Buckets : amount[b] \in Int /\ A[b] \in Int /\ h[b] = amount[b] + A[b]
      BY <1>3
    <3> HIDE DEF h
    <3>2. SumFunctionOnSet(h, Buckets) = SumFunctionOnSet(amount, Buckets) + SumFunctionOnSet(A, Buckets)
      BY <3>1, <1>1, SumOfBoth
    <3> QED
      BY <3>2 DEF Total
  <2>3. Total(h) = Total(amount') + Total(T)
    <3>1. \A b \in Buckets : amount'[b] \in Int /\ T[b] \in Int /\ h[b] = amount'[b] + T[b]
      BY <1>2, <1>3, <2>1
    <3> HIDE DEF h
    <3>2. SumFunctionOnSet(h, Buckets) = SumFunctionOnSet(amount', Buckets) + SumFunctionOnSet(T, Buckets)
      BY <3>1, <1>1, SumOfBoth
    <3> QED
      BY <3>2 DEF Total
  <2>4. Total(amount') \in Nat
    BY <1>1, <1>2, SumOfNats DEF Total
  <2> HIDE DEF h
  <2> QED
    BY <2>2, <2>3, <2>4, <1>4
<1>6. Total(T) <= Total(amount)
  <2>1. \A b \in Buckets : T[b] \in Int /\ amount[b] \in Int /\ T[b] <= amount[b]
    BY <1>2, <1>3
  <2> HIDE DEF T
  <2> QED
    BY <2>1, <1>1, SumsOrdered DEF Total
<1>7. balance' = NewBalance(c) /\ Total(amount) = Positive(balance)
  BY <1>0 DEF Post, BucketsMatchBalance
<1>8. Total(NoPoints) = 0
  BY <1>1, SumOfZeros DEF Total, NoPoints
<1>9. CASE Credited(o)
  <2>1. o # Sweep /\ ~GivesBack(o) /\ ~Consumes(o) /\ Amount[o] \in Nat \ {0}
    BY <1>1, <1>9, KindsApart
  <2>2. NewBalance(c) = balance + Amount[o]
    BY <1>2, <1>9, <2>1 DEF NewBalance, Entry
  <2>3. Total(A) = Positive(NewBalance(c)) - Positive(NewBalance(c) - Amount[o])
    BY <1>0, <1>9, AddsSound
  <2>4. Total(T) = 0
    BY <1>0, <1>8, <2>1, TakenSound
  <2>5. Total(amount') = Positive(balance')
    BY <1>1, <1>4, <1>5, <1>7, <2>1, <2>2, <2>3, <2>4 DEF Positive
  <2>6. o \in Commands => Kind[o] # "debit"
    BY <1>9 DEF Credited, Credits
  <2> QED
    BY <2>5, <2>6 DEF BucketsMatchBalance, Total
<1>10. CASE GivesBack(o)
  <2>1. o # Sweep /\ ~Credited(o) /\ ~Consumes(o) /\ Amount[o] \in Nat \ {0}
    BY <1>1, <1>10, KindsApart
  <2>2. NewBalance(c) = balance + Amount[o]
    BY <1>2, <1>10, <2>1 DEF NewBalance, Entry
  <2>3. Total(A) = Amount[o] - Least(Positive(-balance), Amount[o])
    BY <1>0, <1>2, <1>10, AddsSound DEF Excess
  <2>4. Total(T) = 0
    BY <1>0, <1>8, <2>1, TakenSound
  <2>5. Total(amount') = Positive(balance')
    BY <1>1, <1>4, <1>5, <1>7, <2>1, <2>2, <2>3, <2>4 DEF Positive, Least
  <2>6. o \in Commands => Kind[o] # "debit"
    BY <1>10 DEF GivesBack, Reverses, Reversals
  <2> QED
    BY <2>5, <2>6 DEF BucketsMatchBalance, Total
<1>11. CASE o = Sweep
  <2>1. Total(A) = 0
    BY <1>0, <1>1, <1>8, <1>11, KindsApart, AddsSound
  <2>2. Total(T) = Total(sAmount[c])
    BY <1>0, <1>11, TakenSound
  <2>3. NewBalance(c) = balance - Total(T)
    BY <1>1, <1>2, <1>4, <1>11, <2>2 DEF NewBalance, Entry
  <2>4. Total(amount') = Positive(balance')
    BY <1>1, <1>4, <1>5, <1>6, <1>7, <2>1, <2>3 DEF Positive
  <2>5. o \notin Commands
    BY <1>11, LedgerAssumption
  <2> QED
    BY <2>4, <2>5 DEF BucketsMatchBalance, Total
<1>12. CASE o # Sweep /\ Consumes(o)
  <2>1. ~Credited(o) /\ ~GivesBack(o) /\ Amount[o] \in Nat \ {0} /\ o \in Commands
    BY <1>1, <1>12, KindsApart
  <2>2. Total(A) = 0
    BY <1>0, <1>8, <2>1, AddsSound
  <2>3. Total(T) = Least(Total(sAmount[c]), Amount[o])
    BY <1>0, <1>12, TakenSound
  <2>4. NewBalance(c) = balance - Amount[o]
    BY <1>1, <1>2, <1>12, <2>1 DEF NewBalance, Entry
  <2>5. CASE Kind[o] = "debit"
    <3>1. Amount[o] <= Total(sAmount[c])
      BY <1>12, <2>5 DEF Post, Affordable
    <3>2. Total(T) = Amount[o]
      BY <3>1, <2>1, <2>3, <1>4 DEF Least
    <3>3. Total(amount') = Positive(balance') /\ balance' >= 0
      BY <3>2, <1>1, <1>4, <1>5, <1>6, <1>7, <2>1, <2>2, <2>4 DEF Positive
    <3> QED
      BY <3>3 DEF BucketsMatchBalance, Total
  <2>6. CASE Kind[o] # "debit"
    <3>1. ByAdmin(o)
      BY <1>12, <2>1, <2>6 DEF ByAdmin, Consumes, Charges
    <3>2. sAmount[c] = amount
      BY <3>1, <1>0, <1>1 DEF AdministratorReads
    <3>3. Total(amount') = Positive(balance')
      BY <3>2, <1>1, <1>4, <1>5, <1>7, <2>1, <2>2, <2>3, <2>4 DEF Positive, Least
    <3> QED
      BY <3>3, <2>6 DEF BucketsMatchBalance, Total
  <2> QED
    BY <2>5, <2>6
<1>13. CASE o # Sweep /\ ~Consumes(o) /\ ~Credited(o) /\ ~GivesBack(o)
  <2>1. Total(A) = 0 /\ Total(T) = 0
    BY <1>0, <1>8, <1>13, AddsSound, TakenSound
  <2>2. NewBalance(c) = balance
    BY <1>1, <1>2, <1>13 DEF NewBalance, Entry
  <2>3. Total(amount') = Positive(balance')
    BY <1>4, <1>5, <1>7, <2>1, <2>2
  <2>4. Kind[o] # "debit"
    BY <1>1, <1>13 DEF Consumes, Charges
  <2> QED
    BY <2>3, <2>4 DEF BucketsMatchBalance, Total
<1> QED
  BY <1>9, <1>10, <1>11, <1>12, <1>13

\* The rows and the transactions keep their types (PointsLedger.tla, all actions): no
\* bucket falls below zero (models.py:112-116), whoever runs beside whom.
LEMMA PointsTypeStep ==
  ASSUME RowsInv, [PointsNext]_pointsVars PROVE PointsTypeOK'
<1>0. PointsTypeOK
  BY DEF RowsInv
<1> USE DEF PointsTypeOK, States
<1>1. CASE \E c \in Users, o \in Commands : Begin(c, o)
  BY <1>0, <1>1 DEF Begin, Goes, account, Clients
<1>2. CASE BeginSweep
  BY <1>0, <1>2 DEF BeginSweep, Goes, account, snapshots, Clients
<1>3. CASE \E c \in Clients : ReadBuckets(c)
  <2>1. PICK c \in Clients : ReadBuckets(c)
    BY <1>3
  <2>2. [b \in Buckets |-> IF op[c] = Sweep /\ ~Sweeps(b) THEN 0 ELSE amount[b]] \in [Buckets -> Nat]
    BY <1>0
  <2>3. sAmount' \in [Clients -> [Buckets -> Nat]]
    BY <1>0, <2>1, <2>2 DEF ReadBuckets
  <2>4. sVersion' \in [Clients -> [Buckets -> Nat]] /\ sState' \in [Clients -> States]
    BY <1>0, <2>1 DEF ReadBuckets
  <2> QED
    BY <1>0, <2>1, <2>3, <2>4 DEF ReadBuckets, Goes, account
<1>4. CASE \E c \in Clients : ReadBalance(c)
  BY <1>0, <1>4 DEF ReadBalance, Goes, account
<1>5. CASE \E c \in Clients : Post(c)
  <2>1. PICK c \in Clients : Post(c)
    BY <1>5
  <2>2. amount' \in [Buckets -> Nat]
    BY <2>1, PostedRows
  <2>3. version' \in [Buckets -> Nat]
    <3>1. version' = [b \in Buckets |-> Bumped(c, b)]
      BY <2>1 DEF Post
    <3>2. \A b \in Buckets : version'[b] \in Nat
      BY <2>1, PostedRows
    <3> QED
      BY <3>1, <3>2
  <2>4. Entry(c) \in Int
    <3>1. op[c] \in Commands \cup {Sweep} /\ sAmount[c] \in [Buckets -> Nat]
      BY <1>0
    <3>2. Total(sAmount[c]) \in Nat
      BY <3>1, SumOfNats, LedgerAssumption DEF Total
    <3>3. op[c] # Sweep => Amount[op[c]] \in Nat
      BY <3>1, LedgerAssumption
    <3> QED
      BY <3>2, <3>3 DEF Entry
  <2>5. balance' \in Int /\ ledger' \in Int /\ bVersion' \in Nat
    BY <1>0, <2>1, <2>4 DEF Post, NewBalance
  <2>6. state' \in States
    BY <1>0, <2>1 DEF Post, Synced
  <2>7. posted' \subseteq Commands /\ due' = due
    BY <1>0, <2>1 DEF Post
  <2>8. alloc' \in [Commands -> [Buckets -> Nat]]
    <3>1. TakenBy(c) \in [Buckets -> Nat]
      BY <1>0, TakenSound
    <3> QED
      BY <1>0, <2>1, <3>1 DEF Post
  <2>9. ClosesClient(c)
    BY <2>1 DEF Post
  <2> QED
    BY <1>0, <2>2, <2>3, <2>5, <2>6, <2>7, <2>8, <2>9 DEF ClosesClient, Goes, NoPoints
<1>6. CASE \E c \in Clients : SetState(c)
  <2>1. PICK c \in Clients : SetState(c)
    BY <1>6
  <2>2. state' \in States
    BY <1>0, <2>1 DEF SetState, Target
  <2>3. posted' \subseteq Commands
    BY <1>0, <2>1 DEF SetState, Freezes
  <2> QED
    BY <1>0, <2>1, <2>2, <2>3 DEF SetState, ClosesClient, Goes, NoPoints
<1>7. CASE \E c \in Clients : Abort(c)
  BY <1>0, <1>7 DEF Abort, ClosesClient, Goes, account, NoPoints
<1>8. CASE \E b \in Buckets : Elapse(b)
  BY <1>0, <1>8 DEF Elapse, account, snapshots
<1>9. CASE UNCHANGED pointsVars
  BY <1>0, <1>9 DEF pointsVars, account, snapshots
<1> QED
  BY <1>1, <1>2, <1>3, <1>4, <1>5, <1>6, <1>7, <1>8, <1>9 DEF PointsNext

LEMMA RowsInitial == PointsInit => RowsInv
<1> SUFFICES ASSUME PointsInit PROVE RowsInv
  OBVIOUS
<1>1. PointsTypeOK
  BY DEF PointsInit, PointsTypeOK, States, NoPoints
<1>2. LedgerInv
  BY InitialInv
<1>3. \A c \in Clients : progress[c] = "idle"
  BY DEF PointsInit
<1>4. VersionNamesAmount /\ NotOpenedYet
  BY <1>3 DEF PointsInit, VersionNamesAmount, NotOpenedYet, NoPoints
<1> QED
  BY <1>1, <1>2, <1>4 DEF RowsInv

\* Whoever holds what it read after a step that posts nothing held it before.
LEMMA RowsUntouched ==
  ASSUME RowsInv, PointsTypeOK', LedgerInv',
         UNCHANGED <<balance, bVersion, amount, version>>,
         \A c \in Clients : progress'[c] \in {"balance", "commit"} =>
            /\ progress[c] \in {"balance", "commit"}
            /\ op'[c] = op[c] /\ sAmount'[c] = sAmount[c] /\ sVersion'[c] = sVersion[c]
  PROVE  RowsInv'
<1>1. VersionNamesAmount'
  BY DEF RowsInv, VersionNamesAmount
<1>2. NotOpenedYet'
  BY DEF RowsInv, NotOpenedYet
<1> QED
  BY <1>1, <1>2 DEF RowsInv

\* A bucket version goes on standing for one amount, administrators or not: a posting gives
\* a new version to what it changes (commands.py:243-277).
LEMMA RowsStep ==
  ASSUME RowsInv, [PointsNext]_pointsVars PROVE RowsInv'
<1>0. PointsTypeOK /\ PointsTypeOK' /\ LedgerInv'
  BY PointsTypeStep, LedgerStep DEF RowsInv
<1>1. CASE \E c \in Users, o \in Commands : Begin(c, o)
  <2>1. PICK c \in Users, o \in Commands : Begin(c, o)
    BY <1>1
  <2>2. UNCHANGED <<balance, bVersion, amount, version, sAmount, sVersion>> /\ c \in Clients
    BY <2>1 DEF Begin, account, Clients
  <2>3. op' = [op EXCEPT ![c] = o] /\ progress' = [progress EXCEPT ![c] = "buckets"]
    BY <2>1 DEF Begin, Goes
  <2> QED
    BY <1>0, <2>2, <2>3, RowsUntouched DEF PointsTypeOK
<1>2. CASE BeginSweep
  <2>1. UNCHANGED <<balance, bVersion, amount, version, sAmount, sVersion>> /\ Sweeper \in Clients
    BY <1>2 DEF BeginSweep, account, snapshots, Clients
  <2>2. op' = [op EXCEPT ![Sweeper] = Sweep] /\ progress' = [progress EXCEPT ![Sweeper] = "buckets"]
    BY <1>2 DEF BeginSweep, Goes
  <2> QED
    BY <1>0, <2>1, <2>2, RowsUntouched DEF PointsTypeOK
<1>3. CASE \E c \in Clients : ReadBuckets(c)
  <2>1. PICK c \in Clients : ReadBuckets(c)
    BY <1>3
  <2>2. UNCHANGED <<balance, bVersion, amount, version, op>>
    BY <2>1 DEF ReadBuckets, account
  <2>3. /\ sVersion'[c] = version /\ progress[c] = "buckets" /\ progress'[c] = "balance"
        /\ sAmount'[c] = [b \in Buckets |-> IF op[c] = Sweep /\ ~Sweeps(b) THEN 0 ELSE amount[b]]
    BY <1>0, <2>1 DEF ReadBuckets, Goes, PointsTypeOK
  <2>4. \A d \in Clients \ {c} :
           progress'[d] = progress[d] /\ sAmount'[d] = sAmount[d] /\ sVersion'[d] = sVersion[d]
    BY <1>0, <2>1 DEF ReadBuckets, Goes, PointsTypeOK
  <2>5. \A b \in Buckets : amount[b] \in Nat /\ version[b] \in Nat
    BY <1>0 DEF PointsTypeOK
  <2>6. VersionNamesAmount'
    <3> SUFFICES ASSUME NEW d \in Clients, progress'[d] \in {"balance", "commit"}, NEW b \in Buckets
                 PROVE  /\ sVersion'[d][b] <= version'[b]
                        /\ sVersion'[d][b] = version'[b] /\ (op'[d] # Sweep \/ sAmount'[d][b] > 0) =>
                              sAmount'[d][b] = amount'[b]
      BY DEF VersionNamesAmount
    <3>1. CASE d = c
      BY <2>2, <2>3, <2>5, <3>1
    <3>2. CASE d # c
      BY <2>2, <2>4, <3>2 DEF RowsInv, VersionNamesAmount
    <3> QED
      BY <3>1, <3>2
  <2>7. NotOpenedYet'
    BY <2>2 DEF RowsInv, NotOpenedYet
  <2> QED
    BY <1>0, <2>6, <2>7 DEF RowsInv
<1>4. CASE \E c \in Clients : ReadBalance(c)
  <2>1. PICK c \in Clients : ReadBalance(c)
    BY <1>4
  <2>2. UNCHANGED <<balance, bVersion, amount, version, op, sAmount, sVersion>>
    BY <2>1 DEF ReadBalance, account
  <2>3. progress[c] = "balance" /\ progress' = [progress EXCEPT ![c] = "commit"]
    BY <2>1 DEF ReadBalance, Goes
  <2> QED
    BY <1>0, <2>2, <2>3, RowsUntouched DEF PointsTypeOK
<1>5. CASE \E c \in Clients : Post(c)
  <2>1. PICK c \in Clients : Post(c)
    BY <1>5
  <2>2. progress[c] = "commit" /\ bVersion' = bVersion + 1 /\ ClosesClient(c)
    BY <2>1 DEF Post
  <2>3. /\ progress'[c] = "idle"
        /\ \A d \in Clients \ {c} : /\ progress'[d] = progress[d] /\ op'[d] = op[d]
                                    /\ sAmount'[d] = sAmount[d] /\ sVersion'[d] = sVersion[d]
    BY <1>0, <2>2 DEF ClosesClient, Goes, PointsTypeOK
  <2>4. /\ \A b \in Buckets : version[b] <= version'[b] /\ version'[b] \in Nat
        /\ \A b \in Buckets : version'[b] = version[b] => amount'[b] = amount[b]
    BY <2>1, PostedRows
  <2>5. VersionNamesAmount'
    <3> SUFFICES ASSUME NEW d \in Clients, progress'[d] \in {"balance", "commit"}, NEW b \in Buckets
                 PROVE  /\ sVersion'[d][b] <= version'[b]
                        /\ sVersion'[d][b] = version'[b] /\ (op'[d] # Sweep \/ sAmount'[d][b] > 0) =>
                              sAmount'[d][b] = amount'[b]
      BY DEF VersionNamesAmount
    <3>1. d # c
      BY <2>3
    <3>2. /\ progress'[d] = progress[d] /\ op'[d] = op[d]
          /\ sAmount'[d] = sAmount[d] /\ sVersion'[d] = sVersion[d]
      BY <2>3, <3>1
    <3>3. /\ sVersion[d][b] <= version[b]
          /\ sVersion[d][b] = version[b] /\ (op[d] # Sweep \/ sAmount[d][b] > 0) =>
                              sAmount[d][b] = amount[b]
      BY <3>2 DEF RowsInv, VersionNamesAmount
    <3>4. sVersion[d][b] \in Nat /\ version[b] \in Nat /\ version'[b] \in Nat
          /\ version[b] <= version'[b] /\ (version'[b] = version[b] => amount'[b] = amount[b])
      BY <1>0, <2>4 DEF PointsTypeOK
    <3> QED
      BY <3>2, <3>3, <3>4
  <2>6. NotOpenedYet'
    BY <1>0, <2>2 DEF NotOpenedYet, PointsTypeOK
  <2> QED
    BY <1>0, <2>5, <2>6 DEF RowsInv
<1>6. CASE \E c \in Clients : SetState(c) \/ Abort(c)
  <2>1. PICK c \in Clients : SetState(c) \/ Abort(c)
    BY <1>6
  <2>2. UNCHANGED <<balance, bVersion, amount, version>> /\ ClosesClient(c)
    BY <2>1 DEF SetState, Abort, account
  <2>3. /\ progress'[c] = "idle"
        /\ \A d \in Clients \ {c} : /\ progress'[d] = progress[d] /\ op'[d] = op[d]
                                    /\ sAmount'[d] = sAmount[d] /\ sVersion'[d] = sVersion[d]
    BY <1>0, <2>2 DEF ClosesClient, Goes, PointsTypeOK
  <2> QED
    BY <1>0, <2>2, <2>3, RowsUntouched
<1>7. CASE \E b \in Buckets : Elapse(b)
  BY <1>0, <1>7, RowsUntouched DEF Elapse, account, snapshots
<1>8. CASE UNCHANGED pointsVars
  BY <1>0, <1>8, RowsUntouched DEF pointsVars, account, snapshots
<1> QED
  BY <1>1, <1>2, <1>3, <1>4, <1>5, <1>6, <1>7, <1>8 DEF PointsNext

\* No bucket of an account falls below zero and no row leaves its type, whatever clients,
\* administrators and the sweep do beside each other (commands.py:243-424, 846-1154).
THEOREM PointsKeepTypes == PointsSpec => []PointsTypeOK
<1>1. PointsInit => RowsInv
  BY RowsInitial
<1>2. RowsInv /\ [PointsNext]_pointsVars => RowsInv'
  BY RowsStep
<1>3. RowsInv => PointsTypeOK
  BY DEF RowsInv
<1> QED
  BY <1>1, <1>2, <1>3, PTL DEF PointsSpec

\* Whoever is at work after a step that posts nothing was already, at the same command and
\* with what it had read: what versions and the administrator's solitude say stays so.
LEMMA BucketsUntouched ==
  ASSUME BucketsInv, RowsInv',
         UNCHANGED <<balance, bVersion, amount, version>>,
         \A c \in Clients : progress'[c] # "idle" => progress[c] # "idle" /\ op'[c] = op[c],
         \A c \in Clients : progress'[c] \in {"balance", "commit"} =>
            /\ progress[c] \in {"balance", "commit"}
            /\ sAmount'[c] = sAmount[c] /\ sVersion'[c] = sVersion[c]
  PROVE  BucketsInv'
<1>1. RowsInv'
  OBVIOUS
<1>3. AdministratorAlone'
  BY DEF BucketsInv, AdministratorAlone, InFlight, ByAdmin, Freezes, TakesBack, Reverses
<1>4. AdministratorReads'
  <2> SUFFICES ASSUME NEW c \in Clients, ByAdmin(op'[c]), progress'[c] \in {"balance", "commit"}
               PROVE  sAmount'[c] = amount'
    BY DEF AdministratorReads, ByAdmin, Freezes, TakesBack, Reverses
  <2>1. op'[c] = op[c] /\ progress[c] \in {"balance", "commit"} /\ sAmount'[c] = sAmount[c]
    OBVIOUS
  <2> QED
    BY <2>1 DEF BucketsInv, AdministratorReads
<1>5. BucketsMatchBalance'
  BY DEF BucketsInv, BucketsMatchBalance, Total
<1> QED
  BY <1>1, <1>3, <1>4, <1>5 DEF BucketsInv

\* A transaction that begins while an administrator's is open, or the other way round, is
\* what AdminAlone excludes.
LEMMA BeginsAlone ==
  ASSUME AdminAlone, BucketsInv, RowsInv', NEW c \in Clients,
         NEW o \in Commands \cup {Sweep}, AloneIfAdmin(o), progress[c] = "idle",
         UNCHANGED <<balance, bVersion, amount, version, sAmount, sVersion>>,
         op' = [op EXCEPT ![c] = o], progress' = [progress EXCEPT ![c] = "buckets"]
  PROVE  BucketsInv'
<1>0. op \in [Clients -> Commands \cup {Sweep}] /\ DOMAIN progress = Clients
  BY DEF BucketsInv, RowsInv, PointsTypeOK
<1>1. op'[c] = o /\ progress'[c] = "buckets"
      /\ \A d \in Clients \ {c} : op'[d] = op[d] /\ progress'[d] = progress[d]
  BY <1>0
<1>4. AdministratorAlone'
  <2>1. \A d \in Clients : InFlight(d) => ~ByAdmin(o) /\ ~ByAdmin(op[d])
    BY DEF AloneIfAdmin
  <2> SUFFICES ASSUME NEW d \in Clients, NEW e \in Clients, ByAdmin(op'[d]),
                      progress'[d] # "idle", progress'[e] # "idle", d # e
               PROVE  FALSE
    BY DEF AdministratorAlone, InFlight, ByAdmin, Freezes, TakesBack, Reverses
  <2>2. CASE d = c
    <3>1. progress[e] # "idle" /\ op'[d] = o
      BY <1>1, <2>2
    <3> QED
      BY <3>1, <2>1 DEF InFlight
  <2>3. CASE d # c
    <3>1. progress[d] # "idle" /\ op'[d] = op[d]
      BY <1>1, <2>3
    <3> QED
      BY <3>1, <2>1 DEF InFlight
  <2> QED
    BY <2>2, <2>3
<1>5. AdministratorReads'
  <2> SUFFICES ASSUME NEW d \in Clients, ByAdmin(op'[d]), progress'[d] \in {"balance", "commit"}
               PROVE  sAmount'[d] = amount'
    BY DEF AdministratorReads, ByAdmin, Freezes, TakesBack, Reverses
  <2>1. d # c
    BY <1>1
  <2>2. op'[d] = op[d] /\ progress'[d] = progress[d]
    BY <1>1, <2>1
  <2> QED
    BY <2>2 DEF BucketsInv, AdministratorReads
<1>6. BucketsMatchBalance'
  BY DEF BucketsInv, BucketsMatchBalance, Total
<1> QED
  BY <1>4, <1>5, <1>6 DEF BucketsInv

LEMMA BucketsStep ==
  ASSUME AdminAlone, BucketsInv, [PointsNext]_pointsVars PROVE BucketsInv'
<1>0. PointsTypeOK /\ RowsInv'
  BY RowsStep DEF BucketsInv, RowsInv
<1>1. CASE \E c \in Users, o \in Commands : Begin(c, o)
  <2>1. PICK c \in Users, o \in Commands : Begin(c, o)
    BY <1>1
  <2>2. c \in Clients /\ o \in Commands \cup {Sweep} /\ AloneIfAdmin(o) /\ progress[c] = "idle"
    BY <2>1 DEF Begin, Clients
  <2>3. UNCHANGED <<balance, bVersion, amount, version, sAmount, sVersion>>
    BY <2>1 DEF Begin, account
  <2>4. op' = [op EXCEPT ![c] = o] /\ progress' = [progress EXCEPT ![c] = "buckets"]
    BY <2>1 DEF Begin, Goes
  <2> QED
    BY <1>0, <2>2, <2>3, <2>4, BeginsAlone
<1>2. CASE BeginSweep
  <2>1. Sweeper \in Clients /\ Sweep \in Commands \cup {Sweep} /\ AloneIfAdmin(Sweep)
        /\ progress[Sweeper] = "idle"
    BY <1>2 DEF BeginSweep, Clients
  <2>2. UNCHANGED <<balance, bVersion, amount, version, sAmount, sVersion>>
    BY <1>2 DEF BeginSweep, account, snapshots
  <2>3. op' = [op EXCEPT ![Sweeper] = Sweep] /\ progress' = [progress EXCEPT ![Sweeper] = "buckets"]
    BY <1>2 DEF BeginSweep, Goes
  <2> QED
    BY <1>0, <2>1, <2>2, <2>3, BeginsAlone
<1>3. CASE \E c \in Clients : ReadBuckets(c)
  <2>1. PICK c \in Clients : ReadBuckets(c)
    BY <1>3
  <2>2. UNCHANGED <<balance, bVersion, amount, version, op>>
    BY <2>1 DEF ReadBuckets, account
  <2>3. /\ sVersion'[c] = version /\ progress[c] = "buckets" /\ progress'[c] = "balance"
        /\ sAmount'[c] = [b \in Buckets |-> IF op[c] = Sweep /\ ~Sweeps(b) THEN 0 ELSE amount[b]]
    BY <1>0, <2>1 DEF ReadBuckets, Goes, PointsTypeOK
  <2>4. \A d \in Clients \ {c} :
           progress'[d] = progress[d] /\ sAmount'[d] = sAmount[d] /\ sVersion'[d] = sVersion[d]
    BY <1>0, <2>1 DEF ReadBuckets, Goes, PointsTypeOK
  <2>7. AdministratorAlone'
    <3>1. \A d \in Clients : progress'[d] # "idle" => progress[d] # "idle"
      BY <2>3, <2>4
    <3> QED
      BY <2>2, <3>1 DEF BucketsInv, AdministratorAlone, InFlight, ByAdmin, Freezes, TakesBack, Reverses
  <2>8. AdministratorReads'
    <3> SUFFICES ASSUME NEW d \in Clients, ByAdmin(op'[d]), progress'[d] \in {"balance", "commit"}
                 PROVE  sAmount'[d] = amount'
      BY DEF AdministratorReads, ByAdmin, Freezes, TakesBack, Reverses
    <3>1. op'[d] = op[d] /\ amount' = amount /\ op[d] \in Commands \cup {Sweep}
      BY <1>0, <2>2 DEF PointsTypeOK
    <3>2. CASE d = c
      <4>1. op[c] # Sweep
        BY <3>1, <3>2, KindsApart
      <4>2. sAmount'[c] = [b \in Buckets |-> amount[b]]
        BY <2>3, <4>1
      <4> QED
        BY <1>0, <3>1, <3>2, <4>2 DEF PointsTypeOK
    <3>3. CASE d # c
      BY <2>4, <3>1, <3>3 DEF BucketsInv, AdministratorReads
    <3> QED
      BY <3>2, <3>3
  <2>9. BucketsMatchBalance'
    BY <2>2 DEF BucketsInv, BucketsMatchBalance, Total
  <2> QED
    BY <1>0, <2>7, <2>8, <2>9 DEF BucketsInv
<1>4. CASE \E c \in Clients : ReadBalance(c)
  <2>1. PICK c \in Clients : ReadBalance(c)
    BY <1>4
  <2>2. UNCHANGED <<balance, bVersion, amount, version, op, sAmount, sVersion>>
    BY <2>1 DEF ReadBalance, account
  <2>3. progress[c] = "balance" /\ progress' = [progress EXCEPT ![c] = "commit"]
    BY <2>1 DEF ReadBalance, Goes
  <2> QED
    BY <1>0, <2>2, <2>3, BucketsUntouched DEF PointsTypeOK
<1>5. CASE \E c \in Clients : Post(c)
  <2>1. PICK c \in Clients : Post(c)
    BY <1>5
  <2>2. progress[c] = "commit" /\ bVersion' = bVersion + 1 /\ ClosesClient(c)
    BY <2>1 DEF Post
  <2>3. /\ progress'[c] = "idle"
        /\ \A d \in Clients \ {c} : /\ progress'[d] = progress[d] /\ op'[d] = op[d]
                                    /\ sAmount'[d] = sAmount[d] /\ sVersion'[d] = sVersion[d]
    BY <1>0, <2>2 DEF ClosesClient, Goes, PointsTypeOK
  <2>7. AdministratorAlone'
    <3>1. \A d \in Clients : progress'[d] # "idle" => progress[d] # "idle" /\ op'[d] = op[d]
      BY <2>3
    <3> QED
      BY <3>1 DEF BucketsInv, AdministratorAlone, InFlight, ByAdmin, Freezes, TakesBack, Reverses
  <2>8. AdministratorReads'
    <3> SUFFICES ASSUME NEW d \in Clients, ByAdmin(op'[d]), progress'[d] \in {"balance", "commit"}
                 PROVE  FALSE
      BY DEF AdministratorReads, ByAdmin, Freezes, TakesBack, Reverses
    <3>1. d # c /\ progress[d] # "idle" /\ op'[d] = op[d]
      BY <2>3
    <3> QED
      BY <2>2, <3>1 DEF BucketsInv, AdministratorAlone, InFlight
  <2>9. BucketsMatchBalance'
    BY <2>1, PostedTotal
  <2> QED
    BY <1>0, <2>7, <2>8, <2>9 DEF BucketsInv
<1>6. CASE \E c \in Clients : SetState(c) \/ Abort(c)
  <2>1. PICK c \in Clients : SetState(c) \/ Abort(c)
    BY <1>6
  <2>2. UNCHANGED <<balance, bVersion, amount, version>> /\ ClosesClient(c)
    BY <2>1 DEF SetState, Abort, account
  <2>3. /\ progress'[c] = "idle"
        /\ \A d \in Clients \ {c} : /\ progress'[d] = progress[d] /\ op'[d] = op[d]
                                    /\ sAmount'[d] = sAmount[d] /\ sVersion'[d] = sVersion[d]
    BY <1>0, <2>2 DEF ClosesClient, Goes, PointsTypeOK
  <2> QED
    BY <1>0, <2>2, <2>3, BucketsUntouched
<1>7. CASE \E b \in Buckets : Elapse(b)
  BY <1>0, <1>7, BucketsUntouched DEF Elapse, account, snapshots
<1>8. CASE UNCHANGED pointsVars
  BY <1>0, <1>8, BucketsUntouched DEF pointsVars, account, snapshots
<1> QED
  BY <1>1, <1>2, <1>3, <1>4, <1>5, <1>6, <1>7, <1>8 DEF PointsNext

LEMMA BucketsInitial == PointsInit => BucketsInv
<1> SUFFICES ASSUME PointsInit PROVE BucketsInv
  OBVIOUS
<1>1. BucketsMatchBalance
  <2>1. Total(NoPoints) = 0
    BY LedgerAssumption, SumOfZeros DEF Total, NoPoints
  <2> QED
    BY <2>1 DEF PointsInit, BucketsMatchBalance, Positive
<1>2. \A c \in Clients : progress[c] = "idle"
  BY DEF PointsInit
<1>3. AdministratorAlone /\ AdministratorReads
  BY <1>2 DEF AdministratorAlone, AdministratorReads, InFlight
<1> QED
  BY <1>1, <1>3, RowsInitial DEF BucketsInv

\* As long as administrators who may put the account into debt act alone, the buckets hold
\* what the balance says may be spent, whatever the interleaving of credits, debits,
\* restorations and sweeps (commands.py:243-424, 846-1154).
THEOREM BucketsHoldTheBalance == AdminAlone => (PointsSpec => []BucketsMatchBalance)
<1> SUFFICES ASSUME AdminAlone PROVE PointsSpec => []BucketsMatchBalance
  OBVIOUS
<1>1. PointsInit => BucketsInv
  BY BucketsInitial
<1>2. BucketsInv /\ [PointsNext]_pointsVars => BucketsInv'
  BY BucketsStep
<1>3. BucketsInv => BucketsMatchBalance
  BY DEF BucketsInv
<1> QED
  BY <1>1, <1>2, <1>3, PTL DEF PointsSpec

\* And then no debit overdraws the account, although it looks at buckets and balance at
\* different times (commands.py:360-424): what administrators do beside it is what breaks it.
THEOREM DebitsStayCovered == AdminAlone => (PointsSpec => DebitNeverOverdraws)
<1> SUFFICES ASSUME AdminAlone PROVE PointsSpec => DebitNeverOverdraws
  OBVIOUS
<1> DEFINE Covered == \A o \in Commands : Kind[o] = "debit" /\ o \in posted' \ posted => balance' >= 0
<1>1. PointsInit => BucketsInv
  BY BucketsInitial
<1>2. BucketsInv /\ [PointsNext]_pointsVars => BucketsInv'
  BY BucketsStep
<1>3. BucketsInv /\ [PointsNext]_pointsVars => [Covered]_pointsVars
  <2> SUFFICES ASSUME BucketsInv, PointsNext, NEW o \in Commands, Kind[o] = "debit",
                      o \in posted' \ posted
               PROVE  balance' >= 0
    BY DEF Covered
  <2>1. PICK c \in Clients : Post(c) \/ SetState(c)
    <3>1. \A c \in Users, p \in Commands : Begin(c, p) => posted' = posted
      BY DEF Begin, account
    <3>2. BeginSweep => posted' = posted
      BY DEF BeginSweep, account
    <3>3. \A c \in Clients : ReadBuckets(c) \/ ReadBalance(c) \/ Abort(c) => posted' = posted
      BY DEF ReadBuckets, ReadBalance, Abort, account
    <3>4. \A b \in Buckets : Elapse(b) => posted' = posted
      BY DEF Elapse, account
    <3> QED
      BY <3>1, <3>2, <3>3, <3>4 DEF PointsNext
  <2>2. CASE Post(c)
    <3>1. o = op[c]
      BY <2>2 DEF Post
    <3> QED
      BY <2>2, <3>1, PostedTotal
  <2>3. CASE SetState(c)
    BY <2>3 DEF SetState, Freezes
  <2> QED
    BY <2>1, <2>2, <2>3
<1> QED
  BY <1>1, <1>2, <1>3, PTL DEF PointsSpec, DebitNeverOverdraws
-----------------------------------------------------------------------------
(* Fulfillment: the credit of an order is made under its key, behind the    *)
(* event of a capture.                                                      *)

CreditInv ==
    /\ captureEvents \in Nat
    /\ buying # "none" => captureEvents > 0
    /\ credits = IF entry = "none" THEN 0 ELSE 1
    /\ entry # "none" => captureEvents > 0

\* Webhooks and commands announce captures, and take none back.
LEMMA CapturesStay ==
  ASSUME CreditInv, PaymentsNext
  PROVE  captureEvents' \in Nat /\ (captureEvents > 0 => captureEvents' > 0)
<1>1. captureEvents' = captureEvents \/ captureEvents' = captureEvents + 1
  <2>1. ASSUME NEW p \in Payers, PayCommand(p)
        PROVE  captureEvents' = captureEvents \/ captureEvents' = captureEvents + 1
    BY <2>1 DEF PayCommand, StartPaymentAttempt, StartReads, ReadOrder, StartWrites,
         CancelPaymentReads, CancelPaymentOrder, ReconcileAsks, ReconcileReads, ReconcileCaptures,
         ReconcileFails, RefundAsks, RequestRefund, GiveUpPayment
  <2>2. CASE WebhookCapture \/ WebhookFailure \/ WebhookRefund \/ CustomerPays \/ ProviderRefunds
    BY <2>2 DEF WebhookCapture, WebhookFailure, WebhookRefund, CustomerPays, ProviderRefunds
  <2> QED
    BY <2>1, <2>2 DEF PaymentsNext
<1> QED
  BY <1>1 DEF CreditInv

\* An order is credited once at most, and only behind a capture that was committed,
\* however often webhook and reconciliation announce it and an activity runs again
\* (user_center workflows.py, the key of the credit).
THEOREM OrdersAreCreditedOnce == FulfillmentSpec => []CreditedOncePerOrder
<1>1. FulfillmentInit => CreditInv
  BY DEF FulfillmentInit, PaymentsInit, CreditInv
<1>2. CreditInv /\ [FulfillmentNext]_<<paymentsVars, fulfillmentVars>> => CreditInv'
  <2> SUFFICES ASSUME CreditInv, [FulfillmentNext]_<<paymentsVars, fulfillmentVars>>
               PROVE  CreditInv'
    OBVIOUS
  <2>1. CASE PaymentsNext /\ UNCHANGED fulfillmentVars
    BY <2>1, CapturesStay DEF CreditInv, fulfillmentVars
  <2>2. CASE FulfillSteps
    <3>1. UNCHANGED captureEvents
      BY <2>2 DEF FulfillSteps, StartBuying, Validate, CreditPurchase, RecordCredit, StartUndoing,
                  ResolveRefund, ReverseRefund, paymentsVars
    <3>2. CASE StartBuying \/ Validate \/ RecordCredit
      BY <3>1, <3>2 DEF StartBuying, Validate, RecordCredit, CreditInv
    <3>3. CASE CreditPurchase
      BY <3>1, <3>3 DEF CreditPurchase, CreditOnce, CreditInv
    <3>4. ASSUME NEW k \in Refunds, StartUndoing(k) \/ ResolveRefund(k) \/ ReverseRefund(k)
          PROVE  CreditInv'
      BY <3>1, <3>4 DEF StartUndoing, ResolveRefund, ReverseRefund, CreditInv
    <3> QED
      BY <2>2, <3>2, <3>3, <3>4 DEF FulfillSteps
  <2>3. CASE UNCHANGED <<paymentsVars, fulfillmentVars>>
    BY <2>3 DEF CreditInv, paymentsVars, fulfillmentVars
  <2> QED
    BY <2>1, <2>2, <2>3 DEF FulfillmentNext
<1>3. CreditInv => CreditedOncePerOrder
  BY DEF CreditInv, CreditedOncePerOrder
<1> QED
  BY <1>1, <1>2, <1>3, PTL DEF FulfillmentSpec
-----------------------------------------------------------------------------
(* Fulfillment: what the provider returned is never more than the price,   *)
(* and each completed refund of the order is one of the provider's.        *)

PaymentRows ==
    /\ order \in Orders
    /\ refund \in [Refunds -> RefundRows]
    /\ provider \in [payment : {"none", "open", "paid", "failed"}, refund : [Refunds -> RefundRows]]
    /\ DOMAIN calls = Payers

\* A refund asked of the provider is one the provider knows, under its key and amount.
Asked(call) ==
    call # Idle /\ call[1] = "refunding" =>
        /\ call[2] \in Refunds /\ call[4] \in {"pending", "completed"}
        /\ call[3] \in 1..Price /\ provider.refund[call[2]].amount = call[3]

RefundsAgree ==
    \A k \in Refunds :
        /\ provider.refund[k].state = "none" => provider.refund[k].amount = 0
        /\ refund[k].state # "none" =>
             refund[k].amount = provider.refund[k].amount /\ refund[k].amount >= 1

PaidInFull == order.state \in {"captured", "partially_refunded"} => order.captured = Price

MoneyInv ==
    /\ PaymentRows
    /\ \A p \in Payers : Asked(calls[p])
    /\ RefundsAgree
    /\ SumOf(provider.refund) <= Price
    /\ PaidInFull
    /\ RefundsAddUp

\* The sum of the amounts of rows of refunds, and a change of one of the rows.
LEMMA AmountsAddUp ==
  ASSUME NEW rows \in [Refunds -> RefundRows]
  PROVE  /\ SumOf(rows) \in Nat
         /\ \A k \in Refunds : rows[k].amount <= SumOf(rows)
         /\ (\A k \in Refunds : rows[k].amount = 0) => SumOf(rows) = 0
<1> DEFINE f == [k \in Refunds |-> rows[k].amount]
<1>1. IsFiniteSet(Refunds) /\ Price \in Nat
  BY PaymentsAssumption
<1>2. SumOf(rows) = SumFunctionOnSet(f, Refunds)
  BY DEF SumOf, SumFunction
<1>3. \A k \in Refunds : f[k] \in Nat /\ f[k] = rows[k].amount
  BY <1>1 DEF RefundRows, Amounts
<1> HIDE DEF f
<1>4. SumOf(rows) \in Nat /\ \A k \in Refunds : f[k] <= SumOf(rows)
  BY <1>1, <1>2, <1>3, SumOfNats
<1>5. ASSUME \A k \in Refunds : rows[k].amount = 0 PROVE SumOf(rows) = 0
  BY <1>1, <1>2, <1>3, <1>5, SumOfZeros
<1> QED
  BY <1>3, <1>4, <1>5

LEMMA AmountChanged ==
  ASSUME NEW old \in [Refunds -> RefundRows], NEW new \in [Refunds -> RefundRows],
         NEW k \in Refunds, \A j \in Refunds \ {k} : new[j].amount = old[j].amount
  PROVE  SumOf(new) = SumOf(old) + (new[k].amount - old[k].amount)
<1> DEFINE f == [j \in Refunds |-> old[j].amount]
           g == [j \in Refunds |-> new[j].amount]
<1>1. IsFiniteSet(Refunds) /\ Price \in Nat
  BY PaymentsAssumption
<1>2. SumOf(old) = SumFunctionOnSet(f, Refunds) /\ SumOf(new) = SumFunctionOnSet(g, Refunds)
  BY DEF SumOf, SumFunction
<1>3. /\ \A j \in Refunds : f[j] \in Int /\ g[j] \in Int
      /\ \A j \in Refunds \ {k} : g[j] = f[j]
      /\ f[k] = old[k].amount /\ g[k] = new[k].amount
  BY <1>1 DEF RefundRows, Amounts
<1> HIDE DEF f, g
<1> QED
  BY <1>1, <1>2, <1>3, SumChangedAt

\* Two refunds are never more than all of them.
LEMMA TwoAmounts ==
  ASSUME NEW rows \in [Refunds -> RefundRows], NEW j \in Refunds, NEW k \in Refunds, j # k
  PROVE  rows[j].amount + rows[k].amount <= SumOf(rows)
<1> DEFINE rest == [rows EXCEPT ![j] = NoRefund]
<1>0. Price \in Nat
  BY PaymentsAssumption
<1>1. NoRefund \in RefundRows /\ NoRefund.amount = 0
  BY <1>0 DEF NoRefund, RefundRows, Amounts
<1>2. rest \in [Refunds -> RefundRows] /\ rest[j].amount = 0 /\ rest[k] = rows[k]
  BY <1>1
<1>3. \A i \in Refunds \ {j} : rows[i].amount = rest[i].amount
  OBVIOUS
<1> HIDE DEF rest
<1>4. SumOf(rows) = SumOf(rest) + (rows[j].amount - rest[j].amount)
  BY <1>2, <1>3, AmountChanged
<1>5. rest[k].amount <= SumOf(rest) /\ SumOf(rest) \in Nat
  BY <1>2, AmountsAddUp
<1>6. rows[j].amount \in Nat /\ rows[k].amount \in Nat
  BY <1>0 DEF RefundRows, Amounts
<1> QED
  BY <1>2, <1>4, <1>5, <1>6

LEMMA CompletedRows ==
  ASSUME MoneyInv
  PROVE  /\ Completed \in [Refunds -> RefundRows] /\ Price \in Nat
         /\ order.refunded \in Nat /\ order.captured \in Nat
         /\ order.refunded = SumOf(Completed) /\ order.refunded <= order.captured
<1>0. Price \in Nat
  BY PaymentsAssumption
<1>1. NoRefund \in RefundRows
  BY <1>0 DEF NoRefund, RefundRows, Amounts
<1> QED
  BY <1>0, <1>1 DEF MoneyInv, PaymentRows, Completed, RefundsAddUp, Orders, Amounts

\* Commands and webhooks that refund nothing write the state of the order, and what was
\* captured in full.
LEMMA NothingRefunded ==
  ASSUME MoneyInv, refund' = refund, provider'.refund = provider.refund,
         provider' \in [payment : {"none", "open", "paid", "failed"},
                        refund : [Refunds -> RefundRows]],
         order' \in Orders, order'.refunded = order.refunded,
         order'.captured \in {order.captured, Price}, PaidInFull',
         DOMAIN calls' = Payers,
         \A p \in Payers : calls'[p] = calls[p] \/ calls'[p] = Idle \/ calls'[p][1] # "refunding"
  PROVE  MoneyInv'
<1>1. PaymentRows'
  BY DEF MoneyInv, PaymentRows
<1>2. \A p \in Payers : Asked(calls[p])'
  BY DEF MoneyInv, Asked
<1>3. RefundsAgree'
  BY DEF MoneyInv, RefundsAgree
<1>4. SumOf(provider'.refund) <= Price
  BY DEF MoneyInv
<1>5. Completed' = Completed
  BY DEF Completed
<1>6. RefundsAddUp'
  <2>1. order.captured <= Price
    BY CompletedRows DEF MoneyInv, PaymentRows, Orders, Amounts
  <2> QED
    BY <1>5, <2>1, CompletedRows DEF RefundsAddUp
<1> QED
  BY <1>1, <1>2, <1>3, <1>4, <1>6 DEF MoneyInv

\* What a command or a webhook that refunds nothing writes in the order.
OrderWritten(new) ==
    /\ new \in Orders /\ new.refunded = order.refunded
    /\ new.captured \in {order.captured, Price}
    /\ new.state \in {"captured", "partially_refunded"} => new.captured = Price

LEMMA OrdersWritten ==
  ASSUME MoneyInv
  PROVE  /\ OrderWritten(order)
         /\ OrderWritten([order EXCEPT !.state = "captured", !.captured = Price])
         /\ OrderWritten([order EXCEPT !.state = "pending", !.ref = TRUE])
         /\ \A s \in {"cancelled", "failed"} : OrderWritten([order EXCEPT !.state = s])
<1>1. order \in Orders /\ Price \in Amounts
  BY PaymentsAssumption DEF MoneyInv, PaymentRows, Amounts
<1>2. OrderWritten(order)
  BY <1>1 DEF OrderWritten, MoneyInv, PaidInFull
<1>3. OrderWritten([order EXCEPT !.state = "captured", !.captured = Price])
  BY <1>1 DEF OrderWritten, Orders, OrderStates
<1>4. OrderWritten([order EXCEPT !.state = "pending", !.ref = TRUE])
  BY <1>1 DEF OrderWritten, Orders, OrderStates
<1>5. \A s \in {"cancelled", "failed"} : OrderWritten([order EXCEPT !.state = s])
  BY <1>1 DEF OrderWritten, Orders, OrderStates
<1> QED
  BY <1>2, <1>3, <1>4, <1>5

LEMMA CommandsRefundNothing ==
  ASSUME MoneyInv, NEW r \in Payers,
         \/ StartPaymentAttempt(r) \/ StartReads(r) \/ StartWrites(r)
         \/ CancelPaymentReads(r) \/ CancelPaymentOrder(r)
         \/ ReconcileAsks(r) \/ ReconcileReads(r) \/ ReconcileCaptures(r) \/ ReconcileFails(r)
         \/ GiveUpPayment(r)
  PROVE  MoneyInv'
<1>0. /\ order \in Orders /\ DOMAIN calls = Payers /\ Price \in Nat \ {0}
      /\ provider \in [payment : {"none", "open", "paid", "failed"}, refund : [Refunds -> RefundRows]]
  BY PaymentsAssumption DEF MoneyInv, PaymentRows
<1>1. ASSUME NEW call, calls' = [calls EXCEPT ![r] = call], call = Idle \/ call[1] # "refunding"
      PROVE  /\ DOMAIN calls' = Payers
             /\ \A p \in Payers : calls'[p] = calls[p] \/ calls'[p] = Idle
                                  \/ calls'[p][1] # "refunding"
  BY <1>0, <1>1
<1>2. CASE UNCHANGED <<order, refund>>
  <2>1. PaidInFull'
    BY <1>2 DEF MoneyInv, PaidInFull
  <2>2. provider'.refund = provider.refund /\
        provider' \in [payment : {"none", "open", "paid", "failed"}, refund : [Refunds -> RefundRows]]
    BY <1>0 DEF StartPaymentAttempt, StartReads, StartWrites, CancelPaymentReads,
         CancelPaymentOrder, ReconcileAsks, ReconcileReads, ReconcileCaptures, ReconcileFails,
         GiveUpPayment, ReadOrder
  <2>3. \E call : calls' = [calls EXCEPT ![r] = call] /\ (call = Idle \/ call[1] # "refunding")
    <3>1. ASSUME NEW point \in {"started", "cancelling", "capturing", "failing"}, NEW target,
                 ReadOrder(r, point, target)
          PROVE  calls' = [calls EXCEPT ![r] = <<point>>]
      BY <3>1 DEF ReadOrder, OpensPayment, PayGoes
    <3>2. CASE StartPaymentAttempt(r) \/ ReconcileAsks(r)
      BY <3>2 DEF StartPaymentAttempt, ReconcileAsks, OpensPayment
    <3>3. CASE StartReads(r) \/ CancelPaymentReads(r) \/ ReconcileReads(r)
      BY <3>1, <3>3 DEF StartReads, CancelPaymentReads, ReconcileReads
    <3>4. CASE \/ StartWrites(r) \/ CancelPaymentOrder(r) \/ ReconcileCaptures(r)
               \/ ReconcileFails(r) \/ GiveUpPayment(r)
      BY <3>4 DEF StartWrites, CancelPaymentOrder, ReconcileCaptures, ReconcileFails,
           GiveUpPayment, PayGoes
    <3> QED
      BY <3>2, <3>3, <3>4
  <2> QED
    BY <1>0, <1>1, <1>2, <2>1, <2>2, <2>3, NothingRefunded
<1>3. CASE \/ StartWrites(r) \/ CancelPaymentOrder(r) \/ ReconcileCaptures(r) \/ ReconcileFails(r)
  <2>1. calls' = [calls EXCEPT ![r] = Idle] /\ refund' = refund /\ provider' = provider
    BY <1>3 DEF StartWrites, CancelPaymentOrder, ReconcileCaptures, ReconcileFails, PayGoes
  <2>2. /\ order' \in Orders /\ order'.refunded = order.refunded
        /\ order'.captured \in {order.captured, Price} /\ PaidInFull'
    <3>1. OrderWritten(order')
      BY <1>3, OrdersWritten
      DEF StartWrites, CancelPaymentOrder, ReconcileCaptures, ReconcileFails
    <3> QED
      BY <3>1 DEF OrderWritten, PaidInFull
  <2> QED
    BY <1>0, <1>1, <2>1, <2>2, NothingRefunded
<1>4. UNCHANGED <<order, refund>> \/ StartWrites(r) \/ CancelPaymentOrder(r)
      \/ ReconcileCaptures(r) \/ ReconcileFails(r)
  BY DEF StartPaymentAttempt, StartReads, CancelPaymentReads, ReconcileAsks, ReconcileReads,
     GiveUpPayment, ReadOrder
<1> QED
  BY <1>2, <1>3, <1>4

LEMMA PaymentAnswers ==
  ASSUME MoneyInv, WebhookCapture \/ WebhookFailure \/ CustomerPays
  PROVE  MoneyInv'
<1>0. /\ order \in Orders /\ DOMAIN calls = Payers /\ Price \in Nat \ {0}
      /\ provider \in [payment : {"none", "open", "paid", "failed"}, refund : [Refunds -> RefundRows]]
  BY PaymentsAssumption DEF MoneyInv, PaymentRows
<1>1. calls' = calls /\ refund' = refund
  BY DEF WebhookCapture, WebhookFailure, CustomerPays
<1>2. /\ provider'.refund = provider.refund
      /\ provider' \in [payment : {"none", "open", "paid", "failed"}, refund : [Refunds -> RefundRows]]
  BY <1>0 DEF WebhookCapture, WebhookFailure, CustomerPays
<1>3. /\ order' \in Orders /\ order'.refunded = order.refunded
      /\ order'.captured \in {order.captured, Price} /\ PaidInFull'
  <2>1. OrderWritten(order')
    BY OrdersWritten DEF WebhookCapture, WebhookFailure, CustomerPays
  <2> QED
    BY <2>1 DEF OrderWritten, PaidInFull
<1> QED
  BY <1>0, <1>1, <1>2, <1>3, NothingRefunded

LEMMA RefundIsAsked ==
  ASSUME MoneyInv, NEW r \in Payers, RefundAsks(r)
  PROVE  MoneyInv'
<1>0. /\ order \in Orders /\ refund \in [Refunds -> RefundRows] /\ DOMAIN calls = Payers
      /\ Price \in Nat \ {0} /\ provider.refund \in [Refunds -> RefundRows]
      /\ provider \in [payment : {"none", "open", "paid", "failed"}, refund : [Refunds -> RefundRows]]
  BY PaymentsAssumption DEF MoneyInv, PaymentRows
<1>1. PICK k \in Refunds, paid \in 1..Price, answer \in {"pending", "completed"} :
          /\ refund[k].state = "none"
          /\ \/ /\ provider.refund[k].state = "none"
                /\ SumOf(provider.refund) + paid <= Price
                /\ provider' = [provider EXCEPT !.refund[k] = [state |-> answer, amount |-> paid]]
             \/ /\ provider.refund[k] = [state |-> answer, amount |-> paid]
                /\ UNCHANGED provider
          /\ OpensPayment(r, <<"refunding", k, paid, answer, order>>)
  BY DEF RefundAsks
<1>2. UNCHANGED <<order, refund>>
  BY DEF RefundAsks
<1> DEFINE row == [state |-> answer, amount |-> paid]
<1>3. row \in RefundRows /\ row.amount = paid /\ row.state = answer
  BY <1>0 DEF RefundRows, Amounts
<1> HIDE DEF row
<1>4. /\ provider' \in [payment : {"none", "open", "paid", "failed"}, refund : [Refunds -> RefundRows]]
      /\ provider'.refund[k] = row
      /\ \A j \in Refunds \ {k} : provider'.refund[j] = provider.refund[j]
  <2>1. CASE UNCHANGED provider
    BY <1>0, <1>1, <2>1 DEF row
  <2>2. CASE provider' = [provider EXCEPT !.refund[k] = row]
    BY <1>0, <1>3, <2>2
  <2> QED
    BY <1>1, <2>1, <2>2 DEF row
<1>5. SumOf(provider'.refund) <= Price
  <2>1. CASE UNCHANGED provider
    BY <2>1 DEF MoneyInv
  <2>2. CASE provider.refund[k].state = "none" /\ SumOf(provider.refund) + paid <= Price
    <3>1. provider.refund[k].amount = 0
      BY <2>2 DEF MoneyInv, RefundsAgree
    <3>2. SumOf(provider'.refund) = SumOf(provider.refund) + (paid - 0)
      <4>1. \A j \in Refunds \ {k} : provider'.refund[j].amount = provider.refund[j].amount
        BY <1>4
      <4>2. provider'.refund \in [Refunds -> RefundRows]
        BY <1>4
      <4> QED
        BY <1>0, <1>3, <1>4, <3>1, <4>1, <4>2, AmountChanged
    <3>3. SumOf(provider.refund) \in Nat
      BY <1>0, AmountsAddUp
    <3> QED
      BY <2>2, <3>2, <3>3
  <2> QED
    BY <1>1, <2>1, <2>2
<1>6. PaymentRows'
  <2>1. DOMAIN calls' = Payers
    BY <1>0, <1>1 DEF OpensPayment
  <2> QED
    BY <1>0, <1>2, <1>4, <2>1 DEF PaymentRows
<1>7. \A p \in Payers : Asked(calls[p])'
  <2> SUFFICES ASSUME NEW p \in Payers PROVE Asked(calls[p])'
    OBVIOUS
  <2>1. calls' = [calls EXCEPT ![r] = <<"refunding", k, paid, answer, order>>]
    BY <1>1 DEF OpensPayment
  <2>2. CASE p = r
    <3>1. calls'[p] = <<"refunding", k, paid, answer, order>>
      BY <1>0, <2>1, <2>2
    <3> QED
      BY <3>1, <1>3, <1>4 DEF Asked
  <2>3. CASE p # r
    <3>1. calls'[p] = calls[p] /\ Asked(calls[p])
      BY <2>1, <2>3 DEF MoneyInv
    <3>2. CASE calls[p] # Idle /\ calls[p][1] = "refunding" /\ calls[p][2] = k
      <4>1. provider.refund[k].amount >= 1 /\ provider.refund[k].state # "none"
        BY <3>1, <3>2, <1>0 DEF Asked, MoneyInv, RefundsAgree
      <4>2. UNCHANGED provider
        BY <1>1, <4>1
      <4> QED
        BY <3>1, <4>2 DEF Asked
    <3>3. CASE ~(calls[p] # Idle /\ calls[p][1] = "refunding" /\ calls[p][2] = k)
      BY <3>1, <3>3, <1>4 DEF Asked
    <3> QED
      BY <3>2, <3>3
  <2> QED
    BY <2>2, <2>3
<1>8. RefundsAgree'
  <2> SUFFICES ASSUME NEW j \in Refunds
               PROVE  /\ provider'.refund[j].state = "none" => provider'.refund[j].amount = 0
                      /\ refund[j].state # "none" =>
                           refund[j].amount = provider'.refund[j].amount /\ refund[j].amount >= 1
    BY <1>2 DEF RefundsAgree
  <2>1. CASE j = k
    BY <1>1, <1>3, <1>4, <2>1
  <2>2. CASE j # k
    BY <1>4, <2>2 DEF MoneyInv, RefundsAgree
  <2> QED
    BY <2>1, <2>2
<1>9. PaidInFull' /\ RefundsAddUp'
  BY <1>2 DEF MoneyInv, PaidInFull, RefundsAddUp, Completed
<1> QED
  BY <1>5, <1>6, <1>7, <1>8, <1>9 DEF MoneyInv

\* A refund completed on the order: its amount joins the refunded amount and the sum.
LEMMA RefundCompleted ==
  ASSUME MoneyInv, NEW k \in Refunds, NEW paid \in 1..Price,
         refund[k].state # "completed", provider.refund[k].amount = paid,
         order.refunded + paid <= order.captured, order.captured = Price,
         refund' = [refund EXCEPT ![k] = [state |-> "completed", amount |-> paid]],
         order' = Refunding(order, paid), provider' = provider,
         DOMAIN calls' = Payers, \A p \in Payers : calls'[p] = calls[p] \/ calls'[p] = Idle
  PROVE  MoneyInv'
<1>0. /\ order \in Orders /\ refund \in [Refunds -> RefundRows] /\ Price \in Nat \ {0}
  BY PaymentsAssumption DEF MoneyInv, PaymentRows
<1> DEFINE row == [state |-> "completed", amount |-> paid]
<1>1. row \in RefundRows /\ row.amount = paid /\ row.state = "completed"
  BY <1>0 DEF RefundRows, Amounts
<1> HIDE DEF row
<1>2. refund' \in [Refunds -> RefundRows] /\ refund'[k] = row
      /\ \A j \in Refunds \ {k} : refund'[j] = refund[j]
  BY <1>0, <1>1 DEF row
<1>3. /\ order' \in Orders /\ order'.refunded = order.refunded + paid
      /\ order'.captured = order.captured
  <2> DEFINE total == order.refunded + paid
             outcome == IF total >= order.captured THEN "refunded" ELSE "partially_refunded"
  <2>1. total \in Nat /\ total <= Price
    BY <1>0, CompletedRows
  <2>2. total \in 0..(2 * Price)
    BY <2>1, <1>0
  <2>3. outcome \in OrderStates
    BY DEF OrderStates
  <2>4. order' = [order EXCEPT !.refunded = total, !.state = outcome]
    BY DEF Refunding
  <2>5. order'.refunded = total /\ order'.captured = order.captured
    BY <1>0, <2>4 DEF Orders
  <2> HIDE DEF total, outcome
  <2>6. order' \in Orders
    BY <1>0, <2>2, <2>3, <2>4 DEF Orders
  <2> QED
    BY <2>5, <2>6 DEF total
<1>4. PaymentRows'
  BY <1>2, <1>3 DEF MoneyInv, PaymentRows
<1>5. \A p \in Payers : Asked(calls[p])'
  BY DEF MoneyInv, Asked
<1>6. RefundsAgree'
  <2> SUFFICES ASSUME NEW j \in Refunds
               PROVE  /\ provider.refund[j].state = "none" => provider.refund[j].amount = 0
                      /\ refund'[j].state # "none" =>
                           refund'[j].amount = provider.refund[j].amount /\ refund'[j].amount >= 1
    BY DEF RefundsAgree
  <2> QED
    BY <1>1, <1>2 DEF MoneyInv, RefundsAgree
<1>7. PaidInFull'
  BY <1>3 DEF PaidInFull
<1>8. RefundsAddUp'
  <2>1. Completed' \in [Refunds -> RefundRows] /\ Completed'[k] = row
        /\ Completed[k] = NoRefund
        /\ \A j \in Refunds \ {k} : Completed'[j] = Completed[j]
    <3>1. NoRefund \in RefundRows
      BY <1>0 DEF NoRefund, RefundRows, Amounts
    <3> QED
      BY <3>1, <1>1, <1>2 DEF Completed
  <2>2. SumOf(Completed') = SumOf(Completed) + (paid - 0)
    <3>1. Completed[k].amount = 0 /\ Completed'[k].amount = paid
      BY <1>1, <2>1 DEF NoRefund
    <3>2. \A j \in Refunds \ {k} : Completed'[j].amount = Completed[j].amount
      BY <2>1
    <3>3. Completed \in [Refunds -> RefundRows]
      BY CompletedRows
    <3> QED
      BY <2>1, <3>1, <3>2, <3>3, AmountChanged
  <2>3. order.refunded = SumOf(Completed) /\ order.refunded \in Nat
    BY CompletedRows
  <2>4. order'.refunded = SumOf(Completed') /\ order'.refunded <= order'.captured
    BY <1>3, <2>2, <2>3
  <2>5. SumOf(Completed)' = SumOf(Completed')
    BY DEF SumOf
  <2> QED
    BY <2>4, <2>5 DEF RefundsAddUp
<1> QED
  BY <1>4, <1>5, <1>6, <1>7, <1>8 DEF MoneyInv

LEMMA RefundIsRequested ==
  ASSUME MoneyInv, NEW r \in Payers, RequestRefund(r)
  PROVE  MoneyInv'
<1>0. /\ order \in Orders /\ refund \in [Refunds -> RefundRows] /\ DOMAIN calls = Payers
      /\ Price \in Nat \ {0}
  BY PaymentsAssumption DEF MoneyInv, PaymentRows
<1> DEFINE k == calls[r][2]
           paid == calls[r][3]
           answer == calls[r][4]
<1>1. /\ k \in Refunds /\ answer \in {"pending", "completed"} /\ paid \in 1..Price
      /\ provider.refund[k].amount = paid
  BY DEF RequestRefund, At, MoneyInv, Asked
<1>2. /\ order.refunded + paid <= order.captured /\ refund[k].state = "none"
      /\ refund' = [refund EXCEPT ![k] = [state |-> answer, amount |-> paid]]
      /\ provider' = provider /\ calls' = [calls EXCEPT ![r] = Idle]
      /\ IF answer = "completed"
         THEN MayBecome(order.state, Refunding(order, paid).state)
              /\ order' = Refunding(order, paid)
         ELSE UNCHANGED order
  BY DEF RequestRefund, LockedOrder, PayGoes
<1> HIDE DEF k, paid, answer
<1>3. DOMAIN calls' = Payers /\ \A p \in Payers : calls'[p] = calls[p] \/ calls'[p] = Idle
  BY <1>0, <1>2
<1>4. CASE answer = "completed"
  <2>1. order.state \in {"captured", "partially_refunded"}
    <3>1. Refunding(order, paid).state \in {"refunded", "partially_refunded"}
      BY <1>0 DEF Refunding, Orders
    <3>2. order.state \in OrderStates
      BY <1>0 DEF Orders
    <3>3. MayBecome(order.state, Refunding(order, paid).state)
      BY <1>2, <1>4
    <3> QED
      BY <3>1, <3>2, <3>3 DEF MayBecome, AllowedTransitions, OrderStates
  <2>2. order.captured = Price
    BY <2>1 DEF MoneyInv, PaidInFull
  <2> QED
    BY <1>1, <1>2, <1>3, <1>4, <2>2, RefundCompleted
<1>5. CASE answer = "pending"
  <2> DEFINE row == [state |-> "pending", amount |-> paid]
  <2>1. row \in RefundRows /\ row.amount = paid /\ row.state = "pending"
    BY <1>0, <1>1 DEF RefundRows, Amounts
  <2> HIDE DEF row
  <2>2. refund' \in [Refunds -> RefundRows] /\ refund'[k] = row
        /\ (\A j \in Refunds \ {k} : refund'[j] = refund[j]) /\ order' = order
    BY <1>0, <1>1, <1>2, <1>5, <2>1 DEF row
  <2>3. Completed' = Completed
    BY <1>2, <2>1, <2>2 DEF Completed
  <2>4. RefundsAgree'
    <3> SUFFICES ASSUME NEW j \in Refunds
                 PROVE  /\ provider.refund[j].state = "none" => provider.refund[j].amount = 0
                        /\ refund'[j].state # "none" =>
                             refund'[j].amount = provider.refund[j].amount /\ refund'[j].amount >= 1
      BY <1>2 DEF RefundsAgree
    <3> QED
      BY <1>1, <2>1, <2>2 DEF MoneyInv, RefundsAgree
  <2>5. \A p \in Payers : Asked(calls[p])'
    BY <1>2, <1>3 DEF MoneyInv, Asked
  <2>6. PaymentRows'
    BY <1>2, <1>3, <2>2 DEF MoneyInv, PaymentRows
  <2>7. PaidInFull' /\ RefundsAddUp'
    BY <2>2, <2>3 DEF MoneyInv, PaidInFull, RefundsAddUp
  <2> QED
    BY <1>2, <2>4, <2>5, <2>6, <2>7 DEF MoneyInv
<1> QED
  BY <1>1, <1>4, <1>5

LEMMA RefundIsTold ==
  ASSUME MoneyInv, WebhookRefund
  PROVE  MoneyInv'
<1>0. /\ order \in Orders /\ refund \in [Refunds -> RefundRows] /\ DOMAIN calls = Payers
      /\ Price \in Nat \ {0} /\ provider.refund \in [Refunds -> RefundRows]
  BY PaymentsAssumption DEF MoneyInv, PaymentRows
<1>1. UNCHANGED <<calls, provider>>
  BY DEF WebhookRefund
<1>2. CASE UNCHANGED <<order, refund>>
  BY <1>1, <1>2 DEF MoneyInv, PaymentRows, Asked, RefundsAgree, PaidInFull, RefundsAddUp, Completed
<1>3. ASSUME NEW k \in Refunds, NEW j \in Candidates(provider.refund[k].amount),
             provider.refund[k].amount = Price,
             order.state \in {"captured", "partially_refunded"},
             refund' = [refund EXCEPT ![j].state = "completed"],
             order' = Refunding(order, provider.refund[k].amount)
      PROVE  MoneyInv'
  <2>1. j \in Refunds /\ refund[j] = [state |-> "pending", amount |-> Price]
    BY <1>3 DEF Candidates
  <2>2. provider.refund[j].amount = Price
    BY <2>1 DEF MoneyInv, RefundsAgree
  <2>3. order.captured = Price
    BY <1>3 DEF MoneyInv, PaidInFull
  <2>4. ASSUME NEW i \in Refunds PROVE Completed[i].amount = 0
    <3>1. CASE refund[i].state = "completed"
      <4>1. i # j /\ provider.refund[i].amount >= 1 /\ provider.refund[i].amount \in Nat
        BY <1>0, <2>1, <3>1 DEF MoneyInv, RefundsAgree, RefundRows, Amounts
      <4>2. provider.refund[i].amount + provider.refund[j].amount <= SumOf(provider.refund)
        BY <1>0, <2>1, <4>1, TwoAmounts
      <4>3. SumOf(provider.refund) <= Price /\ SumOf(provider.refund) \in Nat
        BY <1>0, AmountsAddUp DEF MoneyInv
      <4> QED
        BY <1>0, <2>2, <4>1, <4>2, <4>3
    <3>2. CASE refund[i].state # "completed"
      BY <3>2 DEF Completed, NoRefund
    <3> QED
      BY <3>1, <3>2
  <2>5. order.refunded = 0
    BY <2>4, CompletedRows, AmountsAddUp
  <2>6. refund' = [refund EXCEPT ![j] = [state |-> "completed", amount |-> Price]]
    <3>1. [refund[j] EXCEPT !.state = "completed"] = [state |-> "completed", amount |-> Price]
      BY <2>1
    <3>2. refund' = [refund EXCEPT ![j] = [refund[j] EXCEPT !.state = "completed"]]
      BY <1>3
    <3> QED
      BY <3>1, <3>2
  <2>7. Price \in 1..Price /\ order.refunded + Price <= order.captured
    BY <1>0, <2>3, <2>5
  <2>8. refund[j].state # "completed" /\ order' = Refunding(order, Price)
    BY <1>3, <2>1
  <2>9. DOMAIN calls' = Payers /\ \A p \in Payers : calls'[p] = calls[p] \/ calls'[p] = Idle
    BY <1>0, <1>1
  <2>10. provider' = provider
    BY <1>1
  <2> QED
    BY <2>1, <2>2, <2>3, <2>6, <2>7, <2>8, <2>9, <2>10, RefundCompleted
<1> QED
  BY <1>2, <1>3 DEF WebhookRefund

LEMMA ProviderSettles ==
  ASSUME MoneyInv, ProviderRefunds
  PROVE  MoneyInv'
<1>0. /\ refund \in [Refunds -> RefundRows] /\ DOMAIN calls = Payers /\ Price \in Nat \ {0}
      /\ provider.refund \in [Refunds -> RefundRows]
      /\ provider \in [payment : {"none", "open", "paid", "failed"}, refund : [Refunds -> RefundRows]]
  BY PaymentsAssumption DEF MoneyInv, PaymentRows
<1>1. UNCHANGED <<order, refund, calls>>
  BY DEF ProviderRefunds
<1>2. PICK k \in Refunds : /\ provider.refund[k].state = "pending"
                           /\ provider' = [provider EXCEPT !.refund[k].state = "completed"]
  BY DEF ProviderRefunds
<1>3. [provider.refund[k] EXCEPT !.state = "completed"] \in RefundRows
  BY <1>0 DEF RefundRows
<1>4. /\ provider' \in [payment : {"none", "open", "paid", "failed"}, refund : [Refunds -> RefundRows]]
      /\ provider'.refund[k] = [provider.refund[k] EXCEPT !.state = "completed"]
      /\ \A j \in Refunds \ {k} : provider'.refund[j] = provider.refund[j]
  BY <1>0, <1>2, <1>3
<1>5. \A j \in Refunds : /\ provider'.refund[j].amount = provider.refund[j].amount
                         /\ provider'.refund[j].state = "none" => provider.refund[j].state = "none"
  BY <1>0, <1>4 DEF RefundRows
<1>6. SumOf(provider'.refund) = SumOf(provider.refund) + 0
  <2>1. provider'.refund[k].amount - provider.refund[k].amount = 0
    BY <1>0, <1>5 DEF RefundRows, Amounts
  <2>2. provider'.refund \in [Refunds -> RefundRows]
    BY <1>4
  <2>3. SumOf(provider'.refund)
          = SumOf(provider.refund) + (provider'.refund[k].amount - provider.refund[k].amount)
    <3>1. \A j \in Refunds \ {k} : provider'.refund[j].amount = provider.refund[j].amount
      BY <1>5
    <3>2. provider.refund \in [Refunds -> RefundRows]
      BY <1>0
    <3> QED
      BY <1>2, <2>2, <3>1, <3>2, AmountChanged
  <2> QED
    BY <2>1, <2>3
<1>7. SumOf(provider'.refund) <= Price
  BY <1>0, <1>6, AmountsAddUp DEF MoneyInv
<1>8. PaymentRows' /\ RefundsAgree'
  BY <1>1, <1>4, <1>5 DEF MoneyInv, PaymentRows, RefundsAgree
<1>9. \A p \in Payers : Asked(calls[p])'
  BY <1>1, <1>5 DEF MoneyInv, Asked
<1>10. PaidInFull' /\ RefundsAddUp'
  BY <1>1 DEF MoneyInv, PaidInFull, RefundsAddUp, Completed
<1> QED
  BY <1>7, <1>8, <1>9, <1>10 DEF MoneyInv

LEMMA MoneyStarts == PaymentsInit => MoneyInv
<1> SUFFICES ASSUME PaymentsInit PROVE MoneyInv
  OBVIOUS
<1>0. Price \in Nat \ {0}
  BY PaymentsAssumption
<1>1. NoRefund \in RefundRows
  BY <1>0 DEF NoRefund, RefundRows, Amounts
<1>2. PaymentRows
  BY <1>0, <1>1 DEF PaymentsInit, PaymentRows, Orders, OrderStates, Amounts
<1>3. /\ \A k \in Refunds : Completed[k].amount = 0 /\ provider.refund[k].amount = 0
      /\ Completed \in [Refunds -> RefundRows] /\ provider.refund \in [Refunds -> RefundRows]
  BY <1>1 DEF PaymentsInit, Completed, NoRefund
<1>4. SumOf(Completed) = 0 /\ SumOf(provider.refund) = 0
  BY <1>3, AmountsAddUp
<1>5. RefundsAddUp /\ PaidInFull
  BY <1>4 DEF PaymentsInit, RefundsAddUp, PaidInFull
<1>6. RefundsAgree /\ \A p \in Payers : Asked(calls[p])
  BY DEF PaymentsInit, RefundsAgree, NoRefund, Asked
<1> QED
  BY <1>0, <1>2, <1>4, <1>5, <1>6 DEF MoneyInv

LEMMA MoneyStep == MoneyInv /\ [PaymentsNext]_paymentsVars => MoneyInv'
<1> SUFFICES ASSUME MoneyInv, [PaymentsNext]_paymentsVars PROVE MoneyInv'
  OBVIOUS
<1>1. CASE UNCHANGED paymentsVars
  BY <1>1 DEF paymentsVars, MoneyInv, PaymentRows, Asked, RefundsAgree, PaidInFull, RefundsAddUp,
     Completed
<1>2. ASSUME NEW r \in Payers, PayCommand(r) PROVE MoneyInv'
  BY <1>2, CommandsRefundNothing, RefundIsAsked, RefundIsRequested DEF PayCommand
<1>3. CASE WebhookCapture \/ WebhookFailure \/ WebhookRefund \/ CustomerPays \/ ProviderRefunds
  BY <1>3, PaymentAnswers, RefundIsTold, ProviderSettles
<1> QED
  BY <1>1, <1>2, <1>3 DEF PaymentsNext

\* What was refunded on an order is the sum of its completed refunds and never more than
\* was captured, and the order is credited once, for every number of commands, refunds and
\* webhooks (payments commands.py: the row is locked and read again before it is written).
THEOREM MoneyOfOrdersAddsUp == FulfillmentSpec => []MoneyAddsUp
<1>1. FulfillmentInit => MoneyInv
  BY MoneyStarts DEF FulfillmentInit
<1>2. MoneyInv /\ [FulfillmentNext]_<<paymentsVars, fulfillmentVars>> => MoneyInv'
  <2>1. [FulfillmentNext]_<<paymentsVars, fulfillmentVars>> => [PaymentsNext]_paymentsVars
    BY DEF FulfillmentNext, FulfillSteps, StartBuying, Validate, CreditPurchase, RecordCredit,
       StartUndoing, ResolveRefund, ReverseRefund
  <2> QED
    BY <2>1, MoneyStep
<1>3. MoneyInv /\ CreditedOncePerOrder => MoneyAddsUp
  BY DEF MoneyInv, MoneyAddsUp
<1> QED
  BY <1>1, <1>2, <1>3, OrdersAreCreditedOnce, PTL DEF FulfillmentSpec
-----------------------------------------------------------------------------
(* Engagement: counters that are written from what was read, and events    *)
(* that come late.                                                         *)

ViewRows == Cardinality(views.keys) + views.plain

StatsRows == [status : ArticleStatus \union {"none"}, version : 0..MaxArticleVersion,
              views : Nat, likes : Nat, sum : Nat, count : Nat]
LikeRows == {"none", "liked", "removed"}
RatingRows == [stars : Stars \union {0}, removed : BOOLEAN]

CounterRows ==
    /\ article \in [status : ArticleStatus, version : 1..MaxArticleVersion]
    /\ purging \in 0..MaxArticleVersion
    /\ facts \subseteq [status : ArticleStatus, version : 1..MaxArticleVersion]
    /\ heard \subseteq facts
    /\ stats \in StatsRows
    /\ views \in [keys : SUBSET ViewKeys, plain : Nat] /\ IsFiniteSet(views.keys)
    /\ likes \in [Fans -> LikeRows]
    /\ ratings \in [Fans -> RatingRows]
    /\ raced \in BOOLEAN
    /\ DOMAIN visit = Visitors

\* What a hand holds: what was asked, and rows as they were when it read them.
AskSound(v) ==
    /\ v.does \in {"view", "like", "unlike", "rate", "withdraw"}
    /\ v.fan \in Fans /\ v.key \in ViewKeys \union {"none"}
    /\ v.stars \in Stars \union {0} /\ (v.does = "rate" => v.stars \in Stars)
ReadSound(v, seen) ==
    /\ v.stats \in StatsRows /\ v.stats.views <= seen
    /\ v.like \in LikeRows /\ v.rating \in RatingRows
EventSound(v, told) == v.does = "project" /\ v.event \in told /\ v.stats \in StatsRows

VisitSound(v, told, seen) ==
    \/ v = Away
    \/ AskSound(v) /\ v.step = "asked"
    \/ AskSound(v) /\ v.step = "read" /\ ReadSound(v, seen)
    \/ EventSound(v, told) /\ v.step = "read"

\* The row of the counters is never taken away.
RowStays(v) == v # Away /\ v.step = "read" /\ v.stats # NoStats => stats # NoStats

\* The events of a content: of the past, and of its present at last.
FactsFollow ==
    /\ purging <= article.version
    /\ \A e \in facts : /\ e.version <= article.version
                        /\ e.status = "purged" => article.status = "purged"
    /\ ~raced =>
         /\ article \in facts
         /\ \A e \in facts : e.version = article.version /\ e # article
              => article.status = "purged" /\ e.status # "purged"

\* The row of the counters tells no more than the events, and what the last one told.
StatusFollows ==
    /\ stats.status = "none" => stats = NoStats
    /\ stats = NoStats => heard = {}
    /\ stats.version <= article.version
    /\ stats.status = "purged" => article.status = "purged"
    /\ ~raced /\ article \in heard =>
         stats.status = article.status /\ stats.version = article.version

EngagementInv ==
    /\ CounterRows
    /\ \A h \in Visitors : VisitSound(visit[h], facts, ViewRows) /\ RowStays(visit[h])
    /\ CountsMatchRows
    /\ FactsFollow
    /\ StatusFollows

LEMMA ViewRowsAreCounted ==
  ASSUME NEW rows \in [keys : SUBSET ViewKeys, plain : Nat], IsFiniteSet(rows.keys)
  PROVE  Cardinality(rows.keys) + rows.plain \in Nat
<1>1. Cardinality(rows.keys) \in Nat
  BY FS_CardinalityType
<1> QED
  BY <1>1

\* Events are kept and rows of views only come, so what was read stays sound.
LEMMA VisitsStaySound ==
  ASSUME CounterRows, NEW v, NEW told, NEW later, told \subseteq later,
         NEW seen \in Nat, NEW more \in Nat, seen <= more, VisitSound(v, told, seen)
  PROVE  VisitSound(v, later, more)
<1>1. ASSUME ReadSound(v, seen) PROVE ReadSound(v, more)
  <2>1. v.stats.views \in Nat
    BY <1>1 DEF ReadSound, StatsRows
  <2> QED
    BY <1>1, <2>1 DEF ReadSound
<1> QED
  BY <1>1 DEF VisitSound, EventSound

LEMMA HandGoesOn ==
  ASSUME EngagementInv, NEW h \in Visitors, NEW new,
         UNCHANGED <<article, purging, facts, heard, stats, views, likes, ratings, raced>>,
         visit' = [visit EXCEPT ![h] = new], VisitSound(new, facts, ViewRows), RowStays(new)
  PROVE  EngagementInv'
<1>1. CounterRows'
  BY DEF EngagementInv, CounterRows
<1>2. \A g \in Visitors : VisitSound(visit[g], facts, ViewRows)' /\ RowStays(visit[g])'
  BY DEF EngagementInv, CounterRows, ViewRows, RowStays
<1>3. CountsMatchRows' /\ FactsFollow' /\ StatusFollows'
  BY DEF EngagementInv, CountsMatchRows, FactsFollow, StatusFollows, StarsNow
<1> QED
  BY <1>1, <1>2, <1>3 DEF EngagementInv

LEMMA HandsAskAndRead ==
  ASSUME EngagementInv, NEW h \in Visitors,
         \/ RecordView(h) \/ LikeContent(h) \/ UnlikeContent(h) \/ RateContent(h)
         \/ WithdrawRating(h) \/ ReadCounters(h) \/ ProjectReads(h) \/ GiveUpVisit(h)
  PROVE  EngagementInv'
<1>1. CASE RecordView(h) \/ LikeContent(h) \/ UnlikeContent(h) \/ RateContent(h) \/ WithdrawRating(h)
  <2>1. PICK does \in {"view", "like", "unlike", "rate", "withdraw"}, fan \in Fans,
             key \in ViewKeys \union {"none"}, stars \in Stars \union {0} :
             /\ Ask(h, does, fan, key, stars) /\ (does = "rate" => stars \in Stars)
    BY <1>1 DEF RecordView, LikeContent, UnlikeContent, RateContent, WithdrawRating
  <2> DEFINE new == [does |-> does, fan |-> fan, key |-> key, stars |-> stars, step |-> "asked"]
  <2>2. /\ visit' = [visit EXCEPT ![h] = new]
        /\ UNCHANGED <<article, purging, facts, heard, stats, views, likes, ratings, raced>>
    BY <2>1 DEF Ask
  <2>3. VisitSound(new, facts, ViewRows)
    BY <2>1 DEF VisitSound, AskSound
  <2>4. RowStays(new)
    BY DEF RowStays
  <2> HIDE DEF new
  <2> QED
    BY <2>2, <2>3, <2>4, HandGoesOn
<1>2. CASE ReadCounters(h)
  <2> DEFINE v == visit[h]
             new == [does |-> v.does, fan |-> v.fan, key |-> v.key, stars |-> v.stars,
                     step |-> "read", stats |-> stats, fresh |-> v.key \notin views.keys,
                     like |-> likes[v.fan], rating |-> ratings[v.fan]]
  <2>1. /\ visit' = [visit EXCEPT ![h] = new] /\ v # Away /\ v.step = "asked"
        /\ UNCHANGED <<article, purging, facts, heard, stats, views, likes, ratings, raced>>
    BY <1>2 DEF ReadCounters
  <2>2. VisitSound(v, facts, ViewRows)
    BY DEF EngagementInv
  <2>3. AskSound(v)
    BY <2>1, <2>2 DEF VisitSound
  <2>4. AskSound(new)
    BY <2>3 DEF AskSound
  <2>5. ReadSound(new, ViewRows)
    BY <2>3 DEF AskSound, ReadSound, EngagementInv, CounterRows, CountsMatchRows, ViewRows
  <2>6. VisitSound(new, facts, ViewRows)
    BY <2>4, <2>5 DEF VisitSound
  <2>7. RowStays(new)
    BY DEF RowStays
  <2> HIDE DEF new
  <2> QED
    BY <2>1, <2>6, <2>7, HandGoesOn
<1>3. CASE ProjectReads(h)
  <2>1. PICK e \in facts \ heard :
          visit' = [visit EXCEPT ![h] = [does |-> "project", step |-> "read",
                                         event |-> e, stats |-> stats]]
    BY <1>3 DEF ProjectReads
  <2> DEFINE new == [does |-> "project", step |-> "read", event |-> e, stats |-> stats]
  <2>2. VisitSound(new, facts, ViewRows)
    BY DEF VisitSound, EventSound, EngagementInv, CounterRows
  <2>5. RowStays(new)
    BY DEF RowStays
  <2>3. UNCHANGED <<article, purging, facts, heard, stats, views, likes, ratings, raced>>
    BY <1>3 DEF ProjectReads
  <2>4. visit' = [visit EXCEPT ![h] = new]
    BY <2>1
  <2> HIDE DEF new
  <2> QED
    BY <2>2, <2>3, <2>4, <2>5, HandGoesOn
<1>4. CASE GiveUpVisit(h)
  <2>1. VisitSound(Away, facts, ViewRows) /\ RowStays(Away)
    BY DEF VisitSound, RowStays
  <2> QED
    BY <1>4, <2>1, HandGoesOn DEF GiveUpVisit
<1> QED
  BY <1>1, <1>2, <1>3, <1>4

-----------------------------------------------------------------------------
(* The content's side.                                                     *)

LEMMA ContentMoves ==
  ASSUME EngagementInv, facts \subseteq facts', CounterRows', FactsFollow', StatusFollows',
         UNCHANGED <<stats, views, likes, ratings, visit>>, raced => raced'
  PROVE  EngagementInv'
<1>1. ViewRows \in Nat
  BY ViewRowsAreCounted DEF EngagementInv, CounterRows, ViewRows
<1>2. \A h \in Visitors : VisitSound(visit[h], facts, ViewRows)' /\ RowStays(visit[h])'
  <2> SUFFICES ASSUME NEW h \in Visitors
               PROVE  VisitSound(visit[h], facts', ViewRows) /\ RowStays(visit[h])
    BY DEF ViewRows, RowStays
  <2> QED
    BY <1>1, VisitsStaySound DEF EngagementInv
<1>3. CountsMatchRows'
  BY DEF EngagementInv, CountsMatchRows, StarsNow
<1> QED
  BY <1>2, <1>3 DEF EngagementInv

LEMMA ArticleChanges ==
  ASSUME EngagementInv, NEW s \in ArticleStatus, MoveArticle(s)
  PROVE  EngagementInv'
<1>0. /\ article \in [status : ArticleStatus, version : 1..MaxArticleVersion]
      /\ facts \subseteq [status : ArticleStatus, version : 1..MaxArticleVersion]
      /\ MaxArticleVersion \in Nat \ {0} /\ purging \in 0..MaxArticleVersion
  BY EngagementAssumption DEF EngagementInv, CounterRows
<1>1. /\ article' = [status |-> s, version |-> article.version + 1]
      /\ facts' = facts \union {article'} /\ article.version < MaxArticleVersion
      /\ UNCHANGED <<purging, heard, stats, views, likes, ratings, visit, raced>>
      /\ <<article.status, s>> \in ArticleMoves
  BY DEF MoveArticle, counterVars
<1>2. article.status # "purged" /\ s # "purged"
  BY <1>1 DEF ArticleMoves
<1>3. article' \in [status : ArticleStatus, version : 1..MaxArticleVersion]
  BY <1>0, <1>1
<1>4. CounterRows'
  BY <1>0, <1>1, <1>3 DEF EngagementInv, CounterRows
<1>5. \A e \in facts : e.version \in Nat /\ e.version < article'.version
  BY <1>0, <1>1 DEF EngagementInv, FactsFollow
<1>6. \A e \in facts : e.status # "purged"
  BY <1>2 DEF EngagementInv, FactsFollow
<1>7. FactsFollow'
  <2>1. purging' <= article'.version
    BY <1>0, <1>1 DEF EngagementInv, FactsFollow
  <2>2. ASSUME NEW e \in facts' PROVE e.version <= article'.version /\ e.status # "purged"
    BY <1>0, <1>1, <1>2, <1>5, <1>6
  <2>3. ASSUME NEW e \in facts', e # article' PROVE e.version # article'.version
    BY <1>0, <1>1, <1>5, <2>3
  <2>4. article' \in facts'
    BY <1>1
  <2> QED
    BY <2>1, <2>2, <2>3, <2>4 DEF FactsFollow
<1>8. StatusFollows'
  <2>1. article' \notin heard
    BY <1>5, <1>3 DEF EngagementInv, CounterRows
  <2>2. stats.version <= article'.version
    BY <1>0, <1>1 DEF EngagementInv, StatusFollows, CounterRows, StatsRows
  <2>3. stats.status # "purged"
    BY <1>2 DEF EngagementInv, StatusFollows
  <2> QED
    BY <1>1, <2>1, <2>2, <2>3 DEF EngagementInv, StatusFollows
<1> QED
  BY <1>1, <1>4, <1>7, <1>8, ContentMoves

LEMMA PurgeMoves ==
  ASSUME EngagementInv, PurgeLoads \/ PurgeArticle
  PROVE  EngagementInv'
<1>0. /\ article \in [status : ArticleStatus, version : 1..MaxArticleVersion]
      /\ facts \subseteq [status : ArticleStatus, version : 1..MaxArticleVersion]
      /\ MaxArticleVersion \in Nat \ {0} /\ purging \in 0..MaxArticleVersion
      /\ purging <= article.version
  BY EngagementAssumption DEF EngagementInv, CounterRows, FactsFollow
<1>1. UNCHANGED <<heard, stats, views, likes, ratings, visit>>
  BY DEF PurgeLoads, PurgeArticle, counterVars
<1>2. CASE UNCHANGED <<article, facts, raced>>
  <2>1. purging' \in {0, article.version}
    BY <1>0 DEF PurgeLoads, PurgeArticle
  <2>2. CounterRows' /\ FactsFollow' /\ StatusFollows'
    BY <1>0, <1>1, <1>2, <2>1 DEF EngagementInv, CounterRows, FactsFollow, StatusFollows
  <2> QED
    BY <1>1, <1>2, <2>2, ContentMoves
<1>3. CASE /\ purging # 0 /\ article.status = "archived" /\ purging' = 0
           /\ article' = [article EXCEPT !.status = "purged"]
           /\ facts' = facts \union {[status |-> "purged", version |-> purging]}
           /\ raced' = (raced \/ purging # article.version)
  <2>1. /\ article' \in [status : ArticleStatus, version : 1..MaxArticleVersion]
        /\ article'.version = article.version /\ article'.status = "purged"
    BY <1>0, <1>3 DEF ArticleStatus
  <2>2. [status |-> "purged", version |-> purging] \in [status : ArticleStatus, version : 1..MaxArticleVersion]
    BY <1>0, <1>3 DEF ArticleStatus
  <2>3. CounterRows'
    BY <1>0, <1>1, <1>3, <2>1, <2>2 DEF EngagementInv, CounterRows
  <2>4. \A e \in facts : e.status # "purged" /\ e.version <= article.version
    BY <1>3 DEF EngagementInv, FactsFollow
  <2>5. ~raced' => article' = [status |-> "purged", version |-> purging]
    BY <1>0, <1>3
  <2>6. FactsFollow'
    <3>1. purging' <= article'.version
      BY <1>0, <1>3, <2>1
    <3>2. \A e \in facts' : e.version <= article'.version
      BY <1>0, <1>3, <2>1, <2>4
    <3>3. ~raced' => article' \in facts' /\ \A e \in facts' : e # article' => e.status # "purged"
      BY <1>3, <2>4, <2>5
    <3> QED
      BY <2>1, <3>1, <3>2, <3>3 DEF FactsFollow
  <2>7. StatusFollows'
    <3>1. article' \notin heard
      BY <2>1, <2>4 DEF EngagementInv, CounterRows
    <3> QED
      BY <1>1, <2>1, <3>1 DEF EngagementInv, StatusFollows
  <2> QED
    BY <1>1, <1>3, <2>3, <2>6, <2>7, ContentMoves
<1> QED
  BY <1>2, <1>3 DEF PurgeLoads, PurgeArticle

-----------------------------------------------------------------------------
(* A command commits what it made of the rows it read.                     *)

LEMMA WhatIsAdded ==
  ASSUME EngagementInv, NEW v, AskSound(v), ReadSound(v, ViewRows)
  PROVE  /\ Adds(v).views = IF v.does = "view" /\ v.fresh THEN 1 ELSE 0
         /\ Adds(v).likes = IF v.does = "like" /\ v.like # "liked" THEN 1
                            ELSE IF v.does = "unlike" /\ v.like = "liked" /\ v.stats.likes > 0
                                 THEN -1 ELSE 0
         /\ Adds(v).count = IF v.does = "rate" /\ v.rating.removed THEN 1
                            ELSE IF v.does = "withdraw" /\ ~v.rating.removed /\ v.stats.count > 0
                                 THEN -1 ELSE 0
         /\ Adds(v).sum = IF v.does = "rate"
                          THEN v.stars - (IF ~v.rating.removed THEN v.rating.stars ELSE 0)
                          ELSE IF v.does = "withdraw" /\ ~v.rating.removed
                               THEN -(IF v.rating.stars < v.stats.sum THEN v.rating.stars
                                      ELSE v.stats.sum)
                               ELSE 0
         /\ Adds(v).sum \in Int
<1>0. \A n \in Stars \union {0} : n \in Nat
  BY EngagementAssumption
<1>1. v.stats \in StatsRows /\ v.rating \in RatingRows /\ v.stars \in Nat
  BY <1>0 DEF ReadSound, AskSound
<1>2. v.rating.stars \in Nat /\ v.rating.removed \in BOOLEAN /\ v.stats.sum \in Nat
      /\ v.stats.likes \in Nat /\ v.stats.count \in Nat
  BY <1>0, <1>1 DEF RatingRows, StatsRows
<1>3. Adds(v).views = IF v.does = "view" /\ v.fresh THEN 1 ELSE 0
  BY DEF Adds
<1>4. Adds(v).likes = IF v.does = "like" /\ v.like # "liked" THEN 1
                      ELSE IF v.does = "unlike" /\ v.like = "liked" /\ v.stats.likes > 0
                           THEN -1 ELSE 0
  BY DEF Adds
<1>5. Adds(v).count = IF v.does = "rate" /\ v.rating.removed THEN 1
                      ELSE IF v.does = "withdraw" /\ ~v.rating.removed /\ v.stats.count > 0
                           THEN -1 ELSE 0
  BY <1>2 DEF Adds
<1>6. Adds(v).sum = IF v.does = "rate"
                    THEN v.stars - (IF ~v.rating.removed THEN v.rating.stars ELSE 0)
                    ELSE IF v.does = "withdraw" /\ ~v.rating.removed
                         THEN -(IF v.rating.stars < v.stats.sum THEN v.rating.stars
                                ELSE v.stats.sum)
                         ELSE 0
  BY DEF Adds
<1>7. Adds(v).sum \in Int
  BY <1>1, <1>2, <1>6
<1> QED
  BY <1>3, <1>4, <1>5, <1>6, <1>7

LEMMA CommittedStats ==
  ASSUME EngagementInv, NEW v, AskSound(v), ReadSound(v, ViewRows), ~Collides(v),
         v.stats # NoStats => stats # NoStats
  PROVE  /\ WrittenStats(v) \in StatsRows
         /\ WrittenStats(v).status \in {"published", stats.status}
         /\ WrittenStats(v).status # "none"
         /\ WrittenStats(v).version \in {1, stats.version}
<1> DEFINE add == Adds(v)
           new == WrittenStats(v)
<1>0. stats \in StatsRows /\ v.stats \in StatsRows /\ MaxArticleVersion \in Nat \ {0}
  BY EngagementAssumption DEF EngagementInv, CounterRows, ReadSound
<1>1. /\ add.views \in {0, 1} /\ add.sum \in Int
      /\ add.likes \in {0, 1} \/ (add.likes = -1 /\ v.stats.likes > 0)
      /\ add.count \in {0, 1} \/ (add.count = -1 /\ v.stats.count > 0)
  BY WhatIsAdded
<1>2. /\ new.views = IF add.views = 0 THEN stats.views ELSE v.stats.views + add.views
      /\ new.likes = IF add.likes = 0 THEN stats.likes ELSE v.stats.likes + add.likes
      /\ new.sum = IF add.sum = 0 THEN stats.sum ELSE v.stats.sum + add.sum
      /\ new.count = IF add.count = 0 THEN stats.count ELSE v.stats.count + add.count
      /\ new.status = IF v.stats.status # "published" THEN "published" ELSE stats.status
      /\ new.version = IF v.stats = NoStats THEN 1 ELSE stats.version
      /\ new = [status |-> new.status, version |-> new.version, views |-> new.views,
                likes |-> new.likes, sum |-> new.sum, count |-> new.count]
  BY DEF WrittenStats, Changed
<1>3. ~(new.sum < 0)
  BY DEF Collides
<1>4. v.stats.status = "published" => stats.status # "none"
  BY DEF NoStats, EngagementInv, StatusFollows
<1> HIDE DEF new, add
<1>5. new.views \in Nat /\ new.likes \in Nat /\ new.sum \in Nat /\ new.count \in Nat
  BY <1>0, <1>1, <1>2, <1>3 DEF StatsRows
<1>6. new.status \in ArticleStatus \union {"none"} /\ new.version \in 0..MaxArticleVersion
  BY <1>0, <1>2 DEF StatsRows, ArticleStatus
<1>7. new \in StatsRows
  BY <1>2, <1>5, <1>6 DEF StatsRows
<1>8. new.status \in {"published", stats.status} /\ new.version \in {1, stats.version}
  BY <1>2
<1>9. new.status # "none"
  BY <1>2, <1>4
<1> QED
  BY <1>7, <1>8, <1>9 DEF new

LEMMA ViewsCommitted ==
  ASSUME EngagementInv, NEW v, AskSound(v), ReadSound(v, ViewRows), ~Collides(v), WriteOwnRows(v)
  PROVE  /\ views' \in [keys : SUBSET ViewKeys, plain : Nat] /\ IsFiniteSet(views'.keys)
         /\ ViewRows \in Nat /\ ViewRows' = ViewRows + Adds(v).views
<1>0. /\ views \in [keys : SUBSET ViewKeys, plain : Nat] /\ IsFiniteSet(views.keys)
      /\ Cardinality(views.keys) \in Nat
  BY FS_CardinalityType DEF EngagementInv, CounterRows
<1>1. CASE v.does # "view" \/ ~v.fresh
  <2>1. views' = views
    BY <1>1 DEF WriteOwnRows
  <2>2. Adds(v).views = 0
    BY <1>1, WhatIsAdded
  <2> QED
    BY <1>0, <2>1, <2>2 DEF ViewRows
<1>2. CASE v.does = "view" /\ v.fresh /\ v.key = "none"
  <2>1. views' = [views EXCEPT !.plain = @ + 1]
    BY <1>2 DEF WriteOwnRows
  <2>2. Adds(v).views = 1
    BY <1>2, WhatIsAdded
  <2>3. views'.keys = views.keys /\ views'.plain = views.plain + 1
        /\ views' \in [keys : SUBSET ViewKeys, plain : Nat]
    BY <1>0, <2>1
  <2> QED
    BY <1>0, <2>2, <2>3 DEF ViewRows
<1>3. CASE v.does = "view" /\ v.fresh /\ v.key # "none"
  <2>1. views' = [views EXCEPT !.keys = @ \union {v.key}]
    BY <1>3 DEF WriteOwnRows
  <2>2. Adds(v).views = 1
    BY <1>3, WhatIsAdded
  <2>3. v.key \in ViewKeys /\ v.key \notin views.keys
    BY <1>3 DEF AskSound, Collides
  <2>4. views'.keys = views.keys \union {v.key} /\ views'.plain = views.plain
        /\ views' \in [keys : SUBSET ViewKeys, plain : Nat]
    BY <1>0, <2>1, <2>3
  <2>5. IsFiniteSet(views'.keys) /\ Cardinality(views'.keys) = Cardinality(views.keys) + 1
    <3>1. /\ IsFiniteSet(views.keys \union {v.key})
          /\ Cardinality(views.keys \union {v.key}) = Cardinality(views.keys) + 1
      BY <1>0, <2>3, FS_AddElement
    <3> QED
      BY <2>4, <3>1
  <2> QED
    BY <1>0, <2>2, <2>4, <2>5 DEF ViewRows
<1> QED
  BY <1>1, <1>2, <1>3

\* A set of fans that gains or loses one of them.
LEMMA FansCounted ==
  ASSUME NEW old \in SUBSET Fans, NEW new \in SUBSET Fans, NEW fan \in Fans,
         \A f \in Fans \ {fan} : f \in new <=> f \in old
  PROVE  /\ Cardinality(old) \in Nat /\ (fan \in old => Cardinality(old) > 0)
         /\ Cardinality(new) = Cardinality(old)
              + (IF fan \in new /\ fan \notin old THEN 1
                 ELSE IF fan \in old /\ fan \notin new THEN -1 ELSE 0)
<1>1. IsFiniteSet(old) /\ IsFiniteSet(new) /\ Cardinality(old) \in Nat /\ Cardinality(new) \in Nat
  BY EngagementAssumption, FS_Subset, FS_CardinalityType
<1>2. ASSUME fan \in old PROVE Cardinality(old) > 0
  <2>1. Cardinality(old \ {fan}) = Cardinality(old) - 1
        /\ IsFiniteSet(old \ {fan})
    BY <1>1, <1>2, FS_RemoveElement
  <2>2. Cardinality(old \ {fan}) \in Nat
    BY <2>1, FS_CardinalityType
  <2> QED
    BY <1>1, <2>1, <2>2
<1>3. CASE fan \in new /\ fan \notin old
  <2>1. new = old \union {fan}
    BY <1>3
  <2>2. Cardinality(new) = Cardinality(old) + 1
    BY <1>1, <1>3, <2>1, FS_AddElement
  <2> QED
    BY <1>1, <1>2, <1>3, <2>2
<1>4. CASE fan \in old /\ fan \notin new
  <2>1. new = old \ {fan}
    BY <1>4
  <2>2. Cardinality(new) = Cardinality(old) - 1
    BY <1>1, <1>4, <2>1, FS_RemoveElement
  <2> QED
    BY <1>1, <1>2, <1>4, <2>2
<1>5. CASE fan \in new <=> fan \in old
  <2>1. new = old
    BY <1>5
  <2> QED
    BY <1>1, <1>2, <1>5, <2>1
<1> QED
  BY <1>3, <1>4, <1>5

LEMMA OwnRowsWritten ==
  ASSUME EngagementInv, NEW v, AskSound(v), ReadSound(v, ViewRows), WriteOwnRows(v)
  PROVE  /\ likes' \in [Fans -> LikeRows] /\ ratings' \in [Fans -> RatingRows]
         /\ \A f \in Fans \ {v.fan} : likes'[f] = likes[f] /\ ratings'[f] = ratings[f]
         /\ likes'[v.fan] = IF v.does = "like" /\ v.like # "liked" THEN "liked"
                            ELSE IF v.does = "unlike" /\ v.like = "liked" THEN "removed"
                            ELSE likes[v.fan]
         /\ ratings'[v.fan] = IF v.does = "rate" THEN [stars |-> v.stars, removed |-> FALSE]
                              ELSE IF v.does = "withdraw" /\ ~v.rating.removed
                                   THEN [ratings[v.fan] EXCEPT !.removed = TRUE]
                              ELSE ratings[v.fan]
<1>0. likes \in [Fans -> LikeRows] /\ ratings \in [Fans -> RatingRows] /\ v.fan \in Fans
  BY DEF EngagementInv, CounterRows, AskSound
<1>1. /\ likes' \in [Fans -> LikeRows]
      /\ \A f \in Fans \ {v.fan} : likes'[f] = likes[f]
      /\ likes'[v.fan] = IF v.does = "like" /\ v.like # "liked" THEN "liked"
                         ELSE IF v.does = "unlike" /\ v.like = "liked" THEN "removed"
                         ELSE likes[v.fan]
  BY <1>0 DEF WriteOwnRows, LikeRows
<1>2. v.does = "rate" => [stars |-> v.stars, removed |-> FALSE] \in RatingRows
  BY DEF RatingRows, AskSound
<1>3. [ratings[v.fan] EXCEPT !.removed = TRUE] \in RatingRows
  BY <1>0 DEF RatingRows
<1>4. ratings' = IF v.does = "rate"
                 THEN [ratings EXCEPT ![v.fan] = [stars |-> v.stars, removed |-> FALSE]]
                 ELSE IF v.does = "withdraw" /\ ~v.rating.removed
                      THEN [ratings EXCEPT ![v.fan] = [ratings[v.fan] EXCEPT !.removed = TRUE]]
                 ELSE ratings
  BY DEF WriteOwnRows
<1>5. /\ ratings' \in [Fans -> RatingRows]
      /\ \A f \in Fans \ {v.fan} : ratings'[f] = ratings[f]
      /\ ratings'[v.fan] = IF v.does = "rate" THEN [stars |-> v.stars, removed |-> FALSE]
                           ELSE IF v.does = "withdraw" /\ ~v.rating.removed
                                THEN [ratings[v.fan] EXCEPT !.removed = TRUE]
                           ELSE ratings[v.fan]
  BY <1>0, <1>2, <1>3, <1>4
<1> QED
  BY <1>1, <1>5

\* Counters that were read with the rows they count, and rows that were still the same when
\* the command committed.
LEMMA LikesCommitted ==
  ASSUME EngagementInv, NEW v, AskSound(v), ReadSound(v, ViewRows), ~Collides(v),
         WriteOwnRows(v), stats' = WrittenStats(v), v.stats = stats, v.like = likes[v.fan],
         stats.likes = Cardinality({f \in Fans : likes[f] = "liked"})
  PROVE  stats'.likes = Cardinality({f \in Fans : likes'[f] = "liked"})
<1> DEFINE old == {f \in Fans : likes[f] = "liked"}
           new == {f \in Fans : likes'[f] = "liked"}
<1>0. v.fan \in Fans
  BY DEF AskSound
<1>1. /\ \A f \in Fans \ {v.fan} : f \in new <=> f \in old
      /\ v.fan \in new <=> likes'[v.fan] = "liked"
      /\ v.fan \in old <=> v.like = "liked"
      /\ old \in SUBSET Fans /\ new \in SUBSET Fans
  BY <1>0, OwnRowsWritten
<1>2. stats.likes = Cardinality(old)
  OBVIOUS
<1>3. likes'[v.fan] = IF v.does = "like" /\ v.like # "liked" THEN "liked"
                      ELSE IF v.does = "unlike" /\ v.like = "liked" THEN "removed" ELSE v.like
  BY OwnRowsWritten
<1>4. Adds(v).likes = IF v.does = "like" /\ v.like # "liked" THEN 1
                      ELSE IF v.does = "unlike" /\ v.like = "liked" /\ v.stats.likes > 0
                           THEN -1 ELSE 0
  BY WhatIsAdded
<1>5. stats'.likes = IF Adds(v).likes = 0 THEN stats.likes ELSE stats.likes + Adds(v).likes
  BY DEF WrittenStats, Changed
<1> HIDE DEF old, new
<1>6. /\ Cardinality(old) \in Nat /\ (v.fan \in old => Cardinality(old) > 0)
      /\ Cardinality(new) = Cardinality(old)
              + (IF v.fan \in new /\ v.fan \notin old THEN 1
                 ELSE IF v.fan \in old /\ v.fan \notin new THEN -1 ELSE 0)
  BY <1>0, <1>1, FansCounted
<1>7. stats'.likes = Cardinality(new)
  BY <1>1, <1>2, <1>3, <1>4, <1>5, <1>6
<1> QED
  BY <1>7 DEF new

LEMMA RatingsCommitted ==
  ASSUME EngagementInv, NEW v, AskSound(v), ReadSound(v, ViewRows), ~Collides(v),
         WriteOwnRows(v), stats' = WrittenStats(v), v.stats = stats, v.rating = ratings[v.fan],
         stats.count = Cardinality({f \in Fans : ~ratings[f].removed})
  PROVE  stats'.count = Cardinality({f \in Fans : ~ratings'[f].removed})
<1> DEFINE old == {f \in Fans : ~ratings[f].removed}
           new == {f \in Fans : ~ratings'[f].removed}
<1>0. v.fan \in Fans /\ ratings \in [Fans -> RatingRows] /\ v.rating \in RatingRows
  BY DEF AskSound, EngagementInv, CounterRows, ReadSound
<1>1. /\ \A f \in Fans \ {v.fan} : f \in new <=> f \in old
      /\ v.fan \in new <=> ~ratings'[v.fan].removed
      /\ v.fan \in old <=> ~v.rating.removed
      /\ old \in SUBSET Fans /\ new \in SUBSET Fans
  <2>1. \A f \in Fans \ {v.fan} : ratings'[f] = ratings[f]
    BY <1>0, OwnRowsWritten
  <2> QED
    BY <1>0, <2>1
<1>2. stats.count = Cardinality(old)
  OBVIOUS
<1>3. ratings'[v.fan].removed = IF v.does = "rate" THEN FALSE
                                ELSE IF v.does = "withdraw" /\ ~v.rating.removed THEN TRUE
                                ELSE v.rating.removed
  <2>1. CASE v.does = "rate"
    <3>1. ratings'[v.fan] = [stars |-> v.stars, removed |-> FALSE]
      BY <2>1, OwnRowsWritten
    <3> QED
      BY <2>1, <3>1
  <2>2. CASE v.does = "withdraw" /\ ~v.rating.removed
    <3>1. ratings'[v.fan] = [ratings[v.fan] EXCEPT !.removed = TRUE]
      BY <2>2, OwnRowsWritten
    <3> QED
      BY <1>0, <2>2, <3>1 DEF RatingRows
  <2>3. CASE v.does # "rate" /\ ~(v.does = "withdraw" /\ ~v.rating.removed)
    <3>1. ratings'[v.fan] = ratings[v.fan]
      BY <2>3, OwnRowsWritten
    <3> QED
      BY <2>3, <3>1
  <2> QED
    BY <2>1, <2>2, <2>3
<1>4. Adds(v).count = IF v.does = "rate" /\ v.rating.removed THEN 1
                      ELSE IF v.does = "withdraw" /\ ~v.rating.removed /\ v.stats.count > 0
                           THEN -1 ELSE 0
  BY WhatIsAdded
<1>5. stats'.count = IF Adds(v).count = 0 THEN stats.count ELSE stats.count + Adds(v).count
  BY DEF WrittenStats, Changed
<1> HIDE DEF old, new
<1>6. /\ Cardinality(old) \in Nat /\ (v.fan \in old => Cardinality(old) > 0)
      /\ Cardinality(new) = Cardinality(old)
              + (IF v.fan \in new /\ v.fan \notin old THEN 1
                 ELSE IF v.fan \in old /\ v.fan \notin new THEN -1 ELSE 0)
  BY <1>0, <1>1, FansCounted
<1>8. v.rating.removed \in BOOLEAN
  BY <1>0 DEF RatingRows
<1>7. stats'.count = Cardinality(new)
  BY <1>1, <1>2, <1>3, <1>4, <1>5, <1>6, <1>8
<1> QED
  BY <1>7 DEF new

LEMMA StarsCommitted ==
  ASSUME EngagementInv, NEW v, AskSound(v), ReadSound(v, ViewRows), ~Collides(v),
         WriteOwnRows(v), stats' = WrittenStats(v), v.stats = stats, v.rating = ratings[v.fan],
         stats.sum = StarsNow
  PROVE  stats'.sum = StarsNow'
<1> DEFINE old == [f \in Fans |-> IF ratings[f].removed THEN 0 ELSE ratings[f].stars]
           new == [f \in Fans |-> IF ratings'[f].removed THEN 0 ELSE ratings'[f].stars]
<1>0. /\ v.fan \in Fans /\ ratings \in [Fans -> RatingRows] /\ v.rating \in RatingRows
      /\ ratings' \in [Fans -> RatingRows] /\ IsFiniteSet(Fans)
      /\ \A n \in Stars \union {0} : n \in Nat
  <2>1. v.fan \in Fans /\ ratings \in [Fans -> RatingRows] /\ v.rating \in RatingRows
    BY DEF AskSound, EngagementInv, CounterRows, ReadSound
  <2>2. ratings' \in [Fans -> RatingRows]
    BY OwnRowsWritten
  <2>3. IsFiniteSet(Fans) /\ \A n \in Stars \union {0} : n \in Nat
    BY EngagementAssumption
  <2> QED
    BY <2>1, <2>2, <2>3
<1>1. StarsNow = SumFunctionOnSet(old, Fans) /\ StarsNow' = SumFunctionOnSet(new, Fans)
  BY DEF StarsNow, SumFunction
<1>2. \A f \in Fans : old[f] \in Nat /\ new[f] \in Nat
  BY <1>0 DEF RatingRows
<1>3. \A f \in Fans \ {v.fan} : new[f] = old[f]
  BY OwnRowsWritten
<1>4. old[v.fan] = IF v.rating.removed THEN 0 ELSE v.rating.stars
  BY <1>0
<1>5. new[v.fan] = IF v.does = "rate" THEN v.stars
                   ELSE IF v.does = "withdraw" /\ ~v.rating.removed THEN 0 ELSE old[v.fan]
  <2>1. CASE v.does = "rate"
    <3>1. ratings'[v.fan] = [stars |-> v.stars, removed |-> FALSE]
      BY <2>1, OwnRowsWritten
    <3> QED
      BY <1>0, <2>1, <3>1
  <2>2. CASE v.does = "withdraw" /\ ~v.rating.removed
    <3>1. ratings'[v.fan] = [ratings[v.fan] EXCEPT !.removed = TRUE]
      BY <2>2, OwnRowsWritten
    <3> QED
      BY <1>0, <2>2, <3>1 DEF RatingRows
  <2>3. CASE v.does # "rate" /\ ~(v.does = "withdraw" /\ ~v.rating.removed)
    <3>1. ratings'[v.fan] = ratings[v.fan]
      BY <2>3, OwnRowsWritten
    <3> QED
      BY <1>0, <2>3, <3>1
  <2> QED
    BY <2>1, <2>2, <2>3
<1> HIDE DEF old, new
<1>6. SumFunctionOnSet(new, Fans) = SumFunctionOnSet(old, Fans) + (new[v.fan] - old[v.fan])
  <2>1. \A f \in Fans : old[f] \in Int /\ new[f] \in Int
    BY <1>2
  <2> QED
    BY <1>0, <1>3, <2>1, SumChangedAt
<1>7. old[v.fan] <= stats.sum /\ stats.sum \in Nat
  BY <1>0, <1>1, <1>2, SumOfNats
<1>8. Adds(v).sum = IF v.does = "rate"
                    THEN v.stars - (IF ~v.rating.removed THEN v.rating.stars ELSE 0)
                    ELSE IF v.does = "withdraw" /\ ~v.rating.removed
                         THEN -(IF v.rating.stars < v.stats.sum THEN v.rating.stars
                                ELSE v.stats.sum)
                         ELSE 0
  BY WhatIsAdded
<1>9. v.stars \in Nat /\ v.rating.stars \in Nat /\ v.rating.removed \in BOOLEAN
  BY <1>0 DEF AskSound, RatingRows
<1>10. Adds(v).sum = new[v.fan] - old[v.fan]
  BY <1>2, <1>4, <1>5, <1>7, <1>8, <1>9
<1>11. stats'.sum = IF Adds(v).sum = 0 THEN stats.sum ELSE stats.sum + Adds(v).sum
  BY DEF WrittenStats, Changed
<1>12. stats'.sum = stats.sum + Adds(v).sum
  BY <1>0, <1>2, <1>7, <1>10, <1>11
<1> QED
  BY <1>1, <1>6, <1>10, <1>12

LEMMA CommitKeeps ==
  ASSUME EngagementInv, NEW h \in Visitors, CommitVisit(h)
  PROVE  EngagementInv'
<1> DEFINE v == visit[h]
<1>1. /\ v # Away /\ v.does # "project" /\ v.step = "read"
      /\ visit' = [visit EXCEPT ![h] = Away]
      /\ UNCHANGED <<article, purging, facts, heard>>
      /\ IF Collides(v) THEN UNCHANGED <<stats, views, likes, ratings, raced>>
         ELSE /\ stats' = WrittenStats(v)
              /\ WriteOwnRows(v)
              /\ raced' = (\/ raced \/ v.stats # stats \/ OwnRowsMoved(v)
                           \/ article.status # "published")
  BY DEF CommitVisit
<1>2. AskSound(v) /\ ReadSound(v, ViewRows) /\ (v.stats # NoStats => stats # NoStats)
  <2>1. VisitSound(v, facts, ViewRows) /\ RowStays(v)
    BY DEF EngagementInv
  <2> QED
    BY <1>1, <2>1 DEF VisitSound, EventSound, RowStays
<1>3. VisitSound(Away, facts, ViewRows) /\ RowStays(Away)
  BY DEF VisitSound, RowStays
<1>4. DOMAIN visit = Visitors
  BY DEF EngagementInv, CounterRows
<1> HIDE DEF v
<1>5. CASE Collides(v)
  BY <1>1, <1>3, <1>5, HandGoesOn
<1>6. CASE ~Collides(v)
  <2>1. stats' = WrittenStats(v) /\ WriteOwnRows(v)
    BY <1>1, <1>6
  <2>2. /\ stats' \in StatsRows /\ stats'.status \in {"published", stats.status}
        /\ stats'.status # "none" /\ stats'.version \in {1, stats.version}
    BY <1>2, <1>6, <2>1, CommittedStats
  <2>3. /\ views' \in [keys : SUBSET ViewKeys, plain : Nat] /\ IsFiniteSet(views'.keys)
        /\ ViewRows \in Nat /\ ViewRows' = ViewRows + Adds(v).views
    BY <1>2, <1>6, <2>1, ViewsCommitted
  <2>4. Adds(v).views \in {0, 1}
    BY <1>2, WhatIsAdded
  <2>5. stats'.views = IF Adds(v).views = 0 THEN stats.views ELSE v.stats.views + Adds(v).views
    BY <2>1 DEF WrittenStats, Changed
  <2>6. /\ stats.views \in Nat /\ v.stats.views \in Nat /\ v.stats.views <= ViewRows
        /\ stats.views <= ViewRows
    BY <1>2 DEF EngagementInv, CounterRows, StatsRows, ReadSound, CountsMatchRows, ViewRows
  <2>7. likes' \in [Fans -> LikeRows] /\ ratings' \in [Fans -> RatingRows]
    BY <1>2, <2>1, OwnRowsWritten
  <2>8. raced' \in BOOLEAN
    BY <1>1, <1>6 DEF EngagementInv, CounterRows
  <2>9. ~raced' => /\ ~raced /\ v.stats = stats /\ v.like = likes[v.fan]
                   /\ v.rating = ratings[v.fan] /\ article.status = "published"
    BY <1>1, <1>6 DEF OwnRowsMoved
  <2>10. CounterRows'
    BY <1>1, <1>4, <2>2, <2>3, <2>7, <2>8 DEF EngagementInv, CounterRows
  <2>11. ASSUME NEW g \in Visitors PROVE VisitSound(visit'[g], facts', ViewRows') /\ RowStays(visit[g])'
    <3>1. stats' # NoStats
      BY <2>2 DEF NoStats
    <3>2. RowStays(visit[g])'
      BY <3>1 DEF RowStays
    <3>3. CASE g = h
      BY <1>1, <1>4, <3>2, <3>3 DEF VisitSound
    <3>4. CASE g # h
      <4>1. visit'[g] = visit[g] /\ facts' = facts
        BY <1>1, <3>4
      <4>2. VisitSound(visit[g], facts, ViewRows)
        BY DEF EngagementInv
      <4>3. ViewRows' \in Nat /\ ViewRows <= ViewRows'
        BY <2>3, <2>4
      <4>4. VisitSound(visit[g], facts, ViewRows')
        BY <2>3, <4>2, <4>3, VisitsStaySound DEF EngagementInv
      <4> QED
        BY <3>2, <4>1, <4>4
    <3> QED
      BY <3>3, <3>4
  <2>12. CountsMatchRows'
    <3>1. stats'.views <= ViewRows'
      BY <2>3, <2>4, <2>5, <2>6
    <3>2. ASSUME ~raced' PROVE stats'.views = ViewRows'
      <4>1. stats.views = ViewRows /\ v.stats = stats
        BY <2>9, <3>2 DEF EngagementInv, CountsMatchRows, ViewRows
      <4> QED
        BY <2>3, <2>5, <4>1
    <3>3. ASSUME ~raced' PROVE stats'.likes = Cardinality({f \in Fans : likes'[f] = "liked"})
      <4>1. stats.likes = Cardinality({f \in Fans : likes[f] = "liked"})
        BY <2>9, <3>3 DEF EngagementInv, CountsMatchRows
      <4> QED
        BY <1>2, <1>6, <2>1, <2>9, <3>3, <4>1, LikesCommitted
    <3>4. ASSUME ~raced' PROVE stats'.count = Cardinality({f \in Fans : ~ratings'[f].removed})
      <4>1. stats.count = Cardinality({f \in Fans : ~ratings[f].removed})
        BY <2>9, <3>4 DEF EngagementInv, CountsMatchRows
      <4> QED
        BY <1>2, <1>6, <2>1, <2>9, <3>4, <4>1, RatingsCommitted
    <3>5. ASSUME ~raced' PROVE stats'.sum = StarsNow'
      <4>1. stats.sum = StarsNow
        BY <2>9, <3>5 DEF EngagementInv, CountsMatchRows
      <4> QED
        BY <1>2, <1>6, <2>1, <2>9, <3>5, <4>1, StarsCommitted
    <3> QED
      BY <3>1, <3>2, <3>3, <3>4, <3>5 DEF CountsMatchRows, ViewRows
  <2>13. FactsFollow'
    BY <1>1, <2>9 DEF EngagementInv, FactsFollow
  <2>14. StatusFollows'
    <3>1. stats' # NoStats /\ stats'.status # "none"
      BY <2>2 DEF NoStats
    <3>2. stats'.version <= article.version
      <4>1. article.version >= 1 /\ stats.version <= article.version
        BY DEF EngagementInv, CounterRows, StatusFollows
      <4> QED
        BY <2>2, <4>1
    <3>3. stats'.status = "purged" => article.status = "purged"
      BY <2>2 DEF EngagementInv, StatusFollows
    <3>4. ASSUME ~raced', article \in heard
          PROVE  stats'.status = article.status /\ stats'.version = article.version
      <4>1. stats # NoStats /\ stats.status = article.status /\ stats.version = article.version
        BY <2>9, <3>4 DEF EngagementInv, StatusFollows
      <4>2. v.stats = stats /\ article.status = "published"
        BY <2>9, <3>4
      <4> QED
        BY <2>1, <4>1, <4>2 DEF WrittenStats
    <3> QED
      BY <1>1, <3>1, <3>2, <3>3, <3>4 DEF StatusFollows
  <2> QED
    BY <2>10, <2>11, <2>12, <2>13, <2>14 DEF EngagementInv
<1> QED
  BY <1>5, <1>6

-----------------------------------------------------------------------------
(* The projection of an event.                                             *)

LEMMA ProjectKeeps ==
  ASSUME EngagementInv, NEW h \in Visitors, Project(h)
  PROVE  EngagementInv'
<1> DEFINE v == visit[h]
           told == IF v.stats = NoStats
                   THEN [NoStats EXCEPT !.status = v.event.status, !.version = v.event.version]
                   ELSE IF RollsBack(v.event, v.stats) THEN stats
                   ELSE [stats EXCEPT
                           !.status = IF v.event.status # v.stats.status
                                      THEN v.event.status ELSE @,
                           !.version = IF v.event.version # v.stats.version
                                       THEN v.event.version ELSE @]
<1>1. /\ v.does = "project" /\ visit' = [visit EXCEPT ![h] = Away]
      /\ UNCHANGED <<article, purging, facts, views, likes, ratings>>
      /\ IF v.event \in heard \/ (v.stats = NoStats /\ stats # NoStats)
         THEN UNCHANGED <<heard, stats, raced>>
         ELSE /\ heard' = heard \union {v.event}
              /\ raced' = (raced \/ v.stats # stats)
              /\ stats' = told
  BY DEF Project
<1>2. EventSound(v, facts) /\ (v.stats # NoStats => stats # NoStats)
  <2>1. VisitSound(v, facts, ViewRows) /\ RowStays(v) /\ v # Away
    BY <1>1 DEF EngagementInv, Away
  <2> QED
    BY <1>1, <2>1 DEF VisitSound, AskSound, EventSound, RowStays
<1>3. VisitSound(Away, facts, ViewRows) /\ RowStays(Away)
  BY DEF VisitSound, RowStays
<1>4. DOMAIN visit = Visitors
  BY DEF EngagementInv, CounterRows
<1> HIDE DEF v, told
<1>5. CASE v.event \in heard \/ (v.stats = NoStats /\ stats # NoStats)
  BY <1>1, <1>3, <1>5, HandGoesOn
<1>6. CASE v.event \notin heard /\ (v.stats = NoStats <=> stats = NoStats)
  <2> DEFINE e == v.event
  <2>1. /\ heard' = heard \union {e} /\ stats' = told /\ raced' = (raced \/ v.stats # stats)
    BY <1>1, <1>6
  <2>2. /\ e \in facts /\ e.status \in ArticleStatus /\ e.version \in 1..MaxArticleVersion
        /\ e.version <= article.version /\ (e.status = "purged" => article.status = "purged")
        /\ v.stats \in StatsRows /\ stats \in StatsRows
        /\ article \in [status : ArticleStatus, version : 1..MaxArticleVersion]
        /\ MaxArticleVersion \in Nat
    BY <1>2, EngagementAssumption DEF EventSound, EngagementInv, CounterRows, FactsFollow
  <2> HIDE DEF e
  <2>3. \/ stats = NoStats /\ stats' = [NoStats EXCEPT !.status = e.status, !.version = e.version]
        \/ stats # NoStats /\ RollsBack(e, v.stats) /\ stats' = stats
        \/ /\ stats # NoStats /\ ~RollsBack(e, v.stats)
           /\ \E s \in {e.status, stats.status}, n \in {e.version, stats.version} :
                /\ stats' = [stats EXCEPT !.status = s, !.version = n]
                /\ v.stats = stats => s = e.status /\ n = e.version
    <3>1. CASE v.stats = NoStats
      BY <1>6, <2>1, <3>1 DEF told, e
    <3>2. CASE v.stats # NoStats /\ RollsBack(e, v.stats)
      BY <1>6, <2>1, <3>2 DEF told, e
    <3>3. CASE v.stats # NoStats /\ ~RollsBack(e, v.stats)
      <4>1. stats' = [stats EXCEPT
                        !.status = IF e.status # v.stats.status THEN e.status ELSE stats.status,
                        !.version = IF e.version # v.stats.version THEN e.version
                                    ELSE stats.version]
        BY <1>6, <2>1, <3>3 DEF told, e
      <4> QED
        BY <1>6, <3>3, <4>1
    <3> QED
      BY <3>1, <3>2, <3>3
  <2>4. /\ stats' \in StatsRows
        /\ stats'.views = stats.views /\ stats'.likes = stats.likes
        /\ stats'.sum = stats.sum /\ stats'.count = stats.count
        /\ stats'.status \in {e.status, stats.status}
        /\ stats'.version \in {e.version, stats.version}
    <3>1. CASE stats = NoStats /\ stats' = [NoStats EXCEPT !.status = e.status, !.version = e.version]
      <4>1. stats' = [status |-> e.status, version |-> e.version,
                      views |-> 0, likes |-> 0, sum |-> 0, count |-> 0]
        BY <3>1 DEF NoStats
      <4>2. e.status \in ArticleStatus \union {"none"} /\ e.version \in 0..MaxArticleVersion
        BY <2>2
      <4>3. stats.views = 0 /\ stats.likes = 0 /\ stats.sum = 0 /\ stats.count = 0
        BY <3>1 DEF NoStats
      <4> QED
        BY <4>1, <4>2, <4>3 DEF StatsRows
    <3>2. CASE stats' = stats
      BY <2>2, <3>2
    <3>3. ASSUME NEW s \in {e.status, stats.status}, NEW n \in {e.version, stats.version},
                 stats' = [stats EXCEPT !.status = s, !.version = n]
          PROVE  /\ stats' \in StatsRows
                 /\ stats'.views = stats.views /\ stats'.likes = stats.likes
                 /\ stats'.sum = stats.sum /\ stats'.count = stats.count
                 /\ stats'.status \in {e.status, stats.status}
                 /\ stats'.version \in {e.version, stats.version}
      <4>1. s \in ArticleStatus \union {"none"} /\ n \in 0..MaxArticleVersion
        BY <2>2 DEF StatsRows
      <4> QED
        BY <2>2, <3>3, <4>1 DEF StatsRows
    <3> QED
      BY <2>3, <3>1, <3>2, <3>3
  <2>5. stats'.status # "none"
    <3>1. e.status # "none"
      BY <2>2 DEF ArticleStatus
    <3>2. stats # NoStats => stats.status # "none"
      BY DEF EngagementInv, StatusFollows
    <3>3. stats = NoStats => stats'.status = e.status
      BY <2>3 DEF NoStats
    <3> QED
      BY <2>4, <3>1, <3>2, <3>3
  <2>6. CounterRows'
    BY <1>1, <1>4, <2>1, <2>2, <2>4 DEF EngagementInv, CounterRows
  <2>7. ASSUME NEW g \in Visitors
        PROVE  VisitSound(visit'[g], facts', ViewRows') /\ RowStays(visit[g])'
    <3>1. stats' # NoStats
      BY <2>5 DEF NoStats
    <3> QED
      BY <1>1, <1>3, <1>4, <3>1 DEF EngagementInv, RowStays, ViewRows
  <2>8. CountsMatchRows'
    BY <1>1, <2>1, <2>4 DEF EngagementInv, CountsMatchRows, StarsNow
  <2>9. FactsFollow'
    BY <1>1, <2>1 DEF EngagementInv, FactsFollow
  <2>10. StatusFollows'
    <3>1. stats' # NoStats
      BY <2>5 DEF NoStats
    <3>2. stats'.version <= article.version
      BY <2>2, <2>4 DEF EngagementInv, StatusFollows
    <3>3. stats'.status = "purged" => article.status = "purged"
      BY <2>2, <2>4 DEF EngagementInv, StatusFollows
    <3>4. ASSUME ~raced', article \in heard \union {e}
          PROVE  stats'.status = article.status /\ stats'.version = article.version
      <4>1. ~raced /\ v.stats = stats
        BY <2>1, <3>4
      <4>2. stats.version <= article.version /\ (stats.status = "purged" => article.status = "purged")
            /\ stats.version \in Nat /\ article.version \in Nat
        BY <2>2 DEF EngagementInv, StatusFollows, StatsRows
      <4>3. article \in heard =>
              stats # NoStats /\ stats.status = article.status /\ stats.version = article.version
        BY <4>1 DEF EngagementInv, StatusFollows
      <4>4. CASE stats = NoStats
        <5>1. e = article
          BY <3>4, <4>3, <4>4
        <5>2. stats' = [NoStats EXCEPT !.status = e.status, !.version = e.version]
          BY <2>3, <4>4
        <5> QED
          BY <5>1, <5>2 DEF NoStats
      <4>5. CASE stats # NoStats /\ RollsBack(e, stats)
        <5>1. stats' = stats
          BY <2>3, <4>1, <4>5
        <5>2. e # article
          BY <2>2, <4>2, <4>5 DEF RollsBack
        <5> QED
          BY <3>4, <4>3, <5>1, <5>2
      <4>6. CASE stats # NoStats /\ ~RollsBack(e, stats)
        <5>1. stats'.status = e.status /\ stats'.version = e.version
          BY <2>2, <2>3, <4>1, <4>6 DEF StatsRows
        <5>2. CASE e = article
          BY <5>1, <5>2
        <5>3. CASE e # article
          <6>1. stats.status = article.status /\ stats.version = article.version
            BY <3>4, <4>3, <5>3
          <6>2. e.version = article.version
            BY <2>2, <4>2, <4>6, <6>1 DEF RollsBack
          <6>3. article.status = "purged" /\ e.status # "purged"
            BY <2>2, <4>1, <5>3, <6>2 DEF EngagementInv, FactsFollow
          <6> QED
            BY <4>6, <6>1, <6>3 DEF RollsBack
        <5> QED
          BY <5>2, <5>3
      <4> QED
        BY <4>4, <4>5, <4>6
    <3> QED
      BY <1>1, <2>1, <2>5, <3>1, <3>2, <3>3, <3>4 DEF StatusFollows
  <2> QED
    BY <2>6, <2>7, <2>8, <2>9, <2>10 DEF EngagementInv
<1> QED
  BY <1>2, <1>5, <1>6

LEMMA EngagementStarts == EngagementInit => EngagementInv
<1> SUFFICES ASSUME EngagementInit PROVE EngagementInv
  OBVIOUS
<1> USE EngagementAssumption
<1>1. CounterRows
  <2>1. /\ [status |-> "draft", version |-> 1] \in [status : ArticleStatus, version : 1..MaxArticleVersion]
        /\ NoStats \in StatsRows /\ NoRating \in RatingRows
    BY DEF ArticleStatus, NoStats, StatsRows, NoRating, RatingRows
  <2>2. views \in [keys : SUBSET ViewKeys, plain : Nat] /\ IsFiniteSet(views.keys)
    BY FS_EmptySet DEF EngagementInit
  <2>3. likes \in [Fans -> LikeRows] /\ ratings \in [Fans -> RatingRows] /\ DOMAIN visit = Visitors
    BY <2>1 DEF EngagementInit, LikeRows
  <2>4. /\ article \in [status : ArticleStatus, version : 1..MaxArticleVersion]
        /\ facts = {article} /\ heard = {} /\ stats \in StatsRows
        /\ purging \in 0..MaxArticleVersion /\ raced \in BOOLEAN
    <3>1. /\ article = [status |-> "draft", version |-> 1] /\ purging = 0 /\ stats = NoStats
          /\ facts = {article} /\ heard = {} /\ raced = FALSE
      BY DEF EngagementInit
    <3>2. 0 \in 0..MaxArticleVersion
      OBVIOUS
    <3> QED
      BY <2>1, <3>1, <3>2
  <2>5. facts \subseteq [status : ArticleStatus, version : 1..MaxArticleVersion] /\ heard \subseteq facts
    BY <2>4
  <2>6. /\ article \in [status : ArticleStatus, version : 1..MaxArticleVersion] /\ stats \in StatsRows
        /\ purging \in 0..MaxArticleVersion /\ raced \in BOOLEAN
    BY <2>4
  <2> QED
    BY <2>2, <2>3, <2>5, <2>6 DEF CounterRows
<1>2. \A h \in Visitors : VisitSound(visit[h], facts, ViewRows) /\ RowStays(visit[h])
  BY DEF EngagementInit, VisitSound, RowStays
<1>3. CountsMatchRows
  <2>1. {f \in Fans : likes[f] = "liked"} = {} /\ {f \in Fans : ~ratings[f].removed} = {}
    BY DEF EngagementInit, NoRating
  <2>2. StarsNow = 0
    BY SumOfZeros DEF EngagementInit, StarsNow, SumFunction, NoRating
  <2> QED
    <3>1. Cardinality({}) = 0
      BY FS_EmptySet
    <3>2. stats.views = 0 /\ stats.likes = 0 /\ stats.count = 0 /\ stats.sum = 0
      BY DEF EngagementInit, NoStats
    <3>3. views.keys = {} /\ views.plain = 0
      BY DEF EngagementInit
    <3> QED
      BY <2>1, <2>2, <3>1, <3>2, <3>3 DEF CountsMatchRows
<1>4. FactsFollow
  BY DEF EngagementInit, FactsFollow
<1>5. StatusFollows
  BY DEF EngagementInit, StatusFollows, NoStats
<1> QED
  BY <1>1, <1>2, <1>3, <1>4, <1>5 DEF EngagementInv

LEMMA EngagementStep == EngagementInv /\ [EngagementNext]_engagementVars => EngagementInv'
<1> SUFFICES ASSUME EngagementInv, [EngagementNext]_engagementVars PROVE EngagementInv'
  OBVIOUS
<1>1. CASE UNCHANGED engagementVars
  BY <1>1 DEF engagementVars, EngagementInv, CounterRows, RowStays, CountsMatchRows, StarsNow,
     FactsFollow, StatusFollows, ViewRows
<1>2. CASE EngagementNext
  BY <1>2, ArticleChanges, PurgeMoves, HandsAskAndRead, CommitKeeps, ProjectKeeps
  DEF EngagementNext
<1> QED
  BY <1>1, <1>2

\* For every number of fans, requests, events and versions: the views that are counted have
\* rows, and unless a commit followed an outdated read the counters are the rows' and the
\* projected status is the content's once its events have come (commands.py:289,
\* projection.py:62).
THEOREM StatisticsFollowTheRows == EngagementSpec => []StatisticsAgree
<1>1. EngagementInit => EngagementInv
  BY EngagementStarts
<1>2. EngagementInv /\ [EngagementNext]_engagementVars => EngagementInv'
  BY EngagementStep
<1>3. EngagementInv => StatisticsAgree
  BY DEF EngagementInv, StatisticsAgree, ProjectionCatchesUp, FactsFollow, StatusFollows
<1> QED
  BY <1>1, <1>2, <1>3, PTL DEF EngagementSpec

-----------------------------------------------------------------------------
(* Engagement: a view without a key is of a command that was asked, and no *)
(* two are of one.                                                         *)

AskedKinds == {"view", "like", "unlike", "rate", "withdraw"}
Asking == {h \in Visitors : visit[h].does \in AskedKinds}

ViewsBounded == /\ visits \in 0..MaxVisits
                /\ IsFiniteSet(Asking) /\ views.plain + Cardinality(Asking) <= visits

\* A hand that neither begins nor ends a command.
LEMMA AskingStands ==
  ASSUME ViewsBounded, UNCHANGED <<views, visits>>,
         \A h \in Visitors : visit'[h].does \in AskedKinds <=> visit[h].does \in AskedKinds
  PROVE  ViewsBounded'
<1>1. Asking' = Asking
  BY DEF Asking
<1> QED
  BY <1>1 DEF ViewsBounded

LEMMA AskingEnds ==
  ASSUME ViewsBounded, EngagementInv, NEW h \in Visitors, visit' = [visit EXCEPT ![h] = Away],
         UNCHANGED visits, views'.plain \in Nat,
         \/ views'.plain <= views.plain
         \/ h \in Asking /\ views'.plain <= views.plain + 1
  PROVE  ViewsBounded'
<1>1. Asking' = Asking \ {h}
  <2>1. visit'[h] = Away /\ \A o \in Visitors \ {h} : visit'[o] = visit[o]
    BY DEF EngagementInv, CounterRows
  <2>2. Away.does \notin AskedKinds
    BY DEF Away, AskedKinds
  <2> QED
    BY <2>1, <2>2 DEF Asking
<1>2. /\ IsFiniteSet(Asking \ {h}) /\ Cardinality(Asking) \in Nat
      /\ Cardinality(Asking \ {h}) = IF h \in Asking THEN Cardinality(Asking) - 1 ELSE Cardinality(Asking)
  BY FS_RemoveElement, FS_CardinalityType DEF ViewsBounded
<1>3. views.plain \in Nat
  BY DEF EngagementInv, CounterRows
<1> QED
  BY <1>1, <1>2, <1>3 DEF ViewsBounded

LEMMA ViewsStayBounded ==
  ASSUME EngagementAssumption, EngagementInv, EngagementInv', ViewsBounded,
         [EngagementNext]_engagementVars
  PROVE  ViewsBounded'
<1>1. CASE UNCHANGED engagementVars
  BY <1>1, AskingStands DEF engagementVars
<1>2. CASE (\E s \in ArticleStatus : MoveArticle(s)) \/ PurgeLoads \/ PurgeArticle
  BY <1>2, AskingStands DEF MoveArticle, PurgeLoads, PurgeArticle, counterVars
<1>3. ASSUME NEW h \in Visitors,
             RecordView(h) \/ LikeContent(h) \/ UnlikeContent(h) \/ RateContent(h) \/ WithdrawRating(h)
      PROVE  ViewsBounded'
  <2>1. PICK does \in AskedKinds : \E fan, key, stars : Ask(h, does, fan, key, stars)
    <3>1. CASE RecordView(h)
      BY <3>1 DEF RecordView, AskedKinds
    <3>2. CASE LikeContent(h)
      BY <3>2 DEF LikeContent, AskedKinds
    <3>3. CASE UnlikeContent(h)
      BY <3>3 DEF UnlikeContent, AskedKinds
    <3>4. CASE RateContent(h)
      BY <3>4 DEF RateContent, AskedKinds
    <3>5. CASE WithdrawRating(h)
      BY <3>5 DEF WithdrawRating, AskedKinds
    <3> QED
      BY <1>3, <3>1, <3>2, <3>3, <3>4, <3>5
  <2>2. /\ visit[h] = Away /\ visits < MaxVisits /\ visits' = visits + 1 /\ UNCHANGED views
        /\ visit'[h].does = does /\ \A o \in Visitors \ {h} : visit'[o] = visit[o]
    BY <2>1 DEF Ask, EngagementInv, CounterRows
  <2>3. Asking' = Asking \union {h} /\ h \notin Asking
    BY <2>2 DEF Asking, Away, AskedKinds
  <2>4. IsFiniteSet(Asking \union {h}) /\ Cardinality(Asking \union {h}) = Cardinality(Asking) + 1
        /\ Cardinality(Asking) \in Nat
    BY <2>3, FS_AddElement, FS_CardinalityType DEF ViewsBounded
  <2>5. views.plain \in Nat
    BY DEF EngagementInv, CounterRows
  <2> QED
    BY <2>2, <2>3, <2>4, <2>5 DEF ViewsBounded, EngagementAssumption
<1>4. ASSUME NEW h \in Visitors, ReadCounters(h)
      PROVE  ViewsBounded'
  <2>1. visit'[h].does = visit[h].does /\ \A o \in Visitors \ {h} : visit'[o] = visit[o]
    BY <1>4 DEF ReadCounters, EngagementInv, CounterRows
  <2> QED
    BY <1>4, <2>1, AskingStands DEF ReadCounters
<1>5. ASSUME NEW h \in Visitors, ProjectReads(h)
      PROVE  ViewsBounded'
  <2>1. visit[h] = Away /\ visit'[h].does = "project" /\ \A o \in Visitors \ {h} : visit'[o] = visit[o]
    BY <1>5 DEF ProjectReads, EngagementInv, CounterRows
  <2>2. Away.does \notin AskedKinds /\ "project" \notin AskedKinds
    BY DEF Away, AskedKinds
  <2> QED
    BY <1>5, <2>1, <2>2, AskingStands DEF ProjectReads
<1>6. ASSUME NEW h \in Visitors, Project(h) \/ GiveUpVisit(h)
      PROVE  ViewsBounded'
  <2>1. visit' = [visit EXCEPT ![h] = Away] /\ UNCHANGED <<views, visits>>
    BY <1>6 DEF Project, GiveUpVisit
  <2>2. views'.plain \in Nat /\ views'.plain <= views.plain
    BY <2>1 DEF EngagementInv, CounterRows
  <2> QED
    BY <2>1, <2>2, AskingEnds
<1>7. ASSUME NEW h \in Visitors, CommitVisit(h)
      PROVE  ViewsBounded'
  <2>1. visit' = [visit EXCEPT ![h] = Away] /\ UNCHANGED visits
    BY <1>7 DEF CommitVisit
  <2>2. visit[h].does \in AskedKinds
    <3>1. VisitSound(visit[h], facts, ViewRows)
      BY DEF EngagementInv
    <3>2. visit[h] # Away /\ visit[h].does # "project"
      BY <1>7 DEF CommitVisit
    <3> QED
      BY <3>1, <3>2 DEF VisitSound, AskSound, EventSound, AskedKinds
  <2>3. h \in Asking
    BY <2>2 DEF Asking
  <2>4. views.plain \in Nat /\ views'.plain \in Nat /\ views \in [keys : SUBSET ViewKeys, plain : Nat]
    BY DEF EngagementInv, CounterRows
  <2>5. views' = views \/ views' = [views EXCEPT !.plain = views.plain + 1]
        \/ \E ks : views' = [views EXCEPT !.keys = ks]
    BY <1>7 DEF CommitVisit, WriteOwnRows
  <2>6. views'.plain <= views.plain + 1
    BY <2>4, <2>5
  <2> QED
    BY <2>1, <2>3, <2>4, <2>6, AskingEnds
<1> QED
  BY <1>1, <1>2, <1>3, <1>4, <1>5, <1>6, <1>7 DEF EngagementNext

\* The rows and the counters of a content keep their types: engagement/commands.py.
THEOREM EngagementKeepsTypes == EngagementSpec => []EngagementTypeOK
<1>1. EngagementInit => EngagementInv /\ ViewsBounded
  <2> SUFFICES ASSUME EngagementInit PROVE EngagementInv /\ ViewsBounded
    OBVIOUS
  <2>1. Asking = {}
    BY DEF EngagementInit, Asking, Away, AskedKinds
  <2>2. IsFiniteSet({}) /\ Cardinality({}) = 0
    BY FS_EmptySet
  <2> QED
    BY <2>1, <2>2, EngagementStarts, EngagementAssumption
       DEF EngagementInit, ViewsBounded, EngagementAssumption
<1>2. EngagementInv /\ ViewsBounded /\ [EngagementNext]_engagementVars => EngagementInv' /\ ViewsBounded'
  BY EngagementStep, ViewsStayBounded, EngagementAssumption
<1>3. EngagementInv /\ ViewsBounded => EngagementTypeOK
  <2> SUFFICES ASSUME EngagementInv, ViewsBounded PROVE EngagementTypeOK
    OBVIOUS
  <2>1. Cardinality(Asking) \in Nat
    BY FS_CardinalityType DEF ViewsBounded
  <2>2. views \in [keys : SUBSET ViewKeys, plain : 0..MaxVisits]
    <3>1. views \in [keys : SUBSET ViewKeys, plain : Nat]
      BY DEF EngagementInv, CounterRows
    <3>2. views.plain \in 0..MaxVisits
      BY <2>1, <3>1, EngagementAssumption DEF ViewsBounded, EngagementAssumption
    <3> QED
      BY <3>1, <3>2
  <2> QED
    BY <2>2 DEF EngagementInv, CounterRows, ViewsBounded, EngagementTypeOK, StatsRows, LikeRows, RatingRows
<1> QED
  BY <1>1, <1>2, <1>3, PTL DEF EngagementSpec

-----------------------------------------------------------------------------
(* Payments and their fulfillment: an order is captured once by a command  *)
(* that was begun, and once by a webhook.                                  *)

OpenCalls == {r \in Payers : calls[r] # Idle}

CapturesBounded ==
    /\ payCalls \in 0..MaxPayCalls
    /\ receipts \subseteq PaymentEvents /\ refundEvents \subseteq Refunds
    /\ IsFiniteSet(OpenCalls) /\ captureEvents \in Nat
    /\ captureEvents + Cardinality(OpenCalls)
         <= payCalls + (IF <<"capture">> \in receipts THEN 1 ELSE 0)

LEMMA CallsCounted ==
  ASSUME IsFiniteSet(OpenCalls), DOMAIN calls = Payers, NEW r \in Payers, NEW c,
         calls' = [calls EXCEPT ![r] = c]
  PROVE  /\ IsFiniteSet(OpenCalls') /\ Cardinality(OpenCalls') \in Nat /\ Cardinality(OpenCalls) \in Nat
         /\ calls[r] # Idle /\ c = Idle => Cardinality(OpenCalls') = Cardinality(OpenCalls) - 1
         /\ calls[r] # Idle => Cardinality(OpenCalls') <= Cardinality(OpenCalls)
         /\ Cardinality(OpenCalls') <= Cardinality(OpenCalls) + 1
<1>1. OpenCalls' = IF c = Idle THEN OpenCalls \ {r} ELSE OpenCalls \union {r}
  <2>1. calls'[r] = c /\ \A p \in Payers \ {r} : calls'[p] = calls[p]
    OBVIOUS
  <2> QED
    BY <2>1 DEF OpenCalls
<1>2. /\ IsFiniteSet(OpenCalls \union {r}) /\ IsFiniteSet(OpenCalls \ {r}) /\ Cardinality(OpenCalls) \in Nat
      /\ Cardinality(OpenCalls \union {r})
           = IF r \in OpenCalls THEN Cardinality(OpenCalls) ELSE Cardinality(OpenCalls) + 1
      /\ Cardinality(OpenCalls \ {r})
           = IF r \in OpenCalls THEN Cardinality(OpenCalls) - 1 ELSE Cardinality(OpenCalls)
  BY FS_AddElement, FS_RemoveElement, FS_CardinalityType
<1>3. Cardinality(OpenCalls \union {r}) \in Nat /\ Cardinality(OpenCalls \ {r}) \in Nat
  BY <1>2, FS_CardinalityType
<1>4. calls[r] # Idle <=> r \in OpenCalls
  BY DEF OpenCalls
<1> QED
  BY <1>1, <1>2, <1>3, <1>4

LEMMA CallOpens ==
  ASSUME PaymentsAssumption, CapturesBounded, DOMAIN calls = Payers, NEW r \in Payers, NEW call,
         OpensPayment(r, call), UNCHANGED <<receipts, captureEvents, refundEvents>>
  PROVE  CapturesBounded'
<1>1. IsFiniteSet(OpenCalls') /\ Cardinality(OpenCalls') \in Nat /\ Cardinality(OpenCalls) \in Nat
      /\ Cardinality(OpenCalls') <= Cardinality(OpenCalls) + 1
  BY CallsCounted DEF OpensPayment, CapturesBounded
<1>2. payCalls < MaxPayCalls /\ payCalls' = payCalls + 1 /\ MaxPayCalls \in Nat
  BY DEF OpensPayment, PaymentsAssumption
<1> QED
  BY <1>1, <1>2 DEF CapturesBounded

LEMMA CallGoesOn ==
  ASSUME CapturesBounded, DOMAIN calls = Payers, NEW r \in Payers, NEW call, calls[r] # Idle,
         PayGoes(r, call), UNCHANGED receipts, refundEvents' \subseteq Refunds,
         \/ UNCHANGED captureEvents
         \/ captureEvents' = captureEvents + 1 /\ call = Idle
  PROVE  CapturesBounded'
<1>1. /\ IsFiniteSet(OpenCalls') /\ Cardinality(OpenCalls') \in Nat /\ Cardinality(OpenCalls) \in Nat
      /\ Cardinality(OpenCalls') <= Cardinality(OpenCalls)
      /\ call = Idle => Cardinality(OpenCalls') = Cardinality(OpenCalls) - 1
  BY CallsCounted DEF PayGoes, CapturesBounded
<1>2. payCalls' = payCalls
  BY DEF PayGoes
<1> QED
  BY <1>1, <1>2 DEF CapturesBounded

LEMMA PayCommandsAreBounded ==
  ASSUME PaymentsAssumption, MoneyInv, CapturesBounded, NEW r \in Payers, PayCommand(r)
  PROVE  CapturesBounded'
<1>1. DOMAIN calls = Payers /\ refundEvents \subseteq Refunds
  BY DEF MoneyInv, PaymentRows, CapturesBounded
<1>2. CASE StartPaymentAttempt(r)
  BY <1>1, <1>2, CallOpens DEF StartPaymentAttempt
<1>3. ASSUME NEW point, NEW target, ReadOrder(r, point, target)
      PROVE  CapturesBounded'
  <2>1. CASE calls[r] = Idle
    BY <1>1, <1>3, <2>1, CallOpens DEF ReadOrder
  <2>2. CASE calls[r] # Idle
    BY <1>1, <1>3, <2>2, CallGoesOn DEF ReadOrder
  <2> QED
    BY <2>1, <2>2
<1>4. CASE StartReads(r) \/ CancelPaymentReads(r) \/ ReconcileReads(r)
  BY <1>3, <1>4 DEF StartReads, CancelPaymentReads, ReconcileReads
<1>5. CASE StartWrites(r) \/ CancelPaymentOrder(r) \/ ReconcileFails(r) \/ GiveUpPayment(r)
  <2>1. calls[r] # Idle /\ PayGoes(r, Idle) /\ UNCHANGED <<receipts, captureEvents, refundEvents>>
    BY <1>5 DEF StartWrites, CancelPaymentOrder, ReconcileFails, GiveUpPayment, At
  <2> QED
    BY <1>1, <2>1, CallGoesOn
<1>6. CASE ReconcileAsks(r)
  BY <1>1, <1>6, CallOpens DEF ReconcileAsks
<1>7. CASE ReconcileCaptures(r)
  <2>1. calls[r] # Idle /\ PayGoes(r, Idle) /\ UNCHANGED <<receipts, refundEvents>>
        /\ captureEvents' = captureEvents + 1
    BY <1>7 DEF ReconcileCaptures, At
  <2> QED
    BY <1>1, <2>1, CallGoesOn
<1>8. CASE RefundAsks(r)
  <2>1. \E call : OpensPayment(r, call)
    BY <1>8 DEF RefundAsks
  <2>2. UNCHANGED <<receipts, captureEvents, refundEvents>>
    BY <1>8 DEF RefundAsks
  <2> QED
    BY <1>1, <2>1, <2>2, CallOpens
<1>9. CASE RequestRefund(r)
  <2>1. calls[r] # Idle /\ PayGoes(r, Idle) /\ UNCHANGED <<receipts, captureEvents>>
        /\ calls[r][1] = "refunding"
    BY <1>9 DEF RequestRefund, At
  <2>2. calls[r][2] \in Refunds
    BY <2>1 DEF MoneyInv, Asked
  <2>3. refundEvents' \subseteq refundEvents \union {calls[r][2]}
    BY <1>9 DEF RequestRefund
  <2> QED
    BY <1>1, <2>1, <2>2, <2>3, CallGoesOn
<1> QED
  BY <1>2, <1>4, <1>5, <1>6, <1>7, <1>8, <1>9 DEF PayCommand

LEMMA PaymentsStayBounded ==
  ASSUME PaymentsAssumption, MoneyInv, CapturesBounded, [PaymentsNext]_paymentsVars
  PROVE  CapturesBounded'
<1>1. CASE UNCHANGED paymentsVars
  BY <1>1 DEF paymentsVars, CapturesBounded, OpenCalls
<1>2. ASSUME NEW r \in Payers, PayCommand(r) PROVE CapturesBounded'
  BY <1>2, PayCommandsAreBounded
<1>3. Cardinality(OpenCalls) \in Nat
  BY FS_CardinalityType DEF CapturesBounded
<1>4. CASE WebhookCapture
  <2>1. /\ <<"capture">> \notin receipts /\ receipts' = receipts \union {<<"capture">>}
        /\ captureEvents' \in {captureEvents, captureEvents + 1}
        /\ UNCHANGED <<calls, refundEvents, payCalls>>
    BY <1>4 DEF WebhookCapture, NewEvent
  <2>2. OpenCalls' = OpenCalls
    BY <2>1 DEF OpenCalls
  <2>3. <<"capture">> \in PaymentEvents
    BY DEF PaymentEvents
  <2> QED
    BY <1>3, <2>1, <2>2, <2>3 DEF CapturesBounded
<1>5. CASE WebhookFailure \/ CustomerPays \/ ProviderRefunds
  <2>1. /\ receipts' = receipts \/ receipts' = receipts \union {<<"failure">>}
        /\ UNCHANGED <<calls, captureEvents, refundEvents, payCalls>>
    BY <1>5 DEF WebhookFailure, CustomerPays, ProviderRefunds
  <2>2. OpenCalls' = OpenCalls
    BY <2>1 DEF OpenCalls
  <2>3. receipts' \subseteq PaymentEvents /\ (<<"capture">> \in receipts' <=> <<"capture">> \in receipts)
    BY <2>1 DEF PaymentEvents, CapturesBounded
  <2> QED
    BY <2>1, <2>2, <2>3 DEF CapturesBounded
<1>6. CASE WebhookRefund
  <2>1. PICK k \in Refunds : receipts' = receipts \union {<<"refund", k>>}
    BY <1>6 DEF WebhookRefund
  <2>2. UNCHANGED <<calls, captureEvents, payCalls>>
    BY <1>6 DEF WebhookRefund
  <2>3. refundEvents' = refundEvents \/ \E j \in Refunds : refundEvents' = refundEvents \union {j}
    BY <1>6 DEF WebhookRefund, Candidates
  <2>4. OpenCalls' = OpenCalls
    BY <2>2 DEF OpenCalls
  <2>5. receipts' \subseteq PaymentEvents /\ (<<"capture">> \in receipts' <=> <<"capture">> \in receipts)
    BY <2>1 DEF PaymentEvents, CapturesBounded
  <2> QED
    BY <2>2, <2>3, <2>4, <2>5 DEF CapturesBounded
<1> QED
  BY <1>1, <1>2, <1>4, <1>5, <1>6 DEF PaymentsNext

\* The order, its refunds and its workflows keep their types: payments/commands.py and
\* user_center/workflows.py.
THEOREM FulfillmentKeepsTypes == FulfillmentSpec => [](PaymentsTypeOK /\ FulfillmentTypeOK)
<1> USE PaymentsAssumption
<1> DEFINE Typed == MoneyInv /\ CapturesBounded /\ FulfillmentTypeOK
<1>1. FulfillmentInit => Typed
  <2> SUFFICES ASSUME FulfillmentInit PROVE Typed
    OBVIOUS
  <2>1. OpenCalls = {}
    BY DEF FulfillmentInit, PaymentsInit, OpenCalls
  <2>2. IsFiniteSet({}) /\ Cardinality({}) = 0
    BY FS_EmptySet
  <2>3. MoneyInv
    BY MoneyStarts DEF FulfillmentInit
  <2>4. CapturesBounded
    BY <2>1, <2>2 DEF FulfillmentInit, PaymentsInit, CapturesBounded, PaymentsAssumption
  <2>5. FulfillmentTypeOK
    BY DEF FulfillmentInit, FulfillmentTypeOK
  <2> QED
    BY <2>3, <2>4, <2>5
<1>2. Typed /\ [FulfillmentNext]_<<paymentsVars, fulfillmentVars>> => Typed'
  <2> SUFFICES ASSUME Typed, [FulfillmentNext]_<<paymentsVars, fulfillmentVars>> PROVE Typed'
    OBVIOUS
  <2>1. [PaymentsNext]_paymentsVars
    BY DEF FulfillmentNext, FulfillSteps, StartBuying, Validate, CreditPurchase, RecordCredit,
       StartUndoing, ResolveRefund, ReverseRefund
  <2>2. MoneyInv' /\ CapturesBounded'
    BY <2>1, MoneyStep, PaymentsStayBounded
  <2>3. FulfillmentTypeOK'
    <3>1. CASE UNCHANGED fulfillmentVars
      BY <3>1 DEF fulfillmentVars, FulfillmentTypeOK
    <3>2. CASE StartBuying \/ Validate \/ CreditPurchase \/ RecordCredit
      BY <3>2 DEF StartBuying, Validate, CreditPurchase, CreditOnce, RecordCredit, FulfillmentTypeOK
    <3>3. ASSUME NEW k \in Refunds, StartUndoing(k) \/ ResolveRefund(k) \/ ReverseRefund(k)
          PROVE  FulfillmentTypeOK'
      <4>1. PICK to \in {"started", "found", "missing", "reversed", "failed"} :
               undoing' = [undoing EXCEPT ![k] = to]
        BY <3>3 DEF StartUndoing, ResolveRefund, ReverseRefund, Undo
      <4>2. undoing' \in [Refunds -> {"none", "started", "found", "missing", "reversed", "failed"}]
        BY <4>1 DEF FulfillmentTypeOK
      <4>3. UNCHANGED <<buying, credits>> /\ entry' \in {entry, "reversed"}
        BY <3>3 DEF StartUndoing, ResolveRefund, ReverseRefund
      <4> QED
        BY <4>2, <4>3 DEF FulfillmentTypeOK
    <3> QED
      BY <3>1, <3>2, <3>3 DEF FulfillmentNext, FulfillSteps, fulfillmentVars
  <2> QED
    BY <2>2, <2>3
<1>3. Typed => PaymentsTypeOK /\ FulfillmentTypeOK
  <2> SUFFICES ASSUME Typed PROVE PaymentsTypeOK
    OBVIOUS
  <2>1. Cardinality(OpenCalls) \in Nat
    BY FS_CardinalityType DEF CapturesBounded
  <2>2. captureEvents \in 0..(1 + MaxPayCalls)
    BY <2>1 DEF CapturesBounded, PaymentsAssumption
  <2> QED
    BY <2>2 DEF PaymentsTypeOK, MoneyInv, PaymentRows, CapturesBounded
<1> QED
  BY <1>1, <1>2, <1>3, PTL DEF FulfillmentSpec

=============================================================================
