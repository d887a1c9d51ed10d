---------------------------- MODULE MembersProof ----------------------------
(***************************************************************************)
(* What the services a member deals with keep: memberships, gift cards,    *)
(* purchases of rights and the community, for every number of requests,    *)
(* rows and processes; and the types of all services.                      *)
(***************************************************************************)
EXTENDS MCServices, AccountsProof, ServicesProof, WorkflowProof

-----------------------------------------------------------------------------
(* Membership: a cycle is created under the key of its purchase only while *)
(* there is none, and what a workflow records, or a process is about to    *)
(* commit, names a cycle that is there and, once it was credited, granted. *)

CycleRows == [key : Purchases, state : {"prepared", "activated"}]
JoinRows == [step : JoinSteps, cycle : Nat]

\* The command a process has open, of cycles cs of which gr are granted.
MemberCallSound(call, cs, gr) ==
    \/ call = NotIn
    \/ \E p \in Purchases, stage \in {"prepared", "credited", "done"}, c \in 1..Len(cs) :
          call = <<"returned", p, stage, c>> /\ (stage # "prepared" => c \in gr)
    \/ \E p \in Purchases : \E read : call = <<"preparing", p, read>>
    \/ \E p \in Purchases, c \in gr : call = <<"attaching", p, c>>
    \/ \E mark : call = <<"ending", mark>>
    \/ \E mark, c : call = <<"ending", mark, c>>

JoinSound(rec, cs, gr) ==
    /\ rec \in JoinRows
    /\ rec.step \in {"prepared", "credited", "done"} => rec.cycle \in 1..Len(cs)
    /\ rec.step \in {"credited", "done"} => rec.cycle \in gr

CyclesSound(cs, gr) ==
    /\ cs \in Seq(CycleRows) /\ gr \subseteq 1..Len(cs)
    /\ \A c, d \in 1..Len(cs) : cs[c].key = cs[d].key => c = d
    /\ \A c \in 1..Len(cs) : cs[c].state = "activated" => c \in gr

MembershipInv ==
    /\ CyclesSound(cycles, granted)
    /\ DOMAIN at = Members /\ \A m \in Members : MemberCallSound(at[m], cycles, granted)
    /\ DOMAIN joining = Purchases /\ \A p \in Purchases : JoinSound(joining[p], cycles, granted)

\* What was sound stays so while cycles and grants only grow.
LEMMA MembershipGrows ==
  ASSUME NEW cs, NEW ds, Len(cs) \in Nat, Len(ds) \in Nat, Len(cs) <= Len(ds),
         NEW gr, NEW more, gr \subseteq more
  PROVE  /\ \A call : MemberCallSound(call, cs, gr) => MemberCallSound(call, ds, more)
         /\ \A rec : JoinSound(rec, cs, gr) => JoinSound(rec, ds, more)
<1>1. 1..Len(cs) \subseteq 1..Len(ds)
  OBVIOUS
<1>2. ASSUME NEW call, MemberCallSound(call, cs, gr) PROVE MemberCallSound(call, ds, more)
  BY <1>1, <1>2 DEF MemberCallSound
<1>3. ASSUME NEW rec, JoinSound(rec, cs, gr) PROVE JoinSound(rec, ds, more)
  BY <1>1, <1>3 DEF JoinSound
<1> QED
  BY <1>2, <1>3

\* One process goes on with a command that is sound.
LEMMA MemberGoesOn ==
  ASSUME MembershipInv, NEW m \in Members, NEW call, at' = [at EXCEPT ![m] = call],
         CyclesSound(cycles', granted'), Len(cycles) <= Len(cycles'), granted \subseteq granted',
         MemberCallSound(call, cycles', granted'),
         DOMAIN joining' = Purchases,
         \A p \in Purchases : joining'[p] = joining[p] \/ JoinSound(joining'[p], cycles', granted')
  PROVE  MembershipInv'
<1>1. Len(cycles) \in Nat /\ Len(cycles') \in Nat
  BY DEF MembershipInv, CyclesSound
<1>2. DOMAIN at' = Members /\ at'[m] = call /\ \A o \in Members \ {m} : at'[o] = at[o]
  BY DEF MembershipInv
<1>3. ASSUME NEW o \in Members PROVE MemberCallSound(at'[o], cycles', granted')
  <2>1. MemberCallSound(at[o], cycles', granted')
    BY <1>1, MembershipGrows DEF MembershipInv
  <2> QED
    BY <1>2, <2>1
<1>4. ASSUME NEW p \in Purchases PROVE JoinSound(joining'[p], cycles', granted')
  <2>1. JoinSound(joining[p], cycles', granted')
    BY <1>1, MembershipGrows DEF MembershipInv
  <2> QED
    BY <2>1
<1> QED
  BY <1>2, <1>3, <1>4 DEF MembershipInv

\* No process moves, and a workflow may.
LEMMA JoiningGoesOn ==
  ASSUME MembershipInv, UNCHANGED <<at, cycles, granted>>, DOMAIN joining' = Purchases,
         \A p \in Purchases : joining'[p] = joining[p] \/ JoinSound(joining'[p], cycles, granted)
  PROVE  MembershipInv'
BY DEF MembershipInv

LEMMA JoinsRow ==
  ASSUME MembershipInv, NEW p \in Purchases, NEW stage \in JoinSteps, NEW c, Joins(p, stage, c),
         JoinSound([step |-> stage, cycle |-> c], cycles, granted)
  PROVE  /\ DOMAIN joining' = Purchases
         /\ \A q \in Purchases : joining'[q] = joining[q] \/ JoinSound(joining'[q], cycles, granted)
<1> DEFINE rec == [step |-> stage, cycle |-> c]
<1>1. joining' = [joining EXCEPT ![p] = rec]
  BY DEF Joins
<1> HIDE DEF rec
<1>2. /\ DOMAIN joining' = Purchases /\ joining'[p] = rec
      /\ \A q \in Purchases \ {p} : joining'[q] = joining[q]
  BY <1>1 DEF MembershipInv
<1> QED
  BY <1>2 DEF rec

LEMMA StartsCall ==
  ASSUME MembershipInv, NEW m \in Members, NEW call, Starts(m, call),
         MemberCallSound(call, cycles, granted), UNCHANGED <<cycles, granted, joining>>
  PROVE  MembershipInv'
<1>1. at' = [at EXCEPT ![m] = call]
  BY DEF Starts
<1>2. CyclesSound(cycles', granted') /\ Len(cycles) <= Len(cycles') /\ DOMAIN joining' = Purchases
  BY DEF MembershipInv, CyclesSound
<1> QED
  BY <1>1, <1>2, MemberGoesOn

LEMMA JoiningStepsKeep ==
  ASSUME MembershipInv, NEW p \in Purchases, StartJoining(p) \/ JoiningFails(p)
  PROVE  MembershipInv'
<1>1. UNCHANGED <<at, cycles, granted>>
  BY DEF StartJoining, JoiningFails
<1>2. CASE StartJoining(p)
  <2>1. Joins(p, "validated", 0) /\ JoinSound([step |-> "validated", cycle |-> 0], cycles, granted)
    BY <1>2 DEF StartJoining, JoinSound, JoinRows, JoinSteps
  <2> QED
    BY <1>1, <2>1, JoinsRow, JoiningGoesOn DEF JoinSteps
<1>3. CASE JoiningFails(p)
  <2> DEFINE c == joining[p].cycle
  <2>1. c \in Nat
    BY DEF MembershipInv, JoinSound, JoinRows
  <2>2. Joins(p, "failed", c)
    BY <1>3 DEF JoiningFails
  <2> HIDE DEF c
  <2>3. JoinSound([step |-> "failed", cycle |-> c], cycles, granted)
    BY <2>1 DEF JoinSound, JoinRows, JoinSteps
  <2> QED
    BY <1>1, <2>2, <2>3, JoinsRow, JoiningGoesOn DEF JoinSteps
<1> QED
  BY <1>2, <1>3

LEMMA PrepareReadsKeeps ==
  ASSUME MembershipInv, NEW m \in Members, NEW p \in Purchases, PrepareReads(m, p)
  PROVE  MembershipInv'
<1>1. UNCHANGED <<cycles, granted, joining>>
  BY DEF PrepareReads
<1>2. ASSUME NEW c \in CyclesOf(p), Starts(m, <<"returned", p, "prepared", c>>) PROVE MembershipInv'
  <2>1. MemberCallSound(<<"returned", p, "prepared", c>>, cycles, granted)
    BY DEF MemberCallSound, CyclesOf
  <2> QED
    BY <1>1, <1>2, <2>1, StartsCall
<1>3. ASSUME Starts(m, <<"preparing", p, sub>>) PROVE MembershipInv'
  <2>1. MemberCallSound(<<"preparing", p, sub>>, cycles, granted)
    BY DEF MemberCallSound
  <2> QED
    BY <1>1, <1>3, <2>1, StartsCall
<1> QED
  BY <1>2, <1>3 DEF PrepareReads

LEMMA PreparingKeeps ==
  ASSUME MembershipInv, NEW m \in Members, PrepareSubscriptionCycle(m)
  PROVE  MembershipInv'
<1> DEFINE p == at[m][2]
           c == Len(cycles) + 1
           rec == [key |-> p, state |-> "prepared"]
           call == <<"returned", p, "prepared", c>>
<1>1. /\ at[m] # NotIn /\ at[m][1] = "preparing" /\ CyclesOf(p) = {}
      /\ cycles' = Append(cycles, rec) /\ at' = [at EXCEPT ![m] = call]
      /\ UNCHANGED <<granted, joining>>
  BY DEF PrepareSubscriptionCycle, KeyIsFree
<1>2. p \in Purchases
  BY <1>1 DEF MembershipInv, MemberCallSound, NotIn
<1>3. /\ cycles \in Seq(CycleRows) /\ granted \subseteq 1..Len(cycles) /\ Len(cycles) \in Nat
      /\ \A i, j \in 1..Len(cycles) : cycles[i].key = cycles[j].key => i = j
      /\ \A i \in 1..Len(cycles) : cycles[i].state = "activated" => i \in granted
  BY DEF MembershipInv, CyclesSound
<1>4. rec \in CycleRows /\ rec.key = p /\ rec.state = "prepared"
  BY <1>2 DEF CycleRows
<1>5. \A i \in 1..Len(cycles) : cycles[i].key # p
  BY <1>1 DEF CyclesOf
<1> HIDE DEF rec
<1>6. /\ cycles' \in Seq(CycleRows) /\ Len(cycles') = c /\ cycles'[c] = rec
      /\ \A i \in 1..Len(cycles) : cycles'[i] = cycles[i]
  BY <1>1, <1>3, <1>4
<1>7. CyclesSound(cycles', granted')
  <2>1. \A i \in 1..Len(cycles') : i = c \/ i \in 1..Len(cycles)
    BY <1>3, <1>6
  <2>2. \A i, j \in 1..Len(cycles') : cycles'[i].key = cycles'[j].key => i = j
    BY <1>3, <1>4, <1>5, <1>6, <2>1
  <2>3. \A i \in 1..Len(cycles') : cycles'[i].state = "activated" => i \in granted'
    BY <1>1, <1>3, <1>4, <1>6, <2>1
  <2>4. granted' \subseteq 1..Len(cycles')
    BY <1>1, <1>3, <1>6
  <2> QED
    BY <1>6, <2>2, <2>3, <2>4 DEF CyclesSound
<1>8. MemberCallSound(call, cycles', granted')
  BY <1>2, <1>3, <1>6 DEF MemberCallSound
<1>9. Len(cycles) <= Len(cycles') /\ granted \subseteq granted' /\ DOMAIN joining' = Purchases
  BY <1>1, <1>3, <1>6 DEF MembershipInv
<1> HIDE DEF call
<1> QED
  BY <1>1, <1>7, <1>8, <1>9, MemberGoesOn

LEMMA CreditCycleKeeps ==
  ASSUME MembershipInv, NEW m \in Members, NEW p \in Purchases, CreditCycle(m, p)
  PROVE  MembershipInv'
<1> DEFINE c == joining[p].cycle
           call == <<"returned", p, "credited", c>>
<1>1. /\ joining[p].step = "prepared" /\ at' = [at EXCEPT ![m] = call]
      /\ granted' = granted \union {c} /\ UNCHANGED <<cycles, joining>>
  BY DEF CreditCycle, Starts
<1>2. c \in 1..Len(cycles)
  BY <1>1 DEF MembershipInv, JoinSound
<1> HIDE DEF c
<1>3. MemberCallSound(call, cycles', granted')
  BY <1>1, <1>2 DEF MemberCallSound
<1>4. CyclesSound(cycles', granted')
  BY <1>1, <1>2 DEF MembershipInv, CyclesSound
<1>5. Len(cycles) <= Len(cycles') /\ granted \subseteq granted' /\ DOMAIN joining' = Purchases
  BY <1>1 DEF MembershipInv, CyclesSound
<1> HIDE DEF call
<1> QED
  BY <1>1, <1>3, <1>4, <1>5, MemberGoesOn

LEMMA AttachReadsKeeps ==
  ASSUME MembershipInv, NEW m \in Members, NEW p \in Purchases, AttachReads(m, p)
  PROVE  MembershipInv'
<1> DEFINE c == joining[p].cycle
<1>1. joining[p].step = "credited" /\ UNCHANGED <<cycles, granted, joining>>
  BY DEF AttachReads
<1>2. c \in granted /\ c \in 1..Len(cycles)
  BY <1>1 DEF MembershipInv, JoinSound
<1>3. Starts(m, <<"returned", p, "done", c>>) \/ Starts(m, <<"attaching", p, c>>)
  BY DEF AttachReads
<1> HIDE DEF c
<1>4. /\ MemberCallSound(<<"returned", p, "done", c>>, cycles, granted)
      /\ MemberCallSound(<<"attaching", p, c>>, cycles, granted)
  BY <1>2 DEF MemberCallSound
<1> QED
  BY <1>1, <1>3, <1>4, StartsCall

LEMMA AttachingKeeps ==
  ASSUME MembershipInv, NEW m \in Members, AttachPointsGrant(m)
  PROVE  MembershipInv'
<1> DEFINE p == at[m][2]
           c == at[m][3]
           call == <<"returned", p, "done", c>>
<1>1. /\ at[m] # NotIn /\ at[m][1] = "attaching"
      /\ cycles' = [cycles EXCEPT ![c].state = "activated"]
      /\ at' = [at EXCEPT ![m] = call] /\ UNCHANGED <<granted, joining>>
  BY DEF AttachPointsGrant
<1>2. p \in Purchases /\ c \in granted
  BY <1>1 DEF MembershipInv, MemberCallSound, NotIn
<1>3. /\ cycles \in Seq(CycleRows) /\ granted \subseteq 1..Len(cycles) /\ Len(cycles) \in Nat
      /\ \A i, j \in 1..Len(cycles) : cycles[i].key = cycles[j].key => i = j
      /\ \A i \in 1..Len(cycles) : cycles[i].state = "activated" => i \in granted
  BY DEF MembershipInv, CyclesSound
<1> HIDE DEF p, c
<1> DEFINE rec == [cycles[c] EXCEPT !.state = "activated"]
<1>4. c \in 1..Len(cycles) /\ cycles[c] \in CycleRows
  BY <1>2, <1>3
<1>5. rec \in CycleRows /\ rec.key = cycles[c].key
  BY <1>4 DEF CycleRows
<1>6. cycles' = [cycles EXCEPT ![c] = rec]
  BY <1>1
<1> HIDE DEF rec
<1>7. /\ cycles' \in Seq(CycleRows) /\ Len(cycles') = Len(cycles) /\ cycles'[c] = rec
      /\ \A i \in 1..Len(cycles) : i # c => cycles'[i] = cycles[i]
  BY <1>3, <1>4, <1>5, <1>6
<1>8. CyclesSound(cycles', granted')
  <2>1. \A i \in 1..Len(cycles) : cycles'[i].key = cycles[i].key
    BY <1>5, <1>7
  <2>2. \A i \in 1..Len(cycles) : cycles'[i].state = "activated" => i \in granted
    BY <1>2, <1>3, <1>7
  <2> QED
    BY <1>1, <1>3, <1>7, <2>1, <2>2 DEF CyclesSound
<1>9. MemberCallSound(call, cycles', granted')
  BY <1>1, <1>2, <1>4, <1>7 DEF MemberCallSound
<1>10. Len(cycles) <= Len(cycles') /\ granted \subseteq granted' /\ DOMAIN joining' = Purchases
  BY <1>1, <1>3, <1>7 DEF MembershipInv
<1> HIDE DEF call
<1> QED
  BY <1>1, <1>8, <1>9, <1>10, MemberGoesOn

LEMMA RecordJoiningKeeps ==
  ASSUME MembershipInv, NEW m \in Members, RecordJoining(m)
  PROVE  MembershipInv'
<1> DEFINE p == at[m][2]
           stage == at[m][3]
           c == at[m][4]
           rec == [step |-> stage, cycle |-> c]
<1>1. /\ at[m] # NotIn /\ at[m][1] = "returned" /\ at' = [at EXCEPT ![m] = NotIn]
      /\ UNCHANGED <<cycles, granted>> /\ (Joins(p, stage, c) \/ UNCHANGED joining)
  BY DEF RecordJoining, CommitsStep
<1>2. /\ p \in Purchases /\ stage \in {"prepared", "credited", "done"} /\ c \in 1..Len(cycles)
      /\ (stage # "prepared" => c \in granted)
  BY <1>1 DEF MembershipInv, MemberCallSound, NotIn
<1>3. CyclesSound(cycles', granted') /\ Len(cycles) <= Len(cycles') /\ granted \subseteq granted'
  BY <1>1 DEF MembershipInv, CyclesSound
<1>4. MemberCallSound(NotIn, cycles', granted')
  BY DEF MemberCallSound
<1> HIDE DEF p, stage, c
<1>5. JoinSound(rec, cycles, granted) /\ stage \in JoinSteps
  BY <1>2 DEF JoinSound, JoinRows, JoinSteps
<1>6. /\ DOMAIN joining' = Purchases
      /\ \A q \in Purchases : joining'[q] = joining[q] \/ JoinSound(joining'[q], cycles, granted)
  <2>1. CASE Joins(p, stage, c)
    BY <1>2, <1>5, <2>1, JoinsRow
  <2>2. CASE UNCHANGED joining
    BY <2>2 DEF MembershipInv
  <2> QED
    BY <1>1, <2>1, <2>2
<1>7. \A q \in Purchases : joining'[q] = joining[q] \/ JoinSound(joining'[q], cycles', granted')
  BY <1>1, <1>6
<1> HIDE DEF rec
<1> QED
  BY <1>1, <1>3, <1>4, <1>6, <1>7, MemberGoesOn

\* A process ends its command without a write to what workflows hold.
LEMMA LeavesCall ==
  ASSUME MembershipInv, NEW m \in Members, at' = [at EXCEPT ![m] = NotIn],
         UNCHANGED <<cycles, granted, joining>>
  PROVE  MembershipInv'
<1>1. /\ CyclesSound(cycles', granted') /\ Len(cycles) <= Len(cycles') /\ granted \subseteq granted'
      /\ DOMAIN joining' = Purchases
  BY DEF MembershipInv, CyclesSound
<1>2. MemberCallSound(NotIn, cycles', granted')
  BY DEF MemberCallSound
<1> QED
  BY <1>1, <1>2, MemberGoesOn

LEMMA EndingKeeps ==
  ASSUME MembershipInv, NEW m \in Members,
         \/ EndSubscription(m) \/ GiveUpMembership(m) \/ HydrateLevels(m)
         \/ \E mark \in DOMAIN MayEnd : EndReads(m, mark)
         \/ \E p \in Purchases : TerminateForRefund(m, p)
  PROVE  MembershipInv'
<1>0. UNCHANGED <<cycles, granted, joining>>
  BY DEF EndSubscription, GiveUpMembership, HydrateLevels, EndReads, TerminateForRefund
<1>1. CASE EndSubscription(m) \/ GiveUpMembership(m) \/ HydrateLevels(m)
  BY <1>0, <1>1, LeavesCall DEF EndSubscription, CommitsStep, GiveUpMembership, HydrateLevels
<1>2. ASSUME NEW mark \in DOMAIN MayEnd, EndReads(m, mark) PROVE MembershipInv'
  <2>1. Starts(m, <<"ending", mark>>)
    BY <1>2 DEF EndReads
  <2>2. MemberCallSound(<<"ending", mark>>, cycles, granted)
    BY DEF MemberCallSound
  <2> QED
    BY <1>0, <2>1, <2>2, StartsCall
<1>3. ASSUME NEW p \in Purchases, TerminateForRefund(m, p) PROVE MembershipInv'
  <2> DEFINE c == leaving[p].cycle
  <2>1. Starts(m, <<"ending", "terminated", c>>) \/ UNCHANGED at
    BY <1>3 DEF TerminateForRefund
  <2> HIDE DEF c
  <2>2. MemberCallSound(<<"ending", "terminated", c>>, cycles, granted)
    BY DEF MemberCallSound
  <2>3. CASE UNCHANGED at
    BY <1>0, <2>3 DEF MembershipInv
  <2> QED
    BY <1>0, <2>1, <2>2, <2>3, StartsCall
<1> QED
  BY <1>1, <1>2, <1>3

\* What touches neither cycles nor the workflows that fulfill.
LEMMA MembershipAsides ==
  ASSUME MembershipInv, UNCHANGED <<at, cycles, granted, joining>>
  PROVE  MembershipInv'
BY DEF MembershipInv

LEMMA MembershipStarts ==
  ASSUME MembershipInit
  PROVE  MembershipInv
<1>1. cycles = <<>> /\ granted = {} /\ at = [m \in Members |-> NotIn]
  BY DEF MembershipInit
<1>2. joining = [p \in Purchases |-> [step |-> "none", cycle |-> 0]]
  BY DEF MembershipInit
<1>3. CyclesSound(cycles, granted)
  BY <1>1 DEF CyclesSound
<1>4. \A m \in Members : MemberCallSound(at[m], cycles, granted)
  BY <1>1 DEF MemberCallSound
<1>5. \A p \in Purchases : JoinSound(joining[p], cycles, granted)
  BY <1>2 DEF JoinSound, JoinRows, JoinSteps
<1> QED
  BY <1>1, <1>2, <1>3, <1>4, <1>5 DEF MembershipInv

LEMMA MembershipStep ==
  ASSUME MembershipInv, [MembershipNext]_membershipVars
  PROVE  MembershipInv'
<1>1. ASSUME NEW p \in Purchases, StartJoining(p) \/ JoiningFails(p) PROVE MembershipInv'
  BY <1>1, JoiningStepsKeep
<1>2. ASSUME NEW p \in Purchases, ResolveMembershipRefund(p) \/ ReverseGrant(p)
      PROVE  MembershipInv'
  BY <1>2, MembershipAsides DEF ResolveMembershipRefund, ReverseGrant
<1>3. ASSUME NEW p \in Purchases, NEW m \in Members,
             PrepareReads(m, p) \/ CreditCycle(m, p) \/ AttachReads(m, p)
      PROVE  MembershipInv'
  BY <1>3, PrepareReadsKeeps, CreditCycleKeeps, AttachReadsKeeps
<1>4. ASSUME NEW m \in Members,
             PrepareSubscriptionCycle(m) \/ AttachPointsGrant(m) \/ RecordJoining(m)
      PROVE  MembershipInv'
  BY <1>4, PreparingKeeps, AttachingKeeps, RecordJoiningKeeps
<1>5. ASSUME NEW m \in Members,
             \/ EndSubscription(m) \/ GiveUpMembership(m) \/ HydrateLevels(m)
             \/ \E mark \in DOMAIN MayEnd : EndReads(m, mark)
             \/ \E p \in Purchases : TerminateForRefund(m, p)
      PROVE  MembershipInv'
  BY <1>5, EndingKeeps
<1>6. ASSUME NEW m \in Members, NEW mark \in LevelStates, SetLevelStatus(m, mark)
      PROVE  MembershipInv'
  BY <1>6, MembershipAsides DEF SetLevelStatus
<1>7. CASE MemberTimePasses \/ UNCHANGED membershipVars
  BY <1>7, MembershipAsides DEF MemberTimePasses, membershipVars
<1> QED
  BY <1>1, <1>2, <1>3, <1>4, <1>5, <1>6, <1>7 DEF MembershipNext

LEMMA OneCycleOfInv ==
  ASSUME MembershipInv
  PROVE  OneCyclePerPurchase
<1>1. ASSUME NEW p \in Purchases PROVE Cardinality(CyclesOf(p)) <= 1
  <2>1. \A c, d \in CyclesOf(p) : c = d
    BY DEF MembershipInv, CyclesSound, CyclesOf
  <2>2. CyclesOf(p) = {} \/ \E c : CyclesOf(p) = {c}
    BY <2>1
  <2>3. CASE CyclesOf(p) = {}
    BY <2>3, FS_EmptySet
  <2>4. ASSUME NEW c, CyclesOf(p) = {c} PROVE Cardinality(CyclesOf(p)) <= 1
    <3>1. Cardinality({c}) = 1
      BY FS_Singleton
    <3> QED
      BY <2>4, <3>1
  <2> QED
    BY <2>2, <2>3, <2>4
<1> QED
  BY <1>1 DEF OneCyclePerPurchase, MembershipInv, CyclesSound

\* A purchase buys one cycle, whose points are credited before it is
\* activated, whatever workers run its activities, however often, and however
\* the administration of levels and subscriptions goes on beside them.
THEOREM PurchasesBuyOneCycle ==
  MembershipSpec => []OneCyclePerPurchase
<1>1. MembershipInv /\ [MembershipNext]_membershipVars => MembershipInv'
  BY MembershipStep
<1> QED
  BY <1>1, MembershipStarts, OneCycleOfInv, PTL DEF MembershipSpec

-----------------------------------------------------------------------------
(* Gift cards: of the redemptions of one source at most one is not         *)
(* cancelled, and what is cancelled failed before it granted anything.     *)

GiftRows == [source : Sources, key : GiftKeys, until : Nat,
             status : {"reserved", "committed", "cancelled"}]

\* The command at a desk, given the workflows steps and the grants done.
DeskSound(call, steps, done) ==
    \/ call = <<>>
    \/ \E c : call = <<"revoking", c>>
    \/ \E i \in done : call = <<"committing", i>>
    \/ \E i \in 1..Len(steps) : call = <<"cancelling", i>> /\ steps[i] = "failed" /\ i \notin done

RedemptionsSound(rows, steps, done) ==
    /\ rows \in Seq(GiftRows) /\ steps \in Seq(GiftSteps) /\ Len(steps) = Len(rows)
    /\ done \subseteq 1..Len(rows)
    /\ \A i \in 1..Len(rows) : rows[i].status = "cancelled" => steps[i] = "failed" /\ i \notin done
    /\ \A i \in 1..Len(rows) : steps[i] = "credited" => i \in done
    /\ \A i, j \in 1..Len(rows) :
          rows[i].source = rows[j].source /\ rows[i].status # "cancelled" /\ rows[j].status # "cancelled"
             => i = j

GiftCardsInv ==
    /\ giftNow \in Nat
    /\ RedemptionsSound(redemptions, redeeming, fulfilled)
    /\ DOMAIN desk = Desks /\ \A d \in Desks : DeskSound(desk[d], redeeming, fulfilled)

LEMMA GiftCardsStart ==
  ASSUME GiftCardsInit
  PROVE  GiftCardsInv
<1>1. RedemptionsSound(redemptions, redeeming, fulfilled)
  BY DEF GiftCardsInit, RedemptionsSound
<1> QED
  BY <1>1 DEF GiftCardsInit, GiftCardsInv, DeskSound

\* Where redemptions stay, a desk opens a sound command or closes its own.
LEMMA DesksMove ==
  ASSUME GiftCardsInv, giftNow' \in Nat, UNCHANGED <<redemptions, redeeming, fulfilled>>,
         \/ UNCHANGED desk
         \/ \E d \in Desks : \E call :
               desk' = [desk EXCEPT ![d] = call] /\ DeskSound(call, redeeming, fulfilled)
  PROVE  GiftCardsInv'
<1>1. CASE UNCHANGED desk
  BY <1>1 DEF GiftCardsInv
<1>2. ASSUME NEW d \in Desks, NEW call, desk' = [desk EXCEPT ![d] = call],
             DeskSound(call, redeeming, fulfilled)
      PROVE  GiftCardsInv'
  <2>1. DOMAIN desk' = Desks /\ desk'[d] = call /\ \A o \in Desks \ {d} : desk'[o] = desk[o]
    BY <1>2 DEF GiftCardsInv
  <2> QED
    BY <1>2, <2>1 DEF GiftCardsInv
<1> QED
  BY <1>1, <1>2

LEMMA GiftDesksKeep ==
  ASSUME GiftCardsInv, CancelsAny = FALSE, NEW d \in Desks,
         \/ \E c \in Cards : RevokeReads(d, c)
         \/ \E i \in RedemptionIds : CommitReads(d, i) \/ CancelGiftReads(d, i)
         \/ RevokeGiftCard(d) \/ GiveUpGift(d)
  PROVE  GiftCardsInv'
<1>1. UNCHANGED <<redemptions, redeeming, fulfilled>> /\ giftNow' \in Nat
  BY DEF RevokeReads, CommitReads, CancelGiftReads, RevokeGiftCard, GiveUpGift, GiftCardsInv
<1>2. DeskSound(<<>>, redeeming, fulfilled)
  BY DEF DeskSound
<1>3. ASSUME NEW c \in Cards, RevokeReads(d, c) PROVE GiftCardsInv'
  <2>1. desk' = [desk EXCEPT ![d] = <<"revoking", c>>]
    BY <1>3 DEF RevokeReads, Opens
  <2>2. DeskSound(<<"revoking", c>>, redeeming, fulfilled)
    BY DEF DeskSound
  <2> QED
    BY <1>1, <2>1, <2>2, DesksMove
<1>4. ASSUME NEW i \in RedemptionIds, CommitReads(d, i) PROVE GiftCardsInv'
  <2>1. desk' = [desk EXCEPT ![d] = <<"committing", i>>] /\ redeeming[i] = "credited"
    BY <1>4 DEF CommitReads, Opens
  <2>2. i \in fulfilled
    BY <2>1 DEF GiftCardsInv, RedemptionsSound, RedemptionIds
  <2>3. DeskSound(<<"committing", i>>, redeeming, fulfilled)
    BY <2>2 DEF DeskSound
  <2> QED
    BY <1>1, <2>1, <2>3, DesksMove
<1>5. ASSUME NEW i \in RedemptionIds, CancelGiftReads(d, i) PROVE GiftCardsInv'
  <2>1. /\ desk' = [desk EXCEPT ![d] = <<"cancelling", i>>]
        /\ redeeming[i] = "failed" /\ i \notin fulfilled
    BY <1>5 DEF CancelGiftReads, Opens
  <2>2. i \in 1..Len(redeeming)
    BY DEF GiftCardsInv, RedemptionsSound, RedemptionIds
  <2>3. DeskSound(<<"cancelling", i>>, redeeming, fulfilled)
    BY <2>1, <2>2 DEF DeskSound
  <2> QED
    BY <1>1, <2>1, <2>3, DesksMove
<1>6. CASE RevokeGiftCard(d) \/ GiveUpGift(d)
  <2>1. desk' = [desk EXCEPT ![d] = <<>>]
    BY <1>6 DEF RevokeGiftCard, Closes, GiveUpGift
  <2> QED
    BY <1>1, <1>2, <2>1, DesksMove
<1> QED
  BY <1>3, <1>4, <1>5, <1>6

\* A new redemption, of a source none of whose redemptions is alive.
LEMMA ReservesKeeps ==
  ASSUME GiftCardsInv, NEW k \in GiftKeys, NEW src \in Sources, Reserves(k, src),
         UNCHANGED <<fulfilled, desk, giftNow>>
  PROVE  GiftCardsInv'
<1> DEFINE fresh == [source |-> src, key |-> k, status |-> "reserved", until |-> giftNow + ReserveTtl]
           n == Len(redemptions)
<1>1. /\ redemptions' = Append(redemptions, fresh) /\ redeeming' = Append(redeeming, "none")
      /\ \A i \in 1..n : redemptions[i].source = src => redemptions[i].status = "cancelled"
  BY DEF Reserves, SourceIsFree, RedemptionIds
<1>2. fresh \in GiftRows /\ fresh.status = "reserved" /\ fresh.source = src
  BY GiftCardsAssumption DEF GiftRows, GiftCardsInv
<1>3. /\ redemptions \in Seq(GiftRows) /\ redeeming \in Seq(GiftSteps) /\ Len(redeeming) = n
      /\ fulfilled \subseteq 1..n /\ n \in Nat /\ "none" \in GiftSteps
  BY DEF GiftCardsInv, RedemptionsSound, GiftSteps
<1> HIDE DEF fresh
<1>4. /\ redemptions' \in Seq(GiftRows) /\ Len(redemptions') = n + 1 /\ redemptions'[n + 1] = fresh
      /\ \A i \in 1..n : redemptions'[i] = redemptions[i]
  BY <1>1, <1>2, <1>3
<1>5. /\ redeeming' \in Seq(GiftSteps) /\ Len(redeeming') = n + 1 /\ redeeming'[n + 1] = "none"
      /\ \A i \in 1..n : redeeming'[i] = redeeming[i]
  BY <1>1, <1>3
<1> HIDE DEF n
<1>6. \A i \in 1..(n + 1) : i = n + 1 \/ i \in 1..n
  BY <1>3
<1>7. n + 1 \notin fulfilled /\ 1..n \subseteq 1..(n + 1)
  BY <1>3
<1>8. /\ \A i \in 1..n : redemptions[i].status = "cancelled" => redeeming[i] = "failed" /\ i \notin fulfilled
      /\ \A i \in 1..n : redeeming[i] = "credited" => i \in fulfilled
      /\ \A i, j \in 1..n :
            redemptions[i].source = redemptions[j].source /\ redemptions[i].status # "cancelled"
              /\ redemptions[j].status # "cancelled" => i = j
  BY DEF GiftCardsInv, RedemptionsSound, n
<1>9. RedemptionsSound(redemptions', redeeming', fulfilled')
  <2>1. \A i \in 1..(n + 1) : redemptions'[i].status = "cancelled" => redeeming'[i] = "failed" /\ i \notin fulfilled'
    BY <1>2, <1>4, <1>5, <1>6, <1>8
  <2>2. \A i \in 1..(n + 1) : redeeming'[i] = "credited" => i \in fulfilled'
    BY <1>4, <1>5, <1>6, <1>8
  <2>3. \A i, j \in 1..(n + 1) :
           redemptions'[i].source = redemptions'[j].source /\ redemptions'[i].status # "cancelled"
             /\ redemptions'[j].status # "cancelled" => i = j
    BY <1>1, <1>2, <1>4, <1>6, <1>8
  <2> QED
    BY <1>3, <1>4, <1>5, <1>7, <2>1, <2>2, <2>3 DEF RedemptionsSound
<1>10. ASSUME NEW d \in Desks PROVE DeskSound(desk'[d], redeeming', fulfilled')
  BY <1>3, <1>5, <1>7 DEF DeskSound, GiftCardsInv
<1> QED
  BY <1>9, <1>10 DEF GiftCardsInv

LEMMA ReserveKeeps ==
  ASSUME GiftCardsInv, NEW k \in GiftKeys,
         (\E c \in Cards : ReserveCard(k, c)) \/ (\E c \in Claims : ReserveClaim(k, c))
  PROVE  GiftCardsInv'
<1>1. ASSUME NEW c \in Cards, ReserveCard(k, c) PROVE GiftCardsInv'
  BY <1>1, ReservesKeeps DEF ReserveCard, Sources
<1>2. ASSUME NEW c \in Claims, ReserveClaim(k, c) PROVE GiftCardsInv'
  BY <1>2, ReservesKeeps DEF ReserveClaim, Sources
<1> QED
  BY <1>1, <1>2

\* One row takes a status.
MarkedAs(rows, i, mark) == [rows EXCEPT ![i].status = mark]

OneMarked(new, rows, i, mark) ==
    /\ new \in Seq(GiftRows) /\ Len(new) = Len(rows)
    /\ new[i].status = mark /\ new[i].source = rows[i].source
    /\ \A j \in 1..Len(rows) : j # i => new[j] = rows[j]

LEMMA RowMarked ==
  ASSUME NEW rows \in Seq(GiftRows), NEW i \in 1..Len(rows), NEW mark \in {"committed", "cancelled"},
         NEW new, new = MarkedAs(rows, i, mark)
  PROVE  OneMarked(new, rows, i, mark)
<1> DEFINE left == [rows[i] EXCEPT !.status = mark]
<1>1. rows[i] \in GiftRows
  OBVIOUS
<1>2. left \in GiftRows /\ left.status = mark /\ left.source = rows[i].source
  BY <1>1 DEF GiftRows
<1>3. new = [rows EXCEPT ![i] = left]
  BY DEF MarkedAs
<1> HIDE DEF left
<1>4. rows \in [1..Len(rows) -> GiftRows] /\ Len(rows) \in Nat
  OBVIOUS
<1>5. /\ new \in [1..Len(rows) -> GiftRows] /\ new[i] = left
      /\ \A j \in 1..Len(rows) : j # i => new[j] = rows[j]
  BY <1>2, <1>3, <1>4
<1>6. new \in Seq(GiftRows) /\ Len(new) = Len(rows)
  BY <1>4, <1>5, MappedSequence, Zenon
<1> QED
  BY <1>2, <1>5, <1>6, Zenon DEF OneMarked

LEMMA StatusWritten ==
  ASSUME GiftCardsInv, NEW d \in Desks, NEW i \in 1..Len(redemptions),
         NEW mark \in {"committed", "cancelled"},
         redemptions' = MarkedAs(redemptions, i, mark),
         mark = "committed" => redemptions[i].status # "cancelled",
         mark = "cancelled" => redeeming[i] = "failed" /\ i \notin fulfilled,
         desk' = [desk EXCEPT ![d] = <<>>], UNCHANGED <<redeeming, fulfilled, giftNow>>
  PROVE  GiftCardsInv'
<1> DEFINE n == Len(redemptions)
<1>1. /\ redemptions \in Seq(GiftRows) /\ redeeming \in Seq(GiftSteps) /\ Len(redeeming) = n
      /\ fulfilled \subseteq 1..n /\ n \in Nat
  BY DEF GiftCardsInv, RedemptionsSound
<1>5. /\ redemptions' \in Seq(GiftRows) /\ Len(redemptions') = n
      /\ redemptions'[i].status = mark /\ redemptions'[i].source = redemptions[i].source
      /\ \A j \in 1..n : j # i => redemptions'[j] = redemptions[j]
  <2>1. redemptions \in Seq(GiftRows)
    BY <1>1
  <2>2. OneMarked(redemptions', redemptions, i, mark)
    BY <2>1, RowMarked
  <2> QED
    BY <2>2 DEF OneMarked
<1> HIDE DEF n
<1>6. /\ \A j \in 1..n : redemptions[j].status = "cancelled" => redeeming[j] = "failed" /\ j \notin fulfilled
      /\ \A j \in 1..n : redeeming[j] = "credited" => j \in fulfilled
      /\ \A j, k \in 1..n :
            redemptions[j].source = redemptions[k].source /\ redemptions[j].status # "cancelled"
              /\ redemptions[k].status # "cancelled" => j = k
  BY DEF GiftCardsInv, RedemptionsSound, n
<1>7. \A j \in 1..n : /\ redemptions'[j].source = redemptions[j].source
                      /\ redemptions'[j].status # "cancelled" => redemptions[j].status # "cancelled"
  BY <1>5
<1>8. RedemptionsSound(redemptions', redeeming', fulfilled')
  <2>1. \A j \in 1..n : redemptions'[j].status = "cancelled" => redeeming'[j] = "failed" /\ j \notin fulfilled'
    BY <1>5, <1>6
  <2>2. \A j, k \in 1..n :
           redemptions'[j].source = redemptions'[k].source /\ redemptions'[j].status # "cancelled"
             /\ redemptions'[k].status # "cancelled" => j = k
    BY <1>6, <1>7
  <2> QED
    BY <1>1, <1>5, <1>6, <2>1, <2>2 DEF RedemptionsSound
<1>9. DOMAIN desk' = Desks /\ desk'[d] = <<>> /\ \A o \in Desks \ {d} : desk'[o] = desk[o]
  BY DEF GiftCardsInv
<1>10. ASSUME NEW o \in Desks PROVE DeskSound(desk'[o], redeeming', fulfilled')
  <2>1. DeskSound(desk[o], redeeming, fulfilled)
    BY DEF GiftCardsInv
  <2>2. DeskSound(<<>>, redeeming, fulfilled)
    BY DEF DeskSound
  <2>3. desk'[o] = <<>> \/ desk'[o] = desk[o]
    BY <1>9, Zenon
  <2>4. redeeming' = redeeming /\ fulfilled' = fulfilled
    OBVIOUS
  <2> QED
    BY <2>1, <2>2, <2>3, <2>4, Zenon
<1> QED
  BY <1>8, <1>9, <1>10 DEF GiftCardsInv

LEMMA GiftDesksWrite ==
  ASSUME GiftCardsInv, NEW d \in Desks,
         CommitGiftCardRedemption(d) \/ CancelGiftCardRedemption(d)
  PROVE  GiftCardsInv'
<1> DEFINE i == desk[d][2]
<1>0. DeskSound(desk[d], redeeming, fulfilled) /\ desk[d] # <<>>
  BY DEF GiftCardsInv, CommitGiftCardRedemption, CancelGiftCardRedemption, Closes, Free
<1>1. CASE CommitGiftCardRedemption(d)
  <2>1. /\ desk[d][1] = "committing" /\ desk' = [desk EXCEPT ![d] = <<>>]
        /\ redemptions' = MarkedAs(redemptions, i, "committed")
        /\ UNCHANGED <<redeeming, fulfilled, giftNow>>
    BY <1>1 DEF CommitGiftCardRedemption, Closes, MarkedAs
  <2>2. i \in fulfilled
    BY <1>0, <2>1 DEF DeskSound
  <2>3. i \in 1..Len(redemptions) /\ redemptions[i].status # "cancelled"
    BY <2>2 DEF GiftCardsInv, RedemptionsSound
  <2> HIDE DEF i
  <2> QED
    BY <2>1, <2>3, StatusWritten, Zenon
<1>2. CASE CancelGiftCardRedemption(d)
  <2>1. /\ desk[d][1] = "cancelling" /\ desk' = [desk EXCEPT ![d] = <<>>]
        /\ redemptions' = MarkedAs(redemptions, i, "cancelled")
        /\ UNCHANGED <<redeeming, fulfilled, giftNow>>
    BY <1>2 DEF CancelGiftCardRedemption, Closes, MarkedAs
  <2>2. i \in 1..Len(redeeming) /\ redeeming[i] = "failed" /\ i \notin fulfilled
    BY <1>0, <2>1 DEF DeskSound
  <2>3. i \in 1..Len(redemptions)
    BY <2>2 DEF GiftCardsInv, RedemptionsSound
  <2> HIDE DEF i
  <2> QED
    BY <2>1, <2>2, <2>3, StatusWritten
<1> QED
  BY <1>1, <1>2

\* One workflow steps on from a state that is not failed.
LEMMA RedeemingMoves ==
  ASSUME GiftCardsInv, NEW i \in 1..Len(redemptions), NEW to \in GiftSteps,
         redeeming' = [redeeming EXCEPT ![i] = to], redeeming[i] # "failed",
         to = "credited" => i \in fulfilled, UNCHANGED <<redemptions, fulfilled, desk, giftNow>>
  PROVE  GiftCardsInv'
<1> DEFINE n == Len(redemptions)
<1>1. /\ redemptions \in Seq(GiftRows) /\ redeeming \in Seq(GiftSteps) /\ Len(redeeming) = n
      /\ fulfilled \subseteq 1..n /\ n \in Nat
  BY DEF GiftCardsInv, RedemptionsSound
<1>2. /\ redeeming' \in Seq(GiftSteps) /\ Len(redeeming') = n /\ redeeming'[i] = to
      /\ \A j \in 1..n : j # i => redeeming'[j] = redeeming[j]
  BY <1>1
<1>3. \A j \in 1..n : redeeming[j] = "failed" => redeeming'[j] = "failed"
  BY <1>2
<1>4. \A j \in 1..n : redeeming'[j] = "credited" => j \in fulfilled
  BY <1>2 DEF GiftCardsInv, RedemptionsSound
<1>5. RedemptionsSound(redemptions', redeeming', fulfilled')
  BY <1>1, <1>2, <1>3, <1>4 DEF RedemptionsSound, GiftCardsInv
<1>6. ASSUME NEW d \in Desks PROVE DeskSound(desk'[d], redeeming', fulfilled')
  BY <1>1, <1>2, <1>3 DEF DeskSound, GiftCardsInv
<1> QED
  BY <1>5, <1>6 DEF GiftCardsInv

LEMMA RedeemingKeeps ==
  ASSUME GiftCardsInv, NEW i \in RedemptionIds,
         StartRedeeming(i) \/ ValidateRedemption(i) \/ RecordRedeeming(i) \/ RedeemingFails(i)
  PROVE  GiftCardsInv'
<1>1. i \in 1..Len(redemptions) /\ UNCHANGED <<redemptions, fulfilled, desk, giftNow>>
  BY DEF RedemptionIds, StartRedeeming, ValidateRedemption, RecordRedeeming, RedeemingFails, Redeems
<1>2. PICK to \in GiftSteps : /\ redeeming' = [redeeming EXCEPT ![i] = to] /\ redeeming[i] # "failed"
                              /\ to = "credited" => i \in fulfilled
  BY DEF StartRedeeming, ValidateRedemption, RecordRedeeming, RedeemingFails, Redeems, GiftSteps
<1> QED
  BY <1>1, <1>2, RedeemingMoves

LEMMA FulfillingKeeps ==
  ASSUME GiftCardsInv, NEW i \in RedemptionIds, FulfillRedemption(i)
  PROVE  GiftCardsInv'
<1>1. /\ redeeming[i] = "validated" /\ fulfilled' = fulfilled \union {i} /\ i \in 1..Len(redemptions)
      /\ UNCHANGED <<redemptions, redeeming, desk, giftNow>>
  BY DEF FulfillRedemption, RedemptionIds
<1>2. RedemptionsSound(redemptions', redeeming', fulfilled')
  BY <1>1 DEF GiftCardsInv, RedemptionsSound
<1>3. ASSUME NEW d \in Desks PROVE DeskSound(desk'[d], redeeming', fulfilled')
  BY <1>1 DEF DeskSound, GiftCardsInv
<1> QED
  BY <1>1, <1>2, <1>3 DEF GiftCardsInv

LEMMA GiftCardsStep ==
  ASSUME GiftCardsInv, CancelsAny = FALSE, [GiftCardsNext]_giftCardsVars
  PROVE  GiftCardsInv'
<1>1. CASE GenerateGiftCardBatch \/ CloseGiftCardBatch \/ GiftTimePasses
           \/ \E c \in Claims : RecordProviderPurchase(c)
  BY <1>1, DesksMove DEF GenerateGiftCardBatch, CloseGiftCardBatch, GiftTimePasses,
     RecordProviderPurchase, GiftCardsInv
<1>2. ASSUME NEW k \in GiftKeys,
             (\E c \in Cards : ReserveCard(k, c)) \/ (\E c \in Claims : ReserveClaim(k, c))
      PROVE  GiftCardsInv'
  BY <1>2, ReserveKeeps
<1>3. ASSUME NEW i \in RedemptionIds,
             \/ StartRedeeming(i) \/ ValidateRedemption(i) \/ FulfillRedemption(i)
             \/ RecordRedeeming(i) \/ RedeemingFails(i)
      PROVE  GiftCardsInv'
  BY <1>3, RedeemingKeeps, FulfillingKeeps
<1>4. ASSUME NEW d \in Desks,
             \/ \E c \in Cards : RevokeReads(d, c)
             \/ \E i \in RedemptionIds : CommitReads(d, i) \/ CancelGiftReads(d, i)
             \/ RevokeGiftCard(d) \/ GiveUpGift(d)
      PROVE  GiftCardsInv'
  BY <1>4, GiftDesksKeep
<1>5. ASSUME NEW d \in Desks, CommitGiftCardRedemption(d) \/ CancelGiftCardRedemption(d)
      PROVE  GiftCardsInv'
  BY <1>5, GiftDesksWrite
<1>6. CASE UNCHANGED giftCardsVars
  BY <1>6, DesksMove DEF giftCardsVars, GiftCardsInv
<1> QED
  BY <1>1, <1>2, <1>3, <1>4, <1>5, <1>6 DEF GiftCardsNext

LEMMA GrantedOnceOfInv ==
  ASSUME GiftCardsInv
  PROVE  GrantedOncePerSource
BY DEF GiftCardsInv, RedemptionsSound, GrantedOncePerSource

\* While staff cancel a redemption only when its workflow failed with nothing
\* granted, a card or an outside purchase grants its benefit once.
THEOREM SourcesGrantOnce ==
  ASSUME CancelsAny = FALSE
  PROVE  GiftCardsSpec => []GrantedOncePerSource
<1>1. GiftCardsInv /\ [GiftCardsNext]_giftCardsVars => GiftCardsInv'
  BY GiftCardsStep
<1> QED
  BY <1>1, GiftCardsStart, GrantedOnceOfInv, PTL DEF GiftCardsSpec

-----------------------------------------------------------------------------
(* Consumption: an actor that advances the workflow alone finds every step  *)
(* it has executed behind it, so that the effects of an activity are those  *)
(* of the steps the row has passed.                                         *)

\* One loop, or one request without the loops, and a port that is never unavailable.
Alone(r) == Advancers = {r} /\ ~ProviderFails

InAStep == {"look", "replay", "exhausted", "run", "wait"}

\* What the actor holds of the row is the row.
RowIsRead(r) ==
    /\ DOMAIN pc = Actors /\ DOMAIN snap = Actors /\ DOMAIN doing = Advancers
    /\ step \in Nat
    /\ \A e \in executed : e[1] \in Nat /\ e[1] < step
    /\ pc[r] \in InAStep => snap[r].step = step
    /\ pc[r] # "replay"

\* The effects of each step, and those of the handler that is at work.
EffectsFitStep(r) ==
    /\ step <= 2 => grant = "none" /\ reversals = 0
    /\ step = 2 /\ Running(r) /\ doing[r] = "done" => debits = 1
    /\ step >= 3 => debits = 1
    /\ step = 3 => reversals = 0
    /\ step = 3 /\ Running(r) /\ doing[r] = "done" => grant = "active"
    /\ step = 3 /\ Running(r) /\ doing[r] = "refused" => grant # "active"
    /\ step >= 4 => fulfillment = "fulfilled" \/ grant # "active"
    /\ step >= 4 /\ reversals # 0 => fulfillment = "terminal_failure"

ConsumptionInv(r) ==
    /\ debits \in {0, 1} /\ reversals \in {0, 1}
    /\ RowIsRead(r) /\ EffectsFitStep(r)

\* Where nobody works on a step, or goes on where it was.
LEMMA RowUntouched ==
  ASSUME NEW r, Alone(r), ConsumptionInv(r),
         UNCHANGED <<step, executed, effects>>,
         DOMAIN pc' = Actors, DOMAIN snap' = Actors, DOMAIN doing' = Advancers,
         \/ pc'[r] \in {"idle", "insert", "load"}
         \/ /\ pc'[r] \in {"complete", "exhausted", "look", "run"}
            /\ snap'[r].step = step /\ doing'[r] = "start"
         \/ pc'[r] = pc[r] /\ snap'[r] = snap[r] /\ doing'[r] = doing[r]
  PROVE  ConsumptionInv(r)'
<1>1. RowIsRead(r)'
  BY DEF ConsumptionInv, RowIsRead, InAStep
<1>2. Running(r)' => doing'[r] = "start" \/ (Running(r) /\ doing'[r] = doing[r])
  BY DEF Running
<1>3. EffectsFitStep(r)'
  BY <1>2 DEF ConsumptionInv, EffectsFitStep, effects
<1> QED
  BY <1>1, <1>3 DEF ConsumptionInv, effects

\* Requests, claims, time, and actors that die.
LEMMA BesideTheHandler ==
  ASSUME NEW r, Alone(r), ConsumptionInv(r),
         \/ \E c \in Callers \cup Starters : Request(c)
         \/ \E q \in Runners : Claim(q)
         \/ \E a \in Advancers : Abandon(a)
         \/ Wait \/ ItemUnavailable \/ UNCHANGED consumptionVars
  PROVE  ConsumptionInv(r)' /\ UNCHANGED Seen
<1>0. r \in Actors /\ Advancers = {r} /\ DOMAIN pc = Actors /\ DOMAIN snap = Actors
  BY DEF Alone, Actors, ConsumptionInv, RowIsRead
<1>1. UNCHANGED <<step, executed, debits, reversals, grant, fulfillment>>
  BY DEF Request, Claim, Abandon, Wait, ItemUnavailable, consumptionVars, Start, Insert, Crash,
         ClaimDue, LeaseExpires, RetryDue, vars, row, attempts, effects
<1>2. \/ UNCHANGED <<pc, snap, doing>>
      \/ \E a \in Actors, p \in {"idle", "insert", "load"} :
            (Leave(a, p) \/ GoTo(a, p)) /\ DOMAIN doing' = Advancers /\ (a # r => doing' = doing)
  <2>1. CASE \E c \in Callers \cup Starters : Request(c)
    BY <2>1 DEF Request, Start, Started, Insert, Crash, Actors, Advancers, ConsumptionInv, RowIsRead
  <2>2. CASE \E q \in Runners : Claim(q)
    BY <2>2 DEF Claim, ClaimDue, Actors, Advancers, ConsumptionInv, RowIsRead
  <2>3. CASE \E a \in Advancers : Abandon(a)
    BY <1>0, <2>3 DEF Abandon, Crash, Becomes, ConsumptionInv, RowIsRead
  <2>4. CASE Wait \/ ItemUnavailable \/ UNCHANGED consumptionVars
    BY <2>4 DEF Wait, LeaseExpires, RetryDue, ItemUnavailable, consumptionVars, vars, actors
  <2> QED
    BY <2>1, <2>2, <2>3, <2>4
<1>3. /\ DOMAIN pc' = Actors /\ DOMAIN snap' = Actors /\ DOMAIN doing' = Advancers
      /\ \/ pc'[r] \in {"idle", "insert", "load"}
         \/ pc'[r] = pc[r] /\ snap'[r] = snap[r] /\ doing'[r] = doing[r]
  <2>1. CASE UNCHANGED <<pc, snap, doing>>
    BY <2>1 DEF ConsumptionInv, RowIsRead
  <2>2. ASSUME NEW a \in Actors, NEW p \in {"idle", "insert", "load"}, Leave(a, p) \/ GoTo(a, p),
               DOMAIN doing' = Advancers, a # r => doing' = doing
        PROVE  /\ DOMAIN pc' = Actors /\ DOMAIN snap' = Actors /\ DOMAIN doing' = Advancers
               /\ \/ pc'[r] \in {"idle", "insert", "load"}
                  \/ pc'[r] = pc[r] /\ snap'[r] = snap[r] /\ doing'[r] = doing[r]
    BY <1>0, <2>2 DEF Leave, GoTo
  <2> QED
    BY <1>2, <2>1, <2>2
<1>4. UNCHANGED Seen
  BY <1>1 DEF Seen
<1>5. RowIsRead(r)'
  BY <1>1, <1>3 DEF ConsumptionInv, RowIsRead, InAStep
<1>6. Running(r)' => Running(r) /\ doing'[r] = doing[r]
  BY <1>3 DEF Running
<1>7. EffectsFitStep(r)'
  BY <1>1, <1>6 DEF ConsumptionInv, EffectsFitStep
<1> QED
  BY <1>1, <1>4, <1>5, <1>7 DEF ConsumptionInv

\* The runner's own steps: none of them finds an attempt that is executed already.
LEMMA RunnerAlone ==
  ASSUME NEW r, Alone(r), ConsumptionInv(r), Bookkeeping(r)
  PROVE  ConsumptionInv(r)' /\ UNCHANGED Seen
<1>0. r \in Actors /\ Advancers = {r} /\ DOMAIN pc = Actors /\ DOMAIN snap = Actors
  BY DEF Alone, Actors, ConsumptionInv, RowIsRead
<1>1. /\ ~Replay(r) /\ UNCHANGED effects
      /\ DOMAIN doing' = Advancers /\ doing'[r] = "start"
  BY <1>0 DEF ConsumptionInv, RowIsRead, Replay, Bookkeeping, Becomes
<1>2. UNCHANGED <<step, executed, effects>>
  BY <1>1 DEF Bookkeeping, Load, Look, Exhausted, Complete, Conflict, row, attempts
<1>3. ASSUME Load(r) PROVE ConsumptionInv(r)'
  <2>1. CASE status \in Terminal
    <3>1. DOMAIN pc' = Actors /\ DOMAIN snap' = Actors /\ pc'[r] = "idle"
      BY <1>0, <1>3, <2>1 DEF Load, Leave
    <3> QED
      BY <1>1, <1>2, <3>1, RowUntouched
  <2>2. CASE status \notin Terminal
    <3>1. /\ DOMAIN pc' = Actors /\ DOMAIN snap' = Actors
          /\ pc'[r] \in {"complete", "look"} /\ snap'[r].step = step
      BY <1>0, <1>3, <2>2 DEF Load, Read
    <3> QED
      BY <1>1, <1>2, <3>1, RowUntouched
  <2> QED
    BY <2>1, <2>2
<1>4. ASSUME Look(r) PROVE ConsumptionInv(r)'
  <2>1. snap[r].step = step
    BY <1>4 DEF Look, ConsumptionInv, RowIsRead, InAStep
  <2>2. \A n : <<step, n>> \notin executed
    <3> SUFFICES ASSUME NEW n, <<step, n>> \in executed PROVE FALSE
      OBVIOUS
    <3>1. step < step /\ step \in Nat
      BY DEF ConsumptionInv, RowIsRead
    <3> QED
      BY <3>1
  <2>3. NextMove(step, LastAttempt(step)) \in {"exhausted", "run"}
    BY <2>2 DEF NextMove
  <2>4. /\ DOMAIN pc' = Actors /\ DOMAIN snap' = Actors /\ snap'[r].step = step
        /\ pc'[r] \in {"exhausted", "run"}
    BY <1>0, <1>4, <2>1, <2>3 DEF Look
  <2> QED
    BY <1>1, <1>2, <2>4, RowUntouched
<1>5. ASSUME Exhausted(r) \/ Complete(r) \/ Conflict(r) PROVE ConsumptionInv(r)'
  <2>1. Leave(r, "idle")
    BY <1>5 DEF Exhausted, Complete, Conflict
  <2>2. DOMAIN pc' = Actors /\ DOMAIN snap' = Actors /\ pc'[r] = "idle"
    BY <1>0, <2>1 DEF Leave
  <2> QED
    BY <1>1, <1>2, <2>2, RowUntouched
<1>6. UNCHANGED Seen
  BY <1>1 DEF Seen, effects
<1> QED
  BY <1>1, <1>3, <1>4, <1>5, <1>6 DEF Bookkeeping

\* What a handler commits before it returns: the row stays as it is.
LEMMA HandlerWrites ==
  ASSUME NEW r, Alone(r), ConsumptionInv(r),
         \/ Debit(r) \/ IssueReads(r) \/ IssueInserts(r) \/ Activate(r) \/ Unavailable(r)
         \/ ReverseDebit(r)
  PROVE  ConsumptionInv(r)' /\ [Abstract!Next]_Seen
<1>0. Advancers = {r} /\ r \in Actors /\ ~Unavailable(r)
  BY DEF Alone, Actors, Unavailable
<1>1. /\ UNCHANGED vars /\ Running(r) /\ snap[r].step = step /\ step \in Nat
      /\ DOMAIN doing' = Advancers /\ fulfillment' = fulfillment
  BY <1>0 DEF Debit, IssueReads, IssueInserts, Activate, ReverseDebit, In, Becomes, effects,
              ConsumptionInv, RowIsRead, Running, InAStep
<1>2. RowIsRead(r)'
  BY <1>1 DEF ConsumptionInv, RowIsRead, vars, row, attempts, actors
<1>3. step' = step /\ Running(r)'
  BY <1>1 DEF vars, row, actors, Running
<1>4. CASE Debit(r)
  <2>1. step = 2 /\ debits' = 1 /\ UNCHANGED <<reversals, grant>>
    BY <1>1, <1>4 DEF Debit, In, DebitStep
  <2>2. EffectsFitStep(r)'
    BY <1>1, <1>3, <2>1 DEF ConsumptionInv, EffectsFitStep
  <2>3. [Abstract!Next]_Seen
    BY <2>1 DEF ConsumptionInv, EffectsFitStep, Seen, Abstract!Next, Abstract!Pay
  <2> QED
    BY <1>2, <2>1, <2>2, <2>3 DEF ConsumptionInv
<1>5. CASE IssueReads(r)
  <2>1. step = 3 /\ UNCHANGED effects /\ (doing'[r] = "refused" => grant = "none")
        /\ doing'[r] # "done"
    BY <1>0, <1>1, <1>5 DEF IssueReads, In, Becomes, ConsumptionInv, RowIsRead, Fulfill
  <2>2. EffectsFitStep(r)'
    BY <1>1, <1>3, <2>1 DEF ConsumptionInv, EffectsFitStep, effects
  <2> QED
    BY <1>2, <2>1, <2>2 DEF ConsumptionInv, effects, Seen
<1>6. CASE IssueInserts(r)
  <2>1. /\ step = 3 /\ UNCHANGED <<debits, reversals>> /\ doing'[r] = "issued"
        /\ grant' = IF grant = "none" THEN "pending" ELSE grant
    BY <1>0, <1>1, <1>6 DEF IssueInserts, In, Becomes, ConsumptionInv, RowIsRead, Fulfill
  <2>2. EffectsFitStep(r)'
    BY <1>1, <1>3, <2>1 DEF ConsumptionInv, EffectsFitStep
  <2>3. UNCHANGED Seen
    BY <2>1 DEF Seen
  <2> QED
    BY <1>2, <2>1, <2>2, <2>3 DEF ConsumptionInv
<1>7. CASE Activate(r)
  <2>1. /\ step = 3 /\ UNCHANGED <<debits, reversals>>
        /\ \/ grant = "active" /\ grant' = "active" /\ doing'[r] = "done"
           \/ grant # "active" /\ grant' = "active" /\ doing'[r] = "done"
           \/ grant # "active" /\ grant' # "active" /\ doing'[r] = "refused"
    BY <1>0, <1>1, <1>7 DEF Activate, In, Becomes, ConsumptionInv, RowIsRead, Fulfill
  <2>2. EffectsFitStep(r)'
    BY <1>1, <1>3, <2>1 DEF ConsumptionInv, EffectsFitStep
  <2>3. [Abstract!Next]_Seen
    BY <2>1 DEF ConsumptionInv, EffectsFitStep, Seen, Abstract!Next, Abstract!Deliver
  <2> QED
    BY <1>2, <2>1, <2>2, <2>3 DEF ConsumptionInv
<1>8. CASE ReverseDebit(r)
  <2>1. /\ step = 4 /\ UNCHANGED <<debits, grant>> /\ reversals' = 1
        /\ fulfillment = "terminal_failure"
    BY <1>1, <1>8 DEF ReverseDebit, In, Compensate, CompensationDue
  <2>2. EffectsFitStep(r)'
    BY <1>1, <1>3, <2>1 DEF ConsumptionInv, EffectsFitStep
  <2>3. [Abstract!Next]_Seen
    BY <2>1 DEF ConsumptionInv, EffectsFitStep, Seen, Abstract!Next, Abstract!Refund
  <2> QED
    BY <1>2, <2>1, <2>2, <2>3 DEF ConsumptionInv
<1> QED
  BY <1>0, <1>4, <1>5, <1>6, <1>7, <1>8

\* The commit of an attempt: what it has written is what its step stands for.
LEMMA HandlerEnds ==
  ASSUME NEW r, Alone(r), ConsumptionInv(r),
         Return(r) \/ \E isPermanent \in BOOLEAN : Raise(r, isPermanent)
  PROVE  ConsumptionInv(r)' /\ UNCHANGED Seen
<1>0. Advancers = {r} /\ r \in Actors /\ DOMAIN pc = Actors /\ DOMAIN snap = Actors
  BY DEF Alone, Actors, ConsumptionInv, RowIsRead
<1>1. UNCHANGED <<debits, reversals, grant>>
  BY DEF Return, Raise, effects
<1>2. UNCHANGED Seen
  BY <1>1 DEF Seen
<1>3. /\ Running(r) /\ snap[r].step = step /\ step \in Nat
      /\ DOMAIN doing' = Advancers /\ doing'[r] = "start"
  BY <1>0 DEF Return, Raise, Succeed, Fail, Becomes, ConsumptionInv, RowIsRead, Running, InAStep
<1>4. CASE \E isPermanent \in BOOLEAN : Raise(r, isPermanent)
  <2>1. Leave(r, "idle") /\ UNCHANGED <<step, executed, effects>>
    BY <1>4 DEF Raise, Fail
  <2>2. DOMAIN pc' = Actors /\ DOMAIN snap' = Actors /\ pc'[r] = "idle"
    BY <1>0, <2>1 DEF Leave
  <2> QED
    BY <1>2, <1>3, <2>1, <2>2, RowUntouched
<1>5. CASE Return(r)
  <2>1. Leave(r, "load") /\ step' = step + 1 /\ executed' = executed \cup {<<step, num[r]>>}
    BY <1>3, <1>5 DEF Return, Succeed, Mine
  <2>2. DOMAIN pc' = Actors /\ DOMAIN snap' = Actors /\ pc'[r] = "load"
    BY <1>0, <2>1 DEF Leave
  <2>3. \A e \in executed' : e[1] \in Nat /\ e[1] < step'
    <3> SUFFICES ASSUME NEW e \in executed' PROVE e[1] \in Nat /\ e[1] < step'
      OBVIOUS
    <3>1. CASE e \in executed
      <4>1. e[1] \in Nat /\ e[1] < step
        BY <3>1 DEF ConsumptionInv, RowIsRead
      <4> QED
        BY <1>3, <2>1, <4>1
    <3>2. CASE e = <<step, num[r]>>
      BY <1>3, <2>1, <3>2
    <3> QED
      BY <2>1, <3>1, <3>2
  <2>4. RowIsRead(r)'
    BY <1>3, <2>1, <2>2, <2>3 DEF RowIsRead, InAStep
  <2>5. ~Running(r)'
    BY <2>2 DEF Running
  <2>6. /\ step = 2 => doing[r] = "done"
        /\ step = 3 => /\ doing[r] \in {"done", "refused"}
                       /\ fulfillment' = IF doing[r] = "done" THEN "fulfilled" ELSE "terminal_failure"
        /\ step # 3 => fulfillment' = fulfillment
    BY <1>3, <1>5 DEF Return, Returns, In, ValidateStep, DebitStep, Fulfill, Compensate
  <2>7. EffectsFitStep(r)'
    BY <1>1, <1>3, <2>1, <2>5, <2>6 DEF ConsumptionInv, EffectsFitStep
  <2> QED
    BY <1>1, <1>2, <2>4, <2>7 DEF ConsumptionInv
<1> QED
  BY <1>4, <1>5

\* A consumption that one actor advances is a Purchase: nothing is handed over
\* before it is paid, it is paid once, and it ends with the goods or with the
\* money, whatever crashes, timeouts and retries its handlers meet
\* (business_center workflows.py, the four activities).
THEOREM ConsumptionIsAPurchase ==
  ASSUME NEW r, Alone(r)
  PROVE  ConsumptionSpec => ImplementsPurchase
<1>1. ConsumptionInit => ConsumptionInv(r) /\ Abstract!Init
  <2>1. ConsumptionInit => RowIsRead(r)
    BY DEF ConsumptionInit, Init, RowIsRead, InAStep, Alone, Actors
  <2>2. ConsumptionInit => EffectsFitStep(r)
    BY DEF ConsumptionInit, Init, EffectsFitStep
  <2>3. ConsumptionInit => Abstract!Init
    BY DEF ConsumptionInit, Abstract!Init, Seen
  <2> QED
    BY <2>1, <2>2, <2>3 DEF ConsumptionInv, ConsumptionInit
<1>2. ConsumptionInv(r) /\ [ConsumptionNext]_consumptionVars
        => ConsumptionInv(r)' /\ [Abstract!Next]_Seen
  <2> SUFFICES ASSUME ConsumptionInv(r), [ConsumptionNext]_consumptionVars
               PROVE  ConsumptionInv(r)' /\ [Abstract!Next]_Seen
    OBVIOUS
  <2>1. CASE \/ \E c \in Callers \cup Starters : Request(c)
             \/ \E q \in Runners : Claim(q)
             \/ \E a \in Advancers : Abandon(a)
             \/ Wait \/ ItemUnavailable \/ UNCHANGED consumptionVars
    BY <2>1, BesideTheHandler
  <2>2. CASE Bookkeeping(r)
    BY <2>2, RunnerAlone
  <2>3. CASE HandlerStep(r)
    BY <2>3, HandlerWrites, HandlerEnds DEF HandlerStep
  <2> QED
    BY <2>1, <2>2, <2>3 DEF ConsumptionNext, Alone
<1> QED
  BY <1>1, <1>2, PTL DEF ConsumptionSpec, ImplementsPurchase, Abstract!Spec

-----------------------------------------------------------------------------
(* The components side by side: a step of the whole is a step of the       *)
(* component that is active, and leaves the others alone.                  *)

LEMMA ServicesStepMembership ==
  ASSUME [ServicesNext]_servicesVars
  PROVE  [MembershipNext]_membershipVars
BY DEF ServicesNext, servicesVars, m_

LEMMA ServicesStepGiftCards ==
  ASSUME [ServicesNext]_servicesVars
  PROVE  [GiftCardsNext]_giftCardsVars
BY DEF ServicesNext, servicesVars, g_

\* A purchase buys one cycle of a membership and a source of gifts grants once,
\* in the instance the run of the services checks and in every other in which
\* staff cancel a redemption only once its workflow failed.
THEOREM BenefitsAreGrantedOnce ==
  ASSUME CancelsAny = FALSE
  PROVE  ServicesSpec => []GrantedOnce
<1>1. ServicesInit => MembershipInit /\ GiftCardsInit
  BY DEF ServicesInit
<1>2. ServicesInit => MembershipInv /\ GiftCardsInv
  BY <1>1, MembershipStarts, GiftCardsStart
<1>3. MembershipInv /\ GiftCardsInv /\ [ServicesNext]_servicesVars => MembershipInv' /\ GiftCardsInv'
  BY ServicesStepMembership, ServicesStepGiftCards, MembershipStep, GiftCardsStep
<1>4. MembershipInv /\ GiftCardsInv => GrantedOnce
  BY OneCycleOfInv, GrantedOnceOfInv DEF GrantedOnce
<1> QED
  BY <1>2, <1>3, <1>4, PTL DEF ServicesSpec
-----------------------------------------------------------------------------
(* Community: the summary of a discussion is that of its posts after every *)
(* command, and the posts of one request are one.                          *)

DiscussionRows == [status : DiscussionStates, locked : BOOLEAN, last : Nat, replies : Nat]
PostRows == [status : PostStates, at : Nat, key : ReplyKeys \union {"none"}]

SummaryFits(summary, p) ==
    summary.status = "published" =>
       /\ 1 \in PublishedPosts(p)
       /\ summary.replies = Cardinality(PublishedPosts(p)) - 1
       /\ summary.last \in PublishedPosts(p) /\ IsLast(p, summary.last)

\* The posts p of a discussion, none stamped after now.
PostsSound(p, now) == p \in Seq(PostRows) /\ \A n \in 1..Len(p) : p[n].at <= now

DiscussionSound(summary, p, now) ==
    /\ summary \in DiscussionRows /\ PostsSound(p, now)
    /\ summary.status \in {"none", "purged"} <=> p = <<>>
    /\ summary.status = "none" => summary.replies = 0
    /\ SummaryFits(summary, p)

OnePostOfAKey(ps) ==
    \A d, e \in Discussions : \A i \in 1..Len(ps[d]), j \in 1..Len(ps[e]) :
       ps[d][i].key = ps[e][j].key /\ ps[d][i].key # "none" => d = e /\ i = j

SayingSound(read) ==
    \/ read = <<>>
    \/ \E d \in Discussions, k \in ReplyKeys : read = <<"reply", d, k>>
    \/ \E x : read = <<"rebuild", x>> \/ read = <<"purge", x>>

CommunityInv ==
    /\ communityCalls \in Nat
    /\ DOMAIN discussion = Discussions /\ DOMAIN posts = Discussions
    /\ \A d \in Discussions : DiscussionSound(discussion[d], posts[d], communityCalls)
    /\ OnePostOfAKey(posts)
    /\ DOMAIN saying = Speakers /\ \A m \in Speakers : SayingSound(saying[m])

\* The greatest pair of a stamp and a number.
LEMMA LastPostExists ==
  ASSUME NEW now \in Nat, NEW p, PostsSound(p, now), PublishedPosts(p) # {}
  PROVE  \E n \in PublishedPosts(p) : IsLast(p, n)
<1> DEFINE S == PublishedPosts(p)
<1>1. Len(p) \in Nat /\ \A n \in S : n \in 1..Len(p) /\ p[n].at \in Nat /\ p[n].at <= now
  <2>1. p \in Seq(PostRows) /\ \A n \in 1..Len(p) : p[n].at <= now
    BY DEF PostsSound
  <2>2. Len(p) \in Nat /\ DOMAIN p = 1..Len(p) /\ \A n \in 1..Len(p) : p[n] \in PostRows
    BY <2>1
  <2>3. \A n \in S : n \in 1..Len(p)
    BY <2>2 DEF PublishedPosts
  <2> QED
    BY <2>1, <2>2, <2>3 DEF PostRows
<1>2. PICK a \in {now - p[n].at : n \in S} : \A b \in {now - p[n].at : n \in S} : a <= b
  <2>1. {now - p[n].at : n \in S} \subseteq Nat /\ {now - p[n].at : n \in S} # {}
    BY <1>1
  <2> QED
    BY <2>1, LeastOfNats
<1>3. PICK c \in {Len(p) - n : n \in {n \in S : now - p[n].at = a}} :
         \A b \in {Len(p) - n : n \in {n \in S : now - p[n].at = a}} : c <= b
  <2>1. /\ {Len(p) - n : n \in {n \in S : now - p[n].at = a}} \subseteq Nat
        /\ {Len(p) - n : n \in {n \in S : now - p[n].at = a}} # {}
    BY <1>1, <1>2
  <2> QED
    BY <2>1, LeastOfNats
<1>4. PICK n \in S : now - p[n].at = a /\ c = Len(p) - n
  BY <1>3
<1>5. \A k \in S : p[k].at < p[n].at \/ (p[k].at = p[n].at /\ k <= n)
  <2> TAKE k \in S
  <2>1. now - p[n].at <= now - p[k].at
    BY <1>2, <1>4
  <2>6. now \in Nat /\ p[n].at \in Nat /\ p[k].at \in Nat /\ n \in Nat /\ k \in Nat
    <3>1. \A i \in S : i \in Nat /\ p[i].at \in Nat
      BY <1>1
    <3> QED
      BY <3>1, Zenon
  <2>7. \A x, y, z \in Nat : x - y <= x - z => z <= y
    OBVIOUS
  <2>2. p[k].at <= p[n].at
    BY <2>1, <2>6, <2>7, Zenon
  <2>3. ASSUME p[k].at = p[n].at PROVE k <= n
    <3> DEFINE C == {Len(p) - i : i \in {i \in S : now - p[i].at = a}}
    <3>2. now - p[k].at = a
      BY <1>4, <2>3
    <3>3. Len(p) - k \in C
      BY <3>2
    <3>1. Len(p) - n <= Len(p) - k
      BY <1>3, <1>4, <3>3, Zenon
    <3> QED
      BY <1>1, <3>1
  <2>4. CASE p[k].at = p[n].at
    BY <2>3, <2>4
  <2>5. CASE p[k].at # p[n].at
    BY <2>6, <2>2, <2>5
  <2> QED
    BY <2>4, <2>5
<1> QED
  BY <1>5 DEF IsLast

LEMMA PublishedPostsAreFinite ==
  ASSUME NEW now, NEW p, PostsSound(p, now)
  PROVE  /\ PublishedPosts(p) \subseteq 1..Len(p) /\ PublishedPosts(p) \subseteq Nat
         /\ IsFiniteSet(PublishedPosts(p)) /\ Cardinality(PublishedPosts(p)) \in Nat
<1>1. Len(p) \in Nat /\ PublishedPosts(p) \subseteq 1..Len(p)
  BY DEF PublishedPosts, PostsSound
<1>2. IsFiniteSet(1..Len(p))
  BY <1>1, FS_Interval
<1> QED
  BY <1>1, <1>2, FS_Subset, FS_CardinalityType

LEMMA RecomputedSummaryFits ==
  ASSUME NEW now \in Nat, NEW p, PostsSound(p, now), NEW summary \in DiscussionRows,
         summary.status = "published" => 1 \in PublishedPosts(p)
  PROVE  /\ RecomputedSummary(summary, p) \in DiscussionRows
         /\ RecomputedSummary(summary, p).status = summary.status
         /\ SummaryFits(RecomputedSummary(summary, p), p)
<1> DEFINE S == PublishedPosts(p)
           last == IF S = {} THEN 0 ELSE CHOOSE n \in S : IsLast(p, n)
           new == RecomputedSummary(summary, p)
<1>1. S \subseteq Nat /\ IsFiniteSet(S) /\ Cardinality(S) \in Nat
  BY PublishedPostsAreFinite
<1>2. IsFiniteSet(S \ {1}) /\ Cardinality(S \ {1}) \in Nat
      /\ (1 \in S => Cardinality(S \ {1}) = Cardinality(S) - 1)
  BY <1>1, FS_RemoveElement, FS_CardinalityType
<1>3. S # {} => last \in S /\ IsLast(p, last)
  BY LastPostExists
<1>4. last \in Nat
  BY <1>1, <1>3
<1>5. new = [summary EXCEPT !.replies = Cardinality(S \ {1}), !.last = last]
  BY DEF RecomputedSummary
<1> HIDE DEF S, last, new
<1>6. new \in DiscussionRows /\ new.status = summary.status /\ new.replies = Cardinality(S \ {1})
      /\ new.last = last
  BY <1>2, <1>4, <1>5 DEF DiscussionRows
<1>7. summary.status = "published" => 1 \in S
  BY DEF S
<1>8. new.status = "published" => 1 \in S /\ new.replies = Cardinality(S) - 1
                                  /\ new.last \in S /\ IsLast(p, new.last)
  BY <1>2, <1>3, <1>6, <1>7
<1> QED
  BY <1>6, <1>8 DEF SummaryFits, S, new

LEMMA PostRowsOf ==
  ASSUME NEW p \in Seq(PostRows)
  PROVE  /\ Len(p) \in Nat /\ DOMAIN p = 1..Len(p)
         /\ \A n \in 1..Len(p) : p[n] \in PostRows /\ p[n].at \in Nat
<1>1. Len(p) \in Nat /\ DOMAIN p = 1..Len(p) /\ \A n \in 1..Len(p) : p[n] \in PostRows
  OBVIOUS
<1> QED
  BY <1>1 DEF PostRows

\* A command that writes one discussion.
LEMMA OneDiscussionWritten ==
  ASSUME CommunityInv, NEW d \in Discussions, NEW summary, NEW p, Writes(d, summary, p),
         communityCalls' \in Nat, communityCalls <= communityCalls',
         DiscussionSound(summary, p, communityCalls'),
         OnePostOfAKey([posts EXCEPT ![d] = p]),
         DOMAIN saying' = Speakers, \A m \in Speakers : SayingSound(saying'[m])
  PROVE  CommunityInv'
<1>1. /\ DOMAIN discussion' = Discussions /\ DOMAIN posts' = Discussions
      /\ discussion'[d] = summary /\ posts'[d] = p
      /\ \A e \in Discussions \ {d} : discussion'[e] = discussion[e] /\ posts'[e] = posts[e]
      /\ OnePostOfAKey(posts')
  BY DEF CommunityInv, Writes
<1>2. \A e \in Discussions : DiscussionSound(discussion'[e], posts'[e], communityCalls')
  <2> TAKE e \in Discussions
  <2>1. CASE e = d
    BY <1>1, <2>1
  <2>2. CASE e # d
    <3>1. DiscussionSound(discussion[e], posts[e], communityCalls)
      BY DEF CommunityInv
    <3>2. PostsSound(posts[e], communityCalls')
      <4>1. posts[e] \in Seq(PostRows) /\ \A n \in 1..Len(posts[e]) : posts[e][n].at <= communityCalls
        BY <3>1 DEF DiscussionSound, PostsSound
      <4>2. \A n \in 1..Len(posts[e]) : posts[e][n].at \in Nat
        BY <4>1, PostRowsOf
      <4>3. communityCalls \in Nat
        BY DEF CommunityInv
      <4> QED
        BY <4>1, <4>2, <4>3 DEF PostsSound
    <3> QED
      BY <1>1, <2>2, <3>1, <3>2 DEF DiscussionSound
  <2> QED
    BY <2>1, <2>2
<1> QED
  BY <1>1, <1>2 DEF CommunityInv

\* A command on one discussion that leaves its posts under their keys.
LEMMA SummaryWritten ==
  ASSUME CommunityInv, NEW d \in Discussions, NEW summary, NEW p, Writes(d, summary, p), Says,
         DiscussionSound(summary, p, communityCalls + 1),
         Len(p) = Len(posts[d]), \A n \in 1..Len(p) : p[n].key = posts[d][n].key
  PROVE  CommunityInv'
<1> DEFINE ps == [posts EXCEPT ![d] = p]
<1>1. DOMAIN posts = Discussions /\ ps[d] = p /\ \A e \in Discussions \ {d} : ps[e] = posts[e]
  BY DEF CommunityInv
<1>2. \A e \in Discussions : Len(ps[e]) = Len(posts[e])
                             /\ \A n \in 1..Len(posts[e]) : ps[e][n].key = posts[e][n].key
  <2> TAKE e \in Discussions
  <2> QED
    BY <1>1
<1>3. OnePostOfAKey(posts)
  BY DEF CommunityInv
<1> HIDE DEF ps
<1>4. OnePostOfAKey(ps)
  <2> SUFFICES ASSUME NEW e \in Discussions, NEW f \in Discussions,
                      NEW i \in 1..Len(ps[e]), NEW j \in 1..Len(ps[f]),
                      ps[e][i].key = ps[f][j].key, ps[e][i].key # "none"
               PROVE  e = f /\ i = j
    BY DEF OnePostOfAKey
  <2>1. /\ i \in 1..Len(posts[e]) /\ j \in 1..Len(posts[f])
        /\ posts[e][i].key = posts[f][j].key /\ posts[e][i].key # "none"
    BY <1>2
  <2> QED
    BY <1>3, <2>1 DEF OnePostOfAKey
<1>5. communityCalls' \in Nat /\ communityCalls <= communityCalls' /\ communityCalls' = communityCalls + 1
  BY DEF CommunityInv, Says
<1>6. DOMAIN saying' = Speakers /\ \A m \in Speakers : SayingSound(saying'[m])
  BY DEF CommunityInv, Says
<1> QED
  BY <1>4, <1>5, <1>6, OneDiscussionWritten DEF ps

LEMMA LaterIsSound ==
  ASSUME CommunityInv, NEW d \in Discussions
  PROVE  /\ DiscussionSound(discussion[d], posts[d], communityCalls + 1)
         /\ discussion[d] \in DiscussionRows
         /\ posts[d] \in Seq(PostRows) /\ Len(posts[d]) \in Nat
         /\ DOMAIN posts[d] = 1..Len(posts[d])
         /\ \A n \in 1..Len(posts[d]) : posts[d][n] \in PostRows
         /\ PublishedPosts(posts[d]) \subseteq 1..Len(posts[d])
         /\ discussion[d].status \notin {"none", "purged"} => 1 \in 1..Len(posts[d])
<1>1. DiscussionSound(discussion[d], posts[d], communityCalls) /\ communityCalls \in Nat
  BY DEF CommunityInv
<1>2. posts[d] \in Seq(PostRows) /\ \A n \in 1..Len(posts[d]) : posts[d][n].at <= communityCalls
  BY <1>1 DEF DiscussionSound, PostsSound
<1>3. Len(posts[d]) \in Nat /\ DOMAIN posts[d] = 1..Len(posts[d])
      /\ \A n \in 1..Len(posts[d]) : posts[d][n] \in PostRows /\ posts[d][n].at \in Nat
  BY <1>2, PostRowsOf
<1>4. PostsSound(posts[d], communityCalls + 1)
  BY <1>1, <1>2, <1>3 DEF PostsSound
<1>5. discussion[d].status \notin {"none", "purged"} => 1 \in 1..Len(posts[d])
  BY <1>1, <1>2, <1>3 DEF DiscussionSound
<1>6. PublishedPosts(posts[d]) \subseteq 1..Len(posts[d])
  BY <1>3 DEF PublishedPosts
<1>7. DiscussionSound(discussion[d], posts[d], communityCalls + 1)
  BY <1>1, <1>4 DEF DiscussionSound
<1> QED
  BY <1>1, <1>2, <1>3, <1>5, <1>6, <1>7 DEF DiscussionSound

\* A summary that is computed again, from posts whose statuses and stamps may have changed.
LEMMA RecomputedIsSound ==
  ASSUME CommunityInv, NEW d \in Discussions, NEW summary \in DiscussionRows, NEW p \in Seq(PostRows),
         Exists(d), summary.status \notin {"none", "purged"},
         Len(p) = Len(posts[d]), \A n \in 1..Len(p) : p[n].at <= communityCalls + 1,
         summary.status = "published" => 1 \in PublishedPosts(p)
  PROVE  DiscussionSound(RecomputedSummary(summary, p), p, communityCalls + 1)
<1>1. communityCalls + 1 \in Nat /\ PostsSound(p, communityCalls + 1)
  BY DEF CommunityInv, PostsSound
<1>2. p # <<>>
  BY LaterIsSound DEF Exists
<1> QED
  BY <1>1, <1>2, RecomputedSummaryFits DEF DiscussionSound

LEMMA DiscussionCreated ==
  ASSUME CommunityInv, NEW d \in Discussions, CreateDiscussion(d)
  PROVE  CommunityInv'
<1>1. PICK s \in {"pending", "published"} :
         Writes(d, [discussion[d] EXCEPT !.status = s,
                                         !.last = IF s = "published" THEN 1 ELSE 0],
                <<[status |-> s, at |-> IF s = "published" THEN communityCalls + 1 ELSE 0,
                   key |-> "none"]>>)
  BY DEF CreateDiscussion
<1> DEFINE post == [status |-> s, at |-> IF s = "published" THEN communityCalls + 1 ELSE 0,
                    key |-> "none"]
           summary == [discussion[d] EXCEPT !.status = s, !.last = IF s = "published" THEN 1 ELSE 0]
           p == <<post>>
<1>2. communityCalls \in Nat /\ discussion[d] \in DiscussionRows /\ discussion[d].status = "none"
      /\ discussion[d].replies = 0
  BY LaterIsSound DEF CommunityInv, CreateDiscussion, DiscussionSound
<1>3. post \in PostRows /\ post.at <= communityCalls + 1 /\ post.key = "none" /\ post.status = s
  BY <1>2 DEF PostRows, PostStates
<1>4. summary \in DiscussionRows /\ summary.status = s /\ summary.replies = 0 /\ (s = "published" => summary.last = 1)
  BY <1>2 DEF DiscussionRows, DiscussionStates
<1> HIDE DEF post, summary
<1>5. Len(p) = 1 /\ p[1] = post /\ DOMAIN p = {1} /\ p \in Seq(PostRows) /\ p # <<>>
  BY <1>3
<1>6. PostsSound(p, communityCalls + 1)
  BY <1>3, <1>5 DEF PostsSound
<1>7. s = "published" => PublishedPosts(p) = {1}
  BY <1>3, <1>5 DEF PublishedPosts
<1>8. SummaryFits(summary, p)
  <2> SUFFICES ASSUME s = "published" PROVE SummaryFits(summary, p)
    BY <1>4 DEF SummaryFits
  <2>1. Cardinality(PublishedPosts(p)) = 1
    BY <1>7, FS_Singleton
  <2>2. IsLast(p, 1)
    BY <1>3, <1>5, <1>7, <1>2 DEF IsLast, PostRows
  <2> QED
    BY <1>4, <1>7, <2>1, <2>2 DEF SummaryFits
<1>9. DiscussionSound(summary, p, communityCalls + 1)
  BY <1>4, <1>5, <1>6, <1>8 DEF DiscussionSound
<1>10. OnePostOfAKey([posts EXCEPT ![d] = p])
  <2> DEFINE ps == [posts EXCEPT ![d] = p]
  <2>1. ps[d] = p /\ \A e \in Discussions \ {d} : ps[e] = posts[e]
    BY DEF CommunityInv
  <2>2. \A i \in 1..Len(ps[d]) : ps[d][i].key = "none"
    BY <1>3, <1>5, <2>1
  <2>3. OnePostOfAKey(posts)
    BY DEF CommunityInv
  <2> HIDE DEF ps
  <2>4. OnePostOfAKey(ps)
    BY <2>1, <2>2, <2>3 DEF OnePostOfAKey
  <2> QED
    BY <2>4 DEF ps
<1>11. communityCalls' \in Nat /\ communityCalls <= communityCalls' /\ communityCalls' = communityCalls + 1
       /\ DOMAIN saying' = Speakers /\ \A m \in Speakers : SayingSound(saying'[m])
  BY <1>2 DEF CommunityInv, CreateDiscussion, Says
<1>12. Writes(d, summary, p)
  BY <1>1 DEF summary, post
<1> HIDE DEF p
<1> QED
  BY <1>9, <1>10, <1>11, <1>12, OneDiscussionWritten

\* Titles, moderation of a discussion, and its lock.
LEMMA DiscussionModerated ==
  ASSUME CommunityInv, NEW d \in Discussions,
         \/ UpdateDiscussion(d) \/ PublishDiscussion(d) \/ RestoreDiscussion(d)
         \/ HideDiscussion(d) \/ ArchiveDiscussion(d)
         \/ \E n \in DOMAIN posts[d] : UpdatePost(d, n)
  PROVE  CommunityInv'
<1>1. /\ DiscussionSound(discussion[d], posts[d], communityCalls + 1)
      /\ discussion[d] \in DiscussionRows /\ posts[d] \in Seq(PostRows)
      /\ DOMAIN posts[d] = 1..Len(posts[d])
      /\ \A n \in 1..Len(posts[d]) : posts[d][n] \in PostRows
      /\ communityCalls \in Nat
  BY LaterIsSound DEF CommunityInv
<1>2. CASE UpdateDiscussion(d) \/ \E n \in DOMAIN posts[d] : UpdatePost(d, n)
  BY <1>1, <1>2, SummaryWritten DEF UpdateDiscussion, UpdatePost
<1>3. ASSUME NEW s \in {"hidden", "archived"},
             Says, Exists(d), Writes(d, [discussion[d] EXCEPT !.status = s], posts[d])
      PROVE  CommunityInv'
  <2> DEFINE summary == [discussion[d] EXCEPT !.status = s]
  <2>1. summary \in DiscussionRows /\ summary.status = s
    BY <1>1 DEF DiscussionRows, DiscussionStates
  <2>2. DiscussionSound(summary, posts[d], communityCalls + 1)
    BY <1>1, <1>3, <2>1 DEF DiscussionSound, SummaryFits, Exists
  <2> QED
    BY <1>3, <2>2, SummaryWritten
<1>4. ASSUME NEW p, Says, Exists(d), p \in Seq(PostRows), Len(p) = Len(posts[d]),
             \A n \in 1..Len(p) : p[n].at <= communityCalls + 1 /\ p[n].key = posts[d][n].key,
             1 \in PublishedPosts(p),
             Writes(d, RecomputedSummary([discussion[d] EXCEPT !.status = "published"], p), p)
      PROVE  CommunityInv'
  <2> DEFINE summary == [discussion[d] EXCEPT !.status = "published"]
  <2>1. summary \in DiscussionRows /\ summary.status = "published"
    BY <1>1 DEF DiscussionRows, DiscussionStates
  <2>2. DiscussionSound(RecomputedSummary(summary, p), p, communityCalls + 1)
    BY <1>4, <2>1, RecomputedIsSound
  <2> QED
    BY <1>4, <2>2, SummaryWritten
<1>5. \A n \in 1..Len(posts[d]) : posts[d][n].at <= communityCalls + 1
  BY <1>1 DEF DiscussionSound, PostsSound
<1>6. CASE RestoreDiscussion(d)
  <2>1. Exists(d) /\ 1 \in PublishedPosts(posts[d])
    BY <1>1, <1>6, LaterIsSound DEF RestoreDiscussion, Exists, PublishedPosts
  <2> DEFINE p == posts[d]
  <2>2. /\ Says /\ Writes(d, RecomputedSummary([discussion[d] EXCEPT !.status = "published"], p), p)
    BY <1>6 DEF RestoreDiscussion
  <2>3. /\ p \in Seq(PostRows) /\ Len(p) = Len(posts[d])
        /\ \A n \in 1..Len(p) : p[n].at <= communityCalls + 1 /\ p[n].key = posts[d][n].key
    BY <1>1, <1>5
  <2> HIDE DEF p
  <2> QED
    BY <1>4, <2>1, <2>2, <2>3 DEF p
<1>7. CASE PublishDiscussion(d)
  <2>1. Exists(d) /\ 1 \in 1..Len(posts[d])
    BY <1>7, LaterIsSound DEF PublishDiscussion, Exists
  <2>2. CASE posts[d][1].status = "published"
    <3> DEFINE p == posts[d]
    <3>1. /\ Says /\ Writes(d, RecomputedSummary([discussion[d] EXCEPT !.status = "published"], p), p)
      BY <1>7, <2>2 DEF PublishDiscussion
    <3>2. /\ p \in Seq(PostRows) /\ Len(p) = Len(posts[d]) /\ 1 \in PublishedPosts(p)
          /\ \A n \in 1..Len(p) : p[n].at <= communityCalls + 1 /\ p[n].key = posts[d][n].key
      BY <1>1, <1>5, <2>1, <2>2 DEF PublishedPosts
    <3> HIDE DEF p
    <3> QED
      BY <1>4, <2>1, <3>1, <3>2
  <2>3. CASE posts[d][1].status # "published"
    <3> DEFINE p == [posts[d] EXCEPT ![1].status = "published", ![1].at = communityCalls + 1]
    <3>1. DOMAIN p = DOMAIN posts[d] /\ \A n \in DOMAIN posts[d] :
             p[n] = IF n = 1 THEN [posts[d][1] EXCEPT !.status = "published", !.at = communityCalls + 1]
                    ELSE posts[d][n]
      BY <1>1, <2>1
    <3>2. DOMAIN p = 1..Len(posts[d]) /\ \A n \in 1..Len(posts[d]) :
             p[n] \in PostRows /\ p[n].at <= communityCalls + 1 /\ p[n].key = posts[d][n].key
      <4>1. DOMAIN p = 1..Len(posts[d])
        BY <1>1, <3>1
      <4>2. ASSUME NEW n \in 1..Len(posts[d])
            PROVE  p[n] \in PostRows /\ p[n].at <= communityCalls + 1 /\ p[n].key = posts[d][n].key
        <5>1. posts[d][n] \in PostRows /\ posts[d][n].at <= communityCalls + 1
          BY <1>1, <1>5
        <5>2. CASE n = 1
          <6> DEFINE half == [posts[d][1] EXCEPT !.status = "published"]
                     r == [half EXCEPT !.at = communityCalls + 1]
          <6>0. communityCalls + 1 \in Nat
            BY <1>1
          <6>5. posts[d][1] \in PostRows
            BY <5>1, <5>2
          <6>3. half \in PostRows /\ half.key = posts[d][1].key
            BY <6>5 DEF PostRows, PostStates
          <6>4. p[n] = r
            BY <3>1, <4>1, <5>2
          <6> HIDE DEF half, p
          <6>1. r \in PostRows /\ r.at = communityCalls + 1 /\ r.key = posts[d][1].key
            BY <6>0, <6>3 DEF PostRows
          <6>2. p[n] = r
            BY <6>4
          <6> HIDE DEF r
          <6> QED
            BY <1>1, <5>2, <6>1, <6>2
        <5>3. CASE n # 1
          BY <3>1, <4>1, <5>1, <5>3
        <5> QED
          BY <5>2, <5>3
      <4> QED
        BY <4>1, <4>2
    <3>3. p[1].status = "published"
      BY <1>1, <2>1, <3>1 DEF PostRows
    <3> HIDE DEF p
    <3>4. p \in [1..Len(posts[d]) -> PostRows]
      BY <3>1, <3>2, <1>1 DEF p
    <3>5. p \in Seq(PostRows) /\ Len(p) = Len(posts[d])
      <4>1. Len(posts[d]) \in Nat
        BY LaterIsSound
      <4> QED
        BY <3>4, <4>1
    <3>6. 1 \in PublishedPosts(p)
      BY <2>1, <3>2, <3>3 DEF PublishedPosts
    <3>7. Writes(d, RecomputedSummary([discussion[d] EXCEPT !.status = "published"], p), p) /\ Says
      BY <1>7, <2>3 DEF PublishDiscussion, p
    <3> QED
      BY <1>4, <2>1, <3>2, <3>5, <3>6, <3>7
  <2> QED
    BY <2>2, <2>3
<1>8. CASE HideDiscussion(d) \/ ArchiveDiscussion(d)
  BY <1>3, <1>8 DEF HideDiscussion, ArchiveDiscussion, Exists
<1> QED
  BY <1>2, <1>6, <1>7, <1>8

LEMMA DiscussionLocked ==
  ASSUME CommunityInv, NEW d \in Discussions, LockDiscussion(d)
  PROVE  CommunityInv'
<1> DEFINE summary == [discussion[d] EXCEPT !.locked = ~@]
<1>1. discussion[d] \in DiscussionRows /\ communityCalls \in Nat
      /\ DiscussionSound(discussion[d], posts[d], communityCalls + 1)
  BY LaterIsSound DEF CommunityInv
<1>2. summary \in DiscussionRows /\ summary.status = discussion[d].status
      /\ summary.last = discussion[d].last /\ summary.replies = discussion[d].replies
  BY <1>1 DEF DiscussionRows
<1>3. DiscussionSound(summary, posts[d], communityCalls + 1)
  BY <1>1, <1>2 DEF DiscussionSound, SummaryFits
<1>4. discussion' = [discussion EXCEPT ![d] = summary] /\ posts' = posts /\ communityCalls' = communityCalls + 1
      /\ saying' = saying
  BY DEF LockDiscussion, Says
<1> HIDE DEF summary
<1>5. \A e \in Discussions : discussion'[e] = (IF e = d THEN summary ELSE discussion[e])
  BY <1>4 DEF CommunityInv
<1>6. \A e \in Discussions : DiscussionSound(discussion'[e], posts'[e], communityCalls')
  BY <1>3, <1>4, <1>5, LaterIsSound
<1> QED
  BY <1>1, <1>4, <1>6 DEF CommunityInv

LEMMA PostModerated ==
  ASSUME CommunityInv, NEW d \in Discussions, NEW n \in DOMAIN posts[d],
         NEW target \in {"published", "hidden", "deleted"}, TransitionPost(d, n, target)
  PROVE  CommunityInv'
<1> DEFINE stamp == IF target = "published" THEN StampedPost(posts[d][n]) ELSE posts[d][n].at
           p == [posts[d] EXCEPT ![n].status = target, ![n].at = stamp]
           summary == DiscussionFollows(discussion[d], n, target)
<1>1. /\ DiscussionSound(discussion[d], posts[d], communityCalls + 1)
      /\ discussion[d] \in DiscussionRows /\ posts[d] \in Seq(PostRows)
      /\ DOMAIN posts[d] = 1..Len(posts[d]) /\ Len(posts[d]) \in Nat
      /\ \A i \in 1..Len(posts[d]) : posts[d][i] \in PostRows
      /\ communityCalls \in Nat
  BY LaterIsSound DEF CommunityInv
<1>2. \A i \in 1..Len(posts[d]) : posts[d][i].at <= communityCalls + 1
  BY <1>1 DEF DiscussionSound, PostsSound
<1>3. stamp \in Nat /\ stamp <= communityCalls + 1
  BY <1>1, <1>2 DEF StampedPost, PostRows
<1>4. Says /\ Exists(d) /\ Writes(d, RecomputedSummary(summary, p), p)
  BY DEF TransitionPost
<1>5. DOMAIN p = DOMAIN posts[d] /\ \A i \in DOMAIN posts[d] :
         p[i] = IF i = n THEN [posts[d][n] EXCEPT !.status = target, !.at = stamp] ELSE posts[d][i]
  BY <1>1
<1> HIDE DEF stamp
<1>6. \A i \in 1..Len(posts[d]) :
         p[i] \in PostRows /\ p[i].at <= communityCalls + 1 /\ p[i].key = posts[d][i].key
         /\ p[i].status = IF i = n THEN target ELSE posts[d][i].status
  <2> TAKE i \in 1..Len(posts[d])
  <2>1. posts[d][i] \in PostRows /\ posts[d][i].at <= communityCalls + 1
    BY <1>1, <1>2
  <2>2. CASE i = n
    <3> DEFINE moved == [posts[d][i] EXCEPT !.status = target, !.at = stamp]
    <3>1. p[i] = moved
      BY <1>1, <1>5, <2>2
    <3>2. moved \in PostRows /\ moved.at = stamp /\ moved.key = posts[d][i].key /\ moved.status = target
      BY <1>3, <2>1 DEF PostRows, PostStates
    <3> QED
      BY <1>3, <2>2, <3>1, <3>2
  <2>3. CASE i # n
    <3>1. p[i] = posts[d][i]
      BY <1>1, <1>5, <2>3
    <3> QED
      BY <2>1, <2>3, <3>1
  <2> QED
    BY <2>2, <2>3
<1>7. p \in [1..Len(posts[d]) -> PostRows]
  BY <1>1, <1>5, <1>6
<1> HIDE DEF p
<1>8. p \in Seq(PostRows) /\ Len(p) = Len(posts[d]) /\ DOMAIN p = 1..Len(posts[d])
  <2>1. p \in Seq(PostRows) /\ Len(p) = Len(posts[d])
    BY <1>1, <1>7
  <2> QED
    BY <2>1, PostRowsOf
<1>9. summary \in DiscussionRows /\ summary.status \notin {"none", "purged"}
  BY <1>1, <1>4 DEF DiscussionFollows, DiscussionRows, DiscussionStates, Exists
<1>10. ASSUME summary.status = "published" PROVE 1 \in PublishedPosts(p)
  <2>1. 1 \in 1..Len(posts[d])
    BY <1>4, LaterIsSound DEF Exists
  <2>2. CASE n = 1
    <3>1. target = "published"
      BY <1>1, <1>10, <2>2 DEF DiscussionFollows, DiscussionRows
    <3> QED
      BY <1>6, <1>8, <2>1, <2>2, <3>1 DEF PublishedPosts
  <2>3. CASE n # 1
    <3>1. discussion[d].status = "published"
      BY <1>10, <2>3 DEF DiscussionFollows
    <3>2. posts[d][1].status = "published"
      BY <1>1, <3>1 DEF DiscussionSound, SummaryFits, PublishedPosts
    <3> QED
      BY <1>6, <1>8, <2>1, <2>3, <3>2 DEF PublishedPosts
  <2> QED
    BY <2>2, <2>3
<1> HIDE DEF summary
<1>11. DiscussionSound(RecomputedSummary(summary, p), p, communityCalls + 1)
  BY <1>4, <1>6, <1>8, <1>9, <1>10, RecomputedIsSound
<1> QED
  BY <1>4, <1>6, <1>8, <1>11, SummaryWritten

LEMMA ReplyCreated ==
  ASSUME CommunityAssumption, CommunityInv, NEW m \in Speakers, CreateReply(m)
  PROVE  CommunityInv'
<1>1. PICK d \in Discussions, k \in ReplyKeys : saying[m] = <<"reply", d, k>>
  BY DEF CommunityInv, SayingSound, CreateReply, EndsSaying
<1>2. /\ discussion[d].status = "published" /\ Keyed(k) = {}
      /\ UNCHANGED communityCalls /\ saying' = [saying EXCEPT ![m] = <<>>]
  BY <1>1 DEF CreateReply, ReplyKeyIsFree, EndsSaying
<1>3. PICK s \in {"pending", "published"} :
         LET p == Append(posts[d], [status |-> s, at |-> IF s = "published" THEN communityCalls ELSE 0,
                                    key |-> k])
         IN Writes(d, IF s = "published" THEN RecomputedSummary(discussion[d], p)
                                         ELSE discussion[d], p)
  BY <1>1 DEF CreateReply
<1> DEFINE post == [status |-> s, at |-> IF s = "published" THEN communityCalls ELSE 0, key |-> k]
           p == Append(posts[d], post)
           summary == IF s = "published" THEN RecomputedSummary(discussion[d], p) ELSE discussion[d]
           ps == [posts EXCEPT ![d] = p]
<1>4. /\ DiscussionSound(discussion[d], posts[d], communityCalls)
      /\ discussion[d] \in DiscussionRows /\ posts[d] \in Seq(PostRows)
      /\ DOMAIN posts[d] = 1..Len(posts[d]) /\ Len(posts[d]) \in Nat
      /\ communityCalls \in Nat
  BY LaterIsSound DEF CommunityInv
<1>5. post \in PostRows /\ post.at <= communityCalls /\ post.key = k /\ post.status = s
  BY <1>4 DEF PostRows, PostStates
<1> HIDE DEF post
<1>6. /\ p \in Seq(PostRows) /\ Len(p) = Len(posts[d]) + 1 /\ DOMAIN p = 1..(Len(posts[d]) + 1)
      /\ p[Len(posts[d]) + 1] = post /\ \A i \in 1..Len(posts[d]) : p[i] = posts[d][i]
  BY <1>4, <1>5
<1> HIDE DEF p
<1>7. \A i \in 1..Len(posts[d]) : posts[d][i].at <= communityCalls
  BY <1>4 DEF DiscussionSound, PostsSound
<1>8. PostsSound(p, communityCalls) /\ p # <<>>
  <2>1. \A i \in 1..Len(p) : i \in 1..Len(posts[d]) \/ i = Len(posts[d]) + 1
    BY <1>4, <1>6
  <2>2. \A i \in 1..Len(p) : p[i].at <= communityCalls
    BY <1>5, <1>6, <1>7, <2>1
  <2>3. p # <<>>
    BY <1>4, <1>6
  <2> QED
    BY <1>6, <2>2, <2>3 DEF PostsSound
<1>9. SummaryFits(discussion[d], posts[d]) /\ 1 \in PublishedPosts(posts[d])
  BY <1>2, <1>4 DEF DiscussionSound, SummaryFits
<1>10. 1 \in PublishedPosts(p)
  BY <1>4, <1>6, <1>9 DEF PublishedPosts
<1>11. DiscussionSound(summary, p, communityCalls)
  <2>1. CASE s = "published"
    <3>1. /\ summary \in DiscussionRows /\ summary.status = discussion[d].status /\ SummaryFits(summary, p)
      BY <1>4, <1>8, <1>10, <2>1, RecomputedSummaryFits
    <3> QED
      BY <1>2, <1>8, <3>1 DEF DiscussionSound
  <2>2. CASE s # "published"
    <3>1. PublishedPosts(p) = PublishedPosts(posts[d])
      BY <1>4, <1>5, <1>6, <2>2, SMTT(30) DEF PublishedPosts
    <3>2. \A i \in PublishedPosts(p) : p[i] = posts[d][i]
      BY <1>4, <1>6, <3>1 DEF PublishedPosts
    <3>3. SummaryFits(discussion[d], p)
      BY <1>9, <3>1, <3>2 DEF SummaryFits, IsLast
    <3> QED
      BY <1>2, <1>4, <1>8, <2>2, <3>3 DEF DiscussionSound
  <2> QED
    BY <2>1, <2>2
<1>12. ps[d] = p /\ \A e \in Discussions \ {d} : ps[e] = posts[e]
  BY DEF CommunityInv
<1>13. \A e \in Discussions : \A i \in 1..Len(posts[e]) : posts[e][i].key # k
  <2> SUFFICES ASSUME NEW e \in Discussions, NEW i \in 1..Len(posts[e]), posts[e][i].key = k
               PROVE  FALSE
    OBVIOUS
  <2>1. i \in KeyedIn(e, k)
    BY LaterIsSound DEF KeyedIn
  <2>2. <<e, i>> \in Keyed(k)
    BY <2>1 DEF Keyed
  <2> QED
    BY <1>2, <2>2
<1> HIDE DEF ps
<1>14. OnePostOfAKey(ps)
  <2> SUFFICES ASSUME NEW e \in Discussions, NEW f \in Discussions,
                      NEW i \in 1..Len(ps[e]), NEW j \in 1..Len(ps[f]),
                      ps[e][i].key = ps[f][j].key, ps[e][i].key # "none"
               PROVE  e = f /\ i = j
    BY DEF OnePostOfAKey
  <2> DEFINE New(g, x) == g = d /\ x = Len(posts[d]) + 1
  <2>1. \A g \in Discussions : \A x \in 1..Len(ps[g]) :
           IF New(g, x) THEN ps[g][x].key = k
           ELSE x \in 1..Len(posts[g]) /\ ps[g][x].key = posts[g][x].key
    <3> SUFFICES ASSUME NEW g \in Discussions, NEW x \in 1..Len(ps[g])
                 PROVE  IF New(g, x) THEN ps[g][x].key = k
                        ELSE x \in 1..Len(posts[g]) /\ ps[g][x].key = posts[g][x].key
      OBVIOUS
    <3>1. CASE g = d
      <4>1. ps[g] = p /\ x \in 1..(Len(posts[d]) + 1)
        BY <1>6, <1>12, <3>1
      <4>2. CASE x = Len(posts[d]) + 1
        BY <1>5, <1>6, <3>1, <4>1, <4>2
      <4>3. CASE x # Len(posts[d]) + 1
        <5>1. \A l \in Nat : \A y \in 1..(l + 1) : y # l + 1 => y \in 1..l
          OBVIOUS
        <5>2. x \in 1..Len(posts[d])
          BY <1>4, <4>1, <4>3, <5>1, Zenon
        <5> QED
          BY <1>6, <3>1, <4>1, <4>3, <5>2
      <4> QED
        BY <4>2, <4>3
    <3>2. CASE g # d
      BY <1>12, <3>2
    <3> QED
      BY <3>1, <3>2
  <2>2. CASE New(e, i) /\ New(f, j)
    BY <2>2
  <2>3. CASE New(e, i) /\ ~New(f, j)
    BY <1>13, <2>1, <2>3
  <2>4. CASE ~New(e, i) /\ New(f, j)
    <3>1. ps[f][j].key = k
      BY <2>1, <2>4
    <3>2. i \in 1..Len(posts[e]) /\ ps[e][i].key = posts[e][i].key
      BY <2>1, <2>4
    <3> HIDE DEF New
    <3> QED
      BY <1>13, <3>1, <3>2
  <2>5. CASE ~New(e, i) /\ ~New(f, j)
    <3>1. OnePostOfAKey(posts)
      BY DEF CommunityInv
    <3>2. /\ i \in 1..Len(posts[e]) /\ j \in 1..Len(posts[f])
          /\ posts[e][i].key = posts[f][j].key /\ posts[e][i].key # "none"
      BY <2>1, <2>5
    <3> QED
      BY <3>1, <3>2 DEF OnePostOfAKey
  <2> QED
    BY <2>2, <2>3, <2>4, <2>5
<1>15. Writes(d, summary, p)
  BY <1>3 DEF post, p
<1>16. DOMAIN saying' = Speakers /\ \A q \in Speakers : SayingSound(saying'[q])
  BY <1>2 DEF CommunityInv, SayingSound
<1>17. communityCalls' = communityCalls /\ communityCalls <= communityCalls
  BY <1>2, <1>4
<1> HIDE DEF summary
<1> QED
  BY <1>4, <1>11, <1>14, <1>15, <1>16, <1>17, OneDiscussionWritten DEF ps

\* What is read without a lock, and the maintenance of the whole site.
LEMMA SiteMaintained ==
  ASSUME CommunityInv, NEW m \in Speakers,
         \/ ReplyReads(m) \/ RebuildReads(m) \/ RebuildCommunitySearch(m)
         \/ PurgeReads(m) \/ PurgeArchivedDiscussions(m) \/ GiveUpSaying(m)
  PROVE  CommunityInv'
<1>1. CASE ReplyReads(m) \/ RebuildReads(m) \/ PurgeReads(m)
  <2>1. PICK read : SayingSound(read) /\ StartsSaying(m, read)
    BY <1>1 DEF ReplyReads, RebuildReads, PurgeReads, SayingSound
  <2>2. communityCalls' = communityCalls + 1 /\ UNCHANGED <<discussion, posts>>
        /\ saying' = [saying EXCEPT ![m] = read]
    BY <2>1 DEF StartsSaying
  <2>3. \A d \in Discussions : DiscussionSound(discussion[d], posts[d], communityCalls + 1)
    BY LaterIsSound
  <2> QED
    BY <2>1, <2>2, <2>3 DEF CommunityInv
<1>2. CASE RebuildCommunitySearch(m) \/ GiveUpSaying(m)
  BY <1>2 DEF RebuildCommunitySearch, GiveUpSaying, EndsSaying, CommunityInv, SayingSound
<1>3. CASE PurgeArchivedDiscussions(m)
  <2> DEFINE gone == saying[m][2]
             summary == [status |-> "purged", locked |-> FALSE, last |-> 0, replies |-> 0]
  <2>1. /\ \A d \in Discussions : discussion'[d] = IF d \in gone THEN summary ELSE discussion[d]
        /\ \A d \in Discussions : posts'[d] = IF d \in gone THEN <<>> ELSE posts[d]
        /\ DOMAIN discussion' = Discussions /\ DOMAIN posts' = Discussions
        /\ UNCHANGED communityCalls /\ saying' = [saying EXCEPT ![m] = <<>>]
    BY <1>3 DEF PurgeArchivedDiscussions, EndsSaying
  <2>2. DiscussionSound(summary, <<>>, communityCalls)
    BY DEF DiscussionSound, DiscussionRows, DiscussionStates, PostsSound, SummaryFits
  <2> HIDE DEF gone, summary
  <2>3. \A d \in Discussions : DiscussionSound(discussion'[d], posts'[d], communityCalls')
    BY <2>1, <2>2 DEF CommunityInv
  <2>4. OnePostOfAKey(posts')
    BY <2>1 DEF CommunityInv, OnePostOfAKey
  <2> QED
    BY <2>1, <2>3, <2>4 DEF CommunityInv, SayingSound
<1> QED
  BY <1>1, <1>2, <1>3

LEMMA CommunityStarts ==
  ASSUME CommunityInit
  PROVE  CommunityInv
<1>1. \A d \in Discussions : DiscussionSound(discussion[d], posts[d], communityCalls)
  BY DEF CommunityInit, DiscussionSound, DiscussionRows, DiscussionStates, PostsSound, SummaryFits
<1> QED
  BY <1>1 DEF CommunityInit, CommunityInv, OnePostOfAKey, SayingSound

LEMMA CommunityStep ==
  ASSUME CommunityAssumption, CommunityInv, [CommunityNext]_communityVars
  PROVE  CommunityInv'
<1>1. CASE UNCHANGED communityVars
  BY <1>1 DEF communityVars, CommunityInv
<1>2. ASSUME NEW d \in Discussions, CreateDiscussion(d) \/ LockDiscussion(d)
      PROVE  CommunityInv'
  BY <1>2, DiscussionCreated, DiscussionLocked
<1>3. ASSUME NEW d \in Discussions,
             \/ UpdateDiscussion(d) \/ PublishDiscussion(d) \/ RestoreDiscussion(d)
             \/ HideDiscussion(d) \/ ArchiveDiscussion(d)
             \/ \E n \in DOMAIN posts[d] : UpdatePost(d, n)
      PROVE  CommunityInv'
  BY <1>3, DiscussionModerated
<1>4. ASSUME NEW d \in Discussions, NEW n \in DOMAIN posts[d],
             ApprovePost(d, n) \/ HidePost(d, n) \/ DeletePost(d, n)
      PROVE  CommunityInv'
  BY <1>4, PostModerated DEF ApprovePost, HidePost, DeletePost
<1>5. ASSUME NEW m \in Speakers, CreateReply(m)
      PROVE  CommunityInv'
  BY <1>5, ReplyCreated
<1>6. ASSUME NEW m \in Speakers,
             \/ ReplyReads(m) \/ RebuildReads(m) \/ RebuildCommunitySearch(m)
             \/ PurgeReads(m) \/ PurgeArchivedDiscussions(m) \/ GiveUpSaying(m)
      PROVE  CommunityInv'
  BY <1>6, SiteMaintained
<1> QED
  BY <1>1, <1>2, <1>3, <1>4, <1>5, <1>6 DEF CommunityNext

LEMMA SummaryOfInv ==
  ASSUME CommunityAssumption, CommunityInv
  PROVE  SummaryAddsUp
<1>1. ASSUME NEW d \in Discussions
      PROVE  SummaryFits(discussion[d], posts[d])
  BY DEF CommunityInv, DiscussionSound
<1>2. ASSUME NEW k \in ReplyKeys
      PROVE  Cardinality(Keyed(k)) <= 1
  <2>1. ASSUME NEW x \in Keyed(k), NEW y \in Keyed(k)
        PROVE  x = y
    <3>1. PICK d, i : d \in Discussions /\ i \in KeyedIn(d, k) /\ x = <<d, i>>
      BY <2>1 DEF Keyed
    <3>2. PICK e, j : e \in Discussions /\ j \in KeyedIn(e, k) /\ y = <<e, j>>
      BY <2>1 DEF Keyed
    <3>3. \A f \in Discussions : DOMAIN posts[f] = 1..Len(posts[f])
      BY LaterIsSound
    <3>4. i \in 1..Len(posts[d]) /\ posts[d][i].key = k /\ j \in 1..Len(posts[e]) /\ posts[e][j].key = k
      BY <3>1, <3>2, <3>3 DEF KeyedIn
    <3>5. k # "none" /\ OnePostOfAKey(posts)
      BY DEF CommunityAssumption, CommunityInv
    <3> QED
      BY <3>1, <3>2, <3>4, <3>5 DEF OnePostOfAKey
  <2>2. CASE Keyed(k) = {}
    BY <2>2, FS_EmptySet
  <2>3. CASE Keyed(k) # {}
    <3>1. PICK x : Keyed(k) = {x}
      BY <2>1, <2>3
    <3> QED
      BY <3>1, FS_Singleton
  <2> QED
    BY <2>2, <2>3
<1> QED
  BY <1>1, <1>2 DEF SummaryAddsUp, SummaryFits

-----------------------------------------------------------------------------
(* CommunityTags: what a command read of the rows it replaces is still what *)
(* is there, and a tag that was ever created keeps its kind.                *)

TagKinds == {"primary", "secondary"}
TagRows == [status : {"none", "active", "archived"}, kind : TagKinds,
            parent : Tags \union {NoParent}, position : Nat]

PlacesOf(ts, k, tg) == {i \in DOMAIN ts : tg[ts[i]].kind = k}

\* A list of tags the template allows, tg being the tags there are.
ListFits(ts, tg) ==
    /\ \E n \in Nat : ts \in [1..n -> Tags]
    /\ \A i, j \in DOMAIN ts : ts[i] = ts[j] => i = j
    /\ \A i \in DOMAIN ts : tg[ts[i]].status # "none"
    /\ Cardinality(PlacesOf(ts, "primary", tg)) = 1
    /\ Cardinality(PlacesOf(ts, "secondary", tg)) <= MaxSecondary

RowsFit(rows, tg) == rows = {} \/ \E ts : ListFits(ts, tg) /\ rows = RowsOf(ts)

Replaces(read, d) == read # <<>> /\ read[1] = "replace" /\ read[2] = d

CuratorSound(read, rows, tg) ==
    \/ read = <<>>
    \/ \E t \in Tags, kind \in TagKinds, p \in Tags \union {NoParent} :
          read = <<"create", t, kind, p>>
    \/ \E t \in Tags, p \in Tags \union {NoParent} : read = <<"update", t, p>>
    \/ \E s, t \in Tags : read = <<"reorder", s, t>>
    \/ \E d \in Topics : \E ts : ListFits(ts, tg) /\ read = <<"replace", d, ts, rows[d]>>

CommunityTagsInv ==
    /\ tag \in [Tags -> TagRows]
    /\ DOMAIN assigned = Topics /\ \A d \in Topics : RowsFit(assigned[d], tag)
    /\ DOMAIN curator = Curators
    /\ \A c \in Curators : CuratorSound(curator[c], assigned, tag)
    /\ \A b, c \in Curators, d \in Topics :
          Replaces(curator[b], d) /\ Replaces(curator[c], d) => b = c

\* What the lists of tags depend on.
KindsStand(tg, new) ==
    \A t \in Tags : tg[t].status # "none" => new[t].status # "none" /\ new[t].kind = tg[t].kind

LEMMA ListStillFits ==
  ASSUME NEW tg, NEW new, KindsStand(tg, new), NEW ts, ListFits(ts, tg)
  PROVE  ListFits(ts, new)
<1>1. \A i \in DOMAIN ts : ts[i] \in Tags
  BY DEF ListFits
<1>2. \A i \in DOMAIN ts : new[ts[i]].status # "none" /\ new[ts[i]].kind = tg[ts[i]].kind
  BY <1>1 DEF ListFits, KindsStand
<1>3. \A k : PlacesOf(ts, k, new) = PlacesOf(ts, k, tg)
  BY <1>2 DEF PlacesOf
<1> QED
  BY <1>2, <1>3 DEF ListFits

\* A step that changes tags, and closes the command of c if it had one open.
LEMMA TagsChange ==
  ASSUME CommunityTagsInv, tag' \in [Tags -> TagRows], KindsStand(tag, tag'), UNCHANGED assigned,
         curator' = curator \/ \E c \in Curators : curator' = [curator EXCEPT ![c] = <<>>]
  PROVE  CommunityTagsInv'
<1>1. \A d \in Topics : RowsFit(assigned[d], tag')
  BY ListStillFits DEF CommunityTagsInv, RowsFit
<1>2. \A read : CuratorSound(read, assigned, tag) => CuratorSound(read, assigned, tag')
  BY ListStillFits DEF CuratorSound
<1>3. DOMAIN curator' = Curators /\ \A c \in Curators : curator'[c] = curator[c] \/ curator'[c] = <<>>
  BY DEF CommunityTagsInv
<1>4. CuratorSound(<<>>, assigned, tag')
  BY DEF CuratorSound
<1>5. \A c \in Curators : CuratorSound(curator'[c], assigned, tag')
  BY <1>2, <1>3, <1>4 DEF CommunityTagsInv
<1>6. \A c \in Curators, d \in Topics : Replaces(curator'[c], d) => Replaces(curator[c], d)
  BY <1>3 DEF Replaces
<1>7. \A b, c \in Curators, d \in Topics :
         Replaces(curator'[b], d) /\ Replaces(curator'[c], d) => b = c
  BY <1>6 DEF CommunityTagsInv
<1> QED
  BY <1>1, <1>3, <1>5, <1>7 DEF CommunityTagsInv

\* A command that is begun, with what it read.
LEMMA CuratorReads ==
  ASSUME CommunityTagsInv, NEW c \in Curators, NEW read, Curates(c, read),
         CuratorSound(read, assigned, tag),
         \A d \in Topics : Replaces(read, d) => ~TopicLocked(d)
  PROVE  CommunityTagsInv'
<1>1. curator[c] = <<>> /\ curator' = [curator EXCEPT ![c] = read] /\ UNCHANGED <<tag, assigned>>
  BY DEF Curates
<1>2. \A d \in Topics, b \in Curators : Replaces(read, d) => ~Replaces(curator[b], d)
  BY DEF TopicLocked, Replaces
<1>3. DOMAIN curator' = Curators /\ curator'[c] = read
      /\ \A b \in Curators \ {c} : curator'[b] = curator[b]
  BY <1>1 DEF CommunityTagsInv
<1>4. \A a, b \in Curators, d \in Topics : Replaces(curator'[a], d) /\ Replaces(curator'[b], d) => a = b
  BY <1>2, <1>3 DEF CommunityTagsInv
<1> QED
  BY <1>1, <1>3, <1>4 DEF CommunityTagsInv

LEMMA TagsCurated ==
  ASSUME CommunityTagsInv,
         \/ \E t \in Tags : ArchiveTag(t) \/ RestoreTag(t)
         \/ \E c \in Curators : CreateTag(c) \/ UpdateTag(c) \/ ReorderTags(c)
  PROVE  CommunityTagsInv'
<1>1. tag \in [Tags -> TagRows]
  BY DEF CommunityTagsInv
<1>2. ASSUME NEW t \in Tags, ArchiveTag(t) \/ RestoreTag(t)
      PROVE  CommunityTagsInv'
  <2>1. PICK s \in {"active", "archived"} : tag' = [tag EXCEPT ![t].status = s]
    BY <1>2 DEF ArchiveTag, RestoreTag
  <2>2. tag' \in [Tags -> TagRows] /\ KindsStand(tag, tag')
    BY <1>1, <2>1 DEF TagRows, KindsStand
  <2> QED
    BY <1>2, <2>2, TagsChange DEF ArchiveTag, RestoreTag, OneTagCall
<1>3. ASSUME NEW c \in Curators, CreateTag(c)
      PROVE  CommunityTagsInv'
  <2>1. PICK t \in Tags, kind \in TagKinds, p \in Tags \union {NoParent} :
           curator[c] = <<"create", t, kind, p>>
    BY <1>3 DEF CommunityTagsInv, CuratorSound, CreateTag, EndsCurating
  <2>2. tag[t].status = "none"
        /\ tag' = [tag EXCEPT ![t] = [status |-> "active", kind |-> kind, parent |-> p, position |-> 0]]
    BY <1>3, <2>1 DEF CreateTag
  <2>3. tag' \in [Tags -> TagRows] /\ KindsStand(tag, tag')
    BY <1>1, <2>2 DEF TagRows, KindsStand
  <2> QED
    BY <1>3, <2>3, TagsChange DEF CreateTag, EndsCurating
<1>4. ASSUME NEW c \in Curators, UpdateTag(c)
      PROVE  CommunityTagsInv'
  <2>1. PICK t \in Tags, p \in Tags \union {NoParent} : curator[c] = <<"update", t, p>>
    BY <1>4 DEF CommunityTagsInv, CuratorSound, UpdateTag, EndsCurating
  <2>2. tag' = [tag EXCEPT ![t].parent = p]
    BY <1>4, <2>1 DEF UpdateTag
  <2>3. tag' \in [Tags -> TagRows] /\ KindsStand(tag, tag')
    <3> DEFINE moved == [tag[t] EXCEPT !.parent = p]
    <3>1. tag' = [tag EXCEPT ![t] = moved]
      BY <2>2
    <3>4. tag[t] \in TagRows /\ p \in Tags \union {NoParent}
      BY <1>1
    <3>2. moved \in TagRows /\ moved.status = tag[t].status /\ moved.kind = tag[t].kind
      BY <3>4 DEF TagRows
    <3> HIDE DEF moved
    <3>3. tag' \in [Tags -> TagRows] /\ tag'[t] = moved /\ \A x \in Tags \ {t} : tag'[x] = tag[x]
      BY <1>1, <3>1, <3>2
    <3> QED
      BY <3>2, <3>3 DEF KindsStand
  <2> QED
    BY <1>4, <2>3, TagsChange DEF UpdateTag, EndsCurating
<1>5. ASSUME NEW c \in Curators, ReorderTags(c)
      PROVE  CommunityTagsInv'
  <2>1. PICK s \in Tags, t \in Tags : curator[c] = <<"reorder", s, t>>
    BY <1>5 DEF CommunityTagsInv, CuratorSound, ReorderTags, EndsCurating
  <2>2. tag' = [tag EXCEPT ![s].position = 0, ![t].position = 1]
    BY <1>5, <2>1 DEF ReorderTags
  <2>3. tag' \in [Tags -> TagRows] /\ KindsStand(tag, tag')
    BY <1>1, <2>2 DEF TagRows, KindsStand
  <2> QED
    BY <1>5, <2>3, TagsChange DEF ReorderTags, EndsCurating
<1> QED
  BY <1>2, <1>3, <1>4, <1>5

LEMMA DiscussionTagsReplaced ==
  ASSUME CommunityTagsInv, NEW c \in Curators, ReplaceDiscussionTags(c)
  PROVE  CommunityTagsInv'
<1>1. PICK d, ts : d \in Topics /\ ListFits(ts, tag) /\ curator[c] = <<"replace", d, ts, assigned[d]>>
  BY DEF CommunityTagsInv, CuratorSound, ReplaceDiscussionTags, EndsCurating
<1>2. /\ curator' = [curator EXCEPT ![c] = <<>>] /\ UNCHANGED tag
      /\ assigned' = assigned \/ assigned' = [assigned EXCEPT ![d] = RowsOf(ts)]
  <2> DEFINE rest == assigned[d] \ assigned[d]
  <2>1. \/ assigned' = assigned
        \/ assigned' = [assigned EXCEPT ![d] = rest \union RowsOf(ts)]
    BY <1>1 DEF ReplaceDiscussionTags
  <2>2. rest \union RowsOf(ts) = RowsOf(ts)
    OBVIOUS
  <2>3. curator' = [curator EXCEPT ![c] = <<>>] /\ UNCHANGED tag
    BY DEF ReplaceDiscussionTags, EndsCurating
  <2> HIDE DEF rest
  <2> QED
    BY <2>1, <2>2, <2>3
<1>3. DOMAIN assigned' = Topics /\ \A e \in Topics \ {d} : assigned'[e] = assigned[e]
  BY <1>2 DEF CommunityTagsInv
<1>4. \A e \in Topics : RowsFit(assigned'[e], tag)
  <2> TAKE e \in Topics
  <2>1. CASE assigned'[e] = assigned[e]
    BY <2>1 DEF CommunityTagsInv
  <2>2. CASE assigned'[e] # assigned[e]
    <3>1. assigned'[e] = RowsOf(ts)
      BY <1>2, <1>3, <2>2 DEF CommunityTagsInv
    <3> QED
      BY <1>1, <3>1 DEF RowsFit
  <2> QED
    BY <2>1, <2>2
<1>5. DOMAIN curator' = Curators /\ curator'[c] = <<>>
      /\ \A b \in Curators \ {c} : curator'[b] = curator[b]
  BY <1>2 DEF CommunityTagsInv
<1>6. \A b \in Curators : CuratorSound(curator'[b], assigned', tag)
  <2> TAKE b \in Curators
  <2>1. CASE b = c
    BY <1>5, <2>1 DEF CuratorSound
  <2>2. CASE b # c
    <3>1. Replaces(curator[c], d)
      BY <1>1 DEF Replaces
    <3>2. ~Replaces(curator[b], d) /\ d \in Topics
      BY <1>1, <2>2, <3>1 DEF CommunityTagsInv
    <3>3. \A e, us : curator[b] = <<"replace", e, us, assigned[e]>> => e # d
      BY <3>2 DEF Replaces
    <3>4. CuratorSound(curator[b], assigned, tag)
      BY DEF CommunityTagsInv
    <3>5. CuratorSound(curator[b], assigned', tag)
      BY <1>3, <3>3, <3>4 DEF CuratorSound
    <3> QED
      BY <1>5, <2>2, <3>5
  <2> QED
    BY <2>1, <2>2
<1>7. \A a, b \in Curators, e \in Topics : Replaces(curator'[a], e) /\ Replaces(curator'[b], e) => a = b
  BY <1>5 DEF CommunityTagsInv, Replaces
<1> QED
  BY <1>2, <1>3, <1>4, <1>5, <1>6, <1>7 DEF CommunityTagsInv

LEMMA CommunityTagsStart ==
  ASSUME CommunityTagsInit
  PROVE  CommunityTagsInv
BY DEF CommunityTagsInit, CommunityTagsInv, TagRows, TagKinds, RowsFit, CuratorSound, Replaces

LEMMA CommunityTagsStep ==
  ASSUME CommunityTagsAssumption, CommunityTagsInv, [CommunityTagsNext]_communityTagsVars
  PROVE  CommunityTagsInv'
<1>1. CASE UNCHANGED communityTagsVars
  BY <1>1 DEF communityTagsVars, CommunityTagsInv
<1>2. CASE \/ \E t \in Tags : ArchiveTag(t) \/ RestoreTag(t)
           \/ \E c \in Curators : CreateTag(c) \/ UpdateTag(c) \/ ReorderTags(c)
  BY <1>2, TagsCurated
<1>3. ASSUME NEW c \in Curators, CreateTagReads(c) \/ UpdateTagReads(c) \/ ReorderReads(c)
      PROVE  CommunityTagsInv'
  <2>1. PICK read : /\ Curates(c, read) /\ CuratorSound(read, assigned, tag)
                    /\ \A d \in Topics : ~Replaces(read, d)
    <3>1. CASE CreateTagReads(c)
      <4>1. PICK t \in Tags, kind \in {"primary", "secondary"}, p \in Tags \union {NoParent} :
               Curates(c, <<"create", t, kind, p>>)
        BY <3>1 DEF CreateTagReads
      <4> QED
        BY <4>1 DEF CuratorSound, Replaces, TagKinds
    <3>2. CASE UpdateTagReads(c)
      <4>1. PICK t \in Tags, p \in Tags \union {NoParent} : Curates(c, <<"update", t, p>>)
        BY <3>2 DEF UpdateTagReads
      <4> QED
        BY <4>1 DEF CuratorSound, Replaces
    <3>3. CASE ReorderReads(c)
      <4>1. PICK s \in Tags, t \in Tags : Curates(c, <<"reorder", s, t>>)
        BY <3>3 DEF ReorderReads
      <4> QED
        BY <4>1 DEF CuratorSound, Replaces
    <3> QED
      BY <1>3, <3>1, <3>2, <3>3
  <2> QED
    BY <2>1, CuratorReads
<1>4. ASSUME NEW c \in Curators, ReplaceReads(c)
      PROVE  CommunityTagsInv'
  <2>1. PICK d \in Topics, n \in 1..(1 + MaxSecondary) : \E ts \in [1..n -> Tags] :
           ~TopicLocked(d) /\ LoadTags(ts) /\ Curates(c, <<"replace", d, ts, assigned[d]>>)
    BY <1>4 DEF ReplaceReads
  <2>2. PICK ts \in [1..n -> Tags] :
           ~TopicLocked(d) /\ LoadTags(ts) /\ Curates(c, <<"replace", d, ts, assigned[d]>>)
    BY <2>1
  <2>3. ListFits(ts, tag)
    BY <2>2 DEF ListFits, LoadTags, PlacesOf, CommunityTagsAssumption
  <2>4. CuratorSound(<<"replace", d, ts, assigned[d]>>, assigned, tag)
    BY <2>3 DEF CuratorSound
  <2>5. \A e \in Topics : Replaces(<<"replace", d, ts, assigned[d]>>, e) => ~TopicLocked(e)
    BY <2>2 DEF Replaces
  <2> QED
    BY <2>2, <2>4, <2>5, CuratorReads
<1>5. ASSUME NEW c \in Curators, ReplaceDiscussionTags(c)
      PROVE  CommunityTagsInv'
  BY <1>5, DiscussionTagsReplaced
<1> QED
  BY <1>1, <1>2, <1>3, <1>4, <1>5 DEF CommunityTagsNext

\* The rows of one list are as many as its places.
LEMMA RowsAreCounted ==
  ASSUME NEW ts, NEW tg, NEW k, ListFits(ts, tg)
  PROVE  Cardinality({r \in RowsOf(ts) : tg[r[2]].kind = k}) = Cardinality(PlacesOf(ts, k, tg))
<1> DEFINE I == PlacesOf(ts, k, tg)
           R == {r \in RowsOf(ts) : tg[r[2]].kind = k}
           f == [i \in I |-> <<i, ts[i]>>]
<1>1. IsFiniteSet(I)
  <2>1. PICK n \in Nat : DOMAIN ts = 1..n
    BY DEF ListFits
  <2>2. IsFiniteSet(1..n) /\ I \subseteq 1..n
    BY <2>1, FS_Interval DEF PlacesOf
  <2> QED
    BY <2>2, FS_Subset
<1>2. \A i \in I : f[i] \in R
  BY DEF PlacesOf, RowsOf
<1>3. \A i, j \in I : f[i] = f[j] => i = j
  OBVIOUS
<1>4. \A r \in R : \E i \in I : f[i] = r
  <2> TAKE r \in R
  <2>1. PICK i \in DOMAIN ts : r = <<i, ts[i]>>
    BY DEF RowsOf
  <2>2. i \in I
    BY <2>1 DEF PlacesOf
  <2> QED
    BY <2>1, <2>2
<1>5. f \in Bijection(I, R)
  <2>1. f \in [I -> R]
    BY <1>2
  <2> QED
    BY <2>1, <1>3, <1>4 DEF Bijection, Injection, IsInjective, Surjection
<1> HIDE DEF I, R, f
<1>6. ExistsBijection(I, R)
  BY <1>5 DEF ExistsBijection
<1>7. Cardinality(R) = Cardinality(I)
  BY <1>1, <1>6, FS_Bijection
<1> QED
  BY <1>7 DEF I, R

LEMMA AssignedOfInv ==
  ASSUME CommunityTagsInv
  PROVE  AssignedFitTemplate
<1> SUFFICES ASSUME NEW d \in Topics, assigned[d] # {}
             PROVE  /\ Cardinality({r \in assigned[d] : tag[r[2]].kind = "primary"}) = 1
                    /\ Cardinality({r \in assigned[d] : tag[r[2]].kind = "secondary"}) <= MaxSecondary
                    /\ \A q, r \in assigned[d] : q[1] = r[1] => q = r
  BY DEF AssignedFitTemplate
<1>1. PICK ts : ListFits(ts, tag) /\ assigned[d] = RowsOf(ts)
  BY DEF CommunityTagsInv, RowsFit
<1>2. \A q, r \in RowsOf(ts) : q[1] = r[1] => q = r
  BY DEF RowsOf
<1>3. \A k : Cardinality({r \in RowsOf(ts) : tag[r[2]].kind = k}) = Cardinality(PlacesOf(ts, k, tag))
  BY <1>1, RowsAreCounted, Zenon
<1> QED
  BY <1>1, <1>2, <1>3 DEF ListFits

-----------------------------------------------------------------------------
(* Both, in the module that runs the services side by side.                *)

LEMMA ServicesStepCommunity ==
  ASSUME [ServicesNext]_servicesVars
  PROVE  [CommunityNext]_communityVars
BY DEF ServicesNext, servicesVars, c_

LEMMA ServicesStepTags ==
  ASSUME [ServicesNext]_servicesVars
  PROVE  [CommunityTagsNext]_communityTagsVars
BY DEF ServicesNext, servicesVars, t_

\* The counters of a discussion are those of its posts after every command, a request makes
\* one post, and the tags of a discussion are one list its template allows, for any number of
\* discussions, posts, tags and commands (community commands.py, _recompute_summary,
\* _transition_post, CreateReply, ReplaceDiscussionTags).
THEOREM CommunitySummariesAddUp == ServicesSpec => []CommunityAddsUp
<1>1. ServicesInit => CommunityInv /\ CommunityTagsInv
  BY CommunityStarts, CommunityTagsStart DEF ServicesInit
<1>2. CommunityInv /\ CommunityTagsInv /\ [ServicesNext]_servicesVars
      => CommunityInv' /\ CommunityTagsInv'
  BY CommunityAssumption, CommunityTagsAssumption, ServicesStepCommunity, ServicesStepTags,
     CommunityStep, CommunityTagsStep
<1>3. CommunityInv /\ CommunityTagsInv => CommunityAddsUp
  BY CommunityAssumption, SummaryOfInv, AssignedOfInv DEF CommunityAddsUp
<1> QED
  BY <1>1, <1>2, <1>3, PTL DEF ServicesSpec

-----------------------------------------------------------------------------
(* Types: what each service keeps beside what its property is about.       *)

\* A command that ends the subscription writes a state there is.
MarkTyped(call) == call # NotIn /\ call[1] = "ending" => call[2] \in SubStates

SubscriptionTyped ==
    /\ sub \in [status : SubStates, cycle : CycleIds, ends : MemberTimes]
    /\ level \in LevelStates /\ knownLevel \in [Members -> LevelStates]
    /\ joining \in [Purchases -> [step : JoinSteps, cycle : CycleIds]]
    /\ leaving \in [Purchases -> [step : LeaveSteps, cycle : CycleIds, entry : BOOLEAN]]
    /\ \A m \in Members : MarkTyped(at[m])
    /\ memberNow \in 0..MaxMemberTime /\ memberCalls \in 0..MaxMemberCalls

LEMMA MarksStayTyped ==
  ASSUME MembershipInv, SubscriptionTyped, NEW m \in Members, NEW call,
         at' = [at EXCEPT ![m] = call], MarkTyped(call)
  PROVE  \A n \in Members : MarkTyped(at'[n])
<1>1. \A n \in Members : at'[n] = IF n = m THEN call ELSE at[n]
  BY DEF MembershipInv
<1> QED
  BY <1>1 DEF SubscriptionTyped

LEMMA LeavesTyped ==
  ASSUME SubscriptionTyped, NEW p \in Purchases, NEW from, NEW goal \in LeaveSteps,
         NEW c \in CycleIds, NEW entered \in BOOLEAN, Leaves(p, from, goal, c, entered)
  PROVE  leaving' \in [Purchases -> [step : LeaveSteps, cycle : CycleIds, entry : BOOLEAN]]
BY DEF Leaves, SubscriptionTyped

LEMMA SubscriptionStep ==
  ASSUME MembershipAssumption, MembershipInv, SubscriptionTyped, [MembershipNext]_membershipVars
  PROVE  SubscriptionTyped'
<1>1. /\ sub \in [status : SubStates, cycle : CycleIds, ends : MemberTimes]
      /\ level \in LevelStates /\ knownLevel \in [Members -> LevelStates]
      /\ joining \in [Purchases -> [step : JoinSteps, cycle : CycleIds]]
      /\ leaving \in [Purchases -> [step : LeaveSteps, cycle : CycleIds, entry : BOOLEAN]]
      /\ \A m \in Members : MarkTyped(at[m])
      /\ memberNow \in 0..MaxMemberTime /\ memberCalls \in 0..MaxMemberCalls
      /\ MaxMemberTime \in Nat /\ MaxMemberCalls \in Nat
  BY DEF SubscriptionTyped, MembershipAssumption
<1>2. /\ cycles \in Seq(CycleRows) /\ Len(cycles) \in Nat /\ DOMAIN joining = Purchases
      /\ \A m \in Members : MemberCallSound(at[m], cycles, granted)
      /\ CycleIds = 0..Len(cycles)
  BY DEF MembershipInv, CyclesSound, CycleIds
<1>3. ASSUME UNCHANGED <<sub, cycles, joining, leaving>>, level' \in LevelStates,
             knownLevel' \in [Members -> LevelStates], \A m \in Members : MarkTyped(at'[m]),
             memberNow' \in 0..MaxMemberTime, memberCalls' \in 0..MaxMemberCalls
      PROVE  SubscriptionTyped'
  BY <1>1, <1>3 DEF SubscriptionTyped, CycleIds
<1>4. ASSUME NEW p \in Purchases, NEW goal \in JoinSteps, NEW c \in CycleIds, Joins(p, goal, c)
      PROVE  joining' \in [Purchases -> [step : JoinSteps, cycle : CycleIds]]
  BY <1>1, <1>2, <1>4 DEF Joins
<1>5. ASSUME NEW m \in Members, NEW call, Starts(m, call), MarkTyped(call)
      PROVE  memberCalls' \in 0..MaxMemberCalls /\ \A n \in Members : MarkTyped(at'[n])
  BY <1>1, <1>5, MarksStayTyped DEF Starts
<1>6. MarkTyped(NotIn)
  BY DEF MarkTyped
<1>7. ASSUME NEW p \in Purchases, StartJoining(p) \/ JoiningFails(p) PROVE SubscriptionTyped'
  <2>1. \E goal \in JoinSteps : \E c \in CycleIds : Joins(p, goal, c)
    BY <1>1, <1>2, <1>7 DEF StartJoining, JoiningFails, JoinSteps
  <2>2. joining' \in [Purchases -> [step : JoinSteps, cycle : CycleIds]]
    BY <1>4, <2>1
  <2> QED
    BY <1>1, <1>7, <2>2 DEF StartJoining, JoiningFails, SubscriptionTyped, CycleIds
<1>8. ASSUME NEW p \in Purchases, ResolveMembershipRefund(p) PROVE SubscriptionTyped'
  <2>1. PICK c : /\ c \in CyclesOf(p) \/ c = 0
                 /\ \E e \in BOOLEAN : Leaves(p, "none", "resolved", c, e)
    <3> DEFINE found == IF CyclesOf(p) = {} THEN {0} ELSE CyclesOf(p)
               started == {d \in CyclesOf(p) : cycles[d].state = "activated"}
    <3>1. PICK c \in found : Leaves(p, "none", "resolved", c, c \in started)
      BY <1>8 DEF ResolveMembershipRefund
    <3>2. (c \in CyclesOf(p) \/ c = 0) /\ (c \in started) \in BOOLEAN
      BY <3>1
    <3> HIDE DEF started
    <3> QED
      BY <3>1, <3>2
  <2>2. c \in CycleIds
    BY <1>2, <2>1 DEF CyclesOf
  <2>3. leaving' \in [Purchases -> [step : LeaveSteps, cycle : CycleIds, entry : BOOLEAN]]
    BY <2>1, <2>2, LeavesTyped DEF LeaveSteps
  <2> QED
    BY <1>1, <1>8, <2>3 DEF ResolveMembershipRefund, SubscriptionTyped, CycleIds
<1>9. ASSUME NEW p \in Purchases, ReverseGrant(p) PROVE SubscriptionTyped'
  <2>1. leaving[p].cycle \in CycleIds /\ leaving[p].entry \in BOOLEAN
    BY <1>1
  <2>2. leaving' \in [Purchases -> [step : LeaveSteps, cycle : CycleIds, entry : BOOLEAN]]
    BY <1>9, <2>1, LeavesTyped DEF ReverseGrant, LeaveSteps
  <2> QED
    BY <1>1, <1>9, <2>2 DEF ReverseGrant, SubscriptionTyped, CycleIds
<1>10. ASSUME NEW m \in Members, NEW p \in Purchases, PrepareReads(m, p) \/ CreditCycle(m, p) \/ AttachReads(m, p)
       PROVE  SubscriptionTyped'
  <2>1. PICK call : Starts(m, call) /\ MarkTyped(call)
    <3>1. \A q, w, c : MarkTyped(<<"returned", q, w, c>>) /\ MarkTyped(<<"preparing", q, w>>)
                       /\ MarkTyped(<<"attaching", q, c>>)
      BY DEF MarkTyped
    <3> QED
      BY <1>10, <3>1 DEF PrepareReads, CreditCycle, AttachReads
  <2>2. memberCalls' \in 0..MaxMemberCalls /\ \A n \in Members : MarkTyped(at'[n])
    BY <1>5, <2>1
  <2> QED
    BY <1>1, <1>3, <1>10, <2>2 DEF PrepareReads, CreditCycle, AttachReads
<1>11. ASSUME NEW m \in Members, NEW p \in Purchases, TerminateForRefund(m, p) PROVE SubscriptionTyped'
  <2>1. \/ /\ \E goal \in LeaveSteps : Leaves(p, "resolved", goal, leaving[p].cycle, leaving[p].entry)
           /\ UNCHANGED <<at, memberCalls>>
        \/ Starts(m, <<"ending", "terminated", leaving[p].cycle>>) /\ UNCHANGED leaving
    BY <1>11 DEF TerminateForRefund, LeaveSteps
  <2>2. leaving[p].cycle \in CycleIds /\ leaving[p].entry \in BOOLEAN
    BY <1>1
  <2>3. \A c : MarkTyped(<<"ending", "terminated", c>>)
    BY DEF MarkTyped, SubStates
  <2>4. leaving' \in [Purchases -> [step : LeaveSteps, cycle : CycleIds, entry : BOOLEAN]]
    BY <1>1, <2>1, <2>2, LeavesTyped
  <2>5. memberCalls' \in 0..MaxMemberCalls /\ \A n \in Members : MarkTyped(at'[n])
    BY <1>1, <1>5, <2>1, <2>3
  <2> QED
    BY <1>1, <1>11, <2>4, <2>5 DEF TerminateForRefund, SubscriptionTyped, CycleIds
<1>12. ASSUME NEW m \in Members, PrepareSubscriptionCycle(m) PROVE SubscriptionTyped'
  <2> DEFINE p == at[m][2]
             c == Len(cycles) + 1
             added == [key |-> p, state |-> "prepared"]
             call == <<"returned", p, "prepared", c>>
  <2>1. /\ cycles' = Append(cycles, added) /\ at' = [at EXCEPT ![m] = call]
        /\ sub' = [status |-> "pending_activation", cycle |-> c, ends |-> memberNow + 1]
        /\ UNCHANGED <<level, knownLevel, joining, leaving, memberNow, memberCalls>>
    BY <1>12 DEF PrepareSubscriptionCycle
  <2>2. MarkTyped(call)
    BY DEF MarkTyped
  <2>3. \A n \in Members : MarkTyped(at'[n])
    BY <2>1, <2>2, MarksStayTyped
  <2>4. p \in Purchases
    BY <1>2, <1>12 DEF PrepareSubscriptionCycle, MemberCallSound, NotIn
  <2>5. added \in CycleRows
    BY <2>4 DEF CycleRows
  <2> HIDE DEF added, call, p
  <2>6. Len(cycles') = Len(cycles) + 1
    BY <1>2, <2>1, <2>5
  <2>7. CycleIds' = 0..(Len(cycles) + 1) /\ CycleIds \subseteq CycleIds' /\ c \in CycleIds'
    BY <1>2, <2>6 DEF CycleIds
  <2>8. sub' \in [status : SubStates, cycle : CycleIds', ends : MemberTimes]
    BY <1>1, <2>1, <2>7 DEF SubStates, MemberTimes
  <2>9. leaving' \in [Purchases -> [step : LeaveSteps, cycle : CycleIds', entry : BOOLEAN]]
    BY <1>1, <2>1, <2>7
  <2> QED
    BY <1>1, <2>1, <2>3, <2>7, <2>8, <2>9 DEF SubscriptionTyped
<1>13. ASSUME NEW m \in Members, AttachPointsGrant(m) PROVE SubscriptionTyped'
  <2> DEFINE call == <<"returned", at[m][2], "done", at[m][3]>>
             rows == [cycles EXCEPT ![at[m][3]].state = "activated"]
  <2>1. /\ cycles' = rows /\ at' = [at EXCEPT ![m] = call]
        /\ sub' = [sub EXCEPT !.status = "active"]
        /\ UNCHANGED <<level, knownLevel, joining, leaving, memberNow, memberCalls>>
    BY <1>13 DEF AttachPointsGrant
  <2>2. MarkTyped(call)
    BY DEF MarkTyped
  <2>3. \A n \in Members : MarkTyped(at'[n])
    BY <2>1, <2>2, MarksStayTyped
  <2>4. Len(rows) = Len(cycles)
    BY <1>2
  <2> HIDE DEF rows, call
  <2>5. CycleIds' = CycleIds
    BY <2>1, <2>4 DEF CycleIds
  <2>6. sub' \in [status : SubStates, cycle : CycleIds, ends : MemberTimes]
    BY <1>1, <2>1 DEF SubStates
  <2> QED
    BY <1>1, <2>1, <2>3, <2>5, <2>6 DEF SubscriptionTyped
<1>14. ASSUME NEW m \in Members, RecordJoining(m) PROVE SubscriptionTyped'
  <2>1. at' = [at EXCEPT ![m] = NotIn] /\ at[m] # NotIn /\ at[m][1] = "returned" /\ UNCHANGED memberCalls
    BY <1>14 DEF RecordJoining, CommitsStep
  <2>2. \A n \in Members : MarkTyped(at'[n])
    BY <1>6, <2>1, MarksStayTyped
  <2>3. at[m][2] \in Purchases /\ at[m][3] \in JoinSteps /\ at[m][4] \in CycleIds
    BY <1>2, <2>1 DEF MemberCallSound, JoinSteps
  <2>4. UNCHANGED joining \/ Joins(at[m][2], at[m][3], at[m][4])
    BY <1>14 DEF RecordJoining
  <2>5. joining' \in [Purchases -> [step : JoinSteps, cycle : CycleIds]]
    BY <1>1, <1>4, <2>3, <2>4
  <2> QED
    BY <1>1, <1>14, <2>1, <2>2, <2>5 DEF RecordJoining, SubscriptionTyped, CycleIds
<1>15. ASSUME NEW m \in Members, EndSubscription(m) PROVE SubscriptionTyped'
  <2>1. /\ at' = [at EXCEPT ![m] = NotIn] /\ at[m] # NotIn /\ at[m][1] = "ending" /\ UNCHANGED memberCalls
        /\ sub' = [sub EXCEPT !.status = at[m][2]]
    BY <1>15 DEF EndSubscription, CommitsStep
  <2>2. \A n \in Members : MarkTyped(at'[n])
    BY <1>6, <2>1, MarksStayTyped
  <2>3. at[m][2] \in SubStates
    BY <1>1, <2>1 DEF MarkTyped
  <2>4. sub' \in [status : SubStates, cycle : CycleIds, ends : MemberTimes]
    BY <1>1, <2>1, <2>3
  <2> QED
    BY <1>1, <1>15, <2>1, <2>2, <2>4 DEF EndSubscription, SubscriptionTyped, CycleIds
<1>16. ASSUME NEW m \in Members, GiveUpMembership(m) \/ HydrateLevels(m) PROVE SubscriptionTyped'
  <2>1. at' = [at EXCEPT ![m] = NotIn] /\ UNCHANGED <<sub, cycles, joining, leaving, level, memberNow, memberCalls>>
        /\ knownLevel' \in {knownLevel, [knownLevel EXCEPT ![m] = level]}
    BY <1>16 DEF GiveUpMembership, HydrateLevels
  <2>2. \A n \in Members : MarkTyped(at'[n])
    BY <1>6, <2>1, MarksStayTyped
  <2> QED
    BY <1>1, <1>3, <2>1, <2>2
<1>17. ASSUME NEW m \in Members, NEW mark \in DOMAIN MayEnd, EndReads(m, mark) PROVE SubscriptionTyped'
  <2>1. Starts(m, <<"ending", mark>>)
    BY <1>17 DEF EndReads
  <2>2. MarkTyped(<<"ending", mark>>)
    BY DEF MarkTyped, MayEnd, SubStates
  <2>3. memberCalls' \in 0..MaxMemberCalls /\ \A n \in Members : MarkTyped(at'[n])
    BY <1>5, <2>1, <2>2
  <2> QED
    BY <1>1, <1>3, <1>17, <2>3 DEF EndReads
<1>18. ASSUME NEW m \in Members, NEW mark \in LevelStates, SetLevelStatus(m, mark) PROVE SubscriptionTyped'
  BY <1>1, <1>3, <1>18 DEF SetLevelStatus
<1>19. CASE MemberTimePasses
  BY <1>1, <1>3, <1>19 DEF MemberTimePasses
<1>20. CASE UNCHANGED membershipVars
  BY <1>1, <1>3, <1>20 DEF membershipVars
<1> QED
  BY <1>7, <1>8, <1>9, <1>10, <1>11, <1>12, <1>13, <1>14, <1>15, <1>16, <1>17, <1>18, <1>19, <1>20
  DEF MembershipNext

LEMMA MembershipKeepsTypes == MembershipSpec => []MembershipTypeOK
<1> USE MembershipAssumption
<1>1. MembershipInit => SubscriptionTyped
  <2> SUFFICES ASSUME MembershipInit PROVE SubscriptionTyped
    OBVIOUS
  <2>1. CycleIds = {0} /\ at = [m \in Members |-> NotIn]
    BY DEF MembershipInit, CycleIds
  <2>2. sub \in [status : {"none", "expired"}, cycle : {0}, ends : {0}] /\ MaxMemberTime \in Nat
    BY DEF MembershipInit, MembershipAssumption
  <2>3. sub \in [status : SubStates, cycle : CycleIds, ends : MemberTimes]
    BY <2>1, <2>2 DEF SubStates, MemberTimes
  <2> QED
    BY <2>1, <2>3 DEF MembershipInit, SubscriptionTyped, LevelStates, JoinSteps, LeaveSteps, MarkTyped,
                      MembershipAssumption
<1>2. MembershipInv /\ SubscriptionTyped => MembershipTypeOK
  <2> SUFFICES ASSUME MembershipInv, SubscriptionTyped PROVE MembershipTypeOK
    OBVIOUS
  <2>1. /\ cycles \in Seq(CycleRows) /\ granted \subseteq 1..Len(cycles) /\ DOMAIN at = Members
    BY DEF MembershipInv, CyclesSound
  <2>2. \A c \in 1..Len(cycles) : cycles[c] \in CycleRows
    BY <2>1
  <2>3. \A c \in 1..Len(cycles) : cycles[c] \in [key : Purchases, state : {"prepared", "activated"}]
    BY <2>2 DEF CycleRows
  <2> QED
    BY <2>1, <2>3 DEF MembershipTypeOK, SubscriptionTyped
<1> QED
  BY <1>1, <1>2, MembershipStarts, MembershipStep, SubscriptionStep, PTL DEF MembershipSpec

CardRows(n) == [status : {"none", "issued", "reserved", "redeemed", "revoked"},
                redemption : 0..n, until : Nat]
ClaimRows(n) == [known : BOOLEAN, redemption : 0..n]

\* What a desk commits or cancels is a redemption there is.
DeskTyped(call, n) == call # <<>> /\ call[1] \in {"committing", "cancelling"} => call[2] \in 1..n

GiftsTyped ==
    /\ batch \in {"none", "active", "closed"}
    /\ card \in [Cards -> CardRows(Len(redemptions))]
    /\ claim \in [Claims -> ClaimRows(Len(redemptions))]
    /\ redemptions \in Seq(GiftRows)
    /\ redeeming \in Seq(GiftSteps) /\ Len(redeeming) = Len(redemptions)
    /\ fulfilled \subseteq 1..Len(redemptions)
    /\ DOMAIN desk = Desks /\ \A d \in Desks : DeskTyped(desk[d], Len(redemptions))
    /\ giftNow \in 0..MaxGiftTime /\ giftCalls \in 0..MaxGiftCalls

LEMMA DeskStaysTyped ==
  ASSUME GiftsTyped, NEW d \in Desks, NEW call, DeskTyped(call, Len(redemptions)),
         desk' = [desk EXCEPT ![d] = call]
  PROVE  DOMAIN desk' = Desks /\ \A c \in Desks : DeskTyped(desk'[c], Len(redemptions))
<1>1. \A c \in Desks : desk'[c] = IF c = d THEN call ELSE desk[c]
  BY DEF GiftsTyped
<1> QED
  BY <1>1 DEF GiftsTyped

LEMMA ReservesTypes ==
  ASSUME GiftCardsAssumption, GiftsTyped, NEW k \in GiftKeys, NEW src \in Sources, Reserves(k, src),
         card' \in [Cards -> CardRows(Len(redemptions) + 1)],
         claim' \in [Claims -> ClaimRows(Len(redemptions) + 1)],
         UNCHANGED <<batch, fulfilled, desk, giftNow, giftCalls>>
  PROVE  GiftsTyped'
<1> DEFINE fresh == [source |-> src, key |-> k, status |-> "reserved", until |-> giftNow + ReserveTtl]
           n == Len(redemptions)
<1>1. redemptions' = Append(redemptions, fresh) /\ redeeming' = Append(redeeming, "none")
  BY DEF Reserves
<1>2. fresh \in GiftRows /\ "none" \in GiftSteps
  BY GiftCardsAssumption DEF GiftRows, GiftSteps, GiftsTyped
<1>3. redemptions \in Seq(GiftRows) /\ redeeming \in Seq(GiftSteps) /\ Len(redeeming) = n /\ n \in Nat
  BY DEF GiftsTyped
<1> HIDE DEF fresh
<1>4. /\ redemptions' \in Seq(GiftRows) /\ Len(redemptions') = n + 1
      /\ redeeming' \in Seq(GiftSteps) /\ Len(redeeming') = n + 1
  BY <1>1, <1>2, <1>3
<1>5. \A c \in Desks : DeskTyped(desk[c], n + 1)
  BY <1>3 DEF GiftsTyped, DeskTyped
<1>6. fulfilled \subseteq 1..(n + 1)
  BY <1>3 DEF GiftsTyped
<1> QED
  BY <1>4, <1>5, <1>6 DEF GiftsTyped

LEMMA RedeemsTypes ==
  ASSUME GiftsTyped, NEW i \in 1..Len(redemptions), NEW before, NEW then \in GiftSteps,
         Redeems(i, before, then), UNCHANGED fulfilled
  PROVE  GiftsTyped'
<1>1. redeeming' \in Seq(GiftSteps) /\ Len(redeeming') = Len(redeeming)
  BY DEF Redeems, GiftsTyped
<1> QED
  BY <1>1 DEF Redeems, GiftsTyped

\* A status is written to a redemption, and the row of its source follows.
LEMMA StatusTypes ==
  ASSUME GiftsTyped, NEW d \in Desks, NEW i \in 1..Len(redemptions),
         NEW mark \in {"committed", "cancelled"},
         redemptions' = MarkedAs(redemptions, i, mark),
         desk' = [desk EXCEPT ![d] = <<>>],
         card' \in [Cards -> CardRows(Len(redemptions))],
         claim' \in [Claims -> ClaimRows(Len(redemptions))],
         UNCHANGED <<batch, redeeming, fulfilled, giftNow, giftCalls>>
  PROVE  GiftsTyped'
<1>1. redemptions \in Seq(GiftRows)
  BY DEF GiftsTyped
<1>3. OneMarked(redemptions', redemptions, i, mark)
  BY <1>1, RowMarked
<1>4. redemptions' \in Seq(GiftRows) /\ Len(redemptions') = Len(redemptions)
  BY <1>3 DEF OneMarked
<1>5. DeskTyped(<<>>, Len(redemptions))
  BY DEF DeskTyped
<1>6. DOMAIN desk' = Desks /\ \A c \in Desks : DeskTyped(desk'[c], Len(redemptions))
  BY <1>5, DeskStaysTyped
<1> QED
  BY <1>4, <1>6 DEF GiftsTyped

\* What a desk that commits a redemption writes besides the card or the claim.
LEMMA CommitWrites ==
  ASSUME NEW d, CommitGiftCardRedemption(d)
  PROVE  /\ desk[d] # <<>> /\ desk[d][1] = "committing" /\ desk' = [desk EXCEPT ![d] = <<>>]
         /\ redemptions' = MarkedAs(redemptions, desk[d][2], "committed")
         /\ UNCHANGED <<batch, redeeming, fulfilled, giftNow, giftCalls>>
<1>1. desk[d] # <<>> /\ desk[d][1] = "committing" /\ desk' = [desk EXCEPT ![d] = <<>>]
  <2>1. Closes(d, "committing")
    BY DEF CommitGiftCardRedemption
  <2> QED
    BY <2>1 DEF Closes, Free
<1>2. redemptions' = MarkedAs(redemptions, desk[d][2], "committed")
  BY DEF CommitGiftCardRedemption, MarkedAs
<1>3. UNCHANGED <<batch, redeeming, fulfilled, giftNow, giftCalls>>
  BY DEF CommitGiftCardRedemption, Closes
<1> QED
  BY <1>1, <1>2, <1>3

\* What a desk that cancels a redemption writes besides the card or the claim.
LEMMA CancelWrites ==
  ASSUME NEW d, CancelGiftCardRedemption(d)
  PROVE  /\ desk[d] # <<>> /\ desk[d][1] = "cancelling" /\ desk' = [desk EXCEPT ![d] = <<>>]
         /\ redemptions' = MarkedAs(redemptions, desk[d][2], "cancelled")
         /\ UNCHANGED <<batch, redeeming, fulfilled, giftNow, giftCalls>>
<1>1. desk[d] # <<>> /\ desk[d][1] = "cancelling" /\ desk' = [desk EXCEPT ![d] = <<>>]
  <2>1. Closes(d, "cancelling")
    BY DEF CancelGiftCardRedemption
  <2> QED
    BY <2>1 DEF Closes, Free
<1>2. redemptions' = MarkedAs(redemptions, desk[d][2], "cancelled")
  BY DEF CancelGiftCardRedemption, MarkedAs
<1>3. UNCHANGED <<batch, redeeming, fulfilled, giftNow, giftCalls>>
  BY DEF CancelGiftCardRedemption, Closes
<1> QED
  BY <1>1, <1>2, <1>3

LEMMA GiftDeskTypes ==
  ASSUME GiftCardsAssumption, GiftsTyped, NEW d \in Desks,
         \/ \E c \in Cards : RevokeReads(d, c)
         \/ \E i \in RedemptionIds : CommitReads(d, i) \/ CancelGiftReads(d, i)
         \/ RevokeGiftCard(d) \/ CommitGiftCardRedemption(d)
         \/ CancelGiftCardRedemption(d) \/ GiveUpGift(d)
  PROVE  GiftsTyped'
<1> DEFINE n == Len(redemptions)
<1>1. /\ card \in [Cards -> CardRows(n)] /\ claim \in [Claims -> ClaimRows(n)] /\ n \in Nat
      /\ \A c \in Desks : DeskTyped(desk[c], n)
      /\ giftCalls \in 0..MaxGiftCalls /\ MaxGiftCalls \in Nat
      /\ redemptions \in Seq(GiftRows)
  BY GiftCardsAssumption DEF GiftsTyped
<1>2. DeskTyped(<<>>, n)
  BY DEF DeskTyped
\* What a command writes to the row of a source, if it is a card or a claim.
<1> DEFINE redeemed(c) == [card EXCEPT ![c].status = "redeemed", ![c].until = 0]
           revoked(c) == [card EXCEPT ![c].status = "revoked"]
           issued(c) == [card EXCEPT ![c] = [status |-> "issued", redemption |-> 0, until |-> 0]]
           linked(c, j) == [claim EXCEPT ![c].redemption = j]
<1>3. ASSUME NEW c
      PROVE  /\ redeemed(c) \in [Cards -> CardRows(n)]
             /\ revoked(c) \in [Cards -> CardRows(n)]
             /\ issued(c) \in [Cards -> CardRows(n)]
  <2> DEFINE written(x) == [x EXCEPT !.status = "redeemed", !.until = 0]
             ended(x) == [x EXCEPT !.status = "revoked"]
             free == [status |-> "issued", redemption |-> 0, until |-> 0]
  <2>1. \A x \in CardRows(n) : written(x) \in CardRows(n) /\ ended(x) \in CardRows(n)
    BY DEF CardRows
  <2>2. free \in CardRows(n)
    BY <1>1 DEF CardRows
  <2>3. /\ redeemed(c) = [card EXCEPT ![c] = written(card[c])]
        /\ revoked(c) = [card EXCEPT ![c] = ended(card[c])]
    BY <1>1
  <2>4. \A x \in CardRows(n) : [card EXCEPT ![c] = x] \in [Cards -> CardRows(n)]
    BY <1>1
  <2>5. \A x : c \notin Cards => [card EXCEPT ![c] = x] = card
    BY <1>1
  <2> HIDE DEF free, written, ended
  <2>6. CASE c \in Cards
    <3>1. written(card[c]) \in CardRows(n) /\ ended(card[c]) \in CardRows(n)
      BY <1>1, <2>1, <2>6
    <3> QED
      BY <2>2, <2>3, <2>4, <3>1 DEF free
  <2> QED
    BY <1>1, <2>3, <2>5, <2>6 DEF free
<1>4. ASSUME NEW c, NEW j \in 0..n PROVE linked(c, j) \in [Claims -> ClaimRows(n)]
  BY <1>1, <1>4 DEF ClaimRows
<1> HIDE DEF redeemed, revoked, issued, linked
<1>5. ASSUME NEW call, Opens(d, call), DeskTyped(call, n),
             UNCHANGED <<batch, card, claim, redemptions, redeeming, fulfilled, giftNow>>
      PROVE  GiftsTyped'
  <2>1. DOMAIN desk' = Desks /\ \A c \in Desks : DeskTyped(desk'[c], n)
    BY <1>5, DeskStaysTyped DEF Opens
  <2> QED
    BY <1>1, <1>5, <2>1 DEF Opens, GiftsTyped
<1>6. ASSUME NEW c, RevokeReads(d, c) PROVE GiftsTyped'
  <2>1. DeskTyped(<<"revoking", c>>, n)
    BY DEF DeskTyped
  <2> QED
    BY <1>5, <1>6, <2>1 DEF RevokeReads
<1>7. ASSUME NEW i \in RedemptionIds, CommitReads(d, i) \/ CancelGiftReads(d, i) PROVE GiftsTyped'
  <2>1. DeskTyped(<<"committing", i>>, n) /\ DeskTyped(<<"cancelling", i>>, n)
    BY DEF DeskTyped, RedemptionIds
  <2> QED
    BY <1>5, <1>7, <2>1 DEF CommitReads, CancelGiftReads
<1>8. CASE RevokeGiftCard(d) \/ GiveUpGift(d)
  <2>1. /\ desk' = [desk EXCEPT ![d] = <<>>]
        /\ UNCHANGED <<batch, claim, redemptions, redeeming, fulfilled, giftNow, giftCalls>>
        /\ card' = card \/ \E c : card' = revoked(c)
    BY <1>8 DEF RevokeGiftCard, Closes, GiveUpGift, revoked
  <2>2. DOMAIN desk' = Desks /\ \A c \in Desks : DeskTyped(desk'[c], n)
    BY <1>2, <2>1, DeskStaysTyped
  <2>3. card' \in [Cards -> CardRows(n)]
    BY <1>1, <1>3, <2>1
  <2> QED
    BY <2>1, <2>2, <2>3 DEF GiftsTyped
<1>9. CASE CommitGiftCardRedemption(d)
  <2> DEFINE i == desk[d][2]
             src == redemptions[i].source
  <2>1. /\ desk[d] # <<>> /\ desk[d][1] = "committing" /\ desk' = [desk EXCEPT ![d] = <<>>]
        /\ redemptions' = MarkedAs(redemptions, i, "committed")
        /\ UNCHANGED <<batch, redeeming, fulfilled, giftNow, giftCalls>>
    BY <1>9, CommitWrites, Zenon
  <2>7. \/ card' = redeemed(src) /\ UNCHANGED claim
        \/ claim' = linked(src, i) /\ UNCHANGED card
    BY <1>9 DEF CommitGiftCardRedemption, redeemed, linked
  <2>2. i \in 1..n
    BY <1>1, <2>1 DEF DeskTyped
  <2>3. card' \in [Cards -> CardRows(n)]
    BY <1>1, <1>3, <2>7, Zenon
  <2>4. claim' \in [Claims -> ClaimRows(n)]
    <3>1. 0 \in 0..n /\ i \in 0..n
      BY <1>1, <2>2
    <3>2. CASE UNCHANGED claim
      BY <1>1, <3>2
    <3>3. CASE claim' = linked(src, i)
      BY <1>4, <3>1, <3>3, Zenon
    <3> QED
      BY <2>7, <3>2, <3>3
  <2> HIDE DEF src, i
  <2> QED
    BY <2>1, <2>2, <2>3, <2>4, StatusTypes
<1>10. CASE CancelGiftCardRedemption(d)
  <2> DEFINE i == desk[d][2]
             src == redemptions[i].source
  <2>1. /\ desk[d] # <<>> /\ desk[d][1] = "cancelling" /\ desk' = [desk EXCEPT ![d] = <<>>]
        /\ redemptions' = MarkedAs(redemptions, i, "cancelled")
        /\ UNCHANGED <<batch, redeeming, fulfilled, giftNow, giftCalls>>
    BY <1>10, CancelWrites, Zenon
  <2>7. \/ card' \in {issued(src), card} /\ UNCHANGED claim
        \/ claim' = linked(src, 0) /\ UNCHANGED card
    BY <1>10 DEF CancelGiftCardRedemption, issued, linked
  <2>2. i \in 1..n
    BY <1>1, <2>1 DEF DeskTyped
  <2>3. card' \in [Cards -> CardRows(n)]
    BY <1>1, <1>3, <2>7, Zenon
  <2>4. claim' \in [Claims -> ClaimRows(n)]
    <3>1. 0 \in 0..n /\ i \in 0..n
      BY <1>1, <2>2
    <3>2. CASE UNCHANGED claim
      BY <1>1, <3>2
    <3>3. CASE claim' = linked(src, 0)
      BY <1>4, <3>1, <3>3, Zenon
    <3> QED
      BY <2>7, <3>2, <3>3
  <2> HIDE DEF src, i
  <2> QED
    BY <2>1, <2>2, <2>3, <2>4, StatusTypes
<1> QED
  BY <1>6, <1>7, <1>8, <1>9, <1>10

LEMMA GiftsTypedStep ==
  ASSUME GiftCardsAssumption, GiftsTyped, [GiftCardsNext]_giftCardsVars
  PROVE  GiftsTyped'
<1> DEFINE n == Len(redemptions)
<1>1. /\ card \in [Cards -> CardRows(n)] /\ claim \in [Claims -> ClaimRows(n)] /\ n \in Nat
      /\ giftNow \in 0..MaxGiftTime /\ MaxGiftTime \in Nat /\ ReserveTtl \in Nat
      /\ fulfilled \subseteq 1..n
  BY GiftCardsAssumption DEF GiftsTyped
<1>2. CASE GenerateGiftCardBatch \/ CloseGiftCardBatch
  <2>5. \A x \in CardRows(n) : [x EXCEPT !.status = "issued"] \in CardRows(n)
    BY DEF CardRows
  <2>6. card' = card \/ card' = [c \in Cards |-> [card[c] EXCEPT !.status = "issued"]]
    BY <1>2 DEF GenerateGiftCardBatch, CloseGiftCardBatch
  <2>1. card' \in [Cards -> CardRows(n)]
    BY <1>1, <2>5, <2>6
  <2> QED
    BY <1>2, <2>1 DEF GenerateGiftCardBatch, CloseGiftCardBatch, GiftsTyped
<1>3. ASSUME NEW c \in Claims, RecordProviderPurchase(c) PROVE GiftsTyped'
  <2>1. claim' \in [Claims -> ClaimRows(n)]
    BY <1>1, <1>3 DEF RecordProviderPurchase, ClaimRows
  <2> QED
    BY <1>3, <2>1 DEF RecordProviderPurchase, GiftsTyped
<1>4. CASE GiftTimePasses
  BY <1>1, <1>4 DEF GiftTimePasses, GiftsTyped
<1>5. ASSUME NEW k \in GiftKeys, NEW c \in Cards, ReserveCard(k, c) PROVE GiftsTyped'
  <2>1. [status |-> "reserved", redemption |-> n + 1, until |-> giftNow + ReserveTtl] \in CardRows(n + 1)
    BY <1>1 DEF CardRows
  <2>2. \A x \in CardRows(n) : x \in CardRows(n + 1)
    BY <1>1 DEF CardRows
  <2>3. card' \in [Cards -> CardRows(n + 1)]
    BY <1>1, <1>5, <2>1, <2>2 DEF ReserveCard
  <2>4. claim' \in [Claims -> ClaimRows(n + 1)]
    BY <1>1, <1>5 DEF ReserveCard, ClaimRows
  <2> QED
    BY <1>5, <2>3, <2>4, ReservesTypes DEF ReserveCard, Sources
<1>6. ASSUME NEW k \in GiftKeys, NEW c \in Claims, ReserveClaim(k, c) PROVE GiftsTyped'
  <2>1. [known |-> TRUE, redemption |-> n + 1] \in ClaimRows(n + 1)
    BY <1>1 DEF ClaimRows
  <2>2. \A x \in ClaimRows(n) : x \in ClaimRows(n + 1)
    BY <1>1 DEF ClaimRows
  <2>3. claim' \in [Claims -> ClaimRows(n + 1)]
    BY <1>1, <1>6, <2>1, <2>2 DEF ReserveClaim
  <2>4. card' \in [Cards -> CardRows(n + 1)]
    BY <1>1, <1>6 DEF ReserveClaim, CardRows
  <2> QED
    BY <1>6, <2>3, <2>4, ReservesTypes DEF ReserveClaim, Sources
<1>7. ASSUME NEW i \in RedemptionIds, StartRedeeming(i) \/ ValidateRedemption(i) \/ RecordRedeeming(i) \/ RedeemingFails(i)
      PROVE  GiftsTyped'
  <2>1. \E before : \E then \in GiftSteps : Redeems(i, before, then)
    BY <1>7 DEF StartRedeeming, ValidateRedemption, RecordRedeeming, RedeemingFails, GiftSteps
  <2>2. UNCHANGED fulfilled /\ i \in 1..n
    BY <1>7 DEF StartRedeeming, ValidateRedemption, RecordRedeeming, RedeemingFails, RedemptionIds
  <2> QED
    BY <2>1, <2>2, RedeemsTypes
<1>8. ASSUME NEW i \in RedemptionIds, FulfillRedemption(i) PROVE GiftsTyped'
  BY <1>8 DEF FulfillRedemption, GiftsTyped, RedemptionIds
<1>9. ASSUME NEW d \in Desks, \/ \E c \in Cards : RevokeReads(d, c)
                              \/ \E i \in RedemptionIds : CommitReads(d, i) \/ CancelGiftReads(d, i)
                              \/ RevokeGiftCard(d) \/ CommitGiftCardRedemption(d)
                              \/ CancelGiftCardRedemption(d) \/ GiveUpGift(d)
      PROVE  GiftsTyped'
  BY <1>9, GiftDeskTypes
<1>10. CASE UNCHANGED giftCardsVars
  BY <1>10 DEF giftCardsVars, GiftsTyped
<1> QED
  BY <1>2, <1>3, <1>4, <1>5, <1>6, <1>7, <1>8, <1>9, <1>10 DEF GiftCardsNext

\* Also where staff cancel redemptions that are under way.
LEMMA GiftCardsKeepTypes == GiftCardsSpec => []GiftCardsTypeOK
<1> USE GiftCardsAssumption
<1>1. GiftCardsInit => GiftsTyped
  BY DEF GiftCardsInit, GiftsTyped, CardRows, ClaimRows, DeskTyped, GiftCardsAssumption
<1>2. GiftsTyped => GiftCardsTypeOK
  <2> SUFFICES ASSUME GiftsTyped PROVE GiftCardsTypeOK
    OBVIOUS
  <2>1. redemptions \in Seq(GiftRows) /\ redeeming \in Seq(GiftSteps) /\ Len(redeeming) = Len(redemptions)
    BY DEF GiftsTyped
  <2>2. \A i \in 1..Len(redemptions) : redemptions[i] \in GiftRows
    BY <2>1
  <2>3. redeeming \in [1..Len(redemptions) -> GiftSteps]
    BY <2>1
  <2> QED
    BY <2>2, <2>3 DEF GiftsTyped, GiftCardsTypeOK, GiftRows, CardRows, ClaimRows, RedemptionIds
<1> QED
  BY <1>1, <1>2, GiftsTypedStep, PTL DEF GiftCardsSpec

-----------------------------------------------------------------------------
(* A discussion has at most MaxPosts posts, and its summary and its        *)
(* documents count no more.                                                *)

CommunityBounded ==
    /\ communityCalls \in 0..MaxCommunityCalls
    /\ discussion \in [Discussions -> DiscussionRows]
    /\ document \in [Discussions -> SUBSET (0..MaxPosts)]
    /\ \A d \in Discussions : /\ Len(posts[d]) <= MaxPosts
                              /\ discussion[d].last <= MaxPosts /\ discussion[d].replies <= MaxPosts

LEMMA NumbersAreFinite ==
  ASSUME NEW n \in Nat
  PROVE  IsFiniteSet(1..n) /\ Cardinality(1..n) = n
BY FS_Interval

LEMMA RecomputedIsBounded ==
  ASSUME NEW now \in Nat, NEW p, PostsSound(p, now), NEW summary \in DiscussionRows,
         MaxPosts \in Nat, Len(p) <= MaxPosts
  PROVE  RecomputedSummary(summary, p).last <= MaxPosts
         /\ RecomputedSummary(summary, p).replies <= MaxPosts
<1> DEFINE S == PublishedPosts(p)
           last == IF S = {} THEN 0 ELSE CHOOSE n \in S : IsLast(p, n)
<1>1. Len(p) \in Nat /\ S \subseteq 1..Len(p)
  <2>1. p \in Seq(PostRows)
    BY DEF PostsSound
  <2> QED
    BY <2>1, PostRowsOf, PublishedPostsAreFinite
<1>2. last <= MaxPosts
  <2>1. S # {} => last \in S
    BY LastPostExists
  <2> HIDE DEF S
  <2>2. CASE S = {}
    BY <2>2
  <2>3. CASE S # {}
    <3>1. last \in S
      BY <2>1, <2>3
    <3> HIDE DEF last
    <3> QED
      BY <1>1, <3>1
  <2> QED
    BY <2>2, <2>3
<1>3. Cardinality(S \ {1}) <= MaxPosts
  <2> DEFINE places == 1..Len(p)
  <2> HIDE DEF S
  <2>1. S \ {1} \subseteq places
    BY <1>1
  <2>2. IsFiniteSet(places) /\ Cardinality(places) = Len(p)
    BY <1>1, NumbersAreFinite
  <2> HIDE DEF places
  <2>3. Cardinality(S \ {1}) <= Len(p) /\ Cardinality(S \ {1}) \in Nat
    BY <2>1, <2>2, FS_Subset, FS_CardinalityType
  <2> QED
    BY <1>1, <2>3
<1>4. RecomputedSummary(summary, p) = [summary EXCEPT !.replies = Cardinality(S \ {1}), !.last = last]
  BY DEF RecomputedSummary
<1> HIDE DEF S, last
<1> QED
  BY <1>2, <1>3, <1>4 DEF DiscussionRows

\* What a command on one discussion leaves is sound, so its posts bound the rest.
LEMMA WritesAreBounded ==
  ASSUME CommunityAssumption, CommunityInv', CommunityBounded,
         communityCalls' \in 0..MaxCommunityCalls, DOMAIN posts = Discussions,
         NEW d \in Discussions, NEW summary, NEW p, Writes(d, summary, p),
         Len(p) <= MaxPosts, summary.last <= MaxPosts, summary.replies <= MaxPosts
  PROVE  CommunityBounded'
<1>1. /\ discussion' = [discussion EXCEPT ![d] = summary] /\ discussion'[d] = summary
      /\ posts'[d] = p /\ \A e \in Discussions \ {d} : posts'[e] = posts[e]
      /\ document' = [document EXCEPT ![d] = SyncedDocuments(summary.status, p)]
  BY DEF Writes, CommunityBounded
<1>2. DiscussionSound(discussion'[d], posts'[d], communityCalls')
  BY DEF CommunityInv
<1>3. summary \in DiscussionRows /\ PostsSound(p, communityCalls')
  BY <1>1, <1>2 DEF DiscussionSound
<1>4. SyncedDocuments(summary.status, p) \subseteq 0..MaxPosts
  <2>1. p \in Seq(PostRows)
    BY <1>3 DEF PostsSound
  <2>2. PublishedPosts(p) \subseteq 1..Len(p) /\ Len(p) \in Nat
    BY <1>3, <2>1, PostRowsOf, PublishedPostsAreFinite
  <2> QED
    BY <2>2 DEF SyncedDocuments, CommunityAssumption
<1>5. discussion' \in [Discussions -> DiscussionRows] /\ document' \in [Discussions -> SUBSET (0..MaxPosts)]
  BY <1>1, <1>3, <1>4 DEF CommunityBounded
<1>6. ASSUME NEW e \in Discussions
      PROVE  /\ Len(posts'[e]) <= MaxPosts
             /\ discussion'[e].last <= MaxPosts /\ discussion'[e].replies <= MaxPosts
  <2>1. CASE e = d
    BY <1>1, <2>1
  <2>2. CASE e # d
    BY <1>1, <2>2 DEF CommunityBounded
  <2> QED
    BY <2>1, <2>2
<1> QED
  BY <1>5, <1>6 DEF CommunityBounded

\* A command that computes the summary again from what it leaves of the posts.
LEMMA RecomputedWritesAreBounded ==
  ASSUME CommunityAssumption, CommunityInv, CommunityInv', CommunityBounded,
         communityCalls' \in 0..MaxCommunityCalls,
         NEW d \in Discussions, NEW summary \in DiscussionRows, NEW p,
         Writes(d, RecomputedSummary(summary, p), p), Len(p) <= MaxPosts
  PROVE  CommunityBounded'
<1>1. posts'[d] = p /\ DOMAIN posts = Discussions
  BY DEF CommunityInv, Writes
<1>2. PostsSound(p, communityCalls') /\ communityCalls' \in Nat
  BY <1>1 DEF CommunityInv, DiscussionSound
<1>3. MaxPosts \in Nat
  BY DEF CommunityAssumption
<1>4. RecomputedSummary(summary, p).last <= MaxPosts /\ RecomputedSummary(summary, p).replies <= MaxPosts
  BY <1>2, <1>3, RecomputedIsBounded
<1> QED
  BY <1>1, <1>4, WritesAreBounded

LEMMA PostsKeepTheirNumber ==
  ASSUME NEW S, NEW p \in Seq(S), NEW q \in Seq(S), DOMAIN q = DOMAIN p
  PROVE  Len(q) = Len(p)
<1>1. Len(p) \in Nat /\ Len(q) \in Nat /\ 1..Len(q) = 1..Len(p)
  OBVIOUS
<1>2. Len(q) <= Len(p) /\ Len(p) <= Len(q)
  BY <1>1
<1> QED
  BY <1>1, <1>2

LEMMA DiscussionCommandsAreBounded ==
  ASSUME CommunityAssumption, CommunityInv, CommunityInv', CommunityBounded, NEW d \in Discussions,
         \/ CreateDiscussion(d) \/ UpdateDiscussion(d)
         \/ PublishDiscussion(d) \/ RestoreDiscussion(d)
         \/ HideDiscussion(d) \/ ArchiveDiscussion(d)
         \/ \E n \in DOMAIN posts[d] : UpdatePost(d, n)
  PROVE  CommunityBounded'
<1>1. Says
  BY DEF CreateDiscussion, UpdateDiscussion, UpdatePost, PublishDiscussion, RestoreDiscussion,
         HideDiscussion, ArchiveDiscussion
<1>2. communityCalls' \in 0..MaxCommunityCalls
  BY <1>1 DEF Says, CommunityBounded, CommunityAssumption
<1>3. /\ discussion[d] \in DiscussionRows /\ posts[d] \in Seq(PostRows) /\ DOMAIN posts = Discussions
      /\ Len(posts[d]) <= MaxPosts /\ discussion[d].last <= MaxPosts /\ discussion[d].replies <= MaxPosts
      /\ communityCalls' \in Nat
  BY LaterIsSound DEF CommunityInv, CommunityBounded
<1>4. CASE CreateDiscussion(d)
  <2>1. PICK s \in {"pending", "published"} :
           Writes(d, [discussion[d] EXCEPT !.status = s,
                                           !.last = IF s = "published" THEN 1 ELSE 0],
                  <<[status |-> s, at |-> IF s = "published" THEN communityCalls + 1 ELSE 0,
                     key |-> "none"]>>)
    BY <1>4 DEF CreateDiscussion
  <2> DEFINE post == [status |-> s, at |-> IF s = "published" THEN communityCalls + 1 ELSE 0,
                      key |-> "none"]
             summary == [discussion[d] EXCEPT !.status = s, !.last = IF s = "published" THEN 1 ELSE 0]
  <2>2. summary.last <= MaxPosts /\ summary.replies <= MaxPosts
    BY <1>3 DEF CommunityAssumption, DiscussionRows
  <2>3. Len(<<post>>) <= MaxPosts
    BY DEF CommunityAssumption
  <2>4. Writes(d, summary, <<post>>)
    BY <2>1
  <2> HIDE DEF summary, post
  <2> QED
    BY <1>2, <1>3, <2>2, <2>3, <2>4, WritesAreBounded
<1>5. CASE UpdateDiscussion(d) \/ \E n \in DOMAIN posts[d] : UpdatePost(d, n)
  BY <1>2, <1>3, <1>5, WritesAreBounded DEF UpdateDiscussion, UpdatePost
<1>6. ASSUME NEW s, Writes(d, [discussion[d] EXCEPT !.status = s], posts[d])
      PROVE  CommunityBounded'
  <2> DEFINE summary == [discussion[d] EXCEPT !.status = s]
  <2>1. summary.last <= MaxPosts /\ summary.replies <= MaxPosts
    BY <1>3 DEF DiscussionRows
  <2> HIDE DEF summary
  <2> QED
    BY <1>2, <1>3, <1>6, <2>1, WritesAreBounded DEF summary
<1>7. [discussion[d] EXCEPT !.status = "published"] \in DiscussionRows
  BY <1>3 DEF DiscussionRows, DiscussionStates
<1>8. CASE PublishDiscussion(d)
  <2> DEFINE p == IF posts[d][1].status = "published" THEN posts[d]
                  ELSE [posts[d] EXCEPT ![1].status = "published", ![1].at = communityCalls + 1]
  <2>1. Writes(d, RecomputedSummary([discussion[d] EXCEPT !.status = "published"], p), p)
    BY <1>8 DEF PublishDiscussion
  <2>2. DOMAIN p = DOMAIN posts[d]
    OBVIOUS
  <2>3. p \in Seq(PostRows)
    <3>1. posts'[d] = p
      BY <1>3, <2>1 DEF Writes
    <3>2. posts'[d] \in Seq(PostRows)
      BY DEF CommunityInv, DiscussionSound, PostsSound
    <3> HIDE DEF p
    <3> QED
      BY <3>1, <3>2
  <2> HIDE DEF p
  <2>4. Len(p) <= MaxPosts
    BY <1>3, <2>2, <2>3, PostsKeepTheirNumber
  <2> QED
    BY <1>2, <1>7, <2>1, <2>4, RecomputedWritesAreBounded
<1>9. CASE RestoreDiscussion(d)
  BY <1>2, <1>3, <1>7, <1>9, RecomputedWritesAreBounded DEF RestoreDiscussion
<1>10. CASE HideDiscussion(d) \/ ArchiveDiscussion(d)
  BY <1>6, <1>10 DEF HideDiscussion, ArchiveDiscussion
<1> QED
  BY <1>4, <1>5, <1>8, <1>9, <1>10

LEMMA PostCommandsAreBounded ==
  ASSUME CommunityAssumption, CommunityInv, CommunityInv', CommunityBounded, NEW d \in Discussions,
         NEW n \in DOMAIN posts[d], NEW target \in {"published", "hidden", "deleted"},
         TransitionPost(d, n, target)
  PROVE  CommunityBounded'
<1> DEFINE p == [posts[d] EXCEPT ![n].status = target,
                                 ![n].at = IF target = "published"
                                           THEN StampedPost(posts[d][n]) ELSE @]
           summary == DiscussionFollows(discussion[d], n, target)
<1>1. Says /\ Writes(d, RecomputedSummary(summary, p), p)
  BY DEF TransitionPost
<1>2. communityCalls' \in 0..MaxCommunityCalls
  BY <1>1 DEF Says, CommunityBounded, CommunityAssumption
<1>3. /\ discussion[d] \in DiscussionRows /\ posts[d] \in Seq(PostRows) /\ DOMAIN posts = Discussions
      /\ Len(posts[d]) <= MaxPosts
  BY LaterIsSound DEF CommunityInv, CommunityBounded
<1>4. summary \in DiscussionRows
  BY <1>3 DEF DiscussionFollows, DiscussionRows, DiscussionStates
<1>5. DOMAIN p = DOMAIN posts[d]
  OBVIOUS
<1> HIDE DEF summary, p
<1>6. posts'[d] = p
  BY <1>1, <1>3 DEF Writes
<1>7. p \in Seq(PostRows)
  BY <1>6 DEF CommunityInv, DiscussionSound, PostsSound
<1>8. Len(p) <= MaxPosts
  BY <1>3, <1>5, <1>7, PostsKeepTheirNumber
<1> QED
  BY <1>1, <1>2, <1>4, <1>8, RecomputedWritesAreBounded

LEMMA ReplyIsBounded ==
  ASSUME CommunityAssumption, CommunityInv, CommunityInv', CommunityBounded,
         NEW m \in Speakers, CreateReply(m)
  PROVE  CommunityBounded'
<1>1. PICK d \in Discussions, k \in ReplyKeys : saying[m] = <<"reply", d, k>>
  BY DEF CommunityInv, SayingSound, CreateReply, EndsSaying
<1>2. PICK s \in {"pending", "published"} :
         LET p == Append(posts[d], [status |-> s, at |-> IF s = "published" THEN communityCalls ELSE 0,
                                    key |-> k])
         IN Writes(d, IF s = "published" THEN RecomputedSummary(discussion[d], p)
                                         ELSE discussion[d], p)
  BY <1>1 DEF CreateReply
<1> DEFINE post == [status |-> s, at |-> IF s = "published" THEN communityCalls ELSE 0, key |-> k]
           p == Append(posts[d], post)
<1>3. /\ discussion[d] \in DiscussionRows /\ posts[d] \in Seq(PostRows) /\ DOMAIN posts = Discussions
      /\ Len(posts[d]) \in Nat /\ discussion[d].last <= MaxPosts /\ discussion[d].replies <= MaxPosts
  BY LaterIsSound DEF CommunityInv, CommunityBounded
<1>4. Len(posts[d]) < MaxPosts /\ MaxPosts \in Nat
  BY <1>1 DEF CreateReply, CommunityAssumption
<1>5. Len(p) <= MaxPosts
  BY <1>3, <1>4
<1>6. communityCalls' \in 0..MaxCommunityCalls
  BY DEF CreateReply, EndsSaying, CommunityBounded
<1>7. Writes(d, IF s = "published" THEN RecomputedSummary(discussion[d], p) ELSE discussion[d], p)
  BY <1>2
<1> HIDE DEF p
<1>8. CASE s = "published"
  BY <1>3, <1>5, <1>6, <1>7, <1>8, RecomputedWritesAreBounded
<1>9. CASE s # "published"
  BY <1>3, <1>5, <1>6, <1>7, <1>9, WritesAreBounded
<1> QED
  BY <1>8, <1>9

LEMMA SiteCommandsAreBounded ==
  ASSUME CommunityAssumption, CommunityInv, CommunityInv', CommunityBounded, NEW m \in Speakers,
         \/ ReplyReads(m) \/ RebuildReads(m) \/ RebuildCommunitySearch(m)
         \/ PurgeReads(m) \/ PurgeArchivedDiscussions(m) \/ GiveUpSaying(m)
  PROVE  CommunityBounded'
<1>1. CASE ReplyReads(m) \/ RebuildReads(m) \/ PurgeReads(m)
  <2>1. PICK read : StartsSaying(m, read)
    BY <1>1 DEF ReplyReads, RebuildReads, PurgeReads
  <2> QED
    BY <2>1 DEF StartsSaying, CommunityBounded, CommunityAssumption
<1>2. CASE GiveUpSaying(m)
  BY <1>2 DEF GiveUpSaying, CommunityBounded
<1>3. CASE RebuildCommunitySearch(m)
  <2>1. ASSUME NEW d \in Discussions, NEW was
        PROVE  SyncedDocuments(was, posts[d]) \subseteq 0..MaxPosts
    <3>1. PublishedPosts(posts[d]) \subseteq 1..Len(posts[d]) /\ Len(posts[d]) \in Nat
          /\ Len(posts[d]) <= MaxPosts
      BY LaterIsSound DEF CommunityBounded
    <3> QED
      BY <3>1 DEF SyncedDocuments, CommunityAssumption
  <2>2. document' \in [Discussions -> SUBSET (0..MaxPosts)]
    BY <1>3, <2>1 DEF RebuildCommunitySearch, CommunityBounded
  <2> QED
    BY <1>3, <2>2 DEF RebuildCommunitySearch, EndsSaying, CommunityBounded
<1>4. CASE PurgeArchivedDiscussions(m)
  <2> DEFINE gone == saying[m][2]
             summary == [status |-> "purged", locked |-> FALSE, last |-> 0, replies |-> 0]
  <2>1. /\ discussion' = [d \in Discussions |-> IF d \in gone THEN summary ELSE discussion[d]]
        /\ posts' = [d \in Discussions |-> IF d \in gone THEN <<>> ELSE posts[d]]
        /\ document' = [d \in Discussions |-> IF d \in gone THEN {} ELSE document[d]]
        /\ UNCHANGED communityCalls
    BY <1>4 DEF PurgeArchivedDiscussions, EndsSaying
  <2>2. summary \in DiscussionRows /\ summary.last <= MaxPosts /\ summary.replies <= MaxPosts
        /\ Len(<<>>) <= MaxPosts
    BY DEF DiscussionRows, DiscussionStates, CommunityAssumption
  <2> HIDE DEF gone, summary
  <2> QED
    BY <2>1, <2>2 DEF CommunityBounded
<1> QED
  BY <1>1, <1>2, <1>3, <1>4

\* The discussions, their posts and their documents keep their types: community/commands.py.
THEOREM CommunityKeepsTypes == CommunitySpec => []CommunityTypeOK
<1>1. CommunityInit => CommunityInv /\ CommunityBounded
  BY CommunityAssumption, CommunityStarts
     DEF CommunityInit, CommunityBounded, CommunityAssumption, DiscussionRows, DiscussionStates
<1>2. CommunityInv /\ CommunityBounded /\ [CommunityNext]_communityVars => CommunityInv' /\ CommunityBounded'
  <2> SUFFICES ASSUME CommunityInv, CommunityBounded, [CommunityNext]_communityVars
               PROVE  CommunityInv' /\ CommunityBounded'
    OBVIOUS
  <2> USE CommunityAssumption
  <2>1. CommunityInv'
    BY CommunityStep
  <2>2. CASE UNCHANGED communityVars
    BY <2>1, <2>2 DEF communityVars, CommunityBounded
  <2>3. ASSUME NEW d \in Discussions, LockDiscussion(d)
        PROVE  CommunityBounded'
    <3>1. discussion[d].locked \in BOOLEAN
      BY DEF CommunityBounded, DiscussionRows
    <3>2. discussion' = [discussion EXCEPT ![d] = [discussion[d] EXCEPT !.locked = ~discussion[d].locked]]
          /\ UNCHANGED <<posts, document>>
      BY <2>3 DEF LockDiscussion
    <3> DEFINE summary == [discussion[d] EXCEPT !.locked = ~discussion[d].locked]
    <3>3. summary \in DiscussionRows /\ summary.last = discussion[d].last
          /\ summary.replies = discussion[d].replies
      BY DEF CommunityBounded, DiscussionRows
    <3> HIDE DEF summary
    <3>4. communityCalls' \in 0..MaxCommunityCalls
      BY <2>3 DEF LockDiscussion, Says, CommunityBounded, CommunityAssumption
    <3> QED
      BY <3>2, <3>3, <3>4 DEF CommunityBounded, summary
  <2>4. ASSUME NEW d \in Discussions,
               \/ CreateDiscussion(d) \/ UpdateDiscussion(d)
               \/ PublishDiscussion(d) \/ RestoreDiscussion(d)
               \/ HideDiscussion(d) \/ ArchiveDiscussion(d)
               \/ \E n \in DOMAIN posts[d] : UpdatePost(d, n)
        PROVE  CommunityBounded'
    BY <2>1, <2>4, DiscussionCommandsAreBounded
  <2>5. ASSUME NEW d \in Discussions, NEW n \in DOMAIN posts[d],
               ApprovePost(d, n) \/ HidePost(d, n) \/ DeletePost(d, n)
        PROVE  CommunityBounded'
    BY <2>1, <2>5, PostCommandsAreBounded DEF ApprovePost, HidePost, DeletePost
  <2>6. ASSUME NEW m \in Speakers, CreateReply(m)
        PROVE  CommunityBounded'
    BY <2>1, <2>6, ReplyIsBounded
  <2>7. ASSUME NEW m \in Speakers,
               \/ ReplyReads(m) \/ RebuildReads(m) \/ RebuildCommunitySearch(m)
               \/ PurgeReads(m) \/ PurgeArchivedDiscussions(m) \/ GiveUpSaying(m)
        PROVE  CommunityBounded'
    BY <2>1, <2>7, SiteCommandsAreBounded
  <2> QED
    BY <2>1, <2>2, <2>3, <2>4, <2>5, <2>6, <2>7 DEF CommunityNext
<1>3. CommunityInv /\ CommunityBounded => CommunityTypeOK
  <2> SUFFICES ASSUME CommunityInv, CommunityBounded PROVE CommunityTypeOK
    OBVIOUS
  <2>1. ASSUME NEW d \in Discussions, NEW n \in DOMAIN posts[d]
        PROVE  posts[d][n] \in [status : PostStates, at : 0..MaxCommunityCalls,
                                key : ReplyKeys \union {"none"}]
    <3>1. PostsSound(posts[d], communityCalls) /\ communityCalls <= MaxCommunityCalls
      BY DEF CommunityInv, DiscussionSound, CommunityBounded
    <3>2. n \in 1..Len(posts[d]) /\ posts[d][n] \in PostRows
      BY LaterIsSound
    <3>3. posts[d][n].at <= communityCalls
      BY <3>1, <3>2 DEF PostsSound
    <3> QED
      BY <3>1, <3>2, <3>3, CommunityAssumption DEF PostRows, CommunityInv, CommunityAssumption
  <2>2. ASSUME NEW d \in Discussions
        PROVE  discussion[d] \in [status : DiscussionStates, locked : BOOLEAN,
                                  last : 0..MaxPosts, replies : 0..MaxPosts]
    BY CommunityAssumption DEF CommunityBounded, DiscussionRows, CommunityAssumption
  <2>3. discussion \in [Discussions -> [status : DiscussionStates, locked : BOOLEAN,
                                        last : 0..MaxPosts, replies : 0..MaxPosts]]
    BY <2>2 DEF CommunityBounded
  <2> QED
    BY <2>1, <2>3 DEF CommunityTypeOK, CommunityBounded, CommunityInv
<1> QED
  BY <1>1, <1>2, <1>3, PTL DEF CommunitySpec

-----------------------------------------------------------------------------
(* The tags, and the tags of the discussions, which are those of lists     *)
(* that are no longer than the template allows.                            *)

LEMMA ListsAreShort ==
  ASSUME CommunityTagsAssumption, NEW tg \in [Tags -> TagRows], NEW ts, ListFits(ts, tg)
  PROVE  RowsOf(ts) \subseteq (1..(1 + MaxSecondary)) \X Tags
<1>1. PICK n \in Nat : ts \in [1..n -> Tags]
  BY DEF ListFits
<1> DEFINE One == PlacesOf(ts, "primary", tg)
           Others == PlacesOf(ts, "secondary", tg)
<1>2. One \union Others = 1..n
  <2>1. \A i \in 1..n : tg[ts[i]].kind \in {"primary", "secondary"}
    BY <1>1 DEF TagRows, TagKinds
  <2> QED
    BY <1>1, <2>1 DEF PlacesOf
<1>3. IsFiniteSet(1..n) /\ Cardinality(1..n) = n
  BY <1>1, FS_Interval
<1>4. IsFiniteSet(One) /\ IsFiniteSet(Others)
  <2>1. One \subseteq 1..n /\ Others \subseteq 1..n
    BY <1>2
  <2> HIDE DEF One, Others
  <2> QED
    BY <1>3, <2>1, FS_Subset
<1>5. Cardinality(One) = 1 /\ Cardinality(Others) <= MaxSecondary
  BY DEF ListFits
<1> HIDE DEF One, Others
<1>6. n <= 1 + MaxSecondary
  <2>1. /\ Cardinality(One \union Others) = Cardinality(One) + Cardinality(Others) - Cardinality(One \cap Others)
        /\ IsFiniteSet(One \cap Others)
    BY <1>4, FS_Union, FS_Intersection
  <2>2. Cardinality(One \cap Others) \in Nat /\ Cardinality(Others) \in Nat
    BY <1>4, <2>1, FS_CardinalityType
  <2>3. Cardinality(One \union Others) = n
    BY <1>2, <1>3
  <2> QED
    BY <1>5, <2>1, <2>2, <2>3 DEF CommunityTagsAssumption
<1> QED
  BY <1>1, <1>6 DEF RowsOf, CommunityTagsAssumption

TagsBounded == /\ assigned \in [Topics -> SUBSET ((1..(1 + MaxSecondary)) \X Tags)]
               /\ tagCalls \in 0..MaxTagCalls

LEMMA TagsStayBounded ==
  ASSUME CommunityTagsAssumption, CommunityTagsInv, TagsBounded, [CommunityTagsNext]_communityTagsVars
  PROVE  TagsBounded'
<1>1. CASE UNCHANGED communityTagsVars
  BY <1>1 DEF communityTagsVars, TagsBounded
<1>2. ASSUME NEW t \in Tags, ArchiveTag(t) \/ RestoreTag(t)
      PROVE  TagsBounded'
  <2>1. OneTagCall
    BY <1>2 DEF ArchiveTag, RestoreTag
  <2> QED
    BY <2>1 DEF OneTagCall, TagsBounded, CommunityTagsAssumption
<1>3. ASSUME NEW c \in Curators,
             CreateTagReads(c) \/ UpdateTagReads(c) \/ ReorderReads(c) \/ ReplaceReads(c)
      PROVE  TagsBounded'
  <2>1. PICK read : Curates(c, read)
    <3>1. CASE ReplaceReads(c)
      BY <3>1 DEF ReplaceReads
    <3>2. CASE CreateTagReads(c) \/ UpdateTagReads(c) \/ ReorderReads(c)
      BY <3>2 DEF CreateTagReads, UpdateTagReads, ReorderReads
    <3> QED
      BY <1>3, <3>1, <3>2
  <2> QED
    BY <2>1 DEF Curates, TagsBounded, CommunityTagsAssumption
<1>4. ASSUME NEW c \in Curators, CreateTag(c) \/ UpdateTag(c) \/ ReorderTags(c)
      PROVE  TagsBounded'
  BY <1>4 DEF CreateTag, UpdateTag, ReorderTags, EndsCurating, TagsBounded
<1>5. ASSUME NEW c \in Curators, ReplaceDiscussionTags(c)
      PROVE  TagsBounded'
  <2>1. PICK d, ts : d \in Topics /\ ListFits(ts, tag) /\ curator[c] = <<"replace", d, ts, assigned[d]>>
    BY <1>5 DEF CommunityTagsInv, CuratorSound, ReplaceDiscussionTags, EndsCurating
  <2>2. RowsOf(ts) \subseteq (1..(1 + MaxSecondary)) \X Tags
    BY <2>1, ListsAreShort DEF CommunityTagsInv
  <2> DEFINE rest == assigned[d] \ assigned[d]
  <2>3. UNCHANGED tagCalls /\ \/ assigned' = assigned
                              \/ assigned' = [assigned EXCEPT ![d] = rest \union RowsOf(ts)]
    BY <1>5, <2>1 DEF ReplaceDiscussionTags, EndsCurating
  <2>4. rest = {}
    OBVIOUS
  <2> HIDE DEF rest
  <2> QED
    BY <2>1, <2>2, <2>3, <2>4 DEF TagsBounded
<1> QED
  BY <1>1, <1>2, <1>3, <1>4, <1>5 DEF CommunityTagsNext

\* The tags and their rows keep their types: community/commands.py.
THEOREM CommunityTagsKeepTypes == CommunityTagsSpec => []CommunityTagsTypeOK
<1>1. CommunityTagsInit => CommunityTagsInv /\ TagsBounded
  BY CommunityTagsAssumption, CommunityTagsStart DEF CommunityTagsInit, TagsBounded, CommunityTagsAssumption
<1>2. CommunityTagsInv /\ TagsBounded /\ [CommunityTagsNext]_communityTagsVars
         => CommunityTagsInv' /\ TagsBounded'
  BY CommunityTagsAssumption, CommunityTagsStep, TagsStayBounded
<1>3. CommunityTagsInv /\ TagsBounded => CommunityTagsTypeOK
  BY DEF CommunityTagsInv, TagsBounded, CommunityTagsTypeOK, TagRows, TagKinds
<1> QED
  BY <1>1, <1>2, <1>3, PTL DEF CommunityTagsSpec

-----------------------------------------------------------------------------
(* Consumption: its handlers are steps of the runner between what they     *)
(* write, and the row of the instance is as sound as any workflow's.       *)

EffectsTyped ==
    /\ debits \in 0..1 /\ reversals \in 0..1
    /\ grant \in {"none", "pending", "active", "expired"}
    /\ item \in {"active", "unavailable"}
    /\ fulfillment \in {"none", "fulfilled", "terminal_failure"}
    /\ doing \in [Advancers -> {"start", "issuing", "issued", "refused", "done"}]

LEMMA ConsumptionRuns ==
  ASSUME [ConsumptionNext]_consumptionVars PROVE [Next]_vars
<1>1. ASSUME NEW c \in Callers \cup Starters, Request(c) PROVE Next
  BY <1>1 DEF Request, Next, Actors
<1>2. ASSUME NEW r \in Runners, Claim(r) PROVE Next
  BY <1>2 DEF Claim, Next
<1>3. ASSUME NEW a \in Advancers, Bookkeeping(a) PROVE Next
  BY <1>3 DEF Bookkeeping, Next, Advance
<1>4. ASSUME NEW a \in Advancers, HandlerStep(a) PROVE Next \/ UNCHANGED vars
  <2>1. CASE Return(a)
    BY <2>1 DEF Return, Next, Advance
  <2>2. CASE \E isPermanent \in BOOLEAN : Raise(a, isPermanent)
    BY <2>2 DEF Raise, Next, Advance
  <2>3. CASE Debit(a) \/ IssueReads(a) \/ IssueInserts(a) \/ Activate(a) \/ Unavailable(a)
             \/ ReverseDebit(a)
    BY <2>3 DEF Debit, IssueReads, IssueInserts, Activate, Unavailable, ReverseDebit
  <2> QED
    BY <1>4, <2>1, <2>2, <2>3 DEF HandlerStep
<1>5. ASSUME NEW a \in Advancers, Abandon(a) PROVE Next
  BY <1>5 DEF Abandon, Next, Actors
<1>6. CASE Wait
  BY <1>6 DEF Wait, Next
<1>7. CASE ItemUnavailable \/ UNCHANGED consumptionVars
  BY <1>7 DEF ItemUnavailable, consumptionVars
<1> QED
  BY <1>1, <1>2, <1>3, <1>4, <1>5, <1>6, <1>7 DEF ConsumptionNext

LEMMA EffectsTypedStep ==
  ASSUME EffectsTyped, [ConsumptionNext]_consumptionVars PROVE EffectsTyped'
<1>1. ASSUME NEW c \in Callers \cup Starters, Request(c) PROVE EffectsTyped'
  BY <1>1 DEF Request, EffectsTyped, effects
<1>2. ASSUME NEW r \in Runners, Claim(r) PROVE EffectsTyped'
  BY <1>2 DEF Claim, EffectsTyped, effects
<1>3. ASSUME NEW a \in Advancers, Bookkeeping(a) \/ Abandon(a) PROVE EffectsTyped'
  <2>1. Becomes(a, "start") /\ UNCHANGED effects
    BY <1>3 DEF Bookkeeping, Abandon
  <2> QED
    BY <2>1 DEF Becomes, EffectsTyped, effects
<1>4. ASSUME NEW a \in Advancers, HandlerStep(a) PROVE EffectsTyped'
  <2>1. \E point \in {"start", "issuing", "issued", "refused", "done"} : Becomes(a, point)
    BY <1>4 DEF HandlerStep, Debit, IssueReads, IssueInserts, Activate, Unavailable, ReverseDebit,
                Return, Raise
  <2>2. doing' \in [Advancers -> {"start", "issuing", "issued", "refused", "done"}]
    BY <2>1 DEF Becomes, EffectsTyped
  <2>3. /\ debits' \in {debits, 1} /\ reversals' \in {reversals, 1} /\ item' = item
        /\ grant' \in {grant, "pending", "active", "expired"}
        /\ fulfillment' \in {fulfillment, "fulfilled", "terminal_failure"}
    BY <1>4 DEF HandlerStep, Debit, IssueReads, IssueInserts, Activate, Unavailable, ReverseDebit,
                Return, Raise, effects
  <2> QED
    BY <2>2, <2>3 DEF EffectsTyped
<1>5. CASE Wait
  BY <1>5 DEF Wait, EffectsTyped, effects
<1>6. CASE ItemUnavailable
  BY <1>6 DEF ItemUnavailable, EffectsTyped
<1>7. CASE UNCHANGED consumptionVars
  BY <1>7 DEF consumptionVars, EffectsTyped, effects
<1> QED
  BY <1>1, <1>2, <1>3, <1>4, <1>5, <1>6, <1>7 DEF ConsumptionNext

\* A consumption's row stays a row of a workflow, and its effects are of the kinds its
\* capabilities write (business_center workflows.py, kernel runner.py).
LEMMA ConsumptionKeepsTypes ==
  ConsumptionInit /\ [][ConsumptionNext]_consumptionVars => []ConsumptionTypeOK
<1>1. ConsumptionInit => Init /\ EffectsTyped
  BY DEF ConsumptionInit, EffectsTyped
<1>2. [ConsumptionNext]_consumptionVars => [Next]_vars
  BY ConsumptionRuns
<1>3. ConsumptionInit /\ [][ConsumptionNext]_consumptionVars => []TypeOK
  BY <1>1, <1>2, RowsKeepTheirTypes, PTL DEF Spec
<1>4. EffectsTyped /\ [ConsumptionNext]_consumptionVars => EffectsTyped'
  BY EffectsTypedStep
<1>5. TypeOK /\ EffectsTyped => ConsumptionTypeOK
  BY DEF EffectsTyped, ConsumptionTypeOK
<1> QED
  BY <1>1, <1>3, <1>4, <1>5, PTL

-----------------------------------------------------------------------------
(* Every component of MCServices behaves as its own specification says:    *)
(* while another one takes the steps it stands still.                      *)

LEMMA ServicesSteps ==
  ASSUME [ServicesNext]_servicesVars
  PROVE  /\ active' = active
         /\ [MembershipNext]_membershipVars
         /\ [GiftCardsNext]_giftCardsVars
         /\ [SignInNext]_signInVars
         /\ [CommunityNext]_communityVars
         /\ [CommunityTagsNext]_communityTagsVars
         /\ [AssetsNext]_assetsVars
         /\ [AccessNext]_accessVars
         /\ [SettingsNext]_settingsVars
         /\ [KeysNext]_keyVars
         /\ [EngagementNext]_engagementVars
         /\ [NotificationNext]_notificationVars
         /\ [ConsumptionNext]_consumptionVars
         /\ [FulfillmentNext]_<<paymentsVars, fulfillmentVars>>
         /\ [PointsNext]_pointsVars
<1>1. CASE UNCHANGED servicesVars
  <2>1. UNCHANGED active /\ UNCHANGED m_ /\ UNCHANGED g_ /\ UNCHANGED s_ /\ UNCHANGED c_ /\ UNCHANGED t_
    BY <1>1 DEF servicesVars
  <2>2. UNCHANGED a_ /\ UNCHANGED x_ /\ UNCHANGED e_ /\ UNCHANGED k_ /\ UNCHANGED v_
    BY <1>1 DEF servicesVars
  <2>3. UNCHANGED n_ /\ UNCHANGED w_ /\ UNCHANGED f_ /\ UNCHANGED l_
    BY <1>1 DEF servicesVars
  <2> QED
    BY <2>1, <2>2, <2>3 DEF m_, g_, s_, c_, t_, a_, x_, e_, k_, v_, n_, w_, f_, l_
<1>2. CASE ServicesNext
  BY <1>2 DEF ServicesNext, m_, g_, s_, c_, t_, a_, x_, e_, k_, v_, n_, w_, f_, l_
<1> QED
  BY <1>1, <1>2

\* The component that takes steps keeps to its types: for all parameters of all of them.
THEOREM ServicesKeepTypes == ServicesSpec => []ServicesTypeOK
<1> DEFINE OfAService == active \in Services
<1>1. ServicesInit => /\ OfAService
                      /\ MembershipInit
                      /\ GiftCardsInit
                      /\ SignInInit
                      /\ CommunityInit
                      /\ CommunityTagsInit
                      /\ AssetsInit
                      /\ AccessInit
                      /\ SettingsInit
                      /\ KeysInit
                      /\ EngagementInit
                      /\ NotificationInit
                      /\ ConsumptionInit
                      /\ FulfillmentInit
                      /\ PointsInit
  BY DEF ServicesInit
<1>2. [ServicesNext]_servicesVars => (OfAService => OfAService')
  BY ServicesSteps
<1>3. ServicesSpec => []MembershipTypeOK
  <2>1. [ServicesNext]_servicesVars => [MembershipNext]_membershipVars
    BY ServicesSteps
  <2> QED
    BY <1>1, <2>1, MembershipKeepsTypes, PTL DEF ServicesSpec, MembershipSpec
<1>4. ServicesSpec => []GiftCardsTypeOK
  <2>1. [ServicesNext]_servicesVars => [GiftCardsNext]_giftCardsVars
    BY ServicesSteps
  <2> QED
    BY <1>1, <2>1, GiftCardsKeepTypes, PTL DEF ServicesSpec, GiftCardsSpec
<1>5. ServicesSpec => []SignInTypeOK
  <2>1. [ServicesNext]_servicesVars => [SignInNext]_signInVars
    BY ServicesSteps
  <2> QED
    BY <1>1, <2>1, SignInKeepsTypes, PTL DEF ServicesSpec, SignInSpec
<1>6. ServicesSpec => []CommunityTypeOK
  <2>1. [ServicesNext]_servicesVars => [CommunityNext]_communityVars
    BY ServicesSteps
  <2> QED
    BY <1>1, <2>1, CommunityKeepsTypes, PTL DEF ServicesSpec, CommunitySpec
<1>7. ServicesSpec => []CommunityTagsTypeOK
  <2>1. [ServicesNext]_servicesVars => [CommunityTagsNext]_communityTagsVars
    BY ServicesSteps
  <2> QED
    BY <1>1, <2>1, CommunityTagsKeepTypes, PTL DEF ServicesSpec, CommunityTagsSpec
<1>8. ServicesSpec => []AssetsTypeOK
  <2>1. [ServicesNext]_servicesVars => [AssetsNext]_assetsVars
    BY ServicesSteps
  <2> QED
    BY <1>1, <2>1, AssetsKeepTypes, PTL DEF ServicesSpec, AssetsSpec
<1>9. ServicesSpec => []AccessTypeOK
  <2>1. [ServicesNext]_servicesVars => [AccessNext]_accessVars
    BY ServicesSteps
  <2> QED
    BY <1>1, <2>1, AccessKeepsTypes, PTL DEF ServicesSpec, AccessSpec
<1>10. ServicesSpec => []SettingsTypeOK
  <2>1. [ServicesNext]_servicesVars => [SettingsNext]_settingsVars
    BY ServicesSteps
  <2> QED
    BY <1>1, <2>1, SettingsKeepTypes, PTL DEF ServicesSpec, SettingsSpec
<1>11. ServicesSpec => []KeysTypeOK
  <2>1. [ServicesNext]_servicesVars => [KeysNext]_keyVars
    BY ServicesSteps
  <2> QED
    BY <1>1, <2>1, KeysKeepTypes, PTL DEF ServicesSpec, KeysSpec
<1>12. ServicesSpec => []EngagementTypeOK
  <2>1. [ServicesNext]_servicesVars => [EngagementNext]_engagementVars
    BY ServicesSteps
  <2> QED
    BY <1>1, <2>1, EngagementKeepsTypes, PTL DEF ServicesSpec, EngagementSpec
<1>13. ServicesSpec => []NotificationTypeOK
  <2>1. [ServicesNext]_servicesVars => [NotificationNext]_notificationVars
    BY ServicesSteps
  <2> QED
    BY <1>1, <2>1, NotificationKeepsTypes, PTL DEF ServicesSpec, NotificationSpec
<1>14. ServicesSpec => []ConsumptionTypeOK
  <2>1. [ServicesNext]_servicesVars => [ConsumptionNext]_consumptionVars
    BY ServicesSteps
  <2> QED
    BY <1>1, <2>1, ConsumptionKeepsTypes, PTL DEF ServicesSpec
<1>15. ServicesSpec => [](PaymentsTypeOK /\ FulfillmentTypeOK)
  <2>1. [ServicesNext]_servicesVars => [FulfillmentNext]_<<paymentsVars, fulfillmentVars>>
    BY ServicesSteps
  <2> QED
    BY <1>1, <2>1, FulfillmentKeepsTypes, PTL DEF ServicesSpec, FulfillmentSpec
<1>16. ServicesSpec => []PointsTypeOK
  <2>1. [ServicesNext]_servicesVars => [PointsNext]_pointsVars
    BY ServicesSteps
  <2> QED
    BY <1>1, <2>1, PointsKeepTypes, PTL DEF ServicesSpec, PointsSpec
<1>17. OfAService /\ MembershipTypeOK /\ GiftCardsTypeOK /\ SignInTypeOK /\ CommunityTypeOK /\ CommunityTagsTypeOK
         /\ AssetsTypeOK /\ AccessTypeOK /\ SettingsTypeOK /\ KeysTypeOK
         /\ EngagementTypeOK /\ NotificationTypeOK /\ ConsumptionTypeOK
         /\ (PaymentsTypeOK /\ FulfillmentTypeOK) /\ PointsTypeOK
        => ServicesTypeOK
  BY DEF ServicesTypeOK, Services
<1> QED
  BY <1>1, <1>2, <1>3, <1>4, <1>5, <1>6, <1>7, <1>8, <1>9, <1>10, <1>11, 
     <1>12, <1>13, <1>14, <1>15, <1>16, <1>17, PTL DEF ServicesSpec

=============================================================================
