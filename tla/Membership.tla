----------------------------- MODULE Membership -----------------------------
(***************************************************************************)
(* The membership capability for one subject, and the workflows of the     *)
(* user center that fulfill and refund its purchases.                      *)
(*                                                                         *)
(* A command reads the subscription in a unit of work, decides on what it  *)
(* read and writes the columns it changes without a condition: anything    *)
(* may commit between.  What keeps cycles apart is the unique key of the   *)
(* cycles and the one subscription a subject may have.                     *)
(***************************************************************************)
EXTENDS Integers, FiniteSets, Sequences, SequencesExt

CONSTANTS
    Purchases,       \* orders of the subject for a membership, all captured
    Members,         \* processes: each runs one command at a time
    MaxMemberTime,   \* bound: the clock
    MaxMemberCalls   \* bound: commands begun

ASSUME MembershipAssumption ==
    /\ MaxMemberTime \in Nat
    /\ MaxMemberCalls \in Nat

VARIABLES
    sub,          \* the membership_subscriptions row
    cycles,       \* the membership_cycles rows in order of creation
    granted,      \* cycles whose points were credited, by ledger key
    level,        \* the membership_levels row
    knownLevel,   \* the status each process holds in its registry
    joining,      \* the fulfillment workflow of each purchase
    leaving,      \* the refund workflow of each purchase
    at,           \* the command each process has open
    memberNow,
    memberCalls

membershipVars == <<sub, cycles, granted, level, knownLevel, joining, leaving,
                    at, memberNow, memberCalls>>

SubStates == {"none", "pending_activation", "active", "expired", "cancelled", "terminated"}
MemberTimes == 0..(MaxMemberTime + 1)
CycleIds == 0..Len(cycles)    \* 0 for no cycle
LevelStates == {"active", "archived"}
JoinSteps == {"none", "validated", "prepared", "credited", "done", "failed"}
LeaveSteps == {"none", "started", "resolved", "terminated", "reversed", "failed"}
NotIn == <<>>

MembershipTypeOK ==
    /\ sub \in [status : SubStates, cycle : CycleIds, ends : MemberTimes]
    /\ \A c \in 1..Len(cycles) :
          cycles[c] \in [key : Purchases, state : {"prepared", "activated"}]
    /\ granted \subseteq 1..Len(cycles)
    /\ level \in LevelStates
    /\ knownLevel \in [Members -> LevelStates]
    /\ joining \in [Purchases -> [step : JoinSteps, cycle : CycleIds]]
    /\ leaving \in [Purchases -> [step : LeaveSteps, cycle : CycleIds, entry : BOOLEAN]]
    /\ DOMAIN at = Members
    /\ memberNow \in 0..MaxMemberTime /\ memberCalls \in 0..MaxMemberCalls

(* A subject without a subscription, or with one that has run out.         *)
MembershipInit ==
    /\ sub \in [status : {"none", "expired"}, cycle : {0}, ends : {0}]
    /\ cycles = <<>>
    /\ granted = {}
    /\ level = "active"
    /\ knownLevel = [m \in Members |-> "active"]
    /\ joining = [p \in Purchases |-> [step |-> "none", cycle |-> 0]]
    /\ leaving = [p \in Purchases |-> [step |-> "none", cycle |-> 0, entry |-> FALSE]]
    /\ at = [m \in Members |-> NotIn]
    /\ memberNow = 0
    /\ memberCalls = 0

CyclesOf(p) == {c \in 1..Len(cycles) : cycles[c].key = p}

-----------------------------------------------------------------------------
Starts(m, call) ==
    /\ at[m] = NotIn /\ memberCalls < MaxMemberCalls
    /\ memberCalls' = memberCalls + 1
    /\ at' = [at EXCEPT ![m] = call]

(* A process in a command commits: its unit of work ends.                  *)
CommitsStep(m, point) ==
    /\ at[m] # NotIn /\ at[m][1] = point
    /\ at' = [at EXCEPT ![m] = NotIn]
    /\ UNCHANGED memberCalls

Joins(p, step, c) == joining' = [joining EXCEPT ![p] = [step |-> step, cycle |-> c]]

(* A crash, an error of the database, or an attempt that lost its lease.   *)
GiveUpMembership(m) ==
    /\ at[m] # NotIn
    /\ at' = [at EXCEPT ![m] = NotIn]
    /\ UNCHANGED <<sub, cycles, granted, level, knownLevel, joining, leaving,
                   memberNow, memberCalls>>

(* fulfill_captured_payment and the activity validate.                     *)
StartJoining(p) ==
    /\ joining[p].step = "none"
    /\ Joins(p, "validated", 0)
    /\ UNCHANGED <<sub, cycles, granted, level, knownLevel, leaving, at, memberNow, memberCalls>>

(* The attempts of an activity that keeps being refused run out.           *)
JoiningFails(p) ==
    /\ \/ joining[p].step = "validated"
          /\ CyclesOf(p) = {}
          /\ \/ sub.status \in {"pending_activation", "active", "cancelled"}
             \/ "archived" \in {knownLevel[m] : m \in Members}
       \/ joining[p].step = "credited"
          /\ cycles[joining[p].cycle].state = "prepared"
          /\ (sub.cycle # joining[p].cycle \/ sub.status # "pending_activation")
    /\ Joins(p, "failed", joining[p].cycle)
    /\ UNCHANGED <<sub, cycles, granted, level, knownLevel, leaving, at, memberNow, memberCalls>>

(* The level as the registry of a process has it; another process that     *)
(* archived it is not heard of.                                            *)
LevelActive(m) == knownLevel[m] = "active"

(* PrepareSubscriptionCycle: a replay returns the cycle of its key; a      *)
(* subscription that is current, or a level archived as far as this        *)
(* process knows, refuses.                                                 *)
PrepareReads(m, p) ==
    /\ joining[p].step = "validated"
    /\ LevelActive(m)
    /\ \/ \E c \in CyclesOf(p) : Starts(m, <<"returned", p, "prepared", c>>)
       \/ /\ CyclesOf(p) = {}
          /\ sub.status \notin {"pending_activation", "active", "cancelled"}
          /\ Starts(m, <<"preparing", p, sub>>)
    /\ UNCHANGED <<sub, cycles, granted, level, knownLevel, joining, leaving, memberNow>>

KeyUnchecked(p) ==  \* mutant of KeyIsFree: without the unique constraint of the key
    TRUE

KeyIsFree(p) == CyclesOf(p) = {}

PrepareSubscriptionCycle(m) ==
    /\ at[m] # NotIn /\ at[m][1] = "preparing"
    /\ LET p == at[m][2]
           c == Len(cycles) + 1
       IN
       /\ KeyIsFree(p)
       /\ at[m][3].status = "none" => sub.status = "none"   \* the subject is unique
       /\ cycles' = Append(cycles, [key |-> p, state |-> "prepared"])
       /\ sub' = [status |-> "pending_activation", cycle |-> c, ends |-> memberNow + 1]
       /\ at' = [at EXCEPT ![m] = <<"returned", p, "prepared", c>>]
    /\ UNCHANGED <<granted, level, knownLevel, joining, leaving, memberNow, memberCalls>>

(* CreditPoints with the key of the cycle.                                 *)
CreditCycle(m, p) ==
    /\ joining[p].step = "prepared"
    /\ Starts(m, <<"returned", p, "credited", joining[p].cycle>>)
    /\ granted' = granted \union {joining[p].cycle}
    /\ UNCHANGED <<sub, cycles, level, knownLevel, joining, leaving, memberNow>>

(* AttachPointsGrant: only the subscription's current cycle is activated.  *)
AttachReads(m, p) ==
    LET c == joining[p].cycle IN
    /\ joining[p].step = "credited"
    /\ \/ cycles[c].state = "activated" /\ Starts(m, <<"returned", p, "done", c>>)
       \/ /\ cycles[c].state = "prepared"
          /\ sub.cycle = c /\ sub.status = "pending_activation"
          /\ Starts(m, <<"attaching", p, c>>)
    /\ UNCHANGED <<sub, cycles, granted, level, knownLevel, joining, leaving, memberNow>>

AttachPointsGrant(m) ==
    /\ at[m] # NotIn /\ at[m][1] = "attaching"
    /\ cycles' = [cycles EXCEPT ![at[m][3]].state = "activated"]
    /\ sub' = [sub EXCEPT !.status = "active"]
    /\ at' = [at EXCEPT ![m] = <<"returned", at[m][2], "done", at[m][3]>>]
    /\ UNCHANGED <<granted, level, knownLevel, joining, leaving, memberNow, memberCalls>>

(* The runner records the result of the activity, if the step is its own.  *)
Before == [prepared |-> "validated", credited |-> "prepared", done |-> "credited"]

RecordJoining(m) ==
    /\ CommitsStep(m, "returned")
    /\ LET p == at[m][2] IN
       IF joining[p].step = Before[at[m][3]] THEN Joins(p, at[m][3], at[m][4])
                                             ELSE UNCHANGED joining
    /\ UNCHANGED <<sub, cycles, granted, level, knownLevel, leaving, memberNow>>

-----------------------------------------------------------------------------
(* CancelSubscription, TerminateSubscription and ExpireSubscription.       *)
MayEnd == [cancelled |-> {"active"},
           terminated |-> {"active", "cancelled"},
           expired |-> {"active", "cancelled"}]

EndReads(m, status) ==
    /\ sub.status \in MayEnd[status]
    /\ status = "expired" => sub.ends <= memberNow
    /\ Starts(m, <<"ending", status>>)
    /\ UNCHANGED <<sub, cycles, granted, level, knownLevel, joining, leaving, memberNow>>

EndSubscription(m) ==
    /\ CommitsStep(m, "ending")
    /\ sub' = [sub EXCEPT !.status = at[m][2]]
    /\ UNCHANGED <<cycles, granted, level, knownLevel, joining, leaving, memberNow>>

-----------------------------------------------------------------------------
(* The refund of a purchase: its cycle and entry are looked up once, the   *)
(* subscription of the cycle is terminated, the entry reversed.            *)
Leaves(p, from, step, c, entry) ==
    /\ leaving[p].step = from
    /\ leaving' = [leaving EXCEPT ![p] = [step |-> step, cycle |-> c, entry |-> entry]]

ResolveMembershipRefund(p) ==
    LET activated == {c \in CyclesOf(p) : cycles[c].state = "activated"}
        found == IF CyclesOf(p) = {} THEN {0} ELSE CyclesOf(p)
    IN
    /\ \E c \in found : Leaves(p, "none", "resolved", c, c \in activated)
    /\ UNCHANGED <<sub, cycles, granted, level, knownLevel, joining, at, memberNow, memberCalls>>

(* terminate: nothing to do for a subscription already terminated, an      *)
(* error for one that is neither active nor cancelled.                     *)
TerminateForRefund(m, p) ==
    /\ leaving[p].step = "resolved"
    /\ \/ /\ leaving[p].cycle = 0 \/ sub.status = "terminated"
          /\ Leaves(p, "resolved", "terminated", leaving[p].cycle, leaving[p].entry)
          /\ UNCHANGED <<at, memberCalls>>
       \/ /\ leaving[p].cycle # 0 /\ sub.status \in MayEnd["terminated"]
          /\ Starts(m, <<"ending", "terminated", leaving[p].cycle>>)
          /\ UNCHANGED leaving
       \/ /\ leaving[p].cycle # 0 /\ sub.status \notin MayEnd["terminated"] \union {"terminated"}
          /\ Leaves(p, "resolved", "failed", leaving[p].cycle, leaving[p].entry)
          /\ UNCHANGED <<at, memberCalls>>
    /\ UNCHANGED <<sub, cycles, granted, level, knownLevel, joining, memberNow>>

ReverseGrant(p) ==
    /\ Leaves(p, "terminated", IF leaving[p].entry THEN "reversed" ELSE "failed",
              leaving[p].cycle, leaving[p].entry)
    /\ UNCHANGED <<sub, cycles, granted, level, knownLevel, joining, at, memberNow, memberCalls>>

-----------------------------------------------------------------------------
(* set_level_status: the row, and the registry of the process that ran it. *)
SetLevelStatus(m, status) ==
    /\ at[m] = NotIn /\ level # status /\ memberCalls < MaxMemberCalls
    /\ level' = status
    /\ knownLevel' = [knownLevel EXCEPT ![m] = status]
    /\ memberCalls' = memberCalls + 1
    /\ UNCHANGED <<sub, cycles, granted, joining, leaving, at, memberNow>>

(* hydrate_persisted_levels, when a process starts.                        *)
HydrateLevels(m) ==
    /\ knownLevel[m] # level
    /\ knownLevel' = [knownLevel EXCEPT ![m] = level]
    /\ at' = [at EXCEPT ![m] = NotIn]
    /\ UNCHANGED <<sub, cycles, granted, level, joining, leaving, memberNow, memberCalls>>

MemberTimePasses ==
    /\ memberNow < MaxMemberTime
    /\ memberNow' = memberNow + 1
    /\ UNCHANGED <<sub, cycles, granted, level, knownLevel, joining, leaving, at, memberCalls>>

MembershipNext ==
    \/ \E p \in Purchases :
          \/ StartJoining(p) \/ JoiningFails(p)
          \/ ResolveMembershipRefund(p) \/ ReverseGrant(p)
          \/ \E m \in Members : \/ PrepareReads(m, p) \/ CreditCycle(m, p)
                                \/ AttachReads(m, p) \/ TerminateForRefund(m, p)
    \/ \E m \in Members :
          \/ PrepareSubscriptionCycle(m) \/ AttachPointsGrant(m) \/ RecordJoining(m)
          \/ EndSubscription(m) \/ GiveUpMembership(m) \/ HydrateLevels(m)
          \/ \E status \in DOMAIN MayEnd : EndReads(m, status)
          \/ \E status \in LevelStates : SetLevelStatus(m, status)
    \/ MemberTimePasses

MembershipSpec == MembershipInit /\ [][MembershipNext]_membershipVars

-----------------------------------------------------------------------------
(* Whatever workers run the activities of a purchase, twice or at the same *)
(* time, it buys one cycle, whose points are credited once, before it is   *)
(* activated.                                                              *)
OneCyclePerPurchase ==
    /\ \A p \in Purchases : Cardinality(CyclesOf(p)) <= 1
    /\ \A c \in 1..Len(cycles) : cycles[c].state = "activated" => c \in granted
=============================================================================
