-------------------------------- MODULE Outbox --------------------------------
(***************************************************************************)
(* The kernel outbox: rows appended in a command's transaction, dispatch   *)
(* workers that claim them under a lease, handlers that each run in a      *)
(* transaction of their own behind an inbox receipt, and the settlement of *)
(* a row as delivered, pending again or dead.                              *)
(*                                                                         *)
(* One action is one database transaction, or one statement of it where    *)
(* another worker can act in between.  Time is abstracted to two facts of  *)
(* a row: whether next_attempt_at has come (due) and whether its lease is  *)
(* live or expired.                                                        *)
(***************************************************************************)
EXTENDS Naturals, FiniteSets

CONSTANTS
    Events,        \* envelopes a command may append
    KnownEvents,   \* events whose schema this release has registered
    Workers,       \* dispatcher processes
    Owner,         \* Owner[w] is the lease_owner string worker w passes
    HandlerCount,  \* handlers of an event, run in registration order 1..HandlerCount
    Kind,          \* Kind[h]: how handler h writes, see HandlerKinds
    MaxAttempts,   \* RetryPolicy.max_attempts
    Batch,         \* rows one cycle may claim
    MaxFaults,     \* bound: crashes and overrun leases in one behaviour
    RetentionRace  \* whether a record may be cleaned up while its event is in flight

Handlers == 1..HandlerCount
Owners == {Owner[w] : w \in Workers}
NoOwner == "no owner"
NoEvent == "no event"

\* "inbox": receipt and business write commit together (audit, engagement projection).
\* "own_uow": the write commits in a transaction of its own, the receipt after it
\*   (SecurityEventRevoker calls OidcSessionRevoker).
\* "plain": no receipt, the handler's business key deduplicates (_UserCenterPaymentHandler).
HandlerKinds == {"inbox", "own_uow", "plain"}

\* What a deployment passes: a lease_owner of its own for each process, or the
\* default lease_owner of dispatch_cycle for all of them; handlers by how they
\* write (HandlerKinds).
OwnerPerWorker == [w \in Workers |-> w]
OwnerDefault == [w \in Workers |-> "dispatcher"]
KindsGuarded == <<"inbox", "plain">>
KindsAll == <<"inbox", "own_uow">>

ASSUME OutboxAssumption ==
    /\ KnownEvents \subseteq Events
    /\ HandlerCount \in Nat
    /\ Kind \in [Handlers -> HandlerKinds]
    /\ MaxAttempts \in Nat \ {0}
    /\ Batch \in Nat \ {0}
    /\ MaxFaults \in Nat
    /\ RetentionRace \in BOOLEAN
    /\ NoOwner \notin Owners
    /\ NoEvent \notin Events

VARIABLES
    \* kernel_outbox, by event
    status, attempts, due, owner, lease, error,
    \* kernel_inbox_receipts, pairs <<handler, event>>, and effects[e][h], the
    \* committed business writes of handler h for event e
    receipt, effects,
    \* what each dispatcher holds in memory: where it is, claimed rows not looked at
    \* yet, the attempts each row had when claimed, current event and handler, lease
    \* owner of the row re-read to settle it, what to settle it as
    pc, todo, seen, cur, at, fresh, verdict,
    \* crashes and overrun leases so far
    faults

rowVars == <<status, attempts, due, owner, lease, error>>
handlerVars == <<receipt, effects>>
workerVars == <<pc, todo, seen, cur, at, fresh, verdict>>
vars == <<rowVars, handlerVars, workerVars, faults>>

Terminal == {"delivered", "dead"}
Categories == {"transient", "permanent"}
Busy == {"handle", "tx", "wrote", "read", "write"}

TypeOK ==
    /\ status \in [Events -> {"absent", "pending", "claimed", "delivered", "dead", "deleted"}]
    /\ attempts \in [Events -> Nat]
    /\ due \in [Events -> BOOLEAN]
    /\ owner \in [Events -> Owners \cup {NoOwner}]
    /\ lease \in [Events -> {"none", "live", "expired"}]
    /\ error \in [Events -> Categories \cup {"none"}]
    /\ receipt \subseteq Handlers \X Events
    /\ effects \in [Events -> [Handlers -> Nat]]
    /\ pc \in [Workers -> {"idle", "check"} \cup Busy]
    /\ todo \in [Workers -> SUBSET Events]
    /\ seen \in [Workers -> [Events -> Nat]]
    /\ cur \in [Workers -> Events \cup {NoEvent}]
    /\ at \in [Workers -> Nat]
    /\ fresh \in [Workers -> Owners \cup {NoOwner}]
    /\ verdict \in [Workers -> {"none", "deliver", "retry", "exhausted", "permanent"}]
    /\ faults \in Nat

\* Rows of a schema this release does not know were appended by another release.
Init ==
    /\ status = [e \in Events |-> IF e \in KnownEvents THEN "absent" ELSE "pending"]
    /\ attempts = [e \in Events |-> 0]
    /\ due = [e \in Events |-> e \notin KnownEvents]
    /\ owner = [e \in Events |-> NoOwner]
    /\ lease = [e \in Events |-> "none"]
    /\ error = [e \in Events |-> "none"]
    /\ receipt = {}
    /\ effects = [e \in Events |-> [h \in Handlers |-> 0]]
    /\ pc = [w \in Workers |-> "idle"]
    /\ todo = [w \in Workers |-> {}]
    /\ seen = [w \in Workers |-> [e \in Events |-> 0]]
    /\ cur = [w \in Workers |-> NoEvent]
    /\ at = [w \in Workers |-> 0]
    /\ fresh = [w \in Workers |-> NoOwner]
    /\ verdict = [w \in Workers |-> "none"]
    /\ faults = 0

-----------------------------------------------------------------------------
(* OutboxWriter.append, committed with the command's own writes.           *)
Append(e) ==
    /\ e \in KnownEvents
    /\ status[e] = "absent"
    /\ status' = [status EXCEPT ![e] = "pending"]
    /\ due' = [due EXCEPT ![e] = TRUE]
    /\ UNCHANGED <<attempts, owner, lease, error, handlerVars, workerVars, faults>>

(* OutboxRepository.claim_due: SKIP LOCKED makes the claim of a row atomic, *)
(* and may leave out rows another transaction holds.                       *)
DueIgnoringLostLeases(e) ==  \* mutant of Due: a claimed row is never claimed again
    status[e] = "pending" /\ due[e]

Due(e) ==
    /\ status[e] \in {"pending", "claimed"}
    /\ due[e]
    /\ lease[e] # "live"

Claim(w) ==
    /\ pc[w] = "idle"
    /\ \E S \in SUBSET {e \in Events : Due(e)} :
        /\ S # {}
        /\ Cardinality(S) <= Batch
        /\ status' = [e \in Events |-> IF e \in S THEN "claimed" ELSE status[e]]
        /\ owner' = [e \in Events |-> IF e \in S THEN Owner[w] ELSE owner[e]]
        /\ lease' = [e \in Events |-> IF e \in S THEN "live" ELSE lease[e]]
        /\ pc' = [pc EXCEPT ![w] = "check"]
        /\ todo' = [todo EXCEPT ![w] = S]
        /\ seen' = [seen EXCEPT ![w] = [e \in Events |-> IF e \in S THEN attempts[e] ELSE 0]]
    /\ UNCHANGED <<attempts, due, error, handlerVars, cur, at, fresh, verdict, faults>>

-----------------------------------------------------------------------------
(* OutboxDispatcher._process, one step per transaction.                    *)

\* The worker turns to the rows in rest, or ends its cycle.
TurnTo(w, rest) ==
    /\ pc' = [pc EXCEPT ![w] = IF rest = {} THEN "idle" ELSE "check"]
    /\ todo' = [todo EXCEPT ![w] = rest]
    /\ seen' = [seen EXCEPT ![w] = IF rest = {} THEN [e \in Events |-> 0] ELSE @]
    /\ cur' = [cur EXCEPT ![w] = NoEvent]
    /\ at' = [at EXCEPT ![w] = 0]
    /\ fresh' = [fresh EXCEPT ![w] = NoOwner]
    /\ verdict' = [verdict EXCEPT ![w] = "none"]

PastSkippingLast(w, h) ==  \* mutant of Past: the last handler is left out
    /\ pc' = [pc EXCEPT ![w] = IF h + 1 < HandlerCount THEN "handle" ELSE "read"]
    /\ at' = [at EXCEPT ![w] = IF h + 1 < HandlerCount THEN h + 1 ELSE h]
    /\ verdict' = [verdict EXCEPT ![w] = IF h + 1 < HandlerCount THEN @ ELSE "deliver"]

\* The worker has finished handler h, and settles the row after the last one.
Past(w, h) ==
    /\ pc' = [pc EXCEPT ![w] = IF h < HandlerCount THEN "handle" ELSE "read"]
    /\ at' = [at EXCEPT ![w] = IF h < HandlerCount THEN h + 1 ELSE h]
    /\ verdict' = [verdict EXCEPT ![w] = IF h < HandlerCount THEN @ ELSE "deliver"]

HoldsLease(w, e) ==
    /\ status[e] = "claimed"
    /\ owner[e] = Owner[w]
    /\ lease[e] = "live"

\* The read before processing: a row no longer held is skipped.
SkipStale(w, e) ==
    /\ pc[w] = "check" /\ e \in todo[w]
    /\ ~HoldsLease(w, e)
    /\ TurnTo(w, todo[w] \ {e})
    /\ UNCHANGED <<rowVars, handlerVars, faults>>

\* The row is held: an unknown schema goes to quarantine, otherwise handlers start.
Check(w, e) ==
    /\ pc[w] = "check" /\ e \in todo[w]
    /\ HoldsLease(w, e)
    /\ todo' = [todo EXCEPT ![w] = @ \ {e}]
    /\ cur' = [cur EXCEPT ![w] = e]
    /\ IF e \in KnownEvents
       THEN Past(w, 0)
       ELSE /\ pc' = [pc EXCEPT ![w] = "read"]
            /\ verdict' = [verdict EXCEPT ![w] = "permanent"]
            /\ UNCHANGED at
    /\ UNCHANGED <<rowVars, handlerVars, seen, fresh, faults>>

Guarded(h) == Kind[h] # "plain"

ReceiptNeverLocked(w) == FALSE  \* mutant of ReceiptLocked: no unique constraint

\* The uncommitted receipt of another worker blocks the insertion of the same one.
ReceiptLocked(w) ==
    \E v \in Workers \ {w} : pc[v] \in {"tx", "wrote"} /\ cur[v] = cur[w] /\ at[v] = at[w]

ReceiptOf(w) == <<at[w], cur[w]>>

\* InboxGuard.process: insert the receipt, or find it there and skip the work.
BeginHandler(w) ==
    /\ pc[w] = "handle"
    /\ Guarded(at[w]) => ~ReceiptLocked(w)
    /\ IF Guarded(at[w]) /\ ReceiptOf(w) \in receipt
       THEN Past(w, at[w])
       ELSE pc' = [pc EXCEPT ![w] = "tx"] /\ UNCHANGED <<at, verdict>>
    /\ UNCHANGED <<rowVars, handlerVars, todo, seen, cur, fresh, faults>>

Write(w) == effects' = [effects EXCEPT ![cur[w]][at[w]] = @ + 1]

\* The work of an "own_uow" handler commits before its receipt does.
WriteOutside(w) ==
    /\ pc[w] = "tx"
    /\ Kind[at[w]] = "own_uow"
    /\ Write(w)
    /\ pc' = [pc EXCEPT ![w] = "wrote"]
    /\ UNCHANGED <<rowVars, receipt, todo, seen, cur, at, fresh, verdict, faults>>

\* The handler's transaction commits.
CommitHandler(w) ==
    /\ \/ pc[w] = "tx" /\ Kind[at[w]] # "own_uow" /\ Write(w)
       \/ pc[w] = "wrote" /\ UNCHANGED effects
    /\ receipt' = IF Guarded(at[w]) THEN receipt \cup {ReceiptOf(w)} ELSE receipt
    /\ Past(w, at[w])
    /\ UNCHANGED <<rowVars, todo, seen, cur, fresh, faults>>

\* RetryPolicy.should_retry of the attempts counted when the row was claimed.
VerdictOf(category, count) ==
    IF category = "permanent" THEN "permanent"
    ELSE IF count < MaxAttempts THEN "retry" ELSE "exhausted"

\* The handler raises: its transaction rolls back and classify_retry names a category.
FailHandler(w) ==
    /\ pc[w] \in {"handle", "tx", "wrote"}
    /\ \E c \in Categories :
        verdict' = [verdict EXCEPT ![w] = VerdictOf(c, seen[w][cur[w]] + 1)]
    /\ pc' = [pc EXCEPT ![w] = "read"]
    /\ UNCHANGED <<rowVars, handlerVars, todo, seen, cur, at, fresh, faults>>

\* The row is read again to settle it.
ReadFresh(w) ==
    /\ pc[w] = "read"
    /\ status[cur[w]] # "deleted"
    /\ pc' = [pc EXCEPT ![w] = "write"]
    /\ fresh' = [fresh EXCEPT ![w] = owner[cur[w]]]
    /\ UNCHANGED <<rowVars, handlerVars, todo, seen, cur, at, verdict, faults>>

\* Retention removed the row: AttributeError on None ends the whole cycle.
ReadGone(w) ==
    /\ pc[w] = "read"
    /\ status[cur[w]] = "deleted"
    /\ TurnTo(w, {})
    /\ UNCHANGED <<rowVars, handlerVars, faults>>

\* The WHERE clause compares the row with its own re-read copy.
Matches(w) == status[cur[w]] = "claimed" /\ owner[cur[w]] = fresh[w]

\* mark_delivered, mark_retry and mark_dead.
Settle(w) ==
    /\ pc[w] = "write"
    /\ Matches(w)
    /\ LET e == cur[w]
           failed == verdict[w] # "deliver"
       IN
        /\ status' = [status EXCEPT ![e] =
                        CASE verdict[w] = "deliver" -> "delivered"
                          [] verdict[w] = "retry" -> "pending"
                          [] OTHER -> "dead"]
        /\ attempts' = [attempts EXCEPT ![e] = IF failed THEN @ + 1 ELSE @]
        /\ due' = [due EXCEPT ![e] = @ /\ verdict[w] # "retry"]
        /\ owner' = [owner EXCEPT ![e] = NoOwner]
        /\ lease' = [lease EXCEPT ![e] = "none"]
        /\ error' = [error EXCEPT ![e] = IF ~failed THEN @
                        ELSE IF verdict[w] = "permanent" THEN "permanent" ELSE "transient"]
    /\ TurnTo(w, todo[w])
    /\ UNCHANGED <<handlerVars, faults>>

\* The UPDATE matches no row.
SettleMisses(w) ==
    /\ pc[w] = "write"
    /\ ~Matches(w)
    /\ TurnTo(w, todo[w])
    /\ UNCHANGED <<rowVars, handlerVars, faults>>

-----------------------------------------------------------------------------
(* The environment: time, crashes, retention.                              *)

\* A process dies, or an exception of the database escapes the cycle.
Crash(w) ==
    /\ pc[w] # "idle"
    /\ faults < MaxFaults
    /\ faults' = faults + 1
    /\ TurnTo(w, {})
    /\ UNCHANGED <<rowVars, handlerVars>>

Held(e) == \E w \in Workers : cur[w] = e \/ e \in todo[w]

\* A lease left behind by a crash always expires; one that expires under a worker
\* still busy with the row (an overrun) counts as a fault.
LeaseExpires(e) ==
    /\ lease[e] = "live"
    /\ Held(e) => faults < MaxFaults
    /\ lease' = [lease EXCEPT ![e] = "expired"]
    /\ faults' = IF Held(e) THEN faults + 1 ELSE faults
    /\ UNCHANGED <<status, attempts, due, owner, error, handlerVars, workerVars>>

BecomesDue(e) ==
    /\ status[e] = "pending" /\ ~due[e]
    /\ due' = [due EXCEPT ![e] = TRUE]
    /\ UNCHANGED <<status, attempts, owner, lease, error, handlerVars, workerVars, faults>>

\* No worker still holds e and its row is terminal: what the default retention of
\* 30 days leaves time for.
AtRest(e) == status[e] \in Terminal \cup {"deleted"} /\ ~Held(e)

\* ExecutionLogCleaner.cleanup_in_uow: terminal rows and receipts before the cutoff.
Cleanup(e) ==
    /\ RetentionRace \/ AtRest(e)
    /\ \E R \in SUBSET {r \in receipt : r[2] = e} :
        /\ receipt' = receipt \ R
        /\ \/ status[e] \in Terminal /\ status' = [status EXCEPT ![e] = "deleted"]
           \/ R # {} /\ UNCHANGED status
    /\ UNCHANGED <<attempts, due, owner, lease, error, effects, workerVars, faults>>

-----------------------------------------------------------------------------
Dispatch(w) ==
    \/ \E e \in Events : SkipStale(w, e) \/ Check(w, e)
    \/ BeginHandler(w)
    \/ WriteOutside(w)
    \/ CommitHandler(w)
    \/ FailHandler(w)
    \/ ReadFresh(w) \/ ReadGone(w)
    \/ Settle(w) \/ SettleMisses(w)

Next ==
    \/ \E e \in Events : Append(e) \/ LeaseExpires(e) \/ BecomesDue(e) \/ Cleanup(e)
    \/ \E w \in Workers : Claim(w) \/ Dispatch(w) \/ Crash(w)

Spec == Init /\ [][Next]_vars

\* The loop of each process keeps calling dispatch_cycle and time passes; nothing
\* makes a command append, a worker crash or the cleaner run.
Fairness ==
    /\ \A w \in Workers : WF_vars(Claim(w)) /\ WF_vars(Dispatch(w))
    /\ \A e \in Events : WF_vars(LeaseExpires(e)) /\ WF_vars(BecomesDue(e))

FairSpec == Spec /\ Fairness

-----------------------------------------------------------------------------
(* Correctness properties.                                                 *)

\* inbox.py: however many workers deliver an event, the write of a handler whose
\* receipt commits with it happens at most once.
AppliedAtMostOnce ==
    \A e \in Events, h \in Handlers : Kind[h] = "inbox" => effects[e][h] <= 1

\* events.md section 7: a failed handler leaves no receipt; a receipt means the
\* handler's write is there.
ReceiptMeansApplied ==
    \A e \in Events, h \in Handlers : <<h, e>> \in receipt => effects[e][h] > 0

\* outbox.py _process: a row is delivered only when every handler has committed.
DeliveredMeansHandled ==
    \A e \in Events : status[e] = "delivered" => \A h \in Handlers : effects[e][h] > 0

\* mark_* update only a claimed row: whatever a late worker does, a settled row stays
\* settled until retention removes it.
TerminalIsFinal ==
    [][\A e \in Events : status[e] \in Terminal =>
            status'[e] \in {status[e], "deleted"}]_vars

\* What dispatchers that crash, stall and overwrite each other still owe an event: its
\* guarded writes once, all of them before it counts as delivered, and the end for good.
DeliveredForGood ==
    [](AppliedAtMostOnce /\ DeliveredMeansHandled) /\ TerminalIsFinal

\* The events as the rest of the system sees them.
DeliveryState(e) ==
    CASE status[e] = "absent" -> "absent"
      [] status[e] \in {"pending", "claimed"} -> "queued"
      [] status[e] \in Terminal -> status[e]
      [] OTHER -> "forgotten"

Delivery == INSTANCE EventDelivery WITH
    state <- [e \in Events |-> DeliveryState(e)],
    applied <- [e \in Events |-> Cardinality({h \in Handlers : effects[e][h] > 0})]

\* The outbox with its workers implements the abstract delivery of an event.
ImplementsDelivery == Delivery!EventSpec

\* An appended event ends delivered or dead although workers crash and leases expire.
EventuallySettled ==
    \A e \in Events : status[e] = "pending" ~> status[e] \in Terminal \cup {"deleted"}

\* outbox.py:237-239: a stale claim must not overwrite the new lease holder's state, so
\* only the worker that holds the lease ends a claim.
StaleClaimNeverSettles ==
    [][\A w \in Workers : pc[w] = "write" /\ pc'[w] # "write" /\ status'[cur[w]] # status[cur[w]]
            => owner[cur[w]] = Owner[w]]_vars

=============================================================================
