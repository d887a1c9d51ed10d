----------------------------- MODULE OutboxProof -----------------------------
(***************************************************************************)
(* Safety of Outbox for every number of events, workers, handlers, crashes *)
(* and expired leases.                                                     *)
(***************************************************************************)
EXTENDS Outbox, FiniteSetTheorems, TLAPS

-----------------------------------------------------------------------------
(* Typing.                                                                 *)

\* A worker past the check of a row has a current event and, while handling, a
\* current handler.
WorkerShape ==
    \A w \in Workers :
        /\ pc[w] \in Busy => cur[w] \in Events
        /\ pc[w] \in {"handle", "tx", "wrote"} => at[w] \in Handlers
        /\ pc[w] = "wrote" => Kind[at[w]] = "own_uow"

TypeInv == TypeOK /\ WorkerShape

\* The initial state is well formed.
LEMMA TypeInit == Init => TypeInv
  BY OutboxAssumption DEF Init, TypeInv, TypeOK, WorkerShape, Busy

\* Turning to other rows leaves a well-formed worker.
LEMMA TurnToType ==
  ASSUME TypeInv, NEW w \in Workers, NEW rest \in SUBSET Events, TurnTo(w, rest)
  PROVE  /\ pc' \in [Workers -> {"idle", "check"} \cup Busy]
         /\ todo' \in [Workers -> SUBSET Events]
         /\ seen' \in [Workers -> [Events -> Nat]]
         /\ cur' \in [Workers -> Events \cup {NoEvent}]
         /\ at' \in [Workers -> Nat]
         /\ fresh' \in [Workers -> Owners \cup {NoOwner}]
         /\ verdict' \in [Workers -> {"none", "deliver", "retry", "exhausted", "permanent"}]
         /\ WorkerShape'
<1>1. [e \in Events |-> 0] \in [Events -> Nat]
  OBVIOUS
<1>2. pc'[w] \in {"idle", "check"} /\ \A v \in Workers \ {w} : pc'[v] = pc[v]
  BY DEF TurnTo, TypeInv, TypeOK
<1>3. \A v \in Workers \ {w} : cur'[v] = cur[v] /\ at'[v] = at[v]
  BY DEF TurnTo, TypeInv, TypeOK
<1>4. WorkerShape'
  BY <1>2, <1>3 DEF TypeInv, WorkerShape, Busy
<1> QED
  BY <1>1, <1>4 DEF TurnTo, TypeInv, TypeOK

\* Passing a handler leaves a well-formed worker.
LEMMA PastType ==
  ASSUME TypeInv, NEW w \in Workers, NEW h \in 0..HandlerCount, Past(w, h)
  PROVE  /\ pc' \in [Workers -> {"idle", "check"} \cup Busy]
         /\ at' \in [Workers -> Nat]
         /\ verdict' \in [Workers -> {"none", "deliver", "retry", "exhausted", "permanent"}]
         /\ pc'[w] \in {"handle", "read"}
         /\ pc'[w] = "handle" => at'[w] \in Handlers /\ at'[w] = h + 1
         /\ pc'[w] = "read" => h = HandlerCount
         /\ \A v \in Workers \ {w} : pc'[v] = pc[v] /\ at'[v] = at[v] /\ verdict'[v] = verdict[v]
  BY OutboxAssumption DEF Past, TypeInv, TypeOK, Busy, Handlers

\* Every action keeps the types of the state and the shape of the workers.
LEMMA TypeStep == TypeInv /\ [Next]_vars => TypeInv'
<1> SUFFICES ASSUME TypeInv, [Next]_vars PROVE TypeInv'
  OBVIOUS
<1> USE OutboxAssumption
<1>1. ASSUME NEW e \in Events, Append(e) PROVE TypeInv'
  BY <1>1 DEF Append, TypeInv, TypeOK, WorkerShape, workerVars, handlerVars
<1>2. ASSUME NEW w \in Workers, Claim(w) PROVE TypeInv'
  BY <1>2 DEF Claim, TypeInv, TypeOK, WorkerShape, Busy, Owners, handlerVars
<1>3. ASSUME NEW w \in Workers, NEW e \in Events, SkipStale(w, e) PROVE TypeInv'
  <2>1. todo[w] \ {e} \in SUBSET Events
    BY DEF TypeInv, TypeOK
  <2> QED
    BY <1>3, <2>1, TurnToType DEF SkipStale, TypeInv, TypeOK, rowVars, handlerVars
<1>4. ASSUME NEW w \in Workers, NEW e \in Events, Check(w, e) PROVE TypeInv'
  <2>1. /\ todo' \in [Workers -> SUBSET Events] /\ cur' \in [Workers -> Events \cup {NoEvent}]
        /\ cur'[w] = e /\ \A v \in Workers \ {w} : cur'[v] = cur[v]
    BY <1>4 DEF Check, TypeInv, TypeOK
  <2>2. CASE e \in KnownEvents
    <3>1. Past(w, 0) /\ 0 \in 0..HandlerCount
      BY <1>4, <2>2 DEF Check
    <3> QED
      BY <1>4, <2>1, <3>1, PastType
      DEF Check, TypeInv, TypeOK, WorkerShape, Busy, rowVars, handlerVars
  <2>3. CASE e \notin KnownEvents
    <3>1. /\ pc' = [pc EXCEPT ![w] = "read"] /\ at' = at
          /\ verdict' = [verdict EXCEPT ![w] = "permanent"]
      BY <1>4, <2>3 DEF Check
    <3>2. WorkerShape'
      BY <2>1, <3>1 DEF TypeInv, TypeOK, WorkerShape, Busy
    <3> QED
      BY <1>4, <2>1, <3>1, <3>2 DEF Check, TypeInv, TypeOK, Busy, rowVars, handlerVars
  <2> QED
    BY <2>2, <2>3
<1>5. ASSUME NEW w \in Workers, BeginHandler(w) PROVE TypeInv'
  <2>1. at[w] \in Handlers /\ cur[w] \in Events /\ at[w] \in 0..HandlerCount
    BY <1>5 DEF BeginHandler, TypeInv, WorkerShape, Busy, Handlers
  <2>2. CASE Past(w, at[w])
    BY <1>5, <2>1, <2>2, PastType
    DEF BeginHandler, TypeInv, TypeOK, WorkerShape, Busy, rowVars, handlerVars
  <2>3. CASE pc' = [pc EXCEPT ![w] = "tx"] /\ UNCHANGED <<at, verdict>>
    BY <1>5, <2>1, <2>3
    DEF BeginHandler, TypeInv, TypeOK, WorkerShape, Busy, rowVars, handlerVars
  <2> QED
    BY <1>5, <2>2, <2>3 DEF BeginHandler
<1>6. ASSUME NEW w \in Workers, WriteOutside(w) PROVE TypeInv'
  <2>1. at[w] \in Handlers /\ cur[w] \in Events
    BY <1>6 DEF WriteOutside, TypeInv, WorkerShape, Busy
  <2> QED
    BY <1>6, <2>1 DEF WriteOutside, Write, TypeInv, TypeOK, WorkerShape, Busy, rowVars
<1>7. ASSUME NEW w \in Workers, CommitHandler(w) PROVE TypeInv'
  <2>1. at[w] \in Handlers /\ cur[w] \in Events /\ at[w] \in 0..HandlerCount
    BY <1>7 DEF CommitHandler, TypeInv, WorkerShape, Busy, Handlers
  <2>2. effects' \in [Events -> [Handlers -> Nat]] /\ receipt' \subseteq Handlers \X Events
    <3>1. ReceiptOf(w) \in Handlers \X Events
      BY <2>1 DEF ReceiptOf
    <3>2. effects' \in [Events -> [Handlers -> Nat]]
      <4>1. CASE Write(w)
        BY <2>1, <4>1 DEF Write, TypeInv, TypeOK
      <4>2. CASE UNCHANGED effects
        BY <4>2 DEF TypeInv, TypeOK
      <4> QED
        BY <1>7, <4>1, <4>2 DEF CommitHandler
    <3> QED
      BY <1>7, <3>1, <3>2 DEF CommitHandler, TypeInv, TypeOK
  <2> QED
    BY <1>7, <2>1, <2>2, PastType
    DEF CommitHandler, TypeInv, TypeOK, WorkerShape, Busy, rowVars
<1>8. ASSUME NEW w \in Workers, FailHandler(w) PROVE TypeInv'
  <2>1. PICK c \in Categories :
          verdict' = [verdict EXCEPT ![w] = VerdictOf(c, seen[w][cur[w]] + 1)]
    BY <1>8 DEF FailHandler
  <2>2. verdict' \in [Workers -> {"none", "deliver", "retry", "exhausted", "permanent"}]
    BY <2>1 DEF VerdictOf, TypeInv, TypeOK
  <2> QED
    BY <1>8, <2>2 DEF FailHandler, TypeInv, TypeOK, WorkerShape, Busy, rowVars, handlerVars
<1>9. ASSUME NEW w \in Workers, ReadFresh(w) PROVE TypeInv'
  BY <1>9 DEF ReadFresh, TypeInv, TypeOK, WorkerShape, Busy, rowVars, handlerVars
<1>10. ASSUME NEW w \in Workers, ReadGone(w) PROVE TypeInv'
  BY <1>10, TurnToType DEF ReadGone, TypeInv, TypeOK, rowVars, handlerVars
<1>11. ASSUME NEW w \in Workers, Settle(w) PROVE TypeInv'
  <2>1. todo[w] \in SUBSET Events /\ cur[w] \in Events
    BY <1>11 DEF Settle, TypeInv, TypeOK, WorkerShape, Busy
  <2> QED
    BY <1>11, <2>1, TurnToType DEF Settle, TypeInv, TypeOK, Categories, handlerVars
<1>12. ASSUME NEW w \in Workers, SettleMisses(w) PROVE TypeInv'
  <2>1. todo[w] \in SUBSET Events
    BY DEF TypeInv, TypeOK
  <2> QED
    BY <1>12, <2>1, TurnToType DEF SettleMisses, TypeInv, TypeOK, rowVars, handlerVars
<1>13. ASSUME NEW w \in Workers, Crash(w) PROVE TypeInv'
  BY <1>13, TurnToType DEF Crash, TypeInv, TypeOK, rowVars, handlerVars
<1>14. ASSUME NEW e \in Events, LeaseExpires(e) PROVE TypeInv'
  BY <1>14 DEF LeaseExpires, TypeInv, TypeOK, WorkerShape, workerVars, handlerVars
<1>15. ASSUME NEW e \in Events, BecomesDue(e) PROVE TypeInv'
  BY <1>15 DEF BecomesDue, TypeInv, TypeOK, WorkerShape, workerVars, handlerVars
<1>16. ASSUME NEW e \in Events, Cleanup(e) PROVE TypeInv'
  BY <1>16 DEF Cleanup, TypeInv, TypeOK, WorkerShape, workerVars
<1>17. CASE UNCHANGED vars
  BY <1>17 DEF vars, TypeInv, TypeOK, WorkerShape, rowVars, workerVars, handlerVars
<1> QED
  BY <1>1, <1>2, <1>3, <1>4, <1>5, <1>6, <1>7, <1>8, <1>9, <1>10, <1>11, <1>12, <1>13,
     <1>14, <1>15, <1>16, <1>17 DEF Next, Dispatch

\* Typing and worker shape hold in every reachable state.
LEMMA TypeInvariant == Spec => []TypeInv
  BY TypeInit, TypeStep, PTL DEF Spec

\* Every reachable state is well typed, for all values of the constants.
THEOREM TypeCorrect == Spec => []TypeOK
<1>1. TypeInv => TypeOK
  BY DEF TypeInv
<1> QED
  BY <1>1, TypeInvariant, PTL

-----------------------------------------------------------------------------
(* Delivered means handled: every worker carries, for the row it is at, the *)
(* handlers known to have committed, whoever ran them.                      *)

Applied(e, h) == effects[e][h] > 0

\* What worker w knows to be applied of its current event.
Progress(w) ==
    /\ pc[w] \in {"handle", "tx", "wrote"} => \A k \in 1..(at[w] - 1) : Applied(cur[w], k)
    /\ pc[w] = "wrote" => Applied(cur[w], at[w])
    /\ pc[w] \in {"read", "write"} /\ verdict[w] = "deliver" =>
         \A k \in Handlers : Applied(cur[w], k)

DeliveryInv ==
    /\ \A w \in Workers : Progress(w)
    /\ ReceiptMeansApplied
    /\ DeliveredMeansHandled

\* The invariant holds initially.
LEMMA DeliveryInit == Init => DeliveryInv
  BY DEF Init, DeliveryInv, Progress, ReceiptMeansApplied, DeliveredMeansHandled

\* Committed writes are never taken back.
LEMMA WritesStay ==
  ASSUME TypeInv, [Next]_vars
  PROVE  \A e \in Events, h \in Handlers : Applied(e, h) => Applied(e, h)'
<1>1. ASSUME NEW w \in Workers, Write(w) PROVE
        \A e \in Events, h \in Handlers : Applied(e, h) => Applied(e, h)'
  BY <1>1 DEF Write, Applied, TypeInv, TypeOK
<1>2. CASE UNCHANGED effects
  BY <1>2 DEF Applied
<1>3. (\E w \in Workers : Write(w)) \/ UNCHANGED effects
  BY DEF Next, Dispatch, Append, Claim, SkipStale, Check, BeginHandler, WriteOutside,
     CommitHandler, FailHandler, ReadFresh, ReadGone, Settle, SettleMisses, Crash,
     LeaseExpires, BecomesDue, Cleanup, vars, handlerVars
<1> QED
  BY <1>1, <1>2, <1>3

\* A worker that does not move keeps what it knows.
LEMMA OthersProgress ==
  ASSUME TypeInv, [Next]_vars, NEW w \in Workers, Progress(w),
         pc'[w] = pc[w], at'[w] = at[w], cur'[w] = cur[w], verdict'[w] = verdict[w]
  PROVE  Progress(w)'
<1>1. pc[w] \in Busy => cur[w] \in Events
  BY DEF TypeInv, WorkerShape
<1>2. pc[w] \in {"handle", "tx", "wrote"} =>
        at[w] \in Handlers /\ \A k \in 1..(at[w] - 1) : k \in Handlers
  BY OutboxAssumption DEF TypeInv, WorkerShape, Handlers
<1> QED
  BY <1>1, <1>2, WritesStay DEF Progress, Applied, Busy

\* A worker that turns to other rows claims nothing.
LEMMA TurnToProgress ==
  ASSUME TypeInv, NEW w \in Workers, NEW rest, TurnTo(w, rest)
  PROVE  Progress(w)'
  BY DEF TurnTo, Progress, TypeInv, TypeOK

\* A worker that passes handler h, all of 1..h being applied, knows it.
LEMMA PastProgress ==
  ASSUME TypeInv, NEW w \in Workers, NEW h \in 0..HandlerCount, Past(w, h),
         NEW e \in Events, cur'[w] = e, \A k \in 1..h : effects'[e][k] > 0
  PROVE  Progress(w)'
<1>1. pc'[w] \in {"handle", "read"} /\ (pc'[w] = "handle" => at'[w] = h + 1)
  BY PastType
<1>2. pc'[w] = "read" => h = HandlerCount
  BY PastType
<1>3. pc'[w] = "handle" => (at'[w] - 1) = h
  BY <1>1
<1> QED
  BY <1>1, <1>2, <1>3 DEF Progress, Applied, Handlers

\* Every action keeps what the workers know, and no row is delivered on less.
LEMMA DeliveryStep == TypeInv /\ DeliveryInv /\ [Next]_vars => DeliveryInv'
<1> SUFFICES ASSUME TypeInv, DeliveryInv, [Next]_vars PROVE DeliveryInv'
  OBVIOUS
<1> USE OutboxAssumption
<1>1. ReceiptMeansApplied'
  <2>1. CASE receipt' \subseteq receipt
    BY <2>1, WritesStay DEF DeliveryInv, ReceiptMeansApplied, Applied
  <2>2. ASSUME NEW w \in Workers, CommitHandler(w) PROVE ReceiptMeansApplied'
    <3>1. at[w] \in Handlers /\ cur[w] \in Events
      BY <2>2 DEF CommitHandler, TypeInv, WorkerShape, Busy
    <3>2. effects'[cur[w]][at[w]] > 0
      <4>1. CASE Write(w)
        BY <3>1, <4>1 DEF Write, TypeInv, TypeOK
      <4>2. CASE pc[w] = "wrote" /\ UNCHANGED effects
        BY <4>2 DEF DeliveryInv, Progress, Applied
      <4> QED
        BY <2>2, <4>1, <4>2 DEF CommitHandler
    <3>3. receipt' \subseteq receipt \cup {<<at[w], cur[w]>>}
      BY <2>2 DEF CommitHandler, ReceiptOf
    <3>4. ASSUME NEW e \in Events, NEW h \in Handlers, <<h, e>> \in receipt'
          PROVE  effects'[e][h] > 0
      <4>1. CASE <<h, e>> \in receipt
        BY <4>1, WritesStay DEF DeliveryInv, ReceiptMeansApplied, Applied
      <4>2. CASE <<h, e>> = <<at[w], cur[w]>>
        <5>1. h = at[w] /\ e = cur[w]
          BY <4>2
        <5> QED
          BY <5>1, <3>2
      <4> QED
        BY <3>3, <3>4, <4>1, <4>2
    <3> QED
      BY <3>4 DEF ReceiptMeansApplied
  <2>3. (\E w \in Workers : CommitHandler(w)) \/ receipt' \subseteq receipt
    BY DEF Next, Dispatch, Append, Claim, SkipStale, Check, BeginHandler, WriteOutside,
       FailHandler, ReadFresh, ReadGone, Settle, SettleMisses, Crash,
       LeaseExpires, BecomesDue, Cleanup, vars, handlerVars
  <2> QED
    BY <2>1, <2>2, <2>3
<1>2. DeliveredMeansHandled'
  <2>1. ASSUME NEW w \in Workers, Settle(w) PROVE DeliveredMeansHandled'
    <3>1. cur[w] \in Events
      BY <2>1 DEF Settle, TypeInv, WorkerShape, Busy
    <3>2. verdict[w] = "deliver" => \A k \in Handlers : Applied(cur[w], k)
      BY <2>1 DEF Settle, DeliveryInv, Progress
    <3>3. \A e \in Events : status'[e] = "delivered" =>
            status[e] = "delivered" \/ (e = cur[w] /\ verdict[w] = "deliver")
      BY <2>1, <3>1 DEF Settle, TypeInv, TypeOK
    <3>4. effects' = effects
      BY <2>1 DEF Settle, handlerVars
    <3> QED
      BY <3>2, <3>3, <3>4 DEF DeliveryInv, DeliveredMeansHandled, Applied
  <2>2. CASE \A e \in Events : status'[e] = "delivered" => status[e] = "delivered"
    BY <2>2, WritesStay DEF DeliveryInv, DeliveredMeansHandled, Applied
  <2>3. (\E w \in Workers : Settle(w)) \/
        \A e \in Events : status'[e] = "delivered" => status[e] = "delivered"
    <3>1. ASSUME NEW d \in Events, Append(d) \/ Cleanup(d)
          PROVE  \A e \in Events : status'[e] = "delivered" => status[e] = "delivered"
      BY <3>1 DEF Append, Cleanup, TypeInv, TypeOK
    <3>2. ASSUME NEW w \in Workers, Claim(w)
          PROVE  \A e \in Events : status'[e] = "delivered" => status[e] = "delivered"
      BY <3>2 DEF Claim
    <3>3. \/ \E d \in Events : Append(d) \/ Cleanup(d)
          \/ \E w \in Workers : Claim(w) \/ Settle(w)
          \/ UNCHANGED status
      BY DEF Next, Dispatch, SkipStale, Check, BeginHandler, WriteOutside, CommitHandler,
         FailHandler, ReadFresh, ReadGone, SettleMisses, Crash, LeaseExpires, BecomesDue,
         vars, rowVars
    <3> QED
      BY <3>1, <3>2, <3>3
  <2> QED
    BY <2>1, <2>2, <2>3
<1>3. \A v \in Workers : Progress(v)'
  <2> SUFFICES ASSUME NEW v \in Workers PROVE Progress(v)'
    OBVIOUS
  <2> DEFINE Still == /\ pc'[v] = pc[v] /\ at'[v] = at[v]
                      /\ cur'[v] = cur[v] /\ verdict'[v] = verdict[v]
  <2>0. Still => Progress(v)'
    BY OthersProgress DEF DeliveryInv
  <2>1. CASE \E w \in Workers \ {v} : Claim(w) \/ Dispatch(w) \/ Crash(w)
    <3>1. PICK w \in Workers \ {v} : Claim(w) \/ Dispatch(w) \/ Crash(w)
      BY <2>1
    <3>2. Still
      BY <3>1 DEF Claim, Dispatch, SkipStale, Check, BeginHandler, WriteOutside, CommitHandler,
         FailHandler, ReadFresh, ReadGone, Settle, SettleMisses, Crash, TurnTo, Past,
         TypeInv, TypeOK
    <3> QED
      BY <2>0, <3>2
  <2>2. CASE Claim(v)
    BY <2>2 DEF Claim, Progress, TypeInv, TypeOK
  <2>3. CASE \E e \in Events : SkipStale(v, e)
    BY <2>3, TurnToProgress DEF SkipStale
  <2>4. ASSUME NEW e \in Events, Check(v, e) PROVE Progress(v)'
    <3>1. cur'[v] = e
      BY <2>4 DEF Check, TypeInv, TypeOK
    <3>2. CASE e \in KnownEvents
      <4>1. Past(v, 0) /\ 0 \in 0..HandlerCount /\ \A k \in 1..0 : effects'[e][k] > 0
        BY <2>4, <3>2 DEF Check
      <4> QED
        BY <3>1, <4>1, PastProgress
    <3>3. CASE e \notin KnownEvents
      <4>1. pc'[v] = "read" /\ verdict'[v] = "permanent"
        BY <2>4, <3>3 DEF Check, TypeInv, TypeOK
      <4> QED
        BY <4>1 DEF Progress
    <3> QED
      BY <3>2, <3>3
  <2>5. CASE BeginHandler(v)
    <3>1. at[v] \in Handlers /\ at[v] \in 0..HandlerCount /\ cur[v] \in Events
      BY <2>5 DEF BeginHandler, TypeInv, WorkerShape, Busy, Handlers
    <3>2. cur' = cur /\ effects' = effects
      BY <2>5 DEF BeginHandler, handlerVars
    <3>3. CASE Past(v, at[v]) /\ ReceiptOf(v) \in receipt
      <4>1. Applied(cur[v], at[v])
        BY <3>1, <3>3 DEF ReceiptOf, DeliveryInv, ReceiptMeansApplied, Applied
      <4>2. \A k \in 1..(at[v] - 1) : Applied(cur[v], k)
        BY <2>5 DEF BeginHandler, DeliveryInv, Progress
      <4>3. \A k \in 1..at[v] : effects'[cur[v]][k] > 0
        <5>1. \A k \in 1..at[v] : k = at[v] \/ k \in 1..(at[v] - 1)
          BY <3>1 DEF Handlers
        <5> QED
          BY <3>2, <4>1, <4>2, <5>1 DEF Applied
      <4> QED
        BY <3>1, <3>2, <3>3, <4>3, PastProgress
    <3>4. CASE pc' = [pc EXCEPT ![v] = "tx"] /\ UNCHANGED <<at, verdict>>
      <4>1. pc'[v] = "tx" /\ pc[v] = "handle" /\ at'[v] = at[v]
        BY <2>5, <3>4 DEF BeginHandler, TypeInv, TypeOK
      <4> QED
        BY <3>2, <4>1 DEF DeliveryInv, Progress, Applied
    <3> QED
      BY <2>5, <3>3, <3>4 DEF BeginHandler
  <2>6. CASE WriteOutside(v)
    <3>1. at[v] \in Handlers /\ cur[v] \in Events
      BY <2>6 DEF WriteOutside, TypeInv, WorkerShape, Busy
    <3>2. pc'[v] = "wrote" /\ pc[v] = "tx" /\ at'[v] = at[v] /\ cur'[v] = cur[v]
      BY <2>6 DEF WriteOutside, TypeInv, TypeOK
    <3>3. effects'[cur[v]][at[v]] > 0
      BY <2>6, <3>1 DEF WriteOutside, Write, TypeInv, TypeOK
    <3>4. \A k \in 1..(at[v] - 1) : k \in Handlers /\ Applied(cur[v], k)
      BY <3>1, <3>2 DEF DeliveryInv, Progress, Handlers
    <3>5. \A k \in 1..(at[v] - 1) : Applied(cur[v], k)'
      BY <3>1, <3>2, <3>4, WritesStay DEF Applied
    <3> QED
      BY <3>2, <3>3, <3>5 DEF Progress, Applied
  <2>7. CASE CommitHandler(v)
    <3>1. at[v] \in Handlers /\ at[v] \in 0..HandlerCount /\ cur[v] \in Events
      BY <2>7 DEF CommitHandler, TypeInv, WorkerShape, Busy, Handlers
    <3>2. cur'[v] = cur[v] /\ Past(v, at[v])
      BY <2>7 DEF CommitHandler
    <3>3. effects'[cur[v]][at[v]] > 0
      <4>1. CASE Write(v)
        BY <3>1, <4>1 DEF Write, TypeInv, TypeOK
      <4>2. CASE pc[v] = "wrote" /\ UNCHANGED effects
        BY <4>2 DEF DeliveryInv, Progress, Applied
      <4> QED
        BY <2>7, <4>1, <4>2 DEF CommitHandler
    <3>4. \A k \in 1..(at[v] - 1) : k \in Handlers /\ Applied(cur[v], k)
      BY <2>7, <3>1 DEF CommitHandler, DeliveryInv, Progress, Handlers
    <3>5. \A k \in 1..(at[v] - 1) : effects'[cur[v]][k] > 0
      BY <3>1, <3>4, WritesStay DEF Applied
    <3>6. \A k \in 1..at[v] : k = at[v] \/ k \in 1..(at[v] - 1)
      BY <3>1 DEF Handlers
    <3>7. \A k \in 1..at[v] : effects'[cur[v]][k] > 0
      BY <3>3, <3>5, <3>6
    <3> QED
      BY <3>1, <3>2, <3>7, PastProgress
  <2>8. CASE FailHandler(v)
    <3>1. PICK c \in Categories :
            verdict' = [verdict EXCEPT ![v] = VerdictOf(c, seen[v][cur[v]] + 1)]
      BY <2>8 DEF FailHandler
    <3>2. pc'[v] = "read" /\ verdict'[v] # "deliver"
      BY <2>8, <3>1 DEF FailHandler, VerdictOf, TypeInv, TypeOK
    <3> QED
      BY <3>2 DEF Progress
  <2>9. CASE ReadFresh(v)
    <3>1. pc[v] = "read" /\ pc'[v] = "write" /\ UNCHANGED <<cur, verdict, effects>>
      BY <2>9 DEF ReadFresh, handlerVars, TypeInv, TypeOK
    <3> QED
      BY <3>1 DEF DeliveryInv, Progress, Applied
  <2>10. CASE ReadGone(v) \/ Settle(v) \/ SettleMisses(v) \/ Crash(v)
    BY <2>10, TurnToProgress DEF ReadGone, Settle, SettleMisses, Crash
  <2>11. CASE \/ \E e \in Events : Append(e) \/ LeaseExpires(e) \/ BecomesDue(e) \/ Cleanup(e)
              \/ UNCHANGED vars
    BY <2>0, <2>11 DEF Append, LeaseExpires, BecomesDue, Cleanup, workerVars, vars
  <2> QED
    BY <2>1, <2>2, <2>3, <2>4, <2>5, <2>6, <2>7, <2>8, <2>9, <2>10, <2>11 DEF Next, Dispatch
<1> QED
  BY <1>1, <1>2, <1>3 DEF DeliveryInv

\* A row is reported delivered only when every handler has committed its write, and a
\* receipt is only there with the write it stands for, however workers interleave.
THEOREM DeliveryCorrect == Spec => [](ReceiptMeansApplied /\ DeliveredMeansHandled)
<1>1. Spec => []DeliveryInv
  BY TypeInvariant, DeliveryInit, DeliveryStep, PTL DEF Spec
<1>2. DeliveryInv => ReceiptMeansApplied /\ DeliveredMeansHandled
  BY DEF DeliveryInv
<1> QED
  BY <1>1, <1>2, PTL

-----------------------------------------------------------------------------
(* At most once: an uncommitted receipt excludes every other one for the    *)
(* same handler and event, and a write made under a committed receipt keeps *)
(* it for as long as anybody can deliver the event.                         *)

Exclusive(w) ==
    pc[w] \in {"tx", "wrote"} /\ Guarded(at[w]) =>
        ReceiptOf(w) \notin receipt /\ ~ReceiptLocked(w)

Once(e, h) ==
    Kind[h] = "inbox" =>
        \/ effects[e][h] = 0
        \/ effects[e][h] = 1 /\ (<<h, e>> \in receipt \/ AtRest(e))

OnceInv ==
    /\ \A w \in Workers : Exclusive(w)
    /\ \A e \in Events, h \in Handlers : Once(e, h)

\* The invariant holds initially.
LEMMA OnceInit == Init => OnceInv
  BY DEF Init, OnceInv, Exclusive, Once

\* An event whose row is settled and that nobody holds is never delivered again.
LEMMA RestStays ==
  ASSUME TypeInv, [Next]_vars, NEW e \in Events, AtRest(e)
  PROVE  AtRest(e)'
<1>1. ASSUME NEW w \in Workers, Claim(w) PROVE AtRest(e)'
  <2>1. PICK S \in SUBSET {d \in Events : Due(d)} :
          /\ status' = [d \in Events |-> IF d \in S THEN "claimed" ELSE status[d]]
          /\ todo' = [todo EXCEPT ![w] = S]
    BY <1>1 DEF Claim
  <2>2. e \notin S
    BY <2>1 DEF Due, AtRest, Terminal
  <2>3. cur' = cur
    BY <1>1 DEF Claim
  <2> QED
    BY <2>1, <2>2, <2>3 DEF AtRest, Held, TypeInv, TypeOK
<1>2. ASSUME NEW w \in Workers, NEW d \in Events, SkipStale(w, d) \/ Check(w, d)
      PROVE  AtRest(e)'
  <2>1. status' = status /\ d \in todo[w] /\ d # e
    BY <1>2 DEF SkipStale, Check, rowVars, AtRest, Held
  <2>2. \A v \in Workers : todo'[v] \subseteq todo[v] /\ cur'[v] \in {cur[v], d, NoEvent}
    BY <1>2 DEF SkipStale, Check, TurnTo, TypeInv, TypeOK
  <2> QED
    BY <2>1, <2>2, OutboxAssumption DEF AtRest, Held
<1>3. ASSUME NEW w \in Workers,
             ReadGone(w) \/ SettleMisses(w) \/ Crash(w)
      PROVE  AtRest(e)'
  <2>1. status' = status
    BY <1>3 DEF ReadGone, SettleMisses, Crash, rowVars
  <2>2. \A v \in Workers : todo'[v] \subseteq todo[v] /\ cur'[v] \in {cur[v], NoEvent}
    BY <1>3 DEF ReadGone, SettleMisses, Crash, TurnTo, TypeInv, TypeOK
  <2> QED
    BY <2>1, <2>2, OutboxAssumption DEF AtRest, Held
<1>4. ASSUME NEW w \in Workers, Settle(w) PROVE AtRest(e)'
  <2>1. cur[w] # e /\ status'[e] = status[e]
    BY <1>4 DEF Settle, AtRest, Held, TypeInv, TypeOK
  <2>2. \A v \in Workers : todo'[v] \subseteq todo[v] /\ cur'[v] \in {cur[v], NoEvent}
    BY <1>4 DEF Settle, TurnTo, TypeInv, TypeOK
  <2> QED
    BY <2>1, <2>2, OutboxAssumption DEF AtRest, Held
<1>5. ASSUME NEW d \in Events, Append(d) \/ Cleanup(d) PROVE AtRest(e)'
  <2>1. status'[e] \in Terminal \cup {"deleted"}
    BY <1>5 DEF Append, Cleanup, AtRest, Terminal, TypeInv, TypeOK
  <2> QED
    BY <1>5, <2>1 DEF Append, Cleanup, AtRest, Held, workerVars
<1>6. CASE UNCHANGED <<status, todo, cur>>
  BY <1>6 DEF AtRest, Held
<1>7. \/ \E w \in Workers : \/ Claim(w) \/ ReadGone(w) \/ SettleMisses(w) \/ Crash(w) \/ Settle(w)
                            \/ \E d \in Events : SkipStale(w, d) \/ Check(w, d)
      \/ \E d \in Events : Append(d) \/ Cleanup(d)
      \/ UNCHANGED <<status, todo, cur>>
  BY DEF Next, Dispatch, BeginHandler, WriteOutside, CommitHandler, FailHandler, ReadFresh,
     LeaseExpires, BecomesDue, vars, rowVars, workerVars
<1> QED
  BY <1>1, <1>2, <1>3, <1>4, <1>5, <1>6, <1>7

\* No two workers hold the same uncommitted receipt.
LEMMA ExclusiveStep ==
  ASSUME TypeInv, OnceInv, [Next]_vars, NEW v \in Workers
  PROVE  Exclusive(v)'
<1> USE OutboxAssumption DEF Exclusive, ReceiptOf, ReceiptLocked
<1>1. ASSUME NEW w \in Workers, BeginHandler(w) PROVE Exclusive(v)'
  <2>1. receipt' = receipt /\ cur' = cur
    BY <1>1 DEF BeginHandler, handlerVars
  <2>2. CASE pc' = [pc EXCEPT ![w] = "tx"] /\ UNCHANGED <<at, verdict>>
    <3>1. Guarded(at[w]) => <<at[w], cur[w]>> \notin receipt /\ ~ReceiptLocked(w)
      <4>1. Guarded(at[w]) /\ <<at[w], cur[w]>> \in receipt => Past(w, at[w])
        BY <1>1 DEF BeginHandler
      <4>2. ~Past(w, at[w])
        BY <2>2 DEF Past, TypeInv, TypeOK
      <4> QED
        BY <1>1, <4>1, <4>2 DEF BeginHandler
    <3>2. CASE v = w
      BY <2>1, <2>2, <3>1, <3>2 DEF TypeInv, TypeOK
    <3>3. CASE v # w
      BY <2>1, <2>2, <3>1, <3>3 DEF OnceInv, TypeInv, TypeOK
    <3> QED
      BY <3>2, <3>3
  <2>3. CASE Past(w, at[w])
    <3>1. pc'[w] \notin {"tx", "wrote"} /\ \A u \in Workers \ {w} : pc'[u] = pc[u] /\ at'[u] = at[u]
      BY <2>3 DEF Past, TypeInv, TypeOK
    <3> QED
      BY <2>1, <3>1 DEF OnceInv
  <2> QED
    BY <1>1, <2>2, <2>3 DEF BeginHandler
<1>2. ASSUME NEW w \in Workers, CommitHandler(w) PROVE Exclusive(v)'
  <2>1. pc'[w] \notin {"tx", "wrote"} /\ \A u \in Workers \ {w} : pc'[u] = pc[u] /\ at'[u] = at[u]
    BY <1>2 DEF CommitHandler, Past, TypeInv, TypeOK
  <2>2. cur' = cur /\ receipt' \subseteq receipt \cup {<<at[w], cur[w]>>}
    BY <1>2 DEF CommitHandler
  <2>3. pc[w] \in {"tx", "wrote"}
    BY <1>2 DEF CommitHandler
  <2>4. CASE v # w /\ pc[v] \in {"tx", "wrote"} /\ Guarded(at[v])
    <3>1. <<at[v], cur[v]>> \notin receipt /\ ~(cur[w] = cur[v] /\ at[w] = at[v])
      BY <2>3, <2>4 DEF OnceInv
    <3> QED
      BY <2>1, <2>2, <2>4, <3>1 DEF OnceInv
  <2> QED
    BY <2>1, <2>4
<1>3. ASSUME NEW w \in Workers,
             pc'[w] \notin {"tx", "wrote"} \/ (pc'[w] = "wrote" /\ pc[w] = "tx"),
             pc'[w] \in {"tx", "wrote"} => at'[w] = at[w] /\ cur'[w] = cur[w],
             \A u \in Workers \ {w} : pc'[u] = pc[u] /\ at'[u] = at[u] /\ cur'[u] = cur[u],
             receipt' \subseteq receipt
      PROVE  Exclusive(v)'
  <2>1. \A u \in Workers : pc'[u] \in {"tx", "wrote"} =>
          pc[u] \in {"tx", "wrote"} /\ at'[u] = at[u] /\ cur'[u] = cur[u]
    BY <1>3
  <2> QED
    BY <1>3, <2>1 DEF OnceInv
<1>4. ASSUME NEW w \in Workers, Claim(w) \/ (Dispatch(w) /\ ~BeginHandler(w) /\ ~CommitHandler(w))
             \/ Crash(w)
      PROVE  Exclusive(v)'
  <2>1. pc'[w] \notin {"tx", "wrote"} \/ (pc'[w] = "wrote" /\ pc[w] = "tx")
    BY <1>4 DEF Claim, Dispatch, SkipStale, Check, Past, WriteOutside, FailHandler, ReadFresh,
       ReadGone, Settle, SettleMisses, Crash, TurnTo, TypeInv, TypeOK
  <2>2. pc'[w] \in {"tx", "wrote"} => at'[w] = at[w] /\ cur'[w] = cur[w]
    BY <1>4 DEF Claim, Dispatch, SkipStale, Check, Past, WriteOutside, FailHandler, ReadFresh,
       ReadGone, Settle, SettleMisses, Crash, TurnTo, TypeInv, TypeOK
  <2>3. \A u \in Workers \ {w} : pc'[u] = pc[u] /\ at'[u] = at[u] /\ cur'[u] = cur[u]
    BY <1>4 DEF Claim, Dispatch, SkipStale, Check, Past, WriteOutside, FailHandler, ReadFresh,
       ReadGone, Settle, SettleMisses, Crash, TurnTo, TypeInv, TypeOK
  <2>4. receipt' = receipt
    BY <1>4 DEF Claim, Dispatch, SkipStale, Check, WriteOutside, FailHandler, ReadFresh,
       ReadGone, Settle, SettleMisses, Crash, handlerVars
  <2> QED
    BY <1>3, <2>1, <2>2, <2>3, <2>4
<1>5. CASE UNCHANGED <<pc, at, cur>> /\ receipt' \subseteq receipt
  BY <1>5 DEF OnceInv
<1>6. (\E e \in Events : Append(e) \/ LeaseExpires(e) \/ BecomesDue(e) \/ Cleanup(e)) \/ UNCHANGED vars
        => UNCHANGED <<pc, at, cur>> /\ receipt' \subseteq receipt
  BY DEF Append, LeaseExpires, BecomesDue, Cleanup, vars, workerVars, handlerVars
<1> QED
  BY <1>1, <1>2, <1>4, <1>5, <1>6 DEF Next

\* Every action keeps the invariant when records of events in flight are not purged.
LEMMA OnceStep ==
  ASSUME ~RetentionRace PROVE TypeInv /\ OnceInv /\ [Next]_vars => OnceInv'
<1> SUFFICES ASSUME TypeInv, OnceInv, [Next]_vars PROVE OnceInv'
  OBVIOUS
<1> SUFFICES ASSUME NEW e \in Events, NEW h \in Handlers, Kind[h] = "inbox" PROVE Once(e, h)'
  BY ExclusiveStep DEF OnceInv, Once
<1>0. Once(e, h)
  BY DEF OnceInv
<1>1. ASSUME NEW w \in Workers, CommitHandler(w), Write(w) PROVE Once(e, h)'
  <2>1. at[w] \in Handlers /\ cur[w] \in Events
    BY <1>1 DEF CommitHandler, TypeInv, WorkerShape, Busy
  <2>2. CASE h = at[w] /\ e = cur[w]
    <3>1. Guarded(at[w]) /\ pc[w] \in {"tx", "wrote"}
      BY <1>1, <2>2 DEF CommitHandler, Guarded
    <3>2. <<h, e>> \notin receipt /\ ~AtRest(e)
      BY <2>2, <3>1 DEF OnceInv, Exclusive, ReceiptOf, AtRest, Held
    <3>3. effects[e][h] = 0
      BY <1>0, <3>2 DEF Once
    <3>4. effects'[e][h] = 1
      BY <1>1, <2>1, <2>2, <3>3 DEF Write, TypeInv, TypeOK
    <3>5. <<h, e>> \in receipt'
      BY <1>1, <2>2, <3>1 DEF CommitHandler, ReceiptOf
    <3> QED
      BY <3>4, <3>5 DEF Once
  <2>3. CASE ~(h = at[w] /\ e = cur[w])
    <3>1. effects'[e][h] = effects[e][h]
      BY <1>1, <2>1, <2>3 DEF Write, TypeInv, TypeOK
    <3>2. receipt \subseteq receipt'
      BY <1>1 DEF CommitHandler
    <3> QED
      BY <1>0, <3>1, <3>2, RestStays DEF Once
  <2> QED
    BY <2>2, <2>3
<1>2. ASSUME NEW w \in Workers, WriteOutside(w) PROVE Once(e, h)'
  <2>1. at[w] \in Handlers /\ cur[w] \in Events /\ at[w] # h
    BY <1>2 DEF WriteOutside, TypeInv, WorkerShape, Busy
  <2>2. effects'[e][h] = effects[e][h] /\ receipt' = receipt
    BY <1>2, <2>1 DEF WriteOutside, Write, TypeInv, TypeOK
  <2> QED
    BY <1>0, <2>2, RestStays DEF Once
<1>3. ASSUME NEW d \in Events, Cleanup(d) PROVE Once(e, h)'
  <2>1. AtRest(d) /\ effects' = effects
    BY <1>3 DEF Cleanup
  <2>2. CASE d = e
    BY <1>0, <2>1, <2>2, RestStays DEF Once
  <2>3. CASE d # e
    <3>1. <<h, e>> \in receipt => <<h, e>> \in receipt'
      BY <1>3, <2>3 DEF Cleanup
    <3> QED
      BY <1>0, <2>1, <3>1, RestStays DEF Once
  <2> QED
    BY <2>2, <2>3
<1>4. CASE effects' = effects /\ receipt \subseteq receipt'
  BY <1>0, <1>4, RestStays DEF Once
<1>5. \/ \E w \in Workers : (CommitHandler(w) /\ Write(w)) \/ WriteOutside(w)
      \/ \E d \in Events : Cleanup(d)
      \/ effects' = effects /\ receipt \subseteq receipt'
  BY ZenonT(30) DEF Next, Dispatch, Append, Claim, SkipStale, Check, BeginHandler, CommitHandler,
     FailHandler, ReadFresh, ReadGone, Settle, SettleMisses, Crash, LeaseExpires, BecomesDue,
     vars, handlerVars
<1> QED
  BY <1>1, <1>2, <1>3, <1>4, <1>5

\* However many workers deliver an event, and however stale they are, the write of a
\* handler that commits with its receipt happens at most once, provided the retention
\* period outlives every delivery.
THEOREM HandledAtMostOnce == ~RetentionRace => (Spec => []AppliedAtMostOnce)
<1> SUFFICES ASSUME ~RetentionRace PROVE Spec => []AppliedAtMostOnce
  OBVIOUS
<1>1. TypeInv /\ OnceInv /\ [Next]_vars => OnceInv'
  BY OnceStep
<1>2. OnceInv => AppliedAtMostOnce
  <2> SUFFICES ASSUME OnceInv, NEW e \in Events, NEW h \in Handlers, Kind[h] = "inbox"
               PROVE  effects[e][h] <= 1
    BY DEF AppliedAtMostOnce
  <2>1. effects[e][h] = 0 \/ effects[e][h] = 1
    BY DEF OnceInv, Once
  <2> QED
    BY <2>1
<1> QED
  BY <1>1, <1>2, OnceInit, TypeInvariant, PTL DEF Spec

-----------------------------------------------------------------------------
\* A row that is delivered or dead is never put back in the queue, whoever still holds
\* it; only retention removes it.
THEOREM SettledForGood == Spec => TerminalIsFinal
<1>1. ASSUME TypeInv, [Next]_vars, NEW e \in Events, status[e] \in Terminal
      PROVE  status'[e] \in {status[e], "deleted"}
  <2>1. ASSUME NEW w \in Workers, Settle(w) PROVE status'[e] = status[e]
    BY <1>1, <2>1 DEF Settle, Matches, Terminal, TypeInv, TypeOK
  <2>2. ASSUME NEW w \in Workers, Claim(w) PROVE status'[e] = status[e]
    BY <1>1, <2>2 DEF Claim, Due, Terminal
  <2>3. ASSUME NEW d \in Events, Append(d) \/ Cleanup(d)
        PROVE  status'[e] \in {status[e], "deleted"}
    BY <1>1, <2>3 DEF Append, Cleanup, Terminal, TypeInv, TypeOK
  <2>4. \/ \E d \in Events : Append(d) \/ Cleanup(d)
        \/ \E w \in Workers : Claim(w) \/ Settle(w)
        \/ UNCHANGED status
    BY <1>1 DEF Next, Dispatch, SkipStale, Check, BeginHandler, WriteOutside, CommitHandler,
       FailHandler, ReadFresh, ReadGone, SettleMisses, Crash, LeaseExpires, BecomesDue,
       vars, rowVars
  <2> QED
    BY <2>1, <2>2, <2>3, <2>4
<1>2. TypeInv /\ [Next]_vars => [\A e \in Events : status[e] \in Terminal =>
            status'[e] \in {status[e], "deleted"}]_vars
  BY <1>1
<1> QED
  BY <1>2, TypeInvariant, PTL DEF Spec, TerminalIsFinal

\* What dispatchers owe an event, for every number of workers, crashes and overrun
\* leases, as long as retention outlives deliveries (outbox.py, inbox.py).
THEOREM DeliveryIsForGood == ~RetentionRace => (Spec => DeliveredForGood)
<1> SUFFICES ASSUME ~RetentionRace PROVE Spec => DeliveredForGood
  OBVIOUS
<1>1. Spec => []AppliedAtMostOnce
  BY HandledAtMostOnce
<1>2. Spec => [](AppliedAtMostOnce /\ DeliveredMeansHandled)
  BY <1>1, DeliveryCorrect, PTL
<1> QED
  BY <1>2, SettledForGood DEF DeliveredForGood

-----------------------------------------------------------------------------
(* The outbox implements EventDelivery: the rows that a worker holds were   *)
(* appended, a committed write adds a handler to those applied, and only a  *)
(* claimed row is settled.                                                  *)

HeldWasAppended ==
    \A w \in Workers :
        /\ cur[w] \in Events => status[cur[w]] # "absent"
        /\ \A e \in todo[w] : status[e] # "absent"

\* Nobody holds a row initially.
LEMMA HeldInit == Init => HeldWasAppended
  BY OutboxAssumption DEF Init, HeldWasAppended

\* A row that was appended stays so.
LEMMA AppendedStays ==
  ASSUME TypeInv, [Next]_vars, NEW e \in Events, status[e] # "absent"
  PROVE  status'[e] # "absent"
<1>1. ASSUME NEW w \in Workers, Settle(w) PROVE status'[e] # "absent"
  BY <1>1 DEF Settle, TypeInv, TypeOK
<1>2. ASSUME NEW w \in Workers, Claim(w) PROVE status'[e] # "absent"
  BY <1>2 DEF Claim
<1>3. ASSUME NEW d \in Events, Append(d) \/ Cleanup(d) PROVE status'[e] # "absent"
  BY <1>3 DEF Append, Cleanup, TypeInv, TypeOK
<1>4. \/ \E d \in Events : Append(d) \/ Cleanup(d)
      \/ \E w \in Workers : Claim(w) \/ Settle(w)
      \/ UNCHANGED status
  BY DEF Next, Dispatch, SkipStale, Check, BeginHandler, WriteOutside, CommitHandler,
     FailHandler, ReadFresh, ReadGone, SettleMisses, Crash, LeaseExpires, BecomesDue,
     vars, rowVars
<1> QED
  BY <1>1, <1>2, <1>3, <1>4

\* A worker takes up rows only by claiming them.
LEMMA HeldStep == TypeInv /\ HeldWasAppended /\ [Next]_vars => HeldWasAppended'
<1> SUFFICES ASSUME TypeInv, HeldWasAppended, [Next]_vars, NEW v \in Workers
             PROVE  /\ cur'[v] \in Events => status'[cur'[v]] # "absent"
                    /\ \A e \in todo'[v] : status'[e] # "absent"
  BY DEF HeldWasAppended
<1> USE OutboxAssumption
<1>1. ASSUME NEW w \in Workers, Claim(w)
      PROVE  cur'[v] = cur[v] /\ \A e \in todo'[v] : e \in todo[v] \/ status'[e] = "claimed"
  BY <1>1 DEF Claim, TypeInv, TypeOK
<1>2. ASSUME NEW w \in Workers, Dispatch(w) \/ Crash(w)
      PROVE  cur'[v] \in {cur[v], NoEvent} \union todo[v] /\ todo'[v] \subseteq todo[v]
  BY <1>2 DEF Dispatch, SkipStale, Check, BeginHandler, WriteOutside, CommitHandler,
     FailHandler, ReadFresh, ReadGone, Settle, SettleMisses, Crash, TurnTo, TypeInv, TypeOK
<1>3. CASE UNCHANGED <<cur, todo>>
  BY <1>3, AppendedStays DEF HeldWasAppended, TypeInv, TypeOK
<1>4. \/ \E w \in Workers : Claim(w) \/ Dispatch(w) \/ Crash(w)
      \/ UNCHANGED <<cur, todo>>
  BY DEF Next, Append, LeaseExpires, BecomesDue, Cleanup, vars, workerVars
<1>5. todo[v] \in SUBSET Events
  BY DEF TypeInv, TypeOK
<1> QED
  BY <1>1, <1>2, <1>3, <1>4, <1>5, AppendedStays DEF HeldWasAppended, TypeInv, TypeOK

\* The handlers applied to an event are as many as the abstract specification counts.
HandledBy(e) == {h \in Handlers : effects[e][h] > 0}

\* The handlers of an event are finitely many.
LEMMA HandledIsFinite ==
  ASSUME NEW S \in SUBSET Handlers
  PROVE  /\ IsFiniteSet(S) /\ Cardinality(S) \in 0..HandlerCount
         /\ Cardinality(S) = HandlerCount => S = Handlers
<1>1. IsFiniteSet(Handlers) /\ Cardinality(Handlers) = HandlerCount
  BY OutboxAssumption, FS_Interval DEF Handlers
<1>2. IsFiniteSet(S) /\ Cardinality(S) <= Cardinality(Handlers)
      /\ (Cardinality(S) = Cardinality(Handlers) => S = Handlers)
  BY <1>1, FS_Subset
<1>3. Cardinality(S) \in Nat
  BY <1>2, FS_CardinalityType
<1> QED
  BY <1>1, <1>2, <1>3, OutboxAssumption

AbstractState == [e \in Events |-> DeliveryState(e)]
AbstractApplied == [e \in Events |-> Cardinality({h \in Handlers : effects[e][h] > 0})]

\* A committed write applies one more handler, or repeats one.
LEMMA WriteApplies ==
  ASSUME TypeInv, NEW w \in Workers, Write(w), cur[w] \in Events, at[w] \in Handlers
  PROVE  \/ AbstractApplied' = AbstractApplied
         \/ /\ HandledBy(cur[w]) # Handlers
            /\ AbstractApplied[cur[w]] < HandlerCount
            /\ AbstractApplied' = [AbstractApplied EXCEPT ![cur[w]] = @ + 1]
<1> DEFINE e == cur[w]
           Done(d) == {h \in Handlers : effects[d][h] > 0}
           DoneNow(d) == {h \in Handlers : effects'[d][h] > 0}
<1>1. /\ \A d \in Events \ {e} : effects'[d] = effects[d]
      /\ effects'[e][at[w]] > 0
      /\ \A h \in Handlers \ {at[w]} : effects'[e][h] = effects[e][h]
  BY DEF Write, TypeInv, TypeOK
<1>2. \A d \in Events \ {e} : DoneNow(d) = Done(d)
  BY <1>1
<1>3. DoneNow(e) = Done(e) \union {at[w]}
  BY <1>1
<1>4. /\ AbstractApplied = [d \in Events |-> Cardinality(Done(d))]
      /\ AbstractApplied' = [d \in Events |-> Cardinality(DoneNow(d))]
      /\ HandledBy(e) = Done(e)
  BY DEF AbstractApplied, HandledBy
<1>5. Done(e) \in SUBSET Handlers
  OBVIOUS
<1> HIDE DEF Done, DoneNow
<1>6. CASE at[w] \in Done(e)
  <2>1. \A d \in Events : DoneNow(d) = Done(d)
    BY <1>2, <1>3, <1>6
  <2> QED
    BY <1>4, <2>1
<1>7. CASE at[w] \notin Done(e)
  <2>1. Done(e) # Handlers
    BY <1>7
  <2>2. IsFiniteSet(Done(e)) /\ Cardinality(Done(e)) \in 0..HandlerCount
        /\ Cardinality(Done(e)) # HandlerCount
    BY <1>5, <2>1, HandledIsFinite
  <2>3. Cardinality(DoneNow(e)) = Cardinality(Done(e)) + 1
    BY <1>3, <1>7, <2>2, FS_AddElement
  <2>4. Cardinality(Done(e)) < HandlerCount
    BY <2>2, OutboxAssumption
  <2> QED
    BY <1>2, <1>4, <2>1, <2>3, <2>4
<1> QED
  BY <1>6, <1>7

StateMap ==
    /\ AbstractState \in [Events -> {"absent", "queued", "delivered", "dead", "forgotten"}]
    /\ \A e \in Events :
        /\ status[e] = "absent" => AbstractState[e] = "absent"
        /\ status[e] \in {"pending", "claimed"} => AbstractState[e] = "queued"
        /\ status[e] \in Terminal => AbstractState[e] = status[e]
        /\ status[e] = "deleted" => AbstractState[e] = "forgotten"

\* What the status of a row stands for.
LEMMA DeliveryStateOf == TypeInv => StateMap
<1> SUFFICES ASSUME TypeInv, NEW e \in Events
             PROVE  /\ status[e] = "absent" => DeliveryState(e) = "absent"
                    /\ status[e] \in {"pending", "claimed"} => DeliveryState(e) = "queued"
                    /\ status[e] \in Terminal => DeliveryState(e) = status[e]
                    /\ status[e] = "deleted" => DeliveryState(e) = "forgotten"
  BY DEF StateMap, AbstractState, TypeInv, TypeOK, Terminal
<1>1. CASE status[e] = "absent"
  BY <1>1 DEF DeliveryState, Terminal
<1>2. CASE status[e] = "pending"
  BY <1>2 DEF DeliveryState, Terminal
<1>3. CASE status[e] = "claimed"
  BY <1>3 DEF DeliveryState, Terminal
<1>4. CASE status[e] = "delivered"
  BY <1>4 DEF DeliveryState, Terminal
<1>5. CASE status[e] = "dead"
  BY <1>5 DEF DeliveryState, Terminal
<1>6. CASE status[e] = "deleted"
  BY <1>6 DEF DeliveryState, Terminal
<1> QED
  BY <1>1, <1>2, <1>3, <1>4, <1>5, <1>6 DEF Terminal

\* A row that a step leaves alone stands for what it did.
LEMMA SameRowSameState ==
  ASSUME TypeInv, StateMap, StateMap', NEW d \in Events, status'[d] = status[d]
  PROVE  AbstractState'[d] = AbstractState[d]
<1>1. status[d] \in {"absent", "pending", "claimed", "deleted"} \union Terminal
  BY DEF TypeInv, TypeOK, Terminal
<1>2. CASE status[d] = "absent"
  BY <1>2 DEF StateMap
<1>3. CASE status[d] \in {"pending", "claimed"}
  BY <1>3 DEF StateMap
<1>4. CASE status[d] = "deleted"
  BY <1>4 DEF StateMap
<1>5. CASE status[d] \in Terminal
  BY <1>5 DEF StateMap
<1> QED
  BY <1>1, <1>2, <1>3, <1>4, <1>5

\* A step that changes one row changes what that row stands for, and no other.
LEMMA OneRowMoves ==
  ASSUME TypeInv, StateMap, StateMap', NEW e \in Events,
         \A d \in Events \ {e} : status'[d] = status[d]
  PROVE  AbstractState' = [AbstractState EXCEPT ![e] = AbstractState'[e]]
<1> DEFINE States == {"absent", "queued", "delivered", "dead", "forgotten"}
<1>1. AbstractState \in [Events -> States] /\ AbstractState' \in [Events -> States]
  BY DEF StateMap
<1>2. \A d \in Events \ {e} : AbstractState'[d] = AbstractState[d]
  BY SameRowSameState
<1> HIDE DEF States
<1> QED
  BY <1>1, <1>2

\* The rows and effects of a step determine the abstract variables.
LEMMA SameAbstract ==
  ASSUME UNCHANGED <<status, effects>>
  PROVE  UNCHANGED <<AbstractState, AbstractApplied>>
  BY DEF AbstractState, AbstractApplied, DeliveryState

\* The initial states map to initial states of the abstract specification.
LEMMA RefinementInit == Init => Delivery!EventInit
<1> SUFFICES ASSUME Init PROVE Delivery!EventInit
  OBVIOUS
<1>1. AbstractState \in [Events -> {"absent", "queued"}]
  BY TypeInit, DeliveryStateOf DEF Init, StateMap
<1>2. \A e \in Events : {h \in Handlers : effects[e][h] > 0} = {}
  BY DEF Init
<1>3. Cardinality({}) = 0
  BY FS_EmptySet
<1> QED
  BY <1>1, <1>2, <1>3 DEF Delivery!EventInit, AbstractState

\* Every step maps to a step of the abstract specification, or to none.
LEMMA RefinementStep ==
  TypeInv /\ DeliveryInv /\ HeldWasAppended /\ [Next]_vars
    => [Delivery!EventNext]_(Delivery!evars)
<1> SUFFICES ASSUME TypeInv, DeliveryInv, HeldWasAppended, [Next]_vars
             PROVE  [Delivery!EventNext]_<<AbstractState, AbstractApplied>>
  BY DEF Delivery!evars, AbstractState, AbstractApplied
<1>0. TypeInv' /\ StateMap /\ StateMap'
  BY DeliveryStateOf, TypeStep, PTL
<1>1. ASSUME NEW e \in Events, Append(e) PROVE Delivery!Emit(e)
  <2>1. status[e] = "absent" /\ status' = [status EXCEPT ![e] = "pending"] /\ effects' = effects
    BY <1>1 DEF Append, handlerVars
  <2>2. AbstractState[e] = "absent" /\ AbstractState'[e] = "queued"
    BY <2>1, <1>0 DEF StateMap, TypeInv, TypeOK
  <2>4. AbstractState' = [AbstractState EXCEPT ![e] = "queued"]
    BY <2>1, <2>2, <1>0, OneRowMoves DEF TypeInv, TypeOK
  <2>3. AbstractApplied' = AbstractApplied
    BY <2>1 DEF AbstractApplied
  <2> QED
    BY <2>2, <2>3, <2>4 DEF Delivery!Emit, AbstractState, AbstractApplied
<1>2. ASSUME NEW w \in Workers, Claim(w) PROVE UNCHANGED <<AbstractState, AbstractApplied>>
  <2>1. PICK S \in SUBSET {e \in Events : Due(e)} :
          status' = [e \in Events |-> IF e \in S THEN "claimed" ELSE status[e]]
    BY <1>2 DEF Claim
  <2>2. \A e \in Events : AbstractState'[e] = AbstractState[e]
    <3> SUFFICES ASSUME NEW e \in Events PROVE AbstractState'[e] = AbstractState[e]
      OBVIOUS
    <3>1. CASE e \in S
      BY <2>1, <3>1, <1>0 DEF StateMap, Due
    <3>2. CASE e \notin S
      <4>1. status'[e] = status[e]
        BY <2>1, <3>2
      <4> QED
        BY <4>1, <1>0, SameRowSameState
    <3> QED
      BY <3>1, <3>2
  <2>4. AbstractState' = AbstractState
    BY <2>2, <1>0 DEF StateMap
  <2>3. effects' = effects
    BY <1>2 DEF Claim, handlerVars
  <2> QED
    BY <2>3, <2>4 DEF AbstractApplied
<1>3. ASSUME NEW w \in Workers, Write(w), pc[w] \in Busy, at[w] \in Handlers, status' = status
      PROVE  Delivery!Apply(cur[w]) \/ UNCHANGED <<AbstractState, AbstractApplied>>
  <2> DEFINE e == cur[w]
  <2>1. e \in Events /\ status[e] # "absent"
    BY <1>3 DEF TypeInv, WorkerShape, HeldWasAppended
  <2>2. AbstractState' = AbstractState
    BY <1>3, <1>0 DEF AbstractState, DeliveryState
  <2>3. CASE AbstractApplied' = AbstractApplied
    BY <2>2, <2>3
  <2>4. CASE /\ HandledBy(e) # Handlers
             /\ AbstractApplied[e] < HandlerCount
             /\ AbstractApplied' = [AbstractApplied EXCEPT ![e] = @ + 1]
    <3>1. status[e] # "delivered"
      BY <2>1, <2>4 DEF DeliveryInv, DeliveredMeansHandled, HandledBy
    <3>2. AbstractState[e] \in {"queued", "dead", "forgotten"}
      BY <2>1, <3>1, <1>0 DEF StateMap, Terminal, TypeInv, TypeOK
    <3> QED
      BY <2>1, <2>2, <2>4, <3>2 DEF Delivery!Apply, AbstractState, AbstractApplied
  <2> QED
    BY <2>1, <2>3, <2>4, <1>3, WriteApplies
<1>4. ASSUME NEW w \in Workers, Settle(w)
      PROVE  \/ Delivery!Deliver(cur[w]) \/ Delivery!GiveUp(cur[w])
             \/ UNCHANGED <<AbstractState, AbstractApplied>>
  <2> DEFINE e == cur[w]
  <2>1. e \in Events /\ status[e] = "claimed" /\ AbstractState[e] = "queued"
    BY <1>4, <1>0 DEF StateMap, Settle, Matches, TypeInv, WorkerShape, Busy
  <2>2. status' = [status EXCEPT ![e] = CASE verdict[w] = "deliver" -> "delivered"
                                          [] verdict[w] = "retry" -> "pending"
                                          [] OTHER -> "dead"]
    BY <1>4 DEF Settle
  <2>3. AbstractApplied' = AbstractApplied
    BY <1>4 DEF Settle, handlerVars, AbstractApplied
  <2>4. CASE verdict[w] = "deliver"
    <3>1. AbstractState'[e] = "delivered"
      BY <2>1, <2>2, <2>4, <1>0 DEF StateMap, Terminal, TypeInv, TypeOK
    <3>4. AbstractState' = [AbstractState EXCEPT ![e] = "delivered"]
      BY <2>1, <2>2, <3>1, <1>0, OneRowMoves DEF TypeInv, TypeOK
    <3>2. HandledBy(e) = Handlers
      BY <1>4, <2>4 DEF Settle, DeliveryInv, Progress, Applied, HandledBy
    <3>3. AbstractApplied[e] = HandlerCount
      <4>1. Cardinality(Handlers) = HandlerCount
        BY FS_Interval, OutboxAssumption DEF Handlers
      <4> QED
        BY <2>1, <3>2, <4>1 DEF AbstractApplied, HandledBy
    <3> QED
      BY <2>1, <2>3, <3>3, <3>4 DEF Delivery!Deliver, AbstractState, AbstractApplied
  <2>5. CASE verdict[w] = "retry"
    <3>1. AbstractState'[e] = AbstractState[e]
      BY <2>1, <2>2, <2>5, <1>0 DEF StateMap, TypeInv, TypeOK
    <3>2. AbstractState' = [AbstractState EXCEPT ![e] = AbstractState'[e]]
      BY <2>1, <2>2, <1>0, OneRowMoves DEF TypeInv, TypeOK
    <3>3. AbstractState' = AbstractState
      BY <2>1, <3>1, <3>2, <1>0 DEF StateMap
    <3> QED
      BY <2>3, <3>3
  <2>6. CASE verdict[w] \notin {"deliver", "retry"}
    <3>1. AbstractState'[e] = "dead"
      BY <2>1, <2>2, <2>6, <1>0 DEF StateMap, Terminal, TypeInv, TypeOK
    <3>4. AbstractState' = [AbstractState EXCEPT ![e] = "dead"]
      BY <2>1, <2>2, <3>1, <1>0, OneRowMoves DEF TypeInv, TypeOK
    <3> QED
      BY <2>1, <2>3, <3>4 DEF Delivery!GiveUp, AbstractState, AbstractApplied
  <2> QED
    BY <2>4, <2>5, <2>6
<1>5. ASSUME NEW e \in Events, Cleanup(e)
      PROVE  Delivery!Forget(e) \/ UNCHANGED <<AbstractState, AbstractApplied>>
  <2>1. effects' = effects /\ AbstractApplied' = AbstractApplied
    BY <1>5 DEF Cleanup, AbstractApplied
  <2>2. CASE status[e] \in Terminal /\ status' = [status EXCEPT ![e] = "deleted"]
    <3>1. AbstractState[e] \in {"delivered", "dead"}
          /\ AbstractState'[e] = "forgotten"
      BY <2>2, <1>0 DEF StateMap, Terminal, TypeInv, TypeOK
    <3>2. AbstractState' = [AbstractState EXCEPT ![e] = "forgotten"]
      BY <2>2, <3>1, <1>0, OneRowMoves DEF TypeInv, TypeOK
    <3> QED
      BY <2>1, <3>1, <3>2 DEF Delivery!Forget, AbstractState, AbstractApplied
  <2>3. CASE status' = status
    BY <2>1, <2>3, SameAbstract
  <2> QED
    BY <1>5, <2>2, <2>3 DEF Cleanup
<1>6. \/ \E e \in Events : Append(e) \/ Cleanup(e)
      \/ \E w \in Workers : \/ Claim(w) \/ Settle(w)
                            \/ Write(w) /\ pc[w] \in {"tx"} /\ status' = status
      \/ UNCHANGED <<status, effects>>
  BY ZenonT(30) DEF Next, Dispatch, SkipStale, Check, BeginHandler, WriteOutside, CommitHandler,
     FailHandler, ReadFresh, ReadGone, SettleMisses, Crash, LeaseExpires, BecomesDue,
     vars, rowVars, handlerVars
<1>7. ASSUME NEW w \in Workers, pc[w] = "tx"
      PROVE  pc[w] \in Busy /\ at[w] \in Handlers /\ cur[w] \in Events
  BY <1>7 DEF TypeInv, WorkerShape, Busy
<1>8. ASSUME NEW w \in Workers, Settle(w) PROVE cur[w] \in Events
  BY <1>8 DEF Settle, TypeInv, WorkerShape, Busy
<1> QED
  BY <1>1, <1>2, <1>3, <1>4, <1>5, <1>6, <1>7, <1>8, SameAbstract DEF Delivery!EventNext

\* However many workers claim, crash, stall and overwrite each other, and whatever the
\* cleaner removes, the outbox is a delivery of each event in order, that is reported
\* once it is complete or given up and never taken back (outbox.py, inbox.py).
THEOREM RefinesDelivery == Spec => ImplementsDelivery
<1>1. Spec => []DeliveryInv
  BY TypeInvariant, DeliveryInit, DeliveryStep, PTL DEF Spec
<1>2. Spec => []HeldWasAppended
  BY TypeInvariant, HeldInit, HeldStep, PTL DEF Spec
<1> QED
  BY <1>1, <1>2, TypeInvariant, RefinementInit, RefinementStep, PTL
  DEF Spec, ImplementsDelivery, Delivery!EventSpec

=============================================================================
