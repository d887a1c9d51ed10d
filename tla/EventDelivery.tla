---------------------------- MODULE EventDelivery ----------------------------
(***************************************************************************)
(* What the outbox promises of an event: it is queued once, handlers are   *)
(* applied to it in order, it is reported delivered only when all have     *)
(* been, or given up, and neither verdict is ever taken back.  A handler   *)
(* already at work may still finish after the event was given up.          *)
(***************************************************************************)
EXTENDS Naturals

CONSTANTS Events, HandlerCount

VARIABLES
    state,   \* state[e]
    applied  \* applied[e]: handlers 1..applied[e] have been applied

evars == <<state, applied>>

EventInit ==
    /\ state \in [Events -> {"absent", "queued"}]
    /\ applied = [e \in Events |-> 0]

Emit(e) ==
    /\ state[e] = "absent"
    /\ state' = [state EXCEPT ![e] = "queued"]
    /\ UNCHANGED applied

Apply(e) ==
    /\ state[e] \in {"queued", "dead", "forgotten"}
    /\ applied[e] < HandlerCount
    /\ applied' = [applied EXCEPT ![e] = @ + 1]
    /\ UNCHANGED state

Deliver(e) ==
    /\ state[e] = "queued"
    /\ applied[e] = HandlerCount
    /\ state' = [state EXCEPT ![e] = "delivered"]
    /\ UNCHANGED applied

GiveUp(e) ==
    /\ state[e] = "queued"
    /\ state' = [state EXCEPT ![e] = "dead"]
    /\ UNCHANGED applied

Forget(e) ==
    /\ state[e] \in {"delivered", "dead"}
    /\ state' = [state EXCEPT ![e] = "forgotten"]
    /\ UNCHANGED applied

EventNext == \E e \in Events : Emit(e) \/ Apply(e) \/ Deliver(e) \/ GiveUp(e) \/ Forget(e)

EventSpec == EventInit /\ [][EventNext]_evars
=============================================================================
