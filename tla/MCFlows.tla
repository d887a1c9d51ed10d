------------------------------- MODULE MCFlows -------------------------------
(***************************************************************************)
(* The components that must make progress, side by side: each behaviour is *)
(* one of `active`, which alone takes steps.  A fair action is enabled     *)
(* only in the behaviours of its component.                                *)
(***************************************************************************)
EXTENDS Tasks, Publishing, Fulfillment, MCPoints

VARIABLE active

-----------------------------------------------------------------------------
(* An editor who has every key, and an author who may not schedule.        *)
CONSTANTS editor, author
EditorRights == editor :> Permissions @@ author :> Permissions \ {"schedule"}

(* A schedule that fires at every instant after the first.                 *)
EveryInstant == [k \in Keys |-> 2..(MaxTime + 1)]

-----------------------------------------------------------------------------
q_ == <<tasksVars, cronVars>>
p_ == publishingVars
f_ == <<paymentsVars, fulfillmentVars>>
l_ == pointsVars

flowsVars == <<active, q_, p_, f_, l_>>

FlowsInit ==
    /\ active \in {"cron", "publishing", "fulfillment", "points"}
    /\ CronInit /\ PublishingInit /\ FulfillmentInit /\ PointsInit

CronAlone(A) == active = "cron" /\ A /\ UNCHANGED <<active, p_, f_, l_>>
PublishingAlone(A) == active = "publishing" /\ A /\ UNCHANGED <<active, q_, f_, l_>>
FulfillmentAlone(A) == active = "fulfillment" /\ A /\ UNCHANGED <<active, q_, p_, l_>>
PointsAlone(A) == active = "points" /\ A /\ UNCHANGED <<active, q_, p_, f_>>

FlowsNext ==
    \/ CronAlone(CronNext) \/ PublishingAlone(PublishingNext)
    \/ FulfillmentAlone(FulfillmentNext) \/ PointsAlone(PointsNext)

(* The loops of the processes take their next step, leases end, and what   *)
(* the runner and the dispatcher repeat until it succeeds does succeed.    *)
FlowsFairness ==
    /\ \A t \in Tickers : WF_flowsVars(CronAlone(TickSteps(t)))
    /\ \A w \in Workers : WF_flowsVars(CronAlone(TaskSteps(w) /\ UNCHANGED cronVars))
    /\ \A id \in TaskIds : WF_flowsVars(CronAlone(TaskTime(id) /\ UNCHANGED cronVars))
    /\ WF_flowsVars(PublishingAlone(ScanDue)) /\ WF_flowsVars(PublishingAlone(StartPublish))
    /\ WF_flowsVars(PublishingAlone(RunPublish))
    /\ \A c \in Contents : WF_flowsVars(PublishingAlone(PublishLeaseEnds(c)))
    /\ WF_flowsVars(FulfillmentAlone(StartBuying)) /\ WF_flowsVars(FulfillmentAlone(Validate))
    /\ WF_flowsVars(FulfillmentAlone(CreditPurchase))
    /\ \A c \in Clients : WF_flowsVars(PointsAlone(Proceeds(c)))
    /\ WF_flowsVars(PointsAlone(BeginSweep))

FlowsSpec == FlowsInit /\ [][FlowsNext]_flowsVars /\ FlowsFairness
=============================================================================
