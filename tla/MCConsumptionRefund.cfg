SPECIFICATION ConsumptionSpec
CONSTANTS
    Runners = {r1}
    Callers = {c1}
    Starters = {}
    Senders = {}
    Signals = {}
    WaitsFor <- NoWaits
    StepCount = 4
    MaxAttempts = 1
    MaxFaults = 0
    ProviderFails = FALSE
INVARIANT RefundedHoldsNothing
CHECK_DEADLOCK FALSE
