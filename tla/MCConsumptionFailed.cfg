SPECIFICATION ConsumptionSpec
CONSTANTS
    Runners = {r1}
    Callers = {}
    Starters = {c1}
    Senders = {}
    Signals = {}
    WaitsFor <- NoWaits
    StepCount = 4
    MaxAttempts = 2
    MaxFaults = 0
    ProviderFails = FALSE
INVARIANT FailedKeepsNoMoney
CHECK_DEADLOCK FALSE
