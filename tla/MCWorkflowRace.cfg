SPECIFICATION FairSpec
CONSTANTS
    Runners = {r1, r2}
    Callers = {c1}
    Starters = {}
    Senders = {}
    Signals = {}
    WaitsFor <- NoWaits
    StepCount = 2
    MaxAttempts = 2
    MaxFaults = 1
PROPERTIES
    WorkStands
    EventuallyTerminal
CHECK_DEADLOCK FALSE
