SPECIFICATION FairSpec
CONSTANTS
    Runners = {r1}
    Callers = {}
    Starters = {c1}
    Senders = {d1}
    Signals = {s1}
    WaitsFor <- FirstWaits
    StepCount = 2
    MaxAttempts = 1
    MaxFaults = 0
PROPERTY StoredSignalWakes
CHECK_DEADLOCK FALSE
