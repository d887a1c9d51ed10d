SPECIFICATION Spec
CONSTANTS
    Runners = {r1}
    Callers = {}
    Starters = {c1, c2}
    Senders = {d1, d2}
    Signals = {s1}
    WaitsFor <- SecondWaits
    StepCount = 3
    MaxAttempts = 2
    MaxFaults = 1
INVARIANT WaitHonoured
CHECK_DEADLOCK FALSE
