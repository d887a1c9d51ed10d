SPECIFICATION FairSpec
CONSTANTS
    Events = {e1}
    KnownEvents = {e1}
    Workers = {w1, w2}
    Owner <- OwnerPerWorker
    HandlerCount = 2
    Kind <- KindsGuarded
    MaxAttempts = 3
    Batch = 2
    MaxFaults = 2
    RetentionRace = FALSE
PROPERTIES
    DeliveredForGood
    EventuallySettled
CHECK_DEADLOCK FALSE
