SPECIFICATION Spec
CONSTANTS
    Events = {e1, e2}
    KnownEvents = {e1}
    Workers = {w1, w2}
    Owner <- OwnerDefault
    HandlerCount = 2
    Kind <- KindsAll
    MaxAttempts = 2
    Batch = 2
    MaxFaults = 1
    RetentionRace = TRUE
PROPERTIES
    ImplementsDelivery
CHECK_DEADLOCK FALSE
