CONSTANTS
    Deliveries = {d1}
    NoDelivery = NoDelivery
    Workers = {w1, w2}
    NoWorker = NoWorker
    Refusable = {d1}
    MaxAttempts = 3
    Batch = 1
    GraceHolds = FALSE
    MaxFaults = 2
    MaxSwitches = 1
SPECIFICATION Spec
CHECK_DEADLOCK FALSE
SYMMETRY Alike
INVARIANTS NoKeyAheadOfTheRow
PROPERTIES KeepsThePromise
