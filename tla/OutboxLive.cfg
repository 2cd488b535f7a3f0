CONSTANTS
    Deliveries = {d1, d2}
    NoDelivery = NoDelivery
    Workers = {w1}
    NoWorker = NoWorker
    Refusable = {}
    MaxAttempts = 2
    Batch = 2
    GraceHolds = TRUE
    MaxFaults = 1
    MaxSwitches = 0
SPECIFICATION FairSpec
CHECK_DEADLOCK FALSE
INVARIANTS NothingAfterAnAcceptance
PROPERTIES PendingIsSettled AcceptedIsRecorded
