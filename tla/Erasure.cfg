CONSTANTS
    sue = sue
    w1 = w1
    NoRequest = NoRequest
    Requests = {1, 2}
    Subjects = {sue}
    SubjectOf <- AboutSue
    Holds = {h1}
    HoldOver <- OverSue
    Workers = {w1}
    Stores <- InOrder
    Executed = {"conversation", "memory", "operations"}
    Keeps = {"operations"}
    Talkers = {sue}
    Written = {"conversation", "session"}
    Limit = 2
    MaxTime = 2
    MaxWrites = 1
    MaxFaults = 2
SPECIFICATION FairSpec
PROPERTIES KeepsThePromise HeldIsKept ReportsAreTrue FiledIsFinished
CHECK_DEADLOCK FALSE
