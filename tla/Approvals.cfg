CONSTANTS
    ann = ann
    bob = bob
    cay = cay
    NoRequest = NoRequest
    Nobody = Nobody
    Requests = {1, 2}
    People = {ann, bob, cay}
    AskerOf <- AskedByAnn
    Sensitive = {1}
    Workers = {w1, w2}
    Limit = 1
    Window = 1
    MaxTime = 1
    MaxChanges = 1
    MaxFaults = 1
SPECIFICATION FairSpec
PROPERTIES RunsOnlyAsApproved KeepsThePromise RunnableIsSentOrLost
CHECK_DEADLOCK FALSE
