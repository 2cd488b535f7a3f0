CONSTANTS
    Jobs = {j1, j2}
    NoJob = NoJob
    Safe = {j1}
    Workers = {w1, w2}
    NoWorker = NoWorker
    MaxRedrives = 1
    MaxDeaths = 1
    MaxPauses = 1
    MaxAsks = 1
SPECIFICATION FairSpec
INVARIANTS AloneUnlessTakenForDead AsksPutBackOnce
PROPERTIES KeepsThePromise StoppedJobsAreSettled AsksAreAnswered
