CONSTANTS
    w1 = w1
    w2 = w2
    owen = owen
    ana = ana
    theo = theo
    everything = everything
    bot1 = bot1
    NoRequest = NoRequest
    NoOne = NoOne
    NoWork = NoWork
    Admins = {}
    Targets = {everything, bot1}
    NoTarget = NoTarget
    MaxStamp = 2
    Automations = {1}
    AgentOf <- OneAgent
    People = {owen, ana, theo}
    Holders = {ana, theo}
    FirstOwner <- OwnedByOwen
    Everything = everything
    Cadences = {1, 2}
    FirstCadence = 1
    Processes = {w1, w2}
    Batch = 1
    PauseAfter = 2
    MaxTime = 2
    MaxFaults = 1
SPECIFICATION Spec
INVARIANTS SlotsOnlyRecurByLateStarts RemovedIsScheduledOnlyByARace FailingIsPaused
PROPERTIES RunsAreOwed StopsHold
CHECK_DEADLOCK FALSE
SYMMETRY ClerksAndProcesses
