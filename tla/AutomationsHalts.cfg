CONSTANTS
    w1 = w1
    w2 = w2
    owen = owen
    ana = ana
    theo = theo
    everything = everything
    bot1 = bot1
    NoRequest = NoRequest
    NoOne = NoOne
    NoWork = NoWork
    Admins = {adm, boss}
    Targets = {everything, bot1, owen}
    NoTarget = NoTarget
    MaxStamp = 3
    Automations = {1}
    AgentOf <- OneAgent
    People = {owen}
    Holders = {}
    FirstOwner <- OwnedByOwen
    Everything = everything
    Cadences = {1}
    FirstCadence = 1
    Processes = {w1}
    Batch = 1
    PauseAfter = 2
    MaxTime = 1
    MaxFaults = 1
SPECIFICATION FairSpec
PROPERTIES HeldWorkIsNotRun StopsOutlastOlderResumes DueIsSettled
CHECK_DEADLOCK FALSE
