CONSTANTS
    Controls = {c1}
    NoControl = NoControl
    Interval = 2
    Every <- EveryInterval
    Longest = 2
    Destructive = {c1}
    Askable = {c1}
    Hung = {}
    Replicas = {r1}
    Jobs = {j1}
    NoProcess = NoProcess
    MaxCrashes = 1
    MaxStops = 1
    MaxCuts = 1
SPECIFICATION Spec
PROPERTIES KeepsThePromise RequestsOutliveOlderRuns
