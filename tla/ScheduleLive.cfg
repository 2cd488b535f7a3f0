CONSTANTS
    Controls = {c1, c2}
    NoControl = NoControl
    Interval = 2
    Every <- EveryInterval
    Longest = 2
    Destructive = {}
    Askable = {c1}
    Hung = {c2}
    Replicas = {r1, r2}
    Jobs = {}
    NoProcess = NoProcess
    MaxCrashes = 1
    MaxStops = 0
    MaxCuts = 0
SPECIFICATION FairSpec
PROPERTIES RunTwiceOnlyByAStaleRead OwedControlsAreRun
