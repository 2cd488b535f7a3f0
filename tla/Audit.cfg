CONSTANTS
    Writers = {w1, w2}
    Facts = {f1, f2}
    Chunk = 2
    MaxRows = 3
    MaxFaults = 2
    MaxMissed = 1
    MaxFaultsWalked = 1
SPECIFICATION Spec
INVARIANTS AppendsMakeOneChain LossIsFound
PROPERTIES NoFalseAlarm AnchoredIsAsPublished ContinuousIsWhole
SYMMETRY Symmetry
CHECK_DEADLOCK FALSE
