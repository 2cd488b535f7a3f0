CONSTANTS
    Keys = {k1}
    NoKey = NoKey
    Intents = {i1, i2}
    NoIntent = NoIntent
    Workers = {w1, w2}
    Sweepers = {s1, s2}
    ReadableKeys = {k1}
    GraceHolds = FALSE
    MaxCrashes = 2
SYMMETRY ProcessSymmetry
SPECIFICATION Spec
INVARIANTS SettledRecordIsTrue AnswersAreBacked
