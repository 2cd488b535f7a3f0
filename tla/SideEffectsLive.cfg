CONSTANTS
    Keys = {k1, k2}
    NoKey = NoKey
    Intents = {i1}
    NoIntent = NoIntent
    Workers = {w1, w2}
    Sweepers = {s1}
    ReadableKeys = {k1}
    GraceHolds = TRUE
    MaxCrashes = 1
SPECIFICATION FairSpec
INVARIANTS AtMostOneRequest NoAnswerIsOvertaken
PROPERTIES KeepsThePromise ReadableOperationsSettle
