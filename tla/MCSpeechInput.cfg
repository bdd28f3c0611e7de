CONSTANTS
    MaxChunks = 4
    MaxPending = 2
    QueueSize = 2
    Outstanding = 2
SPECIFICATION FairSpec
INVARIANTS NoLateHypothesis HeardInOrder NoSessionLeft
PROPERTIES TakesDictation StreamEnds
CHECK_DEADLOCK FALSE
