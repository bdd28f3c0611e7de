CONSTANTS
    MaxDeltas = 2
    MaxSegments = 2
    MaxChunks = 2
    QueueSize = 2
SPECIFICATION FairSpec
INVARIANTS EndClosesTurn EndTellsTheTruth ExplicitActionWins SpokenInOrder
PROPERTIES TellsItsStory EveryTurnEnds
CHECK_DEADLOCK FALSE
