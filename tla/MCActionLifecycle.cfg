CONSTANTS
    Subjects = {s, t}
    LifecycleTTL = 1
    FactTTL = 1
    MaxLifecycles = 1
    MaxPerLifecycle = 3
    MaxFacts = 1
    MaxPlans = 2
    MaxTime = 3
SPECIFICATION Spec
SYMMETRY Symmetry
INVARIANTS OneStory FactsAreVerified RetriesAreIdempotent
PROPERTY TellsItsStory
CHECK_DEADLOCK FALSE
