CONSTANTS
    Turns = {t1, t2, t3}
    MaxHooks = 2
    None = None
SPECIFICATION Spec
SYMMETRY Symmetry
INVARIANTS NoStaleEvent InterruptedEventIsAborted
CHECK_DEADLOCK FALSE
