CONSTANTS
    Turns = {t1, t2}
    MaxHooks = 2
    None = None
SPECIFICATION Spec
INVARIANT SilenceIsAHooksWish
CHECK_DEADLOCK FALSE
