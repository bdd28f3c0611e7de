CONSTANTS
    t1 = t1
    t2 = t2
    Requests = {t1, t2}
SYMMETRY RequestSymmetry
SPECIFICATION FormsSpec
INVARIANTS RuntimeIsSaved AnswersHold
