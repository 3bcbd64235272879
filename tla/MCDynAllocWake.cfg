CONSTANTS
    Procs = {p1, p2, p3}
    NumPages = 2
    PAGE_SIZE = 8
    LOG2_MIN_SIZE = 1
    LOG2_MAX_SIZE = 2
    Sizes = {1, 3}
    MaxHeld = 2
    NULL = NULL
SYMMETRY MCSymmetry
SPECIFICATION Spec
PROPERTY FreeWakesWaiter
CHECK_DEADLOCK FALSE
