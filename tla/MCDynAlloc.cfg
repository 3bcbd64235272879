CONSTANTS
    Procs = {p1, p2, p3}
    NumPages = 2
    PAGE_SIZE = 8
    LOG2_MIN_SIZE = 1
    LOG2_MAX_SIZE = 2
    Sizes = {1, 3}
    MaxHeld = 2
    NULL = NULL
SYMMETRY MCSymmetry
SPECIFICATION Spec
INVARIANT TypeOK
INVARIANT NoDoubleAllocation
INVARIANT SlabIntegrity
INVARIANT EmptySlabReturned
INVARIANT AllocFreeRoundTrip
CHECK_DEADLOCK FALSE
