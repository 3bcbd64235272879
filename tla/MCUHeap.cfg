\* Four heap pages, requests of one or two pages, three list nodes.
CONSTANTS
    NumPages = 4
    PageCounts = {1, 2}
    MaxNodes = 3
    Names = {n1}
    MaxCalls = 5
    NULL = NULL
SPECIFICATION Spec
INVARIANT TypeOK
INVARIANT ListTilesHeap
INVARIANT MarkedMatches
INVARIANT HeldBlocksAllocated
INVARIANT HeapEmptiedWhenAllFreed
CHECK_DEADLOCK FALSE
