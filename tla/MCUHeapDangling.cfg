\* UHBlkL and the next fields must never reach a struct UHBlk that free_block gave back.
CONSTANTS
    NumPages = 4
    PageCounts = {1, 2}
    MaxNodes = 3
    Names = {n1}
    MaxCalls = 5
    NULL = NULL
SPECIFICATION Spec
INVARIANT ListedNodesLive
CHECK_DEADLOCK FALSE
