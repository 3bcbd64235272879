\* Two CPUs over a one-page DA region of 8-byte pages with 2- and 4-byte
\* blocks.  A KheapCluster takes a 4-byte block, so two nested kmallocs
\* fill the page and the next one blocks in alloc_block.
CONSTANTS
    Procs = {p1, p2}
    NumPages = 1
    PAGE_SIZE = 8
    LOG2_MIN_SIZE = 1
    LOG2_MAX_SIZE = 2
    Sizes = {1, 3}
    MaxHeld = 1
    NULL = NULL
    NodeSize = 3
    MaxClusters = 1
SPECIFICATION Spec
INVARIANT ClusterCallExclusive
\* The KheapCluster blocks are never freed, so every CPU can end up
\* blocked on alloc_wait_queue with nobody left to free a block.
CHECK_DEADLOCK FALSE
