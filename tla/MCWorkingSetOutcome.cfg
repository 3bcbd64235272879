\* CLOCK over two marked heap pages and a stack page, a working set of two,
\* and no address the program may not use.
CONSTANTS
    HeapPages = {h1, h2}
    UnmarkedPages = {}
    StackPages = {s1}
    CodePages = {}
    WildPages = {}
    KernelPages = {}
    WSMax = 2
    Policies = {"CLOCK"}
    TSMax = 3
    MaxFaults = 4
    NULL = NULL
SPECIFICATION Spec
INVARIANT FaultOutcomeCorrect
CHECK_DEADLOCK FALSE
