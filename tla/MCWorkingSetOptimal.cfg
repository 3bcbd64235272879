\* OPTIMAL over two stack pages with a working set of one, so the recorded
\* fault stream needs replacement.
CONSTANTS
    HeapPages = {}
    UnmarkedPages = {}
    StackPages = {s1, s2}
    CodePages = {}
    WildPages = {}
    KernelPages = {}
    WSMax = 1
    Policies = {"OPTIMAL"}
    TSMax = 3
    MaxFaults = 3
    NULL = NULL
SPECIFICATION Spec
INVARIANT OptimalFaultCount
CHECK_DEADLOCK FALSE
