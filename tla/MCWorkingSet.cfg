\* One page of every address class and two marked heap pages, a working set
\* of two (so every policy replaces), four faults per behaviour, and four
\* time stamps (3 stands for ~0U, 2 for 1 << 31).
CONSTANTS
    HeapPages = {h1, h2}
    UnmarkedPages = {u1}
    StackPages = {s1}
    CodePages = {c1}
    WildPages = {w1}
    KernelPages = {k1}
    WSMax = 2
    Policies = {"CLOCK", "LRU", "MODCLOCK", "OPTIMAL"}
    TSMax = 3
    MaxFaults = 4
    NULL = NULL
SPECIFICATION Spec
INVARIANT TypeOK
INVARIANT NoLostWrite
INVARIANT ResidentIsWS
 
\* The process stops when it is terminated, when the kernel crashes or spins,
\* and when it has used its faults with no page resident.
CHECK_DEADLOCK FALSE
