\* Modified CLOCK over three legal pages and a working set of two.
CONSTANTS
    HeapPages = {h1}
    UnmarkedPages = {}
    StackPages = {s1}
    CodePages = {c1}
    WildPages = {}
    KernelPages = {}
    WSMax = 2
    Policies = {"MODCLOCK"}
    TSMax = 3
    MaxFaults = 3
    NULL = NULL
SPECIFICATION FairSpec
PROPERTY FaultsReturn
CHECK_DEADLOCK FALSE
