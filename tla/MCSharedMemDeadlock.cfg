\* Two environments sharing one object name, objects of one or two pages
\* over two user pages and two frames, and a kmalloc address for every
\* call.  No symmetry: the property is a liveness property.
CONSTANTS
    Envs = {e1, e2}
    Names = {n1}
    PageCounts = {1, 2}
    VAPages = 2
    Frames = {f1, f2}
    Slots = {s1, s2, s3, s4}
    MaxCalls = 2
    NULL = NULL
    Ops = {"create", "get", "size_of", "delete"}
SPECIFICATION FairSpec
PROPERTY CallsReturn
\* Environments stop after MaxCalls system calls.
CHECK_DEADLOCK FALSE
