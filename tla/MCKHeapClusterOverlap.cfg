\* Three kernel threads over a five-page cluster area asking for one, two
\* or three pages; at most three list nodes linked at once; a row's size
\* field may drift to -1 .. 1.
CONSTANTS
    Clients = {c1, c2, c3}
    NumPages = 5
    PageCounts = {1, 2, 3}
    MaxNodes = 3
    SizeBound = 1
    NULL = NULL
SYMMETRY MCSymmetry
VIEW MCView
SPECIFICATION Spec
INVARIANT NoPageDoubleAllocation
\* The model stops after a panic or undefined behaviour.
CHECK_DEADLOCK FALSE
