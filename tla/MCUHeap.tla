------------------------------- MODULE MCUHeap -------------------------------
EXTENDS UHeap
==============================================================================
