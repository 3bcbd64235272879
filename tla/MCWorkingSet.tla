---------------------------- MODULE MCWorkingSet ----------------------------
EXTENDS WorkingSet

=============================================================================
