----------------------------- MODULE MCKHeapLock -----------------------------
(***************************************************************************)
(* KHeapLock for TLC; the constants are given in the .cfg files.           *)
(***************************************************************************)
EXTENDS KHeapLock

=============================================================================
