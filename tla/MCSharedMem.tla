----------------------------- MODULE MCSharedMem -----------------------------
(***************************************************************************)
(* SharedMem for TLC; the constants are given in the .cfg files.           *)
(***************************************************************************)
EXTENDS SharedMem

=============================================================================
