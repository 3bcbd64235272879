----------------------------- MODULE MCDynAlloc -----------------------------
(***************************************************************************)
(* DynAlloc for TLC: three processes on a two-page region with blocks of   *)
(* 2 and 4 bytes in 8-byte pages (two classes, four or two cells a page).  *)
(* Each process holds at most two blocks, so the six blocks three          *)
(* processes may hold exceed the four of two 4-byte slabs: the region runs *)
(* out and processes block on alloc_wait_queue.                            *)
(***************************************************************************)
EXTENDS DynAlloc, TLC

MCSymmetry == Permutations(Procs)
=============================================================================
