----------------------------- MODULE ResidentSet -----------------------------
(***************************************************************************)
(* What a process's working set promises, whatever the replacement policy *)
(* (spec 4.D): pages become resident only on a fault for that page, at     *)
(* most Cap pages are resident, and pages are evicted only to make room    *)
(* when the resident set is full.  When the process is terminated its      *)
(* memory is released.                                                     *)
(***************************************************************************)
EXTENDS Naturals, FiniteSets

CONSTANTS Pages, Cap

VARIABLES resident, stopped

vars == <<resident, stopped>>

Init == resident = {} /\ stopped = FALSE

\* A fault on p loads p, evicting pages only if the set was full.
Load(p) ==
    /\ ~stopped
    /\ p \notin resident
    /\ \E evicted \in SUBSET resident :
          /\ Cardinality(resident) < Cap => evicted = {}
          /\ resident' = (resident \ evicted) \cup {p}
          /\ Cardinality(resident') <= Cap
    /\ UNCHANGED stopped

\* The process is terminated and its pages released.
Stop ==
    /\ ~stopped
    /\ stopped' = TRUE
    /\ resident' = {}

Next == (\E p \in Pages : Load(p)) \/ Stop

Spec == Init /\ [][Next]_vars

=============================================================================
