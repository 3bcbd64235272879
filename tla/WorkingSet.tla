------------------------------ MODULE WorkingSet ------------------------------
(***************************************************************************)
(* The page-fault path of src/kern/trap/fault_handler.c for one user      *)
(* process: fault_handler's classification, table_fault_handler, and      *)
(* page_fault_handler's placement and its CLOCK, LRU time-approx,          *)
(* modified CLOCK and OPTIMAL branches, with get_optimal_num_faults.       *)
(*                                                                         *)
(* A page is a model value of one address class.  Its PTE keeps the bits  *)
(* the handler reads or writes: PRESENT, USED, MODIFIED, UHPAGE, and       *)
(* whether a frame is mapped.  The MMU and the user program are the        *)
(* environment: an access sets USED (and MODIFIED on a write) or traps.   *)
(* The handler runs with interrupts off on the faulting CPU, so it is one  *)
(* step; the CPU then re-executes the faulting access.                     *)
(***************************************************************************)
EXTENDS Integers, Sequences, FiniteSets, SequencesExt, Functions

CONSTANTS
    HeapPages,      \* user-heap pages malloc has marked with PERM_UHPAGE
    UnmarkedPages,  \* user-heap pages no malloc has marked
    StackPages,     \* user-stack pages
    CodePages,      \* program pages, in the page file from the start
    WildPages,      \* user addresses outside the heap and stack, not in the page file
    KernelPages,    \* addresses in [USER_LIMIT, KERNEL_HEAP_MAX)
    WSMax,          \* page_WS_max_size
    Policies,       \* the replacement algorithms a run may select
    TSMax,          \* ~0U, the largest time_stamp
    MaxFaults,      \* traps per behaviour
    NULL

Pages == HeapPages \cup UnmarkedPages \cup StackPages \cup CodePages \cup WildPages \cup KernelPages
HeapRange == HeapPages \cup UnmarkedPages
Legal == HeapPages \cup StackPages \cup CodePages
TSHalf == (TSMax + 1) \div 2     \* 1 << 31

ASSUME WSMax >= 1 /\ Policies \subseteq {"CLOCK", "LRU", "MODCLOCK", "OPTIMAL"}

VARIABLES
    policy,        \* _PageRepAlgoType
    pte,           \* the process's page-table entries
    tables,        \* pages whose page table exists (PDE present)
    pf,            \* pages the page file holds
    ws,            \* page_WS_list: <<[va, ts]>>, head first
    hand,          \* page_last_WS_element: an index of ws, or 0 for NULL
    yoyo_init,     \* the OPTIMAL branch's statics
    yoyo_active,
    referenceStreamList,
    pc,            \* "run", "fault", "retry", "exited", "crash" or "spin"
    acc,           \* the access being executed: [va, write]
    faults,        \* traps so far
    fresh          \* pages written since the page file last saved them

vars == <<policy, pte, tables, pf, ws, hand, yoyo_init, yoyo_active,
          referenceStreamList, pc, acc, faults, fresh>>
wsVars == <<ws, hand, yoyo_init, yoyo_active, referenceStreamList>>

NoPTE == [present |-> FALSE, used |-> FALSE, modified |-> FALSE, uhpage |-> FALSE, frame |-> FALSE]

\* map_frame replaces the PTE: a frame, PRESENT, and the given UHPAGE.
Mapped(uh) == [NoPTE EXCEPT !.present = TRUE, !.frame = TRUE, !.uhpage = uh]

WSVAs == [i \in DOMAIN ws |-> ws[i].va]

va == acc.va

\* pf_read_env_page fails with E_PAGE_NOT_EXIST_IN_PF; the page may be zero-filled.
ZeroFillable(p) == p \in StackPages \cup HeapRange

-----------------------------------------------------------------------------
(***************************************************************************)
(* The user program and the MMU.                                           *)
(***************************************************************************)
Exec(p, w) ==
    IF pte[p].present
    THEN /\ pte' = [pte EXCEPT ![p].used = TRUE, ![p].modified = @ \/ w]
         /\ fresh' = IF w THEN fresh \cup {p} ELSE fresh
         /\ pc' = "run"
         /\ UNCHANGED faults
    ELSE /\ faults < MaxFaults
         /\ pc' = "fault"
         /\ faults' = faults + 1
         /\ UNCHANGED <<pte, fresh>>

Access ==
    /\ pc = "run"
    /\ \E p \in Pages, w \in BOOLEAN :
          /\ acc' = [va |-> p, write |-> w]
          /\ Exec(p, w)
    /\ UNCHANGED <<policy, tables, pf, wsVars>>

\* The CPU re-executes the access that trapped.
Retry ==
    /\ pc = "retry"
    /\ Exec(va, acc.write)
    /\ UNCHANGED <<policy, tables, pf, wsVars, acc>>

\* The scheduler's aging of time stamps (not under src/) may set any
\* element's time_stamp while the process runs.
Tick ==
    /\ policy = "LRU" /\ pc = "run"
    /\ \E i \in DOMAIN ws, t \in 0 .. TSMax : ws' = [ws EXCEPT ![i].ts = t]
    /\ UNCHANGED <<policy, pte, tables, pf, hand, yoyo_init, yoyo_active,
                   referenceStreamList, pc, acc, faults, fresh>>

-----------------------------------------------------------------------------
(***************************************************************************)
(* fault_handler                                                           *)
(***************************************************************************)
table_fault_handler(p) == tables' = tables \cup {p}

\* Lines 155-159: no page table for the address: create it and retry.
TableFault ==
    /\ pc = "fault" /\ va \notin tables
    /\ table_fault_handler(va)
    /\ pc' = "retry"
    /\ UNCHANGED <<policy, pte, pf, wsVars, acc, faults, fresh>>

\* Lines 162-185: a user access to kernel space, or to a heap page without
\* PERM_UHPAGE, terminates the process.
InvalidPointer(p) == p \in KernelPages \/ (p \in HeapRange /\ ~pte[p].uhpage)

InvalidAccess ==
    /\ pc = "fault" /\ va \in tables /\ InvalidPointer(va)
    /\ pc' = "exited"
    /\ UNCHANGED <<policy, pte, tables, pf, wsVars, acc, faults, fresh>>

\* Lines 188-214: a valid fault on a page that is not present goes to
\* page_fault_handler (line 190 panics for a present page, which never traps
\* here since every mapped page is writable).
PageFault == pc = "fault" /\ va \in tables /\ ~InvalidPointer(va) /\ ~pte[va].present

-----------------------------------------------------------------------------
HasRoom == Len(ws) < WSMax

\* env_page_ws_list_create_element (not under src/).
NewElement(p) == [va |-> p, ts |-> 0]

\* Lines 453-512: map a frame with P|U|W (and UHPAGE in the heap), read the
\* page or zero-fill it, else terminate; insert the element before the hand
\* if the set was ever full, else append it and set the hand once full.
Placement ==
    /\ PageFault /\ policy # "OPTIMAL" /\ HasRoom
    /\ pte' = [pte EXCEPT ![va] = Mapped(va \in HeapRange)]
    /\ IF va \notin pf /\ ~ZeroFillable(va)
       THEN /\ pc' = "exited"
            /\ UNCHANGED <<ws, hand>>
       ELSE /\ ws' = IF hand # 0 THEN InsertAt(ws, hand, NewElement(va))
                                 ELSE Append(ws, NewElement(va))
            /\ hand' = IF hand # 0 THEN hand + 1
                       ELSE IF WSMax = Len(ws) + 1 THEN 1 ELSE 0
            /\ pc' = "retry"
    /\ UNCHANGED <<policy, tables, pf, yoyo_init, yoyo_active, referenceStreamList,
                   acc, faults, fresh>>

-----------------------------------------------------------------------------
(***************************************************************************)
(* page_fault_handler: replacement when the working set is full            *)
(***************************************************************************)
\* Lines 521-524: the scan starts at the hand, or at the head when it is NULL.
Start == IF hand = 0 THEN 1 ELSE hand

\* Lines 551-556: LIST_NEXT, wrapping to LIST_FIRST.
Succ(i) == IF i = Len(ws) THEN 1 ELSE i + 1

HandAfterNoWrap(i) == i + 1

\* Lines 616-621, 733-735: the hand moves to the victim's successor, the
\* head if the victim was the tail.
HandAfter(i) == IF i = Len(ws) THEN 1 ELSE i + 1

\* Line 547: pt_set_page_permissions(..., 0, PERM_USED).
ClearUsed(pt, p) == [pt EXCEPT ![p].used = FALSE]

\* A scan of at most k elements from index i for the first element whose USED
\* bit is clear (and, if clean, whose MODIFIED bit is clear too), clearing
\* USED on the elements it passes if clear.  The result is the victim's
\* index (0 if none) and the page table after the scan.
RECURSIVE Scan(_, _, _, _, _)
Scan(pt, i, k, clean, clear) ==
    IF k = 0 THEN [victim |-> 0, pt |-> pt]
    ELSE IF ~pt[ws[i].va].used /\ (clean => ~pt[ws[i].va].modified)
         THEN [victim |-> i, pt |-> pt]
         ELSE Scan(IF clear THEN ClearUsed(pt, ws[i].va) ELSE pt, Succ(i), k - 1, clean, clear)

\* Lines 530-557: CLOCK scans 2 * wsetSize positions.
ClockScan == Scan(pte, Start, 2 * Len(ws), FALSE, TRUE)

SaveVictimNoWrite(old) == UNCHANGED <<pf, fresh>>

\* Lines 574-582: a MODIFIED victim is written to the page file.
SaveVictim(old) ==
    IF pte[old].modified
    THEN pf' = pf \cup {old} /\ fresh' = fresh \ {old}
    ELSE UNCHANGED <<pf, fresh>>

\* Lines 585-609, 624: unmap_frame and pt_clear_page_table_entry zero the
\* victim's PTE; the new page is mapped P|U|W|UHPAGE whatever its range, read
\* or zero-filled with no range check, and marked USED.
EvictPTE(pt, old, new) ==
    [pt EXCEPT ![old] = NoPTE, ![new] = [Mapped(TRUE) EXCEPT !.used = TRUE]]

ReassignNone(i, p) == ws

\* Line 611: the victim's element is reused for the new page.
Reassign(i, p) == [ws EXCEPT ![i].va = p]

\* The eviction shared by the three policies, for a scan result r.
Evict(r) ==
    /\ SaveVictim(ws[r.victim].va)
    /\ pte' = EvictPTE(r.pt, ws[r.victim].va, va)
    /\ pc' = "retry"

\* Lines 515-625.
ClockReplace ==
    /\ PageFault /\ policy = "CLOCK" /\ ~HasRoom
    /\ Evict(ClockScan)
    /\ ws' = Reassign(ClockScan.victim, va)
    /\ hand' = HandAfter(ClockScan.victim)
    /\ UNCHANGED <<policy, tables, yoyo_init, yoyo_active, referenceStreamList, acc, faults>>

\* Lines 629-634: the first element with the least time_stamp below ~0U
\* (the comparison is strict), or NULL when every stamp is ~0U.
LruCandidates == {i \in DOMAIN ws : ws[i].ts < TSMax}

LruVictim ==
    IF LruCandidates = {} THEN 0
    ELSE Min({i \in LruCandidates : \A j \in LruCandidates : ws[i].ts <= ws[j].ts})

\* Lines 626-667: evict the LRU victim; the element gets the new page and
\* time_stamp 1 << 31; the hand is left alone.
LruReplace ==
    /\ PageFault /\ policy = "LRU" /\ ~HasRoom /\ LruVictim # 0
    /\ Evict([victim |-> LruVictim, pt |-> pte])
    /\ ws' = [Reassign(LruVictim, va) EXCEPT ![LruVictim].ts = TSHalf]
    /\ UNCHANGED <<policy, tables, hand, yoyo_init, yoyo_active, referenceStreamList, acc, faults>>

\* Lines 636-638: with no victim, victimWSElement->virtual_address reads
\* through NULL and the kernel faults in kernel mode.
LruNullVictim ==
    /\ PageFault /\ policy = "LRU" /\ ~HasRoom /\ LruVictim = 0
    /\ pc' = "crash"
    /\ UNCHANGED <<policy, pte, tables, pf, wsVars, acc, faults, fresh>>

\* Lines 676-708.  Pass 1 goes once round for USED = 0 and MODIFIED = 0;
\* pass 2 goes once round for USED = 0, clearing USED; both end where they
\* started.  Pass 3 looks for USED = 0 and MODIFIED = 0 but never advances
\* its counter c, so it ends only when it finds one: it finds the first from
\* the hand, or never ends.  Pass 4 is reached only if pass 3 ends without a
\* victim, which it cannot.
ModClockPass1 == Scan(pte, Start, Len(ws), TRUE, FALSE)
ModClockPass2 == Scan(pte, Start, Len(ws), FALSE, TRUE)

ModClockScan ==
    IF ModClockPass1.victim # 0 THEN ModClockPass1
    ELSE IF ModClockPass2.victim # 0 THEN ModClockPass2
    ELSE Scan(ModClockPass2.pt, Start, Len(ws), TRUE, FALSE)

\* Lines 709-746: evict, reuse the element, move the hand past it.
ModClockReplace ==
    /\ PageFault /\ policy = "MODCLOCK" /\ ~HasRoom /\ ModClockScan.victim # 0
    /\ Evict(ModClockScan)
    /\ ws' = Reassign(ModClockScan.victim, va)
    /\ hand' = HandAfter(ModClockScan.victim)
    /\ UNCHANGED <<policy, tables, yoyo_init, yoyo_active, referenceStreamList, acc, faults>>

\* Line 695: when every page is USED and MODIFIED, pass 2 clears every USED
\* bit and pass 3 spins for ever with interrupts off.
ModClockSpin ==
    /\ PageFault /\ policy = "MODCLOCK" /\ ~HasRoom /\ ModClockScan.victim = 0
    /\ pte' = ModClockPass2.pt
    /\ pc' = "spin"
    /\ UNCHANGED <<policy, tables, pf, wsVars, acc, faults, fresh>>

-----------------------------------------------------------------------------
(***************************************************************************)
(* page_fault_handler: the OPTIMAL branch (lines 349-446) records the      *)
(* fault stream; it keeps a static array of at most page_WS_max_size       *)
(* active pages and, when that is full, takes PRESENT from all of them.    *)
(***************************************************************************)
ClearPresent(pt, S) == [p \in Pages |-> IF p \in S THEN [pt[p] EXCEPT !.present = FALSE] ELSE pt[p]]

\* Lines 363-375: on the first fault, PRESENT is taken from the WS pages.
OptInit(pt) == IF yoyo_init THEN pt ELSE ClearPresent(pt, ToSet(WSVAs))

\* Lines 403-411: the active array is full: take PRESENT from every page in it.
OptFull == Len(yoyo_active) >= WSMax
OptFlush(pt) == IF OptFull THEN ClearPresent(pt, ToSet(yoyo_active)) ELSE pt

\* Lines 414-441: a page with no frame gets one, mapped P|U|W without
\* UHPAGE; a page that still has its frame is made PRESENT again.
OptLoad(pt) ==
    IF pt[va].frame THEN [pt EXCEPT ![va].present = TRUE]
    ELSE [pt EXCEPT ![va] = Mapped(FALSE)]

\* Lines 420-432: a page neither in the page file nor zero-fillable.
OptExit == ~pte[va].frame /\ va \notin pf /\ ~ZeroFillable(va)

\* Lines 349-446.  A page found in the active array (lines 378-393) is made
\* PRESENT; otherwise the fault is appended to referenceStreamList, the
\* array is flushed if full, the page is loaded, and it joins the array.
OptimalFault ==
    /\ PageFault /\ policy = "OPTIMAL"
    /\ yoyo_init' = TRUE
    /\ IF va \in ToSet(yoyo_active)
       THEN /\ pte' = [OptInit(pte) EXCEPT ![va].present = TRUE]
            /\ pc' = "retry"
            /\ UNCHANGED <<yoyo_active, referenceStreamList>>
       ELSE /\ referenceStreamList' = Append(referenceStreamList, va)
            /\ pte' = OptLoad(OptFlush(OptInit(pte)))
            /\ yoyo_active' = Append(IF OptFull THEN <<>> ELSE yoyo_active, va)
            /\ pc' = IF OptExit THEN "exited" ELSE "retry"
    /\ UNCHANGED <<policy, tables, pf, ws, hand, acc, faults, fresh>>

\* Lines 255-343: a reference not in the list is a fault, and is appended
\* while the list is shorter than maxWSSize.  When the list is full the loop
\* computes the page used furthest ahead but never replaces it.
RECURSIVE get_optimal_num_faults(_, _, _)
get_optimal_num_faults(wsl, max, refs) ==
    IF refs = <<>> THEN 0
    ELSE IF Head(refs) \in ToSet(wsl)
         THEN get_optimal_num_faults(wsl, max, Tail(refs))
         ELSE 1 + get_optimal_num_faults(IF Len(wsl) < max THEN Append(wsl, Head(refs)) ELSE wsl,
                                         max, Tail(refs))

\* The reference: the fewest faults any replacement choice gives on refs from
\* resident set S of capacity max.
RECURSIVE OptimalFaults(_, _, _)
OptimalFaults(S, max, refs) ==
    IF refs = <<>> THEN 0
    ELSE IF Head(refs) \in S THEN OptimalFaults(S, max, Tail(refs))
    ELSE 1 + IF Cardinality(S) < max
             THEN OptimalFaults(S \cup {Head(refs)}, max, Tail(refs))
             ELSE Min({OptimalFaults((S \ {v}) \cup {Head(refs)}, max, Tail(refs)) : v \in S})

-----------------------------------------------------------------------------
Stopped == pc \in {"exited", "crash"}

\* Line 65-73 and the state a process starts in: the program's pages are in
\* the page file, malloc'd heap pages are marked UHPAGE but not mapped, the
\* working set is empty and its hand NULL.
Init ==
    /\ policy \in Policies
    /\ pte = [p \in Pages |-> [NoPTE EXCEPT !.uhpage = (p \in HeapPages)]]
    /\ tables = Pages \ WildPages
    /\ pf = CodePages
    /\ ws = <<>> /\ hand = 0
    /\ yoyo_init = FALSE /\ yoyo_active = <<>> /\ referenceStreamList = <<>>
    /\ pc = "run"
    /\ acc = [va |-> CHOOSE p \in Pages : TRUE, write |-> FALSE]
    /\ faults = 0
    /\ fresh = {}

\* Lines 87-214 with page_fault_handler.
HandleFault ==
    \/ TableFault \/ InvalidAccess \/ Placement
    \/ ClockReplace \/ LruReplace \/ LruNullVictim
    \/ ModClockReplace \/ ModClockSpin \/ OptimalFault

Next == Access \/ Retry \/ Tick \/ HandleFault

Spec == Init /\ [][Next]_vars

\* The handler runs whenever a fault is pending: trap dispatch is immediate.
FairSpec == Spec /\ WF_vars(HandleFault)

-----------------------------------------------------------------------------
(***************************************************************************)
(* Properties                                                              *)
(***************************************************************************)
PTEs == [present : BOOLEAN, used : BOOLEAN, modified : BOOLEAN, uhpage : BOOLEAN, frame : BOOLEAN]

TypeOK ==
    /\ policy \in Policies
    /\ pte \in [Pages -> PTEs]
    /\ tables \subseteq Pages /\ pf \subseteq Pages /\ fresh \subseteq Pages
    /\ ws \in Seq([va : Pages, ts : 0 .. TSMax])
    /\ hand \in 0 .. WSMax
    /\ yoyo_init \in BOOLEAN
    /\ yoyo_active \in Seq(Pages) /\ referenceStreamList \in Seq(Pages)
    /\ pc \in {"run", "fault", "retry", "exited", "crash", "spin"}
    /\ acc \in [va : Pages, write : BOOLEAN]
    /\ faults \in 0 .. MaxFaults

Resident == {p \in Pages : pte[p].present}

\* A page the program wrote is never dropped: until the page file holds the
\* write, the page keeps its frame.  The eviction of every policy
\* (fault_handler.c lines 574-582, 642-645, 713-715) must write a MODIFIED
\* victim back before unmap_frame frees its frame.
NoLostWrite == \A p \in fresh : pte[p].frame

\* While the process lives, the pages mapped PRESENT are exactly the pages
\* of its working-set list, each listed once: placement appends the page it
\* maps, and replacement reuses the victim's element for the page it maps
\* after unmapping the victim.  (OPTIMAL keeps no list.)
ResidentIsWS ==
    policy # "OPTIMAL" /\ ~Stopped =>
        /\ Resident = ToSet(WSVAs)
        /\ IsInjective(WSVAs)

\* The working set refines the abstract resident set: a fault brings in only
\* the faulting page, never more than page_WS_max_size pages are resident,
\* and a resident page is evicted only when the set is full.
Abs == INSTANCE ResidentSet WITH
           resident <- IF Stopped THEN {} ELSE Resident,
           stopped <- Stopped,
           Cap <- WSMax

FaultsReturn == pc = "fault" ~> pc \in {"retry", "exited"}

\* A fault terminates the process exactly when the program touched an
\* address it may not use, and an illegal address is never given a frame
\* of a live process.  Neither a heap page the replacement unmapped
\* (pt_clear_page_table_entry, line 586) nor a page outside the stack and
\* heap that is not in the page file (line 599) may change the outcome.
FaultOutcomeCorrect ==
    /\ pc # "crash"
    /\ pc = "exited" => va \notin Legal
    /\ \A p \in Pages \ Legal : pte[p].frame => pc = "exited"

\* get_optimal_num_faults, called with an empty working set on the stream
\* the OPTIMAL branch recorded, gives the optimal number of faults.
OptimalFaultCount ==
    get_optimal_num_faults(<<>>, WSMax, referenceStreamList)
        = OptimalFaults({}, WSMax, referenceStreamList)

=============================================================================
