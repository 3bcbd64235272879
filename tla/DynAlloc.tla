------------------------------ MODULE DynAlloc ------------------------------
(***************************************************************************)
(* The segregated-fit dynamic allocator (src/lib/dynamic_allocator.c) as   *)
(* the kernel heap drives it: kmalloc of a small size, kfree of a block of *)
(* the allocator region and krealloc of such a block (src/kern/mem/kheap.c) *)
(* from several processes running on several CPUs.                          *)
(*                                                                         *)
(* Every allocator operation runs while its caller holds frame_lock, so a  *)
(* critical section is one atomic step here and the lock itself is left    *)
(* implicit.  The one place the code gives the lock up in the middle of an *)
(* operation is the exhausted path of alloc_block: it releases frame_lock, *)
(* marks the process BLOCKED, appends it to alloc_wait_queue and calls     *)
(* sched(); after free_block wakes it, it takes the lock again and retries. *)
(* Those steps are separate actions, so other processes interleave there.  *)
(*                                                                         *)
(* Data is abstracted to addresses: page pg of the region covers addresses *)
(* pg*PAGE_SIZE .. pg*PAGE_SIZE+PAGE_SIZE-1, and a free cell is named by   *)
(* its address.  The intrusive lists are sequences whose head is the list  *)
(* head, so LIST_INSERT_HEAD and LIST_FIRST keep their order.              *)
(***************************************************************************)
EXTENDS Integers, Sequences, FiniteSets, SequencesExt

CONSTANTS
    Procs,          \* processes that call kmalloc / kfree / krealloc
    NumPages,       \* pages of the allocator region [daStart, daEnd)
    PAGE_SIZE,
    LOG2_MIN_SIZE,
    LOG2_MAX_SIZE,
    Sizes,          \* request sizes the processes use
    MaxHeld,        \* bound: blocks one process holds at once
    NULL            \* model value: the NULL pointer

ASSUME /\ NumPages \in Nat \ {0}
       /\ LOG2_MIN_SIZE \in Nat /\ LOG2_MAX_SIZE \in Nat
       /\ LOG2_MIN_SIZE <= LOG2_MAX_SIZE
       /\ 2^LOG2_MAX_SIZE < PAGE_SIZE
       /\ Sizes \subseteq 1..2^LOG2_MAX_SIZE
       /\ MaxHeld \in Nat \ {0}

Pages == 0..(NumPages - 1)
Addrs == 0..(NumPages * PAGE_SIZE - 1)
Classes == 0..(LOG2_MAX_SIZE - LOG2_MIN_SIZE)
ClassSize(k) == 2^(k + LOG2_MIN_SIZE)
DYN_ALLOC_MIN_BLOCK_SIZE == 2^LOG2_MIN_SIZE

\* to_page_info / to_page_va: page index of an address and start of a page
to_page_info(va) == va \div PAGE_SIZE
to_page_va(pg) == pg * PAGE_SIZE

\* log2(n): the number of halvings that bring n down to 1
RECURSIVE log2(_)
log2(n) == IF n > 1 THEN 1 + log2(n \div 2) ELSE 0

\* alloc_block lines 135-144: the smallest class whose size is >= size
\* (the loop doubles blockSize from DYN_ALLOC_MIN_BLOCK_SIZE)
RECURSIVE ClassFrom(_, _)
ClassFrom(k, size) == IF ClassSize(k) < size THEN ClassFrom(k + 1, size) ELSE k
fblIndex(size) == ClassFrom(0, size)

(***************************************************************************)
(* The allocator state, kept as one record so that an operation that calls *)
(* two allocator functions in a row (realloc_block: alloc_block, then      *)
(* free_block) composes them as functions.                                 *)
(*   block_size[pg], num_of_free_blocks[pg]: pageBlockInfoArr               *)
(*   freeBlockLists[k]: the free cells of class k, head first               *)
(*   freePagesList: the unformatted pages, head first                       *)
(***************************************************************************)
VARIABLES
    heap,
    alloc_wait_queue,   \* processes asleep waiting for a block, FIFO
    pc,                 \* "idle" | "enqueue" | "blocked" | "ready"
    req,                \* size a waiting process is allocating (0 when none)
    old,                \* block a waiting krealloc will free afterwards, or NULL
    held                \* held[p]: the blocks process p owns

vars == <<heap, alloc_wait_queue, pc, req, old, held>>

\* initialize_dynamic_allocator: every page unformatted, on freePagesList in
\* address order (LIST_INSERT_TAIL), every free list empty
InitHeap ==
    [block_size         |-> [pg \in Pages |-> 0],
     num_of_free_blocks |-> [pg \in Pages |-> 0],
     freeBlockLists     |-> [k \in Classes |-> <<>>],
     freePagesList      |-> [i \in 1..NumPages |-> i - 1]]

\* the cells of page pg formatted for class k, as alloc_block's loop pushes
\* them one by one with LIST_INSERT_HEAD: the last cell ends up first
SlabCells(pg, k) ==
    Reverse([i \in 1..(PAGE_SIZE \div ClassSize(k)) |->
                to_page_va(pg) + (i - 1) * ClassSize(k)])

\* Mutation of PopBlock: the owning page's num_of_free_blocks is not
\* decremented (SlabIntegrity must catch it).
PopBlockNoCount(h, k) ==
    LET blk == Head(h.freeBlockLists[k])
    IN [heap |-> [h EXCEPT !.freeBlockLists[k] = Tail(@)], blk |-> blk]

\* pop the head of freeBlockLists[k] and charge it to its page
PopBlock(h, k) ==
    LET blk == Head(h.freeBlockLists[k])
        pg  == to_page_info(blk)
    IN [heap |-> [h EXCEPT !.freeBlockLists[k] = Tail(@),
                           !.num_of_free_blocks[pg] = @ - 1],
        blk  |-> blk]

\* Mutations of alloc_block, path 2 (a fresh slab): AllocRawSize records the
\* requested size instead of the rounded class size as block_size (TypeOK
\* must catch it); AllocNoPop hands out the head cell without removing it
\* from the free list (NoDoubleAllocation must catch it).
AllocRawSize(h, size) ==
    LET k == fblIndex(size)
        bigger == {j \in Classes : j > k /\ h.freeBlockLists[j] # <<>>}
    IN CASE h.freeBlockLists[k] # <<>> -> PopBlock(h, k)
         [] h.freePagesList # <<>> ->
                LET pg == Head(h.freePagesList)
                    cells == SlabCells(pg, k)
                IN PopBlock([h EXCEPT !.freePagesList = Tail(@),
                                      !.block_size[pg] = size,
                                      !.num_of_free_blocks[pg] = Len(cells),
                                      !.freeBlockLists[k] = cells \o @], k)
         [] bigger # {} -> PopBlock(h, CHOOSE j \in bigger : \A i \in bigger : j <= i)
         [] OTHER -> [heap |-> h, blk |-> NULL]
AllocNoPop(h, size) ==
    LET k == fblIndex(size)
        bigger == {j \in Classes : j > k /\ h.freeBlockLists[j] # <<>>}
    IN CASE h.freeBlockLists[k] # <<>> -> PopBlock(h, k)
         [] h.freePagesList # <<>> ->
                LET pg == Head(h.freePagesList)
                    cells == SlabCells(pg, k)
                IN [heap |-> [h EXCEPT !.freePagesList = Tail(@),
                                       !.block_size[pg] = ClassSize(k),
                                       !.num_of_free_blocks[pg] = Len(cells) - 1,
                                       !.freeBlockLists[k] = cells \o @],
                    blk |-> Head(cells)]
         [] bigger # {} -> PopBlock(h, CHOOSE j \in bigger : \A i \in bigger : j <= i)
         [] OTHER -> [heap |-> h, blk |-> NULL]

(***************************************************************************)
(* alloc_block(size), lines 117-207: [heap |-> h', blk |-> block or NULL].  *)
(* NULL here is the case that reaches the blocking code at line 210.       *)
(* get_page either succeeds or panics (kheap.c:69-78), so the branch that   *)
(* puts the page back on a get_page failure (lines 171-175) cannot run.     *)
(***************************************************************************)
alloc_block(h, size) ==
    LET k      == fblIndex(size)
        bigger == {j \in Classes : j > k /\ h.freeBlockLists[j] # <<>>}
    IN CASE h.freeBlockLists[k] # <<>> ->
                PopBlock(h, k)
         [] h.freePagesList # <<>> ->
                LET pg    == Head(h.freePagesList)
                    cells == SlabCells(pg, k)
                    h1 == [h EXCEPT
                             !.freePagesList = Tail(@),
                             !.block_size[pg] = ClassSize(k),
                             !.num_of_free_blocks[pg] = Len(cells),
                             !.freeBlockLists[k] = cells \o @]
                IN PopBlock(h1, k)
         [] bigger # {} ->
                \* a larger class is served unsplit (lines 192-206)
                PopBlock(h, CHOOSE j \in bigger : \A i \in bigger : j <= i)
         [] OTHER -> [heap |-> h, blk |-> NULL]

\* Mutation of free_block: the "wholly free" test is off by one, so a page
\* is never returned (EmptySlabReturned must catch it).
FreeOffByOne(h, va) ==
    LET pg == to_page_info(va)
        size1 == h.block_size[pg]
        Index1 == log2(size1) - LOG2_MIN_SIZE
        pushed == <<va>> \o h.freeBlockLists[Index1]
        n == h.num_of_free_blocks[pg] + 1
        OnOtherPage(b) == to_page_info(b) # pg
    IN IF n = PAGE_SIZE \div size1 + 1
       THEN [h EXCEPT !.freeBlockLists[Index1] = SelectSeq(pushed, OnOtherPage),
                      !.block_size[pg] = 0, !.num_of_free_blocks[pg] = 0,
                      !.freePagesList = <<pg>> \o @]
       ELSE [h EXCEPT !.freeBlockLists[Index1] = pushed,
                      !.num_of_free_blocks[pg] = n]

\* Mutation of free_block: the cell goes to the tail of its list
\* (LIST_INSERT_TAIL) instead of the head (AllocFreeRoundTrip must catch it).
FreePushTail(h, va) ==
    LET pg     == to_page_info(va)
        size1  == h.block_size[pg]
        Index1 == log2(size1) - LOG2_MIN_SIZE
        pushed == Append(h.freeBlockLists[Index1], va)
        n      == h.num_of_free_blocks[pg] + 1
        OnOtherPage(b) == to_page_info(b) # pg
    IN IF n = PAGE_SIZE \div size1
       THEN [h EXCEPT !.freeBlockLists[Index1] = SelectSeq(pushed, OnOtherPage),
                      !.block_size[pg] = 0,
                      !.num_of_free_blocks[pg] = 0,
                      !.freePagesList = <<pg>> \o @]
       ELSE [h EXCEPT !.freeBlockLists[Index1] = pushed,
                      !.num_of_free_blocks[pg] = n]

(***************************************************************************)
(* free_block(va), lines 249-306: push the cell; when its page is wholly   *)
(* free, drop every cell of the page from the list, return the page,       *)
(* reset its info and push it on freePagesList.  The assert on line 267 is *)
(* a precondition here (NoDoubleAllocation shows it always holds).         *)
(***************************************************************************)
free_block(h, va) ==
    LET pg     == to_page_info(va)
        size1  == h.block_size[pg]
        Index1 == log2(size1) - LOG2_MIN_SIZE
        pushed == <<va>> \o h.freeBlockLists[Index1]
        n      == h.num_of_free_blocks[pg] + 1
        OnOtherPage(b) == to_page_info(b) # pg
    IN IF n = PAGE_SIZE \div size1
       THEN [h EXCEPT !.freeBlockLists[Index1] = SelectSeq(pushed, OnOtherPage),
                      !.block_size[pg] = 0,
                      !.num_of_free_blocks[pg] = 0,
                      !.freePagesList = <<pg>> \o @]
       ELSE [h EXCEPT !.freeBlockLists[Index1] = pushed,
                      !.num_of_free_blocks[pg] = n]

\* get_block_size(va), lines 95-108
get_block_size(h, va) == h.block_size[to_page_info(va)]

\* the tail of free_block, lines 310-317: wake the first waiter, if any
Woken == IF alloc_wait_queue = <<>> THEN {} ELSE {Head(alloc_wait_queue)}
WakeOne == alloc_wait_queue' = IF alloc_wait_queue = <<>> THEN <<>>
                               ELSE Tail(alloc_wait_queue)

\* pc after a free_block by self that leaves self in state s
PcAfterFree(self, s) ==
    [q \in Procs |-> IF q \in Woken THEN "ready"
                     ELSE IF q = self THEN s ELSE pc[q]]

-----------------------------------------------------------------------------
Init ==
    /\ heap = InitHeap
    /\ alloc_wait_queue = <<>>
    /\ pc = [p \in Procs |-> "idle"]
    /\ req = [p \in Procs |-> 0]
    /\ old = [p \in Procs |-> NULL]
    /\ held = [p \in Procs |-> {}]

(***************************************************************************)
(* kmalloc(size) for size <= DYN_ALLOC_MAX_BLOCK_SIZE (kheap.c:108-132):    *)
(* take frame_lock, alloc_block.  On exhaustion alloc_block releases the   *)
(* lock (dynamic_allocator.c:212-214) and the process goes on to enqueue.  *)
(***************************************************************************)
Kmalloc(self, size) ==
    LET r == alloc_block(heap, size) IN
    /\ pc[self] = "idle"
    /\ Cardinality(held[self]) < MaxHeld
    /\ IF r.blk # NULL
       THEN /\ heap' = r.heap
            /\ held' = [held EXCEPT ![self] = @ \cup {r.blk}]
            /\ UNCHANGED <<pc, req>>
       ELSE /\ pc' = [pc EXCEPT ![self] = "enqueue"]
            /\ req' = [req EXCEPT ![self] = size]
            /\ UNCHANGED <<heap, held>>
    /\ UNCHANGED <<alloc_wait_queue, old>>

\* dynamic_allocator.c:215-218: with frame_lock released, set ENV_BLOCKED,
\* LIST_INSERT_TAIL on alloc_wait_queue and call sched()
Enqueue(self) ==
    /\ pc[self] = "enqueue"
    /\ alloc_wait_queue' = Append(alloc_wait_queue, self)
    /\ pc' = [pc EXCEPT ![self] = "blocked"]
    /\ UNCHANGED <<heap, req, old, held>>

(***************************************************************************)
(* Woken by free_block (sched_insert_ready), the process runs again:       *)
(* acquire_kspinlock(&frame_lock) and return alloc_block(size) (lines      *)
(* 219-220).  A krealloc that was waiting then finishes realloc_block:     *)
(* memcpy and free_block of the old block (lines 352-355), which wakes the *)
(* next waiter.  If the retry finds nothing it blocks again.                *)
(***************************************************************************)
Retry(self) ==
    LET r == alloc_block(heap, req[self]) IN
    /\ pc[self] = "ready"
    /\ IF r.blk = NULL
       THEN /\ pc' = [pc EXCEPT ![self] = "enqueue"]
            /\ UNCHANGED <<heap, held, req, old, alloc_wait_queue>>
       ELSE /\ req' = [req EXCEPT ![self] = 0]
            /\ old' = [old EXCEPT ![self] = NULL]
            /\ IF old[self] = NULL
               THEN /\ heap' = r.heap
                    /\ held' = [held EXCEPT ![self] = @ \cup {r.blk}]
                    /\ pc' = [pc EXCEPT ![self] = "idle"]
                    /\ UNCHANGED alloc_wait_queue
               ELSE /\ heap' = free_block(r.heap, old[self])
                    /\ held' = [held EXCEPT ![self] =
                                   (@ \ {old[self]}) \cup {r.blk}]
                    /\ pc' = PcAfterFree(self, "idle")
                    /\ WakeOne

\* kfree(va) of a block of the allocator region (kheap.c:368-383): take
\* frame_lock, free_block, which wakes one waiter
Kfree(self, va) ==
    /\ pc[self] = "idle"
    /\ va \in held[self]
    /\ heap' = free_block(heap, va)
    /\ held' = [held EXCEPT ![self] = @ \ {va}]
    /\ pc' = PcAfterFree(self, "idle")
    /\ WakeOne
    /\ UNCHANGED <<req, old>>

(***************************************************************************)
(* krealloc(va, n) of a block of the allocator region with a new size that *)
(* still fits a block (kheap.c:665-667) calls realloc_block (lines         *)
(* 327-362).  When n <= get_block_size(va) it returns va and changes       *)
(* nothing, so only growing sizes are enumerated.  It takes frame_lock,     *)
(* allocates the new block, copies and frees the old one; on exhaustion    *)
(* alloc_block blocks exactly as for kmalloc.                               *)
(***************************************************************************)
Krealloc(self, va, n) ==
    LET r == alloc_block(heap, n) IN
    /\ pc[self] = "idle"
    /\ va \in held[self]
    /\ n > get_block_size(heap, va)
    /\ IF r.blk # NULL
       THEN /\ heap' = free_block(r.heap, va)
            /\ held' = [held EXCEPT ![self] = (@ \ {va}) \cup {r.blk}]
            /\ pc' = PcAfterFree(self, "idle")
            /\ WakeOne
            /\ UNCHANGED <<req, old>>
       ELSE /\ pc' = [pc EXCEPT ![self] = "enqueue"]
            /\ req' = [req EXCEPT ![self] = n]
            /\ old' = [old EXCEPT ![self] = va]
            /\ UNCHANGED <<heap, held, alloc_wait_queue>>

Next ==
    \E self \in Procs :
        \/ \E size \in Sizes : Kmalloc(self, size)
        \/ Enqueue(self)
        \/ Retry(self)
        \/ \E va \in held[self] : Kfree(self, va)
        \/ \E va \in held[self], n \in Sizes : Krealloc(self, va, n)

Spec == Init /\ [][Next]_vars

-----------------------------------------------------------------------------
(***************************************************************************)
(* Properties                                                              *)
(***************************************************************************)
ListedCells == UNION {ToSet(heap.freeBlockLists[k]) : k \in Classes}
HeldCells == UNION {held[p] : p \in Procs}

TypeOK ==
    /\ heap.block_size \in [Pages -> {0} \cup {ClassSize(k) : k \in Classes}]
    /\ heap.num_of_free_blocks \in [Pages -> 0..PAGE_SIZE]
    /\ \A k \in Classes : heap.freeBlockLists[k] \in Seq(Addrs)
    /\ heap.freePagesList \in Seq(Pages)
    /\ alloc_wait_queue \in Seq(Procs)
    /\ pc \in [Procs -> {"idle", "enqueue", "blocked", "ready"}]
    /\ req \in [Procs -> {0} \cup Sizes]
    /\ old \in [Procs -> Addrs \cup {NULL}]
    /\ held \in [Procs -> SUBSET Addrs]

\* A block handed out by alloc_block is owned by exactly one process, is not
\* on any free list, and is a cell of a slab page of its class: so the
\* free_block assert (block_size # 0) never fires and no two kmalloc calls,
\* on any CPUs, ever return the same block.
NoDoubleAllocation ==
    /\ \A p, q \in Procs : p # q => held[p] \cap held[q] = {}
    /\ HeldCells \cap ListedCells = {}
    /\ \A va \in HeldCells :
          LET s == heap.block_size[to_page_info(va)]
          IN s # 0 /\ va % s = 0

\* Slab integrity (alloc_block / free_block bookkeeping): every listed cell
\* is a cell of a slab of the list's class and is listed once; the
\* unformatted pages are exactly those on freePagesList, each once; and
\* num_of_free_blocks of a slab counts its listed cells, which with its
\* owned cells make up the whole page.
SlabIntegrity ==
    /\ \A k \in Classes :
          /\ IsInjective(heap.freeBlockLists[k])
          /\ \A va \in ToSet(heap.freeBlockLists[k]) :
                /\ heap.block_size[to_page_info(va)] = ClassSize(k)
                /\ va % ClassSize(k) = 0
    /\ IsInjective(heap.freePagesList)
    /\ ToSet(heap.freePagesList) = {pg \in Pages : heap.block_size[pg] = 0}
    /\ \A pg \in Pages :
          LET s == heap.block_size[pg]
              OnPg(S) == {va \in S : to_page_info(va) = pg}
          IN IF s = 0
             THEN heap.num_of_free_blocks[pg] = 0 /\ OnPg(ListedCells) = {}
             ELSE /\ heap.num_of_free_blocks[pg] = Cardinality(OnPg(ListedCells))
                  /\ heap.num_of_free_blocks[pg] + Cardinality(OnPg(HeldCells))
                        = PAGE_SIZE \div s

\* Round trip (spec section 8): a page is never left formatted once all its
\* blocks are back, so freeing everything that was allocated, in any order
\* and through any mix of kfree and krealloc, returns every page to
\* freePagesList.
EmptySlabReturned ==
    \A pg \in Pages :
        heap.block_size[pg] # 0 =>
            \E va \in HeldCells : to_page_info(va) = pg

\* Spec section 8, round trip: from every state the processes can reach,
\* alloc_block(s) for any size s followed by free_block of the block it
\* returns gives back the same tables: the same free lists in the same
\* order, the same page populations and the same freePagesList.  It relies
\* on alloc_block's pop from the head and free_block's LIST_INSERT_HEAD,
\* and on a wholly free slab going back to the head of freePagesList,
\* where alloc_block took its page from.
AllocFreeRoundTrip ==
    \A s \in Sizes :
        LET r == alloc_block(heap, s)
        IN r.blk # NULL => free_block(r.heap, r.blk) = heap

\* Spec 4.B / section 8 scenario 6: a free_block performed while a process
\* is waiting for memory wakes a waiter.  A waiter is a process that gave up
\* frame_lock in alloc_block because the heap was exhausted.
Waiting == {p \in Procs : pc[p] \in {"enqueue", "blocked"}}
SomeBlockFreed == \E p \in Procs : held[p] \ held'[p] # {}
FreeWakesWaiter ==
    [][ (SomeBlockFreed /\ Waiting # {}) =>
            \E p \in Waiting : pc'[p] = "ready" ]_vars
=============================================================================
