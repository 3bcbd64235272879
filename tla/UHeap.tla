-------------------------------- MODULE UHeap --------------------------------
(***************************************************************************)
(* The page allocator of the user heap (lib/uheap.c): malloc, free,        *)
(* realloc, smalloc and sget over the singly linked list UHBlkL of         *)
(* struct UHBlk, whose nodes are themselves allocated with alloc_block    *)
(* from the dynamic allocator and returned with free_block.                *)
(*                                                                         *)
(* A process is single-threaded in user mode, so every call is one step.   *)
(* Addresses are page offsets from uheapPageAllocStart, sizes are page     *)
(* counts (ROUNDUP(size, PAGE_SIZE) / PAGE_SIZE of the request; requests    *)
(* of at most DYN_ALLOC_MAX_BLOCK_SIZE go to the dynamic allocator and are *)
(* not modelled here).  A read of a struct UHBlk that was given back with  *)
(* free_block is undefined behaviour: the call ends in pc = "ub" and the   *)
(* process makes no further call.                                          *)
(***************************************************************************)
EXTENDS Naturals, Sequences, FiniteSets, SequencesExt, Bags, BagsExt

CONSTANTS
    NumPages,    \* (USER_HEAP_MAX - uheapPageAllocStart) / PAGE_SIZE
    PageCounts,  \* request sizes, in pages, that the program passes
    MaxNodes,    \* struct UHBlk nodes alloc_block can hand out
    Names,       \* shared variable names the program uses
    MaxCalls,    \* bound on the number of calls
    NULL

ASSUME PageCounts \subseteq 1..NumPages /\ MaxNodes \in Nat \ {0}

Nodes == 1..MaxNodes
Pages == 0..(NumPages - 1)
Addrs == 0..NumPages

\* The pages [a, a + sz).
Span(a, sz) == a..(a + sz - 1)

(***************************************************************************)
(* u is the heap state, a record:                                          *)
(*   blk     the struct UHBlk fields of every node (va, size, is_free, next)*)
(*   live    the nodes currently allocated from the dynamic allocator      *)
(*   head    UHBlkL                                                        *)
(*   brk     uheapPageAllocBreak                                           *)
(*   marked  pages reserved with sys_allocate_user_mem and not yet freed   *)
(*           with sys_free_user_mem                                        *)
(*   shared  pages mapped by sys_create_shared_object/sys_get_shared_object *)
(*   created the names this process created a shared object under          *)
(*   pc      "ok", "ub" (a freed node was read) or "panic"                 *)
(* held is the bag of pointers the program holds, with the size it asked   *)
(* for and the call that returned it.                                      *)
(***************************************************************************)
VARIABLES u, held, calls

vars == <<u, held, calls>>

Blk == [va : Addrs, size : Addrs, is_free : BOOLEAN, next : Nodes \cup {NULL}]

(***************************************************************************)
(* The list as the code walks it from UHBlkL.  The walk stops after the    *)
(* first node that is no longer allocated: following its next field reads *)
(* freed memory.                                                           *)
(***************************************************************************)
RECURSIVE Walk(_, _, _)
Walk(s, n, k) ==
    IF n = NULL \/ k = 0 THEN <<>>
    ELSE IF n \notin s.live THEN <<n>>
    ELSE <<n>> \o Walk(s, s.blk[n].next, k - 1)

List(s) == Walk(s, s.head, MaxNodes + 1)

\* Every node the walk reaches is still allocated.
Clean(s) == ToSet(List(s)) \subseteq s.live

\* The nodes a walk can read without touching freed memory.
Reached(s) == IF Clean(s) THEN List(s) ELSE Front(List(s))

\* The first reached node whose va is a, or NULL.
NodeAt(s, a) ==
    LET i == SelectInSeq(Reached(s), LAMBDA n : s.blk[n].va = a)
    IN  IF i = 0 THEN NULL ELSE Reached(s)[i]

\* alloc_block(sizeof(struct UHBlk)) has no free block once MaxNodes nodes
\* are in use; the user build then panics instead of returning NULL.
Exhausted(s) == Nodes \subseteq s.live
NewNode(s) == IF Exhausted(s) THEN NULL ELSE Min(Nodes \ s.live)

(***************************************************************************)
(* A fit is a record [s, n]: the heap state after it and the node it       *)
(* allocated, or NULL.                                                      *)
(***************************************************************************)
Found(s, n) == [s |-> s, n |-> n]
NoFit(s) == Found(s, NULL)
UB(s) == NoFit([s EXCEPT !.pc = "ub"])
Panic(s) == NoFit([s EXCEPT !.pc = "panic"])

\* EXACT FIT: the first free node of exactly sz pages.
ExactNodeAnyState(s, sz) ==
    LET i == SelectInSeq(Reached(s), LAMBDA n : s.blk[n].size = sz)
    IN  IF i = 0 THEN NULL ELSE Reached(s)[i]
ExactNode(s, sz) ==
    LET i == SelectInSeq(Reached(s),
                         LAMBDA n : s.blk[n].is_free /\ s.blk[n].size = sz)
    IN  IF i = 0 THEN NULL ELSE Reached(s)[i]

ExactFit(s, n) == Found([s EXCEPT !.blk[n].is_free = FALSE], n)

\* Worst fit: the first of the largest free nodes of at least sz pages.
WorstNode(s, sz) ==
    LET L == List(s)
        C == {i \in DOMAIN L : s.blk[L[i]].is_free /\ s.blk[L[i]].size >= sz}
        W == {i \in C : \A j \in C : s.blk[L[i]].size >= s.blk[L[j]].size}
    IN  IF C = {} THEN NULL ELSE L[Min(W)]

\* Split worst into an allocated head of sz pages and a free tail.
Split(s, w, sz) ==
    LET new == NewNode(s) IN
    IF new = NULL THEN Panic(s)
    ELSE Found([s EXCEPT
                  !.live = @ \cup {new},
                  !.blk[new] = [va |-> s.blk[w].va + sz,
                                size |-> s.blk[w].size - sz,
                                is_free |-> TRUE, next |-> s.blk[w].next],
                  !.blk[w].size = sz, !.blk[w].next = new,
                  !.blk[w].is_free = FALSE], w)

\* The extend check: (uint32)(USER_HEAP_MAX - uheapPageAllocBreak) >= sz.
HasRoomAlways(s, sz) == TRUE
HasRoom(s, sz) == NumPages - s.brk >= sz

\* Extend the break: a new allocated node of sz pages appended at the tail.
Extend(s, sz) ==
    LET new == NewNode(s) IN
    IF new = NULL THEN Panic(s)
    ELSE Found([s EXCEPT
                  !.live = @ \cup {new},
                  !.blk[new] = [va |-> s.brk, size |-> sz,
                                is_free |-> FALSE, next |-> NULL],
                  !.head = IF s.head = NULL THEN new ELSE @,
                  !.blk = IF s.head = NULL THEN @
                          ELSE [@ EXCEPT ![Last(List(s))].next = new],
                  !.brk = @ + sz], new)

\* exact -> worst -> extend -> NULL, the search malloc, smalloc and sget share.
Fit(s, sz) ==
    CASE ExactNode(s, sz) # NULL -> ExactFit(s, ExactNode(s, sz))
      [] ~Clean(s)               -> UB(s)
      [] WorstNode(s, sz) # NULL -> Split(s, WorstNode(s, sz), sz)
      [] HasRoom(s, sz)          -> Extend(s, sz)
      [] OTHER                   -> NoFit(s)

(***************************************************************************)
(* malloc (lines 58-136): reserve the pages of the block it returns.       *)
(***************************************************************************)
Reserve(r, sz) ==
    IF r.n = NULL THEN r
    ELSE [r EXCEPT !.s.marked = @ \cup Span(r.s.blk[r.n].va, sz)]

MallocOp(s, sz) == IF sz = 0 THEN NoFit(s) ELSE Reserve(Fit(s, sz), sz)

(***************************************************************************)
(* smalloc (lines 198-315): the same search, then                          *)
(* sys_create_shared_object at the block.  res is what it returns:         *)
(* "exists" (E_SHARED_MEM_EXISTS, the block is put back free and smalloc   *)
(* returns NULL), "ok" (all sz pages mapped) or "no_share" (E_NO_SHARE     *)
(* after only k pages got a frame, which smalloc takes for success).  The  *)
(* worst-fit branch for a block of exactly sz pages (lines 245-257) is     *)
(* never taken: the exact-fit loop would have returned that block.  Nor is *)
(* it in Fit.                                                              *)
(***************************************************************************)
Create(r, sz, name, res, k) ==
    CASE r.n = NULL     -> r
      [] res = "exists" -> NoFit([r.s EXCEPT !.blk[r.n].is_free = TRUE])
      [] res = "ok"     -> [r EXCEPT !.s.shared = @ \cup Span(r.s.blk[r.n].va, sz),
                                     !.s.created = @ \cup {name}]
      [] OTHER          -> [r EXCEPT !.s.shared = @ \cup Span(r.s.blk[r.n].va, k)]

SmallocOp(s, sz, name, res, k) == Create(Fit(s, sz), sz, name, res, k)

(***************************************************************************)
(* sget (lines 320-410): sys_size_of_shared_object gave sz pages; the      *)
(* search, then sys_get_shared_object maps the sz pages.  A share that     *)
(* size_of found is listed with all its frames and is never removed        *)
(* (delete_shared_object never gets past line 428), so get succeeds.       *)
(***************************************************************************)
Attach(r, sz) ==
    IF r.n = NULL THEN r
    ELSE [r EXCEPT !.s.shared = @ \cup Span(r.s.blk[r.n].va, sz)]

SgetOp(s, sz) == Attach(Fit(s, sz), sz)

(***************************************************************************)
(* free (lines 140-194), in stages over a record [s, cur, prv]; cur is     *)
(* NULL once the call has ended.                                           *)
(***************************************************************************)
\* The walk for the node at a (lines 153-157, 186-189).
FindFree(s, a) ==
    LET n == NodeAt(s, a)
        i == SelectInSeq(Reached(s), LAMBDA m : m = n)
    IN  CASE n # NULL -> [s |-> s, cur |-> n,
                          prv |-> IF i = 1 THEN NULL ELSE Reached(s)[i - 1]]
          [] Clean(s) -> [s |-> [s EXCEPT !.pc = "panic"], cur |-> NULL, prv |-> NULL]
          [] OTHER    -> [s |-> [s EXCEPT !.pc = "ub"], cur |-> NULL, prv |-> NULL]

\* Lines 158-159: mark free, sys_free_user_mem.
FreeMarkKeep(f) ==
    IF f.cur = NULL THEN f
    ELSE [f EXCEPT !.s.blk[f.cur].is_free = TRUE]
FreeMark(f) ==
    IF f.cur = NULL THEN f
    ELSE [f EXCEPT !.s.blk[f.cur].is_free = TRUE,
                   !.s.marked = @ \ Span(f.s.blk[f.cur].va, f.s.blk[f.cur].size)]

\* Lines 160-165: absorb a free successor and free_block it.
MergeNextLoseSize(f) ==
    LET nx == IF f.cur = NULL THEN NULL ELSE f.s.blk[f.cur].next IN
    CASE nx = NULL              -> f
      [] nx \notin f.s.live     -> [f EXCEPT !.s.pc = "ub", !.cur = NULL]
      [] f.s.blk[nx].is_free    -> [f EXCEPT !.s.blk[f.cur].next = f.s.blk[nx].next,
                                             !.s.live = @ \ {nx}]
      [] OTHER                  -> f
MergeNext(f) ==
    LET nx == IF f.cur = NULL THEN NULL ELSE f.s.blk[f.cur].next IN
    CASE nx = NULL              -> f
      [] nx \notin f.s.live     -> [f EXCEPT !.s.pc = "ub", !.cur = NULL]
      [] f.s.blk[nx].is_free    -> [f EXCEPT !.s.blk[f.cur].size = @ + f.s.blk[nx].size,
                                             !.s.blk[f.cur].next = f.s.blk[nx].next,
                                             !.s.live = @ \ {nx}]
      [] OTHER                  -> f

\* Mutation of MergePrev: a free predecessor is never absorbed
\* (HeapEmptiedWhenAllFreed must catch it).
MergePrevSkip(f) == f

\* Lines 166-172: let a free predecessor absorb cur; cur becomes prvX.
MergePrev(f) ==
    IF f.cur = NULL \/ f.prv = NULL \/ ~f.s.blk[f.prv].is_free THEN f
    ELSE [f EXCEPT !.s.blk[f.prv].size = @ + f.s.blk[f.cur].size,
                   !.s.blk[f.prv].next = f.s.blk[f.cur].next,
                   !.s.live = @ \ {f.cur},
                   !.cur = f.prv]

\* Lines 177-180: prvX->next = NULL, or UHBlkL = NULL.
Unlink(s, prv) ==
    IF prv # NULL THEN [s EXCEPT !.blk[prv].next = NULL]
    ELSE [s EXCEPT !.head = NULL]

\* Lines 173-183: a last block that ends at the break gives its pages back.
Retract(f) ==
    IF f.cur = NULL \/ f.s.blk[f.cur].next # NULL
       \/ f.s.blk[f.cur].va + f.s.blk[f.cur].size # f.s.brk THEN f
    ELSE [f EXCEPT !.s = [Unlink(f.s, f.prv) EXCEPT
                            !.brk = f.s.blk[f.cur].va,
                            !.live = @ \ {f.cur}]]

FreeOp(s, a) == Retract(MergePrev(MergeNext(FreeMark(FindFree(s, a))))).s

(***************************************************************************)
(* realloc (lines 434-480) of a page-allocator block: find its size, malloc *)
(* the new block, then free the old one.                                   *)
(***************************************************************************)
Move(r, a) == IF r.n = NULL THEN r ELSE [r EXCEPT !.s = FreeOp(r.s, a)]

ReallocOp(s, a, sz) ==
    CASE a = NULL         -> MallocOp(s, sz)
      [] sz = 0           -> NoFit(FreeOp(s, a))
      [] NodeAt(s, a) # NULL -> Move(MallocOp(s, sz), a)
      [] Clean(s)         -> NoFit(s)
      [] OTHER            -> UB(s)

-----------------------------------------------------------------------------
(***************************************************************************)
(* The program: a bounded sequence of calls with sizes from PageCounts.    *)
(* It frees and reallocs only pointers malloc or realloc gave it (sfree    *)
(* panics unconditionally, so shared blocks are never given back).         *)
(***************************************************************************)
Init ==
    /\ u = [blk |-> [n \in Nodes |-> [va |-> 0, size |-> 0,
                                      is_free |-> FALSE, next |-> NULL]],
            live |-> {}, head |-> NULL, brk |-> 0,
            marked |-> {}, shared |-> {}, created |-> {}, pc |-> "ok"]
    /\ held = EmptyBag
    /\ calls = 0

\* The pointer a call returned, if it returned one.
Keep(h, r, sz, kind) ==
    IF r.n = NULL THEN h
    ELSE BagAdd(h, [va |-> r.s.blk[r.n].va, size |-> sz, kind |-> kind])

Call == u.pc = "ok" /\ calls < MaxCalls /\ calls' = calls + 1

Apply(r, h, sz, kind) == u' = r.s /\ held' = Keep(h, r, sz, kind)

MallocPtrs == {p \in BagToSet(held) : p.kind = "malloc"}

Malloc(sz) == Call /\ Apply(MallocOp(u, sz), held, sz, "malloc")

Free(p) == Call /\ u' = FreeOp(u, p.va) /\ held' = BagRemove(held, p)

\* realloc(p, sz): p stays valid when the call fails with sz > 0.
Realloc(p, sz) ==
    LET a == IF p = NULL THEN NULL ELSE p.va
        r == ReallocOp(u, a, sz)
    IN  /\ Call
        /\ Apply(r, IF p # NULL /\ (sz = 0 \/ r.n # NULL)
                    THEN BagRemove(held, p) ELSE held, sz, "malloc")

\* smalloc(name, sz): create fails with E_SHARED_MEM_EXISTS exactly when
\* this process already created name.
Smalloc(sz, name, res, k) ==
    /\ Call
    /\ (name \in u.created) = (res = "exists")
    /\ Apply(SmallocOp(u, sz, name, res, k), held, sz, "share")

\* sget of an object of sz pages, or of one size_of does not find.
Sget(sz) == Call /\ Apply(SgetOp(u, sz), held, sz, "share")
SgetMissing == Call /\ UNCHANGED <<u, held>>

Next ==
    \/ SgetMissing
    \/ \E sz \in PageCounts : Malloc(sz)
    \/ \E p \in MallocPtrs : Free(p)
    \/ \E p \in MallocPtrs \cup {NULL}, sz \in PageCounts \cup {0} : Realloc(p, sz)
    \/ \E sz \in PageCounts, name \in Names, res \in {"ok", "exists", "no_share"} :
          \E k \in IF res = "no_share" THEN 0..(sz - 1) ELSE {0} :
             Smalloc(sz, name, res, k)
    \/ \E sz \in PageCounts : Sget(sz)

Spec == Init /\ [][Next]_vars

-----------------------------------------------------------------------------
TypeOK ==
    /\ u \in [blk : [Nodes -> Blk], live : SUBSET Nodes,
              head : Nodes \cup {NULL}, brk : Addrs,
              marked : SUBSET Pages, shared : SUBSET Pages,
              created : SUBSET Names, pc : {"ok", "ub", "panic"}]
    /\ BagToSet(held) \subseteq [va : Addrs, size : PageCounts,
                                 kind : {"malloc", "share"}]
    /\ calls \in 0..MaxCalls

End(n) == u.blk[n].va + u.blk[n].size

(***************************************************************************)
(* While UHBlkL reaches only allocated nodes, the list is the heap: its    *)
(* blocks cover [uheapPageAllocStart, uheapPageAllocBreak) in address      *)
(* order with no gap or overlap, and every struct UHBlk alloc_block handed *)
(* out is on it.  About the split, merge and retract steps of malloc,      *)
(* smalloc, sget and free (lines 98-106, 160-183).                         *)
(***************************************************************************)
ListTilesHeap ==
    Clean(u) =>
      LET L == List(u) IN
      /\ u.live = ToSet(L)
      /\ \A i \in DOMAIN L :
            /\ u.blk[L[i]].size > 0
            /\ u.blk[L[i]].va = IF i = 1 THEN 0 ELSE End(L[i - 1])
      /\ u.brk = IF L = <<>> THEN 0 ELSE End(Last(L))

(***************************************************************************)
(* The pages reserved with sys_allocate_user_mem are exactly those of the  *)
(* blocks the program holds from malloc: free's sys_free_user_mem (line    *)
(* 159) gives back what malloc reserved, before the merges change sizes.   *)
(***************************************************************************)
MarkedMatches ==
    u.marked = UNION {Span(p.va, p.size) : p \in MallocPtrs}

(***************************************************************************)
(* Every pointer the program holds is the start of a listed, allocated     *)
(* block of the size it asked for, and no two held pointers share a block. *)
(***************************************************************************)
HeldBlocksAllocated ==
    Clean(u) =>
      /\ \A p \in BagToSet(held) :
            /\ held[p] = 1
            /\ \E n \in ToSet(List(u)) :
                  u.blk[n].va = p.va /\ u.blk[n].size = p.size /\ ~u.blk[n].is_free
      /\ \A p, q \in BagToSet(held) : p.va = q.va => p = q

(***************************************************************************)
(* Spec section 8, round trip: once the program has freed everything it    *)
(* got from malloc and holds nothing, the break is back at                 *)
(* uheapPageAllocStart.  About free's merges with both neighbours and its  *)
(* retraction of a top free block (lines 160-183), over every order of     *)
(* malloc, realloc and free.                                               *)
(***************************************************************************)
HeapEmptiedWhenAllFreed ==
    held = EmptyBag /\ u.pc = "ok" => u.brk = 0

(***************************************************************************)
(* UHBlkL and every next field point only at struct UHBlk nodes that are   *)
(* still allocated from the dynamic allocator, as every walk of the list   *)
(* in malloc, free, smalloc, sget and realloc assumes.                     *)
(***************************************************************************)
ListedNodesLive == Clean(u)

====
