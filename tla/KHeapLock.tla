------------------------------ MODULE KHeapLock ------------------------------
(***************************************************************************)
(* frame_lock across the two kernel allocators (src/kern/mem/kheap.c over  *)
(* src/lib/dynamic_allocator.c), from several processes on several CPUs.   *)
(*                                                                         *)
(* kmalloc and kfree read holding_kspinlock(&frame_lock) into `locked` and *)
(* acquire only when it is 0, so the cluster paths can call kmalloc for a  *)
(* struct KheapCluster while they hold the lock (kmalloc lines 287 and 320, *)
(* kfree lines 409, 448 and 479).  Such a nested kmalloc is small and goes *)
(* to alloc_block, which on an exhausted region releases frame_lock,       *)
(* blocks on alloc_wait_queue and re-acquires the lock when woken.         *)
(*                                                                         *)
(* The DA is the one of DynAlloc, reused through its pure operators        *)
(* alloc_block and free_block.  The cluster tables are abstracted away: a  *)
(* cluster call is its acquire, the nested kmallocs it makes, and its      *)
(* release.  How many nested kmallocs a call makes depends on the tables   *)
(* (a split, a merge above, a merge below), so it is chosen from the       *)
(* counts the code's branches allow.  The KheapCluster structs are never   *)
(* kfree'd by the code (LIST_REMOVE only), so their blocks stay allocated. *)
(***************************************************************************)
EXTENDS Integers, Sequences, FiniteSets

CONSTANTS
    Procs, NumPages, PAGE_SIZE, LOG2_MIN_SIZE, LOG2_MAX_SIZE, Sizes,
    MaxHeld,        \* bound: small blocks one process holds at once
    NULL,
    NodeSize,       \* sizeof(struct KheapCluster), a small size
    MaxClusters     \* bound: clusters one process holds at once

ASSUME NodeSize \in Sizes /\ MaxClusters \in Nat \ {0}

VARIABLES
    heap,             \* the DA tables, as in DynAlloc
    alloc_wait_queue, \* processes blocked in alloc_block, head first
    frame_lock,       \* the CPU holding frame_lock, or NULL
    pc,               \* "idle", "cluster" (inside a cluster call, lock
                      \* held), or a state of alloc_block's blocking path
    op,               \* the outer call: "none", "kmalloc", "kmalloc_cl",
                      \* "kfree_cl"
    nest,             \* nested kmalloc(sizeof KheapCluster) calls left
    req,              \* the size a blocked alloc_block will retry
    held,             \* small blocks each process got from kmalloc
    nodes,            \* blocks holding KheapCluster structs
    clusters          \* clusters each process got from kmalloc

vars == <<heap, alloc_wait_queue, frame_lock, pc, op, nest, req, held,
          nodes, clusters>>

DA == INSTANCE DynAlloc WITH old <- [p \in Procs |-> NULL]

BlockingPcs == {"enqueue", "blocked", "ready"}

\* the tail of free_block (dynamic_allocator.c:310-317): the first waiter
\* leaves alloc_wait_queue and becomes ready
WakeOne ==
    /\ alloc_wait_queue' = IF alloc_wait_queue = <<>> THEN <<>>
                           ELSE Tail(alloc_wait_queue)
    /\ pc' = IF alloc_wait_queue = <<>> THEN pc
             ELSE [pc EXCEPT ![Head(alloc_wait_queue)] = "ready"]

Init ==
    /\ heap = DA!InitHeap
    /\ alloc_wait_queue = <<>>
    /\ frame_lock = NULL
    /\ pc = [p \in Procs |-> "idle"]
    /\ op = [p \in Procs |-> "none"]
    /\ nest = [p \in Procs |-> 0]
    /\ req = [p \in Procs |-> 0]
    /\ held = [p \in Procs |-> {}]
    /\ nodes = {}
    /\ clusters = [p \in Procs |-> 0]
-----------------------------------------------------------------------------
(***************************************************************************)
(* The small path of kmalloc (kheap.c:108-130), frame_lock free: acquire,  *)
(* alloc_block, release.  When the region is exhausted alloc_block         *)
(* releases frame_lock itself (dynamic_allocator.c:212-214) and the        *)
(* process goes on to block.                                               *)
(***************************************************************************)
Kmalloc(self, size) ==
    LET r == DA!alloc_block(heap, size) IN
    /\ pc[self] = "idle"
    /\ frame_lock = NULL
    /\ Cardinality(held[self]) < MaxHeld
    /\ IF r.blk # NULL
       THEN /\ heap' = r.heap
            /\ held' = [held EXCEPT ![self] = @ \cup {r.blk}]
            /\ UNCHANGED <<pc, op, req>>
       ELSE /\ pc' = [pc EXCEPT ![self] = "enqueue"]
            /\ op' = [op EXCEPT ![self] = "kmalloc"]
            /\ req' = [req EXCEPT ![self] = size]
            /\ UNCHANGED <<heap, held>>
    /\ UNCHANGED <<alloc_wait_queue, frame_lock, nest, nodes, clusters>>

\* kfree of a block of the DA region (kheap.c:368-382): acquire, free_block
\* (which wakes one waiter), release
KfreeBlock(self, va) ==
    /\ pc[self] = "idle"
    /\ frame_lock = NULL
    /\ va \in held[self]
    /\ heap' = DA!free_block(heap, va)
    /\ held' = [held EXCEPT ![self] = @ \ {va}]
    /\ WakeOne
    /\ UNCHANGED <<frame_lock, op, nest, req, nodes, clusters>>

(***************************************************************************)
(* The cluster path of kmalloc (kheap.c:134-340) takes frame_lock at line  *)
(* 136.  Growing the break (lines 146-170) and an exact fit (lines         *)
(* 180-238) make no nested kmalloc; a split makes one for the remainder    *)
(* (line 287) and a second (line 320) when it emptied the largest row.     *)
(***************************************************************************)
KmallocCluster(self, n) ==
    /\ pc[self] = "idle"
    /\ frame_lock = NULL
    /\ clusters[self] < MaxClusters
    /\ frame_lock' = self
    /\ pc' = [pc EXCEPT ![self] = "cluster"]
    /\ op' = [op EXCEPT ![self] = "kmalloc_cl"]
    /\ nest' = [nest EXCEPT ![self] = n]
    /\ UNCHANGED <<heap, alloc_wait_queue, req, held, nodes, clusters>>

(***************************************************************************)
(* The cluster path of kfree (kheap.c:384-562) takes frame_lock at line    *)
(* 386, returns the cluster's pages (lines 402-406) and always makes a     *)
(* nested kmalloc for new_cluster (line 409), one more to merge the free   *)
(* cluster above (line 448) and one more to merge the one below (479).     *)
(***************************************************************************)
KfreeCluster(self, n) ==
    /\ pc[self] = "idle"
    /\ frame_lock = NULL
    /\ clusters[self] > 0
    /\ frame_lock' = self
    /\ pc' = [pc EXCEPT ![self] = "cluster"]
    /\ op' = [op EXCEPT ![self] = "kfree_cl"]
    /\ nest' = [nest EXCEPT ![self] = n]
    /\ UNCHANGED <<heap, alloc_wait_queue, req, held, nodes, clusters>>

(***************************************************************************)
(* A nested kmalloc(sizeof(struct KheapCluster)) with frame_lock held:     *)
(* locked is 1, so it calls alloc_block directly (line 112).  On an        *)
(* exhausted region alloc_block sees the lock held and releases it         *)
(* (dynamic_allocator.c:212-214) in the middle of the outer cluster call.  *)
(***************************************************************************)
NestedKmalloc(self) ==
    LET r == DA!alloc_block(heap, NodeSize) IN
    /\ pc[self] = "cluster"
    /\ nest[self] > 0
    /\ IF r.blk # NULL
       THEN /\ heap' = r.heap
            /\ nodes' = nodes \cup {r.blk}
            /\ nest' = [nest EXCEPT ![self] = @ - 1]
            /\ UNCHANGED <<frame_lock, pc, req>>
       ELSE /\ frame_lock' = NULL
            /\ pc' = [pc EXCEPT ![self] = "enqueue"]
            /\ req' = [req EXCEPT ![self] = NodeSize]
            /\ UNCHANGED <<heap, nodes, nest>>
    /\ UNCHANGED <<alloc_wait_queue, op, held, clusters>>

\* the cluster call's release of frame_lock and return: kmalloc's at lines
\* 170, 238, 338; kfree's at lines 558 and 562
ClusterDone(self) ==
    /\ pc[self] = "cluster"
    /\ nest[self] = 0
    /\ frame_lock' = NULL
    /\ pc' = [pc EXCEPT ![self] = "idle"]
    /\ op' = [op EXCEPT ![self] = "none"]
    /\ clusters' = [clusters EXCEPT ![self] =
                      IF op[self] = "kmalloc_cl" THEN @ + 1 ELSE @ - 1]
    /\ UNCHANGED <<heap, alloc_wait_queue, nest, req, held, nodes>>
\* dynamic_allocator.c:215-218: with frame_lock released, set ENV_BLOCKED,
\* LIST_INSERT_TAIL on alloc_wait_queue and sched()
Enqueue(self) ==
    /\ pc[self] = "enqueue"
    /\ alloc_wait_queue' = Append(alloc_wait_queue, self)
    /\ pc' = [pc EXCEPT ![self] = "blocked"]
    /\ UNCHANGED <<heap, frame_lock, op, nest, req, held, nodes, clusters>>

(***************************************************************************)
(* Woken, the process spins for frame_lock (line 219) and returns          *)
(* alloc_block(size) (line 220), which blocks again on an exhausted        *)
(* region.  On success a kmalloc's small path, whose locked was 0,         *)
(* releases the lock (kheap.c:127); a nested kmalloc returns to its        *)
(* cluster call still holding it.                                          *)
(***************************************************************************)
Retry(self) ==
    LET r == DA!alloc_block(heap, req[self]) IN
    /\ pc[self] = "ready"
    /\ frame_lock = NULL
    /\ IF r.blk = NULL
       THEN /\ pc' = [pc EXCEPT ![self] = "enqueue"]
            /\ UNCHANGED <<heap, frame_lock, op, nest, req, held, nodes>>
       ELSE /\ heap' = r.heap
            /\ req' = [req EXCEPT ![self] = 0]
            /\ IF op[self] = "kmalloc"
               THEN /\ held' = [held EXCEPT ![self] = @ \cup {r.blk}]
                    /\ pc' = [pc EXCEPT ![self] = "idle"]
                    /\ op' = [op EXCEPT ![self] = "none"]
                    /\ UNCHANGED <<frame_lock, nest, nodes>>
               ELSE /\ frame_lock' = self
                    /\ nodes' = nodes \cup {r.blk}
                    /\ nest' = [nest EXCEPT ![self] = @ - 1]
                    /\ pc' = [pc EXCEPT ![self] = "cluster"]
                    /\ UNCHANGED <<op, held>>
    /\ UNCHANGED <<alloc_wait_queue, clusters>>

Next ==
    \E self \in Procs :
        \/ \E size \in Sizes : Kmalloc(self, size)
        \/ \E va \in held[self] : KfreeBlock(self, va)
        \/ \E n \in 0..2 : KmallocCluster(self, n)
        \/ \E n \in 1..3 : KfreeCluster(self, n)
        \/ NestedKmalloc(self)
        \/ ClusterDone(self)
        \/ Enqueue(self)
        \/ Retry(self)

Spec == Init /\ [][Next]_vars

-----------------------------------------------------------------------------
(***************************************************************************)
(* Properties                                                              *)
(***************************************************************************)
Addrs == 0..(NumPages * PAGE_SIZE - 1)

TypeOK ==
    /\ alloc_wait_queue \in Seq(Procs)
    /\ frame_lock \in Procs \cup {NULL}
    /\ pc \in [Procs -> {"idle", "cluster"} \cup BlockingPcs]
    /\ op \in [Procs -> {"none", "kmalloc", "kmalloc_cl", "kfree_cl"}]
    /\ nest \in [Procs -> 0..3]
    /\ req \in [Procs -> {0} \cup Sizes]
    /\ held \in [Procs -> SUBSET Addrs]
    /\ nodes \subseteq Addrs
    /\ clusters \in [Procs -> 0..MaxClusters]

\* a process between its cluster call's acquire of frame_lock and its
\* release, blocked in a nested kmalloc or not
InClusterCall(p) == op[p] \in {"kmalloc_cl", "kfree_cl"}

\* frame_lock covers the cluster tables (cluster_size, free_clusters,
\* max_FREE_cluster, kheapPageAllocBreak): while one CPU is in the middle
\* of a cluster kmalloc or kfree, no other CPU holds frame_lock, so none
\* reads or writes the tables it is half way through updating.  The nested
\* kmalloc(sizeof(struct KheapCluster)) of kheap.c:287, 320, 409, 448 and
\* 479 is where this could go wrong.
ClusterCallExclusive ==
    \A p, q \in Procs :
        p # q /\ InClusterCall(p) => frame_lock # q
=============================================================================
