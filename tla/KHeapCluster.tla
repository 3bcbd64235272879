---------------------------- MODULE KHeapCluster ----------------------------
(***************************************************************************)
(* The page-cluster allocator of the kernel heap (src/kern/mem/kheap.c):  *)
(* kmalloc of more than DYN_ALLOC_MAX_BLOCK_SIZE bytes and kfree of an    *)
(* address in [kheapPageAllocStart, kheapPageAllocBreak).                  *)
(*                                                                         *)
(* Page p stands for kheapPageAllocStart + p * PAGE_SIZE, so a cluster is  *)
(* named by its first page, which is also its cluster_index.  The free     *)
(* lists free_clusters[row] are FOS intrusive lists and are modelled at    *)
(* the pointer level: a row is its head {first, last, size} and a node is  *)
(* a struct KheapCluster {cluster_index, next, prev}.  The code removes    *)
(* nodes it has just kmalloc'ed and never linked; that is only visible     *)
(* with pointers.  Every kmalloc and kfree runs under frame_lock, so each  *)
(* is one atomic step.                                                     *)
(*                                                                         *)
(* A step that makes the C code index outside an array or dereference    *)
(* NULL sets crash to "ub"; kfree's panic sets it to "panic".  Nothing     *)
(* runs after either.                                                      *)
(***************************************************************************)
EXTENDS Integers, Sequences, FiniteSets, SequencesExt

CONSTANTS
    Clients,      \* kernel threads that call kmalloc and kfree
    NumPages,     \* pages between kheapPageAllocStart and KERNEL_HEAP_MAX
    PageCounts,   \* page_needed values requested
    MaxNodes,     \* bound on the struct KheapCluster nodes linked at once
    SizeBound,    \* bound on |LIST_SIZE| of a row (the size field can drift)
    NULL

ASSUME /\ NumPages \in Nat \ {0}
       /\ PageCounts \subseteq 1 .. NumPages
       /\ MaxNodes \in Nat \ {0}
       /\ SizeBound \in Nat

\* free_clusters[] rows the code can index; row r holds clusters of r+1 pages.
Rows == 0 .. 2 * NumPages
\* cluster_size[] entries; kfree reads the entry just past the last page.
TagIdx == 0 .. NumPages
Nodes == 1 .. MaxNodes
NodeOrNull == Nodes \cup {NULL}

VARIABLES
    kh,       \* the allocator's globals, see InitKh
    owned,    \* owned[c]: the cluster kmalloc returned to c, or NULL
    crash     \* "none", "panic" or "ub"

vars == <<kh, owned, crash>>

(***************************************************************************)
(* FOS inc/queue.h list macros (the header is not in this repository).    *)
(***************************************************************************)
LIST_INSERT_HEAD(h, r, e) ==
    LET f == h.free_clusters[r].first
    IN [h EXCEPT
          !.node = [n \in Nodes |->
                      IF n = e THEN [h.node[n] EXCEPT !.next = f, !.prev = NULL]
                      ELSE IF n = f THEN [h.node[n] EXCEPT !.prev = e]
                      ELSE h.node[n]],
          !.free_clusters[r] = [first |-> e,
                                last  |-> IF f = NULL THEN e ELSE @.last,
                                size  |-> @.size + 1]]

LIST_REMOVE(h, r, e) ==
    LET nx == h.node[e].next
        pv == h.node[e].prev
        n1 == IF nx # NULL THEN [h.node EXCEPT ![nx].prev = pv] ELSE h.node
        n2 == IF pv # NULL THEN [n1 EXCEPT ![pv].next = nx] ELSE n1
        l1 == IF nx # NULL THEN h.free_clusters[r]
              ELSE [h.free_clusters[r] EXCEPT !.last = pv]
        l2 == IF pv # NULL THEN l1 ELSE [l1 EXCEPT !.first = nx]
    IN [h EXCEPT !.node = [n2 EXCEPT ![e].next = NULL, ![e].prev = NULL],
                 !.free_clusters[r] = [l2 EXCEPT !.size = @ - 1]]

\* LIST_REMOVE of a node kmalloc has just returned: its links are NULL
\* (fresh slab cells are zero-filled and cluster nodes are never freed),
\* so the macro clears the row's first and last and decrements its size.
LIST_REMOVE_FRESH(h, r) ==
    [h EXCEPT !.free_clusters[r] = [first |-> NULL, last |-> NULL, size |-> @.size - 1]]

RECURSIVE Closure(_, _)
Closure(nd, S) ==
    LET T == (S \cup {nd[n].next : n \in S} \cup {nd[n].prev : n \in S}) \ {NULL}
    IN IF T = S THEN S ELSE Closure(nd, T)

\* Nodes reachable from some row head: the nodes still in use.
Linked(h) ==
    Closure(h.node, ({h.free_clusters[r].first : r \in Rows}
                     \cup {h.free_clusters[r].last : r \in Rows}) \ {NULL})

\* kmalloc(sizeof(struct KheapCluster)): a node nothing links to.
NewNode(h) ==
    CHOOSE n \in Nodes \ Linked(h) : \A m \in Nodes \ Linked(h) : n <= m

RECURSIVE Walk(_, _, _)
Walk(nd, n, k) ==
    IF n = NULL \/ k = 0 THEN <<>> ELSE <<n>> \o Walk(nd, nd[n].next, k - 1)

\* The nodes of row r in list order, from LIST_FIRST along next.
Members(h, r) == Walk(h.node, h.free_clusters[r].first, MaxNodes + 1)

(***************************************************************************)
(* cluster_size[] writes, in program order.  A write outside the array is *)
(* undefined behaviour, reported through InRange.                          *)
(***************************************************************************)
RECURSIVE SetTags(_, _)
SetTags(cs, ws) ==
    IF ws = <<>> THEN cs
    ELSE SetTags(IF Head(ws)[1] \in TagIdx THEN [cs EXCEPT ![Head(ws)[1]] = Head(ws)[2]]
                 ELSE cs,
                 Tail(ws))

InRange(ws) == \A k \in 1 .. Len(ws) : ws[k][1] \in TagIdx

Res(h, ret, c) == [heap |-> h, ret |-> ret, crash |-> c]

(***************************************************************************)
(* kheap_init and kheap_clusters_init: all rows empty, max_FREE_cluster   *)
(* = {0, -1}, break at kheapPageAllocStart, cluster_size[] zero (global). *)
(***************************************************************************)
InitKh ==
    [cluster_size        |-> [i \in TagIdx |-> 0],
     free_clusters       |-> [r \in Rows |-> [first |-> NULL, last |-> NULL, size |-> 0]],
     node                |-> [n \in Nodes |-> [cluster_index |-> 0, next |-> NULL, prev |-> NULL]],
     max_FREE_cluster    |-> [size |-> 0, index |-> -1],
     kheapPageAllocBreak |-> 0]

(***************************************************************************)
(* The loop that recomputes max_FREE_cluster: the first row from i-1 down *)
(* whose LIST_SIZE is positive gives the size and its LIST_FIRST the      *)
(* index.  When every row is empty the old value stays.                   *)
(***************************************************************************)
RECURSIVE MaxScan(_, _)
MaxScan(h, i) ==
    IF i = 0 THEN [heap |-> h, crash |-> "none"]
    ELSE IF i - 1 \notin Rows THEN [heap |-> h, crash |-> "ub"]
    ELSE IF h.free_clusters[i - 1].size > 0
         THEN IF h.free_clusters[i - 1].first = NULL
              THEN [heap |-> h, crash |-> "ub"]
              ELSE [heap |-> [h EXCEPT !.max_FREE_cluster =
                                [size  |-> i,
                                 index |-> h.node[h.free_clusters[i - 1].first].cluster_index]],
                    crash |-> "none"]
         ELSE MaxScan(h, i - 1)

\* kmalloc when max_FREE_cluster[0] < page_needed: take pages at the break.
ExtendBreak(h, n) ==
    LET b  == h.kheapPageAllocBreak
        ws == << <<b, -(n - 1)>>, <<b + n - 1, -(n - 1)>> >>
    IN IF b + n > NumPages THEN Res(h, NULL, "none")
       ELSE Res([h EXCEPT !.cluster_size = SetTags(@, ws), !.kheapPageAllocBreak = b + n],
                b, IF InRange(ws) THEN "none" ELSE "ub")

\* kmalloc, custom fit: the head of free_clusters[page_needed - 1].
CustomFit(h, n) ==
    LET c  == h.free_clusters[n - 1].first
        f  == h.node[c].cluster_index
        ws == << <<f, -(n - 1)>>, <<f + n - 1, -(n - 1)>> >>
        h1 == [LIST_REMOVE(h, n - 1, c) EXCEPT !.cluster_size = SetTags(@, ws)]
        s  == IF n = h.max_FREE_cluster.size THEN MaxScan(h1, n)
              ELSE [heap |-> h1, crash |-> "none"]
    IN Res(s.heap, f, IF InRange(ws) THEN s.crash ELSE "ub")

\* kmalloc, worst fit: split the head of free_clusters[max_FREE_cluster[0]-1].
WorstFit(h, n) ==
    LET m  == h.max_FREE_cluster.size
        c  == h.free_clusters[m - 1].first
        f  == h.node[c].cluster_index
        h1 == LIST_REMOVE(h, m - 1, c)
        r  == NewNode(h1)
        rs == m - 1 - n
        ws == << <<f, -(n - 1)>>, <<f + n - 1, -(n - 1)>>, <<f + n, rs>>, <<f + n + rs, rs>> >>
        h2 == LIST_INSERT_HEAD([h1 EXCEPT !.cluster_size = SetTags(@, ws),
                                          !.node[r].cluster_index = f + n], rs, r)
        s  == IF h2.free_clusters[m - 1].size < 1 THEN MaxScan(h2, m)
              ELSE [heap |-> h2, crash |-> "none"]
    IN CASE m - 1 \notin Rows                -> Res(h, NULL, "ub")
         [] c = NULL                         -> Res(h, NULL, "none")
         [] rs \notin Rows \/ ~InRange(ws)   -> Res(h, NULL, "ub")
         [] OTHER                            -> Res(s.heap, f, s.crash)

kmalloc(h, n) ==
    IF h.max_FREE_cluster.size < n THEN ExtendBreak(h, n)
    ELSE IF h.free_clusters[n - 1].first # NULL /\ h.free_clusters[n - 1].size > 0
         THEN CustomFit(h, n)
         ELSE WorstFit(h, n)

\* kfree: a freed (merged) cluster of total pages larger than
\* max_FREE_cluster[0] becomes the new maximum.
RaiseMax(h, total, e) ==
    IF total > h.max_FREE_cluster.size
    THEN [h EXCEPT !.max_FREE_cluster = [size |-> total, index |-> h.node[e].cluster_index]]
    ELSE h

(***************************************************************************)
(* kfree of the cluster that starts at page s, under frame_lock, in the   *)
(* code's stages.  A stage passes on a record of the heap, the locals of *)
(* kfree (page_needed, new_cluster, value_up, value_under, counter) and   *)
(* crash; once crash is set the later stages leave it unchanged.          *)
(***************************************************************************)

\* Lines 384-435: page_needed from cluster_size[s], the tags of the freed
\* cluster, and new_cluster pushed on free_clusters[page_needed-1].
KfreeStart(h, s) ==
    LET t   == h.cluster_size[s]
        n   == 1 - t                                 \* page_needed
        nc  == NewNode(h)                            \* new_cluster
        w0  == << <<s, n - 1>>, <<s + n - 1, n - 1>> >>
        bad == t > 0 \/ n - 1 \notin Rows \/ ~InRange(w0) \/ s + n \notin TagIdx
    IN [heap    |-> IF bad THEN h
                    ELSE LIST_INSERT_HEAD([h EXCEPT !.cluster_size = SetTags(@, w0),
                                                    !.node[nc].cluster_index = s], n - 1, nc),
        s |-> s, n |-> n, nc |-> nc,
        up |-> FALSE, vu |-> 0, low |-> FALSE, vd |-> 0, counter |-> 0,
        crash   |-> IF bad THEN "ub" ELSE "none"]

\* Lines 437-467: merge with the upper neighbour when its tag is >= 0 and
\* the freed cluster does not end at the break; OLD1_cluster is a fresh
\* node, removed from free_clusters[value_up] and free_clusters[page_needed-1].
KfreeUp(st) ==
    LET h   == st.heap
        s   == st.s
        n   == st.n
        vu0 == h.cluster_size[s + n]
        vu  == vu0 + 1                               \* value_up
        wu  == << <<s + n, 0>>, <<s, n + vu - 1>>, <<s + n + vu - 1, n + vu - 1>>, <<s + n - 1, 0>> >>
    IN IF st.crash # "none" \/ ~(vu0 >= 0 /\ s + n # h.kheapPageAllocBreak) THEN st
       ELSE IF vu0 \notin Rows \/ ~InRange(wu) THEN [st EXCEPT !.crash = "ub"]
       ELSE [st EXCEPT !.heap = [LIST_REMOVE_FRESH(LIST_REMOVE_FRESH(h, vu0), n - 1)
                                    EXCEPT !.cluster_size = SetTags(@, wu)],
                       !.up = TRUE, !.vu = vu, !.counter = vu0]

\* Lines 469-506: merge with the lower neighbour when its tag is >= 0:
\* LIST_FIRST of free_clusters[value_under] is removed when that row has
\* more than one node, else the fresh under_cluster; without an upper
\* merge under_cluster is also removed from free_clusters[page_needed-1].
KfreeLow(st) ==
    LET h   == st.heap
        s   == st.s
        n   == st.n
        vd0 == h.cluster_size[s - 1]
        vd  == vd0 + 1                               \* value_under
        nxt == h.free_clusters[vd0].first            \* NEXT_cluster
        big == h.free_clusters[vd0].size > 1
        wd  == << <<s - 1, 0>>, <<s, 0>>, <<s - 1 - vd, n + vd - 1>>, <<s + n - 1, n + vd - 1>> >>
        h1  == IF big THEN LIST_REMOVE(h, vd0, nxt) ELSE LIST_REMOVE_FRESH(h, vd0)
        h2  == IF st.up THEN h1 ELSE LIST_REMOVE_FRESH(h1, n - 1)
    IN IF st.crash # "none" \/ s = 0 THEN st
       ELSE IF vd0 < 0 THEN st
       ELSE IF vd0 \notin Rows \/ ~InRange(wd) \/ (big /\ nxt = NULL)
            THEN [st EXCEPT !.crash = "ub"]
       ELSE [st EXCEPT !.heap = [h2 EXCEPT !.node[st.nc].cluster_index = (s - 1) - vd0,
                                           !.cluster_size = SetTags(@, wd)],
                       !.low = TRUE, !.vd = vd, !.counter = @ + vd0]

\* Lines 508-516: after both merges (update_size > 1) the tags are
\* rewritten with page_needed + counter + 1.
KfreeBoth(st) ==
    LET s  == st.s
        n  == st.n
        wb == << <<s + n, 0>>, <<s, 0>>, <<s + n + st.vu - 1, n + st.counter + 1>>, <<s + n - 1, 0>> >>
    IN IF st.crash # "none" \/ ~(st.up /\ st.low) THEN st
       ELSE IF ~InRange(wb) THEN [st EXCEPT !.crash = "ub"]
       ELSE [st EXCEPT !.heap = [@ EXCEPT !.cluster_size = SetTags(@, wb)]]

\* Lines 520-560: a merged new_cluster is pushed on the row of its total
\* size, max_FREE_cluster is raised, and when the cluster reaches the break
\* the break is pulled back by counter + page_needed + 1 pages.
KfreeFinish(st) ==
    LET total == st.vu + st.vd + st.n
        h5    == IF st.up \/ st.low THEN LIST_INSERT_HEAD(st.heap, total - 1, st.nc) ELSE st.heap
        h6    == RaiseMax(h5, total, st.nc)
    IN IF st.crash # "none" THEN st
       ELSE IF (st.up \/ st.low) /\ total - 1 \notin Rows THEN [st EXCEPT !.crash = "ub"]
       ELSE [st EXCEPT !.heap =
               IF st.s + st.vu + st.n = st.heap.kheapPageAllocBreak
               THEN [h6 EXCEPT !.kheapPageAllocBreak = @ - (st.counter + st.n + 1)]
               ELSE h6]

\* kfree(va): an address at or above the break panics; otherwise the
\* stages above run in order.  After undefined behaviour the heap is left
\* as it was, as in kmalloc: no later state is meaningful.
kfree(h, s) ==
    IF s >= h.kheapPageAllocBreak THEN Res(h, NULL, "panic")
    ELSE LET st == KfreeFinish(KfreeBoth(KfreeLow(KfreeUp(KfreeStart(h, s)))))
         IN Res(IF st.crash = "none" THEN st.heap ELSE h, NULL, st.crash)

-----------------------------------------------------------------------------

Init ==
    /\ kh = InitKh
    /\ owned = [c \in Clients |-> NULL]
    /\ crash = "none"

\* A kmalloc'ed struct KheapCluster is available for every list push.
NodeAvailable == Cardinality(Linked(kh)) < MaxNodes

\* The model stops once a row's size field leaves -SizeBound .. SizeBound.
SizesBounded == \A r \in Rows : kh.free_clusters[r].size \in -SizeBound .. SizeBound

\* kmalloc(size) with DYN_ALLOC_MAX_BLOCK_SIZE < size, needing n pages.
Kmalloc(c, n) ==
    /\ crash = "none"
    /\ owned[c] = NULL
    /\ NodeAvailable
    /\ SizesBounded
    /\ LET r == kmalloc(kh, n)
       IN /\ kh' = r.heap
          /\ crash' = r.crash
          /\ owned' = IF r.ret # NULL /\ r.crash = "none"
                      THEN [owned EXCEPT ![c] = [start |-> r.ret, n |-> n]]
                      ELSE owned

\* kfree of the address kmalloc returned to c.
Kfree(c) ==
    /\ crash = "none"
    /\ owned[c] # NULL
    /\ NodeAvailable
    /\ SizesBounded
    /\ LET r == kfree(kh, owned[c].start)
       IN /\ kh' = r.heap
          /\ crash' = r.crash
          /\ owned' = [owned EXCEPT ![c] = NULL]

Next ==
    \/ \E c \in Clients, n \in PageCounts : Kmalloc(c, n)
    \/ \E c \in Clients : Kfree(c)

Spec == Init /\ [][Next]_vars

-----------------------------------------------------------------------------

Holders == {c \in Clients : owned[c] # NULL}
ClusterPages(start, len) == start .. start + len - 1
OwnedPages(c) == ClusterPages(owned[c].start, owned[c].n)
\* The free clusters a list walk finds: row r, cluster_index i.
Listed == UNION {{[row |-> r, start |-> kh.node[e].cluster_index] :
                    e \in ToSet(Members(kh, r))} : r \in Rows}

TypeOK ==
    /\ kh.cluster_size \in [TagIdx -> Int]
    /\ kh.free_clusters \in [Rows -> [first : NodeOrNull, last : NodeOrNull, size : Int]]
    /\ kh.node \in [Nodes -> [cluster_index : Int, next : NodeOrNull, prev : NodeOrNull]]
    /\ kh.max_FREE_cluster \in [size : Int, index : Int]
    /\ kh.kheapPageAllocBreak \in -NumPages .. NumPages
    /\ \A c \in Clients : owned[c] = NULL \/ owned[c] \in [start : Int, n : PageCounts]
    /\ crash \in {"none", "panic", "ub"}

\* No page is in two clusters that kmalloc has handed out and that are
\* not yet kfree'd.
NoPageDoubleAllocation ==
    \A c, d \in Holders : c # d => OwnedPages(c) \cap OwnedPages(d) = {}

=============================================================================
