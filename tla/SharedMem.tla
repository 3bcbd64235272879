------------------------------ MODULE SharedMem ------------------------------
(***************************************************************************)
(* The shared-memory registry of src/kern/mem/shared_memory_manager.c:     *)
(* AllShares.shares_list under shareslock, and the system calls            *)
(* create_shared_object, get_shared_object, size_of_shared_object and      *)
(* delete_shared_object issued by environments running on their own CPUs. *)
(*                                                                         *)
(* A call is split where the code lets other CPUs in: find_share takes and *)
(* releases shareslock, the frame loops run without it, and the list       *)
(* insert and the reference count update take it again.  The frame         *)
(* allocator (allocate_frame, map_frame, unmap_frame) is not under src/;   *)
(* it is modelled from the FOS frame interface: a free-frame set, a        *)
(* reference count per frame, and one page table per environment.          *)
(* Sizes are counted in pages: ROUNDUP(size, PAGE_SIZE) / PAGE_SIZE.       *)
(***************************************************************************)
EXTENDS Integers, Sequences, FiniteSets, SequencesExt

CONSTANTS
    Envs,        \* environments, each running on its own CPU
    Names,       \* shared-object names
    PageCounts,  \* sizes of created objects, in pages
    VAPages,     \* user pages an environment can map objects at
    Frames,      \* physical frames
    Slots,       \* kmalloc addresses a struct Share can get; its ID
    MaxCalls,    \* system calls per environment
    Ops,         \* the system calls the environments issue
    NULL

ASSUME NULL \notin Envs \cup Frames \cup Slots
ASSUME Ops \subseteq {"create", "get", "size_of", "delete"}

VAs == 0 .. VAPages - 1

VARIABLES
    shares_list,  \* AllShares.shares_list: struct Share addresses, head first
    share,        \* the struct Share at each kmalloc address
    shareslock,   \* AllShares.shareslock: the holding CPU's environment or NULL
    freeFrames,   \* free_frame_list
    frameRefs,    \* FrameInfo.references
    pt,           \* page tables: pt[e][va] is NULL or [frame, writable]
    pc,           \* where each environment is in its system call
    loc,          \* the locals of that call
    calls         \* system calls each environment has issued

vars == <<shares_list, share, shareslock, freeFrames, frameRefs, pt, pc, loc, calls>>

NoShare == [allocated |-> FALSE, ownerID |-> NULL, name |-> NULL, isWritable |-> 0,
            references |-> 0, framesStorage |-> <<>>]

NoLocals == [s |-> NULL, name |-> NULL, np |-> 0, w |-> 0, va |-> 0, i |-> 0]

Listed == ToSet(shares_list)

(***************************************************************************)
(* find_share: the first listed share with this owner and name, or NULL.  *)
(* It runs with shareslock held, so callers take it as one step that      *)
(* needs the lock free.                                                    *)
(***************************************************************************)
FindShare(o, n) ==
    LET k == SelectInSeq(shares_list, LAMBDA s : share[s].ownerID = o /\ share[s].name = n)
    IN IF k = 0 THEN NULL ELSE shares_list[k]

\* The user pages va .. va+np-1 are inside the heap and not mapped yet: the
\* user heap passes the address of a block it has just reserved.
FreeRange(e, va, np) == va + np <= VAPages /\ \A k \in 0 .. np - 1 : pt[e][va + k] = NULL

Finish(e) ==
    /\ pc' = [pc EXCEPT ![e] = "idle"]
    /\ loc' = [loc EXCEPT ![e] = NoLocals]
    /\ calls' = [calls EXCEPT ![e] = @ + 1]

(***************************************************************************)
(* The FOS frame interface (not under src/).                               *)
(***************************************************************************)
\* map_frame at a page with no mapping: one more reference to the frame.
map_frame(e, va, f, writable) ==
    /\ pt' = [pt EXCEPT ![e][va] = [frame |-> f, writable |-> writable]]
    /\ frameRefs' = [frameRefs EXCEPT ![f] = @ + 1]

\* unmap_frame: drop the mapping; the frame is freed at zero references.
unmap_frame(e, va) ==
    IF pt[e][va] = NULL THEN UNCHANGED <<pt, frameRefs, freeFrames>>
    ELSE LET f == pt[e][va].frame
         IN /\ pt' = [pt EXCEPT ![e][va] = NULL]
            /\ frameRefs' = [frameRefs EXCEPT ![f] = @ - 1]
            /\ freeFrames' = IF frameRefs[f] = 1 THEN freeFrames \cup {f} ELSE freeFrames

-----------------------------------------------------------------------------
(***************************************************************************)
(* create_shared_object(ownerID = e, name, size, isWritable, va)           *)
(***************************************************************************)

\* Mutation of CallCreate: the find_share result is ignored.
CallCreateNoFind(e) ==
    /\ pc[e] = "idle" /\ calls[e] < MaxCalls /\ "create" \in Ops
    /\ shareslock = NULL
    /\ \E n \in Names, np \in PageCounts, w \in {0, 1}, va \in VAs :
          /\ FreeRange(e, va, np)
          /\ pc' = [pc EXCEPT ![e] = "c_alloc"]
          /\ loc' = [loc EXCEPT ![e] = [NoLocals EXCEPT !.name = n, !.np = np, !.w = w, !.va = va]]
    /\ UNCHANGED <<shares_list, share, shareslock, freeFrames, frameRefs, pt, calls>>

\* Lines 186-192: find_share; an existing (owner, name) is E_SHARED_MEM_EXISTS.
CallCreate(e) ==
    /\ pc[e] = "idle" /\ calls[e] < MaxCalls /\ "create" \in Ops
    /\ shareslock = NULL
    /\ \E n \in Names, np \in PageCounts, w \in {0, 1}, va \in VAs :
          /\ FreeRange(e, va, np)
          /\ IF FindShare(e, n) # NULL
             THEN Finish(e)
             ELSE /\ pc' = [pc EXCEPT ![e] = "c_alloc"]
                  /\ loc' = [loc EXCEPT ![e] = [NoLocals EXCEPT !.name = n, !.np = np,
                                                                !.w = w, !.va = va]]
                  /\ UNCHANGED calls
    /\ UNCHANGED <<shares_list, share, shareslock, freeFrames, frameRefs, pt>>

\* alloc_share (lines 106-152): kmalloc the Share and its framesStorage,
\* references = 1, every frame pointer NULL.  A kernel kmalloc of this size
\* is served by the dynamic allocator, which blocks rather than return NULL.
alloc_share(e) ==
    /\ pc[e] = "c_alloc"
    /\ \E s \in Slots :
          /\ ~share[s].allocated
          /\ share' = [share EXCEPT ![s] =
                          [allocated |-> TRUE, ownerID |-> e, name |-> loc[e].name,
                           isWritable |-> loc[e].w, references |-> 1,
                           framesStorage |-> [k \in 1 .. loc[e].np |-> NULL]]]
          /\ loc' = [loc EXCEPT ![e].s = s]
    /\ pc' = [pc EXCEPT ![e] = "c_frames"]
    /\ UNCHANGED <<shares_list, shareslock, freeFrames, frameRefs, pt, calls>>

\* Mutation of CreateFrame: the ELMAKAN == NULL check is dropped, so an
\* exhausted allocate_frame maps a NULL frame.
CreateFrameNoCheck(e) ==
    /\ pc[e] = "c_frames" /\ loc[e].i < loc[e].np
    /\ LET f == IF freeFrames = {} THEN NULL ELSE CHOOSE g \in freeFrames : TRUE
       IN /\ freeFrames' = freeFrames \ {f}
          /\ pt' = [pt EXCEPT ![e][loc[e].va + loc[e].i] = [frame |-> f, writable |-> TRUE]]
          /\ frameRefs' = IF f = NULL THEN frameRefs ELSE [frameRefs EXCEPT ![f] = @ + 1]
          /\ share' = [share EXCEPT ![loc[e].s].framesStorage[loc[e].i + 1] = f]
    /\ loc' = [loc EXCEPT ![e].i = @ + 1]
    /\ UNCHANGED <<shares_list, shareslock, pc, calls>>

\* One iteration of lines 200-220: allocate_frame, map it writable at
\* va + i whatever isWritable says, store it in framesStorage[i].  With no
\* free frame the call returns E_NO_SHARE, keeping what it has done.
CreateFrame(e) ==
    /\ pc[e] = "c_frames" /\ loc[e].i < loc[e].np
    /\ IF freeFrames = {}
       THEN /\ Finish(e)
            /\ UNCHANGED <<share, freeFrames, frameRefs, pt>>
       ELSE \E f \in freeFrames :
               /\ freeFrames' = freeFrames \ {f}
               /\ map_frame(e, loc[e].va + loc[e].i, f, TRUE)
               /\ share' = [share EXCEPT ![loc[e].s].framesStorage[loc[e].i + 1] = f]
               /\ loc' = [loc EXCEPT ![e].i = @ + 1]
               /\ UNCHANGED <<pc, calls>>
    /\ UNCHANGED <<shares_list, shareslock>>

\* Mutation of CreateInsert: the share is listed once its first frame is in.
CreateInsertEarly(e) ==
    /\ pc[e] = "c_frames" /\ loc[e].i >= 1
    /\ shareslock = NULL
    /\ shares_list' = Append(shares_list, loc[e].s)
    /\ Finish(e)
    /\ UNCHANGED <<share, shareslock, freeFrames, frameRefs, pt>>

\* Lines 223-235: under shareslock, LIST_INSERT_TAIL; return the ID.
CreateInsert(e) ==
    /\ pc[e] = "c_frames" /\ loc[e].i = loc[e].np
    /\ shareslock = NULL
    /\ shares_list' = Append(shares_list, loc[e].s)
    /\ Finish(e)
    /\ UNCHANGED <<share, shareslock, freeFrames, frameRefs, pt>>

(***************************************************************************)
(* get_shared_object(ownerID, name, va)                                    *)
(***************************************************************************)

\* Lines 261-264: find_share; a missing object is E_SHARED_MEM_NOT_EXISTS.
\* The user heap asks for the size first and reserves that many pages.
CallGet(e) ==
    /\ pc[e] = "idle" /\ calls[e] < MaxCalls /\ "get" \in Ops
    /\ shareslock = NULL
    /\ \E o \in Envs, n \in Names :
          LET s == FindShare(o, n)
          IN IF s = NULL
             THEN Finish(e)
             ELSE \E va \in VAs :
                     /\ FreeRange(e, va, Len(share[s].framesStorage))
                     /\ pc' = [pc EXCEPT ![e] = "g_map"]
                     /\ loc' = [loc EXCEPT ![e] = [NoLocals EXCEPT !.s = s, !.va = va,
                                                   !.np = Len(share[s].framesStorage)]]
                     /\ UNCHANGED calls
    /\ UNCHANGED <<shares_list, share, shareslock, freeFrames, frameRefs, pt>>

\* One iteration of lines 269-282, without shareslock: map framesStorage[i]
\* at va + i, writable when the object is.
GetMap(e) ==
    /\ pc[e] = "g_map" /\ loc[e].i < loc[e].np
    /\ map_frame(e, loc[e].va + loc[e].i,
                 share[loc[e].s].framesStorage[loc[e].i + 1],
                 share[loc[e].s].isWritable = 1)
    /\ loc' = [loc EXCEPT ![e].i = @ + 1]
    /\ UNCHANGED <<shares_list, share, shareslock, freeFrames, pc, calls>>

\* Mutation of GetRef: references is not incremented.
GetRefNoInc(e) ==
    /\ pc[e] = "g_map" /\ loc[e].i = loc[e].np
    /\ shareslock = NULL
    /\ Finish(e)
    /\ UNCHANGED <<shares_list, share, shareslock, freeFrames, frameRefs, pt>>

\* Mutation of GetRef: shareslock is acquired and never released.
GetRefNoRelease(e) ==
    /\ pc[e] = "g_map" /\ loc[e].i = loc[e].np
    /\ shareslock = NULL
    /\ shareslock' = e
    /\ share' = [share EXCEPT ![loc[e].s].references = @ + 1]
    /\ Finish(e)
    /\ UNCHANGED <<shares_list, freeFrames, frameRefs, pt>>

\* Lines 283-290: under shareslock, references++; return the ID.
GetRef(e) ==
    /\ pc[e] = "g_map" /\ loc[e].i = loc[e].np
    /\ shareslock = NULL
    /\ share' = [share EXCEPT ![loc[e].s].references = @ + 1]
    /\ Finish(e)
    /\ UNCHANGED <<shares_list, shareslock, freeFrames, frameRefs, pt>>

(***************************************************************************)
(* size_of_shared_object(ownerID, name): find_share, return the size.     *)
(***************************************************************************)
size_of_shared_object(e) ==
    /\ pc[e] = "idle" /\ calls[e] < MaxCalls /\ "size_of" \in Ops
    /\ shareslock = NULL
    /\ Finish(e)
    /\ UNCHANGED <<shares_list, share, shareslock, freeFrames, frameRefs, pt>>

(***************************************************************************)
(* delete_shared_object(sharedObjectID, startVA), called from the system   *)
(* call with shareslock not held (abdoh = 0).                              *)
(***************************************************************************)

\* Lines 366-386: acquire shareslock and search the list by ID; a missing
\* ID releases it and returns E_SHARED_MEM_NOT_EXISTS.
CallDelete(e) ==
    /\ pc[e] = "idle" /\ calls[e] < MaxCalls /\ "delete" \in Ops
    /\ shareslock = NULL
    /\ \E id \in Slots, va \in VAs :
          IF id \notin Listed
          THEN Finish(e) /\ UNCHANGED shareslock
          ELSE /\ va + Len(share[id].framesStorage) <= VAPages
               /\ shareslock' = e
               /\ pc' = [pc EXCEPT ![e] = "d_unmap"]
               /\ loc' = [loc EXCEPT ![e] = [NoLocals EXCEPT !.s = id, !.va = va,
                                             !.np = Len(share[id].framesStorage)]]
               /\ UNCHANGED calls
    /\ UNCHANGED <<shares_list, share, freeFrames, frameRefs, pt>>

\* One iteration of lines 390-396, holding shareslock: unmap_frame at
\* startVA + i.  After the last one, removing empty page tables (lines
\* 398-424) changes no mapping, and line 428 calls acquire_kspinlock on the
\* shareslock this CPU already holds: the call never gets past it.
DelUnmap(e) ==
    /\ pc[e] = "d_unmap" /\ loc[e].i < loc[e].np
    /\ unmap_frame(e, loc[e].va + loc[e].i)
    /\ loc' = [loc EXCEPT ![e].i = @ + 1]
    /\ pc' = [pc EXCEPT ![e] = IF loc[e].i + 1 = loc[e].np THEN "d_relock" ELSE "d_unmap"]
    /\ UNCHANGED <<shares_list, share, shareslock, calls>>

-----------------------------------------------------------------------------

Init ==
    /\ shares_list = <<>>
    /\ share = [s \in Slots |-> NoShare]
    /\ shareslock = NULL
    /\ freeFrames = Frames
    /\ frameRefs = [f \in Frames |-> 0]
    /\ pt = [e \in Envs |-> [va \in VAs |-> NULL]]
    /\ pc = [e \in Envs |-> "idle"]
    /\ loc = [e \in Envs |-> NoLocals]
    /\ calls = [e \in Envs |-> 0]

\* The steps of a call already in progress.
Work(e) ==
    \/ alloc_share(e) \/ CreateFrame(e) \/ CreateInsert(e)
    \/ GetMap(e) \/ GetRef(e)
    \/ DelUnmap(e)

Next ==
    \E e \in Envs :
        \/ CallCreate(e) \/ CallGet(e) \/ size_of_shared_object(e) \/ CallDelete(e)
        \/ Work(e)

Spec == Init /\ [][Next]_vars

\* A CPU inside a system call keeps running it: the kernel does not
\* preempt it, and a spinning acquire proceeds once the lock is free.
\* Whether an environment issues another call is up to it.
FairSpec == Spec /\ \A e \in Envs : WF_vars(Work(e))

-----------------------------------------------------------------------------
PTE == [frame : Frames, writable : BOOLEAN]

TypeOK ==
    /\ shares_list \in Seq(Slots)
    /\ share \in [Slots -> [allocated : BOOLEAN, ownerID : Envs \cup {NULL},
                             name : Names \cup {NULL}, isWritable : {0, 1},
                             references : Nat,
                             framesStorage : Seq(Frames \cup {NULL})]]
    /\ shareslock \in Envs \cup {NULL}
    /\ freeFrames \subseteq Frames
    /\ frameRefs \in [Frames -> Nat]
    /\ pt \in [Envs -> [VAs -> PTE \cup {NULL}]]
    /\ pc \in [Envs -> {"idle", "c_alloc", "c_frames", "g_map", "d_unmap", "d_relock"}]
    /\ calls \in [Envs -> 0 .. MaxCalls]

\* The page-table entries of all environments that map frame f.
Mappings(f) == {ev \in Envs \X VAs : pt[ev[1]][ev[2]] # NULL /\ pt[ev[1]][ev[2]].frame = f}

\* Environments inside get_shared_object for s that have mapped its first
\* frame and not yet incremented references (lines 269-286).
GettersInFlight(s) == {e \in Envs : pc[e] = "g_map" /\ loc[e].s = s /\ loc[e].i >= 1}

\* The spec's shared-memory refcount invariant: references of a listed
\* share counts the mappings of its frames.  create_shared_object sets it
\* to 1 for the creator's mapping and get_shared_object adds one per mapping,
\* but get maps the frames before it takes shareslock to count them.  The
\* count is exact while no delete_shared_object is unmapping: delete unmaps
\* first and would decrement references only after line 428.
Deleting == \E e \in Envs : pc[e] \in {"d_unmap", "d_relock"}

RefsCountMappings ==
    ~Deleting =>
    \A s \in Listed :
        share[s].references + Cardinality(GettersInFlight(s))
            = Cardinality(Mappings(share[s].framesStorage[1]))

\* A share on shares_list has every frame pointer set: create_shared_object
\* inserts it only after its frame loop, so get_shared_object never maps a
\* NULL frame (the E_NO_SHARE exit at line 271 cannot be taken).
ListedSharesComplete ==
    \A s \in Listed : \A k \in DOMAIN share[s].framesStorage : share[s].framesStorage[k] # NULL

\* No two listed shares have the same (ownerID, name), although
\* create_shared_object releases shareslock between find_share and
\* LIST_INSERT_TAIL.
UniqueShareNames ==
    \A i, j \in DOMAIN shares_list :
        i # j => <<share[shares_list[i]].ownerID, share[shares_list[i]].name>>
                 # <<share[shares_list[j]].ownerID, share[shares_list[j]].name>>

\* Every system call returns: no CPU waits forever on shareslock or for a
\* step of its own.
CallsReturn == \A e \in Envs : pc[e] # "idle" ~> pc[e] = "idle"

\* A delete_shared_object of an existing share has reached line 428, where
\* it spins on the shareslock its own CPU holds.
DeleteStuck == \E d \in Envs : pc[d] = "d_relock"

\* Every create, get and size_of call returns, however the calls of the
\* two environments interleave and whether or not frames run out, unless a
\* delete has reached its second acquire of shareslock (line 428).
CallsReturnUnlessDeleteStuck ==
    \A e \in Envs : pc[e] # "idle" ~> (pc[e] = "idle" \/ DeleteStuck)

=============================================================================
