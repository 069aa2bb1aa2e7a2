------------------------------ MODULE FrameList ------------------------------
(***************************************************************************)
(* The free frame list of a memory device (mm-memphy.c) at the level of    *)
(* its loads and stores, with the threads that take frames from it.        *)
(*                                                                         *)
(* MEMPHY_get_freefp has no lock of its own.  A call that comes from       *)
(* __alloc holds mmvm_lock; a bare call, from memmap or a page fault, does *)
(* not.  One step is one access to the list.  Two calls overlap when both  *)
(* are inside and one of them is bare: nothing keeps them apart then, and  *)
(* they are followed until one uses a node that the other has freed.       *)
(*                                                                         *)
(* MEMPHY_format makes one node per frame, in order, and nothing changes   *)
(* the links afterwards: node n holds frame n, its successor is n + 1, and *)
(* NumFrames stands for the NULL pointer.                                  *)
(***************************************************************************)
EXTENDS Naturals, FiniteSets

CONSTANTS
  Threads,     \* the CPU threads
  NumFrames,   \* frames of the device
  Requests,    \* the numbers of frames asked for
  NoLock       \* mmvm_lock is free

ASSUME FrameListAssumption ==
  /\ NumFrames \in Nat
  /\ Requests \subseteq Nat \ {0}
  /\ NoLock \notin Threads

VARIABLES
  free_fp_list,   \* the head
  allocated,      \* the nodes that have not been freed
  mmvm_lock,
  tpc,            \* where each thread is
  left,           \* frames its request still needs
  fp, fpn,        \* its locals in MEMPHY_get_freefp: the node, its frame
  next,           \* and the successor it has read
  bare,           \* the threads whose call came without the lock
  got,            \* the frames a request under way has been given
  taken,          \* the frames of the requests that succeeded
  lost,           \* history: the frames of the requests that failed
  overlapped      \* history: two calls have overlapped, one of them bare

localVars == <<fp, fpn, next>>
frameVars == <<got, taken, lost>>
vars == <<free_fp_list, allocated, mmvm_lock, tpc, left, localVars, bare,
          frameVars, overlapped>>

Frames == 0..NumFrames - 1
NULL == NumFrames
Nodes == Frames
ListPCs == {"idle", "head", "node", "store", "free", "wild"}

ListTypeOK ==
  /\ free_fp_list \in Nodes \cup {NULL}
  /\ allocated \subseteq Nodes
  /\ mmvm_lock \in Threads \cup {NoLock}
  /\ tpc \in [Threads -> ListPCs]
  /\ left \in [Threads -> Nat]
  /\ fp \in [Threads -> Nodes \cup {NULL}]
  /\ fpn \in [Threads -> Frames \cup {NULL}]
  /\ next \in [Threads -> Nodes \cup {NULL}]
  /\ bare \subseteq Threads
  /\ got \in [Threads -> SUBSET Frames]
  /\ taken \in [Threads -> SUBSET Frames]
  /\ lost \subseteq Frames
  /\ overlapped \in BOOLEAN

(* MEMPHY_format.                                                          *)
Init ==
  /\ free_fp_list = 0
  /\ allocated = Nodes
  /\ mmvm_lock = NoLock
  /\ tpc = [t \in Threads |-> "idle"]
  /\ left = [t \in Threads |-> 0]
  /\ fp = [t \in Threads |-> NULL]
  /\ fpn = [t \in Threads |-> NULL]
  /\ next = [t \in Threads |-> NULL]
  /\ bare = {}
  /\ got = [t \in Threads |-> {}]
  /\ taken = [t \in Threads |-> {}]
  /\ lost = {}
  /\ overlapped = FALSE
------------------------------------------------------------------------------
Inside == {t \in Threads : tpc[t] # "idle"}

(* Thread t asks for n frames, the call being bare or not.                 *)
Enter(t, n, isBare) ==
  /\ tpc[t] = "idle"
  /\ left' = [left EXCEPT ![t] = n]
  /\ tpc' = [tpc EXCEPT ![t] = "head"]
  /\ bare' = IF isBare THEN bare \cup {t} ELSE bare
  /\ overlapped' = (overlapped \/ \E u \in Inside : isBare \/ u \in bare)
  /\ UNCHANGED <<free_fp_list, allocated, localVars, frameVars>>

(* Mutation: __alloc does not take the lock.                               *)
AllocCall_NoLock(t, n) ==
  /\ Enter(t, n, FALSE)
  /\ UNCHANGED mmvm_lock

(* alloc_pages_range for __alloc, which has taken the lock.                *)
AllocCall(t, n) ==
  /\ mmvm_lock = NoLock
  /\ mmvm_lock' = t
  /\ Enter(t, n, FALSE)

(* alloc_pages_range for memmap, or pg_getpage, which needs one frame of   *)
(* swap: no lock.                                                          *)
BareCall(t, n) ==
  /\ Enter(t, n, TRUE)
  /\ UNCHANGED mmvm_lock

(* The call returns and __alloc unlocks; the locals are dead.              *)
Leave(t) ==
  /\ tpc' = [tpc EXCEPT ![t] = "idle"]
  /\ mmvm_lock' = IF t \in bare THEN mmvm_lock ELSE NoLock
  /\ bare' = bare \ {t}
  /\ got' = [got EXCEPT ![t] = {}]
  /\ fp' = [fp EXCEPT ![t] = NULL]
  /\ fpn' = [fpn EXCEPT ![t] = NULL]
  /\ next' = [next EXCEPT ![t] = NULL]

(* fp = mp->free_fp_list.                                                  *)
ReadHead(t) ==
  /\ tpc[t] = "head"
  /\ free_fp_list # NULL
  /\ fp' = [fp EXCEPT ![t] = free_fp_list]
  /\ tpc' = [tpc EXCEPT ![t] = "node"]
  /\ UNCHANGED <<free_fp_list, allocated, mmvm_lock, left, fpn, next, bare,
                 frameVars, overlapped>>

(* Mutation: the lock is kept when the list is empty.                      *)
Exhausted_KeepsLock(t) ==
  /\ tpc[t] = "head"
  /\ free_fp_list = NULL
  /\ left' = [left EXCEPT ![t] = 0]
  /\ UNCHANGED <<free_fp_list, allocated, mmvm_lock, tpc, localVars, bare,
                 frameVars, overlapped>>

(* The list is empty: the request fails, alloc_pages_range returns -1 and  *)
(* vm_map_ram drops the list of the frames that it was given.              *)
Exhausted(t) ==
  /\ tpc[t] = "head"
  /\ free_fp_list = NULL
  /\ left' = [left EXCEPT ![t] = 0]
  /\ lost' = lost \cup got[t]
  /\ Leave(t)
  /\ UNCHANGED <<free_fp_list, allocated, taken, overlapped>>

(* Mutation: MEMPHY_format links each node to the one after the next.      *)
fp_next_Skip(n) == n + 2

(* The link of node n.                                                     *)
fp_next(n) == n + 1

(* *retfpn = fp->fpn and the load of fp->fp_next.                          *)
ReadNode(t) ==
  /\ tpc[t] = "node"
  /\ fp[t] \in allocated
  /\ fpn' = [fpn EXCEPT ![t] = fp[t]]
  /\ next' = [next EXCEPT ![t] = fp_next(fp[t])]
  /\ tpc' = [tpc EXCEPT ![t] = "store"]
  /\ UNCHANGED <<free_fp_list, allocated, mmvm_lock, left, fp, bare,
                 frameVars, overlapped>>

(* Mutation: the head stays.                                               *)
StoreHead_Missing(t) ==
  /\ tpc[t] = "store"
  /\ got' = [got EXCEPT ![t] = @ \cup {fpn[t]}]
  /\ tpc' = [tpc EXCEPT ![t] = "free"]
  /\ UNCHANGED <<free_fp_list, allocated, mmvm_lock, left, localVars, bare,
                 taken, lost, overlapped>>

(* mp->free_fp_list = fp->fp_next: the frame is off the list.              *)
StoreHead(t) ==
  /\ tpc[t] = "store"
  /\ free_fp_list' = next[t]
  /\ got' = [got EXCEPT ![t] = @ \cup {fpn[t]}]
  /\ tpc' = [tpc EXCEPT ![t] = "free"]
  /\ UNCHANGED <<allocated, mmvm_lock, left, localVars, bare, taken, lost,
                 overlapped>>

(* free(fp), and the request needs another frame.                          *)
FreeNode(t) ==
  /\ tpc[t] = "free"
  /\ fp[t] \in allocated
  /\ left[t] # 1
  /\ allocated' = allocated \ {fp[t]}
  /\ left' = [left EXCEPT ![t] = @ - 1]
  /\ tpc' = [tpc EXCEPT ![t] = "head"]
  /\ UNCHANGED <<free_fp_list, mmvm_lock, localVars, bare, frameVars,
                 overlapped>>

(* free(fp), and the request has all its frames.                           *)
FreeLastNode(t) ==
  /\ tpc[t] = "free"
  /\ fp[t] \in allocated
  /\ left[t] = 1
  /\ allocated' = allocated \ {fp[t]}
  /\ left' = [left EXCEPT ![t] = 0]
  /\ taken' = [taken EXCEPT ![t] = @ \cup got[t]]
  /\ Leave(t)
  /\ UNCHANGED <<free_fp_list, lost, overlapped>>

(* The node has been freed: a load gives whatever the memory holds by now, *)
(* a second free whatever the C library does.  Not followed any further.   *)
Stray(t) ==
  /\ tpc[t] \in {"node", "free"}
  /\ fp[t] \notin allocated
  /\ tpc' = [tpc EXCEPT ![t] = "wild"]
  /\ UNCHANGED <<free_fp_list, allocated, mmvm_lock, left, localVars, bare,
                 frameVars, overlapped>>

Corrupt == \E t \in Threads : tpc[t] = "wild"

ThreadStep(t) ==
  /\ ~Corrupt
  /\ \/ ReadHead(t) \/ Exhausted(t) \/ ReadNode(t) \/ StoreHead(t)
     \/ FreeNode(t) \/ FreeLastNode(t) \/ Stray(t)

Calls(t) ==
  /\ ~Corrupt
  /\ \E n \in Requests : AllocCall(t, n) \/ BareCall(t, n)

Next ==
  \/ \E t \in Threads : ThreadStep(t) \/ Calls(t)
  \/ Corrupt /\ UNCHANGED vars

Spec == Init /\ [][Next]_vars

(* A thread inside a call keeps running; calls need not be made.           *)
FairSpec == Spec /\ \A t \in Threads : WF_vars(ThreadStep(t))
------------------------------------------------------------------------------
(* Properties.  The safety ones hold until two calls overlap, one of them  *)
(* without the lock: that is all that mmvm_lock, taken by __alloc alone,   *)
(* can give.                                                               *)

(* The frames on the list, and those that a thread has been given.         *)
Listed == {n \in Frames : free_fp_list <= n}
Own(t) == got[t] \cup taken[t]

(* No frame is given out twice, to two threads or to one, and none that is *)
(* given out, or was dropped by a failed request, can still be taken.      *)
FrameOnce ==
  ~overlapped =>
    /\ \A t, u \in Threads : t # u => Own(t) \cap Own(u) = {}
    /\ \A t \in Threads : /\ got[t] \cap taken[t] = {}
                          /\ Own(t) \cap (Listed \cup lost) = {}
    /\ lost \cap Listed = {}

(* No thread reads a node that another one has freed, or frees it again:   *)
(* between its load of the head and free(fp) the node stays allocated.     *)
NoFreedNode ==
  ~overlapped =>
    /\ \A t \in Threads :
         tpc[t] \in {"node", "store", "free"} => fp[t] \in allocated
    /\ Listed \subseteq allocated

(* A frame that is neither on the list nor anybody's was dropped by a      *)
(* request that failed, and then the list is empty: frames are lost only   *)
(* when the device is used up, not in the middle of its life.              *)
NoFrameLeaks ==
  ~overlapped =>
    /\ \A f \in Frames : f \in Listed \cup lost \/ \E t \in Threads : f \in Own(t)
    /\ lost # {} => Listed = {}

(* Every call returns and gives the lock back, also when the device is     *)
(* used up in the middle of it, unless the list is corrupted.              *)
CallReturns == \A t \in Threads : tpc[t] # "idle" ~> tpc[t] = "idle" \/ Corrupt

(* Frames are given out as by MEMPHY_get_freefp in a single step, until    *)
(* two calls overlap.                                                      *)
Pool == INSTANCE FramePool WITH
  free <- Listed, own <- [t \in Threads |-> Own(t)], broken <- overlapped
ImplementsPool == Pool!PoolSpec
==============================================================================
