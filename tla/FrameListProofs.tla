--------------------------- MODULE FrameListProofs ---------------------------
(***************************************************************************)
(* The free frame list gives out each frame once as long as no bare call   *)
(* overlaps another one, for any number of threads and frames; calls of    *)
(* __alloc may come as they like, since mmvm_lock keeps them apart.        *)
(*                                                                         *)
(* The inductive invariant ties what a thread has read to the list: the    *)
(* node is the head until the head is stored, and the one just before it   *)
(* afterwards; the frames below the head are exactly those given out.      *)
(***************************************************************************)
EXTENDS FrameList, TLAPS

(* A thread inside a call has the lock, unless the call is bare.           *)
HolderOnly == \A t \in Threads : tpc[t] # "idle" /\ t \notin bare => mmvm_lock = t

(* A call under way still needs a frame.                                   *)
StillNeeds == \A t \in Threads : tpc[t] # "idle" => left[t] # 0

(* No two threads are inside.                                              *)
Alone == \A t, u \in Threads : tpc[t] # "idle" /\ tpc[u] # "idle" => t = u

(* What a thread has read is still true.                                   *)
LocalsFresh ==
  \A t \in Threads :
    /\ tpc[t] # "wild"
    /\ tpc[t] \in {"node", "store"} => fp[t] = free_fp_list /\ fp[t] # NULL
    /\ tpc[t] = "store" => fpn[t] = fp[t] /\ next[t] = fp[t] + 1
    /\ tpc[t] = "free" => fp[t] + 1 = free_fp_list /\ fp[t] \in allocated

(* The nodes on the list are allocated.                                    *)
ListAllocated == \A n \in Frames : free_fp_list <= n => n \in allocated

(* The frames below the head, and no others, have been given out, each     *)
(* once; only an empty list has lost some.                                 *)
GivenBelow ==
  /\ \A t \in Threads : \A f \in got[t] \cup taken[t] : f < free_fp_list
  /\ \A f \in lost : f < free_fp_list
  /\ \A f \in Frames : f < free_fp_list =>
       f \in lost \/ \E t \in Threads : f \in got[t] \cup taken[t]
  /\ \A t, u \in Threads : \A f \in Frames :
       f \in got[t] \cup taken[t] /\ f \in got[u] \cup taken[u] => t = u
  /\ \A t \in Threads : \A f \in Frames :
       /\ f \in got[t] \cup taken[t] => f \notin lost
       /\ f \in got[t] => f \notin taken[t]
  /\ lost # {} => free_fp_list = NULL

ApartInv == Alone /\ LocalsFresh /\ ListAllocated /\ GivenBelow

ListInv ==
  /\ ListTypeOK
  /\ HolderOnly
  /\ StillNeeds
  /\ ~overlapped => ApartInv
------------------------------------------------------------------------------
LEMMA InitList == Init => ListInv
<1> SUFFICES ASSUME Init PROVE ListInv
  OBVIOUS
<1> USE FrameListAssumption DEF Init, Frames, Nodes, NULL
<1>1. ListTypeOK
  <2>1. 0 \in Nodes \cup {NULL}
    OBVIOUS
  <2>2. overlapped \in BOOLEAN
    OBVIOUS
  <2> QED BY <2>1, <2>2 DEF ListTypeOK, ListPCs
<1>2. HolderOnly /\ StillNeeds /\ LocalsFresh /\ Alone
  BY DEF HolderOnly, StillNeeds, LocalsFresh, Alone
<1>3. ListAllocated /\ GivenBelow
  BY DEF ListAllocated, GivenBelow
<1> QED BY <1>1, <1>2, <1>3 DEF ListInv, ApartInv

(* A call begins: nobody is inside, or the two overlap.                    *)
LEMMA EnterList ==
  ASSUME ListInv, NEW t \in Threads, NEW n \in Requests,
         AllocCall(t, n) \/ BareCall(t, n)
  PROVE  ListInv'
<1> USE FrameListAssumption DEF AllocCall, BareCall, Enter, localVars, frameVars
<1>1. ListTypeOK'
  BY DEF ListInv, ListTypeOK, ListPCs
<1>2. HolderOnly' /\ StillNeeds'
  BY DEF ListInv, ListTypeOK, HolderOnly, StillNeeds
<1>3. ASSUME ~overlapped' PROVE ApartInv'
  <2>1. ~overlapped /\ ApartInv
    BY <1>3 DEF ListInv, ListTypeOK
  <2>2. \A u \in Threads : tpc[u] = "idle"
    <3>1. CASE BareCall(t, n)
      BY <3>1, <1>3 DEF Inside
    <3>2. CASE AllocCall(t, n)
      BY <3>2, <1>3 DEF Inside, ListInv, HolderOnly
    <3> QED BY <3>1, <3>2
  <2>3. Alone' /\ LocalsFresh'
    BY <2>1, <2>2 DEF ListInv, ListTypeOK, ApartInv, Alone, LocalsFresh
  <2>4. ListAllocated' /\ GivenBelow'
    BY <2>1 DEF ApartInv, ListAllocated, GivenBelow
  <2> QED BY <2>3, <2>4 DEF ApartInv
<1> QED BY <1>1, <1>2, <1>3 DEF ListInv

LEMMA ReadHeadList ==
  ASSUME ListInv, NEW t \in Threads, ReadHead(t)
  PROVE  ListInv'
<1> USE FrameListAssumption DEF ReadHead, frameVars
<1>1. ListTypeOK'
  BY DEF ListInv, ListTypeOK, ListPCs
<1>2. HolderOnly' /\ StillNeeds'
  BY DEF ListInv, ListTypeOK, HolderOnly, StillNeeds
<1>3. ASSUME ~overlapped' PROVE ApartInv'
  <2>1. ApartInv
    BY <1>3 DEF ListInv
  <2>2. Alone' /\ LocalsFresh'
    BY <2>1 DEF ListInv, ListTypeOK, ApartInv, Alone, LocalsFresh
  <2>3. ListAllocated' /\ GivenBelow'
    BY <2>1 DEF ApartInv, ListAllocated, GivenBelow
  <2> QED BY <2>2, <2>3 DEF ApartInv
<1> QED BY <1>1, <1>2, <1>3 DEF ListInv

(* The frames of a failed request are lost, and the list is empty.         *)
LEMMA ExhaustedList ==
  ASSUME ListInv, NEW t \in Threads, Exhausted(t)
  PROVE  ListInv'
<1> USE FrameListAssumption DEF Exhausted, Leave
<1>1. ListTypeOK'
  BY DEF ListInv, ListTypeOK, ListPCs
<1>2. HolderOnly' /\ StillNeeds'
  BY DEF ListInv, ListTypeOK, HolderOnly, StillNeeds
<1>3. ASSUME ~overlapped' PROVE ApartInv'
  <2>1. ApartInv
    BY <1>3 DEF ListInv
  <2>2. Alone' /\ LocalsFresh'
    BY <2>1 DEF ListInv, ListTypeOK, ApartInv, Alone, LocalsFresh
  <2>3. ListAllocated'
    BY <2>1 DEF ApartInv, ListAllocated
  <2>4. /\ got'[t] = {} /\ taken'[t] = taken[t]
        /\ \A u \in Threads \ {t} : got'[u] = got[u] /\ taken'[u] = taken[u]
        /\ lost' = lost \cup got[t]
        /\ free_fp_list' = free_fp_list /\ free_fp_list = NULL
    BY DEF ListInv, ListTypeOK
  <2>5. GivenBelow'
    BY <2>1, <2>4 DEF ApartInv, GivenBelow, ListInv, ListTypeOK
  <2> QED BY <2>2, <2>3, <2>5 DEF ApartInv
<1> QED BY <1>1, <1>2, <1>3 DEF ListInv

LEMMA ReadNodeList ==
  ASSUME ListInv, NEW t \in Threads, ReadNode(t)
  PROVE  ListInv'
<1> USE FrameListAssumption DEF ReadNode, fp_next, frameVars
<1>1. /\ fp[t] \in Frames
      /\ fp[t] + 1 \in Nodes \cup {NULL}
  BY DEF ListInv, ListTypeOK, Frames, Nodes, NULL
<1>2. ListTypeOK'
  BY <1>1 DEF ListInv, ListTypeOK, ListPCs, Nodes
<1>3. HolderOnly' /\ StillNeeds'
  BY DEF ListInv, ListTypeOK, HolderOnly, StillNeeds
<1>4. ASSUME ~overlapped' PROVE ApartInv'
  <2>1. ApartInv
    BY <1>4 DEF ListInv
  <2>2. Alone' /\ LocalsFresh'
    BY <1>1, <2>1 DEF ListInv, ListTypeOK, ApartInv, Alone, LocalsFresh
  <2>3. ListAllocated' /\ GivenBelow'
    BY <2>1 DEF ApartInv, ListAllocated, GivenBelow
  <2> QED BY <2>2, <2>3 DEF ApartInv
<1> QED BY <1>2, <1>3, <1>4 DEF ListInv

(* The head moves over exactly the frame that is given out.                *)
LEMMA StoreHeadList ==
  ASSUME ListInv, NEW t \in Threads, StoreHead(t), fpn[t] \in Frames
  PROVE  ListInv'
<1> USE FrameListAssumption DEF StoreHead, localVars
<1>1. ListTypeOK'
  BY DEF ListInv, ListTypeOK, ListPCs
<1>2. HolderOnly' /\ StillNeeds'
  BY DEF ListInv, ListTypeOK, HolderOnly, StillNeeds
<1>3. ASSUME ~overlapped' PROVE ApartInv'
  <2>1. ApartInv
    BY <1>3 DEF ListInv
  <2>2. /\ fp[t] \in Frames
        /\ fp[t] = free_fp_list
        /\ fpn[t] = free_fp_list
        /\ fp[t] \in allocated
        /\ free_fp_list' = free_fp_list + 1
        /\ free_fp_list \in Nat
        /\ free_fp_list # NULL
    BY <2>1 DEF ListInv, ApartInv, ListTypeOK, LocalsFresh, ListAllocated,
                Frames, Nodes, NULL
  <2>3. Alone'
    BY <2>1 DEF ListInv, ListTypeOK, ApartInv, Alone
  <2>4. LocalsFresh'
    BY <2>1, <2>2 DEF ListInv, ListTypeOK, ApartInv, Alone, LocalsFresh
  <2>5. ListAllocated'
    BY <2>1, <2>2 DEF ApartInv, ListAllocated, Frames
  <2>6. GivenBelow'
    <3>1. /\ got'[t] = got[t] \cup {free_fp_list}
          /\ \A u \in Threads \ {t} : got'[u] = got[u]
          /\ taken' = taken /\ lost' = lost
      BY <2>2 DEF ListInv, ListTypeOK
    <3>2. \A u \in Threads :
            free_fp_list \notin got[u] /\ free_fp_list \notin taken[u]
      BY <2>1, <2>2 DEF ApartInv, GivenBelow
    <3>3. lost = {}
      BY <2>1, <2>2 DEF ApartInv, GivenBelow
    <3>4. \A u \in Threads : \A f \in got'[u] \cup taken'[u] : f < free_fp_list'
      BY <2>1, <2>2, <3>1 DEF ApartInv, GivenBelow, ListInv, ListTypeOK, Frames
    <3>5. \A f \in Frames :
            f < free_fp_list' => \E u \in Threads : f \in got'[u] \cup taken'[u]
      <4> SUFFICES ASSUME NEW f \in Frames, f < free_fp_list'
                   PROVE  \E u \in Threads : f \in got'[u] \cup taken'[u]
        OBVIOUS
      <4>1. CASE f = free_fp_list
        BY <4>1, <3>1
      <4>2. CASE f # free_fp_list
        <5>1. f < free_fp_list
          BY <4>2, <2>2 DEF Frames
        <5>2. PICK u \in Threads : f \in got[u] \cup taken[u]
          BY <5>1, <2>1, <3>3 DEF ApartInv, GivenBelow
        <5> QED BY <5>2, <3>1
      <4> QED BY <4>1, <4>2
    <3>6. \A u, v \in Threads : \A f \in Frames :
            f \in got'[u] \cup taken'[u] /\ f \in got'[v] \cup taken'[v] => u = v
      BY <2>1, <3>1, <3>2 DEF ApartInv, GivenBelow
    <3>7. \A u \in Threads : \A f \in Frames : f \in got'[u] => f \notin taken'[u]
      BY <2>1, <3>1, <3>2 DEF ApartInv, GivenBelow
    <3> QED BY <3>1, <3>3, <3>4, <3>5, <3>6, <3>7 DEF GivenBelow
  <2> QED BY <2>3, <2>4, <2>5, <2>6 DEF ApartInv
<1> QED BY <1>1, <1>2, <1>3 DEF ListInv

(* The node that is freed is below the head.                               *)
LEMMA FreeNodeList ==
  ASSUME ListInv, NEW t \in Threads, FreeNode(t)
  PROVE  ListInv'
<1> USE FrameListAssumption DEF FreeNode, localVars, frameVars
<1>1. left[t] \in Nat \ {0, 1}
  BY DEF ListInv, ListTypeOK, StillNeeds
<1>2. ListTypeOK'
  BY <1>1 DEF ListInv, ListTypeOK, ListPCs
<1>3. HolderOnly' /\ StillNeeds'
  BY <1>1 DEF ListInv, ListTypeOK, HolderOnly, StillNeeds
<1>4. ASSUME ~overlapped' PROVE ApartInv'
  <2>1. ApartInv
    BY <1>4 DEF ListInv
  <2>2. /\ fp[t] + 1 = free_fp_list
        /\ fp[t] \in Nat
    BY <2>1 DEF ListInv, ApartInv, ListTypeOK, LocalsFresh, Frames, Nodes, NULL
  <2>3. Alone' /\ LocalsFresh'
    BY <2>1 DEF ListInv, ListTypeOK, ApartInv, Alone, LocalsFresh
  <2>4. ListAllocated'
    BY <2>1, <2>2 DEF ApartInv, ListAllocated, Frames
  <2>5. GivenBelow'
    BY <2>1 DEF ApartInv, GivenBelow
  <2> QED BY <2>3, <2>4, <2>5 DEF ApartInv
<1> QED BY <1>2, <1>3, <1>4 DEF ListInv

LEMMA FreeLastNodeList ==
  ASSUME ListInv, NEW t \in Threads, FreeLastNode(t)
  PROVE  ListInv'
<1> USE FrameListAssumption DEF FreeLastNode, Leave
<1>1. ListTypeOK'
  BY DEF ListInv, ListTypeOK, ListPCs
<1>2. HolderOnly' /\ StillNeeds'
  BY DEF ListInv, ListTypeOK, HolderOnly, StillNeeds
<1>3. ASSUME ~overlapped' PROVE ApartInv'
  <2>1. ApartInv
    BY <1>3 DEF ListInv
  <2>2. /\ fp[t] + 1 = free_fp_list
        /\ fp[t] \in Nat
    BY <2>1 DEF ListInv, ApartInv, ListTypeOK, LocalsFresh, Frames, Nodes, NULL
  <2>3. Alone' /\ LocalsFresh'
    BY <2>1 DEF ListInv, ListTypeOK, ApartInv, Alone, LocalsFresh
  <2>4. ListAllocated'
    BY <2>1, <2>2 DEF ApartInv, ListAllocated, Frames
  <2>5. /\ got'[t] = {} /\ taken'[t] = taken[t] \cup got[t]
        /\ \A u \in Threads \ {t} : got'[u] = got[u] /\ taken'[u] = taken[u]
        /\ lost' = lost /\ free_fp_list' = free_fp_list
    BY DEF ListInv, ListTypeOK
  <2>6. \A u \in Threads : got'[u] \cup taken'[u] = got[u] \cup taken[u]
    BY <2>5
  <2>7. \A u \in Threads : \A f \in Frames : f \in got'[u] => f \notin taken'[u]
    BY <2>1, <2>5 DEF ApartInv, GivenBelow
  <2>8. GivenBelow'
    BY <2>1, <2>5, <2>6, <2>7 DEF ApartInv, GivenBelow
  <2> QED BY <2>3, <2>4, <2>8 DEF ApartInv
<1> QED BY <1>1, <1>2, <1>3 DEF ListInv

(* Only after an overlap.                                                  *)
LEMMA StrayList ==
  ASSUME ListInv, NEW t \in Threads, Stray(t)
  PROVE  ListInv'
<1> USE FrameListAssumption DEF Stray, localVars, frameVars
<1>1. ListTypeOK'
  BY DEF ListInv, ListTypeOK, ListPCs
<1>2. HolderOnly' /\ StillNeeds'
  BY DEF ListInv, ListTypeOK, HolderOnly, StillNeeds
<1>3. overlapped
  BY DEF ListInv, ApartInv, ListTypeOK, LocalsFresh, ListAllocated, Nodes, Frames, NULL
<1> QED BY <1>1, <1>2, <1>3 DEF ListInv

(* What a thread stores in its request is a frame.                         *)
StoresFrame == \A t \in Threads : tpc[t] = "store" => fpn[t] \in Frames

LEMMA FrameStored ==
  ASSUME ListInv, StoresFrame, [Next]_vars
  PROVE  StoresFrame'
<1> USE FrameListAssumption DEF ListInv, ListTypeOK, StoresFrame, localVars
<1>1. CASE UNCHANGED vars
  BY <1>1 DEF vars
<1>2. ASSUME NEW t \in Threads, ReadNode(t) PROVE StoresFrame'
  BY <1>2 DEF ReadNode, Nodes
<1>3. ASSUME NEW t \in Threads,
             \/ ReadHead(t) \/ Exhausted(t) \/ StoreHead(t) \/ FreeNode(t)
             \/ FreeLastNode(t) \/ Stray(t)
             \/ \E n \in Requests : AllocCall(t, n) \/ BareCall(t, n)
      PROVE StoresFrame'
  BY <1>3 DEF ReadHead, Exhausted, Leave, StoreHead, FreeNode, FreeLastNode,
              Stray, AllocCall, BareCall, Enter
<1> QED BY <1>1, <1>2, <1>3 DEF Next, ThreadStep, Calls

LEMMA NextList ==
  ASSUME ListInv, StoresFrame, [Next]_vars
  PROVE  ListInv'
<1>1. CASE UNCHANGED vars
  BY <1>1 DEF vars, localVars, frameVars, ListInv, ListTypeOK, HolderOnly,
     StillNeeds, ApartInv, Alone, LocalsFresh, ListAllocated, GivenBelow
<1>2. ASSUME NEW t \in Threads, Calls(t) PROVE ListInv'
  BY <1>2, EnterList DEF Calls
<1>3. ASSUME NEW t \in Threads, ThreadStep(t) PROVE ListInv'
  <2>1. CASE StoreHead(t)
    BY <2>1, StoreHeadList DEF StoresFrame, StoreHead
  <2> QED BY <1>3, <2>1, ReadHeadList, ExhaustedList, ReadNodeList,
             FreeNodeList, FreeLastNodeList, StrayList DEF ThreadStep
<1> QED BY <1>1, <1>2, <1>3 DEF Next

(* The invariant says what the properties say.                             *)
LEMMA ListInvImplies ==
  ListInv => ListTypeOK /\ FrameOnce /\ NoFreedNode /\ NoFrameLeaks
<1> SUFFICES ASSUME ListInv
             PROVE  ListTypeOK /\ FrameOnce /\ NoFreedNode /\ NoFrameLeaks
  OBVIOUS
<1> USE FrameListAssumption DEF ListInv
<1>0. free_fp_list \in Nat
  BY DEF ListTypeOK, Nodes, Frames, NULL
<1>1. ASSUME ~overlapped, NEW t \in Threads, NEW f \in got[t] \cup taken[t]
      PROVE  f \in Frames /\ f \notin Listed /\ f \notin lost
  BY <1>0, <1>1 DEF ApartInv, GivenBelow, ListTypeOK, Listed, Frames
<1>2. FrameOnce
  <2> SUFFICES ASSUME ~overlapped PROVE FrameOnce
    BY DEF FrameOnce
  <2>1. ASSUME NEW t \in Threads, NEW u \in Threads, t # u
        PROVE  Own(t) \cap Own(u) = {}
    BY <1>1, <2>1 DEF Own, ApartInv, GivenBelow
  <2>2. ASSUME NEW t \in Threads
        PROVE  got[t] \cap taken[t] = {} /\ Own(t) \cap (Listed \cup lost) = {}
    BY <1>1, <2>2 DEF Own, ApartInv, GivenBelow
  <2>3. lost \cap Listed = {}
    BY <1>0 DEF ApartInv, GivenBelow, Listed, ListTypeOK, Frames
  <2> QED BY <2>1, <2>2, <2>3 DEF FrameOnce
<1>3. NoFreedNode
  <2> SUFFICES ASSUME ~overlapped PROVE NoFreedNode
    BY DEF NoFreedNode
  <2>1. ASSUME NEW t \in Threads, tpc[t] \in {"node", "store", "free"}
        PROVE  fp[t] \in allocated
    BY <1>0, <2>1 DEF ListTypeOK, ApartInv, LocalsFresh, ListAllocated, Nodes,
                      Frames, NULL
  <2>2. Listed \subseteq allocated
    BY DEF Listed, ApartInv, ListAllocated
  <2> QED BY <2>1, <2>2 DEF NoFreedNode
<1>4. NoFrameLeaks
  <2> SUFFICES ASSUME ~overlapped PROVE NoFrameLeaks
    BY DEF NoFrameLeaks
  <2>1. \A f \in Frames :
          f \in Listed \cup lost \/ \E t \in Threads : f \in Own(t)
    BY <1>0 DEF ApartInv, GivenBelow, Listed, Frames, Own
  <2>2. lost # {} => Listed = {}
    BY DEF ApartInv, GivenBelow, Listed, Frames, NULL
  <2> QED BY <2>1, <2>2 DEF NoFrameLeaks
<1> QED BY <1>2, <1>3, <1>4
------------------------------------------------------------------------------
LEMMA ListInvariant == Spec => [](ListInv /\ StoresFrame)
<1>1. Init => ListInv /\ StoresFrame
  BY InitList DEF Init, StoresFrame
<1>2. ListInv /\ StoresFrame /\ [Next]_vars => (ListInv /\ StoresFrame)'
  BY NextList, FrameStored
<1> QED BY <1>1, <1>2, PTL DEF Spec

(* The loads and stores of MEMPHY_get_freefp keep their types, calls with  *)
(* and without mmvm_lock in any order: until a freed node is used the head *)
(* and every local pointer are nodes of the device or NULL, and the count  *)
(* of frames a request still needs never goes below zero.                  *)
THEOREM ListTypeCorrect == Spec => []ListTypeOK
BY ListInvariant, ListInvImplies, PTL

(* MEMPHY_get_freefp gives out no frame twice until a call without         *)
(* mmvm_lock overlaps another one, for any number of threads, frames and   *)
(* frames per request.                                                     *)
THEOREM FramesGivenOnce == Spec => []FrameOnce
BY ListInvariant, ListInvImplies, PTL

(* Until then no thread reads or frees a node of the list that another one *)
(* has freed.                                                              *)
THEOREM NoNodeUsedAfterFree == Spec => []NoFreedNode
BY ListInvariant, ListInvImplies, PTL

(* Until then a frame leaves the list for an owner, and is lost only by a  *)
(* request that failed because the list was used up.                       *)
THEOREM FramesNeverLeak == Spec => []NoFrameLeaks
BY ListInvariant, ListInvImplies, PTL

(* Calls of __alloc alone never overlap, so that for them the properties   *)
(* hold without condition: mmvm_lock does its work.                        *)
THEOREM LockedCallsNeverOverlap ==
  Spec /\ [][\A t \in Threads, n \in Requests : ~BareCall(t, n)]_vars
    => []~overlapped
<1> DEFINE LockedOnly == \A t \in Threads, n \in Requests : ~BareCall(t, n)
           NoBare == bare = {} /\ overlapped = FALSE
<1>1. Init => NoBare
  BY DEF Init
<1>2. NoBare /\ [Next]_vars /\ [LockedOnly]_vars => NoBare'
  <2> SUFFICES ASSUME NoBare, [Next]_vars, [LockedOnly]_vars PROVE NoBare'
    OBVIOUS
  <2>1. CASE UNCHANGED vars
    BY <2>1 DEF vars
  <2>2. ASSUME NEW t \in Threads, ThreadStep(t) PROVE NoBare'
    <3>1. bare' \subseteq bare /\ overlapped' = overlapped
      BY <2>2 DEF ThreadStep, ReadHead, Exhausted, ReadNode, StoreHead, FreeNode,
                  FreeLastNode, Stray, Leave
    <3> QED BY <3>1
  <2>3. ASSUME NEW t \in Threads, NEW n \in Requests, AllocCall(t, n)
        PROVE  NoBare'
    <3>1. bare' = bare /\ ~overlapped'
      BY <2>3 DEF AllocCall, Enter
    <3>2. overlapped' \in BOOLEAN
      BY <2>3 DEF AllocCall, Enter
    <3> QED BY <3>1, <3>2
  <2>4. CASE Next /\ LockedOnly
    BY <2>4, <2>1, <2>2, <2>3 DEF Next, Calls
  <2> QED BY <2>1, <2>4
<1>3. NoBare => ~overlapped
  OBVIOUS
<1> HIDE DEF NoBare, LockedOnly
<1>4. Spec /\ [][LockedOnly]_vars => []~overlapped
  BY <1>1, <1>2, <1>3, PTL DEF Spec
<1> QED BY <1>4 DEF LockedOnly

(* A step of the list is a step of the pool: the store of the head takes   *)
(* one frame, a failed request drops its own, everything else is           *)
(* invisible.                                                              *)
LEMMA PoolStep ==
  ASSUME ListInv, ListInv', StoresFrame, [Next]_vars
  PROVE  [Pool!PoolNext]_<<Listed, [t \in Threads |-> Own(t)], lost, overlapped>>
<1> USE FrameListAssumption
<1> DEFINE own == [t \in Threads |-> Own(t)]
<1>1. ASSUME UNCHANGED <<free_fp_list, frameVars, overlapped>>
      PROVE  UNCHANGED <<Listed, own, lost, overlapped>>
  BY <1>1 DEF Listed, Own, frameVars
<1>2. CASE overlapped'
  BY <1>2 DEF Pool!PoolNext, Pool!Broken
<1>3. ASSUME NEW t \in Threads, StoreHead(t), ~overlapped'
      PROVE  Pool!PoolNext
  <2>1. ApartInv /\ ListTypeOK
    BY <1>3 DEF StoreHead, ListInv
  <2>2. /\ fpn[t] \in Frames
        /\ fpn[t] = free_fp_list
        /\ free_fp_list' = free_fp_list + 1
        /\ free_fp_list \in Nat
    BY <1>3, <2>1 DEF StoreHead, ApartInv, ListTypeOK, LocalsFresh, Frames, Nodes,
                      NULL
  <2>3. fpn[t] \in Listed /\ Listed' = Listed \ {fpn[t]}
    BY <2>2 DEF Listed, Frames
  <2>4. own' = [own EXCEPT ![t] = @ \cup {fpn[t]}]
    <3>1. /\ got'[t] = got[t] \cup {fpn[t]}
          /\ \A u \in Threads \ {t} : got'[u] = got[u]
          /\ taken' = taken
      BY <1>3, <2>1 DEF StoreHead, ListTypeOK
    <3> QED BY <3>1 DEF Own
  <2>5. UNCHANGED <<lost, overlapped>>
    BY <1>3 DEF StoreHead
  <2>6. Pool!Take(t, fpn[t])
    BY <2>3, <2>4, <2>5 DEF Pool!Take
  <2> QED BY <2>2, <2>6 DEF Pool!PoolNext
<1>4. ASSUME NEW t \in Threads, Exhausted(t), ~overlapped'
      PROVE  Pool!PoolNext
  <2>1. ApartInv /\ ListTypeOK
    BY <1>4 DEF Exhausted, ListInv
  <2>2. Listed = {} /\ Listed' = {}
    BY <1>4 DEF Exhausted, Listed, Frames, NULL
  <2>3. /\ got'[t] = {}
        /\ \A u \in Threads \ {t} : got'[u] = got[u]
        /\ taken' = taken
        /\ lost' = lost \cup got[t]
        /\ overlapped' = overlapped
    BY <1>4, <2>1 DEF Exhausted, Leave, ListTypeOK
  <2>4. \A f \in got[t] : f \notin taken[t]
    BY <2>1 DEF ApartInv, GivenBelow, ListTypeOK
  <2>5. own' = [own EXCEPT ![t] = @ \ got[t]]
    BY <2>3, <2>4 DEF Own
  <2>6. got[t] \in SUBSET own[t]
    BY DEF Own
  <2>7. Pool!Fail(t, got[t])
    BY <2>2, <2>3, <2>5 DEF Pool!Fail
  <2> QED BY <2>6, <2>7 DEF Pool!PoolNext
<1>5. ASSUME NEW t \in Threads, FreeLastNode(t), ~overlapped'
      PROVE  UNCHANGED <<Listed, own, lost, overlapped>>
  <2>1. /\ \A u \in Threads : got'[u] \cup taken'[u] = got[u] \cup taken[u]
        /\ UNCHANGED <<free_fp_list, lost, overlapped>>
    BY <1>5 DEF FreeLastNode, Leave, ListInv, ListTypeOK
  <2> QED BY <2>1 DEF Own, Listed
<1>6. ASSUME NEW t \in Threads, ~overlapped',
             \/ ReadHead(t) \/ ReadNode(t) \/ FreeNode(t) \/ Stray(t)
             \/ \E n \in Requests : AllocCall(t, n) \/ BareCall(t, n)
      PROVE  UNCHANGED <<free_fp_list, frameVars, overlapped>>
  BY <1>6 DEF ReadHead, ReadNode, FreeNode, Stray, AllocCall, BareCall, Enter,
              ListInv, ListTypeOK
<1>7. CASE UNCHANGED vars
  BY <1>7, <1>1 DEF vars
<1>8. CASE Next /\ ~overlapped'
  <2>1. ASSUME UNCHANGED vars
        PROVE  [Pool!PoolNext]_<<Listed, own, lost, overlapped>>
    BY <2>1, <1>1 DEF vars
  <2>2. ASSUME NEW t \in Threads, ThreadStep(t) \/ Calls(t)
        PROVE  [Pool!PoolNext]_<<Listed, own, lost, overlapped>>
    <3> HIDE DEF own
    <3> QED BY <2>2, <1>8, <1>1, <1>3, <1>4, <1>5, <1>6 DEF ThreadStep, Calls
  <2> HIDE DEF own
  <2>3. [Pool!PoolNext]_<<Listed, own, lost, overlapped>>
    BY <1>8, <2>1, <2>2 DEF Next
  <2> QED BY <2>3 DEF own
<1> QED BY <1>2, <1>7, <1>8

(* The free frame list implements the pool of FramePool: until a bare call *)
(* overlaps another one a frame is taken in one step, however the loads    *)
(* and stores interleave.                                                  *)
THEOREM FrameListImplementsPool == Spec => ImplementsPool
<1>1. Init => Pool!PoolInit
  BY FrameListAssumption DEF Init, Pool!PoolInit, Listed, Own, Frames
<1>2. ListInv /\ StoresFrame /\ (ListInv /\ StoresFrame)' /\ [Next]_vars =>
        [Pool!PoolNext]_<<Listed, [t \in Threads |-> Own(t)], lost, overlapped>>
  BY PoolStep
<1> QED BY <1>1, <1>2, ListInvariant, PTL
       DEF Spec, ImplementsPool, Pool!PoolSpec, Pool!poolVars
==============================================================================
