------------------------------- MODULE Regions -------------------------------
(***************************************************************************)
(* The allocator of virtual memory: __alloc and __free (libmem.c), the     *)
(* growth of the heap area (mm-vm.c), the mapping of new pages (mm.c) and  *)
(* the free frames of RAM (mm-memphy.c), for the processes that share one  *)
(* RAM.  The search of the free list is one step per list node, everything *)
(* else that __alloc does under mmvm_lock is one step; __free takes no     *)
(* lock, but a process has only one thread.  memmap and page faults take   *)
(* frames with no lock either, and in one step here: that is exact for one *)
(* CPU, and what several CPUs do to the free frame list is in FrameList.   *)
(*                                                                         *)
(* Every process has the one heap area vmaid 0 that init_mm makes, which   *)
(* starts at address 0.  Nothing in the code keeps the limit of the area   *)
(* inside the page table (vm_map_ram has its check commented out): a       *)
(* process whose limit passes it, or that stores outside its symbol table, *)
(* is wild, and is not followed further.                                   *)
(***************************************************************************)
EXTENDS Integers, Sequences, PTE

CONSTANTS
  Procs,       \* the processes
  PAGESZ,      \* PAGING_PAGESZ
  MAX_PGN,     \* PAGING_MAX_PGN, the length of the page table
  SYMTBL_SZ,   \* PAGING_MAX_SYMTBL_SZ, the length of symrgtbl
  RgIds,       \* the region ids that programs use
  Sizes,       \* the sizes that programs ask for
  NumFrames,   \* frames of RAM
  NoLock       \* mmvm_lock is free

ASSUME RegionsAssumption ==
  /\ PAGESZ \in Nat \ {0}
  /\ MAX_PGN \in Nat \ {0}
  /\ SYMTBL_SZ \in Nat \ {0}
  /\ RgIds \subseteq Nat
  /\ Sizes \subseteq Nat
  /\ NumFrames \in 0..FpnRange
  /\ NoLock \notin Procs

VARIABLES
  symrgtbl,      \* the region of each symbol, per process
  freerg,        \* vm_freerg_list, from its head
  vm_end, sbrk,  \* the heap area
  pgd,           \* the page table
  fifo_pgn,      \* the pages in RAM, last mapped first
  free_fp,       \* mram->free_fp_list, shared
  mmvm_lock,     \* the process whose thread holds it, or NoLock
  mpc,           \* where each process is in __alloc
  call,          \* its arguments: symbol and size
  rgit, newrg,   \* the cursor of get_free_vmrg_area and its result
  wild           \* the processes that are not followed further

areaVars == <<vm_end, sbrk, pgd, fifo_pgn, free_fp>>
scanVars == <<mmvm_lock, mpc, call, rgit, newrg>>
regionVars == <<symrgtbl, freerg, areaVars, scanVars, wild>>

Region(s, e) == [rg_start |-> s, rg_end |-> e]
Regs == [rg_start : Int, rg_end : Int]

(* A symbol that was freed, and a search that has found nothing: -1.       *)
NoRegion == Region(-1, -1)

Size(rg) == rg.rg_end - rg.rg_start

Pages == 0..MAX_PGN - 1
Frames == 0..NumFrames - 1
Symbols == 0..SYMTBL_SZ - 1

TypeOK ==
  /\ symrgtbl \in [Procs -> [Symbols -> Regs]]
  /\ freerg \in [Procs -> Seq(Regs)]
  /\ vm_end \in [Procs -> Nat]
  /\ sbrk \in [Procs -> Nat]
  /\ pgd \in [Procs -> [Pages -> PTEs]]
  /\ fifo_pgn \in [Procs -> Seq(Pages)]
  /\ free_fp \in Seq(Frames)
  /\ mmvm_lock \in Procs \cup {NoLock}
  /\ mpc \in [Procs -> {"idle", "scan"}]
  /\ call \in [Procs -> [rgid : RgIds, size : Sizes] \cup {NoRegion}]
  /\ rgit \in [Procs -> Nat]
  /\ newrg \in [Procs -> Regs]
  /\ wild \subseteq Procs

(* The free frames of a fresh device, in order.                            *)
MEMPHY_format(numfp) == [n \in 1..numfp |-> n - 1]

(* init_mm for every process and init_memphy: the area is empty, its free  *)
(* list holds one empty region, and the memory of mm_struct is zero.       *)
Init ==
  /\ symrgtbl = [p \in Procs |-> [r \in Symbols |-> Region(0, 0)]]
  /\ freerg = [p \in Procs |-> <<Region(0, 0)>>]
  /\ vm_end = [p \in Procs |-> 0]
  /\ sbrk = [p \in Procs |-> 0]
  /\ pgd = [p \in Procs |-> [n \in Pages |-> NoPTE]]
  /\ fifo_pgn = [p \in Procs |-> <<>>]
  /\ free_fp = MEMPHY_format(NumFrames)
  /\ mmvm_lock = NoLock
  /\ mpc = [p \in Procs |-> "idle"]
  /\ call = [p \in Procs |-> NoRegion]
  /\ rgit = [p \in Procs |-> 0]
  /\ newrg = [p \in Procs |-> NoRegion]
  /\ wild = {}
------------------------------------------------------------------------------
(* mm-vm.c, mm.c and mm-memphy.c: growing the area.                        *)

PAGING_PAGE_ALIGNSZ(sz) == ((sz + PAGESZ - 1) \div PAGESZ) * PAGESZ

PAGING_PGN(addr) == (addr \div PAGESZ) % MAX_PGN

(* Does the planned area [s, e] meet the heap?  An empty heap is skipped.  *)
validate_overlap(p, s, e) ==
  /\ vm_end[p] # 0
  /\ \/ 0 <= s /\ s <= vm_end[p]
     \/ 0 <= e /\ e <= vm_end[p]
     \/ s <= 0 /\ vm_end[p] <= e

(* Mutation: one frame too few is taken off the list.                      *)
vm_map_ram_TakesFewer(p, first, n) ==
  IF n > Len(free_fp)
  THEN /\ free_fp' = <<>>
       /\ UNCHANGED <<pgd, fifo_pgn>>
  ELSE /\ free_fp' = SubSeq(free_fp, n, Len(free_fp))
       /\ pgd' = [pgd EXCEPT ![p] = [pg \in Pages |->
                    IF pg \in first..first + n - 1
                    THEN pte_set_fpn(@[pg], free_fp[n - (pg - first)])
                    ELSE @[pg]]]
       /\ fifo_pgn' = [fifo_pgn EXCEPT ![p] =
                         [m \in 1..n |-> first + n - m] \o @]

(* Mutation: the loop of vmap_page_range starts at the second page, so     *)
(* that the first frame is taken and never mapped.                         *)
vm_map_ram_SkipsFirst(p, first, n) ==
  IF n > Len(free_fp)
  THEN /\ free_fp' = <<>>
       /\ UNCHANGED <<pgd, fifo_pgn>>
  ELSE /\ free_fp' = SubSeq(free_fp, n + 1, Len(free_fp))
       /\ pgd' = [pgd EXCEPT ![p] = [pg \in Pages |->
                    IF pg \in first + 1..first + n - 1
                    THEN pte_set_fpn(@[pg], free_fp[n - (pg - first)])
                    ELSE @[pg]]]
       /\ fifo_pgn' = [fifo_pgn EXCEPT ![p] =
                         [m \in 1..n |-> first + n - m] \o @]

(* Mutation: the page behind the mapped one is noted.                      *)
vm_map_ram_ListsNext(p, first, n) ==
  IF n > Len(free_fp)
  THEN /\ free_fp' = <<>>
       /\ UNCHANGED <<pgd, fifo_pgn>>
  ELSE /\ free_fp' = SubSeq(free_fp, n + 1, Len(free_fp))
       /\ pgd' = [pgd EXCEPT ![p] = [pg \in Pages |->
                    IF pg \in first..first + n - 1
                    THEN pte_set_fpn(@[pg], free_fp[n - (pg - first)])
                    ELSE @[pg]]]
       /\ fifo_pgn' = [fifo_pgn EXCEPT ![p] =
                         [m \in 1..n |-> first + n - m + 1] \o @]

(* vm_map_ram: take n frames, map them from page number first on, and note *)
(* the pages in the FIFO list.  The frames come in reverse: the list of    *)
(* taken frames is built at its head.  When RAM has too few, those already *)
(* taken are not given back and nothing is mapped.                         *)
vm_map_ram(p, first, n) ==
  IF n > Len(free_fp)
  THEN /\ free_fp' = <<>>
       /\ UNCHANGED <<pgd, fifo_pgn>>
  ELSE /\ free_fp' = SubSeq(free_fp, n + 1, Len(free_fp))
       /\ pgd' = [pgd EXCEPT ![p] = [pg \in Pages |->
                    IF pg \in first..first + n - 1
                    THEN pte_set_fpn(@[pg], free_fp[n - (pg - first)])
                    ELSE @[pg]]]
       /\ fifo_pgn' = [fifo_pgn EXCEPT ![p] =
                         [m \in 1..n |-> first + n - m] \o @]

(* The frames are taken all the same for pages beyond the page table; what *)
(* is stored in its place, and behind it, is not followed.                 *)
MapBeyond(n) ==
  /\ free_fp' = IF n > Len(free_fp) THEN <<>>
                ELSE SubSeq(free_fp, n + 1, Len(free_fp))
  /\ UNCHANGED <<pgd, fifo_pgn>>

(* inc_vma_limit takes the limit of the area past the page table.          *)
PassesTable(p, inc_sz) ==
  LET inc_amt == PAGING_PAGE_ALIGNSZ(inc_sz)
  IN /\ ~validate_overlap(p, sbrk[p], sbrk[p] + inc_amt)
     /\ vm_end[p] + inc_amt > MAX_PGN * PAGESZ

(* Mutation: the pages are mapped at the break, not at the old limit.      *)
inc_vma_limit_MapsAtBreak(p, inc_sz) ==
  LET inc_amt == PAGING_PAGE_ALIGNSZ(inc_sz)
      n == inc_amt \div PAGESZ
  IN IF validate_overlap(p, sbrk[p], sbrk[p] + inc_amt)
     THEN UNCHANGED <<vm_end, pgd, fifo_pgn, free_fp>>
     ELSE /\ vm_end' = [vm_end EXCEPT ![p] = @ + inc_amt]
          /\ IF PassesTable(p, inc_sz) THEN MapBeyond(n)
             ELSE vm_map_ram(p, PAGING_PGN(sbrk[p]), n)

(* inc_vma_limit: the limit moves by the aligned size and the new pages    *)
(* are mapped, unless the new area meets the old one.  The break has moved *)
(* by the same amount (get_vm_area_node_at_brk) in either case: see the    *)
(* callers.                                                                *)
inc_vma_limit(p, inc_sz) ==
  LET inc_amt == PAGING_PAGE_ALIGNSZ(inc_sz)
      n == inc_amt \div PAGESZ
  IN IF validate_overlap(p, sbrk[p], sbrk[p] + inc_amt)
     THEN UNCHANGED <<vm_end, pgd, fifo_pgn, free_fp>>
     ELSE /\ vm_end' = [vm_end EXCEPT ![p] = @ + inc_amt]
          /\ IF PassesTable(p, inc_sz) THEN MapBeyond(n)
             ELSE vm_map_ram(p, PAGING_PGN(vm_end[p]), n)
------------------------------------------------------------------------------
(* libmem.c: __alloc.                                                      *)

(* The test of rgid; it lets through one id more than symrgtbl has.        *)
ValidRgId(rgid) == rgid <= SYMTBL_SZ

(* The new region of the symbol; a store outside the table goes astray.    *)
SetSymbol(p, rgid, rg) ==
  IF rgid \in Symbols
  THEN symrgtbl' = [symrgtbl EXCEPT ![p][rgid] = rg]
  ELSE UNCHANGED symrgtbl

(* From a step that goes astray on process p is wild.                      *)
Follow(p, astray) == wild' = IF astray THEN wild \cup {p} ELSE wild

(* Return from __alloc, and unlock.                                        *)
Return(p) ==
  /\ mpc' = [mpc EXCEPT ![p] = "idle"]
  /\ mmvm_lock' = NoLock
  /\ call' = [call EXCEPT ![p] = NoRegion]
  /\ rgit' = [rgit EXCEPT ![p] = 0]
  /\ newrg' = [newrg EXCEPT ![p] = NoRegion]

(* __alloc is called and takes the lock; an id that fails the test returns *)
(* with nothing changed.                                                   *)
AllocEnter(p, rgid, size) ==
  /\ mpc[p] = "idle"
  /\ p \notin wild
  /\ mmvm_lock = NoLock
  /\ ValidRgId(rgid)
  /\ mmvm_lock' = p
  /\ mpc' = [mpc EXCEPT ![p] = "scan"]
  /\ call' = [call EXCEPT ![p] = [rgid |-> rgid, size |-> size]]
  /\ rgit' = [rgit EXCEPT ![p] = 1]
  /\ UNCHANGED <<symrgtbl, freerg, areaVars, newrg, wild>>

Scanning(p) == mpc[p] = "scan"
AtNode(p) == Scanning(p) /\ rgit[p] <= Len(freerg[p])
Node(p) == freerg[p][rgit[p]]

(* The node is too small: go to the next one.                              *)
ScanSkip(p) ==
  /\ AtNode(p)
  /\ Size(Node(p)) < call[p].size
  /\ rgit' = [rgit EXCEPT ![p] = @ + 1]
  /\ UNCHANGED <<symrgtbl, freerg, areaVars, mmvm_lock, mpc, call, newrg, wild>>

(* The node is larger than asked for: cut the region off its front, commit *)
(* it to the symbol and return.                                            *)
ScanSplit(p) ==
  LET rg == Region(Node(p).rg_start, Node(p).rg_start + call[p].size)
  IN /\ AtNode(p)
     /\ Size(Node(p)) > call[p].size
     /\ freerg' = [freerg EXCEPT ![p][rgit[p]].rg_start = @ + call[p].size]
     /\ SetSymbol(p, call[p].rgid, rg)
     /\ Follow(p, call[p].rgid \notin Symbols)
     /\ Return(p)
     /\ UNCHANGED areaVars

(* Mutation: the node is not unlinked.                                     *)
ScanExact_NoUnlink(p) ==
  /\ AtNode(p)
  /\ Size(Node(p)) = call[p].size
  /\ newrg' = [newrg EXCEPT ![p] = Node(p)]
  /\ UNCHANGED <<symrgtbl, freerg, areaVars, mmvm_lock, mpc, call, rgit, wild>>

(* The node fits exactly: it is the result so far, its successor takes its *)
(* place (or it stays, empty, if it was the last) and the search goes on   *)
(* at the same place.                                                      *)
ScanExact(p) ==
  LET last == Len(freerg[p])
      k == rgit[p]
  IN /\ AtNode(p)
     /\ Size(Node(p)) = call[p].size
     /\ newrg' = [newrg EXCEPT ![p] = Node(p)]
     /\ freerg' = [freerg EXCEPT ![p] =
          IF k < last
          THEN [n \in 1..last - 1 |-> IF n < k THEN @[n] ELSE @[n + 1]]
          ELSE [@ EXCEPT ![k] = Region(Node(p).rg_end, Node(p).rg_end)]]
     /\ UNCHANGED <<symrgtbl, areaVars, mmvm_lock, mpc, call, rgit, wild>>

(* The search is over and has a result: commit it and return.              *)
ScanFound(p) ==
  /\ Scanning(p)
  /\ ~AtNode(p)
  /\ newrg[p] # NoRegion
  /\ SetSymbol(p, call[p].rgid, newrg[p])
  /\ Follow(p, call[p].rgid \notin Symbols)
  /\ Return(p)
  /\ UNCHANGED <<freerg, areaVars>>

(* The free list has nothing: take the region at the break.  If the gap    *)
(* below the limit is too small the limit is increased first, and whether  *)
(* that worked is not looked at.                                           *)
Grow(p) ==
  LET size == call[p].size
      inc_sz == PAGING_PAGE_ALIGNSZ(size)
      fits == vm_end[p] - sbrk[p] >= size
  IN /\ Scanning(p)
     /\ ~AtNode(p)
     /\ newrg[p] = NoRegion
     /\ IF fits
        THEN /\ sbrk' = [sbrk EXCEPT ![p] = @ + size]
             /\ UNCHANGED <<vm_end, pgd, fifo_pgn, free_fp>>
        ELSE /\ inc_vma_limit(p, inc_sz)
             /\ sbrk' = [sbrk EXCEPT ![p] = @ + inc_sz + size]
     /\ SetSymbol(p, call[p].rgid, Region(sbrk[p], sbrk[p] + size))
     /\ Follow(p, \/ call[p].rgid \notin Symbols
                  \/ ~fits /\ PassesTable(p, inc_sz))
     /\ Return(p)
     /\ UNCHANGED freerg
------------------------------------------------------------------------------
(* Mutation: the symbol keeps its region, so that a second free puts it in *)
(* the list again.                                                         *)
Free_KeepsSymbol(p, rgid) ==
  LET rg == symrgtbl[p][rgid]
  IN /\ mpc[p] = "idle"
     /\ p \notin wild
     /\ rgid \in Symbols
     /\ freerg' = [freerg EXCEPT ![p] =
                      IF rg.rg_start >= rg.rg_end THEN @ ELSE <<rg>> \o @]
     /\ UNCHANGED <<symrgtbl, areaVars, scanVars, wild>>

(* __free: the symbol has no region any more; a region that is not empty   *)
(* goes to the head of the free list.                                      *)
Free(p, rgid) ==
  /\ mpc[p] = "idle"
  /\ p \notin wild
  /\ ValidRgId(rgid)
  /\ IF rgid \in Symbols
     THEN LET rg == symrgtbl[p][rgid]
          IN freerg' = [freerg EXCEPT ![p] =
                          IF rg.rg_start >= rg.rg_end THEN @ ELSE <<rg>> \o @]
     ELSE UNCHANGED freerg
  /\ SetSymbol(p, rgid, NoRegion)
  /\ Follow(p, rgid \notin Symbols)
  /\ UNCHANGED <<areaVars, scanVars>>

(* sys_memmap with SYSMEM_INC_OP: inc_vma_limit, with no lock.             *)
MemmapInc(p, sz) ==
  /\ mpc[p] = "idle"
  /\ p \notin wild
  /\ inc_vma_limit(p, sz)
  /\ Follow(p, PassesTable(p, sz))
  /\ sbrk' = [sbrk EXCEPT ![p] = @ + PAGING_PAGE_ALIGNSZ(sz)]
  /\ UNCHANGED <<symrgtbl, freerg, scanVars>>

AllocStep(p) ==
  ScanSkip(p) \/ ScanSplit(p) \/ ScanExact(p) \/ ScanFound(p) \/ Grow(p)

CallStep(p) ==
  \/ \E rgid \in RgIds, size \in Sizes : AllocEnter(p, rgid, size)
  \/ \E rgid \in RgIds : Free(p, rgid)
  \/ \E sz \in Sizes : MemmapInc(p, sz)

Next == \E p \in Procs : AllocStep(p) \/ CallStep(p)

Spec == Init /\ [][Next]_regionVars

(* A thread inside __alloc keeps running.                                  *)
FairSpec == Spec /\ \A p \in Procs : WF_regionVars(AllocStep(p))
------------------------------------------------------------------------------
(* Properties.                                                             *)

(* The regions of process p: those of its symbols, the nodes of its free   *)
(* list, and the one an allocation has taken and not yet committed.        *)
Owned(p) ==
  [o \in {<<"symbol", r>> : r \in Symbols}
         \cup {<<"free", n>> : n \in 1..Len(freerg[p])}
         \cup {<<"taken", 0>>} |->
     IF o[1] = "symbol" THEN symrgtbl[p][o[2]]
     ELSE IF o[1] = "free" THEN freerg[p][o[2]]
     ELSE newrg[p]]

(* Two regions of a process never share an address: no byte belongs to two *)
(* variables, or to a variable and to the free list, whatever sequence of  *)
(* allocations, frees and double frees led there.                          *)
RegionsDisjoint ==
  \A p \in Procs : \A a, b \in DOMAIN Owned(p) :
    LET x == Owned(p)[a]
        y == Owned(p)[b]
    IN a # b => \/ Size(x) <= 0 \/ Size(y) <= 0
                \/ x.rg_end <= y.rg_start \/ y.rg_end <= x.rg_start

(* Page pg of process p is in a frame of RAM.                              *)
Resident(p, pg) ==
  PAGING_PAGE_PRESENT(pgd[p][pg]) /\ ~pgd[p][pg].swapped

(* Where a frame of RAM is used: a place in the free list, or a page that  *)
(* is not in the swap area.                                                *)
FrameUses(f) ==
  {<<"free", n>> : n \in {m \in 1..Len(free_fp) : free_fp[m] = f}}
  \cup {u \in Procs \X Pages :
          Resident(u[1], u[2]) /\ PAGING_FPN(pgd[u[1]][u[2]]) = f}

(* The allocator gives a frame to one page: no frame is used by two pages, *)
(* or by a page while it is in the free list, whatever sequence of alloc,  *)
(* free and memmap calls took the frames, also after one for which RAM was *)
(* too small.  Nothing is accessed here; page faults are in Paging.        *)
FrameExclusive ==
  \A f \in Frames : \A u, v \in FrameUses(f) : u = v

(* FIFO replacement can find every page: the list holds each mapped page   *)
(* exactly once, all of them below the limit.                              *)
FifoMatches ==
  \A p \in Procs :
    /\ \A m, n \in 1..Len(fifo_pgn[p]) :
         fifo_pgn[p][m] = fifo_pgn[p][n] => m = n
    /\ \A pg \in Pages :
         /\ PAGING_PAGE_PRESENT(pgd[p][pg]) <=>
              \E n \in 1..Len(fifo_pgn[p]) : fifo_pgn[p][n] = pg
         /\ PAGING_PAGE_PRESENT(pgd[p][pg]) => pg * PAGESZ < vm_end[p]

NoPageOut == \A p \in Procs : \A pg \in Pages : ~pgd[p][pg].swapped

(* Until RAM has run out, a page has been swapped out or a process is wild *)
(* no frame is lost: each one is free or mapped.                           *)
FramesConserved ==
  free_fp # <<>> /\ NoPageOut /\ wild = {} =>
    \A f \in Frames : FrameUses(f) # {}

(* __alloc returns and unlocks, however the free list looks.               *)
AllocReturns == \A p \in Procs : Scanning(p) ~> ~Scanning(p)

(* mm-vm.c, "increase vm area limits to reserve space for new variable":   *)
(* the region of a symbol lies below the limit of the area.                *)
RegionsMapped ==
  \A p \in Procs : \A r \in Symbols : symrgtbl[p][r].rg_end <= vm_end[p]

(* libmem.c, "Manage the collect freed region to freerg_list": an          *)
(* allocation loses nothing of what was collected; after each step of its  *)
(* search a region that was free or taken is in the free list, taken, or   *)
(* committed to a symbol.                                                  *)
NoRegionLost ==
  [][\A p \in Procs : \A o \in DOMAIN Owned(p) :
       Scanning(p) /\ o[1] # "symbol" /\ Size(Owned(p)[o]) > 0 =>
         \E n \in DOMAIN Owned(p)' :
           /\ Owned(p)'[n].rg_start <= Owned(p)[o].rg_start
           /\ Owned(p)[o].rg_start < Owned(p)'[n].rg_end]_regionVars
==============================================================================
