-------------------------------- MODULE Paging --------------------------------
(***************************************************************************)
(* Reading and writing memory (libread and libwrite down to the bytes of   *)
(* RAM), with demand paging to the active swap area, on top of the         *)
(* allocator of Regions, and the operations of memmap on physical memory.  *)
(* One access is one step.  That is exact for one CPU, where two accesses  *)
(* are never under way at once; what several CPUs do to a free frame list  *)
(* that no lock guards is in FrameList.                                    *)
(*                                                                         *)
(* An access outside the storage of RAM, or a page-out with no free swap   *)
(* frame (which uses an uninitialised frame number), is a wild step: the   *)
(* process is not followed further.                                        *)
(***************************************************************************)
EXTENDS Regions

CONSTANTS
  NumSwap,      \* frames of the active swap area
  Vals,         \* the values of a byte
  Zero,         \* what init_memphy fills the storage with
  Unset,        \* no value has been written
  Offsets,      \* the offsets that programs use
  StayInside    \* programs touch only bytes of their own regions

ASSUME PagingAssumption ==
  /\ NumSwap \in 0..SwpOffRange
  /\ Zero \in Vals
  /\ Unset \notin Vals
  /\ Offsets \subseteq Nat
  /\ StayInside \in BOOLEAN

VARIABLES
  ram, mswp,    \* the storage of RAM and of the swap area, by frame
  free_swp,     \* active_mswp->free_fp_list
  shadow        \* history: the last value written at each virtual address

pagingVars == <<regionVars, ram, mswp, free_swp, shadow>>

SwapFrames == 0..NumSwap - 1
Cells == 0..PAGESZ - 1
Addrs == 0..MAX_PGN * PAGESZ - 1

PagingTypeOK ==
  /\ TypeOK
  /\ ram \in [Frames -> [Cells -> Vals]]
  /\ mswp \in [SwapFrames -> [Cells -> Vals]]
  /\ free_swp \in Seq(SwapFrames)
  /\ shadow \in [Procs -> [Addrs -> Vals \cup {Unset}]]

PagingInit ==
  /\ Init
  /\ ram = [f \in Frames |-> [c \in Cells |-> Zero]]
  /\ mswp = [f \in SwapFrames |-> [c \in Cells |-> Zero]]
  /\ free_swp = MEMPHY_format(NumSwap)
  /\ shadow = [p \in Procs |-> [a \in Addrs |-> Unset]]
------------------------------------------------------------------------------
(* What an access to memory by process p reads and changes.                *)
Memory(p) == [ram |-> ram, mswp |-> mswp, free_swp |-> free_swp,
              pgd |-> pgd[p], fifo_pgn |-> fifo_pgn[p], wild |-> FALSE]

(* A step of process p that leaves its memory as m.                        *)
Becomes(p, m) ==
  /\ ram' = m.ram
  /\ mswp' = m.mswp
  /\ free_swp' = m.free_swp
  /\ pgd' = [pgd EXCEPT ![p] = m.pgd]
  /\ fifo_pgn' = [fifo_pgn EXCEPT ![p] = m.fifo_pgn]
  /\ wild' = IF m.wild THEN wild \cup {p} ELSE wild
  /\ UNCHANGED <<symrgtbl, freerg, vm_end, sbrk, free_fp, scanVars>>

(* find_victim_page: the page at the tail of the list, the first mapped.   *)
find_victim_page(m) == m.fifo_pgn[Len(m.fifo_pgn)]

(* __swap_cp_page: device mpdst after frame srcfpn of mpsrc was copied to  *)
(* its frame dstfpn, byte by byte.                                         *)
swap_cp_page(mpsrc, srcfpn, mpdst, dstfpn) ==
  [mpdst EXCEPT ![dstfpn] = mpsrc[srcfpn]]

(* MEMPHY_write to a random access device, at an offset in frame fpn.      *)
MEMPHY_write(mp, fpn, off, data) == [mp EXCEPT ![fpn][off] = data]

(* Mutation: the swap frame stays in the free list.                        *)
SwapIn_KeepsFree(m, pgn) ==
  LET vicpgn == find_victim_page(m)
      vicfpn == PAGING_FPN(m.pgd[vicpgn])
      swpfpn == Head(m.free_swp)
      tgtfpn == PAGING_PTE_SWP(m.pgd[pgn])
      out == swap_cp_page(m.ram, vicfpn, m.mswp, swpfpn)
      swapped == [m.pgd EXCEPT ![vicpgn] = pte_set_swap(@, 0, swpfpn)]
      mapped == [swapped EXCEPT ![pgn] = pte_set_fpn(@, vicfpn)]
  IN [m EXCEPT !.mswp = out,
               !.ram = swap_cp_page(out, tgtfpn, @, vicfpn),
               !.pgd = mapped,
               !.fifo_pgn = <<pgn>> \o SubSeq(@, 1, Len(@) - 1)]

(* Mutation: the page that comes in is not entered in the list.            *)
SwapIn_NotListed(m, pgn) ==
  LET vicpgn == find_victim_page(m)
      vicfpn == PAGING_FPN(m.pgd[vicpgn])
      swpfpn == Head(m.free_swp)
      tgtfpn == PAGING_PTE_SWP(m.pgd[pgn])
      out == swap_cp_page(m.ram, vicfpn, m.mswp, swpfpn)
      swapped == [m.pgd EXCEPT ![vicpgn] = pte_set_swap(@, 0, swpfpn)]
      mapped == [swapped EXCEPT ![pgn] = pte_set_fpn(@, vicfpn)]
  IN [m EXCEPT !.mswp = out,
               !.ram = swap_cp_page(out, tgtfpn, @, vicfpn),
               !.free_swp = Tail(@),
               !.pgd = mapped,
               !.fifo_pgn = SubSeq(@, 1, Len(@) - 1)]

(* The victim goes to a free swap frame; the content of the swap frame     *)
(* that the entry of pgn names (frame 0 for an entry that was never set)   *)
(* comes to the victim's frame of RAM; both entries and the list follow.   *)
SwapIn(m, pgn) ==
  LET vicpgn == find_victim_page(m)
      vicfpn == PAGING_FPN(m.pgd[vicpgn])
      swpfpn == Head(m.free_swp)
      tgtfpn == PAGING_PTE_SWP(m.pgd[pgn])
      out == swap_cp_page(m.ram, vicfpn, m.mswp, swpfpn)
      swapped == [m.pgd EXCEPT ![vicpgn] = pte_set_swap(@, 0, swpfpn)]
      mapped == [swapped EXCEPT ![pgn] = pte_set_fpn(@, vicfpn)]
  IN [m EXCEPT !.mswp = out,
               !.ram = swap_cp_page(out, tgtfpn, @, vicfpn),
               !.free_swp = Tail(@),
               !.pgd = mapped,
               !.fifo_pgn = <<pgn>> \o SubSeq(@, 1, Len(@) - 1)]

(* pg_getpage: the memory once page pgn is in RAM.  It fails, and changes  *)
(* nothing, when the page is not present and there is no victim.           *)
pg_getpage(m, pgn) ==
  IF PAGING_PAGE_PRESENT(m.pgd[pgn]) \/ m.fifo_pgn = <<>>
  THEN m
  ELSE IF \/ m.free_swp = <<>>
          \/ PAGING_FPN(m.pgd[find_victim_page(m)]) \notin Frames
  THEN [m EXCEPT !.wild = TRUE]
  ELSE SwapIn(m, pgn)

(* Mutation: the frame is looked up by the page number.                    *)
pg_setval_NoTranslation(m, addr, val) ==
  IF PAGING_PAGE_PRESENT(m.pgd[PAGING_PGN(addr)])
  THEN [m EXCEPT !.ram[PAGING_PGN(addr) % NumFrames][addr % PAGESZ] = val]
  ELSE m

(* pg_setval: the byte is stored in the frame that the entry names.        *)
pg_setval(m, addr, val) ==
  LET n == pg_getpage(m, PAGING_PGN(addr))
      pte == n.pgd[PAGING_PGN(addr)]
  IN IF n.wild \/ ~PAGING_PAGE_PRESENT(pte) THEN n
     ELSE IF PAGING_FPN(pte) \notin Frames THEN [n EXCEPT !.wild = TRUE]
     ELSE [n EXCEPT !.ram = MEMPHY_write(@, PAGING_FPN(pte), addr % PAGESZ, val)]
------------------------------------------------------------------------------
(* The virtual address of an access; it wraps at the width of the bus.     *)
Address(p, rgid, offset) ==
  (symrgtbl[p][rgid].rg_start + offset) % (MAX_PGN * PAGESZ)

(* What the programs of this instance may touch.                           *)
MayTouch(p, rgid, offset) ==
  /\ mpc[p] = "idle"
  /\ p \notin wild
  /\ rgid \in Symbols
  /\ StayInside => offset < Size(symrgtbl[p][rgid])

(* libread: the page is brought to RAM and its byte is returned.           *)
Read(p, rgid, offset) ==
  /\ MayTouch(p, rgid, offset)
  /\ Becomes(p, pg_getpage(Memory(p), PAGING_PGN(Address(p, rgid, offset))))
  /\ UNCHANGED shadow

(* libwrite.                                                               *)
Write(p, rgid, offset, val) ==
  /\ MayTouch(p, rgid, offset)
  /\ Becomes(p, pg_setval(Memory(p), Address(p, rgid, offset), val))
  /\ shadow' = [shadow EXCEPT ![p][Address(p, rgid, offset)] = val]

(* What a process may hand to memmap, which takes physical addresses: in   *)
(* this instance a frame of its own.                                       *)
MayMemmap(p, pg) ==
  /\ mpc[p] = "idle"
  /\ p \notin wild
  /\ Resident(p, pg)

(* sys_memmap with SYSMEM_SWP_OP: __mm_swap_page copies the frame to a     *)
(* frame of the swap area; no entry and no list follows.  Only free swap   *)
(* frames are named.                                                       *)
MemmapSwap(p, pg, swpfpn) ==
  /\ MayMemmap(p, pg)
  /\ \E n \in 1..Len(free_swp) : free_swp[n] = swpfpn
  /\ mswp' = swap_cp_page(ram, PAGING_FPN(pgd[p][pg]), mswp, swpfpn)
  /\ UNCHANGED <<regionVars, ram, free_swp, shadow>>

(* sys_memmap with SYSMEM_IO_WRITE: MEMPHY_write at a physical address.    *)
MemmapWrite(p, pg, offset, val) ==
  /\ MayMemmap(p, pg)
  /\ ram' = MEMPHY_write(ram, PAGING_FPN(pgd[p][pg]), offset, val)
  /\ shadow' = [shadow EXCEPT ![p][pg * PAGESZ + offset] = val]
  /\ UNCHANGED <<regionVars, mswp, free_swp>>

AccessStep(p) ==
  \/ \E rgid \in RgIds, offset \in Offsets :
       \/ Read(p, rgid, offset)
       \/ \E val \in Vals : Write(p, rgid, offset, val)
  \/ \E pg \in Pages :
       \/ \E swpfpn \in SwapFrames : MemmapSwap(p, pg, swpfpn)
       \/ \E offset \in Offsets \cap Cells, val \in Vals :
            MemmapWrite(p, pg, offset, val)

PagingNext ==
  \E p \in Procs :
    \/ (AllocStep(p) \/ CallStep(p)) /\ UNCHANGED <<ram, mswp, free_swp, shadow>>
    \/ AccessStep(p)

PagingSpec == PagingInit /\ [][PagingNext]_pagingVars
------------------------------------------------------------------------------
(* Properties.                                                             *)

(* What a read of address a by process p returns, when its page is         *)
(* present; Unset for a byte outside the storage of RAM.                   *)
Seen(p, a) ==
  LET fpn == PAGING_FPN(pgd[p][PAGING_PGN(a)])
  IN IF fpn \in Frames THEN ram[fpn][a % PAGESZ] ELSE Unset

(* libmem.c, "Get the page to MEMRAM, swap from MEMSWAP if needed": at     *)
(* every address a process reads the value it last wrote there, whatever   *)
(* the other processes do and however pages move between RAM and swap.     *)
ReadYourWrites ==
  \A p \in Procs \ wild : \A a \in Addrs :
    /\ shadow[p][a] # Unset
    /\ PAGING_PAGE_PRESENT(pgd[p][PAGING_PGN(a)])
    => Seen(p, a) = shadow[p][a]

(* The same as long as no page has been swapped out: alone in RAM, a       *)
(* process reads what it wrote, and never what another one wrote, also     *)
(* where a region lies on pages that were never mapped, and when memmap    *)
(* writes to the frames behind the page table's back.                      *)
ReadsBeforePageOut == NoPageOut => ReadYourWrites

(* A frame of the swap area holds at most one page, of one of the          *)
(* processes, and none while it is free: no page-out overwrites another    *)
(* page that is out.                                                       *)
SwapFramesDistinct ==
  LET Out == {u \in Procs \X Pages : pgd[u[1]][u[2]].swapped}
      At(u) == PAGING_PTE_SWP(pgd[u[1]][u[2]])
  IN /\ \A u, v \in Out : At(u) = At(v) => u = v
     /\ \A u \in Out : \A n \in 1..Len(free_swp) : free_swp[n] # At(u)

(* No frame of the swap area is lost: each one is free or holds a page     *)
(* that is out.                                                            *)
SwapConserved ==
  \A s \in SwapFrames :
    \/ \E n \in 1..Len(free_swp) : free_swp[n] = s
    \/ \E u \in Procs \X Pages :
         pgd[u[1]][u[2]].swapped /\ PAGING_PTE_SWP(pgd[u[1]][u[2]]) = s

(* No frame of RAM is used twice, however pages are swapped, until a swap  *)
(* frame has been lost.  pg_getpage loses one when it pages out a page     *)
(* that is out already (a page that came in above the limit is listed      *)
(* twice once the area has grown over it), and then takes the low bits of  *)
(* its swap offset for the number of its frame.                            *)
ExclusiveUntilSwapLost == SwapConserved => FrameExclusive

(* Every page that is in RAM can be found as a victim, also after pages    *)
(* have been swapped: it is in the list of find_victim_page.               *)
ResidentListed ==
  \A p \in Procs \ wild : \A pg \in Pages :
    Resident(p, pg) =>
      \E n \in 1..Len(fifo_pgn[p]) : fifo_pgn[p][n] = pg
==============================================================================
