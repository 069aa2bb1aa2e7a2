----------------------------- MODULE PagingProofs -----------------------------
(***************************************************************************)
(* Paging, for every number of processes and frames, every page size and   *)
(* swap area: what survives page-outs in any order.                        *)
(*                                                                         *)
(* The step relation is first reduced to four cases (PagingCases): the     *)
(* tables stay, the area of a process grows (Grows of RegionsProofs), its  *)
(* limit passes the page table (Passes), or a page fault moves the tail of *)
(* the FIFO list out and one page in (SwapStep, the only thing that        *)
(* pg_getpage does to the tables). The inductive invariant PagingInv then  *)
(* consists of parts that each need only the ones before:                  *)
(*                                                                         *)
(* TableInv, what the tables satisfy always; SwapInv, a swap frame has one *)
(* page; FrameInv, a frame of RAM has one user as long as no swap frame is *)
(* lost; CalmInv, ConservedInv and MappedInv, which hold as long as no     *)
(* page below the limit is out, a condition that the absence of page-outs  *)
(* implies and, unlike it, that no step can restore (CalmSticky);          *)
(* DisjointInv of RegionsProofs and HeapInv. ReadInv, about the bytes, is  *)
(* proved on top of them.                                                  *)
(***************************************************************************)
EXTENDS Paging, RegionsProofs
------------------------------------------------------------------------------
(* Tables, bytes and lists.                                                *)

(* Page pg is in the swap area.                                            *)
Out(p, pg) == pgd[p][pg].swapped

(* The swap frame in the entry of page pg.                                 *)
SwpOf(p, pg) == PAGING_PTE_SWP(pgd[p][pg])

(* Swap frame s is in the free list of the device.                         *)
FreeSwap(s) == \E n \in 1..Len(free_swp) : free_swp[n] = s

(* The types of the devices and of the values last written.                *)
DataType ==
  /\ ram \in [Frames -> [Cells -> Vals]]
  /\ mswp \in [SwapFrames -> [Cells -> Vals]]
  /\ free_swp \in Seq(SwapFrames)
  /\ shadow \in [Procs -> [Addrs -> Vals \cup {Unset}]]

(* An entry is present, or it was never set: nothing clears the bit.       *)
Untouched ==
  \A p \in Procs : \A pg \in Pages : Present(p, pg) \/ pgd[p][pg] = NoPTE

(* A listed page is present, in RAM or out.                                *)
ListedPresent ==
  \A p \in Procs : \A n \in 1..Len(fifo_pgn[p]) : Present(p, fifo_pgn[p][n])

(* A page in RAM is listed.                                                *)
AllListed == \A p \in Procs : \A pg \in Pages : Resident(p, pg) => Listed(p, pg)

(* What the tables satisfy always, page-outs of any page included.         *)
TableInv ==
  /\ TypeInv /\ DataType
  /\ Untouched /\ ListedPresent /\ AllListed
  /\ FreeDistinct /\ FramesInRange

(* The free list of the swap area holds no frame twice.                    *)
FreeSwapDistinct ==
  \A m, n \in 1..Len(free_swp) : free_swp[m] = free_swp[n] => m = n

(* A swap frame holds at most one page, and none while it is free.         *)
SwapInv ==
  /\ FreeSwapDistinct
  /\ \A p \in Procs : \A pg \in Pages : Out(p, pg) => SwpOf(p, pg) \in SwapFrames /\ ~FreeSwap(SwpOf(p, pg))
  /\ \A p, q \in Procs : \A pg, ph \in Pages :
       Out(p, pg) /\ Out(q, ph) /\ SwpOf(p, pg) = SwpOf(q, ph) => p = q /\ pg = ph

(* No swap frame is lost: SwapConserved, in terms of this module.          *)
SwapKept ==
  \A s \in SwapFrames :
    FreeSwap(s) \/ \E p \in Procs, pg \in Pages : Out(p, pg) /\ SwpOf(p, pg) = s

(* A frame of RAM has one user, as long as no swap frame is lost.          *)
FrameInv == SwapKept => FramesSole

(* No page of p below its limit is out.                                    *)
Calm(p) == \A pg \in Pages : pg < Limit(p) => ~Out(p, pg)

(* No process has a page below its limit that is out.                      *)
AllCalm == \A p \in Procs : Calm(p)

(* As long as nothing below the limit is out, the FIFO list is exact and   *)
(* frames have one user.                                                   *)
CalmInv ==
  /\ \A p \in Procs : Calm(p) => FifoInv(p)
  /\ AllCalm => FramesSole

(* Frame f is free or mapped.                                              *)
Used(f) ==
  \/ \E n \in 1..Len(free_fp) : free_fp[n] = f
  \/ \E p \in Procs, pg \in Pages : Resident(p, pg) /\ Fpn(p, pg) = f

(* As long as RAM has frames, nothing below a limit is out and no process  *)
(* is wild, no frame is lost.                                              *)
ConservedInv == free_fp # <<>> /\ AllCalm /\ wild = {} => \A f \in Frames : Used(f)

(* An area without pages has its break at 0.                               *)
HeapInv == \A p \in Procs : vm_end[p] = 0 => sbrk[p] = 0

(* As long as RAM has frames and nothing is out, the area of a process     *)
(* that is not wild is mapped up to its limit.                             *)
MappedInv ==
  AllCalm /\ free_fp # <<>> =>
    \A p \in Procs \ wild : \A pg \in Pages : pg < Limit(p) => Present(p, pg)

(* A byte that was written is in the frame of its page; if the page is not *)
(* present, RAM has run out of frames and the page will never be mapped.   *)
ReadOf(p, a) ==
  shadow[p][a] # Unset =>
    IF Present(p, PAGING_PGN(a)) THEN Seen(p, a) = shadow[p][a] ELSE free_fp = <<>>

(* As long as nothing below the limit is out, this holds of every byte of  *)
(* a process that has not made a wild access.                              *)
ReadInv ==
  AllCalm =>
    \A p \in Procs \ wild : \A a \in Addrs : ReadOf(p, a)
------------------------------------------------------------------------------
(* What a page fault does.                                                 *)

(* The page that find_victim_page returns.                                 *)
Victim(p) == fifo_pgn[p][Len(fifo_pgn[p])]

(* The page table of p after the victim's entry was set to swap.           *)
SwappedPgd(p) == [pgd[p] EXCEPT ![Victim(p)] = pte_set_swap(@, 0, Head(free_swp))]

(* And after the entry of the page that comes in was set.                  *)
MappedPgd(p, pgn) == [SwappedPgd(p) EXCEPT ![pgn] = pte_set_fpn(@, Fpn(p, Victim(p)))]

(* The swap device after the victim was copied out.                        *)
OutDevice(p) == [mswp EXCEPT ![Head(free_swp)] = ram[Fpn(p, Victim(p))]]

(* pg_getpage swaps: the page is not present, there is a victim in a frame *)
(* of RAM, and a free swap frame.                                          *)
CanSwap(p, pgn) ==
  /\ ~Present(p, pgn) /\ fifo_pgn[p] # <<>> /\ free_swp # <<>>
  /\ Fpn(p, Victim(p)) \in Frames

(* Memory m is that of p, unchanged.                                       *)
KeptBy(p, m) ==
  /\ m.pgd = pgd[p] /\ m.fifo_pgn = fifo_pgn[p] /\ m.free_swp = free_swp
  /\ m.ram = ram /\ m.mswp = mswp

(* Memory m is that of p after one swap for page pgn.                      *)
SwappedBy(p, pgn, m) ==
  /\ CanSwap(p, pgn)
  /\ m.pgd = MappedPgd(p, pgn)
  /\ m.fifo_pgn = <<pgn>> \o SubSeq(fifo_pgn[p], 1, Len(fifo_pgn[p]) - 1)
  /\ m.free_swp = Tail(free_swp)
  /\ m.mswp = OutDevice(p)
  /\ m.ram = [ram EXCEPT ![Fpn(p, Victim(p))] = OutDevice(p)[SwpOf(p, pgn)]]
  /\ m.wild = FALSE

(* The fields of the memory that p works on.                               *)
LEMMA MemoryFields ==
  ASSUME NEW p \in Procs
  PROVE  /\ Memory(p).ram = ram /\ Memory(p).mswp = mswp /\ Memory(p).free_swp = free_swp
         /\ Memory(p).pgd = pgd[p] /\ Memory(p).fifo_pgn = fifo_pgn[p] /\ Memory(p).wild = FALSE
  BY DEF Memory

(* pg_getpage changes nothing or makes one swap; when it changes nothing,  *)
(* the access is wild, the page is present, or the process has no page.    *)
LEMMA GetPageShape ==
  ASSUME NEW p \in Procs, NEW pgn \in Pages
  PROVE  LET m == pg_getpage(Memory(p), pgn)
         IN /\ m.wild \in BOOLEAN
            /\ \/ KeptBy(p, m) /\ (m.wild \/ Present(p, pgn) \/ fifo_pgn[p] = <<>>)
               \/ SwappedBy(p, pgn, m)
  <1> DEFINE m == pg_getpage(Memory(p), pgn)
             bad == [Memory(p) EXCEPT !.wild = TRUE]
             swp == SwapIn(Memory(p), pgn)
  <1>1. /\ bad.ram = ram /\ bad.mswp = mswp /\ bad.free_swp = free_swp
        /\ bad.pgd = pgd[p] /\ bad.fifo_pgn = fifo_pgn[p] /\ bad.wild = TRUE
    BY DEF Memory
  <1>2. /\ swp.pgd = MappedPgd(p, pgn)
        /\ swp.fifo_pgn = <<pgn>> \o SubSeq(fifo_pgn[p], 1, Len(fifo_pgn[p]) - 1)
        /\ swp.free_swp = Tail(free_swp)
        /\ swp.mswp = OutDevice(p)
        /\ swp.ram = [ram EXCEPT ![Fpn(p, Victim(p))] = OutDevice(p)[SwpOf(p, pgn)]]
        /\ swp.wild = FALSE
    BY DEF Memory, SwapIn, MappedPgd, SwappedPgd, OutDevice, SwpOf, Fpn, Victim, find_victim_page, swap_cp_page
  <1>3. find_victim_page(Memory(p)) = Victim(p)
    BY MemoryFields DEF find_victim_page, Victim
  <1> HIDE DEF bad, swp
  <1>4. m = IF Present(p, pgn) \/ fifo_pgn[p] = <<>> THEN Memory(p)
            ELSE IF free_swp = <<>> \/ Fpn(p, Victim(p)) \notin Frames THEN bad ELSE swp
    BY MemoryFields, <1>3 DEF pg_getpage, Present, Fpn, bad, swp
  <1> HIDE DEF m
  <1>5. CASE Present(p, pgn) \/ fifo_pgn[p] = <<>>
    BY <1>4, <1>5, MemoryFields DEF KeptBy, m
  <1>6. CASE ~(Present(p, pgn) \/ fifo_pgn[p] = <<>>) /\ (free_swp = <<>> \/ Fpn(p, Victim(p)) \notin Frames)
    BY <1>4, <1>6, <1>1 DEF KeptBy, m
  <1>7. CASE ~(Present(p, pgn) \/ fifo_pgn[p] = <<>>) /\ ~(free_swp = <<>> \/ Fpn(p, Victim(p)) \notin Frames)
    BY <1>4, <1>7, <1>2 DEF SwappedBy, CanSwap, m
  <1> QED
    BY <1>5, <1>6, <1>7

(* The names of the fields of a memory.                                    *)
MemFields == {"ram", "mswp", "free_swp", "pgd", "fifo_pgn", "wild"}

(* pg_getpage returns a memory with the same fields.                       *)
LEMMA GetPageDomain ==
  ASSUME NEW p \in Procs, NEW pgn \in Pages
  PROVE  DOMAIN pg_getpage(Memory(p), pgn) = MemFields
  <1>1. DOMAIN Memory(p) = MemFields
    BY DEF Memory, MemFields
  <1>2. DOMAIN [Memory(p) EXCEPT !.wild = TRUE] = MemFields
    BY <1>1
  <1>3. DOMAIN SwapIn(Memory(p), pgn) = MemFields
    BY <1>1 DEF SwapIn
  <1> QED
    BY <1>1, <1>2, <1>3 DEF pg_getpage

(* pg_setval is pg_getpage, and then a store to the page's frame if the    *)
(* page is present.                                                        *)
LEMMA SetvalShape ==
  ASSUME NEW p \in Procs, NEW addr \in Addrs, PAGING_PGN(addr) \in Pages, NEW val
  PROVE  LET pgn == PAGING_PGN(addr)
             n == pg_getpage(Memory(p), pgn)
             m == pg_setval(Memory(p), addr, val)
             f == PAGING_FPN(n.pgd[pgn])
         IN /\ m.pgd = n.pgd /\ m.fifo_pgn = n.fifo_pgn /\ m.free_swp = n.free_swp /\ m.mswp = n.mswp
            /\ m.wild \in BOOLEAN /\ (n.wild => m.wild)
            /\ \/ m.ram = n.ram /\ (m.wild \/ ~PAGING_PAGE_PRESENT(n.pgd[pgn]))
               \/ /\ PAGING_PAGE_PRESENT(n.pgd[pgn]) /\ f \in Frames /\ m.wild = FALSE
                  /\ m.ram = MEMPHY_write(n.ram, f, addr % PAGESZ, val)
  <1> DEFINE pgn == PAGING_PGN(addr)
             n == pg_getpage(Memory(p), pgn)
             m == pg_setval(Memory(p), addr, val)
             f == PAGING_FPN(n.pgd[pgn])
  <1>1. DOMAIN n = MemFields /\ n.wild \in BOOLEAN
    BY GetPageDomain, GetPageShape
  <1>2. m = IF n.wild \/ ~PAGING_PAGE_PRESENT(n.pgd[pgn]) THEN n
            ELSE IF f \notin Frames THEN [n EXCEPT !.wild = TRUE]
            ELSE [n EXCEPT !.ram = MEMPHY_write(n.ram, f, addr % PAGESZ, val)]
    BY DEF pg_setval
  <1> HIDE DEF n, m, f, pgn
  <1>3. CASE n.wild \/ ~PAGING_PAGE_PRESENT(n.pgd[pgn])
    BY <1>1, <1>2, <1>3 DEF m, n, f, pgn
  <1>4. CASE ~(n.wild \/ ~PAGING_PAGE_PRESENT(n.pgd[pgn])) /\ f \notin Frames
    <2> DEFINE w == [n EXCEPT !.wild = TRUE]
    <2>1. w.pgd = n.pgd /\ w.fifo_pgn = n.fifo_pgn /\ w.free_swp = n.free_swp /\ w.mswp = n.mswp
          /\ w.ram = n.ram /\ w.wild = TRUE
      BY <1>1 DEF MemFields
    <2>2. m = w
      BY <1>2, <1>4
    <2> HIDE DEF w
    <2> QED
      BY <2>1, <2>2 DEF m, n, f, pgn
  <1>5. CASE ~(n.wild \/ ~PAGING_PAGE_PRESENT(n.pgd[pgn])) /\ f \in Frames
    <2> DEFINE dev == MEMPHY_write(n.ram, f, addr % PAGESZ, val)
               w == [n EXCEPT !.ram = dev]
    <2>2. m = w
      BY <1>2, <1>5
    <2> HIDE DEF dev
    <2>1. w.pgd = n.pgd /\ w.fifo_pgn = n.fifo_pgn /\ w.free_swp = n.free_swp /\ w.mswp = n.mswp
          /\ w.wild = n.wild /\ w.ram = dev
      BY <1>1 DEF MemFields
    <2>3. n.wild = FALSE
      BY <1>1, <1>5
    <2> HIDE DEF w
    <2> QED
      BY <1>5, <2>1, <2>2, <2>3 DEF m, n, f, pgn, dev
  <1> QED
    BY <1>3, <1>4, <1>5

(* An address is its page number and its offset.                           *)
LEMMA PageOfAddress ==
  ASSUME NEW addr \in Addrs
  PROVE  /\ PAGING_PGN(addr) \in Pages
         /\ addr % PAGESZ \in Cells
         /\ addr = PAGING_PGN(addr) * PAGESZ + (addr % PAGESZ)
  <1>1. PAGESZ \in Nat \ {0} /\ MAX_PGN \in Nat \ {0} /\ addr \in Nat /\ addr < MAX_PGN * PAGESZ
    BY RegionsAssumption DEF Addrs
  <1> DEFINE pg == addr \div PAGESZ
  <1>2. pg \in Nat /\ addr % PAGESZ \in 0..PAGESZ - 1 /\ addr = pg * PAGESZ + (addr % PAGESZ)
    BY <1>1, DivMod
  <1>3. PAGING_PGN(addr) = pg % MAX_PGN
    BY DEF PAGING_PGN
  <1> HIDE DEF pg
  <1>4. pg * PAGESZ < MAX_PGN * PAGESZ
    BY <1>1, <1>2
  <1>5. pg < MAX_PGN
    BY <1>1, <1>2, <1>4, MulMono
  <1>6. pg % MAX_PGN = pg
    BY <1>1, <1>2, <1>5
  <1>7. PAGING_PGN(addr) = pg /\ pg \in 0..MAX_PGN - 1
    BY <1>1, <1>2, <1>3, <1>5, <1>6
  <1> QED
    BY <1>2, <1>7 DEF Pages, Cells

(* An access has an address of the bus.                                    *)
LEMMA AddressInRange ==
  ASSUME TypeInv, NEW p \in Procs, NEW rgid \in Symbols, NEW offset \in Nat
  PROVE  Address(p, rgid, offset) \in Addrs
  <1> DEFINE M == MAX_PGN * PAGESZ
             s == symrgtbl[p][rgid].rg_start
  <1>1. M \in Nat \ {0}
    BY RegionsAssumption
  <1>2. s \in Int
    BY DEF TypeInv, TypeOK, Regs
  <1>3. Address(p, rgid, offset) = (s + offset) % M
    BY DEF Address
  <1>4. Addrs = 0..M - 1
    BY DEF Addrs
  <1> HIDE DEF M, s
  <1> QED
    BY <1>1, <1>2, <1>3, <1>4

(* What an access to memory leaves alone.                                  *)
Elsewhere == UNCHANGED <<symrgtbl, freerg, vm_end, sbrk, free_fp, scanVars>>

(* No page moves.                                                          *)
PagesSame == UNCHANGED <<pgd, fifo_pgn, free_swp>>

(* A page fault of p for page pgn.                                         *)
SwapStep(p, pgn) ==
  /\ CanSwap(p, pgn)
  /\ pgd' = [pgd EXCEPT ![p] = MappedPgd(p, pgn)]
  /\ fifo_pgn' = [fifo_pgn EXCEPT ![p] =
                    <<pgn>> \o SubSeq(fifo_pgn[p], 1, Len(fifo_pgn[p]) - 1)]
  /\ free_swp' = Tail(free_swp)
  /\ mswp' = OutDevice(p)

(* RAM after the content for page pgn came to the victim's frame.          *)
Brought(p, pgn) == [ram EXCEPT ![Fpn(p, Victim(p))] = OutDevice(p)[SwpOf(p, pgn)]]

(* The step that leaves process p the memory m.                            *)
LEMMA BecomesShape ==
  ASSUME TypeInv, NEW p \in Procs, NEW m, m.wild \in BOOLEAN, Becomes(p, m)
  PROVE  /\ Elsewhere
         /\ wild \subseteq wild' /\ wild' \subseteq Procs
         /\ m.wild => p \in wild'
         /\ ram' = m.ram
         /\ pgd'[p] = m.pgd
  BY DEF Becomes, Elsewhere, TypeInv, TypeOK

(* If m has the tables of p, no page moves.                                *)
LEMMA BecomesKept ==
  ASSUME TypeInv, NEW p \in Procs, NEW m, Becomes(p, m),
         m.pgd = pgd[p], m.fifo_pgn = fifo_pgn[p], m.free_swp = free_swp, m.mswp = mswp
  PROVE  PagesSame /\ mswp' = mswp
  BY DEF Becomes, PagesSame, TypeInv, TypeOK

(* If m has swapped tables, it is a page fault.                            *)
LEMMA BecomesSwapped ==
  ASSUME NEW p \in Procs, NEW pgn \in Pages, NEW m, Becomes(p, m),
         CanSwap(p, pgn),
         m.pgd = MappedPgd(p, pgn),
         m.fifo_pgn = <<pgn>> \o SubSeq(fifo_pgn[p], 1, Len(fifo_pgn[p]) - 1),
         m.free_swp = Tail(free_swp),
         m.mswp = OutDevice(p)
  PROVE  SwapStep(p, pgn)
  BY DEF Becomes, SwapStep

(* libread moves no page or makes one page fault.                          *)
LEMMA ReadShape ==
  ASSUME TypeInv, NEW p \in Procs, NEW rgid \in RgIds, NEW offset \in Offsets, Read(p, rgid, offset)
  PROVE  /\ Elsewhere /\ wild \subseteq wild' /\ wild' \subseteq Procs /\ shadow' = shadow
         /\ \/ PagesSame /\ mswp' = mswp /\ ram' = ram
            \/ \E pgn \in Pages : SwapStep(p, pgn) /\ ram' = Brought(p, pgn)
  <1> DEFINE addr == Address(p, rgid, offset)
             pgn == PAGING_PGN(addr)
             m == pg_getpage(Memory(p), pgn)
  <1>1. Becomes(p, m) /\ shadow' = shadow /\ rgid \in Symbols
    BY DEF Read, MayTouch
  <1>2. pgn \in Pages
    BY <1>1, AddressInRange, PageOfAddress, PagingAssumption
  <1>3. /\ m.wild \in BOOLEAN
        /\ KeptBy(p, m) \/ SwappedBy(p, pgn, m)
    BY <1>2, GetPageShape
  <1> HIDE DEF m, pgn, addr
  <1>4. Elsewhere /\ wild \subseteq wild' /\ wild' \subseteq Procs /\ ram' = m.ram
    BY <1>1, <1>3, BecomesShape
  <1>5. CASE KeptBy(p, m)
    <2>1. PagesSame /\ mswp' = mswp
      BY <1>1, <1>5, BecomesKept DEF KeptBy
    <2> QED
      BY <1>1, <1>4, <1>5, <2>1 DEF KeptBy
  <1>6. CASE SwappedBy(p, pgn, m)
    <2>1. SwapStep(p, pgn)
      BY <1>1, <1>2, <1>6, BecomesSwapped DEF SwappedBy
    <2>2. ram' = Brought(p, pgn)
      BY <1>4, <1>6 DEF SwappedBy, Brought
    <2> QED
      BY <1>1, <1>2, <1>4, <2>1, <2>2
  <1> QED
    BY <1>3, <1>5, <1>6

(* libwrite moves no page or makes one page fault, and then stores the     *)
(* byte in the frame that the entry names; it does not when the access is  *)
(* wild or the process has no page.                                        *)
LEMMA WriteShape ==
  ASSUME TypeInv, NEW p \in Procs, NEW rgid \in RgIds, NEW offset \in Offsets, NEW val \in Vals,
         Write(p, rgid, offset, val)
  PROVE  LET addr == Address(p, rgid, offset)
             pgn == PAGING_PGN(addr)
             pte == pgd'[p][pgn]
         IN /\ Elsewhere /\ wild \subseteq wild' /\ wild' \subseteq Procs
            /\ rgid \in Symbols /\ addr \in Addrs
            /\ shadow' = [shadow EXCEPT ![p][addr] = val]
            /\ \E base :
                 /\ \/ PagesSame /\ mswp' = mswp /\ base = ram
                    \/ SwapStep(p, pgn) /\ base = Brought(p, pgn)
                 /\ \/ ram' = base /\ (p \in wild' \/ (~PAGING_PAGE_PRESENT(pte) /\ fifo_pgn[p] = <<>>))
                    \/ /\ PAGING_PAGE_PRESENT(pte) /\ PAGING_FPN(pte) \in Frames
                       /\ ram' = MEMPHY_write(base, PAGING_FPN(pte), addr % PAGESZ, val)
  <1> DEFINE addr == Address(p, rgid, offset)
             pgn == PAGING_PGN(addr)
             n == pg_getpage(Memory(p), pgn)
             m == pg_setval(Memory(p), addr, val)
             pte == pgd'[p][pgn]
             base == n.ram
  <1>1. Becomes(p, m) /\ shadow' = [shadow EXCEPT ![p][addr] = val] /\ rgid \in Symbols
    BY DEF Write, MayTouch
  <1>2. addr \in Addrs /\ pgn \in Pages
    BY <1>1, AddressInRange, PageOfAddress, PagingAssumption
  <1>3. /\ n.wild \in BOOLEAN
        /\ \/ KeptBy(p, n) /\ (n.wild \/ Present(p, pgn) \/ fifo_pgn[p] = <<>>)
           \/ SwappedBy(p, pgn, n)
    BY <1>2, GetPageShape
  <1>4. /\ m.pgd = n.pgd /\ m.fifo_pgn = n.fifo_pgn /\ m.free_swp = n.free_swp /\ m.mswp = n.mswp
        /\ m.wild \in BOOLEAN /\ (n.wild => m.wild)
        /\ \/ m.ram = n.ram /\ (m.wild \/ ~PAGING_PAGE_PRESENT(n.pgd[pgn]))
           \/ /\ PAGING_PAGE_PRESENT(n.pgd[pgn]) /\ PAGING_FPN(n.pgd[pgn]) \in Frames /\ m.wild = FALSE
              /\ m.ram = MEMPHY_write(n.ram, PAGING_FPN(n.pgd[pgn]), addr % PAGESZ, val)
    BY <1>2, SetvalShape
  <1> HIDE DEF n, m, pgn, addr
  <1>5. Elsewhere /\ wild \subseteq wild' /\ wild' \subseteq Procs /\ ram' = m.ram
        /\ (m.wild => p \in wild') /\ pte = n.pgd[pgn]
    BY <1>1, <1>4, BecomesShape
  <1>6. SwappedBy(p, pgn, n) => PAGING_PAGE_PRESENT(n.pgd[pgn])
    <2>1. pgd[p] \in [Pages -> PTEs]
      BY DEF TypeInv, TypeOK
    <2>2. MappedPgd(p, pgn)[pgn].present = TRUE
      BY <1>2, <2>1 DEF MappedPgd, SwappedPgd, pte_set_fpn
    <2> QED
      BY <2>2 DEF SwappedBy, PAGING_PAGE_PRESENT
  <1>7. KeptBy(p, n) => (Present(p, pgn) <=> PAGING_PAGE_PRESENT(n.pgd[pgn]))
    BY DEF KeptBy, Present
  <1>8. \/ PagesSame /\ mswp' = mswp /\ base = ram
        \/ SwapStep(p, pgn) /\ base = Brought(p, pgn)
    <2>1. CASE KeptBy(p, n)
      <3>1. PagesSame /\ mswp' = mswp
        BY <1>1, <1>4, <2>1, BecomesKept DEF KeptBy
      <3> QED
        BY <2>1, <3>1 DEF KeptBy
    <2>2. CASE SwappedBy(p, pgn, n)
      <3>1. SwapStep(p, pgn)
        BY <1>1, <1>2, <1>4, <2>2, BecomesSwapped DEF SwappedBy
      <3> QED
        BY <2>2, <3>1 DEF SwappedBy, Brought
    <2> QED
      BY <1>3, <2>1, <2>2
  <1>9. \/ ram' = base /\ (p \in wild' \/ (~PAGING_PAGE_PRESENT(pte) /\ fifo_pgn[p] = <<>>))
        \/ /\ PAGING_PAGE_PRESENT(pte) /\ PAGING_FPN(pte) \in Frames
           /\ ram' = MEMPHY_write(base, PAGING_FPN(pte), addr % PAGESZ, val)
    BY <1>3, <1>4, <1>5, <1>6, <1>7
  <1> HIDE DEF base, pte
  <1>10. \E b :
            /\ \/ PagesSame /\ mswp' = mswp /\ b = ram
               \/ SwapStep(p, pgn) /\ b = Brought(p, pgn)
            /\ \/ ram' = b /\ (p \in wild' \/ (~PAGING_PAGE_PRESENT(pte) /\ fifo_pgn[p] = <<>>))
               \/ /\ PAGING_PAGE_PRESENT(pte) /\ PAGING_FPN(pte) \in Frames
                  /\ ram' = MEMPHY_write(b, PAGING_FPN(pte), addr % PAGESZ, val)
    BY <1>8, <1>9
  <1> QED
    BY <1>1, <1>2, <1>5, <1>10 DEF pte, pgn, addr

(* The page tables after a page fault.                                     *)
Moved(p, pgn) ==
  /\ Victim(p) \in Pages /\ pgn \in Pages /\ Victim(p) # pgn
  /\ Head(free_swp) \in SwapFrames
  /\ pgd' \in [Procs -> [Pages -> PTEs]]
  /\ \A q \in Procs : \A pg \in Pages :
       q # p \/ (pg # Victim(p) /\ pg # pgn) => pgd'[q][pg] = pgd[q][pg]
  /\ pgd'[p][Victim(p)].present /\ pgd'[p][Victim(p)].swapped
  /\ PAGING_PTE_SWP(pgd'[p][Victim(p)]) = Head(free_swp)
  /\ pgd'[p][pgn].present /\ ~pgd'[p][pgn].swapped
  /\ PAGING_FPN(pgd'[p][pgn]) = Fpn(p, Victim(p))

(* A page fault sets two entries: the victim is out, in the first free     *)
(* swap frame; the page is in the victim's frame. They are two pages,      *)
(* since a victim is listed and so present.                                *)
LEMMA SwapPages ==
  ASSUME TableInv, NEW p \in Procs, NEW pgn \in Pages, SwapStep(p, pgn)
  PROVE  Moved(p, pgn)
  <1> DEFINE v == Victim(p)
             h == Head(free_swp)
             f == Fpn(p, v)
             new == MappedPgd(p, pgn)
  <1>1. /\ pgd \in [Procs -> [Pages -> PTEs]] /\ fifo_pgn[p] \in Seq(Pages) /\ fifo_pgn[p] # <<>>
        /\ free_swp \in Seq(SwapFrames) /\ free_swp # <<>> /\ f \in Frames /\ ~Present(p, pgn)
    BY DEF TableInv, TypeInv, TypeOK, DataType, SwapStep, CanSwap
  <1>2. Len(fifo_pgn[p]) \in 1..Len(fifo_pgn[p])
    BY <1>1, EmptySeq, LenProperties
  <1>3. v \in Pages /\ Present(p, v)
    BY <1>1, <1>2, ElementOfSeq DEF Victim, TableInv, ListedPresent
  <1>4. v # pgn
    BY <1>1, <1>3
  <1>5. h \in SwapFrames
    BY <1>1, HeadTailProperties
  <1>6. h \in 0..SwpOffRange - 1
    BY <1>5, PagingAssumption, Widths DEF SwapFrames
  <1>7. f \in 0..FpnRange - 1
    BY <1>1, RegionsAssumption, Widths DEF Frames
  <1> HIDE DEF v, h, f
  <1>8. new = [[pgd[p] EXCEPT ![v] = pte_set_swap(pgd[p][v], 0, h)]
                 EXCEPT ![pgn] = pte_set_fpn(pgd[p][pgn], f)]
    BY <1>1, <1>3, <1>4 DEF MappedPgd, SwappedPgd, v, h, f
  <1>9. /\ pgd[p][v] \in PTEs /\ pgd[p][pgn] \in PTEs
    BY <1>1, <1>3
  <1>10. /\ pte_set_swap(pgd[p][v], 0, h) \in PTEs
         /\ PAGING_PTE_SWP(pte_set_swap(pgd[p][v], 0, h)) = h
         /\ pte_set_swap(pgd[p][v], 0, h).present
         /\ pte_set_swap(pgd[p][v], 0, h).swapped
    BY <1>6, <1>9, SetSwap DEF PAGING_PAGE_PRESENT
  <1>11. /\ pte_set_fpn(pgd[p][pgn], f) \in PTEs
         /\ PAGING_FPN(pte_set_fpn(pgd[p][pgn], f)) = f
         /\ pte_set_fpn(pgd[p][pgn], f).present
         /\ ~pte_set_fpn(pgd[p][pgn], f).swapped
    BY <1>7, <1>9, SetFpn DEF PAGING_PAGE_PRESENT
  <1>12. /\ new \in [Pages -> PTEs]
         /\ new[v] = pte_set_swap(pgd[p][v], 0, h)
         /\ new[pgn] = pte_set_fpn(pgd[p][pgn], f)
         /\ \A pg \in Pages : pg # v /\ pg # pgn => new[pg] = pgd[p][pg]
    BY <1>1, <1>3, <1>4, <1>8, <1>10, <1>11
  <1> HIDE DEF new
  <1>13. pgd' \in [Procs -> [Pages -> PTEs]] /\ pgd'[p] = new /\ \A q \in Procs \ {p} : pgd'[q] = pgd[q]
    BY <1>1, <1>12 DEF SwapStep, new
  <1>14. \A q \in Procs : \A pg \in Pages :
           q # p \/ (pg # v /\ pg # pgn) => pgd'[q][pg] = pgd[q][pg]
    BY <1>12, <1>13
  <1> QED
    BY <1>3, <1>4, <1>5, <1>10, <1>11, <1>12, <1>13, <1>14 DEF Moved, v, h, f

(* A page fault moves the list by one place and puts the page at its head. *)
LEMMA SwapFifo ==
  ASSUME TableInv, NEW p \in Procs, NEW pgn \in Pages, SwapStep(p, pgn)
  PROVE  /\ fifo_pgn' \in [Procs -> Seq(Pages)]
         /\ \A q \in Procs \ {p} : fifo_pgn'[q] = fifo_pgn[q]
         /\ Len(fifo_pgn[p]) \in Nat \ {0}
         /\ Len(fifo_pgn'[p]) = Len(fifo_pgn[p])
         /\ fifo_pgn'[p][1] = pgn
         /\ \A m \in 2..Len(fifo_pgn[p]) : fifo_pgn'[p][m] = fifo_pgn[p][m - 1]
  <1> DEFINE old == fifo_pgn[p]
             k == Len(old)
             rest == SubSeq(old, 1, k - 1)
             new == <<pgn>> \o rest
  <1>1. old \in Seq(Pages) /\ old # <<>> /\ fifo_pgn \in [Procs -> Seq(Pages)]
    BY DEF TableInv, TypeInv, TypeOK, SwapStep, CanSwap
  <1>2. fifo_pgn' = [fifo_pgn EXCEPT ![p] = new]
    BY DEF SwapStep
  <1> HIDE DEF old
  <1>3. k \in Nat \ {0}
    BY <1>1, EmptySeq, LenProperties
  <1>4. \A m \in 1..k - 1 : old[m] \in Pages
    BY <1>1, <1>3, ElementOfSeq
  <1>5. /\ rest \in Seq(Pages) /\ Len(rest) = k - 1
        /\ \A m \in 1..k - 1 : rest[m] = old[m]
    <2>1. /\ rest \in Seq(Pages)
          /\ Len(rest) = IF 1 <= k - 1 THEN k - 1 - 1 + 1 ELSE 0
          /\ \A m \in 1..k - 1 - 1 + 1 : rest[m] = old[1 + m - 1]
      BY <1>1, <1>3, <1>4, SubSeqProperties
    <2> HIDE DEF rest, k
    <2>2. Len(rest) = k - 1
      BY <1>3, <2>1
    <2>3. \A m \in 1..k - 1 : m \in 1..k - 1 - 1 + 1 /\ 1 + m - 1 = m
      BY <1>3
    <2> QED
      BY <2>1, <2>2, <2>3
  <1> HIDE DEF k, rest
  <1>6. <<pgn>> \in Seq(Pages) /\ Len(<<pgn>>) = 1 /\ <<pgn>>[1] = pgn
    OBVIOUS
  <1>7. /\ new \in Seq(Pages) /\ Len(new) = 1 + Len(rest)
        /\ \A m \in 1..1 + Len(rest) : new[m] = IF m <= 1 THEN <<pgn>>[m] ELSE rest[m - 1]
    BY <1>5, <1>6, ConcatProperties
  <1> HIDE DEF new
  <1>8. Len(new) = k /\ new[1] = pgn
    BY <1>3, <1>5, <1>6, <1>7
  <1>9. \A m \in 2..k : new[m] = old[m - 1]
    <2>1. \A m \in 2..k : m \in 1..1 + Len(rest) /\ ~(m <= 1) /\ m - 1 \in 1..k - 1
      BY <1>3, <1>5
    <2> QED
      BY <1>5, <1>7, <2>1
  <1>10. fifo_pgn' \in [Procs -> Seq(Pages)] /\ fifo_pgn'[p] = new
         /\ \A q \in Procs \ {p} : fifo_pgn'[q] = fifo_pgn[q]
    BY <1>1, <1>2, <1>7
  <1> QED
    BY <1>3, <1>8, <1>9, <1>10 DEF k, old

(* A page fault takes the first free swap frame.                           *)
LEMMA SwapList ==
  ASSUME TableInv, NEW p \in Procs, NEW pgn \in Pages, SwapStep(p, pgn)
  PROVE  /\ free_swp' \in Seq(SwapFrames)
         /\ Len(free_swp) \in Nat \ {0}
         /\ Len(free_swp') = Len(free_swp) - 1
         /\ Head(free_swp) = free_swp[1]
         /\ \A n \in 1..Len(free_swp') : free_swp'[n] = free_swp[n + 1] /\ n + 1 \in 1..Len(free_swp)
  <1>1. free_swp \in Seq(SwapFrames) /\ free_swp # <<>> /\ free_swp' = Tail(free_swp)
    BY DEF TableInv, DataType, SwapStep, CanSwap
  <1>2. Len(free_swp) \in Nat \ {0}
    BY <1>1, EmptySeq, LenProperties
  <1>3. /\ free_swp' \in Seq(SwapFrames) /\ Len(free_swp') = Len(free_swp) - 1
        /\ \A n \in 1..Len(free_swp') : free_swp'[n] = free_swp[n + 1]
        /\ Head(free_swp) = free_swp[1]
    BY <1>1, HeadTailProperties
  <1> QED
    BY <1>2, <1>3

(* An entry that was never set names swap frame 0.                         *)
LEMMA NeverSet ==
  /\ NoPTE \in PTEs /\ ~PAGING_PAGE_PRESENT(NoPTE) /\ NoPTE.swapped = FALSE
  /\ PAGING_PTE_SWP(NoPTE) = 0
  <1>1. 0 \div SwpTypRange = 0
    BY SMT DEF SwpTypRange
  <1>2. 0 \in 0..SwpOffRange * SwpTypRange - 1
    BY Widths, Joined
  <1> QED
    BY <1>1, <1>2 DEF NoPTE, PTEs, PAGING_PAGE_PRESENT, PAGING_PTE_SWP

(* A page fault copies frames of the devices' sizes; the page that comes   *)
(* in was never mapped, so it is swap frame 0 that is copied.              *)
LEMMA SwapTypes ==
  ASSUME TableInv, NEW p \in Procs, NEW pgn \in Pages, SwapStep(p, pgn)
  PROVE  /\ OutDevice(p) \in [SwapFrames -> [Cells -> Vals]]
         /\ SwpOf(p, pgn) = 0 /\ 0 \in SwapFrames
         /\ Brought(p, pgn) \in [Frames -> [Cells -> Vals]]
  <1>1. Head(free_swp) \in SwapFrames /\ Fpn(p, Victim(p)) \in Frames
    BY SwapPages DEF SwapStep, CanSwap, Moved
  <1>2. /\ ram \in [Frames -> [Cells -> Vals]] /\ mswp \in [SwapFrames -> [Cells -> Vals]]
    BY DEF TableInv, DataType
  <1>3. OutDevice(p) \in [SwapFrames -> [Cells -> Vals]]
    BY <1>1, <1>2 DEF OutDevice
  <1>4. pgd[p][pgn] = NoPTE
    BY DEF SwapStep, CanSwap, TableInv, Untouched
  <1>5. SwpOf(p, pgn) = 0
    BY <1>4, NeverSet DEF SwpOf
  <1>6. 0 \in SwapFrames
    BY <1>1, PagingAssumption, Widths DEF SwapFrames
  <1> QED
    BY <1>1, <1>2, <1>3, <1>5, <1>6 DEF Brought

(* MEMPHY_write changes one byte.                                          *)
LEMMA WrittenType ==
  ASSUME NEW mp \in [Frames -> [Cells -> Vals]], NEW fpn \in Frames, NEW off \in Cells, NEW val \in Vals
  PROVE  /\ MEMPHY_write(mp, fpn, off, val) \in [Frames -> [Cells -> Vals]]
         /\ MEMPHY_write(mp, fpn, off, val)[fpn][off] = val
         /\ \A f \in Frames, c \in Cells : f # fpn \/ c # off =>
              MEMPHY_write(mp, fpn, off, val)[f][c] = mp[f][c]
  BY DEF MEMPHY_write

(* An access is made outside __alloc and makes no other process wild.      *)
LEMMA AccessWild ==
  ASSUME NEW p \in Procs, AccessStep(p)
  PROVE  wild \subseteq wild' /\ wild' \subseteq wild \cup {p} /\ mpc[p] = "idle"
  BY DEF AccessStep, Read, Write, Becomes, MayTouch, MemmapSwap, MemmapWrite, MayMemmap, regionVars

(* Every access moves no page or makes one page fault.                     *)
LEMMA AccessShape ==
  ASSUME TableInv, NEW p \in Procs, AccessStep(p)
  PROVE  /\ Elsewhere /\ wild \subseteq wild' /\ wild' \subseteq Procs
         /\ PagesSame \/ \E pgn \in Pages : SwapStep(p, pgn)
         /\ DataType'
  <1>0. TypeInv /\ DataType /\ wild \subseteq Procs
    BY DEF TableInv, TypeInv, TypeOK
  <1>1. ASSUME NEW rgid \in RgIds, NEW offset \in Offsets, Read(p, rgid, offset)
        PROVE  /\ Elsewhere /\ wild \subseteq wild' /\ wild' \subseteq Procs
               /\ PagesSame \/ \E pgn \in Pages : SwapStep(p, pgn)
               /\ DataType'
    <2>1. CASE PagesSame /\ mswp' = mswp /\ ram' = ram
      BY <1>0, <1>1, <2>1, ReadShape DEF DataType, PagesSame
    <2>2. ASSUME NEW pgn \in Pages, SwapStep(p, pgn), ram' = Brought(p, pgn)
          PROVE  DataType'
      BY <1>0, <1>1, <2>2, ReadShape, SwapTypes, SwapList DEF DataType, SwapStep
    <2> QED
      BY <1>0, <1>1, <2>1, <2>2, ReadShape
  <1>2. ASSUME NEW rgid \in RgIds, NEW offset \in Offsets, NEW val \in Vals, Write(p, rgid, offset, val)
        PROVE  /\ Elsewhere /\ wild \subseteq wild' /\ wild' \subseteq Procs
               /\ PagesSame \/ \E pgn \in Pages : SwapStep(p, pgn)
               /\ DataType'
    <2> DEFINE addr == Address(p, rgid, offset)
               pgn == PAGING_PGN(addr)
               pte == pgd'[p][pgn]
    <2>1. /\ Elsewhere /\ wild \subseteq wild' /\ wild' \subseteq Procs
          /\ addr \in Addrs
          /\ shadow' = [shadow EXCEPT ![p][addr] = val]
      BY <1>0, <1>2, WriteShape
    <2>2. PICK base :
                 /\ \/ PagesSame /\ mswp' = mswp /\ base = ram
                    \/ SwapStep(p, pgn) /\ base = Brought(p, pgn)
                 /\ \/ ram' = base
                    \/ /\ PAGING_FPN(pte) \in Frames
                       /\ ram' = MEMPHY_write(base, PAGING_FPN(pte), addr % PAGESZ, val)
      BY <1>0, <1>2, WriteShape
    <2> HIDE DEF addr
    <2>3. pgn \in Pages /\ addr % PAGESZ \in Cells
      BY <2>1, PageOfAddress
    <2>4. shadow' \in [Procs -> [Addrs -> Vals \cup {Unset}]]
      BY <1>0, <2>1 DEF DataType
    <2> HIDE DEF pgn, pte
    <2>5. /\ base \in [Frames -> [Cells -> Vals]] /\ mswp' \in [SwapFrames -> [Cells -> Vals]]
          /\ free_swp' \in Seq(SwapFrames)
          /\ PagesSame \/ SwapStep(p, pgn)
      <3>1. CASE PagesSame /\ mswp' = mswp /\ base = ram
        BY <1>0, <3>1 DEF DataType, PagesSame
      <3>2. CASE SwapStep(p, pgn) /\ base = Brought(p, pgn)
        BY <2>3, <3>2, SwapTypes, SwapList DEF SwapStep
      <3> QED
        BY <2>2, <3>1, <3>2
    <2>6. ram' \in [Frames -> [Cells -> Vals]]
      BY <2>2, <2>3, <2>5, WrittenType
    <2> QED
      BY <2>1, <2>3, <2>4, <2>5, <2>6 DEF DataType
  <1>3. ASSUME NEW pg \in Pages, NEW swpfpn \in SwapFrames, MemmapSwap(p, pg, swpfpn)
        PROVE  Elsewhere /\ wild' = wild /\ PagesSame /\ DataType'
    <2>1. Elsewhere /\ wild' = wild /\ PagesSame /\ ram' = ram /\ shadow' = shadow
      BY <1>3 DEF MemmapSwap, Elsewhere, PagesSame, regionVars, areaVars
    <2>2. Fpn(p, pg) \in Frames /\ mswp' = [mswp EXCEPT ![swpfpn] = ram[Fpn(p, pg)]]
      BY <1>3 DEF MemmapSwap, MayMemmap, swap_cp_page, Fpn, TableInv, FramesInRange
    <2>3. mswp' \in [SwapFrames -> [Cells -> Vals]]
      BY <1>0, <2>2 DEF DataType
    <2> QED
      BY <1>0, <2>1, <2>3 DEF DataType, PagesSame
  <1>4. ASSUME NEW pg \in Pages, NEW offset \in Offsets \cap Cells, NEW val \in Vals,
               MemmapWrite(p, pg, offset, val)
        PROVE  Elsewhere /\ wild' = wild /\ PagesSame /\ DataType'
    <2>1. Elsewhere /\ wild' = wild /\ PagesSame /\ mswp' = mswp
      BY <1>4 DEF MemmapWrite, Elsewhere, PagesSame, regionVars, areaVars
    <2>2. ram' \in [Frames -> [Cells -> Vals]]
      <3>1. Fpn(p, pg) \in Frames /\ ram' = MEMPHY_write(ram, Fpn(p, pg), offset, val)
        BY <1>4 DEF MemmapWrite, MayMemmap, Fpn, TableInv, FramesInRange
      <3> QED
        BY <1>0, <3>1, WrittenType DEF DataType
    <2>3. shadow' \in [Procs -> [Addrs -> Vals \cup {Unset}]]
      BY <1>0, <1>4 DEF DataType, MemmapWrite
    <2> QED
      BY <1>0, <2>1, <2>2, <2>3 DEF DataType, PagesSame
  <1> QED
    BY <1>0, <1>1, <1>2, <1>3, <1>4 DEF AccessStep
------------------------------------------------------------------------------
(* What the tables satisfy always.                                         *)

(* A page fault keeps TableInv: frames go from page to page.               *)
LEMMA SwapTable ==
  ASSUME TableInv, NEW p \in Procs, NEW pgn \in Pages, SwapStep(p, pgn)
  PROVE  Untouched' /\ ListedPresent' /\ AllListed' /\ FramesInRange'
  <1> DEFINE v == Victim(p)
             k == Len(fifo_pgn[p])
  <1>1. Moved(p, pgn) /\ Fpn(p, v) \in Frames
    BY SwapPages DEF SwapStep, CanSwap
  <1>2. /\ \A q \in Procs \ {p} : fifo_pgn'[q] = fifo_pgn[q]
        /\ k \in Nat \ {0} /\ Len(fifo_pgn'[p]) = k /\ fifo_pgn'[p][1] = pgn
        /\ \A m \in 2..k : fifo_pgn'[p][m] = fifo_pgn[p][m - 1]
    BY SwapFifo
  <1>3. \A m \in 1..k : fifo_pgn[p][m] \in Pages
    BY ElementOfSeq DEF TableInv, TypeInv, TypeOK
  <1>4. \A q \in Procs : \A pg \in Pages : Present(q, pg) \/ (q = p /\ pg \in {v, pgn}) => Present(q, pg)'
    BY <1>1 DEF Moved, Present, PAGING_PAGE_PRESENT
  <1>5. Untouched'
    BY <1>1 DEF TableInv, Untouched, Moved, Present, PAGING_PAGE_PRESENT
  <1>6. ASSUME NEW q \in Procs, NEW n \in 1..Len(fifo_pgn'[q])
        PROVE  Present(q, fifo_pgn[q][n])'
    <2>1. CASE q # p
      <3>1. fifo_pgn'[q] = fifo_pgn[q] /\ Present(q, fifo_pgn[q][n]) /\ fifo_pgn[q][n] \in Pages
        BY <1>2, <1>6, <2>1, ElementOfSeq DEF TableInv, ListedPresent, TypeInv, TypeOK
      <3>2. pgd'[q][fifo_pgn[q][n]] = pgd[q][fifo_pgn[q][n]]
        BY <1>1, <2>1, <3>1 DEF Moved
      <3> QED
        BY <3>1, <3>2 DEF Present
    <2>2. CASE q = p /\ n = 1
      BY <1>1, <1>2, <2>2 DEF Present, Moved, PAGING_PAGE_PRESENT
    <2>3. CASE q = p /\ n # 1
      <3>1. n \in 2..k /\ n - 1 \in 1..k
        BY <1>2, <1>6, <2>3
      <3> DEFINE pg == fifo_pgn[p][n - 1]
      <3>2. pg \in Pages /\ Present(p, pg) /\ fifo_pgn'[q][n] = pg
        BY <1>2, <1>3, <2>3, <3>1 DEF TableInv, ListedPresent
      <3> HIDE DEF pg
      <3>3. pgd'[p][pg].present
        BY <1>1, <3>2 DEF Moved, Present, PAGING_PAGE_PRESENT
      <3> QED
        BY <2>3, <3>2, <3>3 DEF Present, PAGING_PAGE_PRESENT
    <2> QED
      BY <2>1, <2>2, <2>3
  <1>7. ASSUME NEW q \in Procs, NEW pg \in Pages, Resident(q, pg)'
        PROVE  Listed(q, pg)' /\ Fpn(q, pg)' \in Frames
    <2>1. CASE q = p /\ pg = v
      BY <1>1, <1>7, <2>1 DEF Moved, Resident
    <2>2. CASE q = p /\ pg = pgn
      <3>1. 1 \in 1..Len(fifo_pgn'[q]) /\ fifo_pgn'[q][1] = pg
        BY <1>2, <2>2
      <3> QED
        BY <1>1, <2>2, <3>1 DEF Moved, Fpn, Listed
    <2>3. CASE q # p \/ (pg # v /\ pg # pgn)
      <3>1. pgd'[q][pg] = pgd[q][pg]
        BY <1>1, <2>3 DEF Moved
      <3>2. Resident(q, pg) /\ Fpn(q, pg)' = Fpn(q, pg)
        BY <1>7, <3>1 DEF Resident, Fpn
      <3>3. Fpn(q, pg)' \in Frames
        BY <3>2 DEF TableInv, FramesInRange
      <3>4. PICK n \in 1..Len(fifo_pgn[q]) : fifo_pgn[q][n] = pg
        BY <3>2 DEF TableInv, AllListed, Listed
      <3>5. CASE q # p
        BY <1>2, <3>3, <3>4, <3>5 DEF Listed
      <3>6. CASE q = p
        <4>1. n # k
          BY <2>3, <3>4, <3>6 DEF Victim
        <4>2. n + 1 \in 2..k /\ n + 1 \in 1..Len(fifo_pgn'[q]) /\ (n + 1) - 1 = n
          BY <1>2, <3>4, <3>6, <4>1
        <4>3. fifo_pgn'[q][n + 1] = pg
          BY <1>2, <3>4, <3>6, <4>2
        <4> QED
          BY <3>3, <4>2, <4>3 DEF Listed
      <3> QED
        BY <3>5, <3>6
    <2> QED
      BY <2>1, <2>2, <2>3
  <1> QED
    BY <1>5, <1>6, <1>7 DEF ListedPresent, AllListed, FramesInRange

(* Every access keeps TableInv.                                            *)
LEMMA AccessTable ==
  ASSUME TableInv, NEW p \in Procs, AccessStep(p)
  PROVE  TableInv'
  <1>1. /\ Elsewhere /\ wild' \subseteq Procs /\ DataType'
        /\ PagesSame \/ \E pgn \in Pages : SwapStep(p, pgn)
    BY AccessShape
  <1>2. pgd' \in [Procs -> [Pages -> PTEs]] /\ fifo_pgn' \in [Procs -> Seq(Pages)]
    <2>1. CASE PagesSame
      BY <2>1 DEF PagesSame, TableInv, TypeInv, TypeOK
    <2> QED
      BY <1>1, <2>1, SwapPages, SwapFifo DEF Moved
  <1>3. TypeInv'
    <2>1. TypeInv
      BY DEF TableInv
    <2>2. TypeOK'
      BY <1>1, <1>2, <2>1 DEF Elsewhere, scanVars, TypeInv, TypeOK
    <2>3. \A q \in Procs : AreaInv(q)' /\ CallInv(q)'
      BY <1>1, <2>1, AccessWild DEF Elsewhere, scanVars, TypeInv, AreaInv, CallInv, Limit, Scanning
    <2> QED
      BY <2>2, <2>3 DEF TypeInv
  <1>4. FreeDistinct'
    BY <1>1 DEF Elsewhere, TableInv, FreeDistinct
  <1>5. Untouched' /\ ListedPresent' /\ AllListed' /\ FramesInRange'
    <2>1. CASE PagesSame
      BY <2>1 DEF PagesSame, TableInv, Untouched, ListedPresent, AllListed, FramesInRange,
                  Present, Resident, Listed, Fpn
    <2> QED
      BY <1>1, <2>1, SwapTable
  <1> QED
    BY <1>1, <1>3, <1>4, <1>5 DEF TableInv

(* Mapping new pages lists them and removes nothing.                       *)
LEMMA GrowsListed ==
  ASSUME TypeInv, NEW p \in Procs, NEW n \in Nat, Grows(p, n), n <= Len(free_fp)
  PROVE  /\ \A q \in Procs, pg \in Pages : Listed(q, pg) => Listed(q, pg)'
         /\ \A pg \in Pages : pg \in Limit(p)..Limit(p) + n - 1 => Listed(p, pg)'
         /\ \A q \in Procs : \A m \in 1..Len(fifo_pgn'[q]) :
              \/ q = p /\ fifo_pgn'[q][m] \in Limit(p)..Limit(p) + n - 1
              \/ \E k \in 1..Len(fifo_pgn[q]) : fifo_pgn'[q][m] = fifo_pgn[q][k]
  <1> DEFINE l == Limit(p)
             old == fifo_pgn[p]
             new == fifo_pgn'[p]
  <1>1. l \in Nat /\ Len(old) \in Nat /\ Pages \subseteq Nat
    BY LenProperties DEF TypeInv, TypeOK, AreaInv, Pages
  <1>2. /\ Len(new) = n + Len(old)
        /\ \A m \in 1..n : new[m] = l + n - m
        /\ \A m \in n + 1..Len(new) : new[m] = old[m - n]
    BY GrowsFifo
  <1>3. \A q \in Procs \ {p} : fifo_pgn'[q] = fifo_pgn[q]
    BY GrowsPages
  <1> HIDE DEF l, old, new
  <1>4. ASSUME NEW pg \in l..l + n - 1
        PROVE  \E m \in 1..Len(new) : new[m] = pg
    <2>1. l + n - pg \in 1..n /\ l + n - pg \in 1..Len(new) /\ l + n - (l + n - pg) = pg
      BY <1>1, <1>2
    <2> QED
      BY <1>2, <2>1
  <1>5. ASSUME NEW k \in 1..Len(old)
        PROVE  k + n \in 1..Len(new) /\ new[k + n] = old[k]
    <2>1. k + n \in n + 1..Len(new) /\ k + n \in 1..Len(new) /\ (k + n) - n = k
      BY <1>1, <1>2
    <2> QED
      BY <1>2, <2>1
  <1>6. ASSUME NEW m \in 1..Len(new)
        PROVE  new[m] \in l..l + n - 1 \/ \E k \in 1..Len(old) : new[m] = old[k]
    <2>1. CASE m \in 1..n
      BY <1>1, <1>2, <2>1
    <2>2. CASE m \notin 1..n
      <3>1. m \in n + 1..Len(new) /\ m - n \in 1..Len(old)
        BY <1>1, <1>2, <2>2
      <3> QED
        BY <1>2, <3>1
    <2> QED
      BY <2>1, <2>2
  <1>7. \A q \in Procs, pg \in Pages : Listed(q, pg) => Listed(q, pg)'
    BY <1>3, <1>5 DEF Listed, old, new
  <1>8. \A pg \in Pages : pg \in l..l + n - 1 => Listed(p, pg)'
    BY <1>4 DEF Listed, new
  <1>9. \A q \in Procs : \A m \in 1..Len(fifo_pgn'[q]) :
              \/ q = p /\ fifo_pgn'[q][m] \in l..l + n - 1
              \/ \E k \in 1..Len(fifo_pgn[q]) : fifo_pgn'[q][m] = fifo_pgn[q][k]
    BY <1>3, <1>6 DEF old, new
  <1> QED
    BY <1>7, <1>8, <1>9 DEF l

(* Mapping new pages keeps TableInv, also over pages that came in by a     *)
(* page fault above the limit.                                             *)
LEMMA GrowsTable ==
  ASSUME TableInv, NEW p \in Procs, NEW n \in Nat, Grows(p, n)
  PROVE  Untouched' /\ ListedPresent' /\ AllListed'
  <1> DEFINE New == Limit(p)..Limit(p) + n - 1
  <1>0. TypeInv
    BY DEF TableInv
  <1>1. CASE ~(n <= Len(free_fp))
    <2>1. pgd' = pgd /\ fifo_pgn' = fifo_pgn
      BY <1>0, <1>1, GrowsNot
    <2> QED
      BY <2>1 DEF TableInv, Untouched, ListedPresent, AllListed, Present, Resident, Listed
  <1>2. CASE n <= Len(free_fp)
    <2>1. ASSUME NEW q \in Procs, NEW pg \in Pages
          PROVE  \/ q = p /\ pg \in New /\ Present(q, pg)' /\ Resident(q, pg)'
                 \/ ~(q = p /\ pg \in New) /\ pgd'[q][pg] = pgd[q][pg]
      BY <1>0, <1>2, GrowsPages DEF Present, Resident
    <2>2. /\ \A q \in Procs, pg \in Pages : Listed(q, pg) => Listed(q, pg)'
          /\ \A pg \in Pages : pg \in New => Listed(p, pg)'
          /\ \A q \in Procs : \A m \in 1..Len(fifo_pgn'[q]) :
              \/ q = p /\ fifo_pgn'[q][m] \in New
              \/ \E k \in 1..Len(fifo_pgn[q]) : fifo_pgn'[q][m] = fifo_pgn[q][k]
      BY <1>0, <1>2, GrowsListed
    <2> HIDE DEF New
    <2>3. \A q \in Procs : \A pg \in Pages : Present(q, pg) => Present(q, pg)'
      BY <2>1 DEF Present
    <2>4. Untouched'
      BY <2>1 DEF TableInv, Untouched, Present
    <2>5. AllListed'
      BY <2>1, <2>2 DEF TableInv, AllListed, Resident
    <2>6. \A q \in Procs : \A m \in 1..Len(fifo_pgn'[q]) : fifo_pgn'[q][m] \in Pages
      BY <1>0, <1>2, GrowsFifo, ElementOfSeq
    <2>7. ASSUME NEW q \in Procs, NEW m \in 1..Len(fifo_pgn'[q])
          PROVE  Present(q, fifo_pgn[q][m])'
      <3> DEFINE pg == fifo_pgn'[q][m]
      <3>1. pg \in Pages
        BY <2>6
      <3> HIDE DEF pg
      <3>2. PAGING_PAGE_PRESENT(pgd'[q][pg])
        <4>1. CASE q = p /\ pg \in New
          BY <2>1, <3>1, <4>1 DEF Present
        <4>2. CASE \E k \in 1..Len(fifo_pgn[q]) : pg = fifo_pgn[q][k]
          BY <2>1, <3>1, <4>2 DEF TableInv, ListedPresent, Present
        <4> QED
          BY <2>2, <4>1, <4>2 DEF pg
      <3> QED
        BY <3>2 DEF Present, pg
    <2> QED
      BY <2>4, <2>5, <2>7 DEF ListedPresent
  <1> QED
    BY <1>1, <1>2

(* The devices and the values written stay.                                *)
DataSame == UNCHANGED <<ram, mswp, free_swp, shadow>>

(* Every step of the allocator keeps TableInv.                             *)
LEMMA RegionTable ==
  ASSUME TableInv, NEW p \in Procs, RegionStep(p), DataSame
  PROVE  TableInv'
  <1>1. TypeInv /\ TypeInv'
    BY TypeStep DEF TableInv
  <1>2. DataType'
    BY DEF DataSame, TableInv, DataType
  <1>3. CASE AreaSame
    BY <1>1, <1>2, <1>3 DEF AreaSame, TableInv, Untouched, ListedPresent, AllListed,
       FreeDistinct, FramesInRange, Present, Resident, Listed, Fpn
  <1>4. ASSUME NEW n \in Nat, Grows(p, n)
        PROVE  TableInv'
    <2>1. FreeDistinct' /\ FramesInRange'
      BY <1>1, <1>4, GrowsFrames DEF TableInv
    <2> QED
      BY <1>1, <1>2, <1>4, <2>1, GrowsTable DEF TableInv
  <1>5. ASSUME NEW n \in Nat, Passes(p, n)
        PROVE  TableInv'
    <2>1. FreeDistinct' /\ FramesInRange' /\ pgd' = pgd /\ fifo_pgn' = fifo_pgn
      BY <1>1, <1>5, PassesSole, PassesFrames DEF TableInv
    <2> QED
      BY <1>1, <1>2, <2>1 DEF TableInv, Untouched, ListedPresent, AllListed, Present, Resident, Listed
  <1> QED
    BY <1>1, <1>3, <1>4, <1>5, StepArea DEF AreaMoves

(* TableInv holds at the start.                                            *)
LEMMA TableInit ==
  ASSUME PagingInit
  PROVE  TableInv
  <1>1. TypeInv /\ FreeDistinct /\ FramesInRange
    BY TypeInit, PageInit DEF PagingInit, PageInv
  <1>2. NumSwap \in Nat
    BY PagingAssumption, Widths
  <1>3. MEMPHY_format(NumSwap) \in [1..NumSwap -> SwapFrames]
    BY <1>2 DEF MEMPHY_format, SwapFrames
  <1>4. DataType
    BY <1>2, <1>3, FunIsSeq, PagingAssumption DEF PagingInit, DataType
  <1>5. \A p \in Procs : \A pg \in Pages : pgd[p][pg] = NoPTE /\ ~Resident(p, pg)
    BY DEF PagingInit, Init, Resident, PAGING_PAGE_PRESENT, NoPTE
  <1>6. \A p \in Procs : 1..Len(fifo_pgn[p]) = {}
    BY DEF PagingInit, Init
  <1> QED
    BY <1>1, <1>4, <1>5, <1>6 DEF TableInv, Untouched, ListedPresent, AllListed

(* Every step keeps TableInv.                                              *)
LEMMA TableNext ==
  ASSUME TableInv, [PagingNext]_pagingVars
  PROVE  TableInv'
  <1>1. CASE UNCHANGED pagingVars
    <2>1. TypeInv'
      BY <1>1, TypeStutter DEF TableInv, pagingVars
    <2> QED
      BY <1>1, <2>1 DEF pagingVars, regionVars, areaVars, TableInv, DataType, Untouched, ListedPresent,
           AllListed, FreeDistinct, FramesInRange, Present, Resident, Listed, Fpn
  <1>2. CASE PagingNext
    BY <1>2, RegionTable, AccessTable DEF PagingNext, RegionStep, DataSame
  <1> QED
    BY <1>1, <1>2

(* The tables of paging satisfy TableInv in every reachable state.         *)
THEOREM PagingTables == PagingSpec => []TableInv
  <1>1. PagingInit => TableInv
    BY TableInit
  <1>2. TableInv /\ [PagingNext]_pagingVars => TableInv'
    BY TableNext
  <1> QED
    BY <1>1, <1>2, PTL DEF PagingSpec

(* Paging is type correct until a process goes wild: until an access that  *)
(* ends outside the storage of RAM, a page-out without a free swap frame,  *)
(* a store outside the symbol table or a limit past the page table, every  *)
(* frame number, swap offset, list entry and byte is in its range.         *)
THEOREM PagingIsTypeOK == PagingSpec => [](wild = {} => PagingTypeOK)
  <1>1. TableInv => (wild = {} => PagingTypeOK)
    BY DEF TableInv, TypeInv, DataType, PagingTypeOK
  <1> QED
    BY <1>1, PagingTables, PTL

(* A page that is in RAM is always in the list of find_victim_page, so     *)
(* replacement never loses sight of a page, however pages were swapped.    *)
THEOREM PagingResidentListed == PagingSpec => []ResidentListed
  <1>1. TableInv => ResidentListed
    BY DEF TableInv, AllListed, Listed, ResidentListed
  <1> QED
    BY <1>1, PagingTables, PTL
------------------------------------------------------------------------------
(* A swap frame holds one page.                                            *)

(* No table changes.                                                       *)
TableSame == AreaSame /\ free_swp' = free_swp

(* The area of p grows by n pages.                                         *)
Extends(p, n) == Grows(p, n) /\ free_swp' = free_swp

(* The limit of p passes its page table.                                   *)
Overruns(p, n) == Passes(p, n) /\ free_swp' = free_swp

(* A page fault of p, with the area left alone.                            *)
Faults(p, pgn) == SwapStep(p, pgn) /\ UNCHANGED <<vm_end, free_fp>>

(* Every step leaves the tables, grows an area, takes its limit past the   *)
(* page table or is a page fault.                                          *)
LEMMA PagingCases ==
  ASSUME TableInv, [PagingNext]_pagingVars
  PROVE  \/ TableSame
         \/ \E p \in Procs, n \in Nat : Extends(p, n)
         \/ \E p \in Procs, n \in Nat : Overruns(p, n)
         \/ \E p \in Procs, pgn \in Pages : Faults(p, pgn)
  <1>1. CASE UNCHANGED pagingVars
    BY <1>1 DEF pagingVars, regionVars, areaVars, TableSame, AreaSame
  <1>2. ASSUME NEW p \in Procs, RegionStep(p), DataSame
        PROVE  TableSame \/ (\E n \in Nat : Extends(p, n)) \/ \E n \in Nat : Overruns(p, n)
    BY <1>2, StepArea DEF TableInv, DataSame, TableSame, Extends, AreaMoves, Overruns
  <1>3. ASSUME NEW p \in Procs, AccessStep(p)
        PROVE  TableSame \/ \E pgn \in Pages : Faults(p, pgn)
    BY <1>3, AccessShape DEF Elsewhere, PagesSame, TableSame, AreaSame, Faults
  <1> QED
    BY <1>1, <1>2, <1>3 DEF PagingNext, RegionStep, DataSame

(* Passing the page table moves no page, and limits do not fall.           *)
LEMMA OverrunsSame ==
  ASSUME TypeInv, NEW p \in Procs, NEW n \in Nat, Overruns(p, n)
  PROVE  /\ pgd' = pgd /\ fifo_pgn' = fifo_pgn /\ free_swp' = free_swp /\ p \in wild'
         /\ free_fp = <<>> => free_fp' = <<>>
         /\ \A q \in Procs : Limit(q) \in Nat /\ Limit(q)' \in Nat /\ Limit(q) <= Limit(q)'
         /\ \A q \in Procs \ {p} : Limit(q)' = Limit(q)
  <1>1. pgd' = pgd /\ fifo_pgn' = fifo_pgn /\ (free_fp = <<>> => free_fp' = <<>>)
    BY PassesFrames DEF Overruns
  <1>2. Limit(p)' = Limit(p) + n /\ \A q \in Procs \ {p} : Limit(q)' = Limit(q)
    BY GrowsLimit DEF Overruns
  <1>3. \A q \in Procs : Limit(q) \in Nat
    BY DEF TypeInv, AreaInv
  <1> QED
    BY <1>1, <1>2, <1>3 DEF Overruns, Passes

(* Every step keeps wild processes wild.                                   *)
LEMMA WildGrows ==
  ASSUME [PagingNext]_pagingVars
  PROVE  wild \subseteq wild'
  <1>1. CASE UNCHANGED pagingVars
    BY <1>1 DEF pagingVars, regionVars
  <1>2. CASE PagingNext
    BY <1>2, AccessWild, StepWild DEF PagingNext
  <1> QED
    BY <1>1, <1>2

(* Mapping new pages moves no page below a limit, in or out.               *)
LEMMA GrowsOut ==
  ASSUME TypeInv, NEW p \in Procs, NEW n \in Nat, Grows(p, n), NEW q \in Procs, NEW pg \in Pages
  PROVE  /\ Out(q, pg)' => Out(q, pg) /\ SwpOf(q, pg)' = SwpOf(q, pg)
         /\ pg < Limit(q) /\ Out(q, pg) => pg < Limit(q)' /\ Out(q, pg)'
  <1>0. Limit(p) \in Nat /\ Limit(q) \in Nat /\ pg \in Nat
    BY DEF TypeInv, AreaInv, Pages
  <1>1. Limit(p)' = Limit(p) + n /\ (q # p => Limit(q)' = Limit(q))
    BY GrowsLimit
  <1>2. CASE ~(n <= Len(free_fp))
    BY <1>0, <1>1, <1>2, GrowsNot DEF Out, SwpOf
  <1>3. CASE n <= Len(free_fp)
    <2>1. \/ q = p /\ pg \in Limit(p)..Limit(p) + n - 1 /\ ~pgd'[q][pg].swapped
          \/ pgd'[q][pg] = pgd[q][pg]
      BY <1>3, GrowsPages
    <2> QED
      BY <1>0, <1>1, <2>1 DEF Out, SwpOf
  <1> QED
    BY <1>2, <1>3

(* A page fault sends the victim out, brings in a page that was not out,   *)
(* and leaves the others.                                                  *)
LEMMA FaultOut ==
  ASSUME TableInv, NEW p \in Procs, NEW pgn \in Pages, SwapStep(p, pgn), NEW q \in Procs, NEW pg \in Pages
  PROVE  /\ q = p /\ pg = Victim(p) => Out(q, pg)' /\ SwpOf(q, pg)' = Head(free_swp)
         /\ q = p /\ pg = pgn => ~Out(q, pg)' /\ ~Out(q, pg)
         /\ ~(q = p /\ pg \in {Victim(p), pgn}) =>
              (Out(q, pg)' <=> Out(q, pg)) /\ SwpOf(q, pg)' = SwpOf(q, pg)
  <1>1. Moved(p, pgn)
    BY SwapPages
  <1>2. ~Out(p, pgn)
    BY NeverSet DEF SwapStep, CanSwap, TableInv, Untouched, Out
  <1>3. ~(q = p /\ pg \in {Victim(p), pgn}) => pgd'[q][pg] = pgd[q][pg]
    BY <1>1 DEF Moved
  <1>4. q = p /\ pg = Victim(p) => Out(q, pg)' /\ SwpOf(q, pg)' = Head(free_swp)
    <2>1. pgd'[p][Victim(p)].swapped /\ PAGING_PTE_SWP(pgd'[p][Victim(p)]) = Head(free_swp)
      BY <1>1 DEF Moved
    <2> QED
      BY <2>1 DEF Out, SwpOf
  <1>5. q = p /\ pg = pgn => ~Out(q, pg)'
    BY <1>1 DEF Out, Moved
  <1> QED
    BY <1>2, <1>3, <1>4, <1>5 DEF Out, SwpOf

(* A page fault takes a swap frame off the free list.                      *)
LEMMA FaultFree ==
  ASSUME TableInv, NEW p \in Procs, NEW pgn \in Pages, SwapStep(p, pgn), FreeSwapDistinct
  PROVE  /\ FreeSwapDistinct'
         /\ FreeSwap(Head(free_swp))
         /\ \A s \in SwapFrames : FreeSwap(s)' => FreeSwap(s) /\ s # Head(free_swp)
  <1>1. /\ Len(free_swp) \in Nat \ {0}
        /\ Len(free_swp') = Len(free_swp) - 1
        /\ Head(free_swp) = free_swp[1]
        /\ \A n \in 1..Len(free_swp') : free_swp'[n] = free_swp[n + 1] /\ n + 1 \in 1..Len(free_swp)
    BY SwapList
  <1>2. FreeSwapDistinct'
    <2>1. ASSUME NEW m \in 1..Len(free_swp'), NEW n \in 1..Len(free_swp'), free_swp'[m] = free_swp'[n]
          PROVE  m = n
      <3>1. m + 1 = n + 1
        BY <1>1, <2>1 DEF FreeSwapDistinct
      <3> QED
        BY <1>1, <3>1
    <2> QED
      BY <2>1 DEF FreeSwapDistinct
  <1>3. 1 \in 1..Len(free_swp)
    BY <1>1
  <1>4. ASSUME NEW n \in 1..Len(free_swp')
        PROVE  free_swp'[n] # Head(free_swp)
    <2>1. n + 1 # 1
      BY <1>1
    <2> QED
      BY <1>1, <1>3, <2>1 DEF FreeSwapDistinct
  <1> QED
    BY <1>1, <1>2, <1>3, <1>4 DEF FreeSwap

(* Every step keeps SwapInv.                                               *)
LEMMA SwapInvNext ==
  ASSUME TableInv, SwapInv, [PagingNext]_pagingVars
  PROVE  SwapInv'
  <1>0. TypeInv
    BY DEF TableInv
  <1>1. CASE TableSame
    BY <1>1 DEF TableSame, AreaSame, SwapInv, FreeSwapDistinct, FreeSwap, Out, SwpOf
  <1>2. ASSUME NEW p \in Procs, NEW n \in Nat, Extends(p, n)
        PROVE  SwapInv'
    <2>1. \A q \in Procs : \A pg \in Pages : Out(q, pg)' => Out(q, pg) /\ SwpOf(q, pg)' = SwpOf(q, pg)
      BY <1>0, <1>2, GrowsOut DEF Extends
    <2>2. FreeSwapDistinct' /\ \A s : FreeSwap(s)' <=> FreeSwap(s)
      BY <1>2 DEF Extends, SwapInv, FreeSwapDistinct, FreeSwap
    <2>3. ASSUME NEW q \in Procs, NEW pg \in Pages, Out(q, pg)'
          PROVE  SwpOf(q, pg)' \in SwapFrames /\ ~FreeSwap(SwpOf(q, pg))'
      <3>1. SwpOf(q, pg)' \in SwapFrames /\ ~FreeSwap(SwpOf(q, pg))
        BY <2>1, <2>3 DEF SwapInv
      <3> QED
        BY <1>2, <2>1, <2>3, <3>1 DEF Extends, FreeSwap
    <2> QED
      BY <2>1, <2>2, <2>3 DEF SwapInv
  <1>3. ASSUME NEW p \in Procs, NEW pgn \in Pages, Faults(p, pgn)
        PROVE  SwapInv'
    <2> DEFINE v == Victim(p)
               h == Head(free_swp)
    <2>0. SwapStep(p, pgn) /\ v \in Pages /\ h \in SwapFrames
      BY <1>3, SwapPages DEF Faults, Moved
    <2>1. FreeSwapDistinct' /\ FreeSwap(h)
          /\ \A s \in SwapFrames : FreeSwap(s)' => FreeSwap(s) /\ s # h
      BY <2>0, FaultFree DEF SwapInv
    <2>2. ASSUME NEW q \in Procs, NEW pg \in Pages, Out(q, pg)'
          PROVE  \/ q = p /\ pg = v /\ SwpOf(q, pg)' = h
                 \/ ~(q = p /\ pg = v) /\ Out(q, pg) /\ SwpOf(q, pg)' = SwpOf(q, pg)
      BY <2>0, <2>2, FaultOut
    <2>a. \A q \in Procs, pg \in Pages : Out(q, pg) =>
             SwpOf(q, pg) \in SwapFrames /\ ~FreeSwap(SwpOf(q, pg)) /\ SwpOf(q, pg) # h
      BY <2>1 DEF SwapInv
    <2> HIDE DEF v, h
    <2>3. ASSUME NEW q \in Procs, NEW pg \in Pages, Out(q, pg)'
          PROVE  SwpOf(q, pg)' \in SwapFrames /\ ~FreeSwap(SwpOf(q, pg))'
      <3> DEFINE s == SwpOf(q, pg)'
      <3>1. s \in SwapFrames /\ (s = h \/ ~FreeSwap(s))
        <4>1. CASE q = p /\ pg = v /\ s = h
          BY <2>0, <4>1
        <4>2. CASE Out(q, pg) /\ s = SwpOf(q, pg)
          <5> HIDE DEF s
          <5> QED
            BY <2>a, <4>2
        <4> QED
          BY <2>2, <2>3, <4>1, <4>2
      <3> HIDE DEF s
      <3>2. ~(\E k \in 1..Len(free_swp') : free_swp'[k] = s)
        BY <2>1, <3>1 DEF FreeSwap
      <3> QED
        BY <3>1, <3>2 DEF FreeSwap, s
    <2>4. ASSUME NEW q \in Procs, NEW r \in Procs, NEW pg \in Pages, NEW ph \in Pages,
                 Out(q, pg)', Out(r, ph)', SwpOf(q, pg)' = SwpOf(r, ph)'
          PROVE  q = r /\ pg = ph
      BY <2>2, <2>4, <2>a DEF SwapInv
    <2> QED
      BY <2>1, <2>3, <2>4 DEF SwapInv
  <1>4. ASSUME NEW p \in Procs, NEW n \in Nat, Overruns(p, n)
        PROVE  SwapInv'
    <2>1. pgd' = pgd /\ free_swp' = free_swp
      BY <1>0, <1>4, OverrunsSame
    <2> QED
      BY <2>1 DEF SwapInv, FreeSwapDistinct, FreeSwap, Out, SwpOf
  <1> QED
    BY <1>1, <1>2, <1>3, <1>4, PagingCases

(* SwapInv holds at the start: no page is out.                             *)
LEMMA SwapInvInit ==
  ASSUME PagingInit
  PROVE  SwapInv
  <1>1. \A p \in Procs : \A pg \in Pages : ~Out(p, pg)
    BY DEF PagingInit, Init, Out, NoPTE
  <1>2. FreeSwapDistinct
    BY FormatDistinct, PagingAssumption, Widths DEF PagingInit, FreeSwapDistinct
  <1> QED
    BY <1>1, <1>2 DEF SwapInv

(* SwapFramesDistinct, from SwapInv.                                       *)
LEMMA SwapInvDistinct ==
  ASSUME SwapInv
  PROVE  SwapFramesDistinct
  BY DEF SwapInv, SwapFramesDistinct, Out, SwpOf, FreeSwap
------------------------------------------------------------------------------
(* Frames of RAM.                                                          *)

(* The victim of a page fault is a listed, present page.                   *)
LEMMA VictimListed ==
  ASSUME TableInv, NEW p \in Procs, NEW pgn \in Pages, SwapStep(p, pgn)
  PROVE  Victim(p) \in Pages /\ Listed(p, Victim(p)) /\ Present(p, Victim(p))
  <1>1. fifo_pgn[p] \in Seq(Pages) /\ fifo_pgn[p] # <<>>
    BY DEF SwapStep, CanSwap, TableInv, TypeInv, TypeOK
  <1>2. Len(fifo_pgn[p]) \in 1..Len(fifo_pgn[p])
    BY <1>1, EmptySeq, LenProperties
  <1> QED
    BY <1>1, <1>2, ElementOfSeq DEF Listed, TableInv, ListedPresent, Victim

(* A page fault whose victim was in RAM keeps frames with one user: the    *)
(* frame goes from the victim to the page.                                 *)
LEMMA FaultSole ==
  ASSUME TableInv, NEW p \in Procs, NEW pgn \in Pages, Faults(p, pgn), FramesSole, ~Out(p, Victim(p))
  PROVE  FramesSole'
  <1> DEFINE v == Victim(p)
  <1>1. Moved(p, pgn) /\ free_fp' = free_fp
    BY SwapPages DEF Faults
  <1>2. Resident(p, v) /\ v \in Pages
    BY VictimListed DEF Faults, Present, Resident, Out
  <1>3. ASSUME NEW q \in Procs, NEW pg \in Pages, Resident(q, pg)'
        PROVE  \/ q = p /\ pg = pgn /\ Fpn(q, pg)' = Fpn(p, v)
               \/ ~(q = p /\ pg = v) /\ Resident(q, pg) /\ Fpn(q, pg)' = Fpn(q, pg)
    <2>1. CASE q = p /\ pg = v
      BY <1>1, <1>3, <2>1 DEF Moved, Resident
    <2>2. CASE q = p /\ pg = pgn
      BY <1>1, <2>2 DEF Moved, Fpn
    <2>3. CASE q # p \/ (pg # v /\ pg # pgn)
      BY <1>1, <1>3, <2>3 DEF Moved, Resident, Fpn
    <2> QED
      BY <2>1, <2>2, <2>3
  <1> HIDE DEF v
  <1>4. ASSUME NEW q \in Procs, NEW r \in Procs, NEW pg \in Pages, NEW ph \in Pages,
               Resident(q, pg)', Resident(r, ph)', Fpn(q, pg)' = Fpn(r, ph)'
        PROVE  q = r /\ pg = ph
    BY <1>2, <1>3, <1>4 DEF FramesSole
  <1>5. ASSUME NEW q \in Procs, NEW pg \in Pages, NEW n \in 1..Len(free_fp'), Resident(q, pg)'
        PROVE  free_fp'[n] # Fpn(q, pg)'
    BY <1>1, <1>2, <1>3, <1>5 DEF FramesSole
  <1> QED
    BY <1>4, <1>5 DEF FramesSole

(* A lost swap frame stays lost; and a page fault whose victim is out      *)
(* already loses one, the one the victim had.                              *)
LEMMA KeptSticky ==
  ASSUME TableInv, SwapInv, [PagingNext]_pagingVars, SwapKept'
  PROVE  /\ SwapKept
         /\ \A p \in Procs, pgn \in Pages : Faults(p, pgn) => ~Out(p, Victim(p))
  <1>0. TypeInv
    BY DEF TableInv
  <1>1. ASSUME NEW p \in Procs, NEW pgn \in Pages, Faults(p, pgn)
        PROVE  SwapKept /\ ~Out(p, Victim(p))
    <2> DEFINE v == Victim(p)
               h == Head(free_swp)
    <2>0. SwapStep(p, pgn) /\ v \in Pages /\ h \in SwapFrames
      BY <1>1, SwapPages DEF Faults, Moved
    <2>1. FreeSwap(h) /\ \A s \in SwapFrames : FreeSwap(s)' => FreeSwap(s)
      BY <2>0, FaultFree DEF SwapInv
    <2>2. ASSUME NEW q \in Procs, NEW pg \in Pages, Out(q, pg)'
          PROVE  \/ q = p /\ pg = v /\ SwpOf(q, pg)' = h
                 \/ ~(q = p /\ pg = v) /\ Out(q, pg) /\ SwpOf(q, pg)' = SwpOf(q, pg)
      BY <2>0, <2>2, FaultOut
    <2> HIDE DEF v, h
    <2>3. ASSUME NEW s \in SwapFrames
          PROVE  \/ FreeSwap(s)
                 \/ \E q \in Procs, pg \in Pages : ~(q = p /\ pg = v) /\ Out(q, pg) /\ SwpOf(q, pg) = s
      <3>1. CASE FreeSwap(s)'
        BY <2>1, <3>1
      <3>2. ASSUME NEW q \in Procs, NEW pg \in Pages, Out(q, pg)', SwpOf(q, pg)' = s
            PROVE  \/ FreeSwap(s)
                   \/ ~(q = p /\ pg = v) /\ Out(q, pg) /\ SwpOf(q, pg) = s
        BY <2>1, <2>2, <3>2
      <3> QED
        BY <3>1, <3>2 DEF SwapKept
    <2>4. SwapKept
      BY <2>3 DEF SwapKept
    <2>5. ASSUME Out(p, v) PROVE FALSE
      <3>1. SwpOf(p, v) \in SwapFrames /\ ~FreeSwap(SwpOf(p, v))
        BY <2>0, <2>5 DEF SwapInv
      <3>2. PICK q \in Procs, pg \in Pages : ~(q = p /\ pg = v) /\ Out(q, pg) /\ SwpOf(q, pg) = SwpOf(p, v)
        BY <2>3, <3>1
      <3> QED
        BY <2>0, <2>5, <3>2 DEF SwapInv
    <2> QED
      BY <2>4, <2>5 DEF v
  <1>2. ASSUME NEW p \in Procs, NEW n \in Nat, Extends(p, n)
        PROVE  SwapKept
    <2>1. \A q \in Procs : \A pg \in Pages : Out(q, pg)' => Out(q, pg) /\ SwpOf(q, pg)' = SwpOf(q, pg)
      BY <1>0, <1>2, GrowsOut DEF Extends
    <2>2. \A s \in SwapFrames : FreeSwap(s)' <=> FreeSwap(s)
      BY <1>2 DEF Extends, FreeSwap
    <2> QED
      BY <2>1, <2>2 DEF SwapKept
  <1>3. ASSUME TableSame PROVE SwapKept
    BY <1>3 DEF TableSame, AreaSame, SwapKept, FreeSwap, Out, SwpOf
  <1>4. ASSUME NEW p \in Procs, NEW n \in Nat, Overruns(p, n)
        PROVE  SwapKept
    <2>1. pgd' = pgd /\ free_swp' = free_swp
      BY <1>0, <1>4, OverrunsSame
    <2> QED
      BY <2>1 DEF SwapKept, FreeSwap, Out, SwpOf
  <1> QED
    BY <1>1, <1>2, <1>3, <1>4, PagingCases

(* Every step keeps FrameInv.                                              *)
LEMMA FrameInvNext ==
  ASSUME TableInv, SwapInv, FrameInv, [PagingNext]_pagingVars
  PROVE  FrameInv'
  <1> SUFFICES ASSUME SwapKept' PROVE FramesSole'
    BY DEF FrameInv
  <1>1. FramesSole /\ \A p \in Procs, pgn \in Pages : Faults(p, pgn) => ~Out(p, Victim(p))
    BY KeptSticky DEF FrameInv
  <1>2. CASE TableSame
    BY <1>1, <1>2 DEF TableSame, AreaSame, FramesSole, Resident, Fpn
  <1>3. ASSUME NEW p \in Procs, NEW n \in Nat, Extends(p, n)
        PROVE  FramesSole'
    BY <1>1, <1>3, GrowsFrames DEF Extends, TableInv
  <1>4. ASSUME NEW p \in Procs, NEW pgn \in Pages, Faults(p, pgn)
        PROVE  FramesSole'
    BY <1>1, <1>4, FaultSole
  <1>5. ASSUME NEW p \in Procs, NEW n \in Nat, Overruns(p, n)
        PROVE  FramesSole'
    BY <1>1, <1>5, PassesSole DEF Overruns, TableInv
  <1> QED
    BY <1>2, <1>3, <1>4, <1>5, PagingCases

(* Once a page below the limit is out, one is for ever; and a page fault   *)
(* of a process sends such a page out.                                     *)
LEMMA CalmSticky ==
  ASSUME TableInv, CalmInv, [PagingNext]_pagingVars, NEW q \in Procs, Calm(q)'
  PROVE  /\ Calm(q)
         /\ \A pgn \in Pages : ~Faults(q, pgn)
  <1>0. TypeInv
    BY DEF TableInv
  <1>1. ASSUME TableSame PROVE Calm(q)
    BY <1>1 DEF TableSame, AreaSame, Calm, Out, Limit
  <1>2. ASSUME NEW p \in Procs, NEW n \in Nat, Extends(p, n)
        PROVE  Calm(q)
    BY <1>0, <1>2, GrowsOut DEF Extends, Calm
  <1>3. ASSUME NEW p \in Procs, NEW pgn \in Pages, Faults(p, pgn)
        PROVE  Calm(q)
    <2>1. Limit(q)' = Limit(q)
      BY <1>3 DEF Faults, Limit
    <2>2. \A pg \in Pages : Out(q, pg) => Out(q, pg)'
      BY <1>3, FaultOut DEF Faults
    <2> QED
      BY <2>1, <2>2 DEF Calm
  <1>a. ASSUME NEW p \in Procs, NEW n \in Nat, Overruns(p, n)
        PROVE  Calm(q)
    <2>1. pgd' = pgd /\ Limit(q) \in Nat /\ Limit(q)' \in Nat /\ Limit(q) <= Limit(q)' /\ Pages \subseteq Nat
      BY <1>0, <1>a, OverrunsSame DEF Pages
    <2>2. \A pg \in Pages : pg < Limit(q) => pg < Limit(q)'
      BY <2>1
    <2> QED
      BY <2>1, <2>2 DEF Calm, Out
  <1>4. Calm(q)
    BY <1>1, <1>2, <1>3, <1>a, PagingCases
  <1>5. ASSUME NEW pgn \in Pages, Faults(q, pgn)
        PROVE  FALSE
    <2>1. PICK v \in Pages : v = Victim(q) /\ Listed(q, v)
      BY <1>5, VictimListed DEF Faults
    <2>2. Out(q, v)'
      BY <1>5, <2>1, FaultOut DEF Faults
    <2>3. v < Limit(q)
      BY <1>4, <2>1 DEF CalmInv, FifoInv
    <2>4. Limit(q)' = Limit(q)
      BY <1>5 DEF Faults, Limit
    <2> QED
      BY <2>1, <2>2, <2>3, <2>4 DEF Calm
  <1> QED
    BY <1>4, <1>5

(* Every step keeps CalmInv.                                               *)
LEMMA CalmInvNext ==
  ASSUME TableInv, CalmInv, [PagingNext]_pagingVars
  PROVE  CalmInv'
  <1>0. TypeInv /\ FreeDistinct /\ FramesInRange
    BY DEF TableInv
  <1>1. ASSUME NEW q \in Procs, Calm(q)'
        PROVE  Calm(q) /\ FifoInv(q) /\ \A pgn \in Pages : ~Faults(q, pgn)
    BY <1>1, CalmSticky DEF CalmInv
  <1>2. ASSUME NEW q \in Procs, Calm(q)'
        PROVE  FifoInv(q)'
    <2>1. CASE TableSame
      BY <1>1, <1>2, <2>1 DEF TableSame, AreaSame, FifoInv, Present, Listed, Limit
    <2>2. ASSUME NEW p \in Procs, NEW n \in Nat, Extends(p, n)
          PROVE  FifoInv(q)'
      BY <1>0, <1>1, <1>2, <2>2, GrowsFifoInv DEF Extends
    <2>3. ASSUME NEW p \in Procs, NEW pgn \in Pages, Faults(p, pgn)
          PROVE  FifoInv(q)'
      <3>1. q # p
        BY <1>1, <1>2, <2>3
      <3>2. fifo_pgn'[q] = fifo_pgn[q] /\ vm_end' = vm_end
        BY <2>3, <3>1, SwapFifo DEF Faults
      <3>3. \A pg \in Pages : pgd'[q][pg] = pgd[q][pg]
        BY <2>3, <3>1, SwapPages DEF Faults, Moved
      <3> QED
        BY <1>1, <1>2, <3>2, <3>3 DEF FifoInv, Present, Listed, Limit
    <2>4. ASSUME NEW p \in Procs, NEW n \in Nat, Overruns(p, n)
          PROVE  FifoInv(q)'
      BY <1>0, <1>1, <1>2, <2>4, PassesFifoInv DEF Overruns
    <2> QED
      BY <2>1, <2>2, <2>3, <2>4, PagingCases
  <1>3. ASSUME AllCalm'
        PROVE  FramesSole'
    <2>1. FramesSole
      BY <1>1, <1>3 DEF AllCalm, CalmInv
    <2>2. CASE TableSame
      BY <2>1, <2>2 DEF TableSame, AreaSame, FramesSole, Resident, Fpn
    <2>3. ASSUME NEW p \in Procs, NEW n \in Nat, Extends(p, n)
          PROVE  FramesSole'
      BY <1>0, <2>1, <2>3, GrowsFrames DEF Extends
    <2>4. ASSUME NEW p \in Procs, NEW pgn \in Pages, Faults(p, pgn)
          PROVE  FALSE
      BY <1>1, <1>3, <2>4 DEF AllCalm
    <2>5. ASSUME NEW p \in Procs, NEW n \in Nat, Overruns(p, n)
          PROVE  FramesSole'
      BY <1>0, <2>1, <2>5, PassesSole DEF Overruns
    <2> QED
      BY <2>2, <2>3, <2>4, <2>5, PagingCases
  <1> QED
    BY <1>2, <1>3 DEF CalmInv

(* Mapping new pages loses no frame: those off the list are mapped, and no *)
(* page that had one is mapped again.                                      *)
LEMMA GrowsUsed ==
  ASSUME TypeInv, NEW p \in Procs, NEW n \in Nat, Grows(p, n), FifoInv(p), free_fp' # <<>>,
         NEW f \in Frames, Used(f)
  PROVE  Used(f)' /\ free_fp # <<>>
  <1> DEFINE l == Limit(p)
  <1>1. n <= Len(free_fp)
    BY GrowsNot
  <1>2. /\ l \in Nat /\ Pages = 0..MAX_PGN - 1 /\ l + n <= MAX_PGN /\ MAX_PGN \in Nat
        /\ free_fp \in Seq(Frames) /\ Len(free_fp) \in Nat
    BY LenProperties, RegionsAssumption DEF TypeInv, TypeOK, AreaInv, Pages, Grows
  <1>3. /\ free_fp' \in Seq(Frames)
        /\ Len(free_fp') = Len(free_fp) - n
        /\ \A m \in 1..Len(free_fp') : free_fp'[m] = free_fp[m + n]
        /\ \A q \in Procs \ {p} : pgd'[q] = pgd[q]
        /\ \A pg \in Pages : pg \notin l..l + n - 1 => pgd'[p][pg] = pgd[p][pg]
        /\ \A pg \in Pages : pg \in l..l + n - 1 =>
             /\ PAGING_PAGE_PRESENT(pgd'[p][pg]) /\ ~pgd'[p][pg].swapped
             /\ PAGING_FPN(pgd'[p][pg]) = free_fp[n - (pg - l)]
    BY <1>1, GrowsPages DEF FpnOf
  <1>4. free_fp # <<>>
    <2>1. Len(free_fp') # 0 /\ Len(free_fp') \in Nat
      BY <1>3, EmptySeq, LenProperties
    <2>2. Len(free_fp) # 0
      BY <1>2, <1>3, <2>1
    <2> QED
      BY <2>2
  <1> HIDE DEF l
  <1>5. ASSUME NEW m \in 1..Len(free_fp), free_fp[m] = f, m <= n
        PROVE  Used(f)'
    <2>0. l + n - m \in Pages /\ l + n - m \in l..l + n - 1 /\ n - ((l + n - m) - l) = m
      BY <1>2, <1>5
    <2>1. PICK pg \in Pages : pg \in l..l + n - 1 /\ n - (pg - l) = m
      BY <2>0
    <2>2. Resident(p, pg)' /\ Fpn(p, pg)' = f
      BY <1>3, <1>5, <2>1 DEF Resident, Fpn
    <2> QED
      BY <2>1, <2>2 DEF Used
  <1>6. ASSUME NEW m \in 1..Len(free_fp), free_fp[m] = f, ~(m <= n)
        PROVE  Used(f)'
    <2>1. m - n \in 1..Len(free_fp') /\ (m - n) + n = m
      BY <1>2, <1>3, <1>6
    <2>2. free_fp'[m - n] = free_fp[(m - n) + n]
      BY <1>3, <2>1
    <2>3. free_fp'[m - n] = f
      BY <1>6, <2>1, <2>2
    <2> QED
      BY <2>1, <2>3 DEF Used
  <1>7. ASSUME NEW q \in Procs, NEW pg \in Pages, Resident(q, pg), Fpn(q, pg) = f
        PROVE  Used(f)'
    <2>1. q = p => pg < l
      BY <1>7 DEF FifoInv, Resident, Present, l
    <2>2. q = p => pg \notin l..l + n - 1
      BY <1>2, <2>1
    <2>3. pgd'[q][pg] = pgd[q][pg]
      BY <1>3, <2>2
    <2>4. Resident(q, pg)' /\ Fpn(q, pg)' = f
      BY <1>7, <2>3 DEF Resident, Fpn
    <2> QED
      BY <2>4 DEF Used
  <1> QED
    BY <1>4, <1>5, <1>6, <1>7 DEF Used

(* Every step keeps ConservedInv.                                          *)
LEMMA ConservedNext ==
  ASSUME TableInv, CalmInv, ConservedInv, [PagingNext]_pagingVars
  PROVE  ConservedInv'
  <1> SUFFICES ASSUME free_fp' # <<>>, AllCalm', wild' = {}, NEW f \in Frames
               PROVE  Used(f)'
    BY DEF ConservedInv
  <1>0. TypeInv
    BY DEF TableInv
  <1>1. \A q \in Procs : Calm(q) /\ FifoInv(q) /\ \A pgn \in Pages : ~Faults(q, pgn)
    BY CalmSticky DEF AllCalm, CalmInv
  <1>2. free_fp # <<>> => Used(f)
    BY <1>1, WildGrows DEF ConservedInv, AllCalm
  <1>3. CASE TableSame
    <2>1. free_fp' = free_fp /\ pgd' = pgd
      BY <1>3 DEF TableSame, AreaSame
    <2> QED
      BY <1>2, <2>1 DEF Used, Resident, Fpn
  <1>4. ASSUME NEW p \in Procs, NEW n \in Nat, Extends(p, n)
        PROVE  Used(f)'
    <2>1. CASE free_fp = <<>>
      <3>1. Len(free_fp) = 0
        BY <2>1
      <3>2. CASE ~(n <= Len(free_fp))
        BY <1>0, <1>4, <3>2, GrowsNot DEF Extends
      <3>3. CASE n <= Len(free_fp)
        <4>1. Len(free_fp') = 0 - n /\ free_fp' \in Seq(Frames)
          BY <1>0, <1>4, <3>1, <3>3, GrowsPages DEF Extends
        <4>2. Len(free_fp') \in Nat
          BY <4>1, LenProperties
        <4> QED
          BY <4>1, <4>2, EmptySeq
      <3> QED
        BY <3>2, <3>3
    <2>2. CASE free_fp # <<>>
      BY <1>0, <1>1, <1>2, <1>4, <2>2, GrowsUsed DEF Extends
    <2> QED
      BY <2>1, <2>2
  <1>5. ASSUME NEW p \in Procs, NEW n \in Nat, Overruns(p, n)
        PROVE  FALSE
    BY <1>5 DEF Overruns, Passes
  <1> QED
    BY <1>1, <1>3, <1>4, <1>5, PagingCases

(* The conditional parts hold at the start.                                *)
LEMMA CalmInit ==
  ASSUME PagingInit
  PROVE  CalmInv /\ ConservedInv /\ FrameInv
  <1>1. PageInv
    BY PageInit DEF PagingInit
  <1>2. NumFrames \in Nat /\ MEMPHY_format(NumFrames) \in [1..NumFrames -> Nat]
    BY RegionsAssumption, Widths DEF MEMPHY_format
  <1>3. Len(free_fp) = NumFrames
    BY <1>2, FunIsSeq DEF PagingInit, Init
  <1>4. ASSUME NEW f \in Frames
        PROVE  Used(f)
    <2>1. f + 1 \in 1..NumFrames /\ (f + 1) - 1 = f
      BY <1>2 DEF Frames
    <2>2. free_fp[f + 1] = f
      BY <2>1 DEF PagingInit, Init, MEMPHY_format
    <2> QED
      BY <1>3, <2>1, <2>2 DEF Used
  <1> QED
    BY <1>1, <1>4 DEF PageInv, CalmInv, ConservedInv, FrameInv

(* FramesConserved, from ConservedInv.                                     *)
LEMMA ConservedFrames ==
  ASSUME ConservedInv
  PROVE  FramesConserved
  <1> SUFFICES ASSUME free_fp # <<>>, NoPageOut, wild = {}, NEW f \in Frames
               PROVE  FrameUses(f) # {}
    BY DEF FramesConserved
  <1>1. AllCalm
    BY DEF AllCalm, Calm, NoPageOut, Out
  <1>2. Used(f)
    BY <1>1 DEF ConservedInv
  <1>3. ASSUME NEW n \in 1..Len(free_fp), free_fp[n] = f
        PROVE  <<"free", n>> \in FrameUses(f)
    BY <1>3 DEF FrameUses
  <1>4. ASSUME NEW p \in Procs, NEW pg \in Pages, Resident(p, pg), Fpn(p, pg) = f
        PROVE  <<p, pg>> \in FrameUses(f)
    BY <1>4 DEF FrameUses, Fpn
  <1> QED
    BY <1>2, <1>3, <1>4 DEF Used
------------------------------------------------------------------------------
(* What a process reads.                                                   *)

(* Only size 0 is aligned to 0.                                            *)
LEMMA AlignedZero ==
  ASSUME NEW sz \in Nat, PAGING_PAGE_ALIGNSZ(sz) = 0
  PROVE  sz = 0
  <1> DEFINE k == (sz + PAGESZ - 1) \div PAGESZ
  <1>1. PAGESZ \in Nat \ {0} /\ sz + PAGESZ - 1 \in Nat
    BY RegionsAssumption
  <1>2. k \in Nat /\ (sz + PAGESZ - 1) % PAGESZ \in 0..PAGESZ - 1
        /\ sz + PAGESZ - 1 = k * PAGESZ + ((sz + PAGESZ - 1) % PAGESZ)
    BY <1>1, DivMod
  <1>3. k * PAGESZ = 0
    BY DEF PAGING_PAGE_ALIGNSZ
  <1> HIDE DEF k
  <1> QED
    BY <1>1, <1>2, <1>3

(* HeapInv is about the limit and the break.                               *)
LEMMA HeapSame ==
  ASSUME HeapInv, UNCHANGED <<vm_end, sbrk>>
  PROVE  HeapInv'
  BY DEF HeapInv

(* inc_vma_limit leaves an area empty only when it adds nothing.           *)
LEMMA LimitHeap ==
  ASSUME TypeInv, HeapInv, NEW p \in Procs, NEW sz \in Nat, inc_vma_limit(p, sz)
  PROVE  /\ vm_end' \in [Procs -> Int] /\ \A q \in Procs \ {p} : vm_end'[q] = vm_end[q]
         /\ vm_end'[p] = 0 => sbrk[p] = 0 /\ PAGING_PAGE_ALIGNSZ(sz) = 0
  <1>1. vm_end \in [Procs -> Nat] /\ PAGING_PAGE_ALIGNSZ(sz) \in Nat
    BY AlignedSize, RegionsAssumption DEF TypeInv, TypeOK
  <1>2. CASE validate_overlap(p, sbrk[p], sbrk[p] + PAGING_PAGE_ALIGNSZ(sz))
    <2>1. vm_end' = vm_end /\ vm_end[p] # 0
      BY <1>2 DEF inc_vma_limit, validate_overlap
    <2> QED
      BY <1>1, <2>1
  <1>3. CASE ~validate_overlap(p, sbrk[p], sbrk[p] + PAGING_PAGE_ALIGNSZ(sz))
    <2>1. vm_end' = [vm_end EXCEPT ![p] = @ + PAGING_PAGE_ALIGNSZ(sz)]
      BY <1>3 DEF inc_vma_limit
    <2>2. vm_end'[p] = vm_end[p] + PAGING_PAGE_ALIGNSZ(sz)
      BY <1>1, <2>1
    <2>3. vm_end'[p] = 0 => vm_end[p] = 0 /\ PAGING_PAGE_ALIGNSZ(sz) = 0
      BY <1>1, <2>2
    <2>4. vm_end' \in [Procs -> Int] /\ \A q \in Procs \ {p} : vm_end'[q] = vm_end[q]
      BY <1>1, <2>1
    <2> QED
      BY <2>3, <2>4 DEF HeapInv
  <1> QED
    BY <1>2, <1>3

(* Every step of the allocator keeps HeapInv.                              *)
LEMMA HeapStep ==
  ASSUME TypeInv, HeapInv, NEW p \in Procs, RegionStep(p)
  PROVE  HeapInv'
  <1>0. sbrk \in [Procs -> Nat] /\ vm_end \in [Procs -> Nat]
    BY RegionsAssumption DEF TypeInv, TypeOK
  <1>1. CASE Grow(p)
    <2> DEFINE size == call[p].size
               inc_sz == PAGING_PAGE_ALIGNSZ(size)
    <2>1. size \in Nat /\ inc_sz \in Nat /\ PAGING_PAGE_ALIGNSZ(inc_sz) = inc_sz
      BY <1>1, CallType, AlignedSize DEF Grow
    <2>2. CASE vm_end[p] - sbrk[p] >= size
      <3>1. vm_end' = vm_end /\ sbrk' = [sbrk EXCEPT ![p] = @ + size]
        BY <1>1, <2>2 DEF Grow
      <3>2. vm_end[p] = 0 => sbrk[p] + size = 0
        BY <1>0, <2>1, <2>2 DEF HeapInv
      <3> QED
        BY <1>0, <3>1, <3>2 DEF HeapInv
    <2>3. CASE ~(vm_end[p] - sbrk[p] >= size)
      <3>1. inc_vma_limit(p, inc_sz) /\ sbrk' = [sbrk EXCEPT ![p] = @ + inc_sz + size]
        BY <1>1, <2>3 DEF Grow
      <3> HIDE DEF inc_sz
      <3>2. /\ \A q \in Procs \ {p} : vm_end'[q] = vm_end[q]
            /\ vm_end'[p] = 0 => sbrk[p] = 0 /\ inc_sz = 0
        BY <2>1, <3>1, LimitHeap
      <3>3. inc_sz = 0 => size = 0
        BY <2>1, AlignedZero DEF inc_sz
      <3>4. sbrk'[p] = sbrk[p] + inc_sz + size /\ \A q \in Procs \ {p} : sbrk'[q] = sbrk[q]
        BY <1>0, <3>1
      <3>5. vm_end'[p] = 0 => sbrk'[p] = 0
        BY <3>2, <3>3, <3>4
      <3> QED
        BY <3>2, <3>4, <3>5 DEF HeapInv
    <2> QED
      BY <2>2, <2>3
  <1>2. ASSUME NEW sz \in Sizes, MemmapInc(p, sz)
        PROVE  HeapInv'
    <2>1. inc_vma_limit(p, sz) /\ sbrk' = [sbrk EXCEPT ![p] = @ + PAGING_PAGE_ALIGNSZ(sz)]
      BY <1>2 DEF MemmapInc
    <2>2. /\ \A q \in Procs \ {p} : vm_end'[q] = vm_end[q]
          /\ vm_end'[p] = 0 => sbrk[p] = 0 /\ PAGING_PAGE_ALIGNSZ(sz) = 0
      BY <2>1, SizeNat, LimitHeap
    <2>4. sbrk'[p] = sbrk[p] + PAGING_PAGE_ALIGNSZ(sz) /\ \A q \in Procs \ {p} : sbrk'[q] = sbrk[q]
      BY <1>0, <2>1
    <2>5. vm_end'[p] = 0 => sbrk'[p] = 0
      BY <2>2, <2>4
    <2> QED
      BY <2>2, <2>4, <2>5 DEF HeapInv
  <1>3. ASSUME ~Grow(p), ~\E sz \in Sizes : MemmapInc(p, sz)
        PROVE  UNCHANGED <<vm_end, sbrk>>
    BY <1>3 DEF RegionStep, AllocStep, CallStep, ScanSkip, ScanSplit, ScanExact, ScanFound,
                AllocEnter, Free, areaVars
  <1> QED
    BY <1>1, <1>2, <1>3, HeapSame

(* Once RAM has run out of frames it has none for ever, and no page is     *)
(* mapped any more.                                                        *)
LEMMA GrowsFree ==
  ASSUME TypeInv, NEW p \in Procs, NEW n \in Nat, Grows(p, n)
  PROVE  /\ free_fp' # <<>> => n <= Len(free_fp) /\ free_fp # <<>>
         /\ free_fp = <<>> => free_fp' = <<>> /\ \A q \in Procs : \A pg \in Pages : pgd'[q][pg] = pgd[q][pg]
  <1>1. free_fp \in Seq(Frames) /\ Len(free_fp) \in Nat /\ Limit(p) \in Nat
    BY LenProperties DEF TypeInv, TypeOK, AreaInv
  <1>2. CASE ~(n <= Len(free_fp))
    BY <1>2, GrowsNot
  <1>3. CASE n <= Len(free_fp)
    <2>1. free_fp' \in Seq(Frames) /\ Len(free_fp') = Len(free_fp) - n /\ Len(free_fp') \in Nat
      BY <1>3, GrowsPages, LenProperties
    <2>2. ASSUME free_fp = <<>>
          PROVE  free_fp' = <<>> /\ \A q \in Procs : \A pg \in Pages : pgd'[q][pg] = pgd[q][pg]
      <3>1. Len(free_fp) = 0
        BY <2>2
      <3>2. Len(free_fp') = 0 /\ n = 0
        BY <1>1, <1>3, <2>1, <3>1
      <3>3. free_fp' = <<>>
        BY <2>1, <3>2, EmptySeq
      <3>4. Limit(p)..Limit(p) + n - 1 = {}
        BY <1>1, <3>2
      <3> QED
        BY <1>3, <3>3, <3>4, GrowsPages
    <2> QED
      BY <1>3, <2>2
  <1> QED
    BY <1>2, <1>3

(* Before a step after which nothing is out, nothing was out, and the step *)
(* is no page fault.                                                       *)
LEMMA CalmBefore ==
  ASSUME TableInv, CalmInv, [PagingNext]_pagingVars, AllCalm'
  PROVE  /\ AllCalm /\ FramesSole /\ \A q \in Procs : FifoInv(q)
         /\ \A p \in Procs, pgn \in Pages : ~Faults(p, pgn)
         /\ \/ TableSame
            \/ \E p \in Procs, n \in Nat : Extends(p, n)
            \/ \E p \in Procs, n \in Nat : Overruns(p, n)
  BY CalmSticky, PagingCases DEF AllCalm, CalmInv

(* Every step keeps MappedInv.                                             *)
LEMMA MappedNext ==
  ASSUME TableInv, CalmInv, MappedInv, [PagingNext]_pagingVars
  PROVE  MappedInv'
  <1> SUFFICES ASSUME AllCalm', free_fp' # <<>>, NEW q \in Procs, q \notin wild', NEW pg \in Pages,
                      pg < Limit(q)'
               PROVE  Present(q, pg)'
    BY DEF MappedInv
  <1>0. TypeInv
    BY DEF TableInv
  <1>1. /\ AllCalm /\ q \notin wild
        /\ \/ TableSame
           \/ \E p \in Procs, n \in Nat : Extends(p, n)
           \/ \E p \in Procs, n \in Nat : Overruns(p, n)
    BY CalmBefore, WildGrows
  <1>2. CASE TableSame
    BY <1>1, <1>2 DEF TableSame, AreaSame, MappedInv, Present, Limit
  <1>3. ASSUME NEW p \in Procs, NEW n \in Nat, Extends(p, n)
        PROVE  Present(q, pg)'
    <2>1. n <= Len(free_fp) /\ free_fp # <<>>
      BY <1>0, <1>3, GrowsFree DEF Extends
    <2>2. pg < Limit(q) => Present(q, pg)
      BY <1>1, <2>1 DEF MappedInv
    <2>3. Limit(p)' = Limit(p) + n /\ (q # p => Limit(q)' = Limit(q)) /\ Limit(p) \in Nat /\ pg \in Nat
      BY <1>0, <1>3, GrowsLimit DEF Extends, TypeInv, AreaInv, Pages
    <2>4. CASE q = p /\ pg \in Limit(p)..Limit(p) + n - 1
      BY <1>0, <1>3, <2>1, <2>4, GrowsPages DEF Extends, Present
    <2>5. CASE ~(q = p /\ pg \in Limit(p)..Limit(p) + n - 1)
      <3>1. pgd'[q][pg] = pgd[q][pg]
        BY <1>0, <1>3, <2>1, <2>5, GrowsPages DEF Extends
      <3>2. pg < Limit(q)
        BY <2>3, <2>5
      <3> QED
        BY <2>2, <3>1, <3>2 DEF Present
    <2> QED
      BY <2>4, <2>5
  <1>4. ASSUME NEW p \in Procs, NEW n \in Nat, Overruns(p, n)
        PROVE  Present(q, pg)'
    <2>1. q # p /\ pgd' = pgd /\ free_fp # <<>> /\ Limit(q)' = Limit(q)
      BY <1>0, <1>4, OverrunsSame
    <2> QED
      BY <1>1, <2>1 DEF MappedInv, Present
  <1> QED
    BY <1>1, <1>2, <1>3, <1>4

(* The address of an offset in a page.                                     *)
LEMMA AddressOfPage ==
  ASSUME NEW pg \in Pages, NEW off \in Cells
  PROVE  /\ pg * PAGESZ + off \in Addrs
         /\ PAGING_PGN(pg * PAGESZ + off) = pg
         /\ (pg * PAGESZ + off) % PAGESZ = off
  <1>1. PAGESZ \in Nat \ {0} /\ MAX_PGN \in Nat \ {0} /\ pg \in 0..MAX_PGN - 1 /\ off \in 0..PAGESZ - 1
        /\ pg \in Nat
    BY RegionsAssumption DEF Pages, Cells
  <1>2. pg * PAGESZ + off \in 0..MAX_PGN * PAGESZ - 1
    BY <1>1, Joined
  <1>3. (pg * PAGESZ + off) \div PAGESZ = pg /\ (pg * PAGESZ + off) % PAGESZ = off
    BY <1>1, DivModOfMul
  <1>4. pg % MAX_PGN = pg
    BY <1>1
  <1> QED
    BY <1>2, <1>3, <1>4 DEF Addrs, PAGING_PGN

(* A process that touches a byte of a region of its own and has no page    *)
(* has been left without frames.                                           *)
LEMMA NoFrameLeft ==
  ASSUME TableInv, CalmInv, HeapInv, MappedInv, DisjointInv, StayInside, AllCalm,
         NEW p \in Procs, NEW rgid, NEW offset \in Nat, MayTouch(p, rgid, offset), fifo_pgn[p] = <<>>
  PROVE  free_fp = <<>>
  <1> SUFFICES ASSUME free_fp # <<>> PROVE FALSE
    OBVIOUS
  <1> DEFINE rg == symrgtbl[p][rgid]
  <1>0. TypeInv /\ rgid \in Symbols /\ offset < Size(rg)
    BY DEF TableInv, MayTouch
  <1>1. rg \in Regs /\ Within(rg, sbrk[p]) /\ sbrk[p] \in Nat
    BY <1>0 DEF DisjointInv, Apartness, TypeInv, TypeOK
  <1>2. sbrk[p] # 0
    BY <1>0, <1>1 DEF Regs, Within, Size
  <1>3. vm_end[p] # 0
    BY <1>2 DEF HeapInv
  <1>4. p \notin wild /\ Limit(p) \in Nat /\ vm_end[p] = Limit(p) * PAGESZ /\ MAX_PGN \in Nat \ {0} /\ PAGESZ \in Nat
    BY <1>0, RegionsAssumption DEF TypeInv, AreaInv, MayTouch
  <1>5. 0 \in Pages /\ 0 < Limit(p)
    BY <1>3, <1>4 DEF Pages
  <1>6. Present(p, 0)
    BY <1>4, <1>5 DEF MappedInv
  <1>7. Listed(p, 0)
    BY <1>5, <1>6 DEF AllCalm, CalmInv, FifoInv
  <1>8. 1..Len(fifo_pgn[p]) = {}
    OBVIOUS
  <1> QED
    BY <1>7, <1>8 DEF Listed

(* A store to the frame of a page changes what that address reads and no   *)
(* other, since the frame is that page's alone.                            *)
LEMMA StoredReads ==
  ASSUME TableInv, FramesSole, NoPageOut, NEW p \in Procs, NEW addr \in Addrs, NEW val \in Vals,
         Present(p, PAGING_PGN(addr)),
         pgd' = pgd, free_fp' = free_fp,
         ram' = MEMPHY_write(ram, Fpn(p, PAGING_PGN(addr)), addr % PAGESZ, val),
         shadow' = [shadow EXCEPT ![p][addr] = val],
         NEW q \in Procs, NEW a \in Addrs, ReadOf(q, a)
  PROVE  ReadOf(q, a)'
  <1> DEFINE pgn == PAGING_PGN(addr)
             off == addr % PAGESZ
             f == Fpn(p, pgn)
             pg == PAGING_PGN(a)
             c == a % PAGESZ
             g == Fpn(q, pg)
  <1>1. /\ pgn \in Pages /\ off \in Cells /\ addr = pgn * PAGESZ + off
        /\ pg \in Pages /\ c \in Cells /\ a = pg * PAGESZ + c
    BY PageOfAddress
  <1>2. \A r \in Procs : \A ph \in Pages : Resident(r, ph) <=> Present(r, ph)
    BY DEF NoPageOut, Resident, Present
  <1>3. f \in Frames /\ (Present(q, pg) => g \in Frames)
    BY <1>1, <1>2 DEF TableInv, FramesInRange
  <1>4. /\ Present(q, pg)' <=> Present(q, pg)
        /\ Seen(q, a) = IF g \in Frames THEN ram[g][c] ELSE Unset
        /\ Seen(q, a)' = IF g \in Frames THEN ram'[g][c] ELSE Unset
    BY DEF Present, Seen, Fpn
  <1>5. ram \in [Frames -> [Cells -> Vals]] /\ shadow \in [Procs -> [Addrs -> Vals \cup {Unset}]]
    BY DEF TableInv, DataType
  <1>6. /\ ram'[f][off] = val
        /\ \A h \in Frames, d \in Cells : h # f \/ d # off => ram'[h][d] = ram[h][d]
    <2>1. ram' = MEMPHY_write(ram, f, off, val)
      OBVIOUS
    <2> HIDE DEF f, off
    <2> QED
      BY <1>1, <1>3, <1>5, <2>1, WrittenType
  <1>7. Present(q, pg) /\ g = f => q = p /\ pg = pgn
    BY <1>1, <1>2 DEF FramesSole
  <1>8. shadow'[q][a] = IF q = p /\ a = addr THEN val ELSE shadow[q][a]
    BY <1>5
  <1>9. (ReadOf(q, a))' <=> (shadow'[q][a] # Unset =>
            IF Present(q, pg)' THEN Seen(q, a)' = shadow'[q][a] ELSE free_fp' = <<>>)
    BY DEF ReadOf
  <1>10. ReadOf(q, a) <=> (shadow[q][a] # Unset =>
            IF Present(q, pg) THEN Seen(q, a) = shadow[q][a] ELSE free_fp = <<>>)
    BY DEF ReadOf
  <1>a. Present(p, pgn)
    OBVIOUS
  <1> HIDE DEF pgn, off, f, pg, c, g
  <1>11. CASE q = p /\ a = addr
    <2>1. pg = pgn /\ c = off /\ g = f
      BY <1>11 DEF pg, pgn, c, off, g, f
    <2> QED
      BY <1>3, <1>4, <1>6, <1>8, <1>9, <1>11, <1>a, <2>1
  <1>12. CASE ~(q = p /\ a = addr)
    <2>1. Present(q, pg) => ram'[g][c] = ram[g][c]
      <3>1. Present(q, pg) => g # f \/ c # off
        BY <1>1, <1>7, <1>12
      <3> QED
        BY <1>1, <1>3, <1>6, <3>1
    <2>2. shadow'[q][a] = shadow[q][a]
      BY <1>8, <1>12
    <2> QED
      BY <1>4, <1>9, <1>10, <2>1, <2>2
  <1> QED
    BY <1>11, <1>12

(* If no page below a limit is out, no page is: the pages above were never *)
(* mapped.                                                                 *)
LEMMA CalmNoPageOut ==
  ASSUME TableInv, CalmInv, AllCalm
  PROVE  NoPageOut
  <1>1. ASSUME NEW p \in Procs, NEW pg \in Pages
        PROVE  ~Out(p, pg)
    <2>1. CASE Present(p, pg)
      BY <2>1 DEF AllCalm, CalmInv, FifoInv, Calm
    <2>2. CASE ~Present(p, pg)
      BY <2>2, NeverSet DEF TableInv, Untouched, Out
    <2> QED
      BY <2>1, <2>2
  <1> QED
    BY <1>1 DEF NoPageOut, Out

(* What leaves tables and RAM alone changes no byte.                       *)
LEMMA UnchangedReads ==
  ASSUME pgd' = pgd, free_fp' = free_fp, ram' = ram, NEW q \in Procs, NEW a \in Addrs,
         shadow'[q][a] = shadow[q][a], ReadOf(q, a)
  PROVE  ReadOf(q, a)'
  BY DEF ReadOf, Present, Seen

(* Mapping new pages changes no byte of a page that is present; a page     *)
(* that gets a frame had no byte written, or RAM would have been empty.    *)
LEMMA GrownReads ==
  ASSUME TypeInv, NEW p \in Procs, NEW n \in Nat, Grows(p, n), ram' = ram, shadow' = shadow,
         \A r \in Procs : FifoInv(r), NEW q \in Procs, NEW a \in Addrs, ReadOf(q, a)
  PROVE  ReadOf(q, a)'
  <1> DEFINE pg == PAGING_PGN(a)
  <1>1. pg \in Pages
    BY PageOfAddress
  <1>2. pgd'[q][pg] = pgd[q][pg] => (Present(q, pg)' <=> Present(q, pg)) /\ Seen(q, a)' = Seen(q, a)
    BY DEF Present, Seen
  <1>3. ReadOf(q, a) <=> (shadow[q][a] # Unset =>
            IF Present(q, pg) THEN Seen(q, a) = shadow[q][a] ELSE free_fp = <<>>)
    BY DEF ReadOf
  <1>4. (ReadOf(q, a))' <=> (shadow'[q][a] # Unset =>
            IF Present(q, pg)' THEN Seen(q, a)' = shadow'[q][a] ELSE free_fp' = <<>>)
    BY DEF ReadOf
  <1> HIDE DEF pg
  <1>5. CASE Present(q, pg)
    <2>1. pg < Limit(q) /\ Limit(q) \in Nat /\ pg \in Nat
      BY <1>1, <1>5 DEF FifoInv, TypeInv, AreaInv, Pages
    <2>2. CASE ~(n <= Len(free_fp))
      BY <1>2, <1>3, <1>4, <1>5, <2>2, GrowsNot
    <2>3. CASE n <= Len(free_fp)
      <3>1. ~(q = p /\ pg \in Limit(p)..Limit(p) + n - 1)
        BY <2>1
      <3>2. pgd'[q][pg] = pgd[q][pg]
        BY <1>1, <2>3, <3>1, GrowsPages
      <3> QED
        BY <1>2, <1>3, <1>4, <1>5, <3>2
    <2> QED
      BY <2>2, <2>3
  <1>6. CASE ~Present(q, pg) /\ free_fp = <<>>
    <2>1. free_fp' = <<>> /\ pgd'[q][pg] = pgd[q][pg]
      BY <1>1, <1>6, GrowsFree
    <2> QED
      BY <1>2, <1>4, <1>6, <2>1
  <1>7. CASE shadow[q][a] = Unset
    BY <1>4, <1>7
  <1> QED
    BY <1>3, <1>5, <1>6, <1>7

(* Frames taken for pages beyond the page table change no byte.            *)
LEMMA OverrunReads ==
  ASSUME TypeInv, NEW p \in Procs, NEW n \in Nat, Passes(p, n), ram' = ram, shadow' = shadow,
         NEW q \in Procs, NEW a \in Addrs, ReadOf(q, a)
  PROVE  ReadOf(q, a)'
  BY PassesFrames DEF ReadOf, Present, Seen

(* What the proof about the bytes uses of the tables.                      *)
ReadBase == TableInv /\ CalmInv /\ HeapInv /\ MappedInv /\ DisjointInv

(* libwrite keeps what every process reads, of the addresses it does not   *)
(* write, and stores the byte where a read finds it.                       *)
LEMMA WriteReads ==
  ASSUME StayInside, ReadBase, AllCalm, \A r \in Procs, pg \in Pages : ~Faults(r, pg),
         NEW p \in Procs, NEW rgid \in RgIds, NEW offset \in Offsets, NEW val \in Vals,
         Write(p, rgid, offset, val),
         NEW q \in Procs, NEW a \in Addrs, q \notin wild', ReadOf(q, a)
  PROVE  ReadOf(q, a)'
  <1> DEFINE addr == Address(p, rgid, offset)
             pgn == PAGING_PGN(addr)
             pte == pgd'[p][pgn]
  <1>0. TypeInv /\ TableInv /\ FramesSole /\ NoPageOut /\ offset \in Nat /\ MayTouch(p, rgid, offset)
    BY CalmNoPageOut, PagingAssumption DEF ReadBase, TableInv, CalmInv, Write
  <1>1. /\ Elsewhere /\ addr \in Addrs
        /\ shadow' = [shadow EXCEPT ![p][addr] = val]
    BY <1>0, WriteShape
  <1>2. PICK base :
               /\ \/ PagesSame /\ mswp' = mswp /\ base = ram
                  \/ SwapStep(p, pgn) /\ base = Brought(p, pgn)
               /\ \/ ram' = base /\ (p \in wild' \/ (~PAGING_PAGE_PRESENT(pte) /\ fifo_pgn[p] = <<>>))
                  \/ /\ PAGING_PAGE_PRESENT(pte) /\ PAGING_FPN(pte) \in Frames
                     /\ ram' = MEMPHY_write(base, PAGING_FPN(pte), addr % PAGESZ, val)
    BY <1>0, WriteShape
  <1> HIDE DEF addr
  <1>3. pgn \in Pages /\ addr % PAGESZ \in Cells
    BY <1>1, PageOfAddress
  <1>4. ~SwapStep(p, pgn)
    BY <1>1, <1>3 DEF Elsewhere, Faults
  <1>5. PagesSame /\ base = ram
    BY <1>2, <1>4
  <1>6. pgd' = pgd /\ free_fp' = free_fp
    BY <1>1, <1>5 DEF PagesSame, Elsewhere
  <1>7. shadow \in [Procs -> [Addrs -> Vals \cup {Unset}]]
    BY <1>0 DEF TableInv, DataType
  <1>8. shadow'[q][a] = IF q = p /\ a = addr THEN val ELSE shadow[q][a]
    BY <1>1, <1>7
  <1>9. CASE ram' = base /\ (p \in wild' \/ (~PAGING_PAGE_PRESENT(pte) /\ fifo_pgn[p] = <<>>))
    <2>1. CASE ~(q = p /\ a = addr)
      BY <1>5, <1>6, <1>8, <1>9, <2>1, UnchangedReads
    <2>2. CASE q = p /\ a = addr
      <3>1. ~PAGING_PAGE_PRESENT(pgd'[q][PAGING_PGN(a)]) /\ fifo_pgn[p] = <<>>
        BY <1>9, <2>2
      <3>2. free_fp' = <<>>
        BY <1>0, <1>6, <3>1, NoFrameLeft DEF ReadBase
      <3> QED
        BY <3>1, <3>2 DEF ReadOf, Present
    <2> QED
      BY <2>1, <2>2
  <1>10. CASE /\ PAGING_PAGE_PRESENT(pte)
              /\ ram' = MEMPHY_write(base, PAGING_FPN(pte), addr % PAGESZ, val)
    <2>1. Present(p, pgn) /\ ram' = MEMPHY_write(ram, Fpn(p, pgn), addr % PAGESZ, val)
      BY <1>5, <1>6, <1>10 DEF Present, Fpn
    <2> QED
      BY <1>0, <1>1, <1>6, <2>1, StoredReads
  <1> QED
    BY <1>2, <1>9, <1>10

(* SYSMEM_IO_WRITE to a frame of its own, likewise.                        *)
LEMMA MemmapWriteReads ==
  ASSUME ReadBase, AllCalm, NEW p \in Procs, NEW pg \in Pages, NEW offset \in Offsets \cap Cells, NEW val \in Vals,
         MemmapWrite(p, pg, offset, val), NEW q \in Procs, NEW a \in Addrs, ReadOf(q, a)
  PROVE  ReadOf(q, a)'
  <1> DEFINE addr == pg * PAGESZ + offset
  <1>0. TableInv /\ FramesSole /\ NoPageOut
    BY CalmNoPageOut DEF ReadBase, CalmInv
  <1>1. addr \in Addrs /\ PAGING_PGN(addr) = pg /\ addr % PAGESZ = offset
    BY AddressOfPage
  <1>2. /\ Resident(p, pg) /\ pgd' = pgd /\ free_fp' = free_fp
        /\ ram' = MEMPHY_write(ram, PAGING_FPN(pgd[p][pg]), offset, val)
        /\ shadow' = [shadow EXCEPT ![p][addr] = val]
    BY DEF MemmapWrite, MayMemmap, regionVars, areaVars
  <1> HIDE DEF addr
  <1>3. /\ Present(p, PAGING_PGN(addr))
        /\ ram' = MEMPHY_write(ram, Fpn(p, PAGING_PGN(addr)), addr % PAGESZ, val)
    BY <1>1, <1>2 DEF Resident, Present, Fpn
  <1> QED
    BY <1>0, <1>1, <1>2, <1>3, StoredReads

(* Every step keeps ReadInv.                                               *)
LEMMA ReadInvNext ==
  ASSUME StayInside, ReadBase, ReadInv, [PagingNext]_pagingVars
  PROVE  ReadInv'
  <1> SUFFICES ASSUME AllCalm', NEW q \in Procs, q \notin wild', NEW a \in Addrs
               PROVE  ReadOf(q, a)'
    BY DEF ReadInv
  <1>0. TableInv /\ CalmInv /\ TypeInv
    BY DEF ReadBase, TableInv
  <1>1. /\ AllCalm /\ \A r \in Procs : FifoInv(r)
        /\ \A p \in Procs, pgn \in Pages : ~Faults(p, pgn)
    BY <1>0, CalmBefore
  <1>2. wild \subseteq wild' => ReadOf(q, a)
    BY <1>1 DEF ReadInv
  <1>3. CASE UNCHANGED pagingVars
    BY <1>2, <1>3, UnchangedReads DEF pagingVars, regionVars, areaVars
  <1>4. ASSUME NEW p \in Procs, RegionStep(p), DataSame
        PROVE  ReadOf(q, a)'
    <2>1. ReadOf(q, a)
      BY <1>2, <1>4, StepWild DEF RegionStep
    <2>2. CASE AreaSame
      BY <1>4, <2>1, <2>2, UnchangedReads DEF AreaSame, DataSame
    <2>3. ASSUME NEW n \in Nat, Grows(p, n)
          PROVE  ReadOf(q, a)'
      BY <1>0, <1>1, <1>4, <2>1, <2>3, GrownReads DEF DataSame
    <2>4. ASSUME NEW n \in Nat, Passes(p, n)
          PROVE  ReadOf(q, a)'
      BY <1>0, <1>4, <2>1, <2>4, OverrunReads DEF DataSame
    <2> QED
      BY <1>0, <1>4, <2>2, <2>3, <2>4, StepArea DEF AreaMoves
  <1>5. ASSUME NEW p \in Procs, AccessStep(p)
        PROVE  ReadOf(q, a)'
    <2>1. ReadOf(q, a) /\ Elsewhere
      BY <1>0, <1>2, <1>5, AccessShape
    <2>2. ASSUME NEW rgid \in RgIds, NEW offset \in Offsets, Read(p, rgid, offset)
          PROVE  ReadOf(q, a)'
      <3>1. PagesSame /\ ram' = ram /\ shadow' = shadow
        BY <1>0, <1>1, <2>2, ReadShape DEF Elsewhere, Faults
      <3> QED
        BY <2>1, <3>1, UnchangedReads DEF PagesSame, Elsewhere
    <2>3. ASSUME NEW rgid \in RgIds, NEW offset \in Offsets, NEW val \in Vals, Write(p, rgid, offset, val)
          PROVE  ReadOf(q, a)'
      BY <1>1, <2>1, <2>3, WriteReads
    <2>4. ASSUME NEW pg \in Pages, NEW swpfpn \in SwapFrames, MemmapSwap(p, pg, swpfpn)
          PROVE  ReadOf(q, a)'
      BY <2>1, <2>4, UnchangedReads DEF MemmapSwap, regionVars, areaVars
    <2>5. ASSUME NEW pg \in Pages, NEW offset \in Offsets \cap Cells, NEW val \in Vals,
                 MemmapWrite(p, pg, offset, val)
          PROVE  ReadOf(q, a)'
      BY <1>1, <2>1, <2>5, MemmapWriteReads
    <2> QED
      BY <1>5, <2>2, <2>3, <2>4, <2>5 DEF AccessStep
  <1> QED
    BY <1>3, <1>4, <1>5 DEF PagingNext, RegionStep, DataSame

(* The allocator's invariants hold with accesses too.                      *)
LEMMA DisjointNext ==
  ASSUME TableInv, DisjointInv, HeapInv, [PagingNext]_pagingVars
  PROVE  DisjointInv' /\ HeapInv'
  <1>0. TypeInv
    BY DEF TableInv
  <1>1. CASE UNCHANGED pagingVars
    BY <1>1 DEF pagingVars, regionVars, areaVars, scanVars, DisjointInv, HeapInv
  <1>2. ASSUME NEW p \in Procs, RegionStep(p)
        PROVE  DisjointInv' /\ HeapInv'
    BY <1>0, <1>2, DisjointStep, HeapStep
  <1>3. ASSUME NEW p \in Procs, AccessStep(p)
        PROVE  DisjointInv' /\ HeapInv'
    BY <1>3, AccessShape DEF Elsewhere, scanVars, DisjointInv, HeapInv
  <1> QED
    BY <1>1, <1>2, <1>3 DEF PagingNext, RegionStep
------------------------------------------------------------------------------
(* The theorems.                                                           *)

(* The inductive invariant of paging.                                      *)
PagingInv ==
  /\ TableInv /\ SwapInv /\ FrameInv /\ CalmInv /\ ConservedInv
  /\ DisjointInv /\ HeapInv /\ MappedInv

(* PagingInv is an invariant of paging.                                    *)
THEOREM PagingInvariant == PagingSpec => []PagingInv
  <1>1. PagingInit => PagingInv
    <2> SUFFICES ASSUME PagingInit PROVE PagingInv
      OBVIOUS
    <2>1. DisjointInv
      BY DisjointInit DEF PagingInit
    <2>2. HeapInv /\ \A p \in Procs : Limit(p) = 0
      <3>1. 0 \div PAGESZ = 0
        BY RegionsAssumption
      <3> QED
        BY <3>1 DEF PagingInit, Init, HeapInv, Limit
    <2>3. MappedInv
      BY <2>2 DEF MappedInv, Pages
    <2> QED
      BY <2>1, <2>2, <2>3, TableInit, SwapInvInit, CalmInit DEF PagingInv
  <1>2. PagingInv /\ [PagingNext]_pagingVars => PagingInv'
    BY TableNext, SwapInvNext, FrameInvNext, CalmInvNext, ConservedNext, DisjointNext, MappedNext
    DEF PagingInv
  <1> QED
    BY <1>1, <1>2, PTL DEF PagingSpec

(* No page-out overwrites another page that is out: a swap frame holds at  *)
(* most one page of all processes, and none while it is free.              *)
THEOREM PagingSwapDistinct == PagingSpec => []SwapFramesDistinct
  <1>1. PagingInv => SwapFramesDistinct
    BY SwapInvDistinct DEF PagingInv
  <1> QED
    BY <1>1, PagingInvariant, PTL

(* No frame of RAM is used by two pages or while it is free, however pages *)
(* are swapped, until pg_getpage has lost a swap frame.                    *)
THEOREM PagingExclusive == PagingSpec => []ExclusiveUntilSwapLost
  <1>1. SwapConserved => SwapKept
    BY DEF SwapConserved, SwapKept, FreeSwap, Out, SwpOf
  <1>2. PagingInv => ExclusiveUntilSwapLost
    BY <1>1, SoleExclusive DEF PagingInv, TableInv, FrameInv, ExclusiveUntilSwapLost
  <1> QED
    BY <1>2, PagingInvariant, PTL

(* Until RAM has run out, a page has been swapped out or a process is      *)
(* wild, no frame of RAM is lost.                                          *)
THEOREM PagingConserved == PagingSpec => []FramesConserved
  <1>1. PagingInv => FramesConserved
    BY ConservedFrames DEF PagingInv
  <1> QED
    BY <1>1, PagingInvariant, PTL

(* Programs that stay inside their regions read what they wrote as long as *)
(* no page has been swapped out, whatever the other processes do.          *)
THEOREM PagingReads ==
  ASSUME StayInside
  PROVE  PagingSpec => []ReadsBeforePageOut
  <1>1. PagingInit => ReadInv
    BY DEF PagingInit, ReadInv, ReadOf
  <1>2. PagingInv /\ ReadInv /\ [PagingNext]_pagingVars => ReadInv'
    BY ReadInvNext DEF PagingInv, ReadBase
  <1>3. ReadInv => ReadsBeforePageOut
    <2> SUFFICES ASSUME ReadInv, NoPageOut, NEW p \in Procs \ wild, NEW a \in Addrs,
                        shadow[p][a] # Unset, Present(p, PAGING_PGN(a))
                 PROVE  Seen(p, a) = shadow[p][a]
      BY DEF ReadsBeforePageOut, ReadYourWrites, Present
    <2>1. AllCalm
      BY DEF AllCalm, Calm, NoPageOut, Out
    <2> QED
      BY <2>1 DEF ReadInv, ReadOf
  <1> QED
    BY <1>1, <1>2, <1>3, PagingInvariant, PTL DEF PagingSpec
===============================================================================
