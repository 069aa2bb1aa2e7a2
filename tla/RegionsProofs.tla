---------------------------- MODULE RegionsProofs ----------------------------
(***************************************************************************)
(* The allocator keeps its tables in order, for every number of processes, *)
(* every page size, every size of the page table and of RAM, and all sizes *)
(* and region ids that programs ask for: types, regions that never         *)
(* overlap, frames with one user, and a FIFO list that holds exactly the   *)
(* mapped pages.                                                           *)
(*                                                                         *)
(* The inductive invariant is RegionsInv. Its three parts are proved one   *)
(* after the other: TypeInv, which no other part is needed for;            *)
(* DisjointInv, which says that regions are apart and that they lie below  *)
(* the break, since that is where a new region is cut; and PageInv, about  *)
(* the page table, the FIFO list and the free frames. What a step does to  *)
(* the area is used through Grows: either nothing changes, or n pages      *)
(* after the limit are mapped.                                             *)
(***************************************************************************)
EXTENDS Regions, SequenceTheorems, TLAPS
------------------------------------------------------------------------------
(* Arithmetic of sizes in whole pages.                                     *)

(* Multiplying by a page size keeps the order.                             *)
LEMMA MulMono ==
  ASSUME NEW P \in Nat \ {0}, NEW a \in Int, NEW b \in Int
  PROVE  /\ a <= b <=> a * P <= b * P
         /\ a < b <=> a * P < b * P
  OBVIOUS

(* The distributive law, for sizes.                                        *)
LEMMA MulPlus ==
  ASSUME NEW P \in Nat, NEW a \in Int, NEW b \in Int
  PROVE  (a + b) * P = a * P + b * P /\ a * P \in Int
  OBVIOUS

(* Division with remainder, as PAGING_PGN and the offset of an address use *)
(* it.                                                                     *)
LEMMA DivMod ==
  ASSUME NEW P \in Nat \ {0}, NEW a \in Nat
  PROVE  /\ a \div P \in Nat
         /\ a % P \in 0..P - 1
         /\ a = (a \div P) * P + (a % P)
  OBVIOUS

(* Page number and offset of an address put together from both.            *)
LEMMA DivModOfMul ==
  ASSUME NEW P \in Nat \ {0}, NEW a \in Nat, NEW c \in 0..P - 1
  PROVE  (a * P + c) \div P = a /\ (a * P + c) % P = c
  OBVIOUS

(* The widths of the bit fields of an entry: 13 bits of frame number, 5    *)
(* bits of swap type and 21 bits of swap offset, over the same 26 low      *)
(* bits.                                                                   *)
LEMMA Widths ==
  /\ FpnRange \in Nat \ {0} /\ SwpTypRange \in Nat \ {0} /\ SwpOffRange \in Nat \ {0}
  /\ SwpOffRange * SwpTypRange = FpnRange * FpnRange
  /\ 0 % SwpTypRange = 0 /\ 0 \in 0..SwpTypRange - 1
  BY SMT DEF FpnRange, SwpTypRange, SwpOffRange

(* Two fields side by side fit in the product of their ranges.             *)
LEMMA Joined ==
  ASSUME NEW m \in Nat \ {0}, NEW n \in Nat \ {0}, NEW hi \in 0..m - 1, NEW lo \in 0..n - 1
  PROVE  hi * n + lo \in 0..m * n - 1
  <1>1. hi * n + lo \in Nat
    OBVIOUS
  <1>2. hi * n <= (m - 1) * n
    BY MulMono
  <1>3. (m - 1) * n = m * n - n
    OBVIOUS
  <1> QED
    BY <1>1, <1>2, <1>3
------------------------------------------------------------------------------
(* Page table entries.                                                     *)

(* pte_set_fpn makes a present entry that is not swapped and holds the     *)
(* frame number, whatever the entry was.                                   *)
LEMMA SetFpn ==
  ASSUME NEW pte \in PTEs, NEW fpn \in 0..FpnRange - 1
  PROVE  /\ pte_set_fpn(pte, fpn) \in PTEs
         /\ PAGING_FPN(pte_set_fpn(pte, fpn)) = fpn
         /\ PAGING_PAGE_PRESENT(pte_set_fpn(pte, fpn))
         /\ ~pte_set_fpn(pte, fpn).swapped
  <1> DEFINE hi == pte.low \div FpnRange
  <1>1. pte.low \in Nat /\ pte.low < FpnRange * FpnRange
    BY Widths DEF PTEs
  <1>2. fpn % FpnRange = fpn
    BY Widths
  <1>a. pte.low \in Nat /\ FpnRange \in Nat \ {0}
    BY <1>1, Widths
  <1>b. hi \in Nat /\ pte.low % FpnRange \in 0..FpnRange - 1
        /\ pte.low = hi * FpnRange + (pte.low % FpnRange)
    BY <1>a, DivMod
  <1> HIDE DEF hi
  <1>3. hi \in Nat /\ hi * FpnRange <= pte.low
    BY <1>a, <1>b
  <1>4. hi < FpnRange
    BY <1>1, <1>3, Widths, MulMono
  <1>5. hi * FpnRange + fpn \in 0..SwpOffRange * SwpTypRange - 1
    BY <1>3, <1>4, Widths, Joined
  <1>6. (hi * FpnRange + fpn) % FpnRange = fpn
    BY <1>3, Widths, DivModOfMul
  <1>7. pte_set_fpn(pte, fpn) = [present |-> TRUE, swapped |-> FALSE, low |-> hi * FpnRange + fpn]
    BY <1>2 DEF pte_set_fpn, hi
  <1> QED
    BY <1>5, <1>6, <1>7 DEF PTEs, PAGING_FPN, PAGING_PAGE_PRESENT

(* pte_set_swap makes a swapped entry that holds the swap offset. The      *)
(* entry is present as well: the code never clears that bit.               *)
LEMMA SetSwap ==
  ASSUME NEW pte \in PTEs, NEW swpoff \in 0..SwpOffRange - 1
  PROVE  /\ pte_set_swap(pte, 0, swpoff) \in PTEs
         /\ PAGING_PTE_SWP(pte_set_swap(pte, 0, swpoff)) = swpoff
         /\ PAGING_PAGE_PRESENT(pte_set_swap(pte, 0, swpoff))
         /\ pte_set_swap(pte, 0, swpoff).swapped
  <1> DEFINE Lows == 0..SwpOffRange * SwpTypRange - 1
             l == swpoff * SwpTypRange + 0
             new == [present |-> TRUE, swapped |-> TRUE, low |-> l]
  <1>1. swpoff % SwpOffRange = swpoff
    BY Widths
  <1>2. l \in Lows
    BY Widths, Joined
  <1>3. l \div SwpTypRange = swpoff
    BY Widths, DivModOfMul
  <1>4. pte_set_swap(pte, 0, swpoff) = new
    BY <1>1, Widths DEF pte_set_swap
  <1>5. PTEs = [present : BOOLEAN, swapped : BOOLEAN, low : Lows]
    BY DEF PTEs
  <1> HIDE DEF l, Lows
  <1>6. /\ new \in [present : BOOLEAN, swapped : BOOLEAN, low : Lows]
        /\ new.low = l /\ new.present /\ new.swapped
    BY <1>2
  <1> QED
    BY <1>3, <1>4, <1>5, <1>6 DEF PAGING_PTE_SWP, PAGING_PAGE_PRESENT
------------------------------------------------------------------------------
(* The limit of the area, in pages.                                        *)

(* The number of pages below the limit of the area.                        *)
Limit(p) == vm_end[p] \div PAGESZ

(* How many pages an aligned size has.                                     *)
NumPages(sz) == PAGING_PAGE_ALIGNSZ(sz) \div PAGESZ

(* PAGING_PAGE_ALIGNSZ returns whole pages, and aligning twice (__alloc    *)
(* does, inc_vma_limit again) is aligning once.                            *)
LEMMA AlignedSize ==
  ASSUME NEW sz \in Nat
  PROVE  /\ NumPages(sz) \in Nat
         /\ PAGING_PAGE_ALIGNSZ(sz) = NumPages(sz) * PAGESZ
         /\ PAGING_PAGE_ALIGNSZ(sz) \in Nat
         /\ PAGING_PAGE_ALIGNSZ(PAGING_PAGE_ALIGNSZ(sz)) = PAGING_PAGE_ALIGNSZ(sz)
  <1> DEFINE k == (sz + PAGESZ - 1) \div PAGESZ
  <1>0. PAGESZ \in Nat \ {0}
    BY RegionsAssumption
  <1>1. k \in Nat
    BY <1>0, DivMod
  <1>2. PAGING_PAGE_ALIGNSZ(sz) = k * PAGESZ
    BY DEF PAGING_PAGE_ALIGNSZ
  <1>a. PAGESZ - 1 \in 0..PAGESZ - 1 /\ 0 \in 0..PAGESZ - 1
    BY <1>0
  <1> HIDE DEF k
  <1>3. k * PAGESZ \in Nat /\ k * PAGESZ + 0 = k * PAGESZ
    BY <1>0, <1>1
  <1>4. (k * PAGESZ) \div PAGESZ = k
    BY <1>0, <1>1, <1>3, <1>a, DivModOfMul
  <1>5. (k * PAGESZ + (PAGESZ - 1)) \div PAGESZ = k
    BY <1>0, <1>1, <1>a, DivModOfMul
  <1>6. k * PAGESZ + (PAGESZ - 1) = k * PAGESZ + PAGESZ - 1
    BY <1>0, <1>3
  <1>7. PAGING_PAGE_ALIGNSZ(k * PAGESZ) = k * PAGESZ
    BY <1>5, <1>6 DEF PAGING_PAGE_ALIGNSZ
  <1> QED
    BY <1>1, <1>2, <1>3, <1>4, <1>7 DEF NumPages

(* Inside __alloc the arguments are there, the cursor is in the list or    *)
(* behind it, and nothing has gone astray yet.                             *)
CallInv(p) ==
  Scanning(p) =>
    /\ call[p] \in [rgid : RgIds, size : Sizes]
    /\ rgit[p] >= 1
    /\ p \notin wild

(* The limit of the area is a whole number of pages; a process for which   *)
(* it has passed the page table is wild.                                   *)
AreaInv(p) ==
  /\ Limit(p) \in Nat
  /\ vm_end[p] = Limit(p) * PAGESZ
  /\ p \notin wild => Limit(p) <= MAX_PGN

(* The type invariant with what it needs to be inductive.                  *)
TypeInv == TypeOK /\ \A p \in Procs : AreaInv(p) /\ CallInv(p)

(* The area of p grows by n pages, which are mapped from the limit on.     *)
Grows(p, n) ==
  /\ Limit(p) + n <= MAX_PGN
  /\ vm_end' = [vm_end EXCEPT ![p] = @ + n * PAGESZ]
  /\ vm_map_ram(p, Limit(p), n)

(* The area, the page tables and the frames stay as they are.              *)
AreaSame == UNCHANGED <<vm_end, pgd, fifo_pgn, free_fp>>

(* The limit of p moves by n pages, past the page table.                   *)
Passes(p, n) ==
  /\ vm_end' = [vm_end EXCEPT ![p] = @ + n * PAGESZ]
  /\ MapBeyond(n)
  /\ n > 0
  /\ p \in wild'

(* What a step of p may do to the area, the tables and the frames.         *)
AreaMoves(p) ==
  \/ AreaSame
  \/ \E n \in Nat : Grows(p, n)
  \/ \E n \in Nat : Passes(p, n)

(* The limit passes the page table when its pages do.                      *)
LEMMA RoomInPages ==
  ASSUME TypeInv, NEW p \in Procs, NEW sz \in Nat
  PROVE  vm_end[p] + PAGING_PAGE_ALIGNSZ(sz) > MAX_PGN * PAGESZ
           <=> Limit(p) + NumPages(sz) > MAX_PGN
  <1>1. NumPages(sz) \in Nat /\ PAGING_PAGE_ALIGNSZ(sz) = NumPages(sz) * PAGESZ
    BY AlignedSize
  <1>2. Limit(p) \in Nat /\ vm_end[p] = Limit(p) * PAGESZ
    BY DEF TypeInv, AreaInv
  <1>3. MAX_PGN \in Nat /\ PAGESZ \in Nat \ {0}
    BY RegionsAssumption
  <1> DEFINE k == Limit(p) + NumPages(sz)
  <1>4. vm_end[p] + PAGING_PAGE_ALIGNSZ(sz) = k * PAGESZ /\ k \in Nat
    BY <1>1, <1>2, <1>3, MulPlus
  <1> HIDE DEF k
  <1>5. /\ k <= MAX_PGN => k * PAGESZ <= MAX_PGN * PAGESZ
        /\ k * PAGESZ <= MAX_PGN * PAGESZ => k <= MAX_PGN
        /\ k * PAGESZ \in Nat /\ MAX_PGN * PAGESZ \in Nat
    BY <1>3, <1>4, MulMono
  <1> QED
    BY <1>3, <1>4, <1>5 DEF k

(* inc_vma_limit maps from the page after the limit: PAGING_PGN does not   *)
(* wrap before the page table is full.                                     *)
LEMMA FirstPage ==
  ASSUME TypeInv, NEW p \in Procs, Limit(p) < MAX_PGN
  PROVE  PAGING_PGN(vm_end[p]) = Limit(p)
  <1>1. Limit(p) \in Nat /\ MAX_PGN \in Nat \ {0}
    BY RegionsAssumption DEF TypeInv, AreaInv
  <1>2. Limit(p) % MAX_PGN = Limit(p)
    BY <1>1
  <1> QED
    BY <1>2 DEF PAGING_PGN, Limit

(* inc_vma_limit changes nothing, grows the area by whole pages, or takes  *)
(* the limit past the page table.                                          *)
LEMMA IncLimit ==
  ASSUME TypeInv, NEW p \in Procs, NEW sz \in Nat, inc_vma_limit(p, sz),
         p \notin wild, PassesTable(p, sz) => p \in wild'
  PROVE  AreaMoves(p)
  <1> DEFINE n == NumPages(sz)
             first == PAGING_PGN(vm_end[p])
  <1>1. /\ n \in Nat /\ PAGING_PAGE_ALIGNSZ(sz) = n * PAGESZ
        /\ vm_end[p] + PAGING_PAGE_ALIGNSZ(sz) > MAX_PGN * PAGESZ <=> Limit(p) + n > MAX_PGN
        /\ Limit(p) \in Nat /\ Limit(p) <= MAX_PGN /\ MAX_PGN \in Nat
    BY AlignedSize, RoomInPages, RegionsAssumption DEF TypeInv, AreaInv
  <1>2. CASE validate_overlap(p, sbrk[p], sbrk[p] + PAGING_PAGE_ALIGNSZ(sz))
    BY <1>2 DEF inc_vma_limit, AreaSame, AreaMoves
  <1>4. CASE PassesTable(p, sz)
    <2>1. /\ vm_end' = [vm_end EXCEPT ![p] = @ + n * PAGESZ]
          /\ MapBeyond(n) /\ Limit(p) + n > MAX_PGN
      BY <1>1, <1>4 DEF inc_vma_limit, NumPages, PassesTable
    <2> HIDE DEF n
    <2>2. n > 0
      BY <1>1, <2>1
    <2> QED
      BY <1>1, <1>4, <2>1, <2>2 DEF Passes, AreaMoves
  <1>3. CASE /\ ~validate_overlap(p, sbrk[p], sbrk[p] + PAGING_PAGE_ALIGNSZ(sz))
             /\ ~PassesTable(p, sz)
    <2>4. Limit(p) + n <= MAX_PGN
      <3>1. ~(Limit(p) + n > MAX_PGN)
        BY <1>1, <1>3 DEF PassesTable
      <3> HIDE DEF n
      <3> QED
        BY <1>1, <3>1
    <2>1. /\ vm_end' = [vm_end EXCEPT ![p] = @ + n * PAGESZ]
          /\ vm_map_ram(p, first, n)
      BY <1>1, <1>3 DEF inc_vma_limit, NumPages
    <2> HIDE DEF n
    <2>2. CASE n = 0
      <3>1. Limit(p) \in Nat /\ first \in Int
        BY RegionsAssumption DEF TypeInv, AreaInv, TypeOK, PAGING_PGN
      <3>2. first..first + n - 1 = {} /\ Limit(p)..Limit(p) + n - 1 = {} /\ 1..n = {}
        BY <2>2, <3>1
      <3>3. [m \in 1..n |-> first + n - m] = [m \in 1..n |-> Limit(p) + n - m]
        BY <3>2
      <3>4. vm_map_ram(p, Limit(p), n)
        BY <2>1, <3>2, <3>3 DEF vm_map_ram
      <3> QED
        BY <1>1, <2>1, <2>4, <3>4 DEF Grows, AreaMoves
    <2>3. CASE n # 0
      <3>1. first = Limit(p)
        BY <1>1, <2>3, <2>4, FirstPage
      <3> QED
        BY <1>1, <2>1, <2>4, <3>1 DEF Grows, AreaMoves
    <2> QED
      BY <2>2, <2>3
  <1> QED
    BY <1>2, <1>3, <1>4

(* The limit of a process that grows, and of the others.                   *)
LEMMA GrowsLimit ==
  ASSUME TypeInv, NEW p \in Procs, NEW n \in Nat, Grows(p, n) \/ Passes(p, n)
  PROVE  /\ vm_end' \in [Procs -> Nat]
         /\ Limit(p)' = Limit(p) + n
         /\ wild \subseteq wild' => \A q \in Procs : AreaInv(q)'
         /\ \A q \in Procs \ {p} : vm_end'[q] = vm_end[q] /\ Limit(q)' = Limit(q)
  <1> DEFINE l == Limit(p)
  <1>1. l \in Nat /\ vm_end[p] = l * PAGESZ /\ PAGESZ \in Nat \ {0} /\ MAX_PGN \in Nat
    BY RegionsAssumption DEF TypeInv, AreaInv
  <1>a. vm_end' = [vm_end EXCEPT ![p] = @ + n * PAGESZ] /\ vm_end \in [Procs -> Nat]
    BY DEF Grows, Passes, TypeInv, TypeOK
  <1>b. l + n <= MAX_PGN \/ p \in wild'
    BY DEF Grows, Passes
  <1>2. vm_end'[p] = l * PAGESZ + n * PAGESZ
    BY <1>1, <1>a
  <1>3. l * PAGESZ + n * PAGESZ = (l + n) * PAGESZ
    BY <1>1, MulPlus
  <1>4. \A q \in Procs \ {p} : vm_end'[q] = vm_end[q]
    BY <1>a
  <1>5. (l + n) * PAGESZ \in Nat
    BY <1>1
  <1>6. (l + n) * PAGESZ + 0 = (l + n) * PAGESZ /\ 0 \in 0..PAGESZ - 1
    BY <1>1, <1>5
  <1>7. Limit(p)' = l + n
    <2>1. vm_end'[p] = (l + n) * PAGESZ + 0 /\ l + n \in Nat
      BY <1>1, <1>2, <1>3, <1>6
    <2>2. Limit(p)' = vm_end'[p] \div PAGESZ
      BY DEF Limit
    <2> HIDE DEF l
    <2>3. ((l + n) * PAGESZ + 0) \div PAGESZ = l + n
      BY <1>1, <2>1, <1>6, DivModOfMul
    <2> QED
      BY <2>1, <2>2, <2>3
  <1>8. \A q \in Procs \ {p} : Limit(q)' = Limit(q)
    BY <1>4 DEF Limit
  <1>9. vm_end' \in [Procs -> Nat]
    <2>1. vm_end'[p] \in Nat
      BY <1>2, <1>3, <1>5
    <2> QED
      BY <1>a, <2>1
  <1>10. AreaInv(p)'
    BY <1>1, <1>b, <1>2, <1>3, <1>7 DEF AreaInv
  <1>11. wild \subseteq wild' => \A q \in Procs \ {p} : AreaInv(q)'
    BY <1>4, <1>8 DEF AreaInv, TypeInv
  <1> QED
    BY <1>4, <1>7, <1>8, <1>9, <1>10, <1>11

(* What is left of the free frames when the limit passes the page table:   *)
(* the rest of the list, or nothing.                                       *)
LEMMA PassesFrames ==
  ASSUME TypeInv, NEW p \in Procs, NEW n \in Nat, Passes(p, n)
  PROVE  /\ free_fp' \in Seq(Frames) /\ pgd' = pgd /\ fifo_pgn' = fifo_pgn
         /\ free_fp = <<>> => free_fp' = <<>>
         /\ \E d \in Nat : /\ Len(free_fp') + d = Len(free_fp)
                            /\ \A m \in 1..Len(free_fp') : free_fp'[m] = free_fp[m + d]
  <1>1. free_fp \in Seq(Frames) /\ Len(free_fp) \in Nat
    BY LenProperties DEF TypeInv, TypeOK
  <1>2. pgd' = pgd /\ fifo_pgn' = fifo_pgn
    BY DEF Passes, MapBeyond
  <1>3. CASE n > Len(free_fp)
    <2>1. free_fp' = <<>> /\ Len(free_fp') = 0 /\ 1..0 = {}
      BY <1>3 DEF Passes, MapBeyond
    <2>2. \E d \in Nat : /\ Len(free_fp') + d = Len(free_fp)
                         /\ \A m \in 1..Len(free_fp') : free_fp'[m] = free_fp[m + d]
      BY <1>1, <2>1
    <2> QED
      BY <1>2, <2>1, <2>2, EmptySeq
  <1>4. CASE ~(n > Len(free_fp))
    <2>1. free_fp' = SubSeq(free_fp, n + 1, Len(free_fp)) /\ n > 0
      BY <1>4 DEF Passes, MapBeyond
    <2>2. \A m \in n + 1..Len(free_fp) : free_fp[m] \in Frames
      BY <1>1, ElementOfSeq
    <2>3. /\ free_fp' \in Seq(Frames)
          /\ Len(free_fp') = IF n + 1 <= Len(free_fp) THEN Len(free_fp) - (n + 1) + 1 ELSE 0
          /\ \A m \in 1..Len(free_fp) - (n + 1) + 1 : free_fp'[m] = free_fp[n + 1 + m - 1]
      BY <1>1, <2>1, <2>2, SubSeqProperties
    <2>4. Len(free_fp') + n = Len(free_fp)
      BY <1>1, <1>4, <2>3
    <2>5. ASSUME NEW m \in 1..Len(free_fp')
          PROVE  free_fp'[m] = free_fp[m + n]
      <3>1. m \in 1..Len(free_fp) - (n + 1) + 1 /\ n + 1 + m - 1 = m + n
        BY <1>1, <2>4
      <3> QED
        BY <2>3, <3>1
    <2>6. free_fp # <<>>
      <3>1. Len(free_fp) # 0
        BY <1>1, <1>4, <2>1
      <3> QED
        BY <3>1
    <2> QED
      BY <1>2, <2>3, <2>4, <2>5, <2>6
  <1> QED
    BY <1>3, <1>4

(* The frame that page pg gets when n pages are mapped: the list of taken  *)
(* frames is in reverse.                                                   *)
FpnOf(p, n, pg) == free_fp[n - (pg - Limit(p))]

(* What vm_map_ram does to the page tables and the free frames when RAM    *)
(* has enough of them: the pages from the limit on get the first n frames, *)
(* and every other entry stays.                                            *)
LEMMA GrowsPages ==
  ASSUME TypeInv, NEW p \in Procs, NEW n \in Nat, Grows(p, n), n <= Len(free_fp)
  PROVE  /\ pgd' \in [Procs -> [Pages -> PTEs]]
         /\ free_fp' \in Seq(Frames)
         /\ Len(free_fp') = Len(free_fp) - n
         /\ \A m \in 1..Len(free_fp') : free_fp'[m] = free_fp[m + n]
         /\ \A q \in Procs \ {p} : pgd'[q] = pgd[q] /\ fifo_pgn'[q] = fifo_pgn[q]
         /\ \A pg \in Pages : pg \notin Limit(p)..Limit(p) + n - 1 => pgd'[p][pg] = pgd[p][pg]
         /\ \A pg \in Pages : pg \in Limit(p)..Limit(p) + n - 1 =>
              /\ n - (pg - Limit(p)) \in 1..n
              /\ FpnOf(p, n, pg) \in Frames
              /\ pgd'[p][pg] = pte_set_fpn(pgd[p][pg], FpnOf(p, n, pg))
              /\ PAGING_PAGE_PRESENT(pgd'[p][pg])
              /\ ~pgd'[p][pg].swapped
              /\ PAGING_FPN(pgd'[p][pg]) = FpnOf(p, n, pg)
  <1> DEFINE l == Limit(p)
  <1>1. l \in Nat /\ l + n <= MAX_PGN /\ free_fp \in Seq(Frames) /\ pgd \in [Procs -> [Pages -> PTEs]]
        /\ Len(free_fp) \in Nat /\ fifo_pgn \in [Procs -> Seq(Pages)]
    BY LenProperties DEF Grows, TypeInv, AreaInv, TypeOK
  <1>2. /\ free_fp' = SubSeq(free_fp, n + 1, Len(free_fp))
        /\ pgd' = [pgd EXCEPT ![p] = [pg \in Pages |->
                    IF pg \in l..l + n - 1
                    THEN pte_set_fpn(pgd[p][pg], FpnOf(p, n, pg))
                    ELSE pgd[p][pg]]]
        /\ fifo_pgn' = [fifo_pgn EXCEPT ![p] = [m \in 1..n |-> l + n - m] \o @]
    <2>1. ~(n > Len(free_fp))
      BY <1>1
    <2> QED
      BY <2>1 DEF Grows, vm_map_ram, FpnOf
  <1>3. /\ free_fp' \in Seq(Frames)
        /\ Len(free_fp') = Len(free_fp) - n
        /\ \A m \in 1..Len(free_fp') : free_fp'[m] = free_fp[m + n]
    <2>1. \A m \in n + 1..Len(free_fp) : free_fp[m] \in Frames
      BY <1>1, ElementOfSeq
    <2>2. /\ free_fp' \in Seq(Frames)
          /\ Len(free_fp') = IF n + 1 <= Len(free_fp) THEN Len(free_fp) - (n + 1) + 1 ELSE 0
          /\ \A m \in 1..Len(free_fp) - (n + 1) + 1 : free_fp'[m] = free_fp[n + 1 + m - 1]
      BY <1>1, <1>2, <2>1, SubSeqProperties
    <2>3. Len(free_fp') = Len(free_fp) - n
      BY <1>1, <2>2
    <2>4. ASSUME NEW m \in 1..Len(free_fp')
          PROVE  free_fp'[m] = free_fp[m + n]
      <3>1. m \in 1..Len(free_fp) - (n + 1) + 1 /\ n + 1 + m - 1 = m + n
        BY <1>1, <2>3
      <3> QED
        BY <2>2, <3>1
    <2> QED
      BY <2>2, <2>3, <2>4
  <1>4. \A pg \in l..l + n - 1 : n - (pg - l) \in 1..n
    BY <1>1
  <1>5. \A pg \in l..l + n - 1 : FpnOf(p, n, pg) \in Frames
    BY <1>1, <1>4, ElementOfSeq DEF FpnOf
  <1>6. Frames \subseteq 0..FpnRange - 1
    BY RegionsAssumption, Widths DEF Frames
  <1>7. \A pg \in Pages : pgd'[p][pg] = IF pg \in l..l + n - 1
                    THEN pte_set_fpn(pgd[p][pg], FpnOf(p, n, pg))
                    ELSE pgd[p][pg]
    BY <1>1, <1>2
  <1>8. ASSUME NEW pg \in Pages, pg \in l..l + n - 1
        PROVE  /\ pgd'[p][pg] = pte_set_fpn(pgd[p][pg], FpnOf(p, n, pg))
               /\ pgd'[p][pg] \in PTEs
               /\ PAGING_PAGE_PRESENT(pgd'[p][pg])
               /\ ~pgd'[p][pg].swapped
               /\ PAGING_FPN(pgd'[p][pg]) = FpnOf(p, n, pg)
    <2>1. pgd'[p][pg] = pte_set_fpn(pgd[p][pg], FpnOf(p, n, pg))
      BY <1>7, <1>8
    <2>2. pgd[p][pg] \in PTEs /\ FpnOf(p, n, pg) \in 0..FpnRange - 1
      BY <1>1, <1>5, <1>6, <1>8
    <2> QED
      BY <2>1, <2>2, SetFpn
  <1>9. \A q \in Procs \ {p} : pgd'[q] = pgd[q] /\ fifo_pgn'[q] = fifo_pgn[q]
    BY <1>1, <1>2
  <1>10. pgd' \in [Procs -> [Pages -> PTEs]]
    <2>1. \A pg \in Pages : pgd'[p][pg] \in PTEs
      BY <1>1, <1>7, <1>8
    <2>2. pgd'[p] = [pg \in Pages |-> pgd'[p][pg]]
      BY <1>1, <1>2
    <2>3. pgd'[p] \in [Pages -> PTEs]
      BY <2>1, <2>2
    <2> QED
      BY <1>1, <1>2, <2>3
  <1> QED
    BY <1>3, <1>4, <1>5, <1>7, <1>8, <1>9, <1>10

(* A function on 1..n is a sequence of length n.                           *)
LEMMA FunIsSeq ==
  ASSUME NEW S, NEW n \in Nat, NEW f \in [1..n -> S]
  PROVE  f \in Seq(S) /\ Len(f) = n
  <1>1. f \in Seq(S)
    BY SeqDef
  <1> QED
    BY <1>1, LenProperties

(* The pages that vm_map_ram maps come to the head of the FIFO list.       *)
LEMMA GrowsFifo ==
  ASSUME TypeInv, NEW p \in Procs, NEW n \in Nat, Grows(p, n), n <= Len(free_fp)
  PROVE  /\ fifo_pgn' \in [Procs -> Seq(Pages)]
         /\ Len(fifo_pgn'[p]) = n + Len(fifo_pgn[p])
         /\ \A m \in 1..n : fifo_pgn'[p][m] = Limit(p) + n - m
         /\ \A m \in n + 1..Len(fifo_pgn'[p]) : fifo_pgn'[p][m] = fifo_pgn[p][m - n]
  <1> DEFINE l == Limit(p)
             new == [m \in 1..n |-> l + n - m]
  <1>1. /\ l \in Nat /\ l + n <= MAX_PGN /\ free_fp \in Seq(Frames) /\ MAX_PGN \in Nat
        /\ Len(free_fp) \in Nat /\ fifo_pgn \in [Procs -> Seq(Pages)]
    BY LenProperties, RegionsAssumption DEF Grows, TypeInv, AreaInv, TypeOK
  <1>2. fifo_pgn' = [fifo_pgn EXCEPT ![p] = new \o @]
    <2>1. ~(n > Len(free_fp))
      BY <1>1
    <2> QED
      BY <2>1 DEF Grows, vm_map_ram
  <1>3. new \in [1..n -> Pages]
    BY <1>1 DEF Pages
  <1>4. new \in Seq(Pages) /\ Len(new) = n
    BY <1>3, FunIsSeq
  <1>5. fifo_pgn[p] \in Seq(Pages) /\ fifo_pgn'[p] = new \o fifo_pgn[p] /\ Len(fifo_pgn[p]) \in Nat
    BY <1>1, <1>2, LenProperties
  <1>6. \A m \in 1..n : new[m] = l + n - m
    OBVIOUS
  <1> HIDE DEF new
  <1>7. /\ fifo_pgn'[p] \in Seq(Pages)
        /\ Len(fifo_pgn'[p]) = n + Len(fifo_pgn[p])
        /\ \A m \in 1..n + Len(fifo_pgn[p]) : fifo_pgn'[p][m] =
             IF m <= n THEN new[m] ELSE fifo_pgn[p][m - n]
    <2> DEFINE old == fifo_pgn[p]
    <2>1. new \in Seq(Pages) /\ old \in Seq(Pages)
      BY <1>4, <1>5
    <2> HIDE DEF old
    <2>2. /\ new \o old \in Seq(Pages)
          /\ Len(new \o old) = Len(new) + Len(old)
          /\ \A m \in 1..Len(new) + Len(old) : (new \o old)[m] =
               IF m <= Len(new) THEN new[m] ELSE old[m - Len(new)]
      BY <2>1, ConcatProperties
    <2>3. fifo_pgn'[p] = new \o old /\ Len(new) = n
      BY <1>4, <1>5 DEF old
    <2>4. /\ fifo_pgn'[p] \in Seq(Pages)
          /\ Len(fifo_pgn'[p]) = n + Len(old)
          /\ \A m \in 1..n + Len(old) : fifo_pgn'[p][m] =
               IF m <= n THEN new[m] ELSE old[m - n]
      BY <2>2, <2>3
    <2> QED
      BY <2>4 DEF old
  <1>8. fifo_pgn' \in [Procs -> Seq(Pages)]
    BY <1>1, <1>2, <1>7
  <1>9. \A m \in 1..n : fifo_pgn'[p][m] = l + n - m
    BY <1>5, <1>6, <1>7
  <1>10. \A m \in n + 1..Len(fifo_pgn'[p]) : fifo_pgn'[p][m] = fifo_pgn[p][m - n]
    BY <1>5, <1>7
  <1> QED
    BY <1>7, <1>8, <1>9, <1>10

(* With too few frames vm_map_ram empties the free list and maps nothing.  *)
LEMMA GrowsNot ==
  ASSUME TypeInv, NEW p \in Procs, NEW n \in Nat, Grows(p, n), ~(n <= Len(free_fp))
  PROVE  free_fp' = <<>> /\ pgd' = pgd /\ fifo_pgn' = fifo_pgn
  <1>1. Len(free_fp) \in Nat
    BY LenProperties DEF TypeInv, TypeOK
  <1>2. n > Len(free_fp)
    BY <1>1
  <1> QED
    BY <1>2 DEF Grows, vm_map_ram
------------------------------------------------------------------------------
(* TypeInv, in parts that each step disturbs separately.                   *)

(* The part of TypeInv about the area.                                     *)
AreaType ==
  /\ vm_end \in [Procs -> Nat]
  /\ pgd \in [Procs -> [Pages -> PTEs]]
  /\ fifo_pgn \in [Procs -> Seq(Pages)]
  /\ free_fp \in Seq(Frames)
  /\ \A p \in Procs : AreaInv(p)

(* Growing keeps the types of the area.                                    *)
LEMMA AreaStep ==
  ASSUME TypeInv, NEW p \in Procs, AreaMoves(p), wild \subseteq wild'
  PROVE  AreaType'
  <1>1. CASE AreaSame
    BY <1>1 DEF AreaSame, AreaType, AreaInv, Limit, TypeInv, TypeOK
  <1>2. ASSUME NEW n \in Nat, Grows(p, n)
        PROVE  AreaType'
    <2>1. /\ vm_end' \in [Procs -> Nat]
          /\ \A q \in Procs : AreaInv(q)'
      BY <1>2, GrowsLimit
    <2>2. CASE n <= Len(free_fp)
      BY <1>2, <2>1, <2>2, GrowsPages, GrowsFifo DEF AreaType
    <2>3. CASE ~(n <= Len(free_fp))
      <3>1. free_fp' = <<>> /\ pgd' = pgd /\ fifo_pgn' = fifo_pgn
        BY <1>2, <2>3, GrowsNot
      <3> QED
        BY <2>1, <3>1, EmptySeq DEF AreaType, TypeInv, TypeOK
    <2> QED
      BY <2>2, <2>3
  <1>3. ASSUME NEW n \in Nat, Passes(p, n)
        PROVE  AreaType'
    BY <1>3, GrowsLimit, PassesFrames DEF AreaType, TypeInv, TypeOK
  <1> QED
    BY <1>1, <1>2, <1>3 DEF AreaMoves

(* The fields of a region.                                                 *)
LEMMA RegionType ==
  ASSUME NEW s \in Int, NEW e \in Int
  PROVE  /\ Region(s, e) \in Regs /\ NoRegion \in Regs
         /\ Region(s, e).rg_start = s /\ Region(s, e).rg_end = e
         /\ NoRegion.rg_start = -1 /\ NoRegion.rg_end = -1
  BY DEF Region, Regs, NoRegion

(* The arguments of __alloc during its search.                             *)
LEMMA CallType ==
  ASSUME TypeInv, NEW p \in Procs, Scanning(p)
  PROVE  /\ call[p] \in [rgid : RgIds, size : Sizes]
         /\ call[p].size \in Nat /\ call[p].rgid \in Nat
         /\ PAGING_PAGE_ALIGNSZ(call[p].size) \in Nat
  <1>1. call[p] \in [rgid : RgIds, size : Sizes]
    BY DEF TypeInv, CallInv
  <1>2. call[p].size \in Nat /\ call[p].rgid \in Nat
    BY <1>1, RegionsAssumption
  <1> QED
    BY <1>1, <1>2, AlignedSize

(* The node the cursor of get_free_vmrg_area is at.                        *)
LEMMA NodeType ==
  ASSUME TypeInv, NEW p \in Procs, AtNode(p)
  PROVE  /\ rgit[p] \in 1..Len(freerg[p])
         /\ freerg[p] \in Seq(Regs)
         /\ Len(freerg[p]) \in Nat
         /\ Node(p) \in Regs
         /\ Node(p).rg_start \in Int /\ Node(p).rg_end \in Int
  <1>1. freerg[p] \in Seq(Regs) /\ rgit[p] \in Nat
    BY DEF TypeInv, TypeOK
  <1>2. Len(freerg[p]) \in Nat
    BY <1>1, LenProperties
  <1>3. rgit[p] \in 1..Len(freerg[p])
    BY <1>1, <1>2 DEF AtNode, TypeInv, CallInv
  <1>4. Node(p) \in Regs
    BY <1>1, <1>3, ElementOfSeq DEF Node
  <1> QED
    BY <1>1, <1>2, <1>3, <1>4 DEF Regs

(* The part of TypeInv about the symbol table.                             *)
SymbolType == symrgtbl \in [Procs -> [Symbols -> Regs]]

(* Committing a region keeps the type of the symbol table.                 *)
LEMMA SetSymbolType ==
  ASSUME TypeInv, NEW p \in Procs, NEW rgid, NEW rg \in Regs, SetSymbol(p, rgid, rg)
  PROVE  symrgtbl' \in [Procs -> [Symbols -> Regs]]
  <1>1. symrgtbl \in [Procs -> [Symbols -> Regs]]
    BY DEF TypeInv, TypeOK
  <1>2. CASE rgid \in Symbols
    <2>1. symrgtbl' = [symrgtbl EXCEPT ![p][rgid] = rg]
      BY <1>2 DEF SetSymbol
    <2> QED
      BY <1>1, <1>2, <2>1
  <1>3. CASE rgid \notin Symbols
    BY <1>1, <1>3 DEF SetSymbol
  <1> QED
    BY <1>2, <1>3

(* A step makes at most its own process wild, and no one tame.             *)
LEMMA StepWild ==
  ASSUME NEW p \in Procs, AllocStep(p) \/ CallStep(p)
  PROVE  wild \subseteq wild' /\ wild' \subseteq wild \cup {p}
  BY DEF AllocStep, CallStep, ScanSkip, ScanSplit, ScanExact, ScanFound, Grow,
         AllocEnter, Free, MemmapInc, Follow

(* The part of TypeInv about calls of __alloc.                             *)
ScanType ==
  /\ mmvm_lock \in Procs \cup {NoLock}
  /\ mpc \in [Procs -> {"idle", "scan"}]
  /\ call \in [Procs -> [rgid : RgIds, size : Sizes] \cup {NoRegion}]
  /\ rgit \in [Procs -> Nat]
  /\ newrg \in [Procs -> Regs]
  /\ \A p \in Procs : CallInv(p)

(* Returning from __alloc keeps the types of the calls.                    *)
LEMMA ReturnType ==
  ASSUME TypeInv, NEW p \in Procs, Return(p), wild' \subseteq wild \cup {p}
  PROVE  ScanType'
  <1>1. NoRegion \in Regs
    BY RegionType
  <1>2. /\ mmvm_lock' \in Procs \cup {NoLock}
        /\ mpc' \in [Procs -> {"idle", "scan"}]
        /\ call' \in [Procs -> [rgid : RgIds, size : Sizes] \cup {NoRegion}]
        /\ rgit' \in [Procs -> Nat]
        /\ newrg' \in [Procs -> Regs]
    BY <1>1 DEF Return, TypeInv, TypeOK
  <1>3. ASSUME NEW q \in Procs PROVE CallInv(q)'
    <2>1. CASE q = p
      BY <2>1 DEF CallInv, Return, Scanning, TypeInv, TypeOK
    <2>2. CASE q # p
      BY <2>2 DEF CallInv, Return, Scanning, TypeInv, TypeOK
    <2> QED
      BY <2>1, <2>2
  <1> QED
    BY <1>2, <1>3 DEF ScanType

(* A step of process p.                                                    *)
RegionStep(p) == AllocStep(p) \/ CallStep(p)

(* Sizes are natural numbers.                                              *)
LEMMA SizeNat ==
  ASSUME NEW sz \in Sizes PROVE sz \in Nat
  BY RegionsAssumption

(* The allocation at the break leaves the area, or grows it.               *)
LEMMA GrowArea ==
  ASSUME TypeInv, NEW p \in Procs, Grow(p)
  PROVE  AreaMoves(p)
  <1> DEFINE sz == PAGING_PAGE_ALIGNSZ(call[p].size)
  <1>1. Scanning(p)
    BY DEF Grow
  <1>2. call[p].size \in Nat /\ sz \in Nat /\ p \notin wild
    BY <1>1, CallType DEF TypeInv, CallInv
  <1>4. CASE vm_end[p] - sbrk[p] >= call[p].size
    BY <1>4 DEF Grow, AreaSame, AreaMoves
  <1>5. CASE ~(vm_end[p] - sbrk[p] >= call[p].size)
    <2>1. inc_vma_limit(p, sz) /\ (PassesTable(p, sz) => p \in wild')
      BY <1>5 DEF Grow, Follow
    <2> QED
      BY <1>2, <2>1, IncLimit
  <1> QED
    BY <1>4, <1>5

(* Every step of a process leaves the area, or grows it.                   *)
LEMMA StepArea ==
  ASSUME TypeInv, NEW p \in Procs, RegionStep(p)
  PROVE  AreaMoves(p)
  <1>1. CASE ScanSkip(p)
    BY <1>1 DEF ScanSkip, areaVars, AreaSame, AreaMoves
  <1>2. CASE ScanSplit(p)
    BY <1>2 DEF ScanSplit, areaVars, AreaSame, AreaMoves
  <1>3. CASE ScanExact(p)
    BY <1>3 DEF ScanExact, areaVars, AreaSame, AreaMoves
  <1>4. CASE ScanFound(p)
    BY <1>4 DEF ScanFound, areaVars, AreaSame, AreaMoves
  <1>5. CASE Grow(p)
    BY <1>5, GrowArea
  <1>6. ASSUME NEW rgid \in RgIds, NEW size \in Sizes, AllocEnter(p, rgid, size)
        PROVE  AreaSame
    BY <1>6 DEF AllocEnter, areaVars, AreaSame
  <1>7. ASSUME NEW rgid \in RgIds, Free(p, rgid)
        PROVE  AreaSame
    BY <1>7 DEF Free, areaVars, AreaSame
  <1>8. ASSUME NEW sz \in Sizes, MemmapInc(p, sz)
        PROVE  AreaMoves(p)
    BY <1>8, SizeNat, IncLimit DEF MemmapInc, Follow
  <1> QED
    BY <1>1, <1>2, <1>3, <1>4, <1>5, <1>6, <1>7, <1>8
    DEF RegionStep, AllocStep, CallStep, AreaMoves

(* Calling __alloc keeps the types.                                        *)
LEMMA AllocEnterType ==
  ASSUME TypeInv, NEW p \in Procs, NEW rgid \in RgIds, NEW size \in Sizes, AllocEnter(p, rgid, size)
  PROVE  ScanType' /\ SymbolType' /\ freerg' = freerg /\ sbrk' = sbrk
  <1>1. SymbolType' /\ freerg' = freerg /\ sbrk' = sbrk /\ wild' = wild /\ newrg' = newrg
    BY DEF AllocEnter, areaVars, TypeInv, TypeOK, SymbolType
  <1>2. /\ mmvm_lock' \in Procs \cup {NoLock}
        /\ mpc' \in [Procs -> {"idle", "scan"}]
        /\ call' \in [Procs -> [rgid : RgIds, size : Sizes] \cup {NoRegion}]
        /\ rgit' \in [Procs -> Nat]
    BY DEF AllocEnter, TypeInv, TypeOK
  <1>3. ASSUME NEW q \in Procs PROVE CallInv(q)'
    <2>1. CASE q = p
      BY <1>1, <2>1 DEF CallInv, AllocEnter, TypeInv, TypeOK
    <2>2. CASE q # p
      BY <1>1, <2>2 DEF CallInv, AllocEnter, Scanning, TypeInv, TypeOK
    <2> QED
      BY <2>1, <2>2
  <1> QED
    BY <1>1, <1>2, <1>3 DEF ScanType, TypeInv, TypeOK

(* Skipping a node keeps the types.                                        *)
LEMMA ScanSkipType ==
  ASSUME TypeInv, NEW p \in Procs, ScanSkip(p)
  PROVE  ScanType' /\ SymbolType' /\ freerg' = freerg /\ sbrk' = sbrk
  <1>1. /\ SymbolType' /\ freerg' = freerg /\ sbrk' = sbrk /\ wild' = wild /\ newrg' = newrg
        /\ mpc' = mpc /\ call' = call /\ mmvm_lock' = mmvm_lock
    BY DEF ScanSkip, areaVars, TypeInv, TypeOK, SymbolType
  <1>2. rgit' \in [Procs -> Nat] /\ \A q \in Procs : rgit'[q] >= rgit[q]
    BY DEF ScanSkip, TypeInv, TypeOK
  <1>3. ASSUME NEW q \in Procs PROVE CallInv(q)'
    BY <1>1, <1>2 DEF CallInv, Scanning, TypeInv, TypeOK
  <1> QED
    BY <1>1, <1>2, <1>3 DEF ScanType, TypeInv, TypeOK

(* The free list after a region was cut off the front of a node.           *)
LEMMA SplitFree ==
  ASSUME TypeInv, NEW p \in Procs, ScanSplit(p)
  PROVE  /\ freerg' \in [Procs -> Seq(Regs)]
         /\ \A q \in Procs \ {p} : freerg'[q] = freerg[q]
         /\ Len(freerg'[p]) = Len(freerg[p])
         /\ \A n \in 1..Len(freerg[p]) :
              freerg'[p][n] = IF n = rgit[p]
                THEN Region(Node(p).rg_start + call[p].size, Node(p).rg_end)
                ELSE freerg[p][n]
  <1> DEFINE k == rgit[p]
             new == Region(Node(p).rg_start + call[p].size, Node(p).rg_end)
  <1>1. AtNode(p) /\ Scanning(p)
    BY DEF ScanSplit, AtNode
  <1>2. /\ k \in 1..Len(freerg[p]) /\ freerg[p] \in Seq(Regs) /\ Len(freerg[p]) \in Nat /\ Node(p) \in Regs
        /\ Node(p).rg_start \in Int /\ Node(p).rg_end \in Int /\ call[p].size \in Nat
    BY <1>1, NodeType, CallType
  <1>3. freerg' = [freerg EXCEPT ![p][k].rg_start = @ + call[p].size]
    BY DEF ScanSplit
  <1>4. new \in Regs
    BY <1>2, RegionType
  <1>5. [Node(p) EXCEPT !.rg_start = @ + call[p].size] = new
    BY <1>2 DEF Regs, Region
  <1>6. freerg'[p] = [freerg[p] EXCEPT ![k] = [freerg[p][k] EXCEPT !.rg_start = @ + call[p].size]]
    BY <1>3 DEF TypeInv, TypeOK
  <1>7. freerg'[p] = [freerg[p] EXCEPT ![k] = new]
    BY <1>5, <1>6 DEF Node
  <1> HIDE DEF new, k
  <1>8. /\ freerg'[p] \in Seq(Regs)
        /\ Len(freerg'[p]) = Len(freerg[p])
        /\ \A n \in 1..Len(freerg[p]) : freerg'[p][n] = IF n = k THEN new ELSE freerg[p][n]
    BY <1>2, <1>4, <1>7, ExceptSeq
  <1>9. \A q \in Procs \ {p} : freerg'[q] = freerg[q]
    BY <1>3 DEF TypeInv, TypeOK
  <1>10. DOMAIN freerg' = Procs /\ freerg' = [q \in Procs |-> freerg'[q]]
    BY <1>3 DEF TypeInv, TypeOK
  <1>11. freerg' \in [Procs -> Seq(Regs)]
    BY <1>8, <1>9, <1>10 DEF TypeInv, TypeOK
  <1> QED
    BY <1>8, <1>9, <1>11 DEF new, k

(* The free list after a node that fits exactly was taken: its successor   *)
(* has taken its place, or it was the last and stays as an empty region.   *)
LEMMA ExactFree ==
  ASSUME TypeInv, NEW p \in Procs, ScanExact(p)
  PROVE  /\ freerg' \in [Procs -> Seq(Regs)]
         /\ \A q \in Procs \ {p} : freerg'[q] = freerg[q]
         /\ \/ /\ rgit[p] < Len(freerg[p])
               /\ Len(freerg'[p]) = Len(freerg[p]) - 1
               /\ \A n \in 1..Len(freerg[p]) - 1 :
                    freerg'[p][n] = IF n < rgit[p] THEN freerg[p][n] ELSE freerg[p][n + 1]
            \/ /\ Len(freerg'[p]) = Len(freerg[p])
               /\ \A n \in 1..Len(freerg[p]) :
                    freerg'[p][n] = IF n = rgit[p] THEN Region(Node(p).rg_end, Node(p).rg_end)
                                    ELSE freerg[p][n]
  <1> DEFINE k == rgit[p]
             last == Len(freerg[p])
             new == Region(Node(p).rg_end, Node(p).rg_end)
             short == [n \in 1..last - 1 |-> IF n < k THEN freerg[p][n] ELSE freerg[p][n + 1]]
  <1>1. AtNode(p) /\ Scanning(p)
    BY DEF ScanExact, AtNode
  <1>2. /\ k \in 1..last /\ freerg[p] \in Seq(Regs) /\ last \in Nat /\ Node(p) \in Regs
        /\ Node(p).rg_start \in Int /\ Node(p).rg_end \in Int
    BY <1>1, NodeType
  <1>3. freerg' = [freerg EXCEPT ![p] = IF k < last THEN short ELSE [freerg[p] EXCEPT ![k] = new]]
    <2>1. CASE k < last
      <3>1. freerg' = [freerg EXCEPT ![p] = short]
        BY <2>1 DEF ScanExact
      <3> QED
        BY <2>1, <3>1
    <2>2. CASE ~(k < last)
      <3>1. freerg' = [freerg EXCEPT ![p] = [freerg[p] EXCEPT ![k] = new]]
        BY <2>2 DEF ScanExact
      <3> QED
        BY <2>2, <3>1
    <2> QED
      BY <2>1, <2>2
  <1>4. /\ freerg'[p] = IF k < last THEN short ELSE [freerg[p] EXCEPT ![k] = new]
        /\ \A q \in Procs \ {p} : freerg'[q] = freerg[q]
        /\ freerg' = [q \in Procs |-> freerg'[q]]
    BY <1>3 DEF TypeInv, TypeOK
  <1>5. new \in Regs
    BY <1>2, RegionType
  <1>6. CASE k < last
    <2>1. \A n \in 1..last : freerg[p][n] \in Regs
      BY <1>2, ElementOfSeq
    <2>2. last - 1 \in Nat /\ short \in [1..last - 1 -> Regs]
      BY <1>2, <1>6, <2>1
    <2>3. short \in Seq(Regs) /\ Len(short) = last - 1
      BY <2>2, FunIsSeq
    <2>4. freerg'[p] = short
      BY <1>4, <1>6
    <2>5. freerg' \in [Procs -> Seq(Regs)]
      BY <1>4, <2>3, <2>4 DEF TypeInv, TypeOK
    <2> QED
      BY <1>4, <1>6, <2>3, <2>4, <2>5
  <1>7. CASE ~(k < last)
    <2> HIDE DEF new
    <2>1. freerg'[p] = [freerg[p] EXCEPT ![k] = new]
      BY <1>4, <1>7
    <2>2. /\ freerg'[p] \in Seq(Regs)
          /\ Len(freerg'[p]) = last
          /\ \A n \in 1..last : freerg'[p][n] = IF n = k THEN new ELSE freerg[p][n]
      BY <1>2, <1>5, <2>1, ExceptSeq
    <2>3. freerg' \in [Procs -> Seq(Regs)]
      BY <1>4, <2>2 DEF TypeInv, TypeOK
    <2> QED
      BY <1>4, <2>2, <2>3 DEF new
  <1> QED
    BY <1>6, <1>7

(* Cutting a node keeps the types.                                         *)
LEMMA ScanSplitType ==
  ASSUME TypeInv, NEW p \in Procs, ScanSplit(p)
  PROVE  ScanType' /\ SymbolType' /\ freerg' \in [Procs -> Seq(Regs)] /\ sbrk' = sbrk
  <1> DEFINE rg == Region(Node(p).rg_start, Node(p).rg_start + call[p].size)
  <1>1. AtNode(p) /\ Scanning(p) /\ Return(p) /\ SetSymbol(p, call[p].rgid, rg)
        /\ wild' \subseteq wild \cup {p} /\ sbrk' = sbrk
    BY DEF ScanSplit, AtNode, areaVars, Follow
  <1>2. rg \in Regs
    BY <1>1, NodeType, CallType, RegionType
  <1> QED
    BY <1>1, <1>2, SplitFree, SetSymbolType, ReturnType DEF SymbolType

(* Taking a node keeps the types.                                          *)
LEMMA ScanExactType ==
  ASSUME TypeInv, NEW p \in Procs, ScanExact(p)
  PROVE  ScanType' /\ SymbolType' /\ freerg' \in [Procs -> Seq(Regs)] /\ sbrk' = sbrk
  <1>1. AtNode(p)
    BY DEF ScanExact
  <1>2. Node(p) \in Regs
    BY <1>1, NodeType
  <1>3. /\ SymbolType' /\ sbrk' = sbrk /\ wild' = wild
        /\ mpc' = mpc /\ call' = call /\ mmvm_lock' = mmvm_lock /\ rgit' = rgit
    BY DEF ScanExact, areaVars, TypeInv, TypeOK, SymbolType
  <1>4. newrg' \in [Procs -> Regs]
    BY <1>2 DEF ScanExact, TypeInv, TypeOK
  <1>5. ASSUME NEW q \in Procs PROVE CallInv(q)'
    BY <1>3 DEF CallInv, Scanning, TypeInv, TypeOK
  <1> QED
    BY <1>3, <1>4, <1>5, ExactFree DEF ScanType, TypeInv, TypeOK

(* Committing the result of the search keeps the types.                    *)
LEMMA ScanFoundType ==
  ASSUME TypeInv, NEW p \in Procs, ScanFound(p)
  PROVE  ScanType' /\ SymbolType' /\ freerg' = freerg /\ sbrk' = sbrk
  <1>1. Return(p) /\ SetSymbol(p, call[p].rgid, newrg[p])
        /\ wild' \subseteq wild \cup {p} /\ sbrk' = sbrk /\ freerg' = freerg
    BY DEF ScanFound, areaVars, Follow
  <1>2. newrg[p] \in Regs
    BY DEF TypeInv, TypeOK
  <1> QED
    BY <1>1, <1>2, SetSymbolType, ReturnType DEF SymbolType

(* Allocating at the break keeps the types.                                *)
LEMMA GrowType ==
  ASSUME TypeInv, NEW p \in Procs, Grow(p)
  PROVE  ScanType' /\ SymbolType' /\ freerg' = freerg /\ sbrk' \in [Procs -> Nat]
  <1> DEFINE rg == Region(sbrk[p], sbrk[p] + call[p].size)
  <1>1. Scanning(p) /\ Return(p) /\ SetSymbol(p, call[p].rgid, rg) /\ freerg' = freerg
    BY DEF Grow
  <1>2. call[p].size \in Nat /\ PAGING_PAGE_ALIGNSZ(call[p].size) \in Nat /\ sbrk[p] \in Nat
    BY <1>1, CallType DEF TypeInv, TypeOK
  <1>3. rg \in Regs
    BY <1>2, RegionType
  <1>4. sbrk' \in [Procs -> Nat]
    <2> DEFINE inc == PAGING_PAGE_ALIGNSZ(call[p].size)
    <2>1. \/ sbrk' = [sbrk EXCEPT ![p] = @ + call[p].size]
          \/ sbrk' = [sbrk EXCEPT ![p] = @ + inc + call[p].size]
      BY DEF Grow
    <2>2. inc \in Nat /\ call[p].size \in Nat /\ sbrk \in [Procs -> Nat]
      BY <1>2 DEF TypeInv, TypeOK
    <2> HIDE DEF inc
    <2> QED
      BY <2>1, <2>2
  <1>5. wild' \subseteq wild \cup {p}
    BY DEF Grow, Follow
  <1> QED
    BY <1>1, <1>3, <1>4, <1>5, SetSymbolType, ReturnType DEF SymbolType

(* The free list after __free: unchanged, or with the region of the symbol *)
(* at its head.                                                            *)
LEMMA FreeShape ==
  ASSUME TypeInv, NEW p \in Procs, NEW rgid \in RgIds, Free(p, rgid)
  PROVE  /\ freerg' \in [Procs -> Seq(Regs)]
         /\ \A q \in Procs \ {p} : freerg'[q] = freerg[q]
         /\ \/ freerg' = freerg
            \/ /\ rgid \in Symbols
               /\ Len(freerg'[p]) = 1 + Len(freerg[p])
               /\ freerg'[p][1] = symrgtbl[p][rgid]
               /\ \A n \in 2..Len(freerg'[p]) : freerg'[p][n] = freerg[p][n - 1]
  <1> DEFINE rg == symrgtbl[p][rgid]
             old == freerg[p]
  <1>0. freerg \in [Procs -> Seq(Regs)] /\ old \in Seq(Regs) /\ Len(old) \in Nat
    BY LenProperties DEF TypeInv, TypeOK
  <1>1. CASE freerg' = freerg
    BY <1>0, <1>1
  <1>2. CASE rgid \in Symbols /\ freerg' = [freerg EXCEPT ![p] = <<rg>> \o old]
    <2>1. rg \in Regs
      BY <1>2 DEF TypeInv, TypeOK
    <2>2. <<rg>> \in Seq(Regs) /\ Len(<<rg>>) = 1 /\ <<rg>>[1] = rg
      BY <2>1
    <2>3. freerg'[p] = <<rg>> \o old /\ \A q \in Procs \ {p} : freerg'[q] = freerg[q]
      BY <1>0, <1>2
    <2> DEFINE one == <<rg>>
    <2> HIDE DEF rg, old, one
    <2>4. /\ one \o old \in Seq(Regs)
          /\ Len(one \o old) = Len(one) + Len(old)
          /\ \A n \in 1..Len(one) + Len(old) : (one \o old)[n] =
               IF n <= Len(one) THEN one[n] ELSE old[n - Len(one)]
      BY <1>0, <2>2, ConcatProperties DEF one
    <2>5. /\ freerg'[p] \in Seq(Regs)
          /\ Len(freerg'[p]) = 1 + Len(old)
          /\ freerg'[p][1] = rg
          /\ \A n \in 2..Len(freerg'[p]) : freerg'[p][n] = old[n - 1]
      BY <1>0, <2>2, <2>3, <2>4 DEF one
    <2>6. freerg' \in [Procs -> Seq(Regs)]
      BY <1>0, <1>2, <2>3, <2>5
    <2> QED
      BY <1>2, <2>3, <2>5, <2>6 DEF rg, old
  <1> QED
    BY <1>0, <1>1, <1>2 DEF Free

(* __free keeps the types.                                                 *)
LEMMA FreeType ==
  ASSUME TypeInv, NEW p \in Procs, NEW rgid \in RgIds, Free(p, rgid)
  PROVE  ScanType' /\ SymbolType' /\ freerg' \in [Procs -> Seq(Regs)] /\ sbrk' = sbrk
  <1>1. /\ sbrk' = sbrk /\ SetSymbol(p, rgid, NoRegion)
        /\ mpc' = mpc /\ call' = call /\ mmvm_lock' = mmvm_lock /\ rgit' = rgit /\ newrg' = newrg
        /\ mpc[p] = "idle" /\ wild' \subseteq wild \cup {p}
    BY DEF Free, areaVars, scanVars, Follow
  <1>2. \A q \in Procs : CallInv(q)'
    BY <1>1 DEF CallInv, Scanning, TypeInv
  <1>3. ScanType'
    BY <1>1, <1>2 DEF TypeInv, TypeOK, ScanType
  <1> QED
    BY <1>1, <1>3, FreeShape, SetSymbolType, RegionType DEF SymbolType

(* SYSMEM_INC_OP keeps the types.                                          *)
LEMMA MemmapIncType ==
  ASSUME TypeInv, NEW p \in Procs, NEW sz \in Sizes, MemmapInc(p, sz)
  PROVE  ScanType' /\ SymbolType' /\ freerg' = freerg /\ sbrk' \in [Procs -> Nat]
  <1>1. /\ SymbolType' /\ freerg' = freerg /\ mpc[p] = "idle"
        /\ mpc' = mpc /\ call' = call /\ mmvm_lock' = mmvm_lock /\ rgit' = rgit /\ newrg' = newrg
        /\ wild' \subseteq wild \cup {p}
    BY DEF MemmapInc, scanVars, TypeInv, TypeOK, SymbolType, Follow
  <1>2. PAGING_PAGE_ALIGNSZ(sz) \in Nat
    BY SizeNat, AlignedSize
  <1>3. sbrk' \in [Procs -> Nat]
    BY <1>2 DEF MemmapInc, TypeInv, TypeOK
  <1>5. ASSUME NEW q \in Procs PROVE CallInv(q)'
    <2>1. CASE q = p
      BY <1>1, <2>1 DEF CallInv, Scanning
    <2>2. CASE q # p
      BY <1>1, <2>2 DEF CallInv, Scanning, TypeInv
    <2> QED
      BY <2>1, <2>2
  <1> QED
    BY <1>1, <1>3, <1>5 DEF ScanType, TypeInv, TypeOK

(* Every step keeps TypeInv.                                               *)
LEMMA TypeStep ==
  ASSUME TypeInv, NEW p \in Procs, RegionStep(p)
  PROVE  TypeInv'
  <1>1. AreaType' /\ wild' \subseteq Procs
    BY StepArea, AreaStep, StepWild DEF RegionStep, TypeInv, TypeOK
  <1>2. SUFFICES /\ ScanType' /\ SymbolType'
                 /\ freerg' \in [Procs -> Seq(Regs)] /\ sbrk' \in [Procs -> Nat]
    <2>1. TypeInv'
      BY <1>1, <1>2 DEF AreaType, SymbolType, ScanType, TypeInv, TypeOK
    <2> QED
      BY <2>1
  <1>3. freerg \in [Procs -> Seq(Regs)] /\ sbrk \in [Procs -> Nat]
    BY DEF TypeInv, TypeOK
  <1> QED
    BY <1>3, ScanSkipType, ScanSplitType, ScanExactType, ScanFoundType, GrowType,
       AllocEnterType, FreeType, MemmapIncType
    DEF RegionStep, AllocStep, CallStep

(* TypeInv is about the variables of this module.                          *)
LEMMA TypeStutter ==
  ASSUME TypeInv, UNCHANGED regionVars
  PROVE  TypeInv'
  BY DEF TypeInv, TypeOK, AreaInv, CallInv, Scanning, Limit, regionVars, areaVars, scanVars

(* TypeInv holds at the start.                                             *)
LEMMA TypeInit ==
  ASSUME Init
  PROVE  TypeInv
  <1>1. NoPTE \in PTEs
    BY Widths, Joined DEF NoPTE, PTEs
  <1>2. 0 \div PAGESZ = 0 /\ 0 * PAGESZ = 0 /\ 0 <= MAX_PGN
    BY RegionsAssumption
  <1>3. NumFrames \in Nat
    BY RegionsAssumption, Widths
  <1>4. MEMPHY_format(NumFrames) \in [1..NumFrames -> Frames]
    BY <1>3 DEF MEMPHY_format, Frames
  <1>5. MEMPHY_format(NumFrames) \in Seq(Frames)
    BY <1>3, <1>4, FunIsSeq
  <1>6. Region(0, 0) \in Regs /\ NoRegion \in Regs
    BY RegionType
  <1>7. TypeOK
    BY <1>1, <1>2, <1>5, <1>6 DEF Init, TypeOK
  <1>8. ASSUME NEW p \in Procs PROVE AreaInv(p) /\ CallInv(p)
    BY <1>2 DEF Init, AreaInv, CallInv, Limit, Scanning
  <1> QED
    BY <1>7, <1>8 DEF TypeInv

(* Until a process stores outside its symbol table, or takes the limit of  *)
(* its heap past the page table (the code prevents neither), the allocator *)
(* is type correct: every entry keeps to its bit fields, page replacement  *)
(* lists pages of the table only and the free list frames of RAM only.     *)
THEOREM RegionsTypeOK == Spec => [](wild = {} => TypeOK)
  <1>1. Init => TypeInv
    BY TypeInit
  <1>2. TypeInv /\ [Next]_regionVars => TypeInv'
    BY TypeStep, TypeStutter DEF Next, RegionStep
  <1>3. TypeInv => (wild = {} => TypeOK)
    BY DEF TypeInv
  <1> QED
    BY <1>1, <1>2, <1>3, PTL DEF Spec
------------------------------------------------------------------------------
(* Regions are apart.                                                      *)

(* Two regions do not share an address; an empty one shares none.          *)
Apart(x, y) ==
  \/ Size(x) <= 0 \/ Size(y) <= 0
  \/ x.rg_end <= y.rg_start \/ y.rg_end <= x.rg_start

(* A region lies between 0 and the break, or it is empty.                  *)
Within(x, brk) == x.rg_end <= brk /\ (x.rg_start >= 0 \/ Size(x) <= 0)

(* The regions of a process (of its symbols, of its free list, and the one *)
(* taken by the search) are apart in pairs and below the break.            *)
Apartness(sym, free, taken, brk) ==
  /\ \A r, s \in Symbols : r # s => Apart(sym[r], sym[s])
  /\ \A r \in Symbols : \A n \in 1..Len(free) : Apart(sym[r], free[n])
  /\ \A m, n \in 1..Len(free) : m # n => Apart(free[m], free[n])
  /\ \A r \in Symbols : Apart(sym[r], taken)
  /\ \A n \in 1..Len(free) : Apart(free[n], taken)
  /\ \A r \in Symbols : Within(sym[r], brk)
  /\ \A n \in 1..Len(free) : Within(free[n], brk)
  /\ Within(taken, brk)

(* Apart is symmetric; an empty region is apart from every region.         *)
LEMMA ApartBasics ==
  ASSUME NEW x \in Regs, NEW y \in Regs
  PROVE  /\ x.rg_start \in Int /\ x.rg_end \in Int
         /\ Apart(x, y) => Apart(y, x)
         /\ x.rg_end <= x.rg_start => Apart(x, y)
         /\ x.rg_end <= y.rg_start => Apart(x, y)
  BY DEF Regs, Apart, Size

(* A part of a region is apart from what the whole is apart from.          *)
LEMMA ApartPart ==
  ASSUME NEW x \in Regs, NEW y \in Regs, NEW z \in Regs, Apart(x, y),
         x.rg_start <= z.rg_start, z.rg_end <= x.rg_end
  PROVE  Apart(z, y)
  BY DEF Regs, Apart, Size

(* The region of a freed symbol is apart from every region.                *)
LEMMA NoRegionApart ==
  ASSUME NEW x \in Regs
  PROVE  NoRegion \in Regs /\ Apart(x, NoRegion) /\ Apart(NoRegion, x)
  BY RegionType DEF Regs, Apart, Size, NoRegion, Region

(* The region of a freed symbol is below every break.                      *)
LEMMA NoRegionWithin ==
  ASSUME NEW brk \in Nat
  PROVE  NoRegion \in Regs /\ Within(NoRegion, brk)
  BY DEF Regs, Within, Size, NoRegion, Region

(* What is below the break is below a higher one.                          *)
LEMMA WithinHigher ==
  ASSUME NEW x \in Regs, NEW brk \in Nat, NEW brk2 \in Nat, brk <= brk2, Within(x, brk)
  PROVE  Within(x, brk2)
  BY DEF Regs, Within, Size

(* A part of a region below the break is below it.                         *)
LEMMA WithinPart ==
  ASSUME NEW x \in Regs, NEW z \in Regs, NEW brk \in Nat, Within(x, brk),
         x.rg_start <= z.rg_start, z.rg_end <= x.rg_end
  PROVE  Within(z, brk)
  BY DEF Regs, Within, Size

(* Giving symbol r a region that is apart from all others.                 *)
LEMMA ReplaceSymbol ==
  ASSUME NEW sym \in [Symbols -> Regs], NEW free \in Seq(Regs), NEW taken \in Regs, NEW brk \in Nat,
         Apartness(sym, free, taken, brk),
         NEW r \in Symbols, NEW rg \in Regs, Within(rg, brk), Apart(rg, taken),
         \A s \in Symbols \ {r} : Apart(sym[s], rg),
         \A n \in 1..Len(free) : Apart(rg, free[n])
  PROVE  Apartness([sym EXCEPT ![r] = rg], free, taken, brk)
  <1> DEFINE new == [sym EXCEPT ![r] = rg]
  <1>1. new[r] = rg /\ \A s \in Symbols \ {r} : new[s] = sym[s]
    OBVIOUS
  <1>2. \A s \in Symbols \ {r} : Apart(rg, sym[s])
    BY ApartBasics
  <1> HIDE DEF new
  <1>3. ASSUME NEW s \in Symbols, NEW t \in Symbols, s # t
        PROVE  Apart(new[s], new[t])
    <2>1. CASE s = r
      BY <1>1, <1>2, <1>3, <2>1
    <2>2. CASE t = r
      BY <1>1, <1>3, <2>2
    <2>3. CASE s # r /\ t # r
      BY <1>1, <1>3, <2>3 DEF Apartness
    <2> QED
      BY <2>1, <2>2, <2>3
  <1>4. \A s \in Symbols : Apart(new[s], taken) /\ Within(new[s], brk)
    BY <1>1 DEF Apartness
  <1>5. \A s \in Symbols : \A n \in 1..Len(free) : Apart(new[s], free[n])
    BY <1>1 DEF Apartness
  <1>6. Apartness(new, free, taken, brk)
    BY <1>3, <1>4, <1>5 DEF Apartness
  <1> QED
    BY <1>6 DEF new

(* Returning from __alloc forgets the region taken.                        *)
LEMMA ForgetTaken ==
  ASSUME NEW sym \in [Symbols -> Regs], NEW free \in Seq(Regs), NEW taken \in Regs, NEW brk \in Nat,
         Apartness(sym, free, taken, brk)
  PROVE  Apartness(sym, free, NoRegion, brk)
  <1>1. \A r \in Symbols : Apart(sym[r], NoRegion)
    BY NoRegionApart
  <1>2. \A n \in 1..Len(free) : Apart(free[n], NoRegion)
    BY NoRegionApart, ElementOfSeq
  <1>3. Within(NoRegion, brk)
    BY NoRegionWithin
  <1> QED
    BY <1>1, <1>2, <1>3 DEF Apartness

(* Moving the break up.                                                    *)
LEMMA RaiseBreak ==
  ASSUME NEW sym \in [Symbols -> Regs], NEW free \in Seq(Regs), NEW taken \in Regs, NEW brk \in Nat,
         Apartness(sym, free, taken, brk), NEW brk2 \in Nat, brk <= brk2
  PROVE  Apartness(sym, free, taken, brk2)
  <1>1. \A r \in Symbols : Within(sym[r], brk2)
    BY WithinHigher DEF Apartness
  <1>2. \A n \in 1..Len(free) : Within(free[n], brk2)
    BY WithinHigher, ElementOfSeq DEF Apartness
  <1>3. Within(taken, brk2)
    BY WithinHigher DEF Apartness
  <1> QED
    BY <1>1, <1>2, <1>3 DEF Apartness

(* Shrinking one node of the free list in place.                           *)
LEMMA ShrinkNode ==
  ASSUME NEW sym \in [Symbols -> Regs], NEW free \in Seq(Regs), NEW taken \in Regs, NEW brk \in Nat,
         Apartness(sym, free, taken, brk),
         NEW k \in 1..Len(free), NEW rg \in Regs,
         free[k].rg_start <= rg.rg_start, rg.rg_end <= free[k].rg_end,
         NEW new \in Seq(Regs), Len(new) = Len(free),
         \A n \in 1..Len(free) : new[n] = IF n = k THEN rg ELSE free[n]
  PROVE  Apartness(sym, new, taken, brk)
  <1>0. \A n \in 1..Len(free) : free[n] \in Regs /\ free[n].rg_end \in Int
    BY ElementOfSeq, ApartBasics
  <1>1. \A x \in Regs : Apart(free[k], x) => Apart(rg, x) /\ Apart(x, rg)
    BY <1>0, ApartPart, ApartBasics
  <1>2. \A x \in Regs : Apart(x, free[k]) => Apart(rg, x) /\ Apart(x, rg)
    BY <1>0, <1>1, ApartBasics
  <1>3. ASSUME NEW m \in 1..Len(free), NEW n \in 1..Len(free), m # n
        PROVE  Apart(new[m], new[n])
    <2>1. Apart(free[m], free[n]) /\ free[m] \in Regs /\ free[n] \in Regs
      BY <1>0, <1>3 DEF Apartness
    <2> QED
      BY <1>1, <1>2, <1>3, <2>1
  <1>4. ASSUME NEW n \in 1..Len(free)
        PROVE  /\ \A r \in Symbols : Apart(sym[r], new[n])
               /\ Apart(new[n], taken)
               /\ Within(new[n], brk)
    <2>1. CASE n = k
      <3>1. new[n] = rg /\ rg.rg_end \in Int
        BY <1>4, <2>1, ApartBasics
      <3>2. \A r \in Symbols : Apart(sym[r], rg)
        BY <1>2 DEF Apartness
      <3>3. Apart(rg, taken)
        BY <1>1 DEF Apartness
      <3>4. Within(rg, brk)
        BY <1>0, WithinPart DEF Apartness
      <3> QED
        BY <3>1, <3>2, <3>3, <3>4
    <2>2. CASE n # k
      BY <2>2 DEF Apartness
    <2> QED
      BY <2>1, <2>2
  <1> QED
    BY <1>3, <1>4 DEF Apartness

(* Taking a node out of the free list: it becomes the region taken, and    *)
(* what was taken before is lost.                                          *)
LEMMA UnlinkNode ==
  ASSUME NEW sym \in [Symbols -> Regs], NEW free \in Seq(Regs), NEW taken \in Regs, NEW brk \in Nat,
         Apartness(sym, free, taken, brk),
         NEW k \in 1..Len(free), NEW new \in Seq(Regs), Len(new) = Len(free) - 1,
         \A n \in 1..Len(free) - 1 : new[n] = IF n < k THEN free[n] ELSE free[n + 1]
  PROVE  Apartness(sym, new, free[k], brk)
  <1> DEFINE Old(n) == IF n < k THEN n ELSE n + 1
  <1>0. Len(free) \in Nat
    BY LenProperties
  <1>1. \A n \in 1..Len(new) : Old(n) \in 1..Len(free) /\ Old(n) # k /\ new[n] = free[Old(n)]
    BY <1>0
  <1>2. \A m, n \in 1..Len(new) : m # n => Old(m) # Old(n)
    BY <1>0
  <1> HIDE DEF Old
  <1>3. \A m, n \in 1..Len(new) : m # n => Apart(new[m], new[n])
    BY <1>1, <1>2 DEF Apartness
  <1>4. \A n \in 1..Len(new) :
          /\ \A r \in Symbols : Apart(sym[r], new[n])
          /\ Apart(new[n], free[k])
          /\ Within(new[n], brk)
    BY <1>1 DEF Apartness
  <1>5. Within(free[k], brk) /\ \A r \in Symbols : Apart(sym[r], free[k])
    BY DEF Apartness
  <1> QED
    BY <1>3, <1>4, <1>5 DEF Apartness

(* Taking the last node of the free list, which stays as an empty one.     *)
LEMMA EmptyNode ==
  ASSUME NEW sym \in [Symbols -> Regs], NEW free \in Seq(Regs), NEW taken \in Regs, NEW brk \in Nat,
         Apartness(sym, free, taken, brk),
         NEW k \in 1..Len(free), free[k].rg_start <= free[k].rg_end,
         NEW new \in Seq(Regs), Len(new) = Len(free),
         \A n \in 1..Len(free) :
           new[n] = IF n = k THEN Region(free[k].rg_end, free[k].rg_end) ELSE free[n]
  PROVE  Apartness(sym, new, free[k], brk)
  <1> DEFINE rg == Region(free[k].rg_end, free[k].rg_end)
  <1>1. free[k] \in Regs /\ free[k].rg_end \in Int /\ free[k].rg_start \in Int
    BY ElementOfSeq, ApartBasics
  <1>2. rg \in Regs /\ rg.rg_start = free[k].rg_end /\ rg.rg_end = free[k].rg_end
    BY <1>1, RegionType
  <1> HIDE DEF rg
  <1>3. \A n \in 1..Len(free) : new[n] = IF n = k THEN rg ELSE free[n]
    BY DEF rg
  <1>4. free[k].rg_start <= rg.rg_start /\ rg.rg_end <= free[k].rg_end
    BY <1>1, <1>2
  <1>5. Apartness(sym, new, taken, brk)
    BY <1>2, <1>3, <1>4, ShrinkNode
  <1>6. \A n \in 1..Len(new) : Apart(new[n], free[k])
    <2>1. Apart(rg, free[k])
      BY <1>1, <1>2, ApartBasics
    <2> QED
      BY <1>3, <2>1 DEF Apartness
  <1>7. Within(free[k], brk) /\ \A r \in Symbols : Apart(sym[r], free[k])
    BY DEF Apartness
  <1> QED
    BY <1>5, <1>6, <1>7 DEF Apartness

(* __free: the region of the symbol goes to the free list.                 *)
LEMMA GiveBack ==
  ASSUME NEW sym \in [Symbols -> Regs], NEW free \in Seq(Regs), NEW taken \in Regs, NEW brk \in Nat,
         Apartness(sym, free, taken, brk),
         NEW r \in Symbols, NEW new \in Seq(Regs), Len(new) = 1 + Len(free),
         new[1] = sym[r],
         \A n \in 2..Len(new) : new[n] = free[n - 1]
  PROVE  Apartness([sym EXCEPT ![r] = NoRegion], new, taken, brk)
  <1> DEFINE syms == [sym EXCEPT ![r] = NoRegion]
  <1>0. Len(free) \in Nat /\ \A n \in 1..Len(new) : n # 1 => n - 1 \in 1..Len(free) /\ n \in 2..Len(new)
    BY LenProperties
  <1>a. \A n \in 1..Len(free) : free[n] \in Regs
    BY ElementOfSeq
  <1>1. \A s \in Symbols : syms[s] = IF s = r THEN NoRegion ELSE sym[s]
    OBVIOUS
  <1>2. \A n \in 1..Len(new) : new[n] = IF n = 1 THEN sym[r] ELSE free[n - 1]
    BY <1>0
  <1>3. \A n \in 1..Len(new) : new[n] \in Regs
    BY ElementOfSeq
  <1> HIDE DEF syms
  <1>4. ASSUME NEW m \in 1..Len(new), NEW n \in 1..Len(new), m # n
        PROVE  Apart(new[m], new[n])
    <2>1. CASE m = 1
      BY <1>0, <1>2, <1>4, <2>1 DEF Apartness
    <2>2. CASE n = 1
      <3>1. Apart(new[n], new[m])
        BY <1>0, <1>2, <1>4, <2>2 DEF Apartness
      <3> QED
        BY <1>3, <3>1, ApartBasics
    <2>3. CASE m # 1 /\ n # 1
      <3>1. m - 1 # n - 1
        BY <1>4
      <3> QED
        BY <1>0, <1>2, <2>3, <3>1 DEF Apartness
    <2> QED
      BY <2>1, <2>2, <2>3
  <1>5. ASSUME NEW s \in Symbols, NEW n \in 1..Len(new)
        PROVE  Apart(syms[s], new[n])
    <2>1. CASE s = r
      BY <1>1, <1>3, <2>1, NoRegionApart
    <2>2. CASE s # r
      BY <1>0, <1>1, <1>2, <2>2 DEF Apartness
    <2> QED
      BY <2>1, <2>2
  <1>6. ASSUME NEW s \in Symbols, NEW t \in Symbols, s # t
        PROVE  Apart(syms[s], syms[t])
    <2>1. Apart(NoRegion, sym[t]) /\ Apart(sym[s], NoRegion) /\ Apart(sym[s], sym[t])
      BY <1>6, NoRegionApart DEF Apartness
    <2> QED
      BY <1>1, <1>6, <2>1
  <1>7. \A s \in Symbols : Apart(syms[s], taken) /\ Within(syms[s], brk)
    <2>1. Within(NoRegion, brk) /\ Apart(NoRegion, taken)
      BY NoRegionApart, NoRegionWithin
    <2> QED
      BY <1>1, <2>1 DEF Apartness
  <1>8. \A n \in 1..Len(new) : Apart(new[n], taken) /\ Within(new[n], brk)
    BY <1>0, <1>2 DEF Apartness
  <1>9. Within(taken, brk)
    BY DEF Apartness
  <1>10. Apartness(syms, new, taken, brk)
    BY <1>4, <1>5, <1>6, <1>7, <1>8, <1>9 DEF Apartness
  <1> QED
    BY <1>10 DEF syms

(* The regions of every process are apart and below its break.             *)
DisjointInv ==
  \A p \in Procs : Apartness(symrgtbl[p], freerg[p], newrg[p], sbrk[p])

(* What committing a region does to the symbol tables.                     *)
LEMMA SetSymbolShape ==
  ASSUME TypeInv, NEW p \in Procs, NEW rgid, NEW rg, SetSymbol(p, rgid, rg)
  PROVE  /\ \A q \in Procs \ {p} : symrgtbl'[q] = symrgtbl[q]
         /\ \/ symrgtbl'[p] = symrgtbl[p]
            \/ rgid \in Symbols /\ symrgtbl'[p] = [symrgtbl[p] EXCEPT ![rgid] = rg]
  BY DEF SetSymbol, TypeInv, TypeOK

(* The types of the regions of one process.                                *)
LEMMA OwnTypes ==
  ASSUME TypeInv, NEW p \in Procs
  PROVE  /\ symrgtbl[p] \in [Symbols -> Regs] /\ freerg[p] \in Seq(Regs)
         /\ newrg[p] \in Regs /\ sbrk[p] \in Nat
  BY DEF TypeInv, TypeOK

(* What returning from __alloc does to the region taken.                   *)
LEMMA ReturnShape ==
  ASSUME TypeInv, NEW p \in Procs, Return(p)
  PROVE  newrg'[p] = NoRegion /\ \A q \in Procs \ {p} : newrg'[q] = newrg[q]
  BY DEF Return, TypeInv, TypeOK

(* Cutting a node keeps regions apart: what is cut off and what remains    *)
(* are parts of the node.                                                  *)
LEMMA SplitApart ==
  ASSUME TypeInv, NEW p \in Procs, DisjointInv, ScanSplit(p)
  PROVE  DisjointInv'
  <1> DEFINE sym == symrgtbl[p]
             free == freerg[p]
             k == rgit[p]
             node == Node(p)
             size == call[p].size
             rg == Region(node.rg_start, node.rg_start + size)
             rest == Region(node.rg_start + size, node.rg_end)
  <1>1. AtNode(p) /\ Scanning(p) /\ Return(p) /\ sbrk' = sbrk
        /\ SetSymbol(p, call[p].rgid, rg) /\ Size(node) > size
    BY DEF ScanSplit, AtNode, areaVars
  <1>2. k \in 1..Len(free) /\ node \in Regs /\ node.rg_start \in Int /\ node.rg_end \in Int
        /\ size \in Nat /\ node = free[k]
    BY <1>1, NodeType, CallType DEF Node
  <1>3. sym \in [Symbols -> Regs] /\ free \in Seq(Regs) /\ newrg[p] \in Regs /\ sbrk[p] \in Nat
        /\ Apartness(sym, free, newrg[p], sbrk[p])
    BY OwnTypes DEF DisjointInv
  <1>4. /\ rg \in Regs /\ rg.rg_start = node.rg_start /\ rg.rg_end = node.rg_start + size
        /\ rest \in Regs /\ rest.rg_start = node.rg_start + size /\ rest.rg_end = node.rg_end
    <2> HIDE DEF node, size
    <2>1. node.rg_start + size \in Int
      BY <1>2
    <2> QED
      BY <1>2, <2>1, RegionType
  <1>5. node.rg_end - node.rg_start > size
    BY <1>1 DEF Size
  <1>6. /\ freerg' \in [Procs -> Seq(Regs)]
        /\ Len(freerg'[p]) = Len(free)
        /\ \A n \in 1..Len(free) : freerg'[p][n] = IF n = k THEN rest ELSE free[n]
        /\ \A q \in Procs \ {p} : freerg'[q] = freerg[q]
    BY SplitFree
  <1> HIDE DEF sym, free, k, node, size, rg, rest
  <1>7. Apartness(sym, freerg'[p], newrg[p], sbrk[p])
    <2> DEFINE new == freerg'[p]
    <2>1. free[k].rg_start <= rest.rg_start /\ rest.rg_end <= free[k].rg_end
      BY <1>2, <1>4
    <2>2. /\ new \in Seq(Regs) /\ Len(new) = Len(free)
          /\ \A n \in 1..Len(free) : new[n] = IF n = k THEN rest ELSE free[n]
      BY <1>6
    <2>3. k \in 1..Len(free) /\ rest \in Regs
      BY <1>2, <1>4
    <2> HIDE DEF new
    <2>4. Apartness(sym, new, newrg[p], sbrk[p])
      BY <1>3, <2>1, <2>2, <2>3, ShrinkNode
    <2> QED
      BY <2>4 DEF new
  <1>8. Apartness(sym, freerg'[p], NoRegion, sbrk[p])
    BY <1>3, <1>6, <1>7, ForgetTaken
  <1>9. Apartness([sym EXCEPT ![call[p].rgid] = rg], freerg'[p], NoRegion, sbrk[p])
        \/ call[p].rgid \notin Symbols
    <2>1. \A s \in Symbols : Apart(sym[s], rg)
      <3>1. ASSUME NEW s \in Symbols PROVE Apart(sym[s], rg)
        <4>1. Apart(node, sym[s]) /\ sym[s] \in Regs
          BY <1>2, <1>3, ApartBasics DEF Apartness
        <4>2. Apart(rg, sym[s])
          BY <1>2, <1>4, <1>5, <4>1, ApartPart
        <4> QED
          BY <1>4, <4>1, <4>2, ApartBasics
      <3> QED
        BY <3>1
    <2>2. \A n \in 1..Len(freerg'[p]) : Apart(rg, freerg'[p][n])
      <3>1. ASSUME NEW n \in 1..Len(free), n # k PROVE Apart(rg, free[n])
        <4>1. Apart(node, free[n]) /\ free[n] \in Regs
          BY <1>2, <1>3, <3>1, ElementOfSeq DEF Apartness
        <4> QED
          BY <1>2, <1>4, <1>5, <4>1, ApartPart
      <3>2. Apart(rg, rest)
        BY <1>2, <1>4, ApartBasics
      <3> QED
        BY <1>6, <3>1, <3>2
    <2>3. Within(rg, sbrk[p])
      BY <1>2, <1>3, <1>4, <1>5, WithinPart DEF Apartness
    <2>4. Apart(rg, NoRegion) /\ NoRegion \in Regs
      BY <1>4, NoRegionApart
    <2> QED
      BY <1>3, <1>4, <1>6, <1>8, <2>1, <2>2, <2>3, <2>4, ReplaceSymbol
  <1>10. Apartness(symrgtbl'[p], freerg'[p], newrg'[p], sbrk'[p])
    <2>1. newrg'[p] = NoRegion /\ sbrk'[p] = sbrk[p]
      BY <1>1, ReturnShape
    <2>2. \/ symrgtbl'[p] = sym
          \/ call[p].rgid \in Symbols /\ symrgtbl'[p] = [sym EXCEPT ![call[p].rgid] = rg]
      BY <1>1, SetSymbolShape DEF sym
    <2> QED
      BY <1>8, <1>9, <2>1, <2>2
  <1>11. \A q \in Procs \ {p} : Apartness(symrgtbl'[q], freerg'[q], newrg'[q], sbrk'[q])
    BY <1>1, <1>6, SetSymbolShape, ReturnShape DEF DisjointInv
  <1> QED
    BY <1>10, <1>11 DEF DisjointInv

(* Taking a node that fits exactly keeps regions apart.                    *)
LEMMA ExactApart ==
  ASSUME TypeInv, NEW p \in Procs, DisjointInv, ScanExact(p)
  PROVE  DisjointInv'
  <1> DEFINE sym == symrgtbl[p]
             free == freerg[p]
             k == rgit[p]
             new == freerg'[p]
  <1>1. AtNode(p) /\ Scanning(p) /\ symrgtbl' = symrgtbl /\ sbrk' = sbrk
        /\ newrg' = [newrg EXCEPT ![p] = Node(p)] /\ Size(Node(p)) = call[p].size
    BY DEF ScanExact, AtNode, areaVars
  <1>2. k \in 1..Len(free) /\ free \in Seq(Regs) /\ Node(p) = free[k]
        /\ free[k].rg_start \in Int /\ free[k].rg_end \in Int /\ call[p].size \in Nat
    BY <1>1, NodeType, CallType DEF Node
  <1>3. sym \in [Symbols -> Regs] /\ newrg[p] \in Regs /\ sbrk[p] \in Nat
        /\ Apartness(sym, free, newrg[p], sbrk[p])
    BY OwnTypes DEF DisjointInv
  <1>4. free[k].rg_start <= free[k].rg_end
    BY <1>1, <1>2 DEF Size
  <1>5. /\ new \in Seq(Regs)
        /\ \A q \in Procs \ {p} : freerg'[q] = freerg[q]
        /\ \/ /\ Len(new) = Len(free) - 1
              /\ \A n \in 1..Len(free) - 1 : new[n] = IF n < k THEN free[n] ELSE free[n + 1]
           \/ /\ Len(new) = Len(free)
              /\ \A n \in 1..Len(free) : new[n] =
                   IF n = k THEN Region(free[k].rg_end, free[k].rg_end) ELSE free[n]
    BY <1>2, ExactFree
  <1>6. newrg'[p] = free[k] /\ \A q \in Procs \ {p} : newrg'[q] = newrg[q]
    BY <1>1, <1>2 DEF TypeInv, TypeOK
  <1> HIDE DEF sym, free, k, new
  <1>7. Apartness(sym, new, free[k], sbrk[p])
    BY <1>2, <1>3, <1>4, <1>5, UnlinkNode, EmptyNode
  <1>8. Apartness(symrgtbl'[p], freerg'[p], newrg'[p], sbrk'[p])
    BY <1>1, <1>6, <1>7 DEF sym, new
  <1>9. \A q \in Procs \ {p} : Apartness(symrgtbl'[q], freerg'[q], newrg'[q], sbrk'[q])
    BY <1>1, <1>5, <1>6 DEF DisjointInv
  <1> QED
    BY <1>8, <1>9 DEF DisjointInv

(* Committing the region taken keeps regions apart: it moves from the      *)
(* search to the symbol.                                                   *)
LEMMA FoundApart ==
  ASSUME TypeInv, NEW p \in Procs, DisjointInv, ScanFound(p)
  PROVE  DisjointInv'
  <1> DEFINE sym == symrgtbl[p]
             free == freerg[p]
             rg == newrg[p]
             rgid == call[p].rgid
  <1>1. Return(p) /\ SetSymbol(p, rgid, rg) /\ sbrk' = sbrk /\ freerg' = freerg
    BY DEF ScanFound, areaVars
  <1>2. sym \in [Symbols -> Regs] /\ free \in Seq(Regs) /\ rg \in Regs /\ sbrk[p] \in Nat
        /\ Apartness(sym, free, rg, sbrk[p])
    BY OwnTypes DEF DisjointInv
  <1>3. Apartness(sym, free, NoRegion, sbrk[p])
    BY <1>2, ForgetTaken
  <1>4. ASSUME rgid \in Symbols
        PROVE  Apartness([sym EXCEPT ![rgid] = rg], free, NoRegion, sbrk[p])
    <2>1. \A s \in Symbols : Apart(sym[s], rg)
      BY <1>2 DEF Apartness
    <2>2. \A n \in 1..Len(free) : Apart(rg, free[n])
      BY <1>2, ElementOfSeq, ApartBasics DEF Apartness
    <2>3. Apart(rg, NoRegion) /\ NoRegion \in Regs /\ Within(rg, sbrk[p])
      BY <1>2, NoRegionApart DEF Apartness
    <2> HIDE DEF sym, free, rg, rgid
    <2> QED
      BY <1>2, <1>3, <1>4, <2>1, <2>2, <2>3, ReplaceSymbol
  <1>5. Apartness(symrgtbl'[p], freerg'[p], newrg'[p], sbrk'[p])
    <2>1. newrg'[p] = NoRegion /\ sbrk'[p] = sbrk[p] /\ freerg'[p] = free
      BY <1>1, ReturnShape
    <2>2. symrgtbl'[p] = sym \/ (rgid \in Symbols /\ symrgtbl'[p] = [sym EXCEPT ![rgid] = rg])
      BY <1>1, SetSymbolShape
    <2> QED
      BY <1>3, <1>4, <2>1, <2>2
  <1>6. \A q \in Procs \ {p} : Apartness(symrgtbl'[q], freerg'[q], newrg'[q], sbrk'[q])
    BY <1>1, SetSymbolShape, ReturnShape DEF DisjointInv
  <1> QED
    BY <1>5, <1>6 DEF DisjointInv

(* Allocating at the break keeps regions apart: everything else is below   *)
(* the old break, and the new break is above the new region.               *)
LEMMA GrowApart ==
  ASSUME TypeInv, NEW p \in Procs, DisjointInv, Grow(p)
  PROVE  DisjointInv'
  <1> DEFINE sym == symrgtbl[p]
             free == freerg[p]
             size == call[p].size
             brk == sbrk[p]
             rg == Region(brk, brk + size)
             rgid == call[p].rgid
             inc == PAGING_PAGE_ALIGNSZ(size)
  <1>1. Scanning(p) /\ Return(p) /\ SetSymbol(p, rgid, rg) /\ freerg' = freerg
    BY DEF Grow
  <1>2. sym \in [Symbols -> Regs] /\ free \in Seq(Regs) /\ newrg[p] \in Regs /\ brk \in Nat
        /\ Apartness(sym, free, newrg[p], brk)
    BY OwnTypes DEF DisjointInv
  <1>3. size \in Nat /\ inc \in Nat
    BY <1>1, CallType
  <1>a. /\ \/ sbrk' = [sbrk EXCEPT ![p] = @ + size]
           \/ sbrk' = [sbrk EXCEPT ![p] = @ + inc + size]
        /\ sbrk \in [Procs -> Nat]
    <2>1. \/ sbrk' = [sbrk EXCEPT ![p] = @ + size]
          \/ sbrk' = [sbrk EXCEPT ![p] = @ + inc + size]
      BY DEF Grow
    <2> QED
      BY <2>1 DEF TypeInv, TypeOK
  <1>b. sbrk'[p] = brk + size \/ sbrk'[p] = brk + inc + size
    BY <1>a
  <1>4. \A q \in Procs \ {p} : sbrk'[q] = sbrk[q]
    BY <1>a
  <1>5. sbrk'[p] \in Nat /\ brk + size <= sbrk'[p]
    <2> HIDE DEF brk, size, inc
    <2> QED
      BY <1>2, <1>3, <1>b
  <1> DEFINE brk2 == sbrk'[p]
  <1>6. newrg'[p] = NoRegion /\ freerg'[p] = free
    BY <1>1, ReturnShape
  <1>7. symrgtbl'[p] = sym \/ (rgid \in Symbols /\ symrgtbl'[p] = [sym EXCEPT ![rgid] = rg])
    <2> HIDE DEF rg, rgid
    <2> QED
      BY <1>1, SetSymbolShape
  <1>8. rg \in Regs /\ rg.rg_start = brk /\ rg.rg_end = brk + size
    <2> HIDE DEF brk, size
    <2>1. brk + size \in Int /\ brk \in Int
      BY <1>2, <1>3
    <2> QED
      BY <2>1, RegionType
  <1> HIDE DEF sym, free, size, brk, rg, rgid, inc, brk2
  <1>9. Apartness(sym, free, NoRegion, brk2) /\ brk2 \in Nat
    <2>1. Apartness(sym, free, NoRegion, brk) /\ NoRegion \in Regs
      BY <1>2, ForgetTaken, NoRegionApart
    <2>2. brk2 \in Nat /\ brk <= brk2
      BY <1>2, <1>3, <1>5 DEF brk2
    <2> QED
      BY <1>2, <2>1, <2>2, RaiseBreak
  <1>10. ASSUME rgid \in Symbols
         PROVE  Apartness([sym EXCEPT ![rgid] = rg], free, NoRegion, brk2)
    <2>1. \A s \in Symbols : Apart(sym[s], rg)
      BY <1>2, <1>8, ApartBasics DEF Apartness, Within
    <2>2. \A n \in 1..Len(free) : Apart(rg, free[n])
      BY <1>2, <1>8, ElementOfSeq, ApartBasics DEF Apartness, Within
    <2>3. Apart(rg, NoRegion) /\ NoRegion \in Regs
      BY <1>8, NoRegionApart
    <2>4. Within(rg, brk2)
      BY <1>2, <1>5, <1>8 DEF brk2, Within
    <2> QED
      BY <1>2, <1>8, <1>9, <1>10, <2>1, <2>2, <2>3, <2>4, ReplaceSymbol
  <1>11. Apartness(symrgtbl'[p], freerg'[p], newrg'[p], sbrk'[p])
    BY <1>6, <1>7, <1>9, <1>10 DEF brk2
  <1>12. \A q \in Procs \ {p} : Apartness(symrgtbl'[q], freerg'[q], newrg'[q], sbrk'[q])
    BY <1>1, <1>4, SetSymbolShape, ReturnShape DEF DisjointInv
  <1> QED
    BY <1>11, <1>12 DEF DisjointInv

(* __free keeps regions apart, also when the symbol was freed before.      *)
LEMMA FreeApart ==
  ASSUME TypeInv, NEW p \in Procs, DisjointInv, NEW rgid \in RgIds, Free(p, rgid)
  PROVE  DisjointInv'
  <1> DEFINE sym == symrgtbl[p]
             free == freerg[p]
             new == freerg'[p]
  <1>1. SetSymbol(p, rgid, NoRegion) /\ sbrk' = sbrk /\ newrg' = newrg
    BY DEF Free, areaVars, scanVars
  <1>2. sym \in [Symbols -> Regs] /\ free \in Seq(Regs) /\ newrg[p] \in Regs /\ sbrk[p] \in Nat
        /\ Apartness(sym, free, newrg[p], sbrk[p])
    BY OwnTypes DEF DisjointInv
  <1>3. symrgtbl'[p] = IF rgid \in Symbols THEN [sym EXCEPT ![rgid] = NoRegion] ELSE sym
    BY <1>1 DEF SetSymbol, TypeInv, TypeOK
  <1>4. /\ new \in Seq(Regs)
        /\ \A q \in Procs \ {p} : freerg'[q] = freerg[q]
        /\ \/ new = free
           \/ /\ rgid \in Symbols
              /\ Len(new) = 1 + Len(free)
              /\ new[1] = sym[rgid]
              /\ \A n \in 2..Len(new) : new[n] = free[n - 1]
    BY FreeShape
  <1> DEFINE taken == newrg[p]
             brk == sbrk[p]
  <1>5. Apartness(symrgtbl'[p], new, taken, brk)
    <2> HIDE DEF sym, free, new, taken, brk
    <2>0. sym \in [Symbols -> Regs] /\ free \in Seq(Regs) /\ taken \in Regs /\ brk \in Nat
          /\ Apartness(sym, free, taken, brk)
      BY <1>2 DEF taken, brk
    <2>1. CASE rgid \notin Symbols
      BY <2>0, <1>3, <1>4, <2>1
    <2>2. CASE rgid \in Symbols /\ new = free
      <3>1. \A s \in Symbols : Apart(sym[s], NoRegion)
        BY <2>0, NoRegionApart
      <3>2. \A n \in 1..Len(free) : Apart(NoRegion, free[n])
        BY <2>0, NoRegionApart, ElementOfSeq
      <3>3. Apart(NoRegion, taken) /\ NoRegion \in Regs /\ Within(NoRegion, brk)
        BY <2>0, NoRegionApart, NoRegionWithin
      <3>4. Apartness([sym EXCEPT ![rgid] = NoRegion], free, taken, brk)
        BY <2>0, <2>2, <3>1, <3>2, <3>3, ReplaceSymbol
      <3> QED
        BY <1>3, <2>2, <3>4
    <2>3. CASE rgid \in Symbols /\ new # free
      <3>1. Apartness([sym EXCEPT ![rgid] = NoRegion], new, taken, brk)
        BY <2>0, <1>4, <2>3, GiveBack
      <3> QED
        BY <1>3, <2>3, <3>1
    <2> QED
      BY <2>1, <2>2, <2>3
  <1>6. Apartness(symrgtbl'[p], freerg'[p], newrg'[p], sbrk'[p])
    BY <1>1, <1>5
  <1>7. \A q \in Procs \ {p} : Apartness(symrgtbl'[q], freerg'[q], newrg'[q], sbrk'[q])
    BY <1>1, <1>4, SetSymbolShape DEF DisjointInv
  <1> QED
    BY <1>6, <1>7 DEF DisjointInv

(* SYSMEM_INC_OP keeps regions apart: it only raises the break.            *)
LEMMA MemmapIncApart ==
  ASSUME TypeInv, NEW p \in Procs, DisjointInv, NEW sz \in Sizes, MemmapInc(p, sz)
  PROVE  DisjointInv'
  <1> DEFINE inc == PAGING_PAGE_ALIGNSZ(sz)
  <1>1. symrgtbl' = symrgtbl /\ freerg' = freerg /\ newrg' = newrg
        /\ sbrk' = [sbrk EXCEPT ![p] = @ + inc] /\ sbrk \in [Procs -> Nat]
    BY DEF MemmapInc, scanVars, TypeInv, TypeOK
  <1>2. inc \in Nat
    BY SizeNat, AlignedSize
  <1> HIDE DEF inc
  <1>3. ASSUME NEW q \in Procs
        PROVE  Apartness(symrgtbl'[q], freerg'[q], newrg'[q], sbrk'[q])
    <2>1. sbrk'[q] \in Nat /\ sbrk[q] <= sbrk'[q]
      BY <1>1, <1>2
    <2>2. Apartness(symrgtbl[q], freerg[q], newrg[q], sbrk[q])
      BY DEF DisjointInv
    <2>3. Apartness(symrgtbl[q], freerg[q], newrg[q], sbrk'[q])
      BY <2>1, <2>2, OwnTypes, RaiseBreak
    <2> QED
      BY <1>1, <2>3
  <1> QED
    BY <1>3 DEF DisjointInv

(* Every step keeps regions apart.                                         *)
LEMMA DisjointStep ==
  ASSUME TypeInv, NEW p \in Procs, DisjointInv, RegionStep(p)
  PROVE  DisjointInv'
  <1>1. CASE ScanSkip(p)
    BY <1>1 DEF ScanSkip, areaVars, DisjointInv
  <1>2. ASSUME NEW rgid \in RgIds, NEW size \in Sizes, AllocEnter(p, rgid, size)
        PROVE  DisjointInv'
    BY <1>2 DEF AllocEnter, areaVars, DisjointInv
  <1> QED
    BY <1>1, <1>2, SplitApart, ExactApart, FoundApart, GrowApart, FreeApart, MemmapIncApart
    DEF RegionStep, AllocStep, CallStep

(* Regions are apart at the start: all are empty.                          *)
LEMMA DisjointInit ==
  ASSUME Init
  PROVE  DisjointInv
  <1>1. Region(0, 0).rg_end = 0 /\ Region(0, 0).rg_start = 0 /\ Region(0, 0) \in Regs
    BY RegionType
  <1>2. Apart(Region(0, 0), Region(0, 0)) /\ Apart(Region(0, 0), NoRegion)
    BY <1>1, ApartBasics, NoRegionApart
  <1>4. Within(Region(0, 0), 0) /\ Within(NoRegion, 0)
    BY <1>1, NoRegionWithin DEF Within, Size
  <1>3. Len(<<Region(0, 0)>>) = 1 /\ <<Region(0, 0)>>[1] = Region(0, 0)
    OBVIOUS
  <1> QED
    BY <1>1, <1>2, <1>3, <1>4 DEF Init, DisjointInv, Apartness

(* Regions that are apart are disjoint as RegionsDisjoint says it.         *)
LEMMA DisjointRegions ==
  ASSUME TypeInv, DisjointInv
  PROVE  RegionsDisjoint
  <1> SUFFICES ASSUME NEW p \in Procs, NEW a \in DOMAIN Owned(p), NEW b \in DOMAIN Owned(p), a # b
               PROVE  Apart(Owned(p)[a], Owned(p)[b])
    BY DEF RegionsDisjoint, Apart
  <1> DEFINE own == Owned(p)
             sym == symrgtbl[p]
             free == freerg[p]
             IsSymbol(o, r) == o = <<"symbol", r>> /\ own[o] = sym[r]
             IsFree(o, n) == o = <<"free", n>> /\ own[o] = free[n]
             IsTaken(o) == o = <<"taken", 0>> /\ own[o] = newrg[p]
  <1>1. ASSUME NEW o \in DOMAIN own
        PROVE  \/ \E r \in Symbols : IsSymbol(o, r)
               \/ \E n \in 1..Len(free) : IsFree(o, n)
               \/ IsTaken(o)
    BY <1>1 DEF Owned
  <1>2. Apartness(sym, free, newrg[p], sbrk[p])
    BY DEF DisjointInv
  <1>3. /\ \A r \in Symbols : sym[r] \in Regs
        /\ \A n \in 1..Len(free) : free[n] \in Regs
        /\ newrg[p] \in Regs
    BY OwnTypes, ElementOfSeq
  <1> SUFFICES Apart(own[a], own[b])
    OBVIOUS
  <1>4. a \in DOMAIN own /\ b \in DOMAIN own
    OBVIOUS
  <1> HIDE DEF own, sym, free
  <1>5. ASSUME NEW r \in Symbols, NEW x, NEW y, x # y, IsSymbol(x, r), y \in DOMAIN own
        PROVE  Apart(own[x], own[y])
    <2>1. CASE \E s \in Symbols : IsSymbol(y, s)
      BY <1>2, <1>5, <2>1 DEF Apartness
    <2>2. CASE \E n \in 1..Len(free) : IsFree(y, n)
      BY <1>2, <1>5, <2>2 DEF Apartness
    <2>3. CASE IsTaken(y)
      BY <1>2, <1>5, <2>3 DEF Apartness
    <2> QED
      BY <1>1, <1>5, <2>1, <2>2, <2>3
  <1>6. ASSUME NEW n \in 1..Len(free), IsFree(a, n), NEW m \in 1..Len(free), IsFree(b, m)
        PROVE  Apart(own[a], own[b])
    BY <1>2, <1>6 DEF Apartness
  <1>7. ASSUME NEW n \in 1..Len(free), NEW x, NEW y, IsFree(x, n), IsTaken(y)
        PROVE  Apart(own[x], own[y])
    BY <1>2, <1>7 DEF Apartness
  <1>8. own[a] \in Regs /\ own[b] \in Regs
    BY <1>1, <1>3, <1>4
  <1>9. CASE \E r \in Symbols : IsSymbol(a, r)
    BY <1>4, <1>5, <1>9
  <1>10. CASE \E r \in Symbols : IsSymbol(b, r)
    BY <1>4, <1>5, <1>8, <1>10, ApartBasics
  <1>11. CASE \E n \in 1..Len(free) : IsFree(a, n)
    BY <1>1, <1>4, <1>6, <1>7, <1>10, <1>11
  <1>12. CASE IsTaken(a)
    BY <1>1, <1>4, <1>7, <1>8, <1>10, <1>12, ApartBasics
  <1> QED
    BY <1>1, <1>4, <1>9, <1>11, <1>12

(* No byte ever belongs to two variables of a process, or to a variable    *)
(* and to the free list, for any sequence of __alloc, __free and           *)
(* SYSMEM_INC_OP calls.                                                    *)
THEOREM RegionsAreDisjoint == Spec => []RegionsDisjoint
  <1>1. Init => TypeInv /\ DisjointInv
    BY TypeInit, DisjointInit
  <1>2. TypeInv /\ DisjointInv /\ [Next]_regionVars => (TypeInv /\ DisjointInv)'
    <2>1. ASSUME TypeInv, DisjointInv, UNCHANGED regionVars
          PROVE  DisjointInv'
      BY <2>1 DEF DisjointInv, regionVars, areaVars, scanVars
    <2> QED
      BY <2>1, TypeStep, TypeStutter, DisjointStep DEF Next, RegionStep
  <1>3. TypeInv /\ DisjointInv => RegionsDisjoint
    BY DisjointRegions
  <1> QED
    BY <1>1, <1>2, <1>3, PTL DEF Spec
------------------------------------------------------------------------------
(* Frames and the FIFO list.                                               *)

(* The frame number in the entry of page pg.                               *)
Fpn(p, pg) == PAGING_FPN(pgd[p][pg])

(* Page pg is mapped.                                                      *)
Present(p, pg) == PAGING_PAGE_PRESENT(pgd[p][pg])

(* Page pg is in the list of find_victim_page.                             *)
Listed(p, pg) == \E n \in 1..Len(fifo_pgn[p]) : fifo_pgn[p][n] = pg

(* The free list of RAM holds no frame twice.                              *)
FreeDistinct ==
  \A m, n \in 1..Len(free_fp) : free_fp[m] = free_fp[n] => m = n

(* A page in RAM is in a frame that RAM has.                               *)
FramesInRange ==
  \A p \in Procs : \A pg \in Pages : Resident(p, pg) => Fpn(p, pg) \in Frames

(* A frame has one page, and none while it is free.                        *)
FramesSole ==
  /\ \A p, q \in Procs : \A pg, ph \in Pages :
       Resident(p, pg) /\ Resident(q, ph) /\ Fpn(p, pg) = Fpn(q, ph) => p = q /\ pg = ph
  /\ \A p \in Procs : \A pg \in Pages : \A n \in 1..Len(free_fp) :
       Resident(p, pg) => free_fp[n] # Fpn(p, pg)

(* The FIFO list of p holds its mapped pages, each once, all below the     *)
(* limit.                                                                  *)
FifoInv(p) ==
  /\ \A m, n \in 1..Len(fifo_pgn[p]) : fifo_pgn[p][m] = fifo_pgn[p][n] => m = n
  /\ \A pg \in Pages : Present(p, pg) <=> Listed(p, pg)
  /\ \A pg \in Pages : Present(p, pg) => pg < Limit(p)

(* FrameExclusive, from its two halves.                                    *)
LEMMA SoleExclusive ==
  ASSUME FreeDistinct, FramesSole
  PROVE  FrameExclusive
  <1> SUFFICES ASSUME NEW f \in Frames, NEW u \in FrameUses(f), NEW v \in FrameUses(f)
               PROVE  u = v
    BY DEF FrameExclusive
  <1>1. ASSUME NEW w \in FrameUses(f)
        PROVE  \/ \E n \in 1..Len(free_fp) : w = <<"free", n>> /\ free_fp[n] = f
               \/ \E p \in Procs, pg \in Pages : w = <<p, pg>> /\ Resident(p, pg) /\ Fpn(p, pg) = f
    <2>1. CASE w \in Procs \X Pages /\ Resident(w[1], w[2]) /\ PAGING_FPN(pgd[w[1]][w[2]]) = f
      BY <2>1 DEF Fpn
    <2>2. CASE \E n \in 1..Len(free_fp) : w = <<"free", n>> /\ free_fp[n] = f
      BY <2>2
    <2> QED
      BY <1>1, <2>1, <2>2 DEF FrameUses
  <1> QED
    BY <1>1 DEF FreeDistinct, FramesSole

(* Mapping new pages keeps frames with one user: the frames are taken off  *)
(* a list without repetitions, and two new pages get different ones.       *)
LEMMA GrowsFrames ==
  ASSUME TypeInv, NEW p \in Procs, NEW n \in Nat, Grows(p, n), FreeDistinct, FramesInRange
  PROVE  FreeDistinct' /\ FramesInRange' /\ (FramesSole => FramesSole')
  <1> DEFINE l == Limit(p)
             New == l..l + n - 1
             At(pg) == n - (pg - l)
  <1>1. CASE ~(n <= Len(free_fp))
    <2>1. free_fp' = <<>> /\ pgd' = pgd
      BY <1>1, GrowsNot
    <2>2. 1..Len(free_fp') = {}
      BY <2>1
    <2> QED
      BY <2>1, <2>2 DEF FreeDistinct, FramesInRange, FramesSole, Resident, Fpn
  <1>2. CASE n <= Len(free_fp)
    <2>0. l \in Nat /\ Len(free_fp) \in Nat /\ Pages \subseteq Int
      BY LenProperties DEF TypeInv, TypeOK, AreaInv, Pages
    <2>1. /\ Len(free_fp') = Len(free_fp) - n
          /\ \A m \in 1..Len(free_fp') : free_fp'[m] = free_fp[m + n]
      BY <1>2, GrowsPages
    <2>a. \A m \in 1..Len(free_fp') : m + n \in 1..Len(free_fp) /\ m + n > n
      BY <2>0, <2>1
    <2>2. ASSUME NEW q \in Procs, NEW pg \in Pages, ~(q = p /\ pg \in New)
          PROVE  pgd'[q][pg] = pgd[q][pg]
      BY <1>2, <2>2, GrowsPages
    <2>3. ASSUME NEW pg \in Pages, pg \in New
          PROVE  /\ At(pg) \in 1..n /\ At(pg) \in 1..Len(free_fp)
                 /\ Resident(p, pg)' /\ Fpn(p, pg)' = free_fp[At(pg)] /\ Fpn(p, pg)' \in Frames
      BY <1>2, <2>0, <2>3, GrowsPages DEF Resident, Fpn, FpnOf
    <2>4. ASSUME NEW q \in Procs, NEW pg \in Pages, ~(q = p /\ pg \in New)
          PROVE  Resident(q, pg)' = Resident(q, pg) /\ Fpn(q, pg)' = Fpn(q, pg)
      BY <2>2, <2>4 DEF Resident, Fpn
    <2>5. \A pg, ph \in New : At(pg) = At(ph) => pg = ph
      BY <2>0
    <2> HIDE DEF l, New, At
    <2>6. FreeDistinct'
      <3>1. \A m, k \in 1..Len(free_fp') : m + n = k + n => m = k
        BY <2>0, <2>1
      <3> QED
        BY <2>1, <2>a, <3>1 DEF FreeDistinct
    <2>7. FramesInRange'
      <3>1. ASSUME NEW q \in Procs, NEW pg \in Pages, Resident(q, pg)'
            PROVE  Fpn(q, pg)' \in Frames
        BY <2>3, <2>4, <3>1 DEF FramesInRange
      <3> QED
        BY <3>1 DEF FramesInRange
    <2>8. ASSUME FramesSole
          PROVE  FramesSole'
      <3>1. ASSUME NEW pg \in Pages, pg \in New, NEW q \in Procs, NEW ph \in Pages, Resident(q, ph)',
                   Fpn(p, pg)' = Fpn(q, ph)'
            PROVE  p = q /\ pg = ph
        <4>1. CASE q = p /\ ph \in New
          BY <2>3, <2>5, <3>1, <4>1 DEF FreeDistinct
        <4>2. CASE ~(q = p /\ ph \in New)
          <5>1. Resident(q, ph) /\ Fpn(q, ph) = free_fp[At(pg)]
            BY <2>3, <2>4, <3>1, <4>2
          <5> QED
            BY <2>3, <2>8, <3>1, <5>1 DEF FramesSole
        <4> QED
          BY <4>1, <4>2
      <3>2. ASSUME NEW q \in Procs, NEW r \in Procs, NEW pg \in Pages, NEW ph \in Pages,
                   Resident(q, pg)', Resident(r, ph)', Fpn(q, pg)' = Fpn(r, ph)'
            PROVE  q = r /\ pg = ph
        <4>1. CASE q = p /\ pg \in New
          BY <3>1, <3>2, <4>1
        <4>2. CASE r = p /\ ph \in New
          BY <3>1, <3>2, <4>2
        <4>3. CASE ~(q = p /\ pg \in New) /\ ~(r = p /\ ph \in New)
          BY <2>4, <2>8, <3>2, <4>3 DEF FramesSole
        <4> QED
          BY <4>1, <4>2, <4>3
      <3>3. ASSUME NEW q \in Procs, NEW pg \in Pages, NEW m \in 1..Len(free_fp'), Resident(q, pg)'
            PROVE  free_fp'[m] # Fpn(q, pg)'
        <4>1. free_fp'[m] = free_fp[m + n] /\ m + n \in 1..Len(free_fp) /\ m + n > n
          BY <2>1, <2>a
        <4>2. CASE q = p /\ pg \in New
          <5>1. Fpn(q, pg)' = free_fp[At(pg)] /\ At(pg) \in 1..Len(free_fp) /\ At(pg) # m + n
            BY <2>3, <4>1, <4>2
          <5> QED
            BY <4>1, <5>1 DEF FreeDistinct
        <4>3. CASE ~(q = p /\ pg \in New)
          BY <2>4, <2>8, <3>3, <4>1, <4>3 DEF FramesSole
        <4> QED
          BY <4>2, <4>3
      <3> QED
        BY <3>2, <3>3 DEF FramesSole
    <2> QED
      BY <2>6, <2>7, <2>8
  <1> QED
    BY <1>1, <1>2

(* Frames that are taken for pages beyond the page table leave the free    *)
(* list, and no other frame has a user more.                               *)
LEMMA PassesSole ==
  ASSUME TypeInv, NEW p \in Procs, NEW n \in Nat, Passes(p, n), FreeDistinct, FramesInRange
  PROVE  FreeDistinct' /\ FramesInRange' /\ (FramesSole => FramesSole')
  <1>1. PICK d \in Nat : /\ Len(free_fp') + d = Len(free_fp)
                         /\ \A m \in 1..Len(free_fp') : free_fp'[m] = free_fp[m + d]
    BY PassesFrames
  <1>2. Len(free_fp) \in Nat /\ Len(free_fp') \in Nat /\ pgd' = pgd
    BY PassesFrames, LenProperties DEF TypeInv, TypeOK
  <1>3. \A m \in 1..Len(free_fp') : m + d \in 1..Len(free_fp)
    BY <1>1, <1>2
  <1>4. FreeDistinct'
    <2>1. ASSUME NEW m \in 1..Len(free_fp'), NEW k \in 1..Len(free_fp'), free_fp'[m] = free_fp'[k]
          PROVE  m = k
      <3>1. m + d = k + d
        BY <1>1, <1>3, <2>1 DEF FreeDistinct
      <3> QED
        BY <1>1, <1>2, <3>1
    <2> QED
      BY <2>1 DEF FreeDistinct
  <1> QED
    BY <1>1, <1>2, <1>3, <1>4 DEF FramesInRange, FramesSole, Resident, Fpn

(* Passing the page table changes no list, and raises the limit.           *)
LEMMA PassesFifoInv ==
  ASSUME TypeInv, NEW p \in Procs, NEW n \in Nat, Passes(p, n), NEW q \in Procs, FifoInv(q)
  PROVE  FifoInv(q)'
  <1>1. pgd' = pgd /\ fifo_pgn' = fifo_pgn
    BY PassesFrames
  <1>2. Limit(q) <= Limit(q)' /\ Limit(q) \in Nat /\ Limit(q)' \in Nat /\ Pages \subseteq Nat
    BY GrowsLimit DEF TypeInv, AreaInv, Pages
  <1>3. \A pg \in Pages : pg < Limit(q) => pg < Limit(q)'
    BY <1>2
  <1> QED
    BY <1>1, <1>3 DEF FifoInv, Present, Listed

(* Mapping new pages keeps the FIFO list exact: nothing at or above the    *)
(* limit was mapped before.                                                *)
LEMMA GrowsFifoInv ==
  ASSUME TypeInv, NEW p \in Procs, NEW n \in Nat, Grows(p, n), NEW q \in Procs, FifoInv(q)
  PROVE  FifoInv(q)'
  <1> DEFINE l == Limit(p)
             old == fifo_pgn[p]
             new == fifo_pgn'[p]
  <1>0. l \in Nat /\ Limit(p)' = l + n /\ Pages \subseteq Nat
    BY GrowsLimit DEF TypeInv, AreaInv, Pages
  <1>1. CASE ~(n <= Len(free_fp))
    <2>1. pgd' = pgd /\ fifo_pgn' = fifo_pgn
      BY <1>1, GrowsNot
    <2>2. Limit(q) <= Limit(q)' /\ Limit(q) \in Nat /\ Limit(q)' \in Nat
      BY <1>0, GrowsLimit DEF TypeInv, AreaInv
    <2>3. \A pg \in Pages : pg < Limit(q) => pg < Limit(q)'
      BY <1>0, <2>2
    <2> QED
      BY <2>1, <2>3 DEF FifoInv, Present, Listed
  <1>2. CASE n <= Len(free_fp) /\ q # p
    <2>1. pgd'[q] = pgd[q] /\ fifo_pgn'[q] = fifo_pgn[q]
      BY <1>2, GrowsPages
    <2>2. Limit(q)' = Limit(q)
      BY <1>2, GrowsLimit
    <2> QED
      BY <2>1, <2>2 DEF FifoInv, Present, Listed
  <1>3. CASE n <= Len(free_fp) /\ q = p
    <2>1. old \in Seq(Pages) /\ Len(old) \in Nat /\ \A m \in 1..Len(old) : old[m] \in Pages
      BY LenProperties, ElementOfSeq DEF TypeInv, TypeOK
    <2>2. /\ Len(new) = n + Len(old)
          /\ \A m \in 1..n : new[m] = l + n - m
          /\ \A m \in n + 1..Len(new) : new[m] = old[m - n]
      BY <1>3, GrowsFifo
    <2>3. \A pg \in Pages : Present(p, pg)' <=> (Present(p, pg) \/ pg \in l..l + n - 1)
      BY <1>3, GrowsPages DEF Present
    <2>4. \A m \in 1..Len(old) : old[m] < l
      BY <1>3, <2>1 DEF FifoInv, Listed
    <2> HIDE DEF l, old, new
    <2>5. \A m \in 1..Len(new) : (m \in 1..n /\ new[m] = l + n - m /\ new[m] >= l)
            \/ (m \in n + 1..Len(new) /\ m - n \in 1..Len(old) /\ new[m] = old[m - n] /\ new[m] < l)
      BY <1>0, <2>1, <2>2, <2>4
    <2>6. ASSUME NEW m \in 1..Len(new), NEW k \in 1..Len(new), new[m] = new[k]
          PROVE  m = k
      <3>1. CASE m \in 1..n /\ k \in 1..n
        BY <1>0, <2>2, <2>6, <3>1
      <3>2. CASE m \in n + 1..Len(new) /\ k \in n + 1..Len(new)
        <4>1. m - n \in 1..Len(old) /\ k - n \in 1..Len(old) /\ old[m - n] = old[k - n]
          BY <2>1, <2>2, <2>6, <3>2
        <4>2. m - n = k - n
          BY <1>3, <4>1 DEF FifoInv, old
        <4> QED
          BY <4>2, <3>2
      <3>3. (m \in 1..n /\ k \in n + 1..Len(new)) => FALSE
        BY <1>0, <2>1, <2>2, <2>4, <2>5, <2>6
      <3>4. (k \in 1..n /\ m \in n + 1..Len(new)) => FALSE
        BY <1>0, <2>1, <2>2, <2>4, <2>5, <2>6
      <3> QED
        BY <2>5, <3>1, <3>2, <3>3, <3>4
    <2>7. ASSUME NEW pg \in Pages
          PROVE  (\E m \in 1..Len(new) : new[m] = pg) <=> (Listed(p, pg) \/ pg \in l..l + n - 1)
      <3>1. ASSUME pg \in l..l + n - 1
            PROVE  \E m \in 1..Len(new) : new[m] = pg
        <4>1. l + n - pg \in 1..n /\ l + n - pg \in 1..Len(new) /\ l + n - (l + n - pg) = pg
          BY <1>0, <2>1, <2>2, <3>1
        <4> QED
          BY <2>2, <4>1
      <3>2. ASSUME NEW m \in 1..Len(old), old[m] = pg
            PROVE  \E k \in 1..Len(new) : new[k] = pg
        <4>1. m + n \in n + 1..Len(new) /\ m + n \in 1..Len(new) /\ (m + n) - n = m
          BY <2>1, <2>2
        <4> QED
          BY <2>2, <3>2, <4>1
      <3>3. ASSUME NEW m \in 1..Len(new), new[m] = pg
            PROVE  (\E k \in 1..Len(old) : old[k] = pg) \/ pg \in l..l + n - 1
        <4>1. CASE m \in 1..n
          BY <1>0, <2>2, <3>3, <4>1
        <4>2. CASE m \notin 1..n
          BY <2>5, <3>3, <4>2
        <4> QED
          BY <4>1, <4>2
      <3>4. Listed(p, pg) <=> \E k \in 1..Len(old) : old[k] = pg
        BY DEF Listed, old
      <3> QED
        BY <3>1, <3>2, <3>3, <3>4
    <2>8. \A pg \in Pages : Present(p, pg)' <=> \E m \in 1..Len(new) : new[m] = pg
      BY <1>3, <2>3, <2>7 DEF FifoInv
    <2>9. \A pg \in Pages : Present(p, pg)' => pg < l + n
      BY <1>0, <1>3, <2>3 DEF FifoInv, l
    <2> QED
      BY <1>0, <1>3, <2>6, <2>8, <2>9 DEF FifoInv, Listed, new, l
  <1> QED
    BY <1>1, <1>2, <1>3

(* The page tables, the lists and the frames agree; without accesses no    *)
(* page is ever swapped out.                                               *)
PageInv ==
  /\ NoPageOut /\ FreeDistinct /\ FramesInRange /\ FramesSole
  /\ \A p \in Procs : FifoInv(p)

(* PageInv is about the area.                                              *)
LEMMA PageInvSame ==
  ASSUME PageInv, AreaSame
  PROVE  PageInv'
  BY DEF PageInv, AreaSame, NoPageOut, FreeDistinct, FramesInRange, FramesSole, FifoInv,
         Resident, Fpn, Present, Listed, Limit

(* Every step keeps PageInv.                                               *)
LEMMA PageStep ==
  ASSUME TypeInv, NEW p \in Procs, PageInv, RegionStep(p)
  PROVE  PageInv'
  <1>1. ASSUME NEW n \in Nat, Grows(p, n)
        PROVE  PageInv'
    <2>1. FreeDistinct' /\ FramesInRange' /\ FramesSole'
      BY <1>1, GrowsFrames DEF PageInv
    <2>2. \A q \in Procs : FifoInv(q)'
      BY <1>1, GrowsFifoInv DEF PageInv
    <2>3. NoPageOut'
      <3>1. CASE ~(n <= Len(free_fp))
        BY <1>1, <3>1, GrowsNot DEF PageInv, NoPageOut
      <3>2. CASE n <= Len(free_fp)
        <4>1. ASSUME NEW q \in Procs, NEW pg \in Pages
              PROVE  ~pgd'[q][pg].swapped
          BY <1>1, <3>2, GrowsPages DEF PageInv, NoPageOut
        <4> QED
          BY <4>1 DEF NoPageOut
      <3> QED
        BY <3>1, <3>2
    <2> QED
      BY <2>1, <2>2, <2>3 DEF PageInv
  <1>2. ASSUME NEW n \in Nat, Passes(p, n)
        PROVE  PageInv'
    <2>1. FreeDistinct' /\ FramesInRange' /\ FramesSole'
      BY <1>2, PassesSole DEF PageInv
    <2>2. \A q \in Procs : FifoInv(q)'
      BY <1>2, PassesFifoInv DEF PageInv
    <2>3. NoPageOut'
      BY <1>2, PassesFrames DEF PageInv, NoPageOut
    <2> QED
      BY <2>1, <2>2, <2>3 DEF PageInv
  <1> QED
    BY <1>1, <1>2, StepArea, PageInvSame DEF AreaMoves

(* A fresh device lists each of its frames once.                           *)
LEMMA FormatDistinct ==
  ASSUME NEW numfp \in Nat
  PROVE  /\ Len(MEMPHY_format(numfp)) = numfp
         /\ \A m, n \in 1..numfp :
              MEMPHY_format(numfp)[m] = MEMPHY_format(numfp)[n] => m = n
  <1>1. MEMPHY_format(numfp) \in [1..numfp -> Nat]
    BY DEF MEMPHY_format
  <1> QED
    BY <1>1, FunIsSeq DEF MEMPHY_format

(* PageInv holds at the start: nothing is mapped.                          *)
LEMMA PageInit ==
  ASSUME Init
  PROVE  PageInv
  <1>1. \A p \in Procs : \A pg \in Pages : ~Present(p, pg) /\ ~Resident(p, pg) /\ ~pgd[p][pg].swapped
    BY DEF Init, Present, Resident, PAGING_PAGE_PRESENT, NoPTE
  <1>2. \A p \in Procs : fifo_pgn[p] = <<>> /\ 1..Len(fifo_pgn[p]) = {}
    BY DEF Init
  <1>3. FreeDistinct
    BY FormatDistinct, RegionsAssumption, Widths DEF Init, FreeDistinct
  <1> QED
    BY <1>1, <1>2, <1>3 DEF PageInv, NoPageOut, FramesInRange, FramesSole, FifoInv, Listed

(* FifoMatches, from FifoInv: a page below the limit starts below it.      *)
LEMMA PageInvMatches ==
  ASSUME TypeInv, \A p \in Procs : FifoInv(p)
  PROVE  FifoMatches
  <1>1. ASSUME NEW p \in Procs, NEW pg \in Pages, PAGING_PAGE_PRESENT(pgd[p][pg])
        PROVE  pg * PAGESZ < vm_end[p]
    <2>1. pg < Limit(p)
      BY <1>1 DEF FifoInv, Present
    <2>2. pg \in Int /\ Limit(p) \in Int /\ vm_end[p] = Limit(p) * PAGESZ
      BY DEF Pages, TypeInv, AreaInv
    <2> QED
      BY <2>1, <2>2, MulMono, RegionsAssumption
  <1> QED
    BY <1>1 DEF FifoInv, FifoMatches, Present, Listed

(* The inductive invariant of the allocator.                               *)
RegionsInv == TypeInv /\ DisjointInv /\ PageInv

(* RegionsInv is an invariant of the allocator.                            *)
THEOREM RegionsInvariant == Spec => []RegionsInv
  <1>1. Init => RegionsInv
    BY TypeInit, DisjointInit, PageInit DEF RegionsInv
  <1>2. RegionsInv /\ [Next]_regionVars => RegionsInv'
    <2>1. ASSUME RegionsInv, UNCHANGED regionVars
          PROVE  RegionsInv'
      <3>1. AreaSame /\ DisjointInv'
        BY <2>1 DEF RegionsInv, DisjointInv, AreaSame, regionVars, areaVars, scanVars
      <3> QED
        BY <2>1, <3>1, TypeStutter, PageInvSame DEF RegionsInv
    <2> QED
      BY <2>1, TypeStep, DisjointStep, PageStep DEF Next, RegionStep, RegionsInv
  <1> QED
    BY <1>1, <1>2, PTL DEF Spec

(* As long as nothing is accessed, the allocator never hands out a frame   *)
(* of RAM that is in use, to the same process or to another one, also      *)
(* after an allocation that failed half way for want of frames.            *)
THEOREM RegionsFrameExclusive == Spec => []FrameExclusive
  <1>1. RegionsInv => FrameExclusive
    BY SoleExclusive DEF RegionsInv, PageInv
  <1> QED
    BY <1>1, RegionsInvariant, PTL

(* The list of find_victim_page holds exactly the pages that the allocator *)
(* has mapped, each once, and all below the limit.                         *)
THEOREM RegionsFifoMatches == Spec => []FifoMatches
  <1>1. RegionsInv => FifoMatches
    BY PageInvMatches DEF RegionsInv, PageInv
  <1> QED
    BY <1>1, RegionsInvariant, PTL
==============================================================================
