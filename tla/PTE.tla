--------------------------------- MODULE PTE ---------------------------------
(***************************************************************************)
(* Page table entries, mm.h and mm.c.  Of the 32 bits of an entry the code *)
(* uses the present bit (31), the swapped bit (30) and the low 26 bits,    *)
(* which hold either a frame number (bits 0..12) or a swap type and offset *)
(* (bits 0..4 and 5..25): the two layouts share the low bits.              *)
(***************************************************************************)
EXTENDS Naturals

FpnRange == 8192       \* 2^13, bits 0..12
SwpTypRange == 32      \* 2^5,  bits 0..4
SwpOffRange == 2097152 \* 2^21, bits 5..25

PTEs == [present : BOOLEAN, swapped : BOOLEAN,
         low : 0..SwpOffRange * SwpTypRange - 1]

(* pgd comes from the allocator: an entry that was never set is zero.      *)
NoPTE == [present |-> FALSE, swapped |-> FALSE, low |-> 0]

PAGING_PAGE_PRESENT(pte) == pte.present

PAGING_FPN(pte) == pte.low % FpnRange

PAGING_PTE_SWP(pte) == pte.low \div SwpTypRange

(* The page is in a frame of RAM; the bits above the frame number stay.    *)
pte_set_fpn(pte, fpn) ==
  [present |-> TRUE, swapped |-> FALSE,
   low |-> (pte.low \div FpnRange) * FpnRange + (fpn % FpnRange)]

(* The page is in the swap area; the present bit is set here too.          *)
pte_set_swap(pte, swptyp, swpoff) ==
  [present |-> TRUE, swapped |-> TRUE,
   low |-> (swpoff % SwpOffRange) * SwpTypRange + (swptyp % SwpTypRange)]
==============================================================================
