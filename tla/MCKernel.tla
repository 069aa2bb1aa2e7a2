------------------------------- MODULE MCKernel -------------------------------
(* Small process tables for Kernel and SlotPace.                           *)
EXTENDS SlotPace

CONSTANTS c1, c2

Table(start, prio, prty, size) ==
  [p \in Procs |-> [start |-> start[p], prio |-> prio[p],
                    priority |-> prty[p], size |-> size[p]]]

(* Three processes: all at once, staggered, and with a gap in which the    *)
(* CPUs run dry; every assignment of two queues; equal and different       *)
(* default priorities; programs shorter and longer than the quantum.       *)
ThreeProcs ==
  {Table(s, r, t, z) :
     s \in {<<0, 0, 0>>, <<0, 1, 1>>, <<1, 1, 4>>},
     r \in [Procs -> {0, 1}],
     t \in {<<1, 1, 1>>, <<2, 1, 1>>},
     z \in {<<2, 2, 1>>, <<1, 4, 3>>, <<3, 3, 2>>}}
===============================================================================
