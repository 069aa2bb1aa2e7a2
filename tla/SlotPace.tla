------------------------------- MODULE SlotPace -------------------------------
(***************************************************************************)
(* Kernel with a history variable: the processes that have executed an     *)
(* instruction in the current slot.                                        *)
(***************************************************************************)
EXTENDS Kernel

VARIABLE hasRun

paceVars == <<vars, hasRun>>

PaceInit == Init /\ hasRun = {}

(* The pc moves when an instruction is executed.                           *)
Executed == {p \in Procs : pc'[p] # pc[p]}

PaceNext ==
  \/ NextSlot /\ hasRun' = {}
  \/ /\ (\E c \in CPUs : CpuStep(c)) \/ LoaderStep \/ LastSlot
     /\ hasRun' = hasRun \cup Executed

PaceSpec == PaceInit /\ [][PaceNext]_paceVars

FairPaceSpec == PaceSpec /\ Fairness
------------------------------------------------------------------------------
(* A process executes at most one instruction per slot, whichever CPUs it  *)
(* moves between and however long it has waited: each instruction is       *)
(* followed by next_slot, and until that returns no other CPU can get the  *)
(* process.                                                                *)
Pace == [][Executed \cap hasRun = {}]_paceVars
==============================================================================
