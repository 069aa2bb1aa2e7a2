------------------------------- MODULE MCPaging -------------------------------
(* The processes of the runs of Paging.                                    *)
EXTENDS Paging, TLC

CONSTANTS p1, p2

(* The processes are interchangeable.                                      *)
ProcSymmetry == Permutations(Procs)
===============================================================================
