------------------------------ MODULE MCRegions ------------------------------
(* The processes of the runs of Regions.                                   *)
EXTENDS Regions

CONSTANTS p1, p2
==============================================================================
