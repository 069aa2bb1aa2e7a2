----------------------------- MODULE MCFrameList -----------------------------
(* The threads of the run of FrameList.                                    *)
EXTENDS FrameList

CONSTANTS t1, t2
==============================================================================
