------------------------------ MODULE FramePool ------------------------------
(***************************************************************************)
(* What a physical memory device promises to those who take frames from    *)
(* it: a frame goes from the pool to one thread, and never comes back; a   *)
(* request that finds the pool empty loses what it was given.  A pool that *)
(* is broken promises nothing.                                             *)
(***************************************************************************)
CONSTANTS Threads, Frames

VARIABLES
  free,    \* the frames that nobody has
  own,     \* what each thread was given
  lost,    \* what failed requests were given
  broken

poolVars == <<free, own, lost, broken>>

PoolInit ==
  /\ free = Frames
  /\ own = [t \in Threads |-> {}]
  /\ lost = {}
  /\ broken = FALSE

(* MEMPHY_get_freefp as one step.                                          *)
Take(t, f) ==
  /\ f \in free
  /\ free' = free \ {f}
  /\ own' = [own EXCEPT ![t] = @ \cup {f}]
  /\ UNCHANGED <<lost, broken>>

(* A request fails: it drops frames, but only when none is left.           *)
Fail(t, dropped) ==
  /\ free = {}
  /\ own' = [own EXCEPT ![t] = @ \ dropped]
  /\ lost' = lost \cup dropped
  /\ UNCHANGED <<free, broken>>

(* The pool breaks, or is broken and stays so.                             *)
Broken == broken'

PoolNext ==
  \/ \E t \in Threads, f \in Frames : Take(t, f)
  \/ \E t \in Threads : \E dropped \in SUBSET own[t] : Fail(t, dropped)
  \/ Broken

PoolSpec == PoolInit /\ [][PoolNext]_poolVars
==============================================================================
