------------------------------ MODULE SlotClock ------------------------------
(***************************************************************************)
(* What timer.c promises to the threads that attach to it (the CPUs and    *)
(* the loader): time is divided in slots, each attached device has one     *)
(* turn per slot, and the clock advances only when no device is still at   *)
(* work in the current slot.                                               *)
(*                                                                         *)
(* Timer.tla is the lock-level model of timer.c and is shown to implement  *)
(* this specification; Kernel.tla composes the CPUs, the loader and the    *)
(* scheduler with it.                                                      *)
(***************************************************************************)
EXTENDS Naturals

CONSTANTS
  Devices,   \* the threads that called attach_event
  MaxTime    \* bound: the 64-bit slot counter is followed up to this value

VARIABLES
  time,      \* _time, what current_time() returns
  stage      \* where each device is in the current slot

clockVars == <<time, stage>>

(* "working": between two calls of next_slot; "arrived": blocked inside    *)
(* next_slot; "gone": detach_event has been called.                        *)
Stages == {"working", "arrived", "gone"}

ClockTypeOK ==
  /\ time \in 0..MaxTime
  /\ stage \in [Devices -> Stages]

ClockInit ==
  /\ time = 0
  /\ stage = [d \in Devices |-> "working"]

(* The counter after one more slot; it stays at the bound.                 *)
Later(t) == IF t < MaxTime THEN t + 1 ELSE t

(* next_slot: the device is done with the current slot and blocks.         *)
Arrive(d) ==
  /\ stage[d] = "working"
  /\ stage' = [stage EXCEPT ![d] = "arrived"]
  /\ UNCHANGED time

(* detach_event: the device leaves for good.                               *)
Detach(d) ==
  /\ stage[d] = "working"
  /\ stage' = [stage EXCEPT ![d] = "gone"]
  /\ UNCHANGED time

(* Every device that has arrived starts its turn in the next slot.         *)
Tick ==
  /\ \A d \in Devices : stage[d] # "working"
  /\ \E d \in Devices : stage[d] = "arrived"
  /\ time' = Later(time)
  /\ stage' = [d \in Devices |->
                 IF stage[d] = "arrived" THEN "working" ELSE stage[d]]

(* Once every device has left, the timer may still count a slot before it  *)
(* stops; it never has to.                                                 *)
LastTick ==
  /\ \A d \in Devices : stage[d] = "gone"
  /\ time' = Later(time)
  /\ UNCHANGED stage

ClockNext ==
  \/ \E d \in Devices : Arrive(d) \/ Detach(d)
  \/ Tick
  \/ LastTick

ClockSafety == ClockInit /\ [][ClockNext]_clockVars

(* The timer never leaves an arrived device blocked for ever.              *)
ClockSpec == ClockSafety /\ WF_clockVars(Tick)
==============================================================================
