----------------------------- MODULE TimerProofs -----------------------------
(***************************************************************************)
(* Proofs about Timer, for every number of devices: its type, the safety   *)
(* properties its run checks, and that it implements the safety part of    *)
(* SlotClock.                                                              *)
(***************************************************************************)
EXTENDS Timer, TLAPS

------------------------------------------------------------------------------
(* The inductive invariant, one conjunct per fact that the threads rely on. *)

(* What the flags say of the thread that owns them.                        *)
FlagsInv ==
  \A d \in Devices :
    /\ fsh[d] <=> dpc[d] = "gone"
    /\ done[d] => dpc[d] \in {"test", "asleep"}
    /\ dpc[d] = "asleep" => done[d]

(* Where the cursor is, and what the timer knows of the devices behind it  *)
(* (first loop) or ahead of it (second loop).                              *)
CursorInv ==
  /\ tpc \in {"scan", "asleep", "release"} => temp \in Devices
  /\ tpc = "asleep" => ~done[temp] /\ ~fsh[temp]
  /\ tpc \in {"scan", "asleep"} =>
       \A d \in Devices : d < temp => done[d] \/ fsh[d]
  /\ tpc = "tick" => \A d \in Devices : done[d] \/ fsh[d]
  /\ tpc = "release" => \A d \in Devices : temp <= d => done[d] \/ fsh[d]

(* The count of detached devices is never more than what was scanned, and  *)
(* is all of it only if all of it has detached.                            *)
CountInv ==
  /\ tpc \in {"scan", "asleep"} =>
       /\ fshCount <= temp - 1
       /\ fshCount = temp - 1 => \A d \in Devices : d < temp => fsh[d]
  /\ tpc \in {"tick", "release"} =>
       (fshCount = NumDevices => \A d \in Devices : fsh[d])

(* A device is one slot ahead of the counter exactly while it has arrived. *)
LeadInv ==
  \A d \in Devices : lead[d] = IF Arrived(d) THEN 1 ELSE 0

(* The timer is told to stop, and stops, after every device has left.      *)
StopInv ==
  /\ timer_stop <=> mpc # "join"
  /\ timer_stop \/ tpc = "exited" => \A d \in Devices : fsh[d]
  /\ mpc = "returned" => tpc = "exited"

IInv == TypeOK /\ FlagsInv /\ CursorInv /\ CountInv /\ LeadInv /\ StopInv
------------------------------------------------------------------------------
(* The state after attach_event and start_timer satisfies the invariant.   *)
LEMMA InitIInv == Init => IInv
<1> SUFFICES ASSUME Init PROVE IInv
  OBVIOUS
<1> USE TimerAssumption DEF Init, Devices
<1>1. TypeOK
  <2>1. 1 \in 1..NumDevices + 1 /\ 0 \in 0..NumDevices /\ 0 \in 0..MaxTime
    OBVIOUS
  <2>2. done \in [Devices -> BOOLEAN] /\ fsh \in [Devices -> BOOLEAN]
    OBVIOUS
  <2>3. dpc \in [Devices -> DevicePCs]
    BY DEF DevicePCs
  <2>4. lead \in [Devices -> Int]
    OBVIOUS
  <2>5. tpc \in TimerPCs /\ mpc \in MainPCs /\ timer_stop \in BOOLEAN
    BY DEF TimerPCs, MainPCs
  <2> QED BY <2>1, <2>2, <2>3, <2>4, <2>5 DEF TypeOK
<1>2. FlagsInv
  BY DEF FlagsInv
<1>3. CursorInv /\ CountInv
  BY DEF CursorInv, CountInv
<1>4. LeadInv
  BY DEF LeadInv, Arrived
<1>5. StopInv
  BY DEF StopInv
<1> QED BY <1>1, <1>2, <1>3, <1>4, <1>5 DEF IInv

(* Every step of every thread preserves it.                                *)
LEMMA NextIInv == IInv /\ [Next]_vars => IInv'
<1> SUFFICES ASSUME IInv, [Next]_vars PROVE IInv'
  OBVIOUS
<1> USE TimerAssumption DEF IInv
<1>1. ASSUME NEW d \in Devices, NextSlotSignal(d) PROVE IInv'
  <2>1. TypeOK'
    BY <1>1 DEF TypeOK, TimerPCs, DevicePCs, MainPCs, Devices, NextSlotSignal, SignalTimer
  <2>2. FlagsInv'
    BY <1>1 DEF FlagsInv, TypeOK, DevicePCs, Devices, NextSlotSignal, SignalTimer
  <2>3. CursorInv'
    BY <1>1 DEF CursorInv, TypeOK, FlagsInv, TimerPCs, DevicePCs, Devices, NextSlotSignal, SignalTimer
  <2>4. CountInv'
    BY <1>1 DEF CountInv, TypeOK, CursorInv, FlagsInv, Devices, NextSlotSignal, SignalTimer
  <2>5. LeadInv'
    BY <1>1 DEF LeadInv, TypeOK, FlagsInv, CursorInv, Arrived, Devices, NextSlotSignal, SignalTimer
  <2>6. StopInv'
    BY <1>1 DEF StopInv, TypeOK, FlagsInv, CursorInv, CountInv, MainPCs, Devices, NextSlotSignal, SignalTimer
  <2> QED BY <2>1, <2>2, <2>3, <2>4, <2>5, <2>6
<1>2. ASSUME NEW d \in Devices, NextSlotTest(d) PROVE IInv'
  <2>1. TypeOK'
    BY <1>2 DEF TypeOK, TimerPCs, DevicePCs, MainPCs, Devices, NextSlotTest
  <2>2. FlagsInv'
    BY <1>2 DEF FlagsInv, TypeOK, DevicePCs, Devices, NextSlotTest
  <2>3. CursorInv'
    BY <1>2 DEF CursorInv, TypeOK, FlagsInv, TimerPCs, DevicePCs, Devices, NextSlotTest
  <2>4. CountInv'
    BY <1>2 DEF CountInv, TypeOK, CursorInv, FlagsInv, Devices, NextSlotTest
  <2>5. LeadInv'
    BY <1>2 DEF LeadInv, TypeOK, FlagsInv, CursorInv, Arrived, Devices, NextSlotTest
  <2>6. StopInv'
    BY <1>2 DEF StopInv, TypeOK, FlagsInv, CursorInv, CountInv, MainPCs, Devices, NextSlotTest
  <2> QED BY <2>1, <2>2, <2>3, <2>4, <2>5, <2>6
<1>3. ASSUME NEW d \in Devices, DetachEvent(d) PROVE IInv'
  <2>1. TypeOK'
    BY <1>3 DEF TypeOK, TimerPCs, DevicePCs, MainPCs, Devices, DetachEvent, SignalTimer
  <2>2. FlagsInv'
    BY <1>3 DEF FlagsInv, TypeOK, DevicePCs, Devices, DetachEvent, SignalTimer
  <2>3. CursorInv'
    BY <1>3 DEF CursorInv, TypeOK, FlagsInv, TimerPCs, DevicePCs, Devices, DetachEvent, SignalTimer
  <2>4. CountInv'
    BY <1>3 DEF CountInv, TypeOK, CursorInv, FlagsInv, Devices, DetachEvent, SignalTimer
  <2>5. LeadInv'
    BY <1>3 DEF LeadInv, TypeOK, FlagsInv, CursorInv, Arrived, Devices, DetachEvent, SignalTimer
  <2>6. StopInv'
    BY <1>3 DEF StopInv, TypeOK, FlagsInv, CursorInv, CountInv, MainPCs, Devices, DetachEvent, SignalTimer
  <2> QED BY <2>1, <2>2, <2>3, <2>4, <2>5, <2>6
<1>4. ASSUME NEW d \in Devices, DeviceSpuriousWake(d) PROVE IInv'
  <2>1. TypeOK'
    BY <1>4 DEF TypeOK, TimerPCs, DevicePCs, MainPCs, Devices, DeviceSpuriousWake
  <2>2. FlagsInv'
    BY <1>4 DEF FlagsInv, TypeOK, DevicePCs, Devices, DeviceSpuriousWake
  <2>3. CursorInv'
    BY <1>4 DEF CursorInv, TypeOK, FlagsInv, TimerPCs, DevicePCs, Devices, DeviceSpuriousWake
  <2>4. CountInv'
    BY <1>4 DEF CountInv, TypeOK, CursorInv, FlagsInv, Devices, DeviceSpuriousWake
  <2>5. LeadInv'
    BY <1>4 DEF LeadInv, TypeOK, FlagsInv, CursorInv, Arrived, Devices, DeviceSpuriousWake
  <2>6. StopInv'
    BY <1>4 DEF StopInv, TypeOK, FlagsInv, CursorInv, CountInv, MainPCs, Devices, DeviceSpuriousWake
  <2> QED BY <2>1, <2>2, <2>3, <2>4, <2>5, <2>6
<1>5. CASE TimerTop
  <2>1. TypeOK'
    BY <1>5 DEF TypeOK, TimerPCs, DevicePCs, MainPCs, Devices, TimerTop
  <2>2. FlagsInv'
    BY <1>5 DEF FlagsInv, TypeOK, DevicePCs, Devices, TimerTop
  <2>3. CursorInv'
    BY <1>5 DEF CursorInv, TypeOK, FlagsInv, TimerPCs, DevicePCs, Devices, TimerTop
  <2>4. CountInv'
    BY <1>5 DEF CountInv, TypeOK, CursorInv, FlagsInv, Devices, TimerTop
  <2>5. LeadInv'
    BY <1>5 DEF LeadInv, TypeOK, FlagsInv, CursorInv, Arrived, Devices, TimerTop
  <2>6. StopInv'
    BY <1>5 DEF StopInv, TypeOK, FlagsInv, CursorInv, CountInv, MainPCs, Devices, TimerTop
  <2> QED BY <2>1, <2>2, <2>3, <2>4, <2>5, <2>6
<1>6. CASE TimerScan
  <2>1. TypeOK'
    BY <1>6 DEF TypeOK, CountInv, CursorInv, TimerPCs, DevicePCs, MainPCs, Devices, TimerScan, MustWait
  <2>2. FlagsInv'
    BY <1>6 DEF FlagsInv, TypeOK, DevicePCs, Devices, TimerScan, MustWait
  <2>3. CursorInv'
    BY <1>6 DEF CursorInv, TypeOK, FlagsInv, TimerPCs, DevicePCs, Devices, TimerScan, MustWait
  <2>4. CountInv'
    BY <1>6 DEF CountInv, TypeOK, CursorInv, FlagsInv, Devices, TimerScan, MustWait
  <2>5. LeadInv'
    BY <1>6 DEF LeadInv, TypeOK, FlagsInv, CursorInv, Arrived, Devices, TimerScan, MustWait
  <2>6. StopInv'
    BY <1>6 DEF StopInv, TypeOK, FlagsInv, CursorInv, CountInv, MainPCs, Devices, TimerScan, MustWait
  <2> QED BY <2>1, <2>2, <2>3, <2>4, <2>5, <2>6
<1>7. CASE TimerTick
  <2>1. TypeOK'
    BY <1>7 DEF TypeOK, TimerPCs, DevicePCs, MainPCs, Devices, TimerTick, Later
  <2>2. FlagsInv'
    BY <1>7 DEF FlagsInv, TypeOK, DevicePCs, Devices, TimerTick, Later
  <2>3. CursorInv'
    BY <1>7 DEF CursorInv, TypeOK, FlagsInv, TimerPCs, DevicePCs, Devices, TimerTick, Later
  <2>4. CountInv'
    BY <1>7 DEF CountInv, TypeOK, CursorInv, FlagsInv, Devices, TimerTick, Later
  <2>5. LeadInv'
    BY <1>7 DEF LeadInv, TypeOK, FlagsInv, CursorInv, Arrived, Devices, TimerTick, Later
  <2>6. StopInv'
    BY <1>7 DEF StopInv, TypeOK, FlagsInv, CursorInv, CountInv, MainPCs, Devices, TimerTick, Later
  <2> QED BY <2>1, <2>2, <2>3, <2>4, <2>5, <2>6
<1>8. CASE TimerRelease
  <2>1. TypeOK'
    BY <1>8 DEF TypeOK, TimerPCs, DevicePCs, MainPCs, Devices, TimerRelease, SignalDevice
  <2>2. FlagsInv'
    BY <1>8 DEF FlagsInv, TypeOK, DevicePCs, Devices, TimerRelease, SignalDevice
  <2>3. CursorInv'
    BY <1>8 DEF CursorInv, TypeOK, FlagsInv, TimerPCs, DevicePCs, Devices, TimerRelease, SignalDevice
  <2>4. CountInv'
    BY <1>8 DEF CountInv, TypeOK, CursorInv, FlagsInv, Devices, TimerRelease, SignalDevice
  <2>5. LeadInv'
    BY <1>8 DEF LeadInv, TypeOK, FlagsInv, CursorInv, Arrived, Devices, TimerRelease, SignalDevice
  <2>6. StopInv'
    BY <1>8 DEF StopInv, TypeOK, FlagsInv, CursorInv, CountInv, MainPCs, Devices, TimerRelease, SignalDevice
  <2> QED BY <2>1, <2>2, <2>3, <2>4, <2>5, <2>6
<1>9. CASE TimerSpuriousWake
  <2>1. TypeOK'
    BY <1>9 DEF TypeOK, TimerPCs, DevicePCs, MainPCs, Devices, TimerSpuriousWake
  <2>2. FlagsInv'
    BY <1>9 DEF FlagsInv, TypeOK, DevicePCs, Devices, TimerSpuriousWake
  <2>3. CursorInv'
    BY <1>9 DEF CursorInv, TypeOK, FlagsInv, TimerPCs, DevicePCs, Devices, TimerSpuriousWake
  <2>4. CountInv'
    BY <1>9 DEF CountInv, TypeOK, CursorInv, FlagsInv, Devices, TimerSpuriousWake
  <2>5. LeadInv'
    BY <1>9 DEF LeadInv, TypeOK, FlagsInv, CursorInv, Arrived, Devices, TimerSpuriousWake
  <2>6. StopInv'
    BY <1>9 DEF StopInv, TypeOK, FlagsInv, CursorInv, CountInv, MainPCs, Devices, TimerSpuriousWake
  <2> QED BY <2>1, <2>2, <2>3, <2>4, <2>5, <2>6
<1>10. CASE StopTimer
  <2>1. TypeOK'
    BY <1>10 DEF TypeOK, TimerPCs, DevicePCs, MainPCs, Devices, StopTimer
  <2>2. FlagsInv'
    BY <1>10 DEF FlagsInv, TypeOK, DevicePCs, Devices, StopTimer
  <2>3. CursorInv'
    BY <1>10 DEF CursorInv, TypeOK, FlagsInv, TimerPCs, DevicePCs, Devices, StopTimer
  <2>4. CountInv'
    BY <1>10 DEF CountInv, TypeOK, CursorInv, FlagsInv, Devices, StopTimer
  <2>5. LeadInv'
    BY <1>10 DEF LeadInv, TypeOK, FlagsInv, CursorInv, Arrived, Devices, StopTimer
  <2>6. StopInv'
    BY <1>10 DEF StopInv, TypeOK, FlagsInv, CursorInv, CountInv, MainPCs, Devices, StopTimer
  <2> QED BY <2>1, <2>2, <2>3, <2>4, <2>5, <2>6
<1>11. CASE FreeDevList
  <2>1. TypeOK'
    BY <1>11 DEF TypeOK, TimerPCs, DevicePCs, MainPCs, Devices, FreeDevList
  <2>2. FlagsInv'
    BY <1>11 DEF FlagsInv, TypeOK, DevicePCs, Devices, FreeDevList
  <2>3. CursorInv'
    BY <1>11 DEF CursorInv, TypeOK, FlagsInv, TimerPCs, DevicePCs, Devices, FreeDevList
  <2>4. CountInv'
    BY <1>11 DEF CountInv, TypeOK, CursorInv, FlagsInv, Devices, FreeDevList
  <2>5. LeadInv'
    BY <1>11 DEF LeadInv, TypeOK, FlagsInv, CursorInv, Arrived, Devices, FreeDevList
  <2>6. StopInv'
    BY <1>11 DEF StopInv, TypeOK, FlagsInv, CursorInv, CountInv, MainPCs, Devices, FreeDevList
  <2> QED BY <2>1, <2>2, <2>3, <2>4, <2>5, <2>6
<1>12. CASE UNCHANGED vars
  BY <1>12 DEF vars, TypeOK, FlagsInv, CursorInv, CountInv, LeadInv, StopInv, Arrived
<1> QED
  BY <1>1, <1>2, <1>3, <1>4, <1>5, <1>6, <1>7, <1>8, <1>9, <1>10, <1>11, <1>12
  DEF Next, DeviceStep, TimerStep, MainStep, Returned

(* The invariant holds in every state of timer.c.                          *)
THEOREM TimerInvariant == Spec => []IInv
  BY InitIInv, NextIInv, PTL DEF Spec

(* timer.c keeps its state in range: the cursor on the list, the count of  *)
(* detached devices within its length.                                     *)
THEOREM TimerTypeOK == Spec => []TypeOK
  BY TimerInvariant, PTL DEF IInv

(* next_slot gives each device exactly one turn per slot, for any number   *)
(* of devices.                                                             *)
THEOREM TimerOneTurnPerSlot == Spec => []OneTurnPerSlot
<1>1. IInv => OneTurnPerSlot
  BY DEF IInv, OneTurnPerSlot, FlagsInv, LeadInv, Arrived, TypeOK, Devices
<1> QED BY <1>1, TimerInvariant, PTL

(* Neither next_slot nor timer_routine ever sleeps past its signal.        *)
THEOREM TimerNoLostWakeup == Spec => []NoLostWakeup
<1>1. IInv => NoLostWakeup
  BY DEF IInv, NoLostWakeup, FlagsInv, CursorInv
<1> QED BY <1>1, TimerInvariant, PTL

(* timer_routine ends only when every device has called detach_event.      *)
THEOREM TimerExitOnlyWhenAllGone == Spec => []ExitOnlyWhenAllGone
<1>1. IInv => ExitOnlyWhenAllGone
  BY DEF IInv, ExitOnlyWhenAllGone, FlagsInv, StopInv
<1> QED BY <1>1, TimerInvariant, PTL

(* _time++ happens only when every device is inside next_slot or gone.     *)
THEOREM TimerTickWaitsForAll == Spec => TickWaitsForAll
<1>1. IInv /\ [Next]_vars =>
        [time' # time => \A d \in Devices : done[d] \/ dpc[d] = "gone"]_vars
  <2> SUFFICES ASSUME IInv, Next, time' # time
               PROVE \A d \in Devices : done[d] \/ dpc[d] = "gone"
    OBVIOUS
  <2>1. TimerTick
    BY DEF Next, DeviceStep, NextSlotSignal, NextSlotTest, DetachEvent,
           DeviceSpuriousWake, TimerStep, TimerTop, TimerScan, TimerRelease,
           TimerSpuriousWake, MainStep, StopTimer, FreeDevList, Returned, vars
  <2> QED BY <2>1 DEF TimerTick, IInv, CursorInv, FlagsInv
<1> QED BY <1>1, TimerInvariant, PTL DEF Spec, TickWaitsForAll
------------------------------------------------------------------------------
(* Refinement of SlotClock.                                                *)

(* Before the first slot every device is at work.                          *)
LEMMA InitClock == Init => Clock!ClockInit
  BY DEF Init, Clock!ClockInit, stageBar, Arrived

(* Each section of timer.c is a step of the clock or changes nothing that  *)
(* a device can observe.                                                   *)
LEMMA NextClock == IInv /\ [Next]_vars => [Clock!ClockNext]_(Clock!clockVars)
<1> SUFFICES ASSUME IInv, [Next]_vars
             PROVE Clock!ClockNext \/ UNCHANGED <<time, stageBar>>
  BY DEF Clock!clockVars
<1> USE TimerAssumption
<1>1. ASSUME NEW d \in Devices, NextSlotSignal(d) PROVE Clock!Arrive(d)
  <2>1. /\ stageBar[d] = "working"
        /\ stageBar' = [stageBar EXCEPT ![d] = "arrived"]
    BY <1>1 DEF NextSlotSignal, SignalTimer, stageBar, Arrived, IInv, TypeOK,
                FlagsInv, CursorInv, Devices
  <2> QED BY <1>1, <2>1 DEF Clock!Arrive, NextSlotSignal
<1>2. ASSUME NEW d \in Devices, DetachEvent(d) PROVE Clock!Detach(d)
  <2>1. /\ stageBar[d] = "working"
        /\ stageBar' = [stageBar EXCEPT ![d] = "gone"]
    BY <1>2 DEF DetachEvent, SignalTimer, stageBar, Arrived, IInv, TypeOK,
                FlagsInv, CursorInv, Devices
  <2> QED BY <1>2, <2>1 DEF Clock!Detach, DetachEvent
<1>3. ASSUME NEW d \in Devices, NextSlotTest(d) \/ DeviceSpuriousWake(d)
      PROVE UNCHANGED <<time, stageBar>>
  BY <1>3 DEF NextSlotTest, DeviceSpuriousWake, stageBar, Arrived, IInv,
              TypeOK, DevicePCs
<1>4. ASSUME TimerTop \/ TimerScan \/ TimerSpuriousWake
      PROVE UNCHANGED <<time, stageBar>>
  BY <1>4 DEF TimerTop, TimerScan, TimerSpuriousWake, stageBar, Arrived
<1>5. ASSUME TimerTick PROVE Clock!Tick \/ Clock!LastTick
  <2>1. \A d \in Devices : stageBar[d] # "working"
    BY <1>5 DEF TimerTick, stageBar, Arrived, IInv, FlagsInv, CursorInv
  <2>2. stageBar' = [d \in Devices |-> IF stageBar[d] = "arrived"
                                       THEN "working" ELSE stageBar[d]]
    BY <1>5, <2>1 DEF TimerTick, stageBar, Arrived, Devices
  <2>3. time' = Clock!Later(time)
    BY <1>5 DEF TimerTick, Later, Clock!Later
  <2>4. CASE \E d \in Devices : stageBar[d] = "arrived"
    BY <2>1, <2>2, <2>3, <2>4 DEF Clock!Tick
  <2>5. CASE ~ \E d \in Devices : stageBar[d] = "arrived"
    <3>1. \A d \in Devices : stageBar[d] = "gone"
      BY <2>1, <2>5 DEF stageBar
    <3>2. stageBar' = stageBar
      BY <2>2, <3>1 DEF stageBar
    <3> QED BY <2>3, <3>1, <3>2 DEF Clock!LastTick
  <2> QED BY <2>4, <2>5
<1>6. ASSUME TimerRelease PROVE UNCHANGED <<time, stageBar>>
  BY <1>6 DEF TimerRelease, SignalDevice, stageBar, Arrived, IInv, TypeOK,
              DevicePCs, Devices
<1>7. ASSUME MainStep \/ Returned \/ UNCHANGED vars
      PROVE UNCHANGED <<time, stageBar>>
  BY <1>7 DEF MainStep, StopTimer, FreeDevList, Returned, vars, stageBar, Arrived
<1> QED
  BY <1>1, <1>2, <1>3, <1>4, <1>5, <1>6, <1>7
  DEF Next, DeviceStep, TimerStep, Clock!ClockNext

(* timer.c implements the safety part of SlotClock: what Kernel assumes of *)
(* the clock is what the flags and condition variables really give.        *)
THEOREM TimerImplementsClock == Spec => Clock!ClockSafety
  BY InitClock, NextClock, TimerInvariant, PTL DEF Spec, Clock!ClockSafety
==============================================================================
