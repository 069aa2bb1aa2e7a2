-------------------------------- MODULE Timer --------------------------------
(***************************************************************************)
(* timer.c at the level of its critical sections.  The timer thread, the   *)
(* device threads (CPUs and loader) and main, which stops the timer, share *)
(* the two flags of each struct timer_id_t.  Every section of code between *)
(* a lock and its unlock (or its cond_wait) is one step: a section touches *)
(* "done", the only field that two different locks guard, at most once, so *)
(* an interleaving inside a section shows nothing that an interleaving of  *)
(* whole sections does not.  Waiting on a condition is explicit: a thread  *)
(* goes to sleep, is woken by a signal (or spuriously) and tests again.    *)
(*                                                                         *)
(* A device here is the most general client of the timer: in a slot it     *)
(* either calls next_slot or detaches.                                     *)
(***************************************************************************)
EXTENDS Integers

CONSTANTS
  NumDevices,  \* the length of dev_list: num_cpus + 1
  MaxTime      \* bound: the 64-bit slot counter is followed up to this value

ASSUME TimerAssumption ==
  /\ NumDevices \in Nat \ {0}
  /\ MaxTime \in Nat

(* A device is its position in dev_list; attach_event inserts at the head, *)
(* so position 1 is the loader, attached last.                             *)
Devices == 1..NumDevices

VARIABLES
  time,        \* _time
  done,        \* timer_id_t.done of each device
  fsh,         \* timer_id_t.fsh of each device
  timer_stop,  \* set by stop_timer
  tpc,         \* where the timer thread is
  temp,        \* its cursor in dev_list; NumDevices + 1 is NULL
  fshCount,    \* its local fsh: the detached devices seen in this round
  dpc,         \* where each device thread is
  mpc,         \* where main is
  lead         \* history: slots a device has finished minus slots counted

vars == <<time, done, fsh, timer_stop, tpc, temp, fshCount, dpc, mpc, lead>>

TimerPCs == {"top", "scan", "asleep", "tick", "release", "exited"}
DevicePCs == {"work", "test", "asleep", "gone"}
MainPCs == {"join", "stopping", "returned"}

TypeOK ==
  /\ time \in 0..MaxTime
  /\ done \in [Devices -> BOOLEAN]
  /\ fsh \in [Devices -> BOOLEAN]
  /\ timer_stop \in BOOLEAN
  /\ tpc \in TimerPCs
  /\ temp \in 1..NumDevices + 1
  /\ fshCount \in 0..NumDevices
  /\ dpc \in [Devices -> DevicePCs]
  /\ mpc \in MainPCs
  /\ lead \in [Devices -> Int]

(* attach_event for every device, then start_timer.                        *)
Init ==
  /\ time = 0
  /\ done = [d \in Devices |-> FALSE]
  /\ fsh = [d \in Devices |-> FALSE]
  /\ timer_stop = FALSE
  /\ tpc = "top"
  /\ temp = 1
  /\ fshCount = 0
  /\ dpc = [d \in Devices |-> "work"]
  /\ mpc = "join"
  /\ lead = [d \in Devices |-> 0]
------------------------------------------------------------------------------
(* The device threads.                                                     *)

(* Mutation: the signal is missing.                                        *)
SignalTimer_Missing(d) == tpc' = tpc

(* pthread_cond_signal(&event_cond) of device d: only the timer waits on   *)
(* it, and only while its cursor is at d.                                  *)
SignalTimer(d) ==
  tpc' = IF tpc = "asleep" /\ temp = d THEN "scan" ELSE tpc

(* next_slot, first section: tell the timer.                               *)
NextSlotSignal(d) ==
  /\ dpc[d] = "work"
  /\ done' = [done EXCEPT ![d] = TRUE]
  /\ SignalTimer(d)
  /\ dpc' = [dpc EXCEPT ![d] = "test"]
  /\ lead' = [lead EXCEPT ![d] = @ + 1]
  /\ UNCHANGED <<time, fsh, timer_stop, temp, fshCount, mpc>>

(* Mutation: next_slot returns without testing done.                       *)
NextSlotTest_NoWait(d) ==
  /\ dpc[d] = "test"
  /\ dpc' = [dpc EXCEPT ![d] = "work"]
  /\ UNCHANGED <<time, done, fsh, timer_stop, tpc, temp, fshCount, mpc, lead>>

(* next_slot, second section: return, or sleep on timer_cond.              *)
NextSlotTest(d) ==
  /\ dpc[d] = "test"
  /\ dpc' = [dpc EXCEPT ![d] = IF done[d] THEN "asleep" ELSE "work"]
  /\ UNCHANGED <<time, done, fsh, timer_stop, tpc, temp, fshCount, mpc, lead>>

(* pthread_cond_wait may return without a signal; the loop tests again.    *)
DeviceSpuriousWake(d) ==
  /\ dpc[d] = "asleep"
  /\ dpc' = [dpc EXCEPT ![d] = "test"]
  /\ UNCHANGED <<time, done, fsh, timer_stop, tpc, temp, fshCount, mpc, lead>>

(* Mutation: detach_event forgets to signal event_cond.                    *)
DetachEvent_NoSignal(d) ==
  /\ dpc[d] = "work"
  /\ fsh' = [fsh EXCEPT ![d] = TRUE]
  /\ dpc' = [dpc EXCEPT ![d] = "gone"]
  /\ UNCHANGED <<time, done, timer_stop, tpc, temp, fshCount, mpc, lead>>

(* detach_event, the last thing a device thread does.                      *)
DetachEvent(d) ==
  /\ dpc[d] = "work"
  /\ fsh' = [fsh EXCEPT ![d] = TRUE]
  /\ SignalTimer(d)
  /\ dpc' = [dpc EXCEPT ![d] = "gone"]
  /\ UNCHANGED <<time, done, timer_stop, temp, fshCount, mpc, lead>>
------------------------------------------------------------------------------
(* The timer thread.                                                       *)

(* Mutation: fsh is declared outside the loop and never reset.             *)
TimerTop_KeepsCount ==
  /\ tpc = "top"
  /\ tpc' = IF timer_stop THEN "exited" ELSE "scan"
  /\ temp' = 1
  /\ UNCHANGED <<time, done, fsh, timer_stop, fshCount, dpc, mpc, lead>>

(* Mutation: the first loop starts at dev_list->next.                      *)
TimerTop_SkipsHead ==
  /\ tpc = "top"
  /\ tpc' = IF timer_stop THEN "exited" ELSE "scan"
  /\ temp' = IF NumDevices = 1 THEN 1 ELSE 2
  /\ fshCount' = 0
  /\ UNCHANGED <<time, done, fsh, timer_stop, dpc, mpc, lead>>

(* while (!timer_stop): start a round with the counters at zero.           *)
TimerTop ==
  /\ tpc = "top"
  /\ tpc' = IF timer_stop THEN "exited" ELSE "scan"
  /\ temp' = 1
  /\ fshCount' = 0
  /\ UNCHANGED <<time, done, fsh, timer_stop, dpc, mpc, lead>>

(* Mutation: the loop waits for detached devices only.                     *)
MustWait_IgnoresDone(d) == ~done[d] /\ fsh[d]

(* The condition of the wait loop.                                         *)
MustWait(d) == ~done[d] /\ ~fsh[d]

(* One device of the first loop: sleep on its event_cond while it is       *)
(* neither done nor detached, count it otherwise.                          *)
TimerScan ==
  /\ tpc = "scan"
  /\ temp \in Devices
  /\ IF MustWait(temp)
     THEN /\ tpc' = "asleep"
          /\ UNCHANGED <<temp, fshCount>>
     ELSE /\ temp' = temp + 1
          /\ fshCount' = IF fsh[temp] THEN fshCount + 1 ELSE fshCount
          /\ tpc' = IF temp = NumDevices THEN "tick" ELSE "scan"
  /\ UNCHANGED <<time, done, fsh, timer_stop, dpc, mpc, lead>>

TimerSpuriousWake ==
  /\ tpc = "asleep"
  /\ tpc' = "scan"
  /\ UNCHANGED <<time, done, fsh, timer_stop, temp, fshCount, dpc, mpc, lead>>

Later(t) == IF t < MaxTime THEN t + 1 ELSE t

(* _time++, and back to the head of the list.                              *)
TimerTick ==
  /\ tpc = "tick"
  /\ time' = Later(time)
  /\ temp' = 1
  /\ tpc' = "release"
  /\ lead' = [d \in Devices |-> IF dpc[d] = "gone" THEN lead[d] ELSE lead[d] - 1]
  /\ UNCHANGED <<done, fsh, timer_stop, fshCount, dpc, mpc>>

(* Mutation: timer_cond is not signalled.                                  *)
SignalDevice_Missing(d) == dpc' = dpc

(* pthread_cond_signal(&timer_cond) of device d.                           *)
SignalDevice(d) ==
  dpc' = [dpc EXCEPT ![d] = IF @ = "asleep" THEN "test" ELSE @]

(* One device of the second loop: clear done and signal its timer_cond.    *)
(* After the last one the thread breaks out when every device it counted   *)
(* had detached (event is the length of the list).                         *)
TimerRelease ==
  /\ tpc = "release"
  /\ temp \in Devices
  /\ done' = [done EXCEPT ![temp] = FALSE]
  /\ SignalDevice(temp)
  /\ temp' = temp + 1
  /\ tpc' = IF temp < NumDevices THEN "release"
            ELSE IF fshCount = NumDevices THEN "exited" ELSE "top"
  /\ UNCHANGED <<time, fsh, timer_stop, fshCount, mpc, lead>>
------------------------------------------------------------------------------
(* main, after it has created the threads.                                 *)

(* pthread_join of every CPU and of the loader, then timer_stop = 1.       *)
StopTimer ==
  /\ mpc = "join"
  /\ \A d \in Devices : dpc[d] = "gone"
  /\ timer_stop' = TRUE
  /\ mpc' = "stopping"
  /\ UNCHANGED <<time, done, fsh, tpc, temp, fshCount, dpc, lead>>

(* pthread_join of the timer; dev_list is destroyed and freed.             *)
FreeDevList ==
  /\ mpc = "stopping"
  /\ tpc = "exited"
  /\ mpc' = "returned"
  /\ UNCHANGED <<time, done, fsh, timer_stop, tpc, temp, fshCount, dpc, lead>>

(* main has returned: nothing is left to run.                              *)
Returned ==
  /\ mpc = "returned"
  /\ UNCHANGED vars
------------------------------------------------------------------------------
DeviceStep(d) == NextSlotSignal(d) \/ NextSlotTest(d) \/ DetachEvent(d)

TimerStep == TimerTop \/ TimerScan \/ TimerTick \/ TimerRelease

MainStep == StopTimer \/ FreeDevList

Next ==
  \/ \E d \in Devices : DeviceStep(d) \/ DeviceSpuriousWake(d)
  \/ TimerStep
  \/ TimerSpuriousWake
  \/ MainStep
  \/ Returned

Spec == Init /\ [][Next]_vars

(* Every thread that can run is eventually scheduled by the host; spurious *)
(* wake-ups are never owed.                                                *)
Fairness ==
  /\ \A d \in Devices : WF_vars(DeviceStep(d))
  /\ WF_vars(TimerStep)
  /\ WF_vars(MainStep)

FairSpec == Spec /\ Fairness
------------------------------------------------------------------------------
(* Properties.                                                             *)

(* timer.c, "Wait for all devices have done the job in current time slot": *)
(* the counter moves only while every device is inside next_slot with its  *)
(* done flag still up, or has detached.                                    *)
TickWaitsForAll ==
  [][time' # time => \A d \in Devices : done[d] \/ dpc[d] = "gone"]_vars

(* Each device has exactly one turn per slot: a thread that returns from   *)
(* next_slot has finished as many slots as the timer has counted, so no    *)
(* clearing of done was applied to the wrong slot and none was missed.     *)
OneTurnPerSlot ==
  \A d \in Devices : /\ dpc[d] = "work" => lead[d] = 0
                     /\ lead[d] \in {0, 1}

(* No wake-up is lost: a device sleeps on timer_cond only while done is    *)
(* up, and the timer sleeps on event_cond only for a device that has       *)
(* neither finished nor left; the signal each of them needs is to come.    *)
NoLostWakeup ==
  /\ \A d \in Devices : dpc[d] = "asleep" => done[d]
  /\ tpc = "asleep" => ~done[temp] /\ ~fsh[temp]

(* The break on fsh == event, or timer_stop, ends the timer thread only    *)
(* when every device has detached: no device is left in next_slot with     *)
(* nobody to release it.                                                   *)
ExitOnlyWhenAllGone ==
  tpc = "exited" => \A d \in Devices : dpc[d] = "gone"

(* A call of next_slot returns.                                            *)
NextSlotReturns ==
  \A d \in Devices : dpc[d] \in {"test", "asleep"} ~> dpc[d] = "work"

(* When the device threads have ended, main returns: the timer thread ends *)
(* and stop_timer's join comes back.                                       *)
MainReturns ==
  (\A d \in Devices : dpc[d] = "gone") ~> mpc = "returned"
------------------------------------------------------------------------------
(* The timer implements SlotClock.  A device counts as arrived from the    *)
(* first section of next_slot to the _time++ that ends the slot: the       *)
(* devices that the second loop has not reached yet are already at work in *)
(* the next slot.                                                          *)
Arrived(d) == done[d] /\ ~(tpc = "release" /\ temp <= d)

stageBar ==
  [d \in Devices |-> IF dpc[d] = "gone" THEN "gone"
                     ELSE IF Arrived(d) THEN "arrived" ELSE "working"]

Clock == INSTANCE SlotClock WITH stage <- stageBar

(* Whatever a thread can observe of timer.c is a behaviour of SlotClock,   *)
(* with its guarantee that arrived devices are released.                   *)
ImplementsClock == Clock!ClockSpec
==============================================================================
