-------------------------------- MODULE Kernel --------------------------------
(***************************************************************************)
(* The CPUs (cpu_routine), the loader (ld_routine) and the multi-level     *)
(* queue scheduler (sched.c) they share, on top of the slot clock.  One    *)
(* step is one critical section of queue_lock together with the code of    *)
(* the same thread around it that no other thread reads; next_slot and     *)
(* detach_event are the clock's Arrive and Detach (Timer shows that        *)
(* timer.c gives them).                                                    *)
(*                                                                         *)
(* A process is a program of a given length: what its instructions do to   *)
(* memory is the subject of the memory modules.                            *)
(***************************************************************************)
EXTENDS Queue, Integers

CONSTANTS
  CPUs,        \* the CPU threads
  Loader,      \* the loader thread
  NumProcs,    \* num_processes
  MAX_PRIO,    \* number of priority queues
  TimeSlot,    \* time_slot, the quantum
  Configs,     \* the process tables that read_config may have read
  MaxTime,     \* bound: the slot counter is followed up to this value
  NULL         \* no process

Procs == 1..NumProcs   \* a process is its pid, given in loading order
Prios == 0..MAX_PRIO - 1

(* What read_config and load know of a process: when to start it, its      *)
(* queue, its default priority and the length of its code.                 *)
Jobs == [start : 0..MaxTime, prio : Prios, priority : Nat, size : Nat]

ASSUME KernelAssumption ==
  /\ Loader \notin CPUs
  /\ NumProcs \in Nat
  /\ MAX_PRIO \in Nat \ {0}
  /\ TimeSlot \in Nat \ {0}
  /\ MaxTime \in Nat
  /\ NULL \notin Procs

ASSUME ConfigsAssumption == Configs \subseteq [Procs -> Jobs]

VARIABLES
  time, stage,       \* the slot clock
  job,               \* the process table of this run
  mlq_ready_queue,   \* one ready queue per priority
  running_list,      \* the list sys_killall goes through
  curr_prio,         \* static locals of get_mlq_proc
  curr_slot,
  done,              \* the loader has loaded everything
  ldpc, i,           \* where the loader is, and the process it is at
  cpc,               \* where each CPU is
  proc, time_left,   \* its locals
  pc,                \* the pc of each PCB
  freed,             \* the PCBs that have been freed
  waiting            \* history: in a ready queue since the slot began

schedVars == <<mlq_ready_queue, running_list, curr_prio, curr_slot>>
loaderVars == <<done, ldpc, i>>
cpuVars == <<cpc, proc, time_left>>
procVars == <<pc, freed>>
vars == <<time, stage, job, schedVars, loaderVars, cpuVars, procVars, waiting>>

Clock == INSTANCE SlotClock WITH Devices <- CPUs \cup {Loader}

CpuPCs == {"top", "put", "fetch", "recheck", "stopped"}
LoaderPCs == {"wait", "add", "exited"}

(* The budget of each queue, set by init_scheduler.                        *)
slot(k) == MAX_PRIO - k

TypeOK ==
  /\ Clock!ClockTypeOK
  /\ job \in Configs
  /\ mlq_ready_queue \in [Prios -> Seq(Procs)]
  /\ running_list \in Seq(Procs)
  /\ \A k \in Prios : Len(mlq_ready_queue[k]) <= MAX_QUEUE_SIZE
  /\ Len(running_list) <= MAX_QUEUE_SIZE
  /\ curr_prio \in Prios
  /\ curr_slot \in 0..slot(curr_prio) - 1
  /\ done \in BOOLEAN
  /\ ldpc \in LoaderPCs
  /\ i \in 1..NumProcs + 1
  /\ cpc \in [CPUs -> CpuPCs]
  /\ proc \in [CPUs -> Procs \cup {NULL}]
  /\ time_left \in [CPUs -> 0..TimeSlot]
  /\ pc \in [Procs -> Nat]
  /\ \A p \in Procs : pc[p] <= job[p].size
  /\ freed \subseteq Procs
  /\ waiting \subseteq Procs

(* main: the table is read, the devices are attached, init_scheduler.      *)
Init ==
  /\ Clock!ClockInit
  /\ job \in Configs
  /\ mlq_ready_queue = [k \in Prios |-> <<>>]
  /\ running_list = <<>>
  /\ curr_prio = 0
  /\ curr_slot = 0
  /\ done = FALSE
  /\ ldpc = "wait"
  /\ i = 1
  /\ cpc = [c \in CPUs |-> "top"]
  /\ proc = [c \in CPUs |-> NULL]
  /\ time_left = [c \in CPUs |-> 0]
  /\ pc = [p \in Procs |-> 0]
  /\ freed = {}
  /\ waiting = {}
------------------------------------------------------------------------------
(* sched.c                                                                 *)

priority == [p \in Procs |-> job[p].priority]

Ready == {k \in Prios : ~empty(mlq_ready_queue[k])}

(* Mutation: the scan starts at curr_prio instead of 0.                    *)
FirstReady_FromCurr(k) ==
  k \in Ready /\ k >= curr_prio /\ \A l \in Ready : l < k => l < curr_prio

(* The first queue that is not empty.                                      *)
FirstReady(k) == k \in Ready /\ \A l \in Ready : k <= l

(* get_proc, called by CPU c: take from the first queue that has a         *)
(* process, and move the (prio, slot) state.                               *)
get_mlq_proc(c) ==
  IF ~ \E k \in Prios : FirstReady(k)
  THEN /\ proc' = [proc EXCEPT ![c] = NULL]
       /\ curr_prio' = 0
       /\ curr_slot' = 0
       /\ UNCHANGED <<mlq_ready_queue, waiting>>
  ELSE \E k \in Prios :
         /\ FirstReady(k)
         /\ LET q == mlq_ready_queue[k]
                p == dequeued(q, priority)
                next == (curr_slot + 1) % slot(k)
            IN /\ proc' = [proc EXCEPT ![c] = p]
               /\ mlq_ready_queue' =
                    [mlq_ready_queue EXCEPT ![k] = dequeue(q, priority)]
               /\ waiting' = waiting \ {p}
               /\ curr_slot' = IF curr_prio = k THEN next ELSE 0
               /\ curr_prio' = IF curr_prio # k THEN k
                               ELSE IF next = 0 THEN (k + 1) % MAX_PRIO
                               ELSE curr_prio

(* put_mlq_proc and add_mlq_proc: to the queue of its prio.                *)
put_mlq_proc(p) ==
  mlq_ready_queue' =
    [mlq_ready_queue EXCEPT ![job[p].prio] = enqueue(@, p)]
------------------------------------------------------------------------------
(* os.c, cpu_routine.                                                      *)

(* Mutation: the CPU does not wait for the next slot after the instruction. *)
Run_NoNextSlot(c) ==
  LET p == proc[c]
      budget == IF time_left[c] = 0 THEN TimeSlot ELSE time_left[c]
  IN /\ p # NULL
     /\ \/ cpc[c] = "recheck"
        \/ cpc[c] = "top" /\ pc[p] # job[p].size /\ time_left[c] # 0
     /\ pc' = [pc EXCEPT ![p] = IF @ >= job[p].size THEN @ ELSE @ + 1]
     /\ time_left' = [time_left EXCEPT ![c] = budget - 1]
     /\ cpc' = [cpc EXCEPT ![c] = "top"]
     /\ UNCHANGED <<time, stage, job, schedVars, loaderVars, proc, freed, waiting>>

(* Dispatch if the budget is new, run one instruction, next_slot.          *)
Run(c) ==
  LET p == proc[c]
      budget == IF time_left[c] = 0 THEN TimeSlot ELSE time_left[c]
  IN /\ p # NULL
     /\ \/ cpc[c] = "recheck"
        \/ cpc[c] = "top" /\ pc[p] # job[p].size /\ time_left[c] # 0
     /\ pc' = [pc EXCEPT ![p] = IF @ >= job[p].size THEN @ ELSE @ + 1]
     /\ time_left' = [time_left EXCEPT ![c] = budget - 1]
     /\ cpc' = [cpc EXCEPT ![c] = "top"]
     /\ Clock!Arrive(c)
     /\ UNCHANGED <<job, schedVars, loaderVars, proc, freed, waiting>>

(* No process at the top of the loop: load one, or skip this slot.         *)
FetchIdle(c) ==
  /\ stage[c] = "working"
  /\ cpc[c] = "top"
  /\ proc[c] = NULL
  /\ get_mlq_proc(c)
  /\ IF proc'[c] = NULL
     THEN Clock!Arrive(c) /\ UNCHANGED cpc
     ELSE cpc' = [cpc EXCEPT ![c] = "recheck"] /\ UNCHANGED <<time, stage>>
  /\ UNCHANGED <<job, running_list, loaderVars, time_left, procVars>>

(* Mutation: the budget of the finished process is kept.                   *)
Finish_KeepsBudget(c) ==
  /\ stage[c] = "working"
  /\ cpc[c] = "top"
  /\ proc[c] # NULL
  /\ pc[proc[c]] = job[proc[c]].size
  /\ freed' = freed \cup {proc[c]}
  /\ proc' = [proc EXCEPT ![c] = NULL]
  /\ cpc' = [cpc EXCEPT ![c] = "fetch"]
  /\ UNCHANGED <<time, stage, job, schedVars, loaderVars, time_left, pc, waiting>>

(* The process has finished: free its PCB and look for another one.  The   *)
(* local proc is dead until get_proc returns.                              *)
Finish(c) ==
  /\ stage[c] = "working"
  /\ cpc[c] = "top"
  /\ proc[c] # NULL
  /\ pc[proc[c]] = job[proc[c]].size
  /\ freed' = freed \cup {proc[c]}
  /\ proc' = [proc EXCEPT ![c] = NULL]
  /\ time_left' = [time_left EXCEPT ![c] = 0]
  /\ cpc' = [cpc EXCEPT ![c] = "fetch"]
  /\ UNCHANGED <<time, stage, job, schedVars, loaderVars, pc, waiting>>

(* The quantum is over: put_proc, first section.                           *)
PutRunningList(c) ==
  /\ stage[c] = "working"
  /\ cpc[c] = "top"
  /\ proc[c] # NULL
  /\ pc[proc[c]] # job[proc[c]].size
  /\ time_left[c] = 0
  /\ running_list' = enqueue(running_list, proc[c])
  /\ cpc' = [cpc EXCEPT ![c] = "put"]
  /\ UNCHANGED <<time, stage, job, mlq_ready_queue, curr_prio, curr_slot,
                 loaderVars, proc, time_left, procVars, waiting>>

(* put_proc, second section.                                               *)
PutReady(c) ==
  /\ cpc[c] = "put"
  /\ put_mlq_proc(proc[c])
  /\ proc' = [proc EXCEPT ![c] = NULL]
  /\ cpc' = [cpc EXCEPT ![c] = "fetch"]
  /\ UNCHANGED <<time, stage, job, running_list, curr_prio, curr_slot,
                 loaderVars, time_left, procVars, waiting>>

(* get_proc after a process has finished or has been put back.             *)
Fetch(c) ==
  /\ cpc[c] = "fetch"
  /\ get_mlq_proc(c)
  /\ cpc' = [cpc EXCEPT ![c] = "recheck"]
  /\ UNCHANGED <<time, stage, job, running_list, loaderVars, time_left, procVars>>

(* Mutation: done is not tested.                                           *)
Stop_IgnoresDone(c) ==
  /\ cpc[c] = "recheck"
  /\ proc[c] = NULL
  /\ cpc' = [cpc EXCEPT ![c] = "stopped"]
  /\ Clock!Detach(c)
  /\ UNCHANGED <<job, schedVars, loaderVars, proc, time_left, procVars, waiting>>

(* Recheck: nothing to run and nothing to come, the CPU stops.             *)
Stop(c) ==
  /\ cpc[c] = "recheck"
  /\ proc[c] = NULL
  /\ done
  /\ cpc' = [cpc EXCEPT ![c] = "stopped"]
  /\ Clock!Detach(c)
  /\ UNCHANGED <<job, schedVars, loaderVars, proc, time_left, procVars, waiting>>

(* Recheck: nothing to run now, skip this slot.                            *)
SkipSlot(c) ==
  /\ cpc[c] = "recheck"
  /\ proc[c] = NULL
  /\ ~done
  /\ cpc' = [cpc EXCEPT ![c] = "top"]
  /\ Clock!Arrive(c)
  /\ UNCHANGED <<job, schedVars, loaderVars, proc, time_left, procVars, waiting>>
------------------------------------------------------------------------------
(* os.c, ld_routine.                                                       *)

(* Too early for the next process.                                         *)
LdWait ==
  /\ ldpc = "wait"
  /\ i <= NumProcs
  /\ time < job[i].start
  /\ Clock!Arrive(Loader)
  /\ UNCHANGED <<job, schedVars, loaderVars, cpuVars, procVars, waiting>>

(* add_proc, first section.                                                *)
LdRunningList ==
  /\ stage[Loader] = "working"
  /\ ldpc = "wait"
  /\ i <= NumProcs
  /\ time >= job[i].start
  /\ running_list' = enqueue(running_list, i)
  /\ ldpc' = "add"
  /\ UNCHANGED <<time, stage, job, mlq_ready_queue, curr_prio, curr_slot, done,
                 i, cpuVars, procVars, waiting>>

(* Mutation: the loader does not wait for the next slot after add_proc.    *)
LdReady_NoNextSlot ==
  /\ ldpc = "add"
  /\ put_mlq_proc(i)
  /\ i' = i + 1
  /\ ldpc' = "wait"
  /\ UNCHANGED <<time, stage, job, running_list, curr_prio, curr_slot, done,
                 cpuVars, procVars, waiting>>

(* add_proc, second section, then i++ and next_slot.                       *)
LdReady ==
  /\ ldpc = "add"
  /\ put_mlq_proc(i)
  /\ i' = i + 1
  /\ ldpc' = "wait"
  /\ Clock!Arrive(Loader)
  /\ UNCHANGED <<job, running_list, curr_prio, curr_slot, done, cpuVars,
                 procVars, waiting>>

(* Everything is loaded: done = 1, detach_event.                           *)
LdExit ==
  /\ ldpc = "wait"
  /\ i = NumProcs + 1
  /\ done' = TRUE
  /\ ldpc' = "exited"
  /\ Clock!Detach(Loader)
  /\ UNCHANGED <<job, schedVars, i, cpuVars, procVars, waiting>>
------------------------------------------------------------------------------
InReadyQueue(p) ==
  \E k \in Prios : \E n \in 1..Len(mlq_ready_queue[k]) : mlq_ready_queue[k][n] = p

NextSlot ==
  /\ Clock!Tick
  /\ waiting' = {p \in Procs : InReadyQueue(p)}
  /\ UNCHANGED <<job, schedVars, loaderVars, cpuVars, procVars>>

LastSlot ==
  /\ Clock!LastTick
  /\ UNCHANGED <<job, schedVars, loaderVars, cpuVars, procVars, waiting>>

CpuStep(c) ==
  \/ FetchIdle(c) \/ Finish(c) \/ PutRunningList(c) \/ PutReady(c)
  \/ Fetch(c) \/ Stop(c) \/ SkipSlot(c) \/ Run(c)

LoaderStep == LdWait \/ LdRunningList \/ LdReady \/ LdExit

Next == (\E c \in CPUs : CpuStep(c)) \/ LoaderStep \/ NextSlot \/ LastSlot

Spec == Init /\ [][Next]_vars

(* The host schedules every thread that can run, and the timer releases    *)
(* the devices that have arrived (Timer, ImplementsClock).                 *)
Fairness ==
  /\ \A c \in CPUs : WF_vars(CpuStep(c))
  /\ WF_vars(LoaderStep)
  /\ WF_vars(NextSlot)

FairSpec == Spec /\ Fairness
------------------------------------------------------------------------------
(* Properties.                                                             *)

(* Where a process can be found: a position of a ready queue, or a CPU.    *)
Homes(p) ==
  {h \in {"ready"} \X Prios \X (1..MAX_QUEUE_SIZE) :
     h[3] <= Len(mlq_ready_queue[h[2]]) /\ mlq_ready_queue[h[2]][h[3]] = p}
  \cup {h \in {"cpu"} \X CPUs : proc[h[2]] = p}

(* The processes that add_proc has handed to the scheduler.                *)
Added == 1..i - 1

(* No process is ever run by two CPUs, or run by one while it waits in a   *)
(* queue, or queued twice; a process that was not added, or whose PCB has  *)
(* been freed, is nowhere (cpu_routine never touches a freed PCB).         *)
SingleHome ==
  \A p \in Procs :
    /\ \A g, h \in Homes(p) : g = h
    /\ p \notin Added \/ p \in freed => Homes(p) = {}

(* sched.h, "Put a process back to run queue", "Add a new process to ready *)
(* queue": until it has finished, a process that was added is in a ready   *)
(* queue or on a CPU.                                                      *)
NoProcessLost ==
  \A p \in Added \ freed : Homes(p) # {}

(* When the last CPU has stopped every process has been loaded and has     *)
(* finished: no CPU decides on "queue empty" and "done" in an order that   *)
(* leaves a process behind.                                                *)
NoOrphan ==
  (\A c \in CPUs : cpc[c] = "stopped") => freed = Procs

(* A CPU without a process has no budget left over, so the next process it *)
(* gets has the whole quantum.                                             *)
NoBudgetLeftOver ==
  \A c \in CPUs : proc[c] = NULL => time_left[c] = 0

(* No CPU lets a slot pass, or stops, while some process waits in a ready  *)
(* queue through that slot.                                                *)
WorkConserving ==
  waiting # {} =>
    \A c \in CPUs : stage[c] # "working" => proc[c] # NULL

(* Every process of the table finishes, whatever its priority.             *)
EveryProcessFinishes == <>(freed = Procs)

(* os.c, "No process to run, exit" and "Wait for CPU and loader            *)
(* finishing": every CPU stops in the end.                                 *)
AllCPUsStop == <>(\A c \in CPUs : cpc[c] = "stopped")
==============================================================================
