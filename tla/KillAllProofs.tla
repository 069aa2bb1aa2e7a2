--------------------------- MODULE KillAllProofs ---------------------------
(***************************************************************************)
(* Proofs about KillAll.  The types are kept until a call of dequeue or    *)
(* enqueue by killall leaves the array (Wild).  As long as no critical     *)
(* section overlaps such a call (cut is FALSE), and for any number of CPUs *)
(* and calls of killall at the same time, killall keeps the places of the  *)
(* processes apart, loses none and ends none that it was not asked for;    *)
(* with one CPU it also ends every one that it was asked for and can find. *)
(***************************************************************************)
EXTENDS KillAll, OrphanProofs

------------------------------------------------------------------------------
(* The types, for any number of CPUs.                                      *)

(* The locals of __sys_killall.                                            *)
KillLocals ==
  [proc_name : Names \cup {NULL}, list : Lists, left : 0..MAX_QUEUE_SIZE,
   index : 0..MAX_QUEUE_SIZE, target : Procs \cup {NULL}]

(* The types of what KillAll adds to Kernel or changes in it.              *)
RunType ==
  /\ running_list \in Seq(Procs)
  /\ Len(running_list) <= MAX_QUEUE_SIZE
  /\ cpc \in [CPUs -> KillPCs]
  /\ cut \in BOOLEAN
  /\ time_left \in [CPUs -> 0..TimeSlot]
  /\ pc \in [Procs -> Nat]
  /\ at \in [CPUs -> Nat]
  /\ kill \in [CPUs -> KillLocals]

(* Every process is a load of its program file.                            *)
ProgInv ==
  /\ name \in [Procs -> Names]
  /\ \A p \in Procs : /\ job[p].priority = load(name[p]).priority
                      /\ job[p].size = Len(code(p))

(* CPU c is inside __sys_killall, and has a process out of the list.       *)
Inside(c) == cpc[c] \in {"find", "decide"} \cup CutPCs
Taken == {"decide", "shift", "shrink", "store"}

(* Inside run there is a process and an instruction, inside the loops of   *)
(* killall a list, and between the parts of a turn a process.              *)
CallInv ==
  \A c \in CPUs :
    /\ cpc[c] = "increment" \/ Inside(c) =>
         proc[c] # NULL /\ stage[c] = "working"
    /\ cpc[c] = "increment" => at[c] < job[proc[c]].size
    /\ Inside(c) => kill[c].list # "none"
    /\ cpc[c] \in Taken => kill[c].target \in Procs
    /\ cpc[c] \in CutPCs => cut

(* The type invariant with what it needs to be inductive.                  *)
KillTypes == SchedType /\ RunType /\ ProgInv /\ LabelInv /\ CallInv

(* It implies the type invariant of KillAll.                               *)
LEMMA KillTypesOK == KillTypes => KillTypeOK
<1> SUFFICES ASSUME KillTypes PROVE KillTypeOK
  OBVIOUS
<1>1. \A c \in CPUs : kill[c] \in KillLocals
  BY DEF KillTypes, RunType
<1>2. \A c \in CPUs : /\ kill[c].proc_name \in Names \cup {NULL}
                      /\ kill[c].list \in Lists
                      /\ kill[c].left \in 0..MAX_QUEUE_SIZE
                      /\ kill[c].index \in 0..MAX_QUEUE_SIZE
                      /\ kill[c].target \in Procs \cup {NULL}
  BY <1>1 DEF KillLocals
<1>3. \A c \in CPUs : cpc[c] \in CutPCs => cut
  BY DEF KillTypes, CallInv
<1> QED BY <1>2, <1>3 DEF KillTypes, RunType, SchedType, KillTypeOK

(* The state after main.                                                   *)
LEMMA KillTypesInit == KillInit => KillTypes
<1> SUFFICES ASSUME KillInit PROVE KillTypes
  OBVIOUS
<1>1. SchedType /\ LabelInv /\ TypeOK
  BY InitIInv, TypeSched DEF KillInit, IInv
<1>2. NoCall \in KillLocals
  BY QueueAssumption DEF NoCall, KillLocals, Lists
<1>3. RunType
  BY <1>1, <1>2 DEF KillInit, RunType, TypeOK, KillPCs, CutPCs, CpuPCs
<1>4. ProgInv
  BY DEF KillInit, ProgInv
<1>5. CallInv
  BY DEF KillInit, Init, CallInv, Inside, Taken, CutPCs
<1> QED BY <1>1, <1>3, <1>4, <1>5 DEF KillTypes

(* What no step changes.                                                   *)
LEMMA ProgSame ==
  ASSUME ProgInv, UNCHANGED <<name, job>>
  PROVE  ProgInv'
BY DEF ProgInv, load, code

(* get_proc.                                                               *)
LEMMA FetchTypes ==
  ASSUME KillTypes, NEW c \in CPUs, FetchIdle(c) \/ Fetch(c), UNCHANGED killVars
  PROVE  KillTypes'
<1> USE DEF KillTypes
<1>1. /\ proc[c] = NULL
      /\ stage[c] = "working"
      /\ get_mlq_proc(c)
      /\ UNCHANGED <<job, running_list, done, ldpc, i, time_left, pc, freed,
                     name, at, kill, cut>>
  BY DEF FetchIdle, Fetch, LabelInv, loaderVars, procVars, killVars
<1>2. /\ mlq_ready_queue' \in [Prios -> Seq(Procs)]
      /\ \A k \in Prios : Len(mlq_ready_queue[k])' <= MAX_QUEUE_SIZE
      /\ curr_prio' \in Prios
      /\ curr_slot' \in 0..slot(curr_prio)' - 1
      /\ proc' \in [CPUs -> Procs \cup {NULL}]
      /\ waiting' \subseteq Procs
      /\ \A d \in CPUs \ {c} : proc'[d] = proc[d]
  BY <1>1, GetTypes
<1>3. /\ Clock!ClockTypeOK'
      /\ time' = time
      /\ cpc' \in [CPUs -> KillPCs]
      /\ \A d \in CPUs : d # c => cpc'[d] = cpc[d]
      /\ \A e \in CPUs \cup {Loader} : e # c => stage'[e] = stage[e]
      /\ \/ cpc'[c] = "top"
         \/ cpc'[c] = "recheck" /\ stage'[c] = "working"
  <2>1. CASE Clock!Arrive(c) /\ UNCHANGED cpc /\ cpc[c] = "top"
    BY <2>1, ClockStep DEF RunType
  <2>2. CASE cpc' = [cpc EXCEPT ![c] = "recheck"] /\ UNCHANGED <<time, stage>>
    BY <1>1, <2>2 DEF RunType, SchedType, KillPCs, CutPCs, CpuPCs, Clock!ClockTypeOK
  <2> QED BY <2>1, <2>2 DEF FetchIdle, Fetch
<1>4. SchedType'
  BY <1>1, <1>2, <1>3 DEF SchedType
<1>5. RunType'
  BY <1>1, <1>3 DEF RunType
<1>6. LabelInv'
  BY <1>1, <1>2, <1>3, KernelAssumption DEF LabelInv
<1>7. CallInv'
  BY <1>1, <1>2, <1>3 DEF CallInv, Inside, Taken, CutPCs
<1> QED BY <1>1, <1>4, <1>5, <1>6, <1>7, ProgSame

(* The rest of cpu_routine.                                                *)
LEMMA PutTypes ==
  ASSUME KillTypes, NEW c \in CPUs,
         Finish(c) \/ PutRunningList(c) \/ PutReady(c), UNCHANGED killVars
  PROVE  KillTypes'
<1> USE DEF KillTypes
<1>1. /\ stage[c] = "working"
      /\ proc[c] \in Procs
      /\ UNCHANGED <<time, stage, job, curr_prio, curr_slot, done, ldpc, i, pc,
                     waiting, name, at, kill, cut>>
      /\ \A d \in CPUs \ {c} : /\ proc'[d] = proc[d]
                               /\ cpc'[d] = cpc[d]
                               /\ time_left'[d] = time_left[d]
      /\ cpc'[c] \in {"fetch", "put"}
      /\ time_left'[c] = 0
      /\ cpc'[c] = "put" => proc'[c] = proc[c]
      /\ cpc'[c] = "fetch" => proc'[c] = NULL
  <2>1. CASE Finish(c)
    BY <2>1 DEF Finish, SchedType, RunType, schedVars, loaderVars, killVars
  <2>2. CASE PutRunningList(c)
    BY <2>2 DEF PutRunningList, SchedType, RunType, loaderVars, procVars, killVars
  <2>3. CASE PutReady(c)
    BY <2>3 DEF PutReady, SchedType, RunType, LabelInv, loaderVars, procVars,
                killVars
  <2> QED BY <2>1, <2>2, <2>3
<1>2. /\ proc' \in [CPUs -> Procs \cup {NULL}]
      /\ cpc' \in [CPUs -> KillPCs]
      /\ time_left' \in [CPUs -> 0..TimeSlot]
      /\ freed' \subseteq Procs
  <2>1. CASE Finish(c)
    BY <1>1, <2>1, KernelAssumption
    DEF Finish, SchedType, RunType, KillPCs, CutPCs, CpuPCs
  <2>2. CASE PutRunningList(c)
    BY <2>2 DEF PutRunningList, SchedType, RunType, KillPCs, CutPCs, CpuPCs, procVars
  <2>3. CASE PutReady(c)
    BY <2>3 DEF PutReady, SchedType, RunType, KillPCs, CutPCs, CpuPCs, procVars
  <2> QED BY <2>1, <2>2, <2>3
<1>3. /\ running_list' \in Seq(Procs)
      /\ Len(running_list') <= MAX_QUEUE_SIZE
  <2>1. CASE running_list' = running_list
    BY <2>1 DEF RunType
  <2>2. CASE running_list' = enqueue(running_list, proc[c])
    BY <1>1, <2>2, EnqueueType DEF RunType
  <2> QED BY <2>1, <2>2 DEF Finish, PutRunningList, PutReady, schedVars
<1>4. /\ mlq_ready_queue' \in [Prios -> Seq(Procs)]
      /\ \A k \in Prios : Len(mlq_ready_queue[k])' <= MAX_QUEUE_SIZE
  <2>1. CASE mlq_ready_queue' = mlq_ready_queue
    BY <2>1 DEF SchedType
  <2>2. CASE put_mlq_proc(proc[c])
    BY <1>1, <2>2, PutProc
  <2> QED BY <2>1, <2>2 DEF Finish, PutRunningList, PutReady, schedVars
<1>5. SchedType'
  BY <1>1, <1>2, <1>4 DEF SchedType, Clock!ClockTypeOK, slot
<1>6. RunType'
  BY <1>1, <1>2, <1>3 DEF RunType
<1>7. LabelInv'
  BY <1>1, KernelAssumption DEF LabelInv
<1>8. CallInv'
  BY <1>1 DEF CallInv, Inside, Taken, CutPCs
<1> QED BY <1>1, <1>5, <1>6, <1>7, <1>8, ProgSame

(* A CPU with nothing to run.                                              *)
LEMMA IdleTypes ==
  ASSUME KillTypes, NEW c \in CPUs, Stop(c) \/ SkipSlot(c), UNCHANGED killVars
  PROVE  KillTypes'
<1> USE DEF KillTypes
<1>1. /\ proc[c] = NULL
      /\ Clock!Arrive(c) \/ Clock!Detach(c)
      /\ cpc' \in [CPUs -> KillPCs]
      /\ cpc'[c] \in {"stopped", "top"}
      /\ \A d \in CPUs \ {c} : cpc'[d] = cpc[d]
      /\ UNCHANGED <<job, mlq_ready_queue, running_list, curr_prio, curr_slot,
                     done, ldpc, i, proc, time_left, pc, freed, waiting,
                     name, at, kill, cut>>
  BY DEF Stop, SkipSlot, RunType, KillPCs, CutPCs, CpuPCs, schedVars, loaderVars,
         procVars, killVars
<1>2. /\ Clock!ClockTypeOK'
      /\ time' = time
      /\ \A e \in CPUs \cup {Loader} : e # c => stage'[e] = stage[e]
  BY <1>1, ClockStep
<1>3. SchedType'
  BY <1>1, <1>2 DEF SchedType, slot
<1>4. RunType'
  BY <1>1 DEF RunType
<1>5. LabelInv'
  BY <1>1, <1>2, KernelAssumption DEF LabelInv
<1>6. CallInv'
  BY <1>1, <1>2 DEF CallInv, Inside, Taken, CutPCs
<1> QED BY <1>1, <1>3, <1>4, <1>5, <1>6, ProgSame

(* The loader.                                                             *)
LEMMA LoaderTypes ==
  ASSUME KillTypes, LoaderStep, UNCHANGED killVars
  PROVE  KillTypes'
<1> USE DEF KillTypes
<1>1. /\ UNCHANGED <<job, curr_prio, curr_slot, cpc, proc, time_left, pc, freed,
                     waiting, name, at, kill, cut>>
      /\ time' = time
      /\ Clock!ClockTypeOK'
      /\ \A c \in CPUs : stage'[c] = stage[c]
  <2>1. UNCHANGED <<time, stage>> \/ Clock!Arrive(Loader) \/ Clock!Detach(Loader)
    BY DEF LoaderStep, LdWait, LdRunningList, LdReady, LdExit
  <2>2. /\ time' = time
        /\ Clock!ClockTypeOK'
        /\ \A c \in CPUs : stage'[c] = stage[c]
    <3>1. CASE UNCHANGED <<time, stage>>
      BY <3>1 DEF SchedType, Clock!ClockTypeOK
    <3>2. CASE Clock!Arrive(Loader) \/ Clock!Detach(Loader)
      BY <3>2, ClockStep, KernelAssumption
    <3> QED BY <2>1, <3>1, <3>2
  <2> QED
    BY <2>2 DEF LoaderStep, LdWait, LdRunningList, LdReady, LdExit, schedVars,
                cpuVars, procVars, killVars
<1>2. /\ running_list' \in Seq(Procs)
      /\ Len(running_list') <= MAX_QUEUE_SIZE
      /\ mlq_ready_queue' \in [Prios -> Seq(Procs)]
      /\ \A k \in Prios : Len(mlq_ready_queue[k])' <= MAX_QUEUE_SIZE
      /\ i' \in 1..NumProcs + 1
      /\ ldpc' = "add" => /\ i' <= NumProcs
                          /\ stage'[Loader] = "working"
                          /\ time' >= job'[i'].start
  <2>1. CASE LdWait \/ LdExit
    BY <2>1 DEF LdWait, LdExit, SchedType, RunType, schedVars, loaderVars
  <2>2. CASE LdRunningList
    <3>1. i \in Procs
      BY <2>2, KernelAssumption DEF LdRunningList, SchedType, Procs
    <3>2. /\ enqueue(running_list, i) \in Seq(Procs)
          /\ Len(enqueue(running_list, i)) <= MAX_QUEUE_SIZE
      BY <3>1, EnqueueType DEF RunType
    <3> QED BY <2>2, <3>2 DEF LdRunningList, SchedType
  <2>3. CASE LdReady
    <3>1. i \in Procs /\ i + 1 \in 1..NumProcs + 1
      BY <2>3, KernelAssumption DEF LdReady, LabelInv, SchedType, Procs
    <3>2. /\ mlq_ready_queue' \in [Prios -> Seq(Procs)]
          /\ \A k \in Prios : Len(mlq_ready_queue[k])' <= MAX_QUEUE_SIZE
      BY <2>3, <3>1, PutProc DEF LdReady
    <3> QED BY <2>3, <3>1, <3>2 DEF LdReady, RunType
  <2> QED BY <2>1, <2>2, <2>3 DEF LoaderStep
<1>3. SchedType'
  BY <1>1, <1>2 DEF SchedType, slot
<1>4. RunType'
  BY <1>1, <1>2 DEF RunType
<1>5. LabelInv'
  BY <1>1, <1>2 DEF LabelInv
<1>6. CallInv'
  BY <1>1 DEF CallInv, Inside, Taken, CutPCs
<1> QED BY <1>1, <1>3, <1>4, <1>5, <1>6, ProgSame

(* The clock.                                                              *)
LEMMA SlotTypes ==
  ASSUME KillTypes, NextSlot \/ LastSlot, UNCHANGED killVars
  PROVE  KillTypes'
<1> USE DEF KillTypes
<1>1. /\ \A d \in CPUs \cup {Loader} : stage[d] # "working"
      /\ Clock!ClockTypeOK'
      /\ waiting' \subseteq Procs
      /\ UNCHANGED <<job, mlq_ready_queue, running_list, curr_prio, curr_slot,
                     done, ldpc, i, cpc, proc, time_left, pc, freed,
                     name, at, kill, cut>>
  <2>1. CASE NextSlot
    BY <2>1, KernelAssumption
       DEF NextSlot, Clock!Tick, Clock!Later, Clock!ClockTypeOK, Clock!Stages,
           SchedType, schedVars, loaderVars, cpuVars, procVars, killVars
  <2>2. CASE LastSlot
    BY <2>2, KernelAssumption
       DEF LastSlot, Clock!LastTick, Clock!Later, Clock!ClockTypeOK,
           Clock!Stages, SchedType, schedVars, loaderVars, cpuVars, procVars,
           killVars
  <2> QED BY <2>1, <2>2
<1>2. SchedType'
  BY <1>1 DEF SchedType, slot
<1>3. RunType'
  BY <1>1 DEF RunType
<1>4. LabelInv'
  BY <1>1 DEF LabelInv
<1>5. CallInv'
  BY <1>1 DEF CallInv, Inside, Taken, CutPCs
<1> QED BY <1>1, <1>2, <1>3, <1>4, <1>5, ProgSame

(* What run has fetched is an instruction of the program.                  *)
LEMMA FetchedType ==
  ASSUME KillTypes, NEW c \in CPUs, cpc[c] = "increment"
  PROVE  Fetched(c) \in Instructions
<1>1. proc[c] \in Procs /\ at[c] \in Nat /\ at[c] < job[proc[c]].size
  BY DEF KillTypes, CallInv, SchedType, RunType
<1>2. /\ name[proc[c]] \in Names
      /\ job[proc[c]].size = Len(code(proc[c]))
  BY <1>1 DEF KillTypes, ProgInv
<1>3. code(proc[c]) \in Seq(Instructions)
  BY <1>2, KillAllAssumption DEF code, load
<1> QED BY <1>1, <1>2, <1>3 DEF Fetched

(* The steps of run up to the instruction.                                 *)
LEMMA DispatchTypes ==
  ASSUME KillTypes, NEW c \in CPUs, RunNothing(c) \/ RunTest(c)
  PROVE  KillTypes'
<1> USE DEF KillTypes
<1>1. /\ stage[c] = "working"
      /\ proc[c] \in Procs
      /\ UNCHANGED <<job, mlq_ready_queue, running_list, curr_prio, curr_slot,
                     done, ldpc, i, proc, pc, freed, waiting, name, kill,
                     cut>>
      /\ \A d \in CPUs \ {c} : /\ cpc'[d] = cpc[d]
                               /\ at'[d] = at[d]
                               /\ time_left'[d] = time_left[d]
      /\ cpc'[c] \in {"top", "increment"}
      /\ cpc'[c] = "increment" =>
           /\ UNCHANGED <<time, stage>>
           /\ at'[c] = pc[proc[c]]
           /\ pc[proc[c]] < job[proc[c]].size
  BY DEF RunNothing, RunTest, Dispatched, SchedType, RunType, schedVars,
         loaderVars, procVars, killVars
<1>2. /\ time' = time
      /\ Clock!ClockTypeOK'
      /\ \A e \in CPUs \cup {Loader} : e # c => stage'[e] = stage[e]
  <2>1. CASE UNCHANGED <<time, stage>>
    BY <2>1 DEF SchedType, Clock!ClockTypeOK
  <2>2. CASE Clock!Arrive(c)
    BY <2>2, ClockStep
  <2> QED BY <2>1, <2>2 DEF RunNothing, RunTest
<1>3. time_left' \in [CPUs -> 0..TimeSlot]
  <2>1. Budget(c) - 1 \in 0..TimeSlot
    BY KernelAssumption DEF RunType, Budget
  <2> QED BY <2>1 DEF RunNothing, RunTest, RunType
<1>4. cpc' \in [CPUs -> KillPCs] /\ at' \in [CPUs -> Nat]
  BY <1>1 DEF RunNothing, RunTest, RunType, KillPCs, CutPCs, CpuPCs, killVars
<1>5. SchedType'
  BY <1>1, <1>2 DEF SchedType, slot
<1>6. RunType'
  BY <1>1, <1>3, <1>4 DEF RunType
<1>7. LabelInv'
  BY <1>1, <1>2, KernelAssumption DEF LabelInv
<1>8. CallInv'
  <2>1. ASSUME NEW d \in CPUs, d # c
        PROVE  /\ cpc'[d] = cpc[d] /\ at'[d] = at[d] /\ stage'[d] = stage[d]
               /\ UNCHANGED <<kill, proc, job>>
    BY <1>1, <1>2, <2>1
  <2>2. /\ ~(cpc'[c] \in {"find", "decide"} \cup CutPCs)
        /\ cpc'[c] = "increment" =>
             /\ proc'[c] # NULL /\ stage'[c] = "working"
             /\ at'[c] < job'[proc'[c]].size
    BY <1>1, KernelAssumption DEF CutPCs
  <2> QED BY <1>1, <2>1, <2>2 DEF CallInv, Inside, Taken, CutPCs
<1> QED BY <1>1, <1>5, <1>6, <1>7, <1>8, ProgSame

(* The instruction.                                                        *)
LEMMA ExecuteTypes ==
  ASSUME KillTypes, NEW c \in CPUs, RunOther(c) \/ RunKillAll(c)
  PROVE  KillTypes'
<1> USE DEF KillTypes
<1>1. /\ stage[c] = "working"
      /\ proc[c] \in Procs
      /\ at[c] \in Nat
      /\ UNCHANGED <<job, mlq_ready_queue, running_list, curr_prio, curr_slot,
                     done, ldpc, i, proc, time_left, freed, waiting, name,
                     cut>>
      /\ \A d \in CPUs \ {c} : /\ cpc'[d] = cpc[d]
                               /\ at'[d] = at[d]
                               /\ kill'[d] = kill[d]
      /\ cpc'[c] \in {"top", "find"}
      /\ cpc'[c] = "find" => UNCHANGED <<time, stage>> /\ kill'[c].list # "none"
      /\ cpc[c] = "increment"
  <2>1. /\ cpc[c] = "increment"
        /\ stage[c] = "working"
        /\ proc[c] \in Procs
        /\ at[c] \in Nat
        /\ \A d \in CPUs \ {c} : at'[d] = at[d]
    BY DEF RunOther, RunKillAll, Increment, CallInv, SchedType, RunType
  <2>2. CASE RunOther(c)
    BY <2>1, <2>2 DEF RunOther, RunType, schedVars, loaderVars
  <2>3. CASE RunKillAll(c)
    <3>1. kill'[c].list = "running"
      BY <2>3 DEF RunKillAll, RunType
    <3> QED
      BY <2>1, <2>3, <3>1 DEF RunKillAll, RunType, schedVars, loaderVars
  <2> QED BY <2>2, <2>3
<1>2. /\ time' = time
      /\ Clock!ClockTypeOK'
      /\ \A e \in CPUs \cup {Loader} : e # c => stage'[e] = stage[e]
  <2>1. CASE UNCHANGED <<time, stage>>
    BY <2>1 DEF SchedType, Clock!ClockTypeOK
  <2>2. CASE Clock!Arrive(c)
    BY <2>2, ClockStep
  <2> QED BY <2>1, <2>2 DEF RunOther, RunKillAll
<1>3. pc' \in [Procs -> Nat]
  <2>1. pc[proc[c]] \in Nat
    BY <1>1 DEF RunType
  <2>2. PICK v \in {at[c], pc[proc[c]]} : pc' = [pc EXCEPT ![proc[c]] = v + 1]
    BY DEF RunOther, RunKillAll, Increment
  <2>3. v + 1 \in Nat
    BY <1>1, <2>1
  <2> QED BY <2>2, <2>3 DEF RunType
<1>4. kill' \in [CPUs -> KillLocals]
  <2>1. CASE kill' = kill
    BY <2>1 DEF RunType
  <2>2. CASE RunKillAll(c)
    <3>1. Fetched(c).op = "killall" /\ Fetched(c) \in Instructions
      BY <1>1, <2>2, FetchedType DEF RunKillAll
    <3>2. Fetched(c).name \in Names
      BY <3>1 DEF Instructions
    <3>3. Len(running_list) \in 0..MAX_QUEUE_SIZE
      BY QueueAssumption DEF RunType
    <3>4. [proc_name |-> Fetched(c).name, list |-> "running",
           left |-> Len(running_list), index |-> 0, target |-> NULL]
            \in KillLocals
      BY <3>2, <3>3, QueueAssumption DEF KillLocals, Lists
    <3>5. kill' = [kill EXCEPT ![c] =
                     [proc_name |-> Fetched(c).name, list |-> "running",
                      left |-> Len(running_list), index |-> 0, target |-> NULL]]
      BY <2>2 DEF RunKillAll
    <3> QED BY <3>4, <3>5 DEF RunType
  <2> QED BY <2>1, <2>2 DEF RunOther
<1>5. cpc' \in [CPUs -> KillPCs] /\ at' \in [CPUs -> Nat]
  <2>1. at' \in [CPUs -> Nat]
    <3>1. at' = [at EXCEPT ![c] = 0]
      BY DEF RunOther, RunKillAll, Increment
    <3> QED BY <3>1 DEF RunType
  <2>2. CASE RunOther(c)
    BY <2>1, <2>2 DEF RunOther, RunType, KillPCs, CutPCs, CpuPCs
  <2>3. CASE RunKillAll(c)
    BY <2>1, <2>3 DEF RunKillAll, RunType, KillPCs, CutPCs, CpuPCs
  <2> QED BY <2>2, <2>3
<1>6. SchedType'
  BY <1>1, <1>2 DEF SchedType, slot
<1>7. RunType'
  BY <1>1, <1>3, <1>4, <1>5 DEF RunType
<1>8. LabelInv'
  BY <1>1, <1>2, KernelAssumption DEF LabelInv
<1>9. CallInv'
  BY <1>1, <1>2 DEF CallInv, Inside, Taken, CutPCs
<1> QED BY <1>1, <1>6, <1>7, <1>8, <1>9, ProgSame
------------------------------------------------------------------------------
(* The two loops of __sys_killall.                                         *)

(* The queue that is swept is a queue of processes.                        *)
LEMMA SweptType ==
  ASSUME KillTypes, NEW c \in CPUs
  PROVE  Swept(c) \in Seq(Procs) /\ Len(Swept(c)) <= MAX_QUEUE_SIZE
BY KernelAssumption DEF KillTypes, SchedType, RunType, Swept, Prios

(* The search of dequeue finds a place of the queue; 0 stands for none.    *)
LEMMA FoundPlace ==
  ASSUME KillTypes, NEW q \in Seq(Procs), NEW k \in Found(q)
  PROVE  IF empty(q) THEN k = 0 ELSE k \in 1..Len(q)
<1>1. priority \in [Procs -> Nat]
  BY JobType DEF KillTypes
<1>2. ~empty(q) => HighestIndex(q, priority) \in 1..Len(q)
  BY <1>1, HighestIndexInQueue DEF empty
<1> QED BY <1>2 DEF Found

(* One of the queues becomes another one, the others stay.                 *)
LEMMA SetSweptTypes ==
  ASSUME KillTypes, NEW c \in CPUs, NEW q \in Seq(Procs),
         Len(q) <= MAX_QUEUE_SIZE, SetSwept(c, q)
  PROVE  /\ running_list' \in Seq(Procs)
         /\ Len(running_list') <= MAX_QUEUE_SIZE
         /\ mlq_ready_queue' \in [Prios -> Seq(Procs)]
         /\ \A k \in Prios : Len(mlq_ready_queue[k])' <= MAX_QUEUE_SIZE
         /\ UNCHANGED <<curr_prio, curr_slot>>
<1>1. CASE kill[c].list = "running"
  BY <1>1 DEF SetSwept, KillTypes, SchedType, RunType
<1>2. CASE kill[c].list # "running"
  <2>1. mlq_ready_queue' = [mlq_ready_queue EXCEPT ![0] = q]
    BY <1>2 DEF SetSwept
  <2>2. mlq_ready_queue' \in [Prios -> Seq(Procs)]
    BY <2>1 DEF KillTypes, SchedType
  <2>3. \A k \in Prios : Len(mlq_ready_queue'[k]) <= MAX_QUEUE_SIZE
    BY <2>1 DEF KillTypes, SchedType
  <2> QED BY <1>2, <2>2, <2>3 DEF SetSwept, KillTypes, RunType
<1> QED BY <1>1, <1>2

(* A step of one CPU inside the loops that keeps the types of what it      *)
(* changes keeps them all.                                                 *)
LEMMA KillFrame ==
  ASSUME KillTypes, NEW c \in CPUs, Inside(c),
         UNCHANGED <<job, curr_prio, curr_slot, loaderVars, proc, time_left,
                     waiting, name, at>>,
         time' = time, Clock!ClockTypeOK',
         cut' \in BOOLEAN, cut => cut',
         \A e \in CPUs \cup {Loader} : e # c => stage'[e] = stage[e],
         \A d \in CPUs : d # c => cpc'[d] = cpc[d] /\ kill'[d] = kill[d],
         cpc' \in [CPUs -> KillPCs],
         kill' \in [CPUs -> KillLocals],
         running_list' \in Seq(Procs),
         Len(running_list') <= MAX_QUEUE_SIZE,
         mlq_ready_queue' \in [Prios -> Seq(Procs)],
         \A k \in Prios : Len(mlq_ready_queue[k])' <= MAX_QUEUE_SIZE,
         pc' \in [Procs -> Nat],
         freed' \subseteq Procs,
         \/ cpc'[c] = "top"
         \/ /\ cpc'[c] \in {"find", "decide"} \cup CutPCs
            /\ stage'[c] = stage[c]
            /\ kill'[c].list # "none"
            /\ cpc'[c] \in Taken => kill'[c].target \in Procs
            /\ cpc'[c] \in CutPCs => cut'
  PROVE  KillTypes'
<1> USE DEF KillTypes
<1>1. stage[c] = "working" /\ proc[c] # NULL /\ Loader # c
  BY KernelAssumption DEF CallInv
<1>2. SchedType'
  BY DEF SchedType, slot, loaderVars
<1>3. RunType'
  BY DEF RunType
<1>4. LabelInv'
  BY <1>1 DEF LabelInv, loaderVars, CutPCs
<1>5. CallInv'
  BY <1>1 DEF CallInv, Inside, Taken, CutPCs
<1> QED BY <1>2, <1>3, <1>4, <1>5, ProgSame

(* A step that stays inside and touches neither clock, pc nor freed PCBs.  *)
LEMMA CallFrame ==
  ASSUME KillTypes, NEW c \in CPUs, Inside(c),
         UNCHANGED <<time, stage, job, curr_prio, curr_slot, loaderVars, proc,
                     time_left, pc, freed, waiting, name, at>>,
         NEW l \in {"find", "decide"} \cup CutPCs,
         cpc' = [cpc EXCEPT ![c] = l],
         cut' \in BOOLEAN, cut => cut', l \in CutPCs => cut',
         kill' \in [CPUs -> KillLocals],
         \A d \in CPUs : d # c => kill'[d] = kill[d],
         kill'[c].list = kill[c].list,
         l \in Taken => kill'[c].target \in Procs,
         running_list' \in Seq(Procs),
         Len(running_list') <= MAX_QUEUE_SIZE,
         mlq_ready_queue' \in [Prios -> Seq(Procs)],
         \A k \in Prios : Len(mlq_ready_queue[k])' <= MAX_QUEUE_SIZE
  PROVE  KillTypes'
<1>1. kill[c].list # "none"
  BY DEF KillTypes, CallInv
<1>2. /\ cpc' \in [CPUs -> KillPCs]
      /\ cpc'[c] = l
      /\ \A d \in CPUs : d # c => cpc'[d] = cpc[d]
  BY DEF KillTypes, RunType, KillPCs
<1>3. /\ Clock!ClockTypeOK'
      /\ pc' \in [Procs -> Nat]
      /\ freed' \subseteq Procs
      /\ \A e \in CPUs \cup {Loader} : stage'[e] = stage[e]
  BY DEF KillTypes, SchedType, RunType, Clock!ClockTypeOK
<1> QED BY <1>1, <1>2, <1>3, KillFrame

(* The search, as far as it changes the locals of the call.                *)
LEMMA TurnLocals ==
  ASSUME KillTypes, NEW c \in CPUs, NEW k, Turn(c, k)
  PROVE  /\ cpc[c] = "find" /\ Inside(c)
         /\ kill[c].left >= 1
         /\ kill' \in [CPUs -> KillLocals]
         /\ kill'[c].proc_name = kill[c].proc_name
         /\ kill'[c].list = kill[c].list
         /\ kill'[c].left = kill[c].left - 1
         /\ kill'[c].index = k
         /\ k \in Found(Swept(c))
         /\ k = 0 => empty(Swept(c))
         /\ k # 0 => /\ k \in 1..Len(Swept(c))
                     /\ kill'[c].target = Swept(c)[k]
                     /\ kill'[c].target \in Procs
                     /\ ~empty(Swept(c))
         /\ \A d \in CPUs : d # c => kill'[d] = kill[d]
         /\ UNCHANGED <<time, stage, job, loaderVars, proc, time_left, pc,
                        freed, waiting, name, at, asked, ran, wanted>>
<1>1. /\ kill[c] \in KillLocals /\ cpc[c] = "find" /\ Inside(c)
      /\ kill[c].left > 0 /\ kill[c].left \in Nat
      /\ k \in Found(Swept(c))
  BY QueueAssumption DEF KillTypes, RunType, Turn, Inside, KillLocals
<1>2. kill' = [kill EXCEPT ![c].left = @ - 1, ![c].index = k,
                           ![c].target = IF k = 0 THEN NULL ELSE Swept(c)[k]]
  BY DEF Turn
<1>3. /\ k \in 0..MAX_QUEUE_SIZE
      /\ k # 0 => k \in 1..Len(Swept(c)) /\ Swept(c)[k] \in Procs
      /\ k = 0 <=> empty(Swept(c))
  <2>1. IF empty(Swept(c)) THEN k = 0 ELSE k \in 1..Len(Swept(c))
    BY <1>1, SweptType, FoundPlace
  <2> HIDE DEF empty
  <2> QED BY <2>1, SweptType, QueueAssumption
<1>4. /\ kill' \in [CPUs -> KillLocals]
      /\ kill'[c].proc_name = kill[c].proc_name
      /\ kill'[c].list = kill[c].list
      /\ kill'[c].left = kill[c].left - 1
      /\ kill'[c].index = k
      /\ kill'[c].target = IF k = 0 THEN NULL ELSE Swept(c)[k]
      /\ \A d \in CPUs : d # c => kill'[d] = kill[d]
  <2>1. kill[c].left - 1 \in 0..MAX_QUEUE_SIZE
    BY <1>1, QueueAssumption DEF KillLocals
  <2>2. (IF k = 0 THEN NULL ELSE Swept(c)[k]) \in Procs \cup {NULL}
    BY <1>3
  <2> DEFINE l == kill[c].left - 1
             t == IF k = 0 THEN NULL ELSE Swept(c)[k]
  <2>3. kill' = [kill EXCEPT ![c].left = l, ![c].index = k, ![c].target = t]
    BY <1>2
  <2>4. kill \in [CPUs -> KillLocals]
    BY DEF KillTypes, RunType
  <2>5. t \in Procs \cup {NULL} /\ l \in 0..MAX_QUEUE_SIZE
    BY <2>1, <2>2
  <2> HIDE DEF l, t
  <2>6. /\ kill' \in [CPUs -> KillLocals]
        /\ kill'[c].proc_name = kill[c].proc_name
        /\ kill'[c].list = kill[c].list
        /\ kill'[c].left = l
        /\ kill'[c].index = k
        /\ kill'[c].target = t
        /\ \A d \in CPUs : d # c => kill'[d] = kill[d]
    BY <1>1, <1>3, <2>3, <2>4, <2>5 DEF KillLocals
  <2> QED BY <2>6 DEF l, t
<1>5. UNCHANGED <<time, stage, job, loaderVars, proc, time_left, pc, freed,
                  waiting, name, at, asked, ran, wanted>>
  BY DEF Turn, procVars
<1> HIDE DEF empty
<1>6. CASE k = 0
  BY <1>1, <1>3, <1>4, <1>5, <1>6
<1>7. CASE k # 0
  BY <1>1, <1>3, <1>4, <1>5, <1>7
<1> QED BY <1>6, <1>7

(* What a dequeue that is one step does.                                   *)
LEMMA DequeueTurn ==
  ASSUME KillTypes, NEW c \in CPUs, KillDequeue(c)
  PROVE  /\ cpc[c] = "find" /\ Inside(c)
         /\ kill[c].left >= 1
         /\ kill' \in [CPUs -> KillLocals]
         /\ kill'[c].proc_name = kill[c].proc_name
         /\ kill'[c].list = kill[c].list
         /\ kill'[c].left = kill[c].left - 1
         /\ kill'[c].index \in Found(Swept(c))
         /\ \/ /\ empty(Swept(c))
               /\ cpc' = [cpc EXCEPT ![c] = "find"]
               /\ UNCHANGED <<mlq_ready_queue, running_list>>
            \/ /\ ~empty(Swept(c))
               /\ kill'[c].index \in 1..Len(Swept(c))
               /\ kill'[c].target = Swept(c)[kill'[c].index]
               /\ kill'[c].target \in Procs
               /\ cpc' = [cpc EXCEPT ![c] = "decide"]
               /\ SetSwept(c, ShiftDown(Swept(c), kill'[c].index))
         /\ \A d \in CPUs : d # c => kill'[d] = kill[d] /\ cpc'[d] = cpc[d]
         /\ UNCHANGED <<time, stage, job, curr_prio, curr_slot, loaderVars,
                        proc, time_left, pc, freed, waiting, name, at, asked,
                        ran, wanted, cut>>
<1>1. PICK k \in Found(Swept(c)) :
        /\ Turn(c, k)
        /\ k = 0 => UNCHANGED <<schedVars, cpc>>
        /\ k # 0 => /\ SetSwept(c, ShiftDown(Swept(c), k))
                    /\ cpc' = [cpc EXCEPT ![c] = "decide"]
        /\ UNCHANGED cut
  BY DEF KillDequeue
<1>2. /\ cpc[c] = "find" /\ Inside(c)
      /\ kill[c].left >= 1
      /\ kill' \in [CPUs -> KillLocals]
      /\ kill'[c].proc_name = kill[c].proc_name
      /\ kill'[c].list = kill[c].list
      /\ kill'[c].left = kill[c].left - 1
      /\ kill'[c].index = k
      /\ k = 0 => empty(Swept(c))
      /\ k # 0 => /\ k \in 1..Len(Swept(c))
                  /\ kill'[c].target = Swept(c)[k]
                  /\ kill'[c].target \in Procs
                  /\ ~empty(Swept(c))
      /\ \A d \in CPUs : d # c => kill'[d] = kill[d]
      /\ UNCHANGED <<time, stage, job, loaderVars, proc, time_left, pc,
                     freed, waiting, name, at, asked, ran, wanted>>
  BY <1>1, TurnLocals
<1>3. cpc \in [CPUs -> KillPCs]
  BY DEF KillTypes, RunType
<1> HIDE DEF empty
<1>4. CASE k = 0
  <2>1. cpc' = [cpc EXCEPT ![c] = "find"]
    BY <1>1, <1>2, <1>3, <1>4
  <2>2. UNCHANGED <<mlq_ready_queue, running_list, curr_prio, curr_slot>>
    BY <1>1, <1>4 DEF schedVars
  <2> QED BY <1>1, <1>2, <1>3, <1>4, <2>1, <2>2
<1>5. CASE k # 0
  <2>1. UNCHANGED <<curr_prio, curr_slot>>
    BY <1>1, <1>5 DEF SetSwept
  <2> QED BY <1>1, <1>2, <1>3, <1>5, <2>1
<1> QED BY <1>4, <1>5

(* It keeps the types.                                                     *)
LEMMA DequeueTypes ==
  ASSUME KillTypes, NEW c \in CPUs, KillDequeue(c)
  PROVE  KillTypes'
<1> DEFINE k == kill'[c].index
<1>1. /\ Inside(c)
      /\ kill' \in [CPUs -> KillLocals]
      /\ kill'[c].list = kill[c].list
      /\ \/ /\ cpc' = [cpc EXCEPT ![c] = "find"]
            /\ UNCHANGED <<mlq_ready_queue, running_list>>
         \/ /\ ~empty(Swept(c))
            /\ k \in 1..Len(Swept(c))
            /\ kill'[c].target \in Procs
            /\ cpc' = [cpc EXCEPT ![c] = "decide"]
            /\ SetSwept(c, ShiftDown(Swept(c), k))
      /\ \A d \in CPUs : d # c => kill'[d] = kill[d]
      /\ UNCHANGED <<time, stage, job, curr_prio, curr_slot, loaderVars,
                     proc, time_left, pc, freed, waiting, name, at, cut>>
  BY DequeueTurn
<1> HIDE DEF k
<1>2. cut \in BOOLEAN
  BY DEF KillTypes, RunType
<1>3. CASE /\ cpc' = [cpc EXCEPT ![c] = "find"]
           /\ UNCHANGED <<mlq_ready_queue, running_list>>
  <2>1. /\ running_list' \in Seq(Procs)
        /\ Len(running_list') <= MAX_QUEUE_SIZE
        /\ mlq_ready_queue' \in [Prios -> Seq(Procs)]
        /\ \A l \in Prios : Len(mlq_ready_queue[l])' <= MAX_QUEUE_SIZE
    BY <1>3 DEF KillTypes, SchedType, RunType
  <2>2. "find" \notin Taken /\ "find" \notin CutPCs
    BY DEF Taken, CutPCs
  <2> QED BY <1>1, <1>2, <1>3, <2>1, <2>2, CallFrame
<1>4. CASE /\ ~empty(Swept(c))
           /\ k \in 1..Len(Swept(c))
           /\ kill'[c].target \in Procs
           /\ cpc' = [cpc EXCEPT ![c] = "decide"]
           /\ SetSwept(c, ShiftDown(Swept(c), k))
  <2> DEFINE q == Swept(c)
             r == ShiftDown(q, k)
  <2>1. q \in Seq(Procs) /\ Len(q) <= MAX_QUEUE_SIZE /\ Len(q) # 0 /\ k \in Nat
    BY <1>4, SweptType DEF empty
  <2>2. r \in Seq(Procs) /\ Len(r) <= MAX_QUEUE_SIZE /\ SetSwept(c, r)
    <3>1. SetSwept(c, r)
      BY <1>4
    <3> HIDE DEF q
    <3>2. r \in Seq(Procs) /\ Len(r) = Len(q) - 1
      BY <2>1, ShiftProperties
    <3> HIDE DEF r
    <3> QED BY <2>1, <3>1, <3>2, QueueAssumption
  <2> HIDE DEF r
  <2>3. /\ running_list' \in Seq(Procs)
        /\ Len(running_list') <= MAX_QUEUE_SIZE
        /\ mlq_ready_queue' \in [Prios -> Seq(Procs)]
        /\ \A l \in Prios : Len(mlq_ready_queue[l])' <= MAX_QUEUE_SIZE
    BY <2>2, SetSweptTypes
  <2>4. "decide" \notin CutPCs
    BY DEF CutPCs
  <2> QED BY <1>1, <1>2, <1>4, <2>3, <2>4, CallFrame
<1> QED BY <1>1, <1>3, <1>4

(* The pieces of a call that is cut: those that leave the queues alone.    *)
LEMMA CutLooksTypes ==
  ASSUME KillTypes, NEW c \in CPUs, KillFind(c) \/ KillTest(c) \/ KillStray(c)
  PROVE  KillTypes'
<1>1. /\ running_list' \in Seq(Procs)
      /\ Len(running_list') <= MAX_QUEUE_SIZE
      /\ mlq_ready_queue' \in [Prios -> Seq(Procs)]
      /\ \A l \in Prios : Len(mlq_ready_queue[l])' <= MAX_QUEUE_SIZE
      /\ UNCHANGED <<curr_prio, curr_slot>>
      /\ cut' = TRUE
      /\ kill \in [CPUs -> KillLocals]
  BY DEF KillFind, KillTest, KillStray, schedVars, KillTypes, SchedType, RunType
<1>2. CASE KillFind(c)
  <2>1. PICK k \in Found(Swept(c)) \ {0} : Turn(c, k)
    BY <1>2 DEF KillFind
  <2>2. /\ Inside(c)
        /\ kill' \in [CPUs -> KillLocals]
        /\ kill'[c].list = kill[c].list
        /\ kill'[c].target \in Procs
        /\ \A d \in CPUs : d # c => kill'[d] = kill[d]
        /\ UNCHANGED <<time, stage, job, loaderVars, proc, time_left, pc,
                       freed, waiting, name, at>>
    BY <2>1, TurnLocals
  <2>3. cpc' = [cpc EXCEPT ![c] = "shift"] /\ "shift" \in CutPCs
    BY <1>2 DEF KillFind, CutPCs
  <2> QED BY <1>1, <2>2, <2>3, CallFrame
<1>3. CASE KillTest(c) \/ KillStray(c)
  <2>1. /\ UNCHANGED <<time, stage, job, loaderVars, proc, time_left, pc, freed,
                       waiting, name, at, kill>>
        /\ Inside(c)
    BY <1>3 DEF KillTest, KillStray, Inside, CutPCs, procVars
  <2>2. CASE KillTest(c)
    <3>1. /\ cpc' = [cpc EXCEPT ![c] = "store"] /\ "store" \in CutPCs
          /\ kill[c].target \in Procs
      BY <2>2 DEF KillTest, CutPCs, KillTypes, CallInv, Taken
    <3> QED BY <1>1, <2>1, <3>1, CallFrame
  <2>3. CASE KillStray(c)
    <3>1. cpc' = [cpc EXCEPT ![c] = "wild"] /\ "wild" \in CutPCs
          /\ "wild" \notin Taken
      BY <2>3 DEF KillStray, CutPCs, Taken
    <3> QED BY <1>1, <2>1, <3>1, CallFrame
  <2> QED BY <1>3, <2>2, <2>3
<1> QED BY <1>2, <1>3

(* The shift of dequeue alone keeps the length.                            *)
LEMMA ShiftedType ==
  ASSUME NEW q \in Seq(Procs), NEW k \in Nat
  PROVE  Shifted(q, k) \in Seq(Procs) /\ Len(Shifted(q, k)) = Len(q)
<1> DEFINE r == Shifted(q, k)
<1>1. Len(q) \in Nat
  OBVIOUS
<1>2. ASSUME NEW n \in 1..Len(q)
      PROVE  (IF n < k \/ n = Len(q) THEN q[n] ELSE q[n + 1]) \in Procs
  <2>1. n # Len(q) => n + 1 \in 1..Len(q)
    BY <1>1
  <2> QED BY <2>1
<1>3. r \in [1..Len(q) -> Procs]
  BY <1>2 DEF Shifted
<1> HIDE DEF r
<1>4. r \in Seq(Procs) /\ Len(r) = Len(q)
  BY <1>1, <1>3
<1> QED BY <1>4 DEF r

(* The shift and the size-- of a dequeue that is cut.                      *)
LEMMA CutMovesTypes ==
  ASSUME KillTypes, NEW c \in CPUs, KillShift(c) \/ KillShrink(c)
  PROVE  KillTypes'
<1> DEFINE q == Swept(c)
           k == kill[c].index
<1>1. q \in Seq(Procs) /\ Len(q) <= MAX_QUEUE_SIZE
  BY SweptType
<1>2. /\ kill[c] \in KillLocals /\ kill \in [CPUs -> KillLocals]
      /\ cpc[c] \in {"shift", "shrink"} /\ Inside(c)
      /\ cut = TRUE
      /\ kill[c].target \in Procs
  BY DEF KillShift, KillShrink, KillTypes, RunType, CallInv, Inside, Taken,
         CutPCs
<1>3. /\ UNCHANGED <<time, stage, job, loaderVars, proc, time_left, pc, freed,
                     waiting, name, at, kill, cut>>
  BY DEF KillShift, KillShrink, procVars, killVars
<1>4. CASE KillShift(c)
  <2> DEFINE r == Shifted(q, k)
  <2>1. SetSwept(c, r) /\ cpc' = [cpc EXCEPT ![c] = "shrink"]
        /\ "shrink" \in CutPCs
    BY <1>4 DEF KillShift, CutPCs
  <2>2. r \in Seq(Procs) /\ Len(r) <= MAX_QUEUE_SIZE
    <3>1. k \in Nat
      BY <1>2, QueueAssumption DEF KillLocals
    <3> HIDE DEF q, k
    <3>2. r \in Seq(Procs) /\ Len(r) = Len(q)
      BY <1>1, <3>1, ShiftedType
    <3> HIDE DEF r
    <3> QED BY <1>1, <3>2
  <2> HIDE DEF r
  <2>3. /\ running_list' \in Seq(Procs)
        /\ Len(running_list') <= MAX_QUEUE_SIZE
        /\ mlq_ready_queue' \in [Prios -> Seq(Procs)]
        /\ \A l \in Prios : Len(mlq_ready_queue[l])' <= MAX_QUEUE_SIZE
        /\ UNCHANGED <<curr_prio, curr_slot>>
    BY <2>1, <2>2, SetSweptTypes
  <2> QED BY <1>2, <1>3, <2>1, <2>3, CallFrame
<1>5. CASE KillShrink(c)
  <2> DEFINE r == SubSeq(q, 1, Len(q) - 1)
  <2>1. /\ SetSwept(c, r) /\ cpc' = [cpc EXCEPT ![c] = "decide"]
        /\ Len(q) # 0 /\ "decide" \notin CutPCs
    BY <1>5 DEF KillShrink, CutPCs, empty
  <2>2. r \in Seq(Procs) /\ Len(r) <= MAX_QUEUE_SIZE
    <3> HIDE DEF q
    <3> QED BY <1>1, <2>1, QueueAssumption
  <2> HIDE DEF r
  <2>3. /\ running_list' \in Seq(Procs)
        /\ Len(running_list') <= MAX_QUEUE_SIZE
        /\ mlq_ready_queue' \in [Prios -> Seq(Procs)]
        /\ \A l \in Prios : Len(mlq_ready_queue[l])' <= MAX_QUEUE_SIZE
        /\ UNCHANGED <<curr_prio, curr_slot>>
    BY <2>1, <2>2, SetSweptTypes
  <2> QED BY <1>2, <1>3, <2>1, <2>3, CallFrame
<1> QED BY <1>4, <1>5

(* The end of a turn.                                                      *)
LEMMA TurnDoneTypes ==
  ASSUME KillTypes, NEW c \in CPUs, cpc[c] \in Taken, TurnDone(c)
  PROVE  /\ kill' \in [CPUs -> KillLocals]
         /\ kill'[c].proc_name = kill[c].proc_name
         /\ kill'[c].list = kill[c].list
         /\ kill'[c].left = kill[c].left
         /\ \A d \in CPUs : d # c => kill'[d] = kill[d] /\ cpc'[d] = cpc[d]
         /\ cpc' \in [CPUs -> KillPCs]
         /\ cpc'[c] = "find"
         /\ kill[c].target \in Procs
         /\ kill[c].list \in {"running", "ready"}
         /\ cut' = cut
<1>1. kill \in [CPUs -> KillLocals] /\ kill[c] \in KillLocals
  BY DEF KillTypes, RunType
<1>2. /\ kill' = [kill EXCEPT ![c].index = 0, ![c].target = NULL]
      /\ cpc' = [cpc EXCEPT ![c] = "find"]
      /\ cut' = cut
  BY DEF TurnDone
<1>3. /\ kill' \in [CPUs -> KillLocals]
      /\ kill'[c].proc_name = kill[c].proc_name
      /\ kill'[c].list = kill[c].list
      /\ kill'[c].left = kill[c].left
      /\ \A d \in CPUs : d # c => kill'[d] = kill[d]
  <2>1. 0 \in 0..MAX_QUEUE_SIZE
    BY QueueAssumption
  <2>2. kill' = [kill EXCEPT ![c].index = 0, ![c].target = NULL]
    BY <1>2
  <2> QED BY <1>1, <2>1, <2>2 DEF KillLocals
<1>4. kill[c].target \in Procs /\ kill[c].list \in {"running", "ready"}
  <2>1. kill[c].list # "none"
    BY DEF KillTypes, CallInv, Inside, Taken, CutPCs
  <2>2. kill[c].list \in Lists
    BY <1>1 DEF KillLocals
  <2>3. kill[c].target \in Procs
    BY DEF KillTypes, CallInv
  <2> QED BY <2>1, <2>2, <2>3 DEF Lists
<1>5. /\ cpc' \in [CPUs -> KillPCs]
      /\ cpc'[c] = "find"
      /\ \A d \in CPUs : d # c => cpc'[d] = cpc[d]
  BY <1>2 DEF KillTypes, RunType, KillPCs
<1> QED BY <1>2, <1>3, <1>4, <1>5

(* The process that was removed is put back, ended or freed.               *)
LEMMA DecideTypes ==
  ASSUME KillTypes, NEW c \in CPUs,
         KillKeep(c) \/ KillStore(c) \/ KillEnd(c) \/ KillFree(c)
  PROVE  KillTypes'
<1> DEFINE t == kill[c].target
<1>1. /\ cpc[c] \in Taken /\ Inside(c)
      /\ TurnDone(c)
      /\ UNCHANGED <<time, stage, job, loaderVars, proc, time_left, waiting,
                     name, at>>
  BY DEF KillKeep, KillStore, KillEnd, KillFree, Inside, Taken, CutPCs, TurnDone
<1>2. /\ kill' \in [CPUs -> KillLocals]
      /\ kill'[c].list = kill[c].list
      /\ cut' = cut
      /\ \A d \in CPUs : d # c => kill'[d] = kill[d] /\ cpc'[d] = cpc[d]
      /\ cpc' \in [CPUs -> KillPCs]
      /\ cpc'[c] = "find"
      /\ t \in Procs
      /\ kill[c].list \in {"running", "ready"}
  BY <1>1, TurnDoneTypes
<1>3. /\ running_list' \in Seq(Procs)
      /\ Len(running_list') <= MAX_QUEUE_SIZE
      /\ mlq_ready_queue' \in [Prios -> Seq(Procs)]
      /\ \A k \in Prios : Len(mlq_ready_queue[k])' <= MAX_QUEUE_SIZE
      /\ UNCHANGED <<curr_prio, curr_slot>>
  <2>1. CASE KillKeep(c)
    <3>1. /\ enqueue(Swept(c), t) \in Seq(Procs)
          /\ Len(enqueue(Swept(c), t)) <= MAX_QUEUE_SIZE
      BY <1>2, SweptType, EnqueueType
    <3>2. SetSwept(c, enqueue(Swept(c), t))
      BY <2>1 DEF KillKeep
    <3> QED BY <3>1, <3>2, SetSweptTypes
  <2>2. CASE KillStore(c)
    <3>1. SetSwept(c, Append(Swept(c), t)) /\ Len(Swept(c)) < MAX_QUEUE_SIZE
      BY <2>2 DEF KillStore
    <3>2. Swept(c) \in Seq(Procs)
      BY SweptType
    <3>3. /\ Append(Swept(c), t) \in Seq(Procs)
          /\ Len(Append(Swept(c), t)) = Len(Swept(c)) + 1
      BY <1>2, <3>2
    <3>4. Len(Append(Swept(c), t)) <= MAX_QUEUE_SIZE
      BY <3>1, <3>2, <3>3, QueueAssumption
    <3> QED BY <3>1, <3>3, <3>4, SetSweptTypes
  <2>3. CASE KillEnd(c) \/ KillFree(c)
    BY <2>3 DEF KillEnd, KillFree, schedVars, KillTypes, SchedType, RunType
  <2> QED BY <2>1, <2>2, <2>3
<1>4. pc' \in [Procs -> Nat] /\ freed' \subseteq Procs
  <2>1. CASE KillKeep(c) \/ KillStore(c)
    BY <2>1 DEF KillKeep, KillStore, procVars, KillTypes, SchedType, RunType
  <2>2. CASE KillEnd(c)
    <3>1. job[t].size \in Nat
      BY <1>2, JobType DEF KillTypes
    <3> QED BY <2>2, <3>1 DEF KillEnd, KillTypes, SchedType, RunType
  <2>3. CASE KillFree(c)
    BY <1>2, <2>3 DEF KillFree, KillTypes, SchedType, RunType
  <2> QED BY <2>1, <2>2, <2>3
<1>5. /\ Clock!ClockTypeOK'
      /\ cut' \in BOOLEAN
      /\ "find" \notin Taken /\ "find" \notin CutPCs
  BY <1>1, <1>2 DEF KillTypes, SchedType, RunType, Taken, CutPCs, Clock!ClockTypeOK
<1> QED BY <1>1, <1>2, <1>3, <1>4, <1>5, KillFrame

(* From one loop to the next, and out of killall.                          *)
LEMMA LoopTypes ==
  ASSUME KillTypes, NEW c \in CPUs, KillReadyQueue(c) \/ KillReturn(c)
  PROVE  KillTypes'
<1>1. /\ cpc[c] = "find" /\ Inside(c)
      /\ UNCHANGED <<job, mlq_ready_queue, running_list, curr_prio, curr_slot,
                     loaderVars, proc, time_left, pc, freed, waiting, name, at>>
      /\ kill \in [CPUs -> KillLocals]
      /\ kill[c] \in KillLocals
      /\ cut' = cut /\ cut \in BOOLEAN
      /\ "find" \notin Taken /\ "find" \notin CutPCs
  BY DEF KillReadyQueue, KillReturn, Inside, Taken, CutPCs, vars, schedVars, procVars, cpuVars,
         KillTypes, RunType
<1>2. /\ running_list' \in Seq(Procs)
      /\ Len(running_list') <= MAX_QUEUE_SIZE
      /\ mlq_ready_queue' \in [Prios -> Seq(Procs)]
      /\ \A l \in Prios : Len(mlq_ready_queue[l])' <= MAX_QUEUE_SIZE
      /\ pc' \in [Procs -> Nat]
      /\ freed' \subseteq Procs
  BY <1>1 DEF KillTypes, SchedType, RunType
<1>3. CASE KillReadyQueue(c)
  <2>1. /\ UNCHANGED <<time, stage, cpc>>
        /\ kill' = [kill EXCEPT ![c].list = "ready",
                                ![c].left = Len(mlq_ready_queue[0])]
    BY <1>3 DEF KillReadyQueue, vars, cpuVars
  <2>2. Len(mlq_ready_queue[0]) \in 0..MAX_QUEUE_SIZE
    BY KernelAssumption, QueueAssumption DEF KillTypes, SchedType, Prios
  <2>3. /\ kill' \in [CPUs -> KillLocals]
        /\ kill'[c].list = "ready"
        /\ \A d \in CPUs : d # c => kill'[d] = kill[d]
    BY <1>1, <2>1, <2>2 DEF KillLocals, Lists
  <2>4. Clock!ClockTypeOK' /\ cpc' \in [CPUs -> KillPCs]
    BY <2>1 DEF KillTypes, SchedType, RunType, Clock!ClockTypeOK
  <2> QED BY <1>1, <1>2, <2>1, <2>3, <2>4, KillFrame
<1>4. CASE KillReturn(c)
  <2>1. /\ kill' = [kill EXCEPT ![c] = NoCall]
        /\ cpc' = [cpc EXCEPT ![c] = "top"]
        /\ Clock!Arrive(c)
    BY <1>4 DEF KillReturn
  <2>2. NoCall \in KillLocals
    BY QueueAssumption DEF NoCall, KillLocals, Lists
  <2>3. /\ kill' \in [CPUs -> KillLocals]
        /\ cpc' \in [CPUs -> KillPCs]
        /\ cpc'[c] = "top"
        /\ \A d \in CPUs : d # c => kill'[d] = kill[d] /\ cpc'[d] = cpc[d]
    BY <1>1, <2>1, <2>2 DEF KillTypes, RunType, KillPCs, CutPCs, CpuPCs
  <2>4. /\ Clock!ClockTypeOK'
        /\ time' = time
        /\ \A e \in CPUs \cup {Loader} : e # c => stage'[e] = stage[e]
    BY <2>1, ClockStep DEF KillTypes
  <2> QED BY <1>1, <1>2, <2>3, <2>4, KillFrame
<1> QED BY <1>3, <1>4

(* Every step keeps the types.                                             *)
LEMMA KillTypesNext == KillTypes /\ [KillNext]_allVars => KillTypes'
<1> SUFFICES ASSUME KillTypes, [KillNext]_allVars PROVE KillTypes'
  OBVIOUS
<1>1. ASSUME NEW c \in CPUs, RunStep(c) PROVE KillTypes'
  BY <1>1, DispatchTypes, ExecuteTypes DEF RunStep
<1>2. ASSUME NEW c \in CPUs, KillStep(c) PROVE KillTypes'
  BY <1>2, DequeueTypes, DecideTypes, LoopTypes DEF KillStep
<1>7. ASSUME NEW c \in CPUs, CutStep(c) PROVE KillTypes'
  BY <1>7, CutLooksTypes, CutMovesTypes, DecideTypes DEF CutStep
<1>3. ASSUME NEW c \in CPUs, SchedStep(c), UNCHANGED killVars PROVE KillTypes'
  BY <1>3, FetchTypes, PutTypes, IdleTypes DEF SchedStep
<1>4. CASE LoaderStep /\ UNCHANGED killVars
  BY <1>4, LoaderTypes
<1>5. CASE (NextSlot \/ LastSlot) /\ UNCHANGED killVars
  BY <1>5, SlotTypes
<1>6. CASE UNCHANGED allVars
  <2>1. /\ UNCHANGED <<time, stage, job, mlq_ready_queue, running_list,
                       curr_prio, curr_slot, done, ldpc, i, cpc, proc,
                       time_left, pc, freed, waiting, name, at, kill, cut>>
    BY <1>6 DEF allVars, vars, schedVars, loaderVars, cpuVars, procVars, killVars
  <2>2. SchedType' /\ RunType' /\ LabelInv' /\ CallInv'
    BY <2>1 DEF KillTypes, SchedType, RunType, LabelInv, CallInv, Inside, slot,
                Taken,
                Clock!ClockTypeOK
  <2> QED BY <2>1, <2>2, ProgSame DEF KillTypes
<1> QED BY <1>1, <1>2, <1>3, <1>4, <1>5, <1>6, <1>7 DEF KillNext, KillCpuStep

(* killall keeps the queues within their arrays and the rest of the types, *)
(* for any number of CPUs that call it at once and whatever critical       *)
(* section falls between the pieces of its dequeue and enqueue, until the  *)
(* store of an enqueue whose size test has become stale, or a size-- below *)
(* 0, leaves the array: from there on the code's state is not followed.    *)
THEOREM KillTypeCorrect == KillSpec => [](~Wild => KillTypeOK)
<1>1. KillSpec => []KillTypes
  BY KillTypesInit, KillTypesNext, PTL DEF KillSpec
<1> QED BY <1>1, KillTypesOK, PTL
------------------------------------------------------------------------------
(* The steps in which no critical section overlaps a call of killall's.    *)

CalmNext ==
  \/ \E c \in CPUs : \/ RunStep(c)
                     \/ KillStep(c)
                     \/ SchedStep(c) /\ UNCHANGED killVars
  \/ (LoaderStep \/ NextSlot \/ LastSlot) /\ UNCHANGED killVars
  \/ UNCHANGED allVars

(* As long as cut does not hold there are no others.                       *)
LEMMA OnlyCalm ==
  ASSUME KillTypes, [KillNext]_allVars, ~cut'
  PROVE  CalmNext /\ ~cut
<1>1. ASSUME NEW c \in CPUs, CutStep(c) PROVE FALSE
  <2>1. CASE KillFind(c) \/ KillTest(c) \/ KillStray(c)
    BY <2>1 DEF KillFind, KillTest, KillStray
  <2>2. CASE KillShift(c) \/ KillShrink(c) \/ KillStore(c)
    <3>1. cpc[c] \in CutPCs /\ cut' = cut
      BY <2>2 DEF KillShift, KillShrink, KillStore, TurnDone, CutPCs, killVars
    <3> QED BY <3>1 DEF KillTypes, CallInv
  <2> QED BY <1>1, <2>1, <2>2 DEF CutStep
<1>2. CalmNext
  BY <1>1 DEF KillNext, KillCpuStep, CalmNext
<1>3. ASSUME NEW c \in CPUs, RunStep(c) PROVE ~cut
  BY <1>3 DEF RunStep, RunNothing, RunTest, RunOther, RunKillAll, killVars
<1>4. ASSUME NEW c \in CPUs, KillStep(c) PROVE ~cut
  BY <1>4 DEF KillStep, KillDequeue, KillKeep, KillEnd, KillFree, TurnDone,
              KillReadyQueue, KillReturn
<1>5. ASSUME UNCHANGED killVars PROVE ~cut
  BY <1>5 DEF killVars
<1>6. ASSUME UNCHANGED allVars PROVE ~cut
  BY <1>5, <1>6 DEF allVars
<1> QED BY <1>2, <1>3, <1>4, <1>5, <1>6 DEF CalmNext
------------------------------------------------------------------------------
(* The place of a process, for any number of CPUs.                         *)

(* CPU c has taken a process out of the ready queue.                       *)
Holding(c) == cpc[c] = "decide" /\ kill[c].list = "ready"

(* Process p is not freed, and in no queue and on no CPU.                  *)
Apart(p) ==
  /\ p \in Added \ freed
  /\ \A k \in Prios : \A n \in Places(k) : mlq_ready_queue[k][n] # p
  /\ \A d \in CPUs : proc[d] # p

(* Nobody else has the process that killall has in hand.                   *)
HandInv ==
  \A c \in CPUs : Holding(c) =>
    /\ Apart(kill[c].target)
    /\ \A d \in CPUs : Holding(d) /\ kill[d].target = kill[c].target => d = c

(* What a step of CPU c has to leave alone if c then has nothing in hand.  *)
LEMMA HandOthers ==
  ASSUME HandInv, NEW c \in CPUs, ~Holding(c)',
         \A d \in CPUs : d # c => cpc'[d] = cpc[d] /\ kill'[d] = kill[d],
         \A d \in CPUs : d # c /\ Holding(d) => Apart(kill[d].target)'
  PROVE  HandInv'
<1>1. \A d \in CPUs : d # c /\ Holding(d)' =>
        Holding(d) /\ kill'[d].target = kill[d].target
  BY DEF Holding
<1>2. \A d \in CPUs : Holding(d)' => d # c
  OBVIOUS
<1> QED BY <1>1, <1>2 DEF HandInv

(* Nothing moves.                                                          *)
LEMMA ApartSame ==
  ASSUME UNCHANGED <<mlq_ready_queue, proc, i, freed>>
  PROVE  /\ HomeInv => HomeInv'
         /\ \A p : Apart(p) => Apart(p)'
<1>1. HomeInv => HomeInv'
  BY DEF HomeInv, Places, Added
<1>2. \A p : Apart(p) => Apart(p)'
  BY DEF Apart, Places, Added
<1> QED BY <1>1, <1>2

(* cpu_routine outside run.                                                *)
LEMMA SchedHome ==
  ASSUME KillTypes, HomeInv, HandInv, NEW c \in CPUs, SchedStep(c),
         UNCHANGED killVars
  PROVE  HomeInv' /\ HandInv'
<1> USE DEF KillTypes
<1>1. /\ ~Holding(c)'
      /\ \A d \in CPUs : d # c => cpc'[d] = cpc[d] /\ kill'[d] = kill[d]
  BY DEF SchedStep, FetchIdle, Finish, PutRunningList, PutReady, Fetch, Stop,
         SkipSlot, RunType, Holding, killVars
<1>2. \A p : Apart(p) => p \in Procs /\ p # NULL
  BY KernelAssumption DEF Apart, Added, SchedType, Procs
<1>3. HomeInv' /\ \A p : Apart(p) => Apart(p)'
  <2>1. CASE FetchIdle(c) \/ Fetch(c)
    <3>1. proc[c] = NULL /\ get_mlq_proc(c) /\ UNCHANGED <<i, freed>>
      BY <2>1 DEF FetchIdle, Fetch, LabelInv, loaderVars, procVars
    <3>2. /\ HomeInv'
          /\ \A d \in CPUs \ {c} : proc'[d] = proc[d]
          /\ proc'[c] # NULL =>
               \E k \in Prios : \E m \in Places(k) :
                 proc'[c] = mlq_ready_queue[k][m]
          /\ \A k \in Prios : \A n \in Places(k)' : \E m \in Places(k) :
               mlq_ready_queue'[k][n] = mlq_ready_queue[k][m]
      BY <3>1, GetProc
    <3>3. ASSUME NEW p, Apart(p) PROVE Apart(p)'
      <4>1. p \in Added' \ freed' /\ p # NULL
        BY <1>2, <3>1, <3>3 DEF Apart, Added
      <4>2. \A k \in Prios : \A n \in Places(k)' : mlq_ready_queue'[k][n] # p
        BY <3>2, <3>3 DEF Apart
      <4>3. \A d \in CPUs : proc'[d] # p
        BY <3>2, <3>3, <4>1 DEF Apart
      <4> QED BY <4>1, <4>2, <4>3 DEF Apart
    <3> QED BY <3>2, <3>3
  <2>2. CASE Finish(c)
    <3>1. /\ freed' = freed \cup {proc[c]}
          /\ proc' = [proc EXCEPT ![c] = NULL]
          /\ UNCHANGED <<mlq_ready_queue, i>>
      BY <2>2 DEF Finish, schedVars, loaderVars
    <3>2. \A p : Apart(p) => Apart(p)'
      BY <1>2, <3>1 DEF Apart, Places, Added, SchedType
    <3> QED BY <2>2, <3>2, FinishHome
  <2>3. CASE PutReady(c)
    <3>1. /\ proc[c] # NULL /\ proc[c] \in Procs
          /\ put_mlq_proc(proc[c])
          /\ proc' = [proc EXCEPT ![c] = NULL]
          /\ UNCHANGED <<i, freed>>
      BY <2>3 DEF PutReady, LabelInv, SchedType, loaderVars, procVars
    <3>2. \A k \in Prios : \A n \in Places(k)' :
            \/ n \in Places(k) /\ mlq_ready_queue'[k][n] = mlq_ready_queue[k][n]
            \/ mlq_ready_queue'[k][n] = proc[c]
      BY <3>1, PutProc
    <3>3. ASSUME NEW p, Apart(p) PROVE Apart(p)'
      <4>1. p \in Added' \ freed' /\ p # NULL /\ p # proc[c]
        BY <1>2, <3>1, <3>3 DEF Apart, Added
      <4>2. \A k \in Prios : \A n \in Places(k)' : mlq_ready_queue'[k][n] # p
        BY <3>2, <3>3, <4>1 DEF Apart
      <4>3. \A d \in CPUs : proc'[d] # p
        BY <3>1, <3>3, <4>1 DEF Apart, SchedType
      <4> QED BY <4>1, <4>2, <4>3 DEF Apart
    <3> QED BY <2>3, <3>1, <3>3, PutReadyHome
  <2>4. CASE PutRunningList(c) \/ Stop(c) \/ SkipSlot(c)
    <3>1. UNCHANGED <<mlq_ready_queue, proc, i, freed>>
      BY <2>4 DEF PutRunningList, Stop, SkipSlot, schedVars, loaderVars, procVars
    <3> QED BY <3>1, ApartSame
  <2> QED BY <2>1, <2>2, <2>3, <2>4 DEF SchedStep
<1>4. HandInv'
  BY <1>1, <1>3, HandOthers DEF HandInv
<1> QED BY <1>3, <1>4

(* run, the way to the second loop and the return move nobody.             *)
LEMMA LookHome ==
  ASSUME KillTypes, HomeInv, HandInv, NEW c \in CPUs,
         RunStep(c) \/ KillReadyQueue(c) \/ KillReturn(c)
  PROVE  HomeInv' /\ HandInv'
<1>1. UNCHANGED <<mlq_ready_queue, proc, i, freed>>
  BY DEF RunStep, RunNothing, RunTest, RunOther, RunKillAll, KillReadyQueue,
         KillReturn, vars, schedVars, loaderVars, cpuVars, procVars
<1>2. /\ ~Holding(c)'
      /\ \A d \in CPUs : d # c => cpc'[d] = cpc[d] /\ kill'[d] = kill[d]
  <2>1. CASE RunNothing(c) \/ RunTest(c) \/ RunOther(c)
    BY <2>1 DEF RunNothing, RunTest, RunOther, KillTypes, RunType, Holding,
                killVars
  <2>2. CASE RunKillAll(c) \/ KillReadyQueue(c) \/ KillReturn(c)
    BY <2>2 DEF RunKillAll, KillReadyQueue, KillReturn, KillTypes, RunType,
                Holding, vars, cpuVars
  <2> QED BY <2>1, <2>2 DEF RunStep
<1>3. HomeInv' /\ \A p : Apart(p) => Apart(p)'
  BY <1>1, ApartSame
<1> QED BY <1>2, <1>3, HandOthers DEF HandInv

(* The loader adds behind what is there, and somebody new.                 *)
LEMMA LoaderHome ==
  ASSUME KillTypes, HomeInv, HandInv, LoaderStep, UNCHANGED killVars
  PROVE  HomeInv' /\ HandInv'
<1> USE DEF KillTypes
<1>1. UNCHANGED <<cpc, kill>>
  BY DEF LoaderStep, LdWait, LdRunningList, LdReady, LdExit, cpuVars, killVars
<1>2. HomeInv' /\ \A p : Apart(p) => Apart(p)'
  <2>1. CASE LdReady
    <3>1. i <= NumProcs
      BY <2>1 DEF LdReady, LabelInv
    <3>2. put_mlq_proc(i) /\ i' = i + 1 /\ UNCHANGED <<proc, freed>>
      BY <2>1 DEF LdReady, cpuVars, procVars
    <3>3. i \in Procs /\ i \notin Added /\ Added' = Added \cup {i}
      BY <3>1, <3>2, KernelAssumption DEF SchedType, Procs, Added
    <3>4. \A k \in Prios : \A n \in Places(k)' :
            \/ n \in Places(k) /\ mlq_ready_queue'[k][n] = mlq_ready_queue[k][n]
            \/ mlq_ready_queue'[k][n] = i
      BY <3>2, <3>3, PutProc
    <3>5. \A p : Apart(p) => Apart(p)'
      BY <3>2, <3>3, <3>4 DEF Apart
    <3> QED BY <2>1, <3>1, <3>5, LdReadyHome
  <2>2. CASE LdWait \/ LdRunningList \/ LdExit
    <3>1. UNCHANGED <<mlq_ready_queue, proc, i, freed>>
      BY <2>2 DEF LdWait, LdRunningList, LdExit, schedVars, loaderVars, cpuVars,
                  procVars
    <3> QED BY <3>1, ApartSame
  <2> QED BY <2>1, <2>2 DEF LoaderStep
<1>3. \A c \in CPUs : Holding(c)' <=> Holding(c)
  BY <1>1 DEF Holding
<1> QED BY <1>1, <1>2, <1>3 DEF HandInv

(* Whoever is at the place that is taken out is then in no queue; the      *)
(* others stay in theirs.                                                  *)
LEMMA TakeOut ==
  ASSUME SchedType, HomeInv, NEW k \in Places(0),
         mlq_ready_queue' =
           [mlq_ready_queue EXCEPT ![0] = ShiftDown(mlq_ready_queue[0], k)],
         UNCHANGED <<i, proc, freed>>
  PROVE  /\ HomeInv'
         /\ \A l \in Prios : \A n \in Places(l)' :
              mlq_ready_queue'[l][n] # mlq_ready_queue[0][k]
         /\ \A l \in Prios : \A n \in Places(l)' : \E m \in Places(l) :
              mlq_ready_queue'[l][n] = mlq_ready_queue[l][m]
         /\ \A l \in Prios : \A m \in Places(l) :
              \/ mlq_ready_queue[l][m] = mlq_ready_queue[0][k]
              \/ \E n \in Places(l)' :
                   mlq_ready_queue'[l][n] = mlq_ready_queue[l][m]
<1> DEFINE q == mlq_ready_queue[0]
           r == ShiftDown(q, k)
           src(n) == IF n < k THEN n ELSE n + 1
<1>1. /\ mlq_ready_queue \in [Prios -> Seq(Procs)]
      /\ 0 \in Prios
      /\ q \in Seq(Procs) /\ Len(q) # 0 /\ Len(q) \in Nat
      /\ k \in 1..Len(q)
  BY KernelAssumption DEF SchedType, Prios, Places
<1>2. /\ r \in Seq(Procs)
      /\ Len(r) = Len(q) - 1
      /\ \A n \in 1..Len(r) : r[n] = IF n < k THEN q[n] ELSE q[n + 1]
  <2> HIDE DEF q
  <2> QED BY <1>1, ShiftProperties
<1>3. /\ mlq_ready_queue'[0] = r
      /\ \A l \in Prios : l # 0 => mlq_ready_queue'[l] = mlq_ready_queue[l]
  BY <1>1
<1> HIDE DEF r
<1>4. \A n \in 1..Len(r) :
        src(n) \in 1..Len(q) /\ src(n) # k /\ r[n] = q[src(n)]
  BY <1>1, <1>2
<1>5. \A m, n \in 1..Len(r) : src(m) = src(n) => m = n
  BY <1>1, <1>2
<1> HIDE DEF src
<1>6. ASSUME NEW l \in Prios, NEW n \in Places(l)'
      PROVE  \E m \in Places(l) :
               /\ mlq_ready_queue'[l][n] = mlq_ready_queue[l][m]
               /\ l = 0 => m = src(n) /\ m # k
               /\ l # 0 => m = n
  <2>1. CASE l = 0
    BY <1>3, <1>4, <2>1 DEF Places
  <2>2. CASE l # 0
    BY <1>3, <2>2 DEF Places
  <2> QED BY <2>1, <2>2
<1>7. ASSUME NEW l \in Prios, NEW n \in Places(l)'
      PROVE  mlq_ready_queue'[l][n] # mlq_ready_queue[0][k]
  <2>1. PICK m \in Places(l) :
          /\ mlq_ready_queue'[l][n] = mlq_ready_queue[l][m]
          /\ l = 0 => m # k
    BY <1>6
  <2> QED BY <1>1, <2>1 DEF HomeInv
<1>8. ASSUME NEW l1 \in Prios, NEW l2 \in Prios,
             NEW m \in Places(l1)', NEW n \in Places(l2)',
             mlq_ready_queue'[l1][m] = mlq_ready_queue'[l2][n]
      PROVE  l1 = l2 /\ m = n
  <2>1. PICK a \in Places(l1) :
          /\ mlq_ready_queue'[l1][m] = mlq_ready_queue[l1][a]
          /\ l1 = 0 => a = src(m)
          /\ l1 # 0 => a = m
    BY <1>6
  <2>2. PICK b \in Places(l2) :
          /\ mlq_ready_queue'[l2][n] = mlq_ready_queue[l2][b]
          /\ l2 = 0 => b = src(n)
          /\ l2 # 0 => b = n
    BY <1>6
  <2>3. l1 = l2 /\ a = b
    BY <1>8, <2>1, <2>2 DEF HomeInv
  <2>4. CASE l1 = 0
    <3>1. m \in 1..Len(r) /\ n \in 1..Len(r)
      BY <1>3, <2>3, <2>4 DEF Places
    <3> QED BY <1>5, <2>1, <2>2, <2>3, <2>4, <3>1
  <2> QED BY <2>1, <2>2, <2>3, <2>4
<1>9. ASSUME NEW l \in Prios, NEW n \in Places(l)'
      PROVE  /\ mlq_ready_queue'[l][n] \in Added \ freed
             /\ \A c \in CPUs : proc[c] # mlq_ready_queue'[l][n]
  BY <1>6 DEF HomeInv
<1>10. HomeInv'
  BY <1>8, <1>9 DEF HomeInv, Added
<1>11. ASSUME NEW l \in Prios, NEW m \in Places(l),
              mlq_ready_queue[l][m] # mlq_ready_queue[0][k]
       PROVE  \E n \in Places(l)' :
                mlq_ready_queue'[l][n] = mlq_ready_queue[l][m]
  <2>1. CASE l # 0
    BY <1>3, <2>1 DEF Places
  <2>2. CASE l = 0 /\ m < k
    <3>1. m \in 1..Len(r) /\ r[m] = q[m]
      BY <1>1, <1>2, <2>2 DEF Places
    <3> QED BY <1>3, <2>2, <3>1 DEF Places
  <2>3. CASE l = 0 /\ m > k
    <3>1. m - 1 \in 1..Len(r) /\ ~ (m - 1 < k) /\ (m - 1) + 1 = m
      BY <1>1, <1>2, <2>3 DEF Places
    <3>2. r[m - 1] = q[m]
      BY <1>2, <3>1
    <3> QED BY <1>3, <2>3, <3>1, <3>2 DEF Places
  <2>4. m \in Nat /\ (l = 0 => m # k)
    BY <1>1, <1>11 DEF Places
  <2> QED BY <1>1, <2>1, <2>2, <2>3, <2>4
<1> QED BY <1>6, <1>7, <1>10, <1>11

(* A process that is nowhere goes to the end of queue 0.                   *)
LEMMA PutBack ==
  ASSUME SchedType, HomeInv, NEW p \in Added \ freed,
         \A k \in Prios : \A n \in Places(k) : mlq_ready_queue[k][n] # p,
         \A c \in CPUs : proc[c] # p,
         mlq_ready_queue' = [mlq_ready_queue EXCEPT ![0] = enqueue(@, p)],
         UNCHANGED <<i, proc, freed>>
  PROVE  HomeInv'
<1>1. p \in Procs /\ 0 \in Prios
  BY KernelAssumption DEF Added, SchedType, Procs, Prios
<1>2. \A k \in Prios : \A n \in Places(k)' :
        \/ n \in Places(k) /\ mlq_ready_queue'[k][n] = mlq_ready_queue[k][n]
        \/ /\ mlq_ready_queue'[k][n] = p
           /\ k = 0
           /\ n = Len(mlq_ready_queue[k]) + 1
  BY <1>1, PutQueue
<1>3. ASSUME NEW k \in Prios, NEW n \in Places(k)'
      PROVE  /\ mlq_ready_queue'[k][n] \in Added \ freed
             /\ \A c \in CPUs : proc[c] # mlq_ready_queue'[k][n]
  BY <1>2 DEF HomeInv
<1>4. ASSUME NEW k \in Prios, NEW l \in Prios,
             NEW m \in Places(k)', NEW n \in Places(l)',
             mlq_ready_queue'[k][m] = mlq_ready_queue'[l][n]
      PROVE  k = l /\ m = n
  BY <1>2, <1>4 DEF HomeInv
<1> QED BY <1>3, <1>4 DEF HomeInv, Added

(* The dequeue: the process is in hand.                                    *)
LEMMA DequeueHome ==
  ASSUME KillTypes, HomeInv, HandInv, NEW c \in CPUs, KillDequeue(c)
  PROVE  HomeInv' /\ HandInv'
<1> USE DEF KillTypes
<1> DEFINE k == kill'[c].index
<1>0. PICK t : t = kill'[c].target
  OBVIOUS
<1>1. /\ Inside(c)
      /\ kill'[c].list = kill[c].list
      /\ \/ /\ cpc' = [cpc EXCEPT ![c] = "find"]
            /\ UNCHANGED mlq_ready_queue
         \/ /\ ~empty(Swept(c))
            /\ k \in 1..Len(Swept(c))
            /\ t = Swept(c)[k]
            /\ cpc' = [cpc EXCEPT ![c] = "decide"]
            /\ SetSwept(c, ShiftDown(Swept(c), k))
      /\ \A d \in CPUs : d # c => kill'[d] = kill[d] /\ cpc'[d] = cpc[d]
      /\ UNCHANGED <<proc, i, freed>>
  BY <1>0, DequeueTurn DEF loaderVars
<1>2. cpc \in [CPUs -> KillPCs] /\ kill[c].list \in {"running", "ready"}
  <2>1. kill[c] \in KillLocals /\ kill[c].list # "none"
    BY <1>1 DEF RunType, CallInv
  <2> QED BY <2>1 DEF RunType, KillLocals, Lists
<1> HIDE DEF k
<1>3. CASE ~Holding(c)' /\ UNCHANGED mlq_ready_queue
  <2>1. HomeInv' /\ \A p : Apart(p) => Apart(p)'
    BY <1>1, <1>3, ApartSame
  <2> QED BY <1>1, <1>3, <2>1, HandOthers DEF HandInv
<1>4. CASE cpc' = [cpc EXCEPT ![c] = "find"] /\ UNCHANGED mlq_ready_queue
  BY <1>2, <1>3, <1>4 DEF Holding
<1>5. CASE /\ SetSwept(c, ShiftDown(Swept(c), k))
           /\ kill[c].list = "running"
  BY <1>1, <1>3, <1>5 DEF SetSwept, Holding
<1>6. CASE /\ kill[c].list = "ready"
           /\ k \in 1..Len(Swept(c))
           /\ t = Swept(c)[k]
           /\ SetSwept(c, ShiftDown(Swept(c), k))
  <2>1. /\ k \in Places(0)
        /\ mlq_ready_queue[0][k] = t
        /\ mlq_ready_queue' =
             [mlq_ready_queue EXCEPT ![0] = ShiftDown(mlq_ready_queue[0], k)]
        /\ 0 \in Prios
    BY <1>6, KernelAssumption DEF SetSwept, Swept, Places, Prios
  <2>2. UNCHANGED <<i, proc, freed>>
    BY <1>1
  <2>3. HomeInv'
    BY <2>1, <2>2, TakeOut
  <2>4. \A l \in Prios : \A n \in Places(l)' : mlq_ready_queue'[l][n] # t
    <3>1. \A l \in Prios : \A n \in Places(l)' :
            mlq_ready_queue'[l][n] # mlq_ready_queue[0][k]
      BY <2>1, <2>2, TakeOut
    <3> QED BY <2>1, <3>1
  <2>5. \A l \in Prios : \A n \in Places(l)' : \E m \in Places(l) :
          mlq_ready_queue'[l][n] = mlq_ready_queue[l][m]
    BY <2>1, <2>2, TakeOut
  <2>6. Apart(t)'
    <3>1. t \in Added \ freed /\ \A d \in CPUs : proc[d] # t
      BY <2>1 DEF HomeInv
    <3> QED BY <2>2, <2>4, <3>1 DEF Apart, Added
  <2>7. \A p : Apart(p) => Apart(p)' /\ p # t
    BY <2>1, <2>2, <2>5 DEF Apart, Added
  <2>8. \A d \in CPUs : d # c /\ Holding(d)' =>
          /\ Holding(d)
          /\ kill'[d].target = kill[d].target
          /\ Apart(kill[d].target)'
          /\ kill[d].target # t
    <3> SUFFICES ASSUME NEW d \in CPUs, d # c, Holding(d)'
                 PROVE  /\ Holding(d)
                        /\ kill'[d].target = kill[d].target
                        /\ Apart(kill[d].target)' /\ kill[d].target # t
      BY <1>1
    <3>1. Holding(d) /\ kill'[d] = kill[d]
      BY <1>1 DEF Holding
    <3>2. Apart(kill[d].target)
      BY <3>1 DEF HandInv
    <3> QED BY <2>7, <3>1, <3>2
  <2>9. HandInv'
    BY <1>0, <2>6, <2>8 DEF HandInv
  <2> QED BY <2>3, <2>9
<1> QED BY <1>1, <1>2, <1>4, <1>5, <1>6

(* The decision: the process goes back to the queue or is freed.           *)
LEMMA DecideHome ==
  ASSUME KillTypes, HomeInv, HandInv, NEW c \in CPUs,
         KillKeep(c) \/ KillEnd(c) \/ KillFree(c)
  PROVE  HomeInv' /\ HandInv'
<1> USE DEF KillTypes
<1> DEFINE t == kill[c].target
<1>1. /\ cpc[c] = "decide" /\ cpc[c] \in Taken /\ TurnDone(c)
      /\ UNCHANGED <<proc, i>>
  BY DEF KillKeep, KillEnd, KillFree, TurnDone, Taken, loaderVars
<1>2. /\ cpc'[c] = "find" /\ t \in Procs
      /\ kill[c].list \in {"running", "ready"}
      /\ \A d \in CPUs : d # c => cpc'[d] = cpc[d] /\ kill'[d] = kill[d]
  BY <1>1, TurnDoneTypes
<1>3. ~Holding(c)'
  BY <1>2 DEF Holding
<1>4. kill[c].list = "ready" =>
        /\ Apart(t)
        /\ \A d \in CPUs : d # c /\ Holding(d) => kill[d].target # t
  BY <1>1 DEF HandInv, Holding
<1> HIDE DEF t
<1>5. CASE UNCHANGED <<mlq_ready_queue, freed>>
  <2>1. HomeInv' /\ \A p : Apart(p) => Apart(p)'
    BY <1>1, <1>5, ApartSame
  <2> QED BY <1>2, <1>3, <2>1, HandOthers DEF HandInv
<1>6. CASE KillKeep(c)
  <2>1. SetSwept(c, enqueue(Swept(c), t)) /\ UNCHANGED freed
    BY <1>6 DEF KillKeep, procVars, t
  <2>2. CASE kill[c].list = "running"
    BY <1>5, <2>1, <2>2 DEF SetSwept
  <2>3. CASE kill[c].list = "ready"
    <3>1. mlq_ready_queue' = [mlq_ready_queue EXCEPT ![0] = enqueue(@, t)]
          /\ 0 \in Prios
      BY <2>1, <2>3, KernelAssumption DEF SetSwept, Swept, Prios
    <3>2. UNCHANGED <<i, proc, freed>> /\ Apart(t)
      BY <1>1, <1>4, <2>1, <2>3
    <3>3. HomeInv'
      BY <3>1, <3>2, PutBack DEF Apart
    <3>4. \A k \in Prios : \A n \in Places(k)' :
            \/ n \in Places(k) /\ mlq_ready_queue'[k][n] = mlq_ready_queue[k][n]
            \/ /\ mlq_ready_queue'[k][n] = t
               /\ k = 0
               /\ n = Len(mlq_ready_queue[k]) + 1
      BY <1>2, <3>1, PutQueue
    <3>5. \A p : Apart(p) /\ p # t => Apart(p)'
      BY <3>2, <3>4 DEF Apart, Added
    <3> QED BY <1>2, <1>3, <1>4, <2>3, <3>3, <3>5, HandOthers DEF HandInv
  <2> QED BY <1>2, <2>2, <2>3
<1>7. CASE KillEnd(c)
  BY <1>5, <1>7 DEF KillEnd, schedVars
<1>8. CASE KillFree(c)
  <2>1. /\ kill[c].list = "ready"
        /\ freed' = freed \cup {t}
        /\ UNCHANGED <<mlq_ready_queue, i, proc>>
    BY <1>1, <1>8 DEF KillFree, schedVars, t
  <2>2. Added' = Added /\ \A k \in Prios : Places(k)' = Places(k)
    BY <2>1 DEF Added, Places
  <2>3. /\ freed' \subseteq Added
        /\ \A d \in CPUs : proc[d] # NULL => proc[d] \in Added \ freed'
    BY <1>4, <2>1 DEF HomeInv, Apart
  <2>4. \A k \in Prios : \A n \in Places(k) :
          mlq_ready_queue[k][n] \in Added \ freed'
    BY <1>4, <2>1 DEF HomeInv, Apart
  <2>5. HomeInv'
    BY <2>1, <2>2, <2>3, <2>4 DEF HomeInv
  <2>6. \A p : Apart(p) /\ p # t => Apart(p)'
    BY <2>1, <2>2 DEF Apart
  <2> QED BY <1>2, <1>3, <1>4, <2>1, <2>5, <2>6, HandOthers DEF HandInv
<1> QED BY <1>6, <1>7, <1>8

(* Every step keeps the places of the processes apart.                     *)
LEMMA KillHomeNext ==
  ASSUME KillTypes, HomeInv, HandInv, CalmNext
  PROVE  HomeInv' /\ HandInv'
<1>1. ASSUME NEW c \in CPUs, RunStep(c) \/ KillStep(c)
      PROVE  HomeInv' /\ HandInv'
  BY <1>1, LookHome, DequeueHome, DecideHome DEF KillStep
<1>2. ASSUME NEW c \in CPUs, SchedStep(c), UNCHANGED killVars
      PROVE  HomeInv' /\ HandInv'
  BY <1>2, SchedHome
<1>3. CASE LoaderStep /\ UNCHANGED killVars
  BY <1>3, LoaderHome
<1>4. CASE UNCHANGED <<mlq_ready_queue, proc, i, freed, cpc, kill>>
  <2>1. HomeInv' /\ \A p : Apart(p) => Apart(p)'
    BY <1>4, ApartSame
  <2>2. \A c \in CPUs : Holding(c)' <=> Holding(c)
    BY <1>4 DEF Holding
  <2> QED BY <1>4, <2>1, <2>2 DEF HandInv
<1>5. CASE (NextSlot \/ LastSlot) /\ UNCHANGED killVars
  BY <1>4, <1>5 DEF NextSlot, LastSlot, schedVars, loaderVars, cpuVars,
                    procVars, killVars
<1>6. CASE UNCHANGED allVars
  BY <1>4, <1>6 DEF allVars, vars, schedVars, loaderVars, cpuVars, procVars,
                    killVars
<1> QED BY <1>1, <1>2, <1>3, <1>5, <1>6 DEF CalmNext
------------------------------------------------------------------------------
(* Nobody is lost, with room in the queues, for any number of CPUs.        *)

(* A process that was added and not freed is in a queue, on a CPU or in    *)
(* the hands of killall.                                                   *)
FoundKillInv == \A p \in Added \ freed : Held(p) \/ InHand(p)

(* What the other CPUs have in hand stays there.                           *)
LEMMA HandStays ==
  ASSUME NEW c \in CPUs,
         \A d \in CPUs : d # c => cpc'[d] = cpc[d] /\ kill'[d] = kill[d],
         NEW p, InHand(p)
  PROVE  InHand(p)' \/ (Holding(c) /\ kill[c].target = p)
BY DEF InHand, Holding

(* cpu_routine outside run.                                                *)
LEMMA SchedFound ==
  ASSUME NumProcs <= MAX_QUEUE_SIZE, KillTypes, HomeInv, FoundKillInv,
         NEW c \in CPUs, SchedStep(c), UNCHANGED killVars
  PROVE  FoundKillInv'
<1> USE DEF KillTypes
<1>1. /\ ~Holding(c)
      /\ \A d \in CPUs : d # c => cpc'[d] = cpc[d] /\ kill'[d] = kill[d]
  BY DEF SchedStep, FetchIdle, Finish, PutRunningList, PutReady, Fetch, Stop,
         SkipSlot, RunType, Holding, killVars
<1>2. \A p : InHand(p) => InHand(p)'
  BY <1>1, HandStays
<1>3. CASE FetchIdle(c) \/ Fetch(c)
  <2>1. proc[c] = NULL /\ get_mlq_proc(c) /\ UNCHANGED <<i, freed>>
    BY <1>3 DEF FetchIdle, Fetch, LabelInv, loaderVars, procVars
  <2>2. \A p \in Added : Held(p) => Held(p)'
    BY <2>1, GetHeld
  <2> QED BY <1>2, <2>1, <2>2 DEF FoundKillInv, Added
<1>4. CASE Finish(c)
  <2>1. /\ freed' = freed \cup {proc[c]}
        /\ \A d \in CPUs \ {c} : proc'[d] = proc[d]
        /\ UNCHANGED <<mlq_ready_queue, i>>
    BY <1>4 DEF Finish, SchedType, schedVars, loaderVars
  <2>2. \A p : Held(p) => Held(p)' \/ p = proc[c]
    BY <2>1 DEF Held, Waits, Places
  <2> QED BY <1>2, <2>1, <2>2 DEF FoundKillInv, Added
<1>5. CASE PutReady(c)
  <2>1. proc[c] # NULL /\ UNCHANGED <<i, freed>>
    BY <1>5 DEF PutReady, LabelInv, loaderVars, procVars
  <2>2. \A p : Held(p) => Held(p)'
    BY <1>5, <2>1, PutHeld
  <2> QED BY <1>2, <2>1, <2>2 DEF FoundKillInv, Added
<1>6. CASE PutRunningList(c) \/ Stop(c) \/ SkipSlot(c)
  <2>1. UNCHANGED <<mlq_ready_queue, proc, i, freed>>
    BY <1>6 DEF PutRunningList, Stop, SkipSlot, schedVars, loaderVars, procVars
  <2> QED BY <1>2, <2>1 DEF FoundKillInv, Held, Waits, Places, Added
<1> QED BY <1>3, <1>4, <1>5, <1>6 DEF SchedStep

(* The loader.                                                             *)
LEMMA LoaderFound ==
  ASSUME NumProcs <= MAX_QUEUE_SIZE, KillTypes, HomeInv, FoundKillInv,
         LoaderStep, UNCHANGED killVars
  PROVE  FoundKillInv'
<1> USE DEF KillTypes
<1>1. UNCHANGED <<cpc, kill>>
  BY DEF LoaderStep, LdWait, LdRunningList, LdReady, LdExit, cpuVars, killVars
<1>2. \A p : InHand(p) => InHand(p)'
  BY <1>1 DEF InHand
<1>3. CASE LdReady
  <2>1. i <= NumProcs
    BY <1>3 DEF LdReady, LabelInv
  <2>2. /\ Added' = Added \cup {i}
        /\ freed' = freed
        /\ \A p : Held(p) \/ p = i => Held(p)'
    BY <1>3, <2>1, LoadHeld
  <2> QED BY <1>2, <2>2 DEF FoundKillInv
<1>4. CASE LdWait \/ LdRunningList \/ LdExit
  <2>1. UNCHANGED <<mlq_ready_queue, proc, i, freed>>
    BY <1>4 DEF LdWait, LdRunningList, LdExit, schedVars, loaderVars, cpuVars,
                procVars
  <2> QED BY <1>2, <2>1 DEF FoundKillInv, Held, Waits, Places, Added
<1> QED BY <1>3, <1>4 DEF LoaderStep

(* dequeue: into the hand.                                                 *)
LEMMA DequeueFound ==
  ASSUME KillTypes, HomeInv, FoundKillInv, NEW c \in CPUs, KillDequeue(c)
  PROVE  FoundKillInv'
<1> USE DEF KillTypes
<1> DEFINE k == kill'[c].index
<1>0. PICK t : t = kill'[c].target
  OBVIOUS
<1>1. /\ cpc[c] = "find" /\ Inside(c)
      /\ kill'[c].list = kill[c].list
      /\ \/ UNCHANGED mlq_ready_queue
         \/ /\ k \in 1..Len(Swept(c))
            /\ t = Swept(c)[k]
            /\ cpc' = [cpc EXCEPT ![c] = "decide"]
            /\ SetSwept(c, ShiftDown(Swept(c), k))
      /\ \A d \in CPUs : d # c => cpc'[d] = cpc[d] /\ kill'[d] = kill[d]
      /\ UNCHANGED <<proc, i, freed>>
  BY <1>0, DequeueTurn DEF loaderVars
<1>2. \A p : InHand(p) => InHand(p)'
  BY <1>1, HandStays DEF Holding
<1> HIDE DEF k
<1>3. CASE UNCHANGED mlq_ready_queue
  BY <1>1, <1>2, <1>3 DEF FoundKillInv, Held, Waits, Places, Added
<1>4. CASE SetSwept(c, ShiftDown(Swept(c), k)) /\ kill[c].list = "running"
  BY <1>3, <1>4 DEF SetSwept
<1>5. CASE /\ kill[c].list = "ready"
           /\ k \in 1..Len(Swept(c))
           /\ t = Swept(c)[k]
           /\ cpc' = [cpc EXCEPT ![c] = "decide"]
           /\ SetSwept(c, ShiftDown(Swept(c), k))
  <2>1. /\ k \in Places(0)
        /\ mlq_ready_queue[0][k] = t
        /\ mlq_ready_queue' =
             [mlq_ready_queue EXCEPT ![0] = ShiftDown(mlq_ready_queue[0], k)]
    BY <1>5 DEF SetSwept, Swept, Places
  <2>2. UNCHANGED <<i, proc, freed>>
    BY <1>1
  <2>3. \A l \in Prios : \A m \in Places(l) :
          \/ mlq_ready_queue[l][m] = mlq_ready_queue[0][k]
          \/ \E n \in Places(l)' : mlq_ready_queue'[l][n] = mlq_ready_queue[l][m]
    BY <2>1, <2>2, TakeOut
  <2>4. InHand(t)'
    <3>1. cpc'[c] = "decide"
      BY <1>5 DEF RunType
    <3> QED BY <1>0, <1>1, <1>5, <3>1 DEF InHand
  <2>5. \A p : Held(p) => Held(p)' \/ p = t
    BY <2>1, <2>2, <2>3 DEF Held, Waits
  <2> QED BY <1>2, <2>2, <2>4, <2>5 DEF FoundKillInv, Added
<1>6. kill[c].list \in {"running", "ready"}
  <2>1. kill[c] \in KillLocals /\ kill[c].list # "none"
    BY <1>1 DEF RunType, CallInv
  <2> QED BY <2>1 DEF KillLocals, Lists
<1> QED BY <1>1, <1>3, <1>4, <1>5, <1>6

(* The decision: back to the queue, or freed.                              *)
LEMMA DecideFound ==
  ASSUME NumProcs <= MAX_QUEUE_SIZE, KillTypes, HomeInv, HandInv, FoundKillInv,
         NEW c \in CPUs, KillKeep(c) \/ KillEnd(c) \/ KillFree(c)
  PROVE  FoundKillInv'
<1> USE DEF KillTypes
<1> DEFINE t == kill[c].target
<1>1. /\ cpc[c] = "decide" /\ cpc[c] \in Taken /\ TurnDone(c)
      /\ UNCHANGED <<proc, i>>
  BY DEF KillKeep, KillEnd, KillFree, TurnDone, Taken, loaderVars
<1>2. /\ t \in Procs
      /\ kill[c].list \in {"running", "ready"}
      /\ \A d \in CPUs : d # c => cpc'[d] = cpc[d] /\ kill'[d] = kill[d]
  BY <1>1, TurnDoneTypes
<1>3. \A p : InHand(p) => InHand(p)' \/ (kill[c].list = "ready" /\ p = t)
  BY <1>2, HandStays DEF Holding
<1>4. kill[c].list = "ready" => Apart(t)
  BY <1>1 DEF HandInv, Holding
<1> HIDE DEF t
<1>5. CASE UNCHANGED <<mlq_ready_queue, freed>> /\ kill[c].list = "running"
  BY <1>1, <1>3, <1>5 DEF FoundKillInv, Held, Waits, Places, Added
<1>6. CASE KillKeep(c) /\ kill[c].list = "ready"
  <2>1. /\ mlq_ready_queue' = [mlq_ready_queue EXCEPT ![0] = enqueue(@, t)]
        /\ freed' = freed /\ 0 \in Prios
    BY <1>6, KernelAssumption DEF KillKeep, SetSwept, Swept, procVars, Prios, t
  <2>2. ~ Waits(t)
    BY <1>4, <1>6 DEF Apart, Waits
  <2>3. Len(mlq_ready_queue[0]) < MAX_QUEUE_SIZE
    BY <1>2, <2>1, <2>2, RoomForOneMore
  <2>4. \E k \in Prios : \E n \in Places(k)' : mlq_ready_queue'[k][n] = t
    BY <1>2, <2>1, <2>3, PutQueue
  <2>5. \A k \in Prios : \A n \in Places(k) :
          n \in Places(k)' /\ mlq_ready_queue'[k][n] = mlq_ready_queue[k][n]
    BY <1>2, <2>1, PutQueue
  <2>6. \A p : Held(p) => Held(p)'
    BY <1>1, <2>5 DEF Held, Waits
  <2>7. \A p : p = t => Held(p)'
    BY <2>4 DEF Held, Waits
  <2> QED BY <1>1, <1>3, <2>1, <2>6, <2>7 DEF FoundKillInv, Added
<1>7. CASE KillFree(c)
  <2>1. freed' = freed \cup {t} /\ UNCHANGED mlq_ready_queue
    BY <1>7 DEF KillFree, schedVars, t
  <2>2. \A p : Held(p) => Held(p)'
    BY <1>1, <2>1 DEF Held, Waits, Places
  <2> QED BY <1>1, <1>3, <2>1, <2>2 DEF FoundKillInv, Added
<1>8. CASE KillKeep(c) /\ kill[c].list = "running"
  BY <1>5, <1>8 DEF KillKeep, SetSwept, procVars
<1>9. CASE KillEnd(c)
  BY <1>5, <1>9 DEF KillEnd, schedVars
<1> QED BY <1>2, <1>6, <1>7, <1>8, <1>9

(* No step loses a process.                                                *)
LEMMA KillFoundNext ==
  ASSUME NumProcs <= MAX_QUEUE_SIZE, KillTypes, HomeInv, HandInv,
         FoundKillInv, CalmNext
  PROVE  FoundKillInv'
<1>1. ASSUME NEW c \in CPUs, RunStep(c) \/ KillReadyQueue(c) \/ KillReturn(c)
      PROVE  FoundKillInv'
  <2>1. UNCHANGED <<mlq_ready_queue, proc, i, freed>>
    BY <1>1 DEF RunStep, RunNothing, RunTest, RunOther, RunKillAll,
                KillReadyQueue, KillReturn, vars, schedVars, loaderVars,
                cpuVars, procVars
  <2>2. /\ ~Holding(c)
        /\ \A d \in CPUs : d # c => cpc'[d] = cpc[d] /\ kill'[d] = kill[d]
    <3>1. CASE RunNothing(c) \/ RunTest(c) \/ RunOther(c)
      BY <3>1 DEF RunNothing, RunTest, RunOther, Dispatched, Increment,
                  KillTypes, RunType, Holding, killVars
    <3>2. CASE RunKillAll(c) \/ KillReadyQueue(c) \/ KillReturn(c)
      BY <3>2 DEF RunKillAll, Increment, KillReadyQueue, KillReturn, KillTypes,
                  RunType, Holding, vars, cpuVars
    <3> QED BY <1>1, <3>1, <3>2 DEF RunStep
  <2>3. \A p : InHand(p) => InHand(p)'
    BY <2>2, HandStays
  <2> QED BY <2>1, <2>3 DEF FoundKillInv, Held, Waits, Places, Added
<1>2. ASSUME NEW c \in CPUs, RunStep(c) \/ KillStep(c) PROVE FoundKillInv'
  BY <1>1, <1>2, DequeueFound, DecideFound DEF KillStep
<1>3. ASSUME NEW c \in CPUs, SchedStep(c), UNCHANGED killVars
      PROVE  FoundKillInv'
  BY <1>3, SchedFound
<1>4. CASE LoaderStep /\ UNCHANGED killVars
  BY <1>4, LoaderFound
<1>5. CASE UNCHANGED <<mlq_ready_queue, proc, i, freed, cpc, kill>>
  BY <1>5 DEF FoundKillInv, Held, InHand, Waits, Places, Added
<1>6. CASE (NextSlot \/ LastSlot) /\ UNCHANGED killVars
  BY <1>5, <1>6 DEF NextSlot, LastSlot, schedVars, loaderVars, cpuVars,
                    procVars, killVars
<1>7. CASE UNCHANGED allVars
  BY <1>5, <1>7 DEF allVars, vars, schedVars, loaderVars, cpuVars, procVars,
                    killVars
<1> QED BY <1>2, <1>3, <1>4, <1>6, <1>7 DEF CalmNext
------------------------------------------------------------------------------
(* What the pc of a process says about its instructions, for any number of *)
(* CPUs.                                                                   *)

(* The pc of a process counts its instructions, and nothing moves it while *)
(* run is between its two steps, unless a killall asked for its name.      *)
RanInv ==
  /\ ran \in [Procs -> Nat]
  /\ \A p \in Procs : \/ ran[p] = pc[p] /\ pc[p] <= job[p].size
                      \/ path(p) \in wanted
  /\ \A c \in CPUs :
       /\ cpc[c] = "increment" =>
            at[c] = pc[proc[c]] \/ path(proc[c]) \in wanted
       /\ Inside(c) => kill[c].proc_name \in wanted

(* OthersRunToEnd without its condition.                                   *)
EndInv == \A p \in freed : ran[p] = job[p].size \/ path(p) \in wanted

(* Nothing but run and killall touches the pc, the counts and the names.   *)
LEMMA RanSame ==
  ASSUME KillTypes, RanInv, EndInv,
         UNCHANGED <<job, name, pc, freed, ran, wanted>>,
         \A c \in CPUs :
           /\ cpc'[c] = "increment" =>
                /\ proc'[c] = proc[c]
                /\ \/ at'[c] = pc[proc[c]]
                   \/ cpc[c] = "increment" /\ at'[c] = at[c]
           /\ Inside(c)' => Inside(c) /\ kill'[c].proc_name = kill[c].proc_name
  PROVE  RanInv' /\ EndInv'
<1>1. \A p : path(p)' = path(p)
  BY DEF path, load
<1>2. ASSUME NEW c \in CPUs, cpc'[c] = "increment"
      PROVE  at'[c] = pc'[proc'[c]] \/ path(proc[c])' \in wanted'
  <2>1. /\ proc'[c] = proc[c] /\ pc' = pc /\ wanted' = wanted
        /\ at'[c] = pc[proc[c]] \/ (cpc[c] = "increment" /\ at'[c] = at[c])
    BY <1>2
  <2>2. path(proc[c])' = path(proc[c])
    BY <2>1 DEF path, load
  <2> QED BY <2>1, <2>2 DEF RanInv
<1>3. RanInv'
  BY <1>1, <1>2 DEF RanInv
<1>4. EndInv'
  BY <1>1 DEF EndInv
<1> QED BY <1>3, <1>4

(* A process that finishes has executed all its instructions.              *)
LEMMA FinishRan ==
  ASSUME KillTypes, RanInv, EndInv, NEW c \in CPUs, Finish(c),
         UNCHANGED killVars
  PROVE  RanInv' /\ EndInv'
<1>1. /\ freed' = freed \cup {proc[c]}
      /\ proc[c] \in Procs
      /\ pc[proc[c]] = job[proc[c]].size
      /\ cpc'[c] = "fetch"
      /\ UNCHANGED <<job, name, pc, ran, wanted, at, kill>>
      /\ \A d \in CPUs : d # c => cpc'[d] = cpc[d] /\ proc'[d] = proc[d]
  BY DEF Finish, KillTypes, SchedType, RunType, killVars
<1>2. \A p : path(p)' = path(p)
  BY <1>1 DEF path, load
<1>3. \A d \in CPUs : path(proc[d])' = path(proc'[d])
  BY <1>1 DEF path, load
<1>4. ASSUME NEW d \in CPUs
      PROVE  /\ cpc'[d] = "increment" =>
                  at'[d] = pc'[proc'[d]] \/ path(proc[d])' \in wanted'
             /\ Inside(d)' => kill'[d].proc_name \in wanted'
  <2>1. CASE d = c
    BY <1>1, <2>1 DEF Inside, CutPCs
  <2>2. CASE d # c
    BY <1>1, <1>3, <2>2 DEF Inside, RanInv
  <2> QED BY <2>1, <2>2
<1>5. RanInv'
  BY <1>1, <1>2, <1>4 DEF RanInv
<1>6. EndInv'
  BY <1>1, <1>2 DEF RanInv, EndInv
<1> QED BY <1>5, <1>6

(* One instruction is one more on both sides.                              *)
LEMMA ExecuteRan ==
  ASSUME KillTypes, HomeInv, RanInv, EndInv, NEW c \in CPUs,
         RunOther(c) \/ RunKillAll(c)
  PROVE  RanInv' /\ EndInv'
<1> DEFINE p == proc[c]
<1>1. /\ cpc[c] = "increment"
      /\ p \in Procs /\ p \notin freed
      /\ at[c] = pc[p] \/ path(p) \in wanted
      /\ pc[p] \in Nat
      /\ at[c] < job[p].size /\ job[p].size \in Nat
      /\ \A d \in CPUs : d # c => proc[d] # p
  <2>1. cpc[c] = "increment"
    BY DEF RunOther, RunKillAll, Increment
  <2>2. p # NULL /\ p \in Procs /\ at[c] < job[p].size
    BY <2>1 DEF KillTypes, CallInv, SchedType
  <2>3. p \notin freed /\ \A d \in CPUs : d # c => proc[d] # p
    BY <2>2 DEF HomeInv
  <2> QED BY <2>1, <2>2, <2>3, JobType DEF RanInv, KillTypes, RunType
<1>2. /\ \E v \in {at[c], pc[p]} : pc' = [pc EXCEPT ![p] = v + 1]
      /\ ran' = [ran EXCEPT ![p] = @ + 1]
      /\ at' = [at EXCEPT ![c] = 0]
  BY DEF RunOther, RunKillAll, Increment
<1>3. \A q \in Procs : q # p => pc'[q] = pc[q]
  BY <1>1, <1>2 DEF KillTypes, RunType
<1>4. at[c] = pc[p] => pc'[p] = pc[p] + 1
  BY <1>1, <1>2 DEF KillTypes, RunType
<1>5. UNCHANGED <<job, name, freed, proc>>
  BY DEF RunOther, RunKillAll
<1>6. wanted \subseteq wanted'
  BY DEF RunOther, RunKillAll
<1>7. /\ cpc'[c] \in {"top", "find"}
      /\ cpc'[c] = "find" => kill'[c].proc_name \in wanted'
      /\ \A d \in CPUs : d # c => /\ cpc'[d] = cpc[d]
                                  /\ kill'[d] = kill[d]
                                  /\ at'[d] = at[d]
  <2>1. CASE RunOther(c)
    BY <1>2, <2>1 DEF RunOther, KillTypes, RunType
  <2>2. CASE RunKillAll(c)
    BY <1>2, <2>2 DEF RunKillAll, KillTypes, RunType
  <2> QED BY <2>1, <2>2
<1>8. /\ \A q : path(q)' = path(q)
      /\ \A d \in CPUs : path(proc[d])' = path(proc[d])
  BY <1>5 DEF path, load
<1> HIDE DEF p
<1>9. ASSUME NEW q \in Procs
      PROVE  \/ ran'[q] = pc'[q] /\ pc'[q] <= job'[q].size
             \/ path(q)' \in wanted'
  <2>1. CASE path(q) \in wanted
    BY <1>6, <1>8, <2>1
  <2>2. CASE path(q) \notin wanted /\ ran[q] = pc[q] /\ pc[q] <= job[q].size
    <3>1. CASE q = p
      BY <1>1, <1>2, <1>4, <1>5, <2>2, <3>1 DEF RanInv
    <3>2. CASE q # p
      BY <1>2, <1>3, <1>5, <2>2, <3>2 DEF RanInv
    <3> QED BY <3>1, <3>2
  <2> QED BY <2>1, <2>2 DEF RanInv
<1>10. ran' \in [Procs -> Nat]
  BY <1>1, <1>2 DEF RanInv
<1>11. ASSUME NEW d \in CPUs
       PROVE  /\ cpc'[d] = "increment" =>
                   at'[d] = pc'[proc'[d]] \/ path(proc[d])' \in wanted'
              /\ Inside(d)' => kill'[d].proc_name \in wanted'
  <2>1. CASE d = c
    BY <1>7, <2>1 DEF Inside, CutPCs
  <2>2. CASE d # c
    <3>1. cpc'[d] = "increment" => proc[d] \in Procs /\ proc[d] # p
      BY <1>1, <1>7, <2>2 DEF KillTypes, CallInv, SchedType
    <3> QED BY <1>3, <1>5, <1>6, <1>7, <1>8, <2>2, <3>1 DEF RanInv, Inside
  <2> QED BY <2>1, <2>2
<1>12. RanInv'
  BY <1>9, <1>10, <1>11 DEF RanInv
<1>13. EndInv'
  <2> SUFFICES ASSUME NEW q \in freed
               PROVE  ran'[q] = job[q].size \/ path(q) \in wanted'
    BY <1>5, <1>8 DEF EndInv
  <2>1. q \in Procs /\ q # p
    BY <1>1 DEF KillTypes, SchedType
  <2>2. ran'[q] = ran[q]
    BY <1>2, <2>1 DEF RanInv
  <2> QED BY <1>6, <2>2 DEF EndInv
<1> QED BY <1>12, <1>13

(* killall ends only whom it asked for.                                    *)
LEMMA DecideRan ==
  ASSUME KillTypes, RanInv, EndInv, NEW c \in CPUs, KillEnd(c) \/ KillFree(c)
  PROVE  RanInv' /\ EndInv'
<1> DEFINE t == kill[c].target
<1>1. /\ cpc[c] = "decide" /\ cpc[c] \in Taken /\ Inside(c) /\ TurnDone(c)
      /\ TRUE \in Match(c, t)
      /\ UNCHANGED <<job, name, ran, wanted, proc, at>>
  BY DEF KillEnd, KillFree, Inside, Taken, TurnDone
<1>2. /\ t \in Procs
      /\ cpc'[c] = "find"
      /\ kill'[c].proc_name = kill[c].proc_name
      /\ \A d \in CPUs : d # c => cpc'[d] = cpc[d] /\ kill'[d] = kill[d]
  BY <1>1, TurnDoneTypes
<1>3. path(t) \in wanted
  BY <1>1 DEF Match, RanInv
<1>4. /\ \A q : path(q)' = path(q)
      /\ \A d \in CPUs : path(proc[d])' = path(proc[d])
      /\ \A q \in Procs : q # t => pc'[q] = pc[q]
      /\ \A q \in freed' : q \in freed \/ q = t
  <2>1. /\ \A q : path(q)' = path(q)
        /\ \A d \in CPUs : path(proc[d])' = path(proc[d])
    BY <1>1 DEF path, load
  <2>2. CASE KillEnd(c)
    BY <2>1, <2>2 DEF KillEnd, KillTypes, RunType
  <2>3. CASE KillFree(c)
    BY <2>1, <2>3 DEF KillFree
  <2> QED BY <2>2, <2>3
<1> HIDE DEF t
<1>5. RanInv'
  <2>1. \A p \in Procs : \/ ran'[p] = pc'[p] /\ pc'[p] <= job'[p].size
                        \/ path(p)' \in wanted'
    BY <1>1, <1>3, <1>4 DEF RanInv
  <2>2. ran' \in [Procs -> Nat]
    BY <1>1 DEF RanInv
  <2>3. ASSUME NEW d \in CPUs
        PROVE  /\ cpc'[d] = "increment" =>
                    at'[d] = pc'[proc'[d]] \/ path(proc[d])' \in wanted'
               /\ Inside(d)' => kill'[d].proc_name \in wanted'
    <3>1. CASE d = c
      BY <1>1, <1>2, <3>1 DEF RanInv
    <3>2. CASE d # c
      <4>1. Inside(d)' => kill'[d].proc_name \in wanted'
        BY <1>1, <1>2, <3>2 DEF RanInv, Inside
      <4>2. ASSUME cpc'[d] = "increment"
            PROVE  at'[d] = pc'[proc'[d]] \/ path(proc[d])' \in wanted'
        <5>1. /\ cpc[d] = "increment" /\ proc[d] \in Procs
              /\ at[d] = pc[proc[d]] \/ path(proc[d]) \in wanted
          BY <1>2, <3>2, <4>2 DEF KillTypes, CallInv, SchedType, RanInv
        <5> QED BY <1>1, <1>3, <1>4, <5>1
      <4> QED BY <4>1, <4>2
    <3> QED BY <3>1, <3>2
  <2> QED BY <2>1, <2>2, <2>3 DEF RanInv
<1>6. EndInv'
  BY <1>1, <1>3, <1>4 DEF EndInv
<1> QED BY <1>5, <1>6

(* The counts are kept by every step.                                      *)
LEMMA RanNext ==
  ASSUME KillTypes, HomeInv, RanInv, EndInv, CalmNext
  PROVE  RanInv' /\ EndInv'
<1>1. ASSUME NEW c \in CPUs, RunNothing(c) \/ RunTest(c)
      PROVE  RanInv' /\ EndInv'
  <2>1. /\ UNCHANGED <<job, name, pc, freed, ran, wanted, proc, kill>>
        /\ cpc'[c] \in {"top", "increment"}
        /\ cpc'[c] = "increment" => at'[c] = pc[proc[c]]
        /\ \A d \in CPUs : d # c => cpc'[d] = cpc[d] /\ at'[d] = at[d]
    BY <1>1 DEF RunNothing, RunTest, procVars, killVars, KillTypes, RunType
  <2>2. ~Inside(c)'
    BY <2>1 DEF Inside, CutPCs
  <2>3. \A d \in CPUs : d # c => (Inside(d)' <=> Inside(d))
    BY <2>1 DEF Inside
  <2>4. ASSUME NEW d \in CPUs
        PROVE  /\ cpc'[d] = "increment" =>
                    /\ proc'[d] = proc[d]
                    /\ \/ at'[d] = pc[proc[d]]
                       \/ cpc[d] = "increment" /\ at'[d] = at[d]
               /\ Inside(d)' =>
                    Inside(d) /\ kill'[d].proc_name = kill[d].proc_name
    <3>1. CASE d = c
      BY <2>1, <2>2, <3>1
    <3>2. CASE d # c
      BY <2>1, <2>3, <3>2
    <3> QED BY <3>1, <3>2
  <2> QED BY <2>1, <2>4, RanSame
<1>2. ASSUME NEW c \in CPUs, RunOther(c) \/ RunKillAll(c)
      PROVE  RanInv' /\ EndInv'
  BY <1>2, ExecuteRan
<1>3. ASSUME NEW c \in CPUs, KillDequeue(c)
      PROVE  RanInv' /\ EndInv'
  <2>1. /\ UNCHANGED <<job, name, pc, freed, ran, wanted, proc, at>>
        /\ Inside(c)
        /\ kill'[c].proc_name = kill[c].proc_name
        /\ \A d \in CPUs : d # c => cpc'[d] = cpc[d] /\ kill'[d] = kill[d]
    BY <1>3, DequeueTurn
  <2>2. cpc'[c] # "increment"
    <3>1. \/ cpc' = [cpc EXCEPT ![c] = "find"]
          \/ cpc' = [cpc EXCEPT ![c] = "decide"]
      BY <1>3, DequeueTurn
    <3> QED BY <3>1 DEF KillTypes, RunType
  <2>3. \A d \in CPUs : d # c => (Inside(d)' <=> Inside(d))
    BY <2>1 DEF Inside
  <2> QED BY <2>1, <2>2, <2>3, RanSame
<1>4. ASSUME NEW c \in CPUs, KillKeep(c)
      PROVE  RanInv' /\ EndInv'
  <2>1. /\ UNCHANGED <<job, name, pc, freed, ran, wanted, proc, at>>
        /\ cpc[c] \in Taken /\ Inside(c) /\ TurnDone(c)
    BY <1>4 DEF KillKeep, TurnDone, Inside, Taken, procVars
  <2>2. /\ cpc'[c] = "find" /\ kill'[c].proc_name = kill[c].proc_name
        /\ \A d \in CPUs : d # c => cpc'[d] = cpc[d] /\ kill'[d] = kill[d]
    BY <2>1, TurnDoneTypes
  <2>3. \A d \in CPUs : d # c => (Inside(d)' <=> Inside(d))
    BY <2>2 DEF Inside
  <2> QED BY <2>1, <2>2, <2>3, RanSame
<1>5. ASSUME NEW c \in CPUs, KillEnd(c) \/ KillFree(c)
      PROVE  RanInv' /\ EndInv'
  BY <1>5, DecideRan
<1>6. ASSUME NEW c \in CPUs, KillReadyQueue(c)
      PROVE  RanInv' /\ EndInv'
  <2>1. /\ UNCHANGED <<job, name, pc, freed, ran, wanted, cpc, proc, at>>
        /\ kill' = [kill EXCEPT ![c].list = "ready",
                                ![c].left = Len(mlq_ready_queue[0])]
    BY <1>6 DEF KillReadyQueue, vars, cpuVars, procVars
  <2>2. \A d \in CPUs : kill'[d].proc_name = kill[d].proc_name
    <3>1. kill \in [CPUs -> KillLocals] /\ \A d \in CPUs : kill[d] \in KillLocals
      BY DEF KillTypes, RunType
    <3> QED BY <2>1, <3>1 DEF KillLocals
  <2>3. \A d \in CPUs : Inside(d)' <=> Inside(d)
    BY <2>1 DEF Inside
  <2> QED BY <2>1, <2>2, <2>3, RanSame
<1>7. ASSUME NEW c \in CPUs, KillReturn(c)
      PROVE  RanInv' /\ EndInv'
  <2>1. /\ UNCHANGED <<job, name, pc, freed, ran, wanted, proc, at>>
        /\ cpc'[c] = "top"
        /\ \A d \in CPUs : d # c => cpc'[d] = cpc[d] /\ kill'[d] = kill[d]
    BY <1>7 DEF KillReturn, procVars, KillTypes, RunType
  <2>2. ~Inside(c)'
    BY <2>1 DEF Inside, CutPCs
  <2>3. \A d \in CPUs : d # c => (Inside(d)' <=> Inside(d))
    BY <2>1 DEF Inside
  <2> QED BY <2>1, <2>2, <2>3, RanSame
<1>8. ASSUME NEW c \in CPUs, Finish(c), UNCHANGED killVars
      PROVE  RanInv' /\ EndInv'
  BY <1>8, FinishRan
<1>9. ASSUME NEW c \in CPUs, UNCHANGED killVars,
              FetchIdle(c) \/ PutRunningList(c) \/ PutReady(c) \/ Fetch(c)
                \/ Stop(c) \/ SkipSlot(c)
      PROVE  RanInv' /\ EndInv'
  <2>1. /\ UNCHANGED <<job, name, pc, freed, ran, wanted, kill, at>>
        /\ cpc'[c] \in {"top", "put", "fetch", "recheck", "stopped"}
        /\ \A d \in CPUs : d # c => cpc'[d] = cpc[d]
    BY <1>9 DEF FetchIdle, PutRunningList, PutReady, Fetch, Stop, SkipSlot,
                procVars, killVars, KillTypes, RunType
  <2>2. \A d \in CPUs : d # c => proc'[d] = proc[d]
    <3>1. CASE FetchIdle(c) \/ Fetch(c)
      <4>1. proc[c] = NULL /\ get_mlq_proc(c)
        BY <3>1 DEF FetchIdle, Fetch, KillTypes, LabelInv
      <4> QED BY <4>1, GetTypes DEF KillTypes
    <3>2. CASE PutRunningList(c) \/ PutReady(c) \/ Stop(c) \/ SkipSlot(c)
      BY <3>2 DEF PutRunningList, PutReady, Stop, SkipSlot, KillTypes, SchedType
    <3> QED BY <1>9, <3>1, <3>2
  <2>3. ~Inside(c)'
    BY <2>1 DEF Inside, CutPCs
  <2>4. \A d \in CPUs : d # c => (Inside(d)' <=> Inside(d))
    BY <2>1 DEF Inside
  <2> QED BY <2>1, <2>2, <2>3, <2>4, RanSame
<1>10. CASE UNCHANGED <<job, name, pc, freed, ran, wanted, cpc, proc, at, kill>>
  <2>1. \A c \in CPUs : Inside(c)' <=> Inside(c)
    BY <1>10 DEF Inside
  <2> QED BY <1>10, <2>1, RanSame
<1>11. CASE (LoaderStep \/ NextSlot \/ LastSlot) /\ UNCHANGED killVars
  BY <1>10, <1>11 DEF LoaderStep, LdWait, LdRunningList, LdReady, LdExit,
       NextSlot, LastSlot, schedVars, loaderVars, cpuVars, procVars, killVars
<1>12. CASE UNCHANGED allVars
  BY <1>10, <1>12 DEF allVars, vars, cpuVars, procVars, killVars
<1> QED
  BY <1>1, <1>2, <1>3, <1>4, <1>5, <1>6, <1>7, <1>8, <1>9, <1>11, <1>12
     DEF CalmNext, RunStep, KillStep, SchedStep
------------------------------------------------------------------------------
(* One CPU.  The increment of pc by another CPU can undo the end that a    *)
(* call has written there, so that what follows holds only when there is   *)
(* no second CPU; the loader still takes its steps.                        *)

OneCPU == \A c, d \in CPUs : c = d

(* The search cannot pass by process p: nobody in the list, in the hands   *)
(* of CPU c or still to be added goes before it.                           *)
FirstInList(c, p) ==
  /\ \A n \in 1..Len(running_list) :
       /\ running_list[n] \notin freed
       /\ priority[running_list[n]] >= priority[p]
  /\ \A q \in Procs \ Added : priority[q] >= priority[p]
  /\ cpc[c] # "find" => /\ kill[c].target \notin freed
                        /\ priority[kill[c].target] >= priority[p]

(* Process p is in the list at one of the places that the turns that are   *)
(* left will reach, or it is the one in hand.                              *)
StillToCome(c, p) ==
  \/ cpc[c] # "find" /\ kill[c].target = p
  \/ \E n \in 1..Len(running_list) :
       running_list[n] = p /\ n <= kill[c].left

(* The first loop ends each process that it was asked for, or will come to *)
(* it; when it is over they have all been ended.                           *)
SweepInv ==
  /\ asked \in [CPUs -> SUBSET Procs]
  /\ \A c \in CPUs : Inside(c) =>
       \A p \in asked[c] :
         /\ p # proc[c]
         /\ kill[c].list = "running" =>
              /\ path(p) = kill[c].proc_name
              /\ p \notin freed
              /\ FirstInList(c, p)
              /\ pc[p] = job[p].size \/ StillToCome(c, p)
         /\ kill[c].list = "ready" => p \in freed \/ pc[p] = job[p].size

(* The first loop comes to everybody it was asked for.                     *)

(* Outside the loops there is nothing to say.                              *)
LEMMA SweepOutside ==
  ASSUME OneCPU, NEW c \in CPUs,
         cpc'[c] \notin {"find", "decide"} \cup CutPCs,
         asked' \in [CPUs -> SUBSET Procs]
  PROVE  SweepInv'
<1>1. \A d \in CPUs : d = c
  BY DEF OneCPU
<1> QED BY <1>1 DEF SweepInv, Inside

(* The default priorities and the paths stay.                              *)
LEMMA SweepData ==
  ASSUME KillTypes, UNCHANGED <<job, name>>
  PROVE  /\ priority' = priority
         /\ \A p \in Procs : priority[p] \in Nat
         /\ \A p : path(p)' = path(p)
<1>1. \A p \in Procs : priority[p] \in Nat
  BY JobType DEF KillTypes
<1> QED BY <1>1 DEF priority, path, load

(* killall begins: whoever is Findable is in the list, behind nobody.      *)
LEMMA SweepBegins ==
  ASSUME OneCPU, KillTypes, SweepInv, NEW c \in CPUs, RunKillAll(c)
  PROVE  SweepInv'
<1>1. /\ asked' = [asked EXCEPT ![c] =
             {p \in Added \ (freed \cup {proc[c]}) :
                path(p) = Fetched(c).name /\ Findable(p)}]
      /\ kill' = [kill EXCEPT ![c] =
             [proc_name |-> Fetched(c).name, list |-> "running",
              left |-> Len(running_list), index |-> 0, target |-> NULL]]
      /\ cpc' = [cpc EXCEPT ![c] = "find"]
      /\ UNCHANGED <<job, name, running_list, freed, proc, i>>
      /\ \A d \in CPUs : d = c
  BY DEF RunKillAll, schedVars, loaderVars, OneCPU
<1>2. /\ kill'[c].proc_name = Fetched(c).name
      /\ kill'[c].list = "running"
      /\ kill'[c].left = Len(running_list)
      /\ cpc'[c] = "find"
  BY <1>1 DEF KillTypes, RunType
<1>3. Added \subseteq Procs /\ Added' = Added
  BY <1>1, KernelAssumption DEF KillTypes, SchedType, Added, Procs
<1>4. /\ asked' \in [CPUs -> SUBSET Procs]
      /\ \A p \in asked'[c] : /\ p \in Procs \ (freed \cup {proc[c]})
                              /\ path(p) = Fetched(c).name
                              /\ Findable(p)
  BY <1>1, <1>3 DEF SweepInv
<1>5. priority' = priority /\ \A p : path(p)' = path(p)
  BY <1>1, SweepData
<1>6. ASSUME NEW p \in asked'[c]
      PROVE  FirstInList(c, p)' /\ StillToCome(c, p)'
  <2>1. Findable(p)
    BY <1>4
  <2>2. FirstInList(c, p)'
    BY <1>1, <1>2, <1>3, <1>5, <2>1 DEF Findable, FirstInList
  <2>3. PICK k \in 1..Len(running_list) : running_list[k] = p
    BY <2>1 DEF Findable
  <2>4. k <= Len(running_list)
    BY DEF KillTypes, RunType
  <2>5. StillToCome(c, p)'
    BY <1>1, <1>2, <2>3, <2>4 DEF StillToCome
  <2> QED BY <2>2, <2>5
<1> QED BY <1>1, <1>2, <1>4, <1>5, <1>6 DEF SweepInv, Inside

(* A turn takes out p, or somebody before p in the list: then p moves one  *)
(* place down.                                                             *)
LEMMA SweepTurns ==
  ASSUME OneCPU, KillTypes, SweepInv, NEW c \in CPUs, KillDequeue(c)
  PROVE  SweepInv'
<1>1. /\ cpc[c] = "find" /\ Inside(c)
      /\ kill'[c].proc_name = kill[c].proc_name
      /\ kill'[c].list = kill[c].list
      /\ kill'[c].left = kill[c].left - 1
      /\ kill'[c].index \in Found(Swept(c))
      /\ UNCHANGED <<job, loaderVars, proc, pc, freed, name, asked>>
      /\ kill[c].left \in Nat
      /\ \A d \in CPUs : d = c
  BY DequeueTurn, QueueAssumption DEF OneCPU, KillTypes, RunType, KillLocals
<1>2. /\ priority' = priority
      /\ \A p : path(p)' = path(p)
      /\ \A p \in Procs : priority[p] \in Nat
      /\ Added' = Added
      /\ running_list \in Seq(Procs)
  BY <1>1, SweepData DEF Added, loaderVars, KillTypes, RunType
<1>3. \/ /\ empty(Swept(c))
         /\ cpc'[c] = "find"
         /\ UNCHANGED running_list
      \/ /\ ~empty(Swept(c))
         /\ kill'[c].target = Swept(c)[kill'[c].index]
         /\ cpc'[c] = "decide"
         /\ SetSwept(c, ShiftDown(Swept(c), kill'[c].index))
  <2>1. cpc \in [CPUs -> KillPCs]
    BY DEF KillTypes, RunType
  <2> QED BY <2>1, DequeueTurn
<1>4. ASSUME NEW p \in asked[c], kill[c].list = "running"
      PROVE  /\ FirstInList(c, p)'
             /\ pc[p] = job[p].size \/ StillToCome(c, p)'
  <2> DEFINE q == running_list
             k == kill'[c].index
             r == ShiftDown(q, k)
  <2>1. Swept(c) = q
    BY <1>4 DEF Swept
  <2>2. FirstInList(c, p) /\ (pc[p] = job[p].size \/ StillToCome(c, p))
    BY <1>1, <1>4 DEF SweepInv
  <2>3. CASE empty(q)
    <3>1. Len(q) = 0 /\ cpc'[c] = "find" /\ running_list' = q
      BY <1>3, <2>1, <2>3 DEF empty
    <3>2. ~ StillToCome(c, p)
      BY <1>1, <3>1 DEF StillToCome
    <3> QED BY <1>1, <1>2, <2>2, <3>1, <3>2 DEF FirstInList
  <2>4. CASE ~empty(q)
    <3>1. \A n \in 1..Len(q) : q[n] \notin freed /\ priority[q[n]] >= priority[p]
      BY <2>2 DEF FirstInList
    <3>2. Len(q) # 0 /\ k \in Found(q)
      BY <1>1, <2>1, <2>4 DEF empty
    <3>3. k = HighestIndex(q, priority)
      BY <3>1, <3>2 DEF Found, empty
    <3>4. priority \in [Procs -> Nat]
      BY <1>2 DEF priority
    <3>5. /\ k \in 1..Len(q)
          /\ \A j \in 1..Len(q) : /\ priority[q[k]] <= priority[q[j]]
                                  /\ priority[q[k]] = priority[q[j]] => k <= j
      BY <1>2, <3>2, <3>3, <3>4, HighestIndexInQueue
    <3>6. /\ kill'[c].target = q[k]
          /\ cpc'[c] = "decide"
          /\ running_list' = r
      BY <1>3, <1>4, <2>1, <2>4 DEF SetSwept
    <3>7. /\ Len(r) = Len(q) - 1
          /\ \A n \in 1..Len(r) : r[n] = IF n < k THEN q[n] ELSE q[n + 1]
          /\ Len(q) \in Nat
      <4>1. q \in Seq(Procs) /\ k \in Nat /\ Len(q) \in Nat /\ Len(q) # 0
        BY <1>2, <3>2, <3>5
      <4> HIDE DEF q, k
      <4> QED BY <4>1, ShiftProperties
    <3> HIDE DEF r
    <3>8. \A n \in 1..Len(r) : \E m \in 1..Len(q) : r[n] = q[m]
      BY <1>2, <3>5, <3>7
    <3>9. FirstInList(c, p)'
      BY <1>1, <1>2, <2>2, <3>1, <3>5, <3>6, <3>8 DEF FirstInList
    <3>10. ASSUME StillToCome(c, p) PROVE StillToCome(c, p)'
      <4>1. PICK n \in 1..Len(q) : q[n] = p /\ n <= kill[c].left
        BY <1>1, <3>10 DEF StillToCome
      <4>2. priority[q[k]] = priority[p]
        <5>1. q[k] \in Procs /\ p \in Procs
          BY <1>2, <3>5, <4>1
        <5>2. priority[q[k]] <= priority[p] /\ priority[q[k]] >= priority[p]
          BY <3>1, <3>5, <4>1
        <5> QED BY <1>2, <5>1, <5>2
      <4>3. k <= n
        BY <3>5, <4>1, <4>2
      <4>4. k \in Nat /\ n \in Nat
        BY <3>5, <4>1
      <4>5. CASE k = n
        BY <3>6, <4>1, <4>5 DEF StillToCome
      <4>6. CASE k < n
        <5>1. /\ n - 1 \in 1..Len(r)
              /\ ~ (n - 1 < k) /\ (n - 1) + 1 = n
              /\ n - 1 <= kill'[c].left
          BY <1>1, <3>5, <3>7, <4>1, <4>4, <4>6
        <5>2. r[n - 1] = p
          BY <3>7, <4>1, <5>1
        <5> QED BY <3>6, <5>1, <5>2 DEF StillToCome
      <4> QED BY <4>3, <4>4, <4>5, <4>6
    <3> QED BY <2>2, <3>9, <3>10
  <2> QED BY <2>3, <2>4
<1> QED BY <1>1, <1>2, <1>4 DEF SweepInv, Inside

(* Whoever was asked for and is in hand is ended, not put back.            *)
LEMMA SweepDecides ==
  ASSUME OneCPU, KillTypes, SweepInv, NEW c \in CPUs,
         KillKeep(c) \/ KillEnd(c) \/ KillFree(c)
  PROVE  SweepInv'
<1> DEFINE t == kill[c].target
<1>1. /\ cpc[c] = "decide" /\ cpc[c] \in Taken /\ Inside(c) /\ TurnDone(c)
      /\ UNCHANGED <<job, proc, name, asked, i>>
      /\ \A d \in CPUs : d = c
  BY DEF KillKeep, KillEnd, KillFree, TurnDone, Inside, Taken, OneCPU,
         loaderVars
<1>2. /\ cpc'[c] = "find"
      /\ t \in Procs
      /\ kill'[c].proc_name = kill[c].proc_name
      /\ kill'[c].list = kill[c].list
      /\ kill'[c].left = kill[c].left
      /\ kill[c].list \in {"running", "ready"}
  BY <1>1, TurnDoneTypes
<1>3. /\ priority' = priority
      /\ \A p : path(p)' = path(p)
      /\ Added' = Added
      /\ running_list \in Seq(Procs)
      /\ pc \in [Procs -> Nat]
      /\ asked[c] \subseteq Procs
  BY <1>1, SweepData DEF Added, KillTypes, RunType, SweepInv
<1> HIDE DEF t
<1>4. ASSUME NEW p \in asked[c], kill[c].list = "running"
      PROVE  /\ p \notin freed'
             /\ FirstInList(c, p)'
             /\ pc'[p] = job[p].size \/ StillToCome(c, p)'
  <2>1. /\ path(p) = kill[c].proc_name /\ p # proc[c] /\ p \notin freed
        /\ FirstInList(c, p)
        /\ pc[p] = job[p].size \/ StillToCome(c, p)
    BY <1>1, <1>4 DEF SweepInv
  <2>2. CASE KillKeep(c)
    <3>1. /\ running_list' = enqueue(running_list, t)
          /\ UNCHANGED <<pc, freed>>
      BY <1>4, <2>2 DEF KillKeep, SetSwept, Swept, procVars, t
    <3>2. t # p
      BY <2>1, <2>2 DEF KillKeep, Match, Caller, t
    <3>3. t \notin freed /\ priority[t] >= priority[p]
      BY <1>1, <2>1 DEF FirstInList, t
    <3>4. /\ \A n \in 1..Len(running_list) :
               /\ n \in 1..Len(running_list')
               /\ running_list'[n] = running_list[n]
          /\ \A n \in 1..Len(running_list') :
               n \in 1..Len(running_list) \/ running_list'[n] = t
      <4>1. running_list \in Seq(Procs) /\ t \in Procs
        BY <1>2, <1>3
      <4>2. \A n \in 1..Len(running_list) :
              /\ n \in 1..Len(enqueue(running_list, t))
              /\ enqueue(running_list, t)[n] = running_list[n]
        BY <4>1, EnqueueKeeps
      <4>3. \A n \in 1..Len(enqueue(running_list, t)) :
              \/ n \in 1..Len(running_list)
              \/ enqueue(running_list, t)[n] = t
        BY <4>1, EnqueueAdds
      <4> QED BY <3>1, <4>2, <4>3
    <3>5. FirstInList(c, p)'
      BY <1>2, <1>3, <2>1, <3>1, <3>3, <3>4 DEF FirstInList
    <3>6. StillToCome(c, p) => StillToCome(c, p)'
      BY <1>1, <1>2, <3>2, <3>4 DEF StillToCome, t
    <3> QED BY <2>1, <3>1, <3>5, <3>6
  <2>3. CASE KillEnd(c)
    <3>1. /\ pc' = [pc EXCEPT ![t] = job[t].size]
          /\ UNCHANGED <<running_list, freed>>
      BY <2>3 DEF KillEnd, schedVars, t
    <3>2. FirstInList(c, p)'
      BY <1>2, <1>3, <2>1, <3>1 DEF FirstInList
    <3>3. CASE t = p
      BY <1>2, <1>3, <2>1, <3>1, <3>2, <3>3
    <3>4. CASE t # p
      <4>1. pc'[p] = pc[p]
        BY <1>3, <3>1, <3>4
      <4>2. StillToCome(c, p) => StillToCome(c, p)'
        BY <1>1, <1>2, <3>1, <3>4 DEF StillToCome, t
      <4> QED BY <2>1, <3>1, <3>2, <4>1, <4>2
    <3> QED BY <3>3, <3>4
  <2>4. CASE KillFree(c)
    BY <1>4, <2>4 DEF KillFree
  <2> QED BY <2>2, <2>3, <2>4
<1>5. ASSUME NEW p \in asked[c], kill[c].list = "ready"
      PROVE  p \in freed' \/ pc'[p] = job[p].size
  <2>1. p \in freed \/ pc[p] = job[p].size
    BY <1>1, <1>5 DEF SweepInv
  <2> QED BY <1>5, <2>1 DEF KillKeep, KillEnd, KillFree, procVars
<1> QED BY <1>1, <1>2, <1>3, <1>4, <1>5 DEF SweepInv, Inside

(* With no turn left, everybody has been ended.                            *)
LEMMA SweepOver ==
  ASSUME OneCPU, KillTypes, SweepInv, NEW c \in CPUs, KillReadyQueue(c)
  PROVE  SweepInv'
<1>1. /\ cpc[c] = "find" /\ Inside(c) /\ kill[c].left = 0
      /\ kill[c].list = "running"
      /\ kill' = [kill EXCEPT ![c].list = "ready",
                              ![c].left = Len(mlq_ready_queue[0])]
      /\ UNCHANGED <<cpc, job, proc, pc, freed, asked>>
      /\ \A d \in CPUs : d = c
  BY DEF KillReadyQueue, Inside, vars, cpuVars, procVars, OneCPU
<1>2. kill'[c].list = "ready"
  <2>1. kill \in [CPUs -> KillLocals] /\ kill[c] \in KillLocals
    BY DEF KillTypes, RunType
  <2> QED BY <1>1, <2>1 DEF KillLocals
<1>3. ASSUME NEW p \in asked[c] PROVE pc[p] = job[p].size /\ p # proc[c]
  <2>1. /\ p # proc[c]
        /\ pc[p] = job[p].size \/ StillToCome(c, p)
    BY <1>1, <1>3 DEF SweepInv
  <2>2. ~ StillToCome(c, p)
    BY <1>1 DEF StillToCome
  <2> QED BY <2>1, <2>2
<1> QED BY <1>1, <1>2, <1>3 DEF SweepInv, Inside

(* Whom the loader adds is behind, and goes behind.                        *)
LEMMA SweepLoads ==
  ASSUME KillTypes, HomeInv, SweepInv, LoaderStep, UNCHANGED killVars
  PROVE  SweepInv'
<1>1. UNCHANGED <<job, cpc, proc, pc, freed, name, asked, kill>>
  BY DEF LoaderStep, LdWait, LdRunningList, LdReady, LdExit, cpuVars, procVars,
         killVars
<1>2. /\ priority' = priority
      /\ \A p : path(p)' = path(p)
      /\ running_list \in Seq(Procs)
  BY <1>1, SweepData DEF KillTypes, RunType
<1>3. /\ \A n \in 1..Len(running_list) :
           /\ n \in 1..Len(running_list')
           /\ running_list'[n] = running_list[n]
      /\ \A n \in 1..Len(running_list') :
           \/ n \in 1..Len(running_list)
           \/ running_list'[n] \in Procs \ Added
      /\ Added \subseteq Added'
  <2>1. CASE LdRunningList
    <3>1. running_list' = enqueue(running_list, i) /\ i' = i
      BY <2>1 DEF LdRunningList
    <3>2. i \in Procs \ Added
      BY <2>1, KernelAssumption
         DEF LdRunningList, KillTypes, SchedType, Procs, Added
    <3> QED BY <1>2, <3>1, <3>2, EnqueueKeeps, EnqueueAdds DEF Added
  <2>2. CASE LdReady
    <3>1. i' = i + 1 /\ i \in Nat /\ UNCHANGED running_list
      BY <2>2, KernelAssumption DEF LdReady, KillTypes, SchedType
    <3> QED BY <3>1 DEF Added
  <2>3. CASE LdWait \/ LdExit
    BY <2>3 DEF LdWait, LdExit, schedVars, loaderVars, Added
  <2> QED BY <2>1, <2>2, <2>3 DEF LoaderStep
<1>4. \A n \in 1..Len(running_list') :
        \/ n \in 1..Len(running_list)
        \/ running_list'[n] \notin freed
  BY <1>3 DEF HomeInv
<1>5. ASSUME NEW c \in CPUs, NEW p
      PROVE  /\ FirstInList(c, p) => FirstInList(c, p)'
             /\ StillToCome(c, p) => StillToCome(c, p)'
  <2>1. FirstInList(c, p) => FirstInList(c, p)'
    BY <1>1, <1>2, <1>3, <1>4 DEF FirstInList
  <2>2. StillToCome(c, p) => StillToCome(c, p)'
    BY <1>1, <1>3 DEF StillToCome
  <2> QED BY <2>1, <2>2
<1> QED BY <1>1, <1>2, <1>5 DEF SweepInv, Inside

(* Every step keeps it.                                                    *)
LEMMA SweepNext ==
  ASSUME OneCPU, KillTypes, HomeInv, SweepInv, CalmNext
  PROVE  SweepInv'
<1>1. ASSUME NEW c \in CPUs, RunNothing(c) \/ RunTest(c) \/ RunOther(c)
                             \/ KillReturn(c)
      PROVE  SweepInv'
  <2>1. cpc'[c] \in {"top", "increment"}
    BY <1>1 DEF RunNothing, RunTest, RunOther, KillReturn, KillTypes, RunType
  <2>2. asked' \in [CPUs -> SUBSET Procs]
    BY <1>1 DEF RunNothing, RunTest, RunOther, KillReturn, killVars, SweepInv
  <2> QED BY <2>1, <2>2, SweepOutside DEF CutPCs
<1>2. ASSUME NEW c \in CPUs, RunStep(c) PROVE SweepInv'
  BY <1>1, <1>2, SweepBegins DEF RunStep
<1>3. ASSUME NEW c \in CPUs, KillStep(c) PROVE SweepInv'
  BY <1>1, <1>3, SweepTurns, SweepDecides, SweepOver DEF KillStep
<1>4. ASSUME NEW c \in CPUs, SchedStep(c), UNCHANGED killVars PROVE SweepInv'
  <2>1. cpc'[c] \in {"top", "put", "fetch", "recheck", "stopped"}
    BY <1>4 DEF SchedStep, FetchIdle, Finish, PutRunningList, PutReady, Fetch,
                Stop, SkipSlot, KillTypes, RunType
  <2>2. asked' \in [CPUs -> SUBSET Procs]
    BY <1>4 DEF killVars, SweepInv
  <2> QED BY <2>1, <2>2, SweepOutside DEF CutPCs
<1>5. CASE LoaderStep /\ UNCHANGED killVars
  BY <1>5, SweepLoads
<1>6. CASE UNCHANGED <<job, cpc, proc, pc, freed, name, asked, kill,
                       running_list, i>>
  <2>1. priority' = priority /\ \A p : path(p)' = path(p)
    BY <1>6, SweepData
  <2> QED BY <1>6, <2>1 DEF SweepInv, Inside, FirstInList, StillToCome, Added
<1>7. CASE (NextSlot \/ LastSlot) /\ UNCHANGED killVars
  BY <1>6, <1>7 DEF NextSlot, LastSlot, schedVars, loaderVars, cpuVars,
                    procVars, killVars
<1>8. CASE UNCHANGED allVars
  BY <1>6, <1>8 DEF allVars, vars, schedVars, loaderVars, cpuVars, procVars,
                    killVars
<1> QED BY <1>2, <1>3, <1>4, <1>5, <1>7, <1>8 DEF CalmNext
------------------------------------------------------------------------------
(* The theorems about calls of dequeue and enqueue that nothing overlaps.  *)

(* What holds until a critical section overlaps one of them, for any       *)
(* number of CPUs; with room in the queues for every process; and with one *)
(* CPU.                                                                    *)
CalmInv == HomeInv /\ HandInv /\ RanInv /\ EndInv
RoomInv == CalmInv /\ FoundKillInv
OneInv == CalmInv /\ SweepInv

(* The state after main.                                                   *)
LEMMA CalmInit == KillInit => CalmInv /\ FoundKillInv /\ SweepInv
<1> SUFFICES ASSUME KillInit PROVE CalmInv /\ FoundKillInv /\ SweepInv
  OBVIOUS
<1>1. KillTypes /\ HomeInv
  BY KillTypesInit, InitIInv DEF KillInit, IInv
<1>2. HandInv /\ RanInv /\ EndInv /\ SweepInv
  <2>1. /\ kill = [c \in CPUs |-> NoCall]
        /\ cpc = [c \in CPUs |-> "top"]
        /\ pc = [p \in Procs |-> 0]
        /\ ran = [p \in Procs |-> 0]
        /\ asked = [c \in CPUs |-> {}]
        /\ freed = {}
    BY DEF KillInit, Init
  <2>2. \A p \in Procs : job[p].size \in Nat
    BY <1>1, JobType DEF KillTypes
  <2>3. HandInv
    BY <2>1 DEF HandInv, Holding
  <2>4. RanInv
    BY <2>1, <2>2 DEF RanInv, Inside, CutPCs
  <2>5. EndInv /\ SweepInv
    BY <2>1 DEF EndInv, SweepInv
  <2> QED BY <2>3, <2>4, <2>5
<1>3. FoundKillInv
  BY KernelAssumption DEF KillInit, Init, FoundKillInv, Added
<1> QED BY <1>1, <1>2, <1>3 DEF CalmInv

(* A step that overlaps nothing keeps it.                                  *)
LEMMA CalmStep ==
  ASSUME KillTypes, CalmInv, CalmNext
  PROVE  CalmInv'
<1>1. HomeInv' /\ HandInv'
  BY KillHomeNext DEF CalmInv
<1>2. RanInv' /\ EndInv'
  BY RanNext DEF CalmInv
<1> QED BY <1>1, <1>2 DEF CalmInv

(* It holds until then.                                                    *)
LEMMA CalmInvariant == KillSpec => [](cut \/ CalmInv)
<1> DEFINE I == KillTypes /\ (cut \/ CalmInv)
<1>1. KillInit => I
  BY KillTypesInit, CalmInit
<1>2. I /\ [KillNext]_allVars => I'
  <2> SUFFICES ASSUME I, [KillNext]_allVars PROVE I'
    OBVIOUS
  <2>1. KillTypes'
    BY KillTypesNext
  <2>2. CASE ~cut'
    BY <2>1, <2>2, OnlyCalm, CalmStep
  <2> QED BY <2>1, <2>2
<1> QED BY <1>1, <1>2, PTL DEF KillSpec

(* While killall turns the ready queue over, other CPUs fetch from it and  *)
(* put back, and the loader adds to it, no process is at two places and    *)
(* none is found before it was added or after its PCB was freed, as long   *)
(* as no critical section overlaps a dequeue or an enqueue of killall.     *)
THEOREM KillKeepsHomes == KillSpec => []KillSingleHome
<1>1. (cut \/ CalmInv) => KillSingleHome
  BY HomeSingle DEF CalmInv, KillSingleHome
<1> QED BY <1>1, CalmInvariant, PTL

(* killall loses nobody, with room in the queues for every process: one    *)
(* that was added and not freed is in a queue, on a CPU or in hand, as     *)
(* long as no critical section overlaps a dequeue or an enqueue of         *)
(* killall.                                                                *)
THEOREM KillNoneLost ==
  ASSUME NumProcs <= MAX_QUEUE_SIZE
  PROVE  KillSpec => []NoneLostToKill
<1> DEFINE I == KillTypes /\ (cut \/ RoomInv)
<1>1. KillInit => I
  BY KillTypesInit, CalmInit DEF RoomInv
<1>2. I /\ [KillNext]_allVars => I'
  <2> SUFFICES ASSUME I, [KillNext]_allVars PROVE I'
    OBVIOUS
  <2>1. KillTypes'
    BY KillTypesNext
  <2>2. CASE ~cut'
    <3>1. CalmNext /\ RoomInv
      BY <2>2, OnlyCalm
    <3>2. CalmInv'
      BY <3>1, CalmStep DEF RoomInv
    <3>3. FoundKillInv'
      BY <3>1, KillFoundNext DEF RoomInv, CalmInv
    <3> QED BY <2>1, <3>2, <3>3 DEF RoomInv
  <2> QED BY <2>1, <2>2
<1>3. I => NoneLostToKill
  BY HeldHome DEF KillTypes, RoomInv, FoundKillInv, NoneLostToKill
<1> QED BY <1>1, <1>2, <1>3, PTL DEF KillSpec

(* A process that ends without having executed its whole program was asked *)
(* for by some killall, as long as no critical section overlaps a dequeue  *)
(* or an enqueue of killall.                                               *)
THEOREM KillOthersRunToEnd == KillSpec => []OthersRunToEnd
<1>1. (cut \/ CalmInv) => OthersRunToEnd
  BY DEF CalmInv, EndInv, OthersRunToEnd
<1> QED BY <1>1, CalmInvariant, PTL

(* With one CPU, when a call of killall is over, every process that it was *)
(* asked for and that was Findable has been freed or is at the end of its  *)
(* code, as long as no section of the loader overlaps a dequeue or an      *)
(* enqueue of killall.                                                     *)
THEOREM KillTerminatesByName ==
  ASSUME OneCPU
  PROVE  KillSpec => []TerminatesByName
<1> DEFINE I == KillTypes /\ (cut \/ OneInv)
<1>1. KillInit => I
  BY KillTypesInit, CalmInit DEF OneInv
<1>2. I /\ [KillNext]_allVars => I'
  <2> SUFFICES ASSUME I, [KillNext]_allVars PROVE I'
    OBVIOUS
  <2>1. KillTypes'
    BY KillTypesNext
  <2>2. CASE ~cut'
    <3>1. CalmNext /\ OneInv
      BY <2>2, OnlyCalm
    <3>2. CalmInv'
      BY <3>1, CalmStep DEF OneInv
    <3>3. SweepInv'
      BY <3>1, SweepNext DEF OneInv, CalmInv
    <3> QED BY <2>1, <3>2, <3>3 DEF OneInv
  <2> QED BY <2>1, <2>2
<1>3. I => TerminatesByName
  BY DEF OneInv, SweepInv, Inside, TerminatesByName
<1> QED BY <1>1, <1>2, <1>3, PTL DEF KillSpec
=============================================================================
