------------------------------- MODULE KillAll -------------------------------
(***************************************************************************)
(* The system call killall (sys_killall.c) on top of Kernel, and load      *)
(* (loader.c), which keeps the path that killall compares.                 *)
(*                                                                         *)
(* killall takes every process out of running_list, and then out of ready  *)
(* queue 0, and puts back those it does not want.  It holds no lock: the   *)
(* critical sections of the other CPUs and of the loader fall between its  *)
(* calls of dequeue and enqueue, and also inside them.  A call is          *)
(*   - one step, if no section overlaps it (KillDequeue, KillKeep);        *)
(*   - cut in pieces, with sections between the search, the shift and      *)
(*     size-- of dequeue, or between the size test and the store of        *)
(*     enqueue (KillFind, KillShift, KillShrink, KillTest, KillStore);     *)
(*   - not followed any further (KillStray), if it overlaps a section in   *)
(*     another way, such as two size++ at the same time, or if it leaves   *)
(*     the bounds of the array.                                            *)
(* The history variable cut says that some call was not undisturbed.  The  *)
(* pc of a PCB is written by killall while another CPU may be in run: the  *)
(* test and the increment of pc are two steps as well.                     *)
(***************************************************************************)
EXTENDS Kernel

CONSTANTS
  Names,    \* the names of program files
  Files,    \* what each of them holds
  Stored    \* what is left of each name in the path of a PCB

(* An instruction is a killall of some name or anything else.              *)
Instructions == [op : {"other"}] \cup [op : {"killall"}, name : Names]

ASSUME KillAllAssumption ==
  /\ Files \in [Names -> [priority : Nat, code : Seq(Instructions)]]
  /\ Stored \in [Names -> Names]

VARIABLES
  name,     \* the program file of each process
  at,       \* the pc that each CPU has read in run
  kill,     \* its locals in __sys_killall
  asked,    \* history: the processes its call of killall is about
  ran,      \* history: the instructions each process has executed
  wanted,   \* history: the names that killall was called with
  cut       \* history: a section has overlapped a call of killall's

killVars == <<name, at, kill, asked, ran, wanted, cut>>
allVars == <<vars, killVars>>

(* load: the PCB of a program file.  The path goes through an snprintf     *)
(* with room for 16 characters, which leaves five for the name.            *)
load(n) == [path |-> Stored[n], priority |-> Files[n].priority,
            code |-> Files[n].code]

code(p) == load(name[p]).code
path(p) == load(name[p]).path

Lists == {"none", "running", "ready"}
NoCall == [proc_name |-> NULL, list |-> "none", left |-> 0, index |-> 0,
           target |-> NULL]

(* Where a CPU is: also inside run, and between the pieces of a call.      *)
CutPCs == {"shift", "shrink", "store", "wild"}
KillPCs == CpuPCs \cup {"increment", "find", "decide"} \cup CutPCs

(* The types; the queues stay within their arrays.  Where a CPU is "wild"  *)
(* the queues are those before the store that is not followed.             *)
KillTypeOK ==
  /\ Clock!ClockTypeOK
  /\ job \in Configs
  /\ mlq_ready_queue \in [Prios -> Seq(Procs)]
  /\ running_list \in Seq(Procs)
  /\ \A k \in Prios : Len(mlq_ready_queue[k]) <= MAX_QUEUE_SIZE
  /\ Len(running_list) <= MAX_QUEUE_SIZE
  /\ cut \in BOOLEAN
  /\ cpc \in [CPUs -> KillPCs]
  /\ \A c \in CPUs : cpc[c] \in CutPCs => cut
  /\ proc \in [CPUs -> Procs \cup {NULL}]
  /\ time_left \in [CPUs -> 0..TimeSlot]
  /\ pc \in [Procs -> Nat]
  /\ freed \subseteq Procs
  /\ at \in [CPUs -> Nat]
  /\ \A c \in CPUs : /\ kill[c].proc_name \in Names \cup {NULL}
                     /\ kill[c].list \in Lists
                     /\ kill[c].left \in 0..MAX_QUEUE_SIZE
                     /\ kill[c].index \in 0..MAX_QUEUE_SIZE
                     /\ kill[c].target \in Procs \cup {NULL}

KillInit ==
  /\ Init
  /\ name \in [Procs -> Names]
  /\ \A p \in Procs : /\ job[p].priority = load(name[p]).priority
                      /\ job[p].size = Len(code(p))
  /\ at = [c \in CPUs |-> 0]
  /\ kill = [c \in CPUs |-> NoCall]
  /\ asked = [c \in CPUs |-> {}]
  /\ ran = [p \in Procs |-> 0]
  /\ wanted = {}
  /\ cut = FALSE
------------------------------------------------------------------------------
(* cpu.c, run.                                                             *)

(* CPU c is about to call run for its process.                             *)
Dispatched(c) ==
  /\ stage[c] = "working"
  /\ proc[c] # NULL
  /\ \/ cpc[c] = "recheck"
     \/ cpc[c] = "top" /\ pc[proc[c]] # job[proc[c]].size /\ time_left[c] # 0

Budget(c) == IF time_left[c] = 0 THEN TimeSlot ELSE time_left[c]

(* The process has nothing to run: run returns, next_slot.                 *)
RunNothing(c) ==
  /\ Dispatched(c)
  /\ pc[proc[c]] >= job[proc[c]].size
  /\ time_left' = [time_left EXCEPT ![c] = Budget(c) - 1]
  /\ cpc' = [cpc EXCEPT ![c] = "top"]
  /\ Clock!Arrive(c)
  /\ UNCHANGED <<job, schedVars, loaderVars, proc, procVars, waiting, killVars>>

(* run reads pc and finds an instruction there.                            *)
RunTest(c) ==
  /\ Dispatched(c)
  /\ pc[proc[c]] < job[proc[c]].size
  /\ time_left' = [time_left EXCEPT ![c] = Budget(c) - 1]
  /\ at' = [at EXCEPT ![c] = pc[proc[c]]]
  /\ cpc' = [cpc EXCEPT ![c] = "increment"]
  /\ UNCHANGED <<time, stage, job, schedVars, loaderVars, proc, procVars,
                 waiting, name, kill, asked, ran, wanted, cut>>

(* proc->pc++, a load and a store: the increment of what pc is now, or of  *)
(* what it was before a store that came in between.                        *)
Increment(c) ==
  /\ cpc[c] = "increment"
  /\ \E v \in {at[c], pc[proc[c]]} : pc' = [pc EXCEPT ![proc[c]] = v + 1]
  /\ ran' = [ran EXCEPT ![proc[c]] = @ + 1]
  /\ at' = [at EXCEPT ![c] = 0]

Fetched(c) == code(proc[c])[at[c] + 1]

(* Any instruction but killall, then next_slot.                            *)
RunOther(c) ==
  /\ Increment(c)
  /\ Fetched(c).op = "other"
  /\ cpc' = [cpc EXCEPT ![c] = "top"]
  /\ Clock!Arrive(c)
  /\ UNCHANGED <<job, schedVars, loaderVars, proc, time_left, freed, waiting,
                 name, kill, asked, wanted, cut>>

(* The condition under which killall cannot miss process p: it is in       *)
(* running_list, and nothing there was freed, or is dequeued before p for  *)
(* its priority, nor will be when the loader adds it meanwhile.            *)
Findable(p) ==
  /\ \E k \in 1..Len(running_list) : running_list[k] = p
  /\ \A k \in 1..Len(running_list) :
       /\ running_list[k] \notin freed
       /\ priority[running_list[k]] >= priority[p]
  /\ \A q \in Procs \ Added : priority[q] >= priority[p]

(* libsyscall to __sys_killall: the name is read from the caller's memory, *)
(* the first loop is set up.                                               *)
RunKillAll(c) ==
  /\ Increment(c)
  /\ Fetched(c).op = "killall"
  /\ kill' = [kill EXCEPT ![c] =
       [proc_name |-> Fetched(c).name, list |-> "running",
        left |-> Len(running_list), index |-> 0, target |-> NULL]]
  /\ asked' = [asked EXCEPT ![c] =
       {p \in Added \ (freed \cup {proc[c]}) :
          path(p) = Fetched(c).name /\ Findable(p)}]
  /\ wanted' = wanted \cup {Fetched(c).name}
  /\ cpc' = [cpc EXCEPT ![c] = "find"]
  /\ UNCHANGED <<time, stage, job, schedVars, loaderVars, proc, time_left,
                 freed, waiting, name, cut>>
------------------------------------------------------------------------------
(* sys_killall.c, the two loops.                                           *)

(* The queue that the loop of CPU c goes through.                          *)
Swept(c) == IF kill[c].list = "running" THEN running_list ELSE mlq_ready_queue[0]

(* That queue becomes q.                                                   *)
SetSwept(c, q) ==
  /\ running_list' = IF kill[c].list = "running" THEN q ELSE running_list
  /\ mlq_ready_queue' = IF kill[c].list = "running" THEN mlq_ready_queue
                        ELSE [mlq_ready_queue EXCEPT ![0] = q]
  /\ UNCHANGED <<curr_prio, curr_slot>>

(* The places that the search of dequeue may find: the memory of a freed   *)
(* PCB may hold any priority; none in an empty queue.                      *)
Found(q) ==
  IF empty(q) THEN {0}
  ELSE IF \E k \in 1..Len(q) : q[k] \in freed THEN 1..Len(q)
  ELSE {HighestIndex(q, priority)}

(* Some other thread may be in a critical section.                         *)
Overlap(c) == \E d \in (CPUs \cup {Loader}) \ {c} : stage[d] = "working"

(* The turn of the loop that takes out the process at place k.             *)
Turn(c, k) ==
  /\ cpc[c] = "find"
  /\ kill[c].left > 0
  /\ k \in Found(Swept(c))
  /\ kill' = [kill EXCEPT ![c].left = @ - 1, ![c].index = k,
                          ![c].target = IF k = 0 THEN NULL ELSE Swept(c)[k]]
  /\ UNCHANGED <<time, stage, job, loaderVars, proc, time_left, procVars,
                 waiting, name, at, asked, ran, wanted>>

(* One more turn: dequeue, undisturbed.                                    *)
KillDequeue(c) ==
  \E k \in Found(Swept(c)) :
    /\ Turn(c, k)
    /\ IF k = 0 THEN UNCHANGED <<schedVars, cpc>>
       ELSE /\ SetSwept(c, ShiftDown(Swept(c), k))
            /\ cpc' = [cpc EXCEPT ![c] = "decide"]
    /\ UNCHANGED cut

(* One more turn: the search of a dequeue that is cut.                     *)
KillFind(c) ==
  /\ Overlap(c)
  /\ \E k \in Found(Swept(c)) \ {0} : Turn(c, k)
  /\ cpc' = [cpc EXCEPT ![c] = "shift"]
  /\ cut' = TRUE
  /\ UNCHANGED schedVars

(* The array when the entries behind place k have moved down: the last one *)
(* is there twice.                                                         *)
Shifted(q, k) ==
  [n \in 1..Len(q) |-> IF n < k \/ n = Len(q) THEN q[n] ELSE q[n + 1]]

(* Its shift, from the place that was found to what is now the end.        *)
KillShift(c) ==
  /\ cpc[c] = "shift"
  /\ SetSwept(c, Shifted(Swept(c), kill[c].index))
  /\ cpc' = [cpc EXCEPT ![c] = "shrink"]
  /\ UNCHANGED <<time, stage, job, loaderVars, proc, time_left, procVars,
                 waiting, killVars>>

(* Its size--, which cuts off what is now the last entry.                  *)
KillShrink(c) ==
  /\ cpc[c] = "shrink"
  /\ ~empty(Swept(c))
  /\ SetSwept(c, SubSeq(Swept(c), 1, Len(Swept(c)) - 1))
  /\ cpc' = [cpc EXCEPT ![c] = "decide"]
  /\ UNCHANGED <<time, stage, job, loaderVars, proc, time_left, procVars,
                 waiting, killVars>>

Caller(c) == proc[c]

(* Mutation: strcmp's result is taken for a truth value.                   *)
Match_Inverted(c, t) == {path(t) # kill[c].proc_name}

(* What strcmp may say of the path of target t: the path of a freed PCB    *)
(* may have been overwritten.                                              *)
Match(c, t) ==
  {path(t) = kill[c].proc_name}
    \cup (IF t \in freed THEN {FALSE} ELSE {})

(* What the end of a turn leaves in the locals.                            *)
TurnDone(c) ==
  /\ cpc' = [cpc EXCEPT ![c] = "find"]
  /\ kill' = [kill EXCEPT ![c].index = 0, ![c].target = NULL]
  /\ UNCHANGED <<time, stage, job, loaderVars, proc, time_left, waiting, name,
                 at, asked, ran, wanted, cut>>

(* Mutation: a process with another name is not put back.                  *)
KillKeep_Drops(c) ==
  LET t == kill[c].target
  IN /\ cpc[c] = "decide"
     /\ t = Caller(c) \/ FALSE \in Match(c, t)
     /\ TurnDone(c)
     /\ UNCHANGED <<schedVars, procVars>>

(* The caller itself, or another name: enqueue, undisturbed.  No process   *)
(* has pid 0.                                                              *)
KillKeep(c) ==
  LET t == kill[c].target
  IN /\ cpc[c] = "decide"
     /\ t = Caller(c) \/ FALSE \in Match(c, t)
     /\ SetSwept(c, enqueue(Swept(c), t))
     /\ TurnDone(c)
     /\ UNCHANGED procVars

(* The size test of an enqueue that is cut finds room.                     *)
KillTest(c) ==
  LET t == kill[c].target
  IN /\ cpc[c] = "decide"
     /\ t = Caller(c) \/ FALSE \in Match(c, t)
     /\ Overlap(c)
     /\ Len(Swept(c)) < MAX_QUEUE_SIZE
     /\ cpc' = [cpc EXCEPT ![c] = "store"]
     /\ cut' = TRUE
     /\ UNCHANGED <<time, stage, job, schedVars, loaderVars, proc, time_left,
                    procVars, waiting, name, at, kill, asked, ran, wanted>>

(* Its store behind what is now the end, and size++.                       *)
KillStore(c) ==
  /\ cpc[c] = "store"
  /\ Len(Swept(c)) < MAX_QUEUE_SIZE
  /\ SetSwept(c, Append(Swept(c), kill[c].target))
  /\ TurnDone(c)
  /\ UNCHANGED procVars

(* What is not followed: a size that becomes -1, a store past the array,   *)
(* and the other ways in which a call can overlap a section.               *)
KillStray(c) ==
  /\ \/ cpc[c] = "shrink" /\ empty(Swept(c))
     \/ cpc[c] = "store" /\ Len(Swept(c)) = MAX_QUEUE_SIZE
     \/ cpc[c] \in {"find", "decide", "shift", "shrink", "store"} /\ Overlap(c)
  /\ cpc' = [cpc EXCEPT ![c] = "wild"]
  /\ cut' = TRUE
  /\ UNCHANGED <<time, stage, job, schedVars, loaderVars, proc, time_left,
                 procVars, waiting, name, at, kill, asked, ran, wanted>>

Wild == \E c \in CPUs : cpc[c] = "wild"

(* Mutation: pc is set past the end, where cpu_routine does not look.      *)
KillEnd_PastEnd(c) ==
  LET t == kill[c].target
  IN /\ cpc[c] = "decide"
     /\ kill[c].list = "running"
     /\ t # Caller(c)
     /\ TRUE \in Match(c, t)
     /\ pc' = [pc EXCEPT ![t] = job[t].size + 1]
     /\ TurnDone(c)
     /\ UNCHANGED <<schedVars, freed>>

(* Mutation: the loop ends with the first process that has the name.       *)
KillEnd_Breaks(c) ==
  LET t == kill[c].target
  IN /\ cpc[c] = "decide"
     /\ kill[c].list = "running"
     /\ t # Caller(c)
     /\ TRUE \in Match(c, t)
     /\ pc' = [pc EXCEPT ![t] = job[t].size]
     /\ kill' = [kill EXCEPT ![c].left = 0, ![c].index = 0, ![c].target = NULL]
     /\ cpc' = [cpc EXCEPT ![c] = "find"]
     /\ UNCHANGED <<time, stage, job, loaderVars, proc, time_left, waiting, name,
                    at, asked, ran, wanted, cut, schedVars, freed>>

(* The name, in running_list: pc is set to the end of the code.            *)
KillEnd(c) ==
  LET t == kill[c].target
  IN /\ cpc[c] = "decide"
     /\ kill[c].list = "running"
     /\ t # Caller(c)
     /\ TRUE \in Match(c, t)
     /\ pc' = [pc EXCEPT ![t] = job[t].size]
     /\ TurnDone(c)
     /\ UNCHANGED <<schedVars, freed>>

(* Mutation: the freed PCB is put back in the queue.                       *)
KillFree_Requeues(c) ==
  LET t == kill[c].target
  IN /\ cpc[c] = "decide"
     /\ kill[c].list = "ready"
     /\ t # Caller(c)
     /\ TRUE \in Match(c, t)
     /\ freed' = freed \cup {t}
     /\ SetSwept(c, enqueue(Swept(c), t))
     /\ TurnDone(c)
     /\ UNCHANGED pc

(* The name, in the ready queue: the PCB is freed (and a region of its     *)
(* memory, which is Free of Regions).                                      *)
KillFree(c) ==
  LET t == kill[c].target
  IN /\ cpc[c] = "decide"
     /\ kill[c].list = "ready"
     /\ t # Caller(c)
     /\ TRUE \in Match(c, t)
     /\ freed' = freed \cup {t}
     /\ TurnDone(c)
     /\ UNCHANGED <<schedVars, pc>>

(* The first loop is over: mlq_ready_queue points to the first of the      *)
(* ready queues, the only one that is searched.                            *)
KillReadyQueue(c) ==
  /\ cpc[c] = "find"
  /\ kill[c].left = 0
  /\ kill[c].list = "running"
  /\ kill' = [kill EXCEPT ![c].list = "ready",
                          ![c].left = Len(mlq_ready_queue[0])]
  /\ UNCHANGED <<vars, name, at, asked, ran, wanted, cut>>

(* killall returns, then next_slot.                                        *)
KillReturn(c) ==
  /\ cpc[c] = "find"
  /\ kill[c].left = 0
  /\ kill[c].list = "ready"
  /\ kill' = [kill EXCEPT ![c] = NoCall]
  /\ asked' = [asked EXCEPT ![c] = {}]
  /\ cpc' = [cpc EXCEPT ![c] = "top"]
  /\ Clock!Arrive(c)
  /\ UNCHANGED <<job, schedVars, loaderVars, proc, time_left, procVars, waiting,
                 name, at, ran, wanted, cut>>
------------------------------------------------------------------------------
RunStep(c) == RunNothing(c) \/ RunTest(c) \/ RunOther(c) \/ RunKillAll(c)

KillStep(c) ==
  \/ KillDequeue(c) \/ KillKeep(c) \/ KillEnd(c) \/ KillFree(c)
  \/ KillReadyQueue(c) \/ KillReturn(c)

(* Where a critical section overlaps a call.                               *)
CutStep(c) ==
  \/ KillFind(c) \/ KillShift(c) \/ KillShrink(c)
  \/ KillTest(c) \/ KillStore(c) \/ KillStray(c)

(* The rest of cpu_routine.                                                *)
SchedStep(c) ==
  \/ FetchIdle(c) \/ Finish(c) \/ PutRunningList(c) \/ PutReady(c)
  \/ Fetch(c) \/ Stop(c) \/ SkipSlot(c)

KillCpuStep(c) ==
  \/ RunStep(c)
  \/ KillStep(c)
  \/ CutStep(c)
  \/ SchedStep(c) /\ UNCHANGED killVars

KillNext ==
  \/ \E c \in CPUs : KillCpuStep(c)
  \/ (LoaderStep \/ NextSlot \/ LastSlot) /\ UNCHANGED killVars
  \/ Wild /\ UNCHANGED allVars

KillSpec == KillInit /\ [][KillNext]_allVars

(* As in Kernel.                                                           *)
KillFairSpec ==
  /\ KillSpec
  /\ \A c \in CPUs : WF_allVars(KillCpuStep(c))
  /\ WF_allVars(LoaderStep /\ UNCHANGED killVars)
  /\ WF_allVars(NextSlot /\ UNCHANGED killVars)
------------------------------------------------------------------------------
(* Properties.  What killall guarantees as long as no critical section has *)
(* overlapped one of its calls of dequeue and enqueue: the sections of the *)
(* loader and of other CPUs fall anywhere between them.                    *)

(* A process that killall has in its hands: out of the ready queue, and    *)
(* neither freed nor put back yet.                                         *)
InHand(p) ==
  \E c \in CPUs : /\ cpc[c] = "decide"
                   /\ kill[c].list = "ready"
                   /\ kill[c].target = p

(* killall makes no second entry for a process, and leaves none for a PCB  *)
(* that it frees, while the loader and the scheduler use the same queues.  *)
KillSingleHome == ~cut => SingleHome

(* sched.c, "Remember to use lock to protect the queue", at every place    *)
(* where no call of killall's is in progress: no process has two entries   *)
(* or an entry after its PCB was freed.  killall does not use the lock.    *)
QueueProtected ==
  (\A c \in CPUs : cpc[c] \notin CutPCs) => SingleHome

(* killall loses nobody: a process that has been added and not freed is in *)
(* a ready queue, on a CPU, or on its way through killall, whatever the    *)
(* order in which the queue is turned over.                                *)
NoneLostToKill ==
  ~cut => \A p \in Added \ freed : Homes(p) # {} \/ InHand(p)

(* When a call of killall is over each process that had the name in its    *)
(* path when it began, the caller excepted, has been freed or is at the    *)
(* end of its code, however often it is in running_list and wherever it    *)
(* waits; but only if it was Findable.                                     *)
TerminatesByName ==
  ~cut =>
    \A c \in CPUs :
      cpc[c] = "find" /\ kill[c].list = "ready" /\ kill[c].left = 0 =>
        \A p \in asked[c] : p \in freed \/ pc[p] = job[p].size

(* The others are left alone: a process ends without having executed its   *)
(* whole program only if some killall asked for the name in its path.      *)
OthersRunToEnd ==
  ~cut => \A p \in freed : ran[p] = job[p].size \/ path(p) \in wanted

(* killall stops nobody else for good: every process finishes, or is       *)
(* killed and then freed, unless a call was overlapped.                    *)
KilledFinish == []~cut => EveryProcessFinishes
==============================================================================
