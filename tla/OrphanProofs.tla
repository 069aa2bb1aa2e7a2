----------------------------- MODULE OrphanProofs -----------------------------
(***************************************************************************)
(* When the queues have room for every process, no process is lost and     *)
(* none is left behind by the CPUs; and with queues of any size no CPU is  *)
(* idle while a process waits: for every number of CPUs, processes and     *)
(* priorities.                                                             *)
(***************************************************************************)
EXTENDS KernelProofs, FiniteSetTheorems

(* The positions of the ready queues that hold p.                          *)
Waits(p) == \E k \in Prios : \E n \in Places(k) : mlq_ready_queue[k][n] = p

(* An added process that has not finished is on a CPU or in a queue.       *)
Held(p) == Waits(p) \/ \E c \in CPUs : proc[c] = p
FoundInv == \A p \in Added \ freed : Held(p)

(* A CPU that will look at the queues again before it can stop.            *)
Looking(c) == /\ cpc[c] # "stopped"
              /\ cpc[c] = "recheck" => proc[c] # NULL

(* The loader sets done when it has added everything and leaves; a CPU     *)
(* stops only after that.                                                  *)
DoneInv ==
  /\ done <=> stage[Loader] = "gone"
  /\ done => i = NumProcs + 1
  /\ \A c \in CPUs : cpc[c] = "stopped" => done

(* While a process waits, some CPU will look at the queues again; the      *)
(* exception is the slot in which the loader has just added a process.     *)
LookInv ==
  (\E p \in Procs : Waits(p)) =>
    stage[Loader] = "arrived" \/ \E c \in CPUs : Looking(c)
------------------------------------------------------------------------------
(* A queue that does not hold p is not full.                               *)
LEMMA RoomForOneMore ==
  ASSUME NumProcs <= MAX_QUEUE_SIZE, SchedType, HomeInv,
         NEW p \in Procs, ~ Waits(p), NEW k \in Prios
  PROVE  Len(mlq_ready_queue[k]) < MAX_QUEUE_SIZE
<1> DEFINE q == mlq_ready_queue[k]
<1>1. q \in Seq(Procs) /\ Len(q) \in Nat
  BY DEF SchedType
<1>2. \A n \in 1..Len(q) : q[n] \in Procs \ {p}
  BY <1>1 DEF Waits, Places
<1>3. \A m, n \in 1..Len(q) : q[m] = q[n] => m = n
  BY DEF HomeInv, Places
<1> HIDE DEF q
<1>4. /\ IsFiniteSet(Procs \ {p})
      /\ Cardinality(Procs \ {p}) = NumProcs - 1
  <2>1. IsFiniteSet(Procs) /\ Cardinality(Procs) = NumProcs
    <3>1. NumProcs \in Nat /\ 1 <= NumProcs
      BY KernelAssumption DEF Procs
    <3>2. /\ IsFiniteSet(1..NumProcs)
          /\ Cardinality(1..NumProcs) =
               IF 1 > NumProcs THEN 0 ELSE NumProcs - 1 + 1
      BY <3>1, FS_Interval
    <3> QED BY <3>1, <3>2 DEF Procs
  <2> QED BY <2>1, FS_RemoveElement
<1>5. ASSUME Len(q) >= MAX_QUEUE_SIZE PROVE FALSE
  <2>1. IsFiniteSet(1..Len(q)) /\ Cardinality(1..Len(q)) = Len(q)
    <3>1. Len(q) >= 1
      BY <1>1, <1>5, QueueAssumption
    <3>2. /\ IsFiniteSet(1..Len(q))
          /\ Cardinality(1..Len(q)) = IF 1 > Len(q) THEN 0 ELSE Len(q) - 1 + 1
      BY <1>1, FS_Interval
    <3> QED BY <1>1, <3>1, <3>2
  <2>2. Cardinality(Procs \ {p}) < Cardinality(1..Len(q))
    BY <1>1, <1>4, <1>5, <2>1, KernelAssumption, QueueAssumption
  <2>3. q \in [1..Len(q) -> Procs \ {p}]
    BY <1>1, <1>2
  <2>4. \E m, n \in 1..Len(q) : m # n /\ q[m] = q[n]
    BY <1>4, <2>1, <2>2, <2>3, FS_PigeonHole
  <2> QED BY <1>3, <2>4
<1> QED BY <1>1, <1>5, QueueAssumption DEF q

(* A process of which get_proc finds none: all queues are empty.           *)
LEMMA NoneReady ==
  ASSUME SchedType, HomeInv, NEW c \in CPUs, proc[c] = NULL, get_mlq_proc(c),
         proc'[c] = NULL, UNCHANGED <<i, freed>>
  PROVE  \A p \in Procs : ~ Waits(p)'
<1>1. Ready \subseteq Nat
  BY KernelAssumption DEF Ready, Prios
<1>2. CASE Ready = {}
  <2>1. ~ \E k \in Prios : FirstReady(k)
    BY <1>2 DEF FirstReady
  <2>2. UNCHANGED mlq_ready_queue
    BY <2>1 DEF get_mlq_proc
  <2>3. \A k \in Prios : Len(mlq_ready_queue[k]) = 0
    BY <1>2 DEF Ready, empty
  <2> QED BY <2>2, <2>3 DEF Waits, Places
<1>3. CASE Ready # {}
  <2>1. PICK k \in Ready : \A l \in Ready : k <= l
    BY <1>1, <1>3, LeastNatural
  <2>2. \E l \in Prios : FirstReady(l)
    BY <2>1 DEF FirstReady, Ready
  <2>3. PICK l \in Prios :
          /\ FirstReady(l)
          /\ proc' = [proc EXCEPT ![c] = dequeued(mlq_ready_queue[l], priority)]
    BY <2>2 DEF get_mlq_proc
  <2>4. mlq_ready_queue[l] \in Seq(Procs) /\ Len(mlq_ready_queue[l]) # 0
    BY <2>3 DEF FirstReady, Ready, empty, SchedType
  <2>5. dequeued(mlq_ready_queue[l], priority) \in Procs
    BY <2>4, JobType, DequeueProperties
  <2>6. proc'[c] \in Procs
    BY <2>3, <2>5 DEF SchedType
  <2> QED BY <2>6, KernelAssumption
<1> QED BY <1>2, <1>3
------------------------------------------------------------------------------
(* Whoever is held has a home.                                             *)
LEMMA HeldHome ==
  ASSUME SchedType, NEW p, Held(p)
  PROVE  Homes(p) # {}
<1>1. CASE Waits(p)
  <2>1. PICK k \in Prios : \E n \in Places(k) : mlq_ready_queue[k][n] = p
    BY <1>1 DEF Waits
  <2>2. PICK n \in Places(k) : mlq_ready_queue[k][n] = p
    BY <2>1
  <2>3. n \in 1..MAX_QUEUE_SIZE /\ n <= Len(mlq_ready_queue[k])
    BY QueueAssumption DEF SchedType, Places
  <2>4. <<"ready", k, n>> \in Homes(p)
    BY <2>2, <2>3 DEF Homes
  <2> QED BY <2>4
<1>2. CASE \E c \in CPUs : proc[c] = p
  <2>1. PICK c \in CPUs : proc[c] = p
    BY <1>2
  <2>2. <<"cpu", c>> \in Homes(p)
    BY <2>1 DEF Homes
  <2> QED BY <2>2
<1> QED BY <1>1, <1>2 DEF Held
------------------------------------------------------------------------------
(* No step loses a process.                                                *)

(* get_proc moves a process from a queue to the CPU.                       *)
LEMMA GetHeld ==
  ASSUME SchedType, HomeInv, NEW c \in CPUs, proc[c] = NULL, get_mlq_proc(c),
         UNCHANGED <<i, freed>>, NEW p \in Added, Held(p)
  PROVE  Held(p)'
<1>1. /\ \A d \in CPUs \ {c} : proc'[d] = proc[d]
      /\ \A k \in Prios : \A m \in Places(k) :
           \/ mlq_ready_queue[k][m] = proc'[c]
           \/ \E n \in Places(k)' :
                mlq_ready_queue'[k][n] = mlq_ready_queue[k][m]
  BY GetProc
<1>2. Waits(p) => Waits(p)' \/ proc'[c] = p
  BY <1>1 DEF Waits
<1>3. p # NULL
  BY KernelAssumption DEF SchedType, Added, Procs
<1>4. \A d \in CPUs : proc[d] = p => proc'[d] = p
  BY <1>1, <1>3
<1> QED BY <1>2, <1>4 DEF Held

(* put_proc moves the process of the CPU to a queue, which has room.       *)
LEMMA PutHeld ==
  ASSUME NumProcs <= MAX_QUEUE_SIZE, SchedType, HomeInv, NEW c \in CPUs,
         proc[c] # NULL, PutReady(c), NEW p, Held(p)
  PROVE  Held(p)'
<1>1. /\ put_mlq_proc(proc[c])
      /\ \A d \in CPUs \ {c} : proc'[d] = proc[d]
  BY DEF PutReady, SchedType
<1>2. proc[c] \in Procs /\ ~ Waits(proc[c])
  BY DEF SchedType, HomeInv, Waits
<1>3. Len(mlq_ready_queue[job[proc[c]].prio]) < MAX_QUEUE_SIZE
  BY <1>2, JobType, RoomForOneMore
<1>4. \E k \in Prios : \E n \in Places(k)' : mlq_ready_queue'[k][n] = proc[c]
  BY <1>1, <1>2, <1>3, PutProc
<1>5. \A k \in Prios : \A n \in Places(k) :
        n \in Places(k)' /\ mlq_ready_queue'[k][n] = mlq_ready_queue[k][n]
  BY <1>1, <1>2, PutProc
<1>6. CASE Waits(p)
  BY <1>5, <1>6 DEF Waits, Held
<1>7. CASE p = proc[c]
  BY <1>4, <1>7 DEF Waits, Held
<1>8. CASE \E d \in CPUs \ {c} : proc[d] = p
  BY <1>1, <1>8 DEF Held
<1> QED BY <1>6, <1>7, <1>8 DEF Held

(* add_proc puts the new process in a queue, which has room.               *)
LEMMA LoadHeld ==
  ASSUME NumProcs <= MAX_QUEUE_SIZE, SchedType, HomeInv, i <= NumProcs, LdReady
  PROVE  /\ Added' = Added \cup {i}
         /\ freed' = freed
         /\ \A p : Held(p) \/ p = i => Held(p)'
<1>1. /\ put_mlq_proc(i)
      /\ i' = i + 1
      /\ UNCHANGED <<proc, freed>>
  BY DEF LdReady, cpuVars, procVars
<1>2. i \in Procs /\ i \notin Added /\ Added' = Added \cup {i}
  BY <1>1, KernelAssumption DEF SchedType, Procs, Added
<1>3. ~ Waits(i)
  BY <1>2 DEF HomeInv, Waits
<1>4. Len(mlq_ready_queue[job[i].prio]) < MAX_QUEUE_SIZE
  BY <1>2, <1>3, JobType, RoomForOneMore
<1>5. \E k \in Prios : \E n \in Places(k)' : mlq_ready_queue'[k][n] = i
  BY <1>1, <1>2, <1>4, PutProc
<1>6. \A k \in Prios : \A n \in Places(k) :
        n \in Places(k)' /\ mlq_ready_queue'[k][n] = mlq_ready_queue[k][n]
  BY <1>1, <1>2, PutProc
<1>7. \A p : Held(p) => Held(p)'
  BY <1>1, <1>6 DEF Waits, Held
<1>8. \A p : Waits(p)' <=> \E k \in Prios : \E n \in Places(k)' : mlq_ready_queue'[k][n] = p
  BY DEF Waits
<1> QED BY <1>1, <1>2, <1>5, <1>7, <1>8 DEF Held

(* And so FoundInv is kept.                                                *)
LEMMA FoundNext ==
  ASSUME NumProcs <= MAX_QUEUE_SIZE, IInv, FoundInv, [Next]_vars
  PROVE  FoundInv'
<1> USE DEF IInv
<1>0. SchedType
  BY TypeSched
<1>1. ASSUME NEW c \in CPUs, FetchIdle(c) \/ Fetch(c) PROVE FoundInv'
  <2>1. proc[c] = NULL /\ get_mlq_proc(c) /\ UNCHANGED <<i, freed>>
    BY <1>1 DEF FetchIdle, Fetch, LabelInv, loaderVars, procVars
  <2> QED BY <1>0, <2>1, GetHeld DEF FoundInv, Added
<1>2. ASSUME NEW c \in CPUs, Finish(c) PROVE FoundInv'
  <2>1. /\ freed' = freed \cup {proc[c]}
        /\ \A d \in CPUs \ {c} : proc'[d] = proc[d]
        /\ UNCHANGED <<mlq_ready_queue, i>>
    BY <1>2 DEF Finish, TypeOK, schedVars, loaderVars
  <2> QED BY <2>1 DEF FoundInv, Held, Waits, Places, Added
<1>3. ASSUME NEW c \in CPUs, PutReady(c) PROVE FoundInv'
  <2>1. proc[c] # NULL /\ UNCHANGED <<i, freed>>
    BY <1>3 DEF PutReady, LabelInv, loaderVars, procVars
  <2> QED BY <1>0, <1>3, <2>1, PutHeld DEF FoundInv, Added
<1>4. CASE LdReady
  <2>1. i <= NumProcs
    BY <1>4 DEF LdReady, LabelInv
  <2>2. /\ Added' = Added \cup {i}
        /\ freed' = freed
        /\ \A p : Held(p) \/ p = i => Held(p)'
    BY <1>0, <1>4, <2>1, LoadHeld
  <2> QED BY <2>2 DEF FoundInv
<1>5. CASE UNCHANGED <<mlq_ready_queue, proc, i, freed>>
  BY <1>5 DEF FoundInv, Held, Waits, Places, Added
<1>6. ASSUME NEW c \in CPUs,
             PutRunningList(c) \/ Stop(c) \/ SkipSlot(c) \/ Run(c)
      PROVE  UNCHANGED <<mlq_ready_queue, proc, i, freed>>
  BY <1>6 DEF PutRunningList, Stop, SkipSlot, Run, schedVars, loaderVars,
              procVars
<1>7. CASE LdWait \/ LdRunningList \/ LdExit \/ NextSlot \/ LastSlot
  BY <1>5, <1>7 DEF LdWait, LdRunningList, LdExit, NextSlot, LastSlot,
                    schedVars, loaderVars, cpuVars, procVars
<1>8. CASE UNCHANGED vars
  BY <1>5, <1>8 DEF vars, schedVars, loaderVars, cpuVars, procVars
<1> QED BY <1>1, <1>2, <1>3, <1>4, <1>5, <1>6, <1>7, <1>8
        DEF Next, CpuStep, LoaderStep

(* The loader leaves once, with everything added; CPUs stop after it.      *)
LEMMA DoneNext ==
  ASSUME IInv, DoneInv, [Next]_vars
  PROVE  DoneInv'
<1> USE DEF IInv
<1>1. ASSUME NEW c \in CPUs, CpuStep(c) PROVE DoneInv'
  <2>1. /\ UNCHANGED <<done, i>>
        /\ stage'[Loader] = stage[Loader]
        /\ \A d \in CPUs \ {c} : cpc'[d] = cpc[d]
    <3>1. UNCHANGED <<time, stage>> \/ Clock!Arrive(c) \/ Clock!Detach(c)
      BY <1>1 DEF CpuStep, FetchIdle, Finish, PutRunningList, PutReady, Fetch,
                  Stop, SkipSlot, Run
    <3>2. stage'[Loader] = stage[Loader]
      BY <3>1, TypeSched, ClockStep, KernelAssumption
    <3>3. UNCHANGED <<done, i>>
      BY <1>1 DEF CpuStep, FetchIdle, Finish, PutRunningList, PutReady, Fetch,
                  Stop, SkipSlot, Run, loaderVars
    <3>4. \A d \in CPUs \ {c} : cpc'[d] = cpc[d]
      BY <1>1 DEF CpuStep, FetchIdle, Finish, PutRunningList, PutReady, Fetch,
                  Stop, SkipSlot, Run, TypeOK
    <3> QED BY <3>2, <3>3, <3>4
  <2>2. cpc'[c] = "stopped" => done
    BY <1>1 DEF CpuStep, FetchIdle, Finish, PutRunningList, PutReady, Fetch,
                Stop, SkipSlot, Run, TypeOK, DoneInv
  <2> QED BY <2>1, <2>2 DEF DoneInv
<1>2. CASE LdExit
  <2>1. /\ i = NumProcs + 1 /\ i' = i
        /\ done'
        /\ stage'[Loader] = "gone"
        /\ cpc' = cpc
    BY <1>2 DEF LdExit, Clock!Detach, TypeOK, Clock!ClockTypeOK, cpuVars
  <2> QED BY <2>1 DEF DoneInv
<1>3. CASE LdWait \/ LdReady
  <2>1. stage[Loader] = "working" /\ stage'[Loader] = "arrived"
    BY <1>3 DEF LdWait, LdReady, Clock!Arrive, TypeOK, Clock!ClockTypeOK
  <2>2. UNCHANGED <<done, cpc>>
    BY <1>3 DEF LdWait, LdReady, loaderVars, cpuVars
  <2> QED BY <2>1, <2>2 DEF DoneInv
<1>4. CASE NextSlot \/ LastSlot
  <2>1. stage'[Loader] = "gone" <=> stage[Loader] = "gone"
    BY <1>4 DEF NextSlot, LastSlot, Clock!Tick, Clock!LastTick
  <2>2. UNCHANGED <<done, i, cpc>>
    BY <1>4 DEF NextSlot, LastSlot, loaderVars, cpuVars
  <2> QED BY <2>1, <2>2 DEF DoneInv
<1>5. CASE LdRunningList \/ UNCHANGED vars
  BY <1>5 DEF LdRunningList, vars, loaderVars, cpuVars, DoneInv
<1> QED BY <1>1, <1>2, <1>3, <1>4, <1>5 DEF Next, LoaderStep

(* While a process waits, somebody will look again.                        *)
LEMMA LookNext ==
  ASSUME CPUs # {}, IInv, DoneInv, LookInv, [Next]_vars
  PROVE  LookInv'
<1> USE DEF IInv
<1>1. ASSUME NEW c \in CPUs, FetchIdle(c) PROVE LookInv'
  <2>1. \/ cpc'[c] = "top"
        \/ cpc'[c] = "recheck" /\ proc'[c] # NULL
    BY <1>1 DEF FetchIdle, TypeOK
  <2> QED BY <2>1 DEF LookInv, Looking
<1>2. ASSUME NEW c \in CPUs, Fetch(c) PROVE LookInv'
  <2>1. /\ proc[c] = NULL /\ get_mlq_proc(c) /\ UNCHANGED <<i, freed>>
        /\ cpc'[c] = "recheck"
    BY <1>2 DEF Fetch, LabelInv, TypeOK, loaderVars, procVars
  <2>2. CASE proc'[c] = NULL
    BY <2>1, <2>2, TypeSched, NoneReady DEF LookInv
  <2>3. CASE proc'[c] # NULL
    BY <2>1, <2>3 DEF LookInv, Looking
  <2> QED BY <2>2, <2>3
<1>3. ASSUME NEW c \in CPUs,
             \/ Finish(c) \/ PutRunningList(c) \/ PutReady(c)
             \/ SkipSlot(c) \/ Run(c)
      PROVE  LookInv'
  <2>1. cpc'[c] \in {"fetch", "put", "top"}
    BY <1>3 DEF Finish, PutRunningList, PutReady, SkipSlot, Run, TypeOK
  <2> QED BY <2>1 DEF LookInv, Looking
<1>4. ASSUME NEW c \in CPUs, Stop(c) PROVE LookInv'
  <2>1. /\ cpc[c] = "recheck" /\ proc[c] = NULL
        /\ \A d \in CPUs \ {c} : cpc'[d] = cpc[d]
        /\ UNCHANGED <<proc, mlq_ready_queue>>
        /\ Clock!Detach(c)
    BY <1>4 DEF Stop, TypeOK, schedVars
  <2>2. stage'[Loader] = stage[Loader]
    BY <2>1, TypeSched, ClockStep, KernelAssumption
  <2>3. \A d \in CPUs : Looking(d) => Looking(d)'
    BY <2>1 DEF Looking
  <2>4. \A p \in Procs : Waits(p)' <=> Waits(p)
    BY <2>1 DEF Waits, Places
  <2> QED BY <2>2, <2>3, <2>4 DEF LookInv
<1>5. CASE LdWait \/ LdReady
  BY <1>5 DEF LdWait, LdReady, Clock!Arrive, TypeOK, Clock!ClockTypeOK, LookInv
<1>6. CASE LdExit \/ LdRunningList \/ UNCHANGED vars
  <2>1. UNCHANGED <<cpc, proc, mlq_ready_queue>>
    BY <1>6 DEF LdExit, LdRunningList, vars, schedVars, cpuVars
  <2>2. stage[Loader] = "arrived" => stage'[Loader] = "arrived"
    BY <1>6 DEF LdExit, LdRunningList, vars, Clock!Detach
  <2>3. \A d \in CPUs : Looking(d) => Looking(d)'
    BY <2>1 DEF Looking
  <2>4. \A p \in Procs : Waits(p)' <=> Waits(p)
    BY <2>1 DEF Waits, Places
  <2> QED BY <2>2, <2>3, <2>4 DEF LookInv
<1>7. CASE NextSlot \/ LastSlot
  <2>1. UNCHANGED <<cpc, proc, mlq_ready_queue>>
    BY <1>7 DEF NextSlot, LastSlot, schedVars, cpuVars
  <2>2. \A d \in CPUs \cup {Loader} : stage[d] # "working"
    BY <1>7 DEF NextSlot, LastSlot, Clock!Tick, Clock!LastTick
  <2>3. CASE stage[Loader] = "arrived"
    <3>1. PICK c \in CPUs : TRUE
      OBVIOUS
    <3>2. cpc[c] # "stopped"
      BY <2>3 DEF DoneInv
    <3>3. cpc[c] # "recheck"
      BY <2>2 DEF LabelInv
    <3> QED BY <2>1, <3>2, <3>3 DEF LookInv, Looking
  <2>4. CASE stage[Loader] # "arrived"
    <3>1. \A d \in CPUs : Looking(d) => Looking(d)'
      BY <2>1 DEF Looking
    <3>2. \A p \in Procs : Waits(p)' <=> Waits(p)
      BY <2>1 DEF Waits, Places
    <3> QED BY <2>4, <3>1, <3>2 DEF LookInv
  <2> QED BY <2>3, <2>4
<1> QED BY <1>1, <1>2, <1>3, <1>4, <1>5, <1>6, <1>7
        DEF Next, CpuStep, LoaderStep
------------------------------------------------------------------------------
(* No CPU is idle while a process waits.                                   *)

(* The processes in a ready queue, and the CPUs that are about to call     *)
(* get_proc.                                                               *)
Queued == {p \in Procs : Waits(p)}
Fetching == {c \in CPUs : cpc[c] = "fetch"}

(* Every member of W has a member of F of its own.                         *)
Matched(W, F) ==
  \E f \in [W -> F] : \A p, q \in W : f[p] = f[q] => p = q

(* A CPU that has seen all queues empty and has no process.                *)
Bare(c) == cpc[c] = "stopped" \/ (cpc[c] = "recheck" /\ proc[c] = NULL)

(* Once a CPU has seen the queues empty, every process in them was put     *)
(* there by a CPU that has yet to fetch; the exception is the slot in      *)
(* which the loader has just added a process.                              *)
MatchInv ==
  (\E c \in CPUs : Bare(c)) /\ stage[Loader] # "arrived" =>
    Matched(Queued, Fetching)

(* While a process that was queued when the slot began is still queued, a  *)
(* CPU without a process is at work and has yet to look at the queues.     *)
BusyInv ==
  /\ \A p \in waiting : Waits(p)
  /\ waiting # {} =>
       \A c \in CPUs : proc[c] = NULL =>
         stage[c] = "working" /\ cpc[c] # "recheck"
  /\ \A c \in CPUs : stage[c] = "gone" => cpc[c] = "stopped"

(* Nothing needs nobody.                                                   *)
LEMMA MatchNone ==
  ASSUME NEW W, NEW F, W = {}
  PROVE  Matched(W, F)
<1>1. [p \in W |-> p] \in [W -> F]
  OBVIOUS
<1> QED BY <1>1 DEF Matched

(* Fewer processes, or more CPUs.                                          *)
LEMMA MatchFewer ==
  ASSUME NEW W, NEW F, NEW V, NEW G, Matched(W, F), V \subseteq W, F \subseteq G
  PROVE  Matched(V, G)
<1>1. PICK f \in [W -> F] : \A p, q \in W : f[p] = f[q] => p = q
  BY DEF Matched
<1> DEFINE g == [p \in V |-> f[p]]
<1>2. g \in [V -> G]
  BY <1>1
<1>3. \A p, q \in V : g[p] = g[q] => p = q
  BY <1>1
<1> QED BY <1>2, <1>3 DEF Matched

(* One more process, with one more CPU.                                    *)
LEMMA MatchMore ==
  ASSUME NEW W, NEW F, NEW V, NEW G, Matched(W, F), NEW p, NEW c,
         V \subseteq W \cup {p}, F \cup {c} \subseteq G, c \notin F
  PROVE  Matched(V, G)
<1>1. PICK f \in [W -> F] : \A r, q \in W : f[r] = f[q] => r = q
  BY DEF Matched
<1> DEFINE g == [q \in V |-> IF q \in W THEN f[q] ELSE c]
<1>2. g \in [V -> G]
  BY <1>1
<1>3. \A r, q \in V : g[r] = g[q] => r = q
  BY <1>1
<1> QED BY <1>2, <1>3 DEF Matched

(* A CPU leaves with a process, not necessarily its own: the one whose CPU *)
(* has left gets the CPU of the one that was taken.                        *)
LEMMA MatchTaken ==
  ASSUME NEW W, NEW F, NEW V, NEW G, Matched(W, F), NEW p \in W, NEW c,
         V \subseteq W \ {p}, F \ {c} \subseteq G
  PROVE  Matched(V, G)
<1>1. PICK f \in [W -> F] : \A r, q \in W : f[r] = f[q] => r = q
  BY DEF Matched
<1> DEFINE g == [q \in V |-> IF f[q] = c THEN f[p] ELSE f[q]]
<1>2. \A q \in V : q \in W /\ q # p /\ f[q] # f[p] /\ f[q] \in F /\ f[p] \in F
  BY <1>1
<1>3. g \in [V -> G]
  BY <1>2
<1>4. \A r, q \in V : g[r] = g[q] => r = q
  BY <1>1, <1>2
<1> QED BY <1>3, <1>4 DEF Matched

(* What get_proc does to the processes that wait: it takes one of them, or *)
(* sees that there are none.                                               *)
LEMMA GetWaiting ==
  ASSUME TypeOK, HomeInv, NEW c \in CPUs, proc[c] = NULL, get_mlq_proc(c),
         UNCHANGED <<i, freed>>
  PROVE  /\ waiting' \subseteq waiting
         /\ proc'[c] \notin waiting'
         /\ proc'[c] = NULL => Queued' = {}
         /\ proc'[c] # NULL => proc'[c] \in Queued
         /\ Queued' \subseteq Queued \ {proc'[c]}
         /\ \A p \in Queued : p \in Queued' \/ p = proc'[c]
<1>1. waiting' \subseteq waiting /\ proc'[c] \notin waiting'
  <2>1. CASE ~ \E k \in Prios : FirstReady(k)
    BY <2>1, KernelAssumption DEF get_mlq_proc, TypeOK
  <2>2. CASE \E k \in Prios : FirstReady(k)
    BY <2>2 DEF get_mlq_proc, TypeOK
  <2> QED BY <2>1, <2>2
<1>2. proc'[c] = NULL => Queued' = {}
  BY TypeSched, NoneReady DEF Queued
<1>3. /\ HomeInv'
      /\ proc' \in [CPUs -> Procs \cup {NULL}]
      /\ proc'[c] # NULL =>
           \E k \in Prios : \E m \in Places(k) : proc'[c] = mlq_ready_queue[k][m]
      /\ \A k \in Prios : \A n \in Places(k)' : \E m \in Places(k) :
           mlq_ready_queue'[k][n] = mlq_ready_queue[k][m]
      /\ \A k \in Prios : \A m \in Places(k) :
           \/ mlq_ready_queue[k][m] = proc'[c]
           \/ \E n \in Places(k)' :
                mlq_ready_queue'[k][n] = mlq_ready_queue[k][m]
  BY TypeSched, GetProc
<1>4. proc'[c] # NULL => proc'[c] \in Queued
  BY <1>3 DEF Queued, Waits
<1>5. \A p \in Procs : Waits(p)' => Waits(p) /\ p # proc'[c]
  BY <1>3 DEF Waits, HomeInv
<1>6. \A p \in Procs : Waits(p) => Waits(p)' \/ p = proc'[c]
  BY <1>3 DEF Waits
<1> QED BY <1>1, <1>2, <1>4, <1>5, <1>6 DEF Queued

(* Whoever puts a process into a queue fetches next, or is the loader.     *)
LEMMA MatchNext ==
  ASSUME IInv, DoneInv, MatchInv, [Next]_vars
  PROVE  MatchInv'
<1> USE DEF IInv
<1>1. ASSUME NEW c \in CPUs, FetchIdle(c) \/ Fetch(c) PROVE MatchInv'
  <2>1. /\ proc[c] = NULL /\ get_mlq_proc(c) /\ UNCHANGED <<i, freed>>
        /\ \A d \in CPUs \ {c} : cpc'[d] = cpc[d]
        /\ cpc'[c] \in {"top", "recheck"}
        /\ cpc[c] \in {"top", "fetch"}
        /\ UNCHANGED <<time, stage>> \/ Clock!Arrive(c)
    BY <1>1 DEF FetchIdle, Fetch, LabelInv, TypeOK, loaderVars, procVars
  <2>2. CASE proc'[c] = NULL
    <3>1. Queued' = {}
      BY <2>1, <2>2, GetWaiting
    <3> QED BY <3>1, MatchNone DEF MatchInv
  <2>3. CASE proc'[c] # NULL
    <3>1. stage'[Loader] = stage[Loader]
      BY <2>1, TypeSched, ClockStep, KernelAssumption
    <3>2. \A d \in CPUs \ {c} : proc'[d] = proc[d]
      BY <2>1, TypeSched, GetProc
    <3>3. \A d \in CPUs : Bare(d)' => Bare(d)
      BY <2>1, <2>3, <3>2 DEF Bare
    <3>4. Fetching \ {c} \subseteq Fetching'
      BY <2>1 DEF Fetching
    <3>5. proc'[c] \in Queued /\ Queued' \subseteq Queued \ {proc'[c]}
      BY <2>1, <2>3, GetWaiting
    <3>6. Matched(Queued, Fetching) => Matched(Queued', Fetching')
      BY <3>4, <3>5, MatchTaken
    <3>7. Matched(Queued', Fetching') <=> Matched(Queued, Fetching)'
      BY DEF Matched
    <3> QED BY <3>1, <3>3, <3>6, <3>7 DEF MatchInv
  <2> QED BY <2>2, <2>3
<1>2. ASSUME NEW c \in CPUs, PutReady(c) PROVE MatchInv'
  <2>1. /\ cpc[c] = "put" /\ proc[c] # NULL
        /\ put_mlq_proc(proc[c])
        /\ \A d \in CPUs \ {c} : proc'[d] = proc[d] /\ cpc'[d] = cpc[d]
        /\ cpc'[c] = "fetch"
        /\ stage' = stage
    BY <1>2 DEF PutReady, LabelInv, TypeOK
  <2>2. proc[c] \in Procs
    BY <2>1 DEF TypeOK
  <2>3. \A k \in Prios : \A n \in Places(k)' :
              \/ n \in Places(k) /\ mlq_ready_queue'[k][n] = mlq_ready_queue[k][n]
              \/ mlq_ready_queue'[k][n] = proc[c]
    BY <2>1, <2>2, TypeSched, PutProc
  <2>4. Queued' \subseteq Queued \cup {proc[c]}
    BY <2>3 DEF Queued, Waits
  <2>5. Fetching \cup {c} \subseteq Fetching' /\ c \notin Fetching
    BY <2>1 DEF Fetching
  <2>6. \A d \in CPUs : Bare(d)' => Bare(d)
    BY <2>1 DEF Bare
  <2>7. Matched(Queued, Fetching) => Matched(Queued', Fetching')
    <3>1. ASSUME NEW W, NEW F, NEW V, NEW G, Matched(W, F),
                 V \subseteq W \cup {proc[c]}, F \cup {c} \subseteq G, c \notin F
          PROVE  Matched(V, G)
      BY <3>1, MatchMore
    <3> QED BY <2>4, <2>5, <3>1
  <2>8. Matched(Queued', Fetching') <=> Matched(Queued, Fetching)'
    BY DEF Matched
  <2> QED BY <2>1, <2>6, <2>7, <2>8 DEF MatchInv
<1>3. ASSUME UNCHANGED mlq_ready_queue,
             stage'[Loader] = stage[Loader] \/ stage[Loader] # "arrived",
             \A d \in CPUs : (Bare(d)' => Bare(d)) /\ (cpc[d] = "fetch" => cpc'[d] = "fetch")
      PROVE  MatchInv'
  <2>1. Queued' = Queued /\ Fetching \subseteq Fetching'
    BY <1>3 DEF Queued, Waits, Places, Fetching
  <2>2. Matched(Queued, Fetching) => Matched(Queued', Fetching')
    BY <2>1, MatchFewer
  <2>3. Matched(Queued', Fetching') <=> Matched(Queued, Fetching)'
    BY DEF Matched
  <2> QED BY <1>3, <2>2, <2>3 DEF MatchInv
<1>4. ASSUME NEW c \in CPUs,
             Finish(c) \/ PutRunningList(c) \/ Stop(c) \/ SkipSlot(c) \/ Run(c)
      PROVE  MatchInv'
  <2>1. /\ UNCHANGED mlq_ready_queue
        /\ \A d \in CPUs \ {c} : proc'[d] = proc[d] /\ cpc'[d] = cpc[d]
        /\ cpc[c] # "fetch"
        /\ Bare(c)' => Bare(c)
    BY <1>4 DEF Finish, PutRunningList, Stop, SkipSlot, Run, TypeOK, schedVars, Bare
  <2>2. UNCHANGED <<time, stage>> \/ Clock!Arrive(c) \/ Clock!Detach(c)
    BY <1>4 DEF Finish, PutRunningList, Stop, SkipSlot, Run
  <2>3. stage'[Loader] = stage[Loader]
    BY <2>2, TypeSched, ClockStep, KernelAssumption
  <2>4. \A d \in CPUs : Bare(d)' => Bare(d)
    BY <2>1 DEF Bare
  <2> QED BY <1>3, <2>1, <2>3, <2>4
<1>5. CASE LdWait \/ LdReady
  BY <1>5 DEF LdWait, LdReady, Clock!Arrive, TypeOK, Clock!ClockTypeOK, MatchInv
<1>6. CASE LdExit \/ LdRunningList \/ LastSlot \/ UNCHANGED vars
  <2>1. UNCHANGED <<mlq_ready_queue, cpc, proc>>
    BY <1>6 DEF LdExit, LdRunningList, LastSlot, vars, schedVars, cpuVars
  <2>2. stage'[Loader] = stage[Loader] \/ stage[Loader] # "arrived"
    BY <1>6 DEF LdExit, LdRunningList, LastSlot, vars, Clock!Detach, Clock!LastTick
  <2>3. \A d \in CPUs : Bare(d)' => Bare(d)
    BY <2>1 DEF Bare
  <2> QED BY <1>3, <2>1, <2>2, <2>3
<1>7. CASE NextSlot
  <2>1. UNCHANGED <<mlq_ready_queue, cpc, proc, done>>
    BY <1>7 DEF NextSlot, schedVars, cpuVars, loaderVars
  <2>2. \A d \in CPUs \cup {Loader} : stage[d] # "working"
    BY <1>7 DEF NextSlot, Clock!Tick
  <2>3. \A d \in CPUs : cpc[d] # "recheck"
    BY <2>2 DEF LabelInv
  <2>4. \A d \in CPUs : Bare(d)' => Bare(d) /\ stage[Loader] = "gone"
    BY <2>1, <2>3 DEF Bare, DoneInv
  <2>5. stage[Loader] = "gone" => stage'[Loader] = "gone"
    BY <1>7 DEF NextSlot, Clock!Tick
  <2>6. CASE stage[Loader] = "gone"
    BY <1>3, <2>1, <2>4, <2>5, <2>6
  <2>7. CASE stage[Loader] # "gone"
    BY <2>4, <2>7 DEF MatchInv
  <2> QED BY <2>6, <2>7
<1> QED BY <1>1, <1>2, <1>4, <1>5, <1>6, <1>7
        DEF Next, CpuStep, LoaderStep

(* A CPU becomes idle only after it has seen the queues empty.             *)
LEMMA BusyNext ==
  ASSUME IInv, DoneInv, MatchInv, BusyInv, [Next]_vars
  PROVE  BusyInv'
<1> USE DEF IInv
<1>1. ASSUME NEW c \in CPUs, FetchIdle(c) \/ Fetch(c) PROVE BusyInv'
  <2>1. /\ proc[c] = NULL /\ get_mlq_proc(c) /\ UNCHANGED <<i, freed>>
        /\ \A d \in CPUs \ {c} : cpc'[d] = cpc[d]
        /\ UNCHANGED <<time, stage>> \/ Clock!Arrive(c)
        /\ stage[c] = "working"
    BY <1>1 DEF FetchIdle, Fetch, LabelInv, TypeOK, loaderVars, procVars
  <2>2. /\ \A d \in CPUs \ {c} : stage'[d] = stage[d] /\ proc'[d] = proc[d]
        /\ stage'[c] # "gone"
    <3>1. \A d \in CPUs \ {c} : stage'[d] = stage[d]
      BY <2>1, TypeSched, ClockStep
    <3>2. \A d \in CPUs \ {c} : proc'[d] = proc[d]
      BY <2>1, TypeSched, GetProc
    <3>3. stage'[c] # "gone"
      BY <2>1 DEF Clock!Arrive, TypeOK, Clock!ClockTypeOK
    <3> QED BY <3>1, <3>2, <3>3
  <2>3. /\ waiting' \subseteq waiting /\ proc'[c] \notin waiting'
        /\ proc'[c] = NULL => Queued' = {}
        /\ \A p \in Queued : p \in Queued' \/ p = proc'[c]
    BY <2>1, GetWaiting
  <2>4. \A p \in waiting' : p \in Queued'
    BY <2>3 DEF BusyInv, Queued, TypeOK
  <2>5. waiting' # {} => proc'[c] # NULL
    BY <2>3, <2>4
  <2>6. \A p \in waiting' : Waits(p)'
    BY <2>4 DEF Queued
  <2>7. waiting' # {} => \A d \in CPUs : proc'[d] = NULL =>
          stage'[d] = "working" /\ cpc'[d] # "recheck"
    BY <2>1, <2>2, <2>3, <2>5 DEF BusyInv
  <2>8. \A d \in CPUs : stage'[d] = "gone" => cpc'[d] = "stopped"
    BY <2>1, <2>2 DEF BusyInv
  <2> QED BY <2>6, <2>7, <2>8 DEF BusyInv
<1>2. ASSUME NEW c \in CPUs, PutReady(c) PROVE BusyInv'
  <2>1. /\ proc[c] # NULL
        /\ put_mlq_proc(proc[c])
        /\ \A d \in CPUs \ {c} : proc'[d] = proc[d] /\ cpc'[d] = cpc[d]
        /\ cpc'[c] = "fetch" /\ stage[c] = "working"
        /\ stage' = stage /\ waiting' = waiting
    BY <1>2 DEF PutReady, LabelInv, TypeOK
  <2>2. \A k \in Prios : \A n \in Places(k) :
          n \in Places(k)' /\ mlq_ready_queue'[k][n] = mlq_ready_queue[k][n]
    BY <2>1, TypeSched, PutProc DEF TypeOK
  <2>3. \A p \in waiting : Waits(p)'
    BY <2>2 DEF BusyInv, Waits
  <2> QED BY <2>1, <2>3 DEF BusyInv
<1>3. ASSUME NEW c \in CPUs,
             Finish(c) \/ PutRunningList(c) \/ Stop(c) \/ SkipSlot(c) \/ Run(c)
      PROVE  BusyInv'
  <2>1. /\ UNCHANGED <<mlq_ready_queue, waiting>>
        /\ \A d \in CPUs \ {c} : proc'[d] = proc[d] /\ cpc'[d] = cpc[d]
    BY <1>3 DEF Finish, PutRunningList, Stop, SkipSlot, Run, TypeOK, schedVars
  <2>2. /\ \A d \in CPUs \ {c} : stage'[d] = stage[d]
        /\ stage'[c] = "gone" => cpc'[c] = "stopped"
    <3>1. UNCHANGED <<time, stage>> \/ Clock!Arrive(c) \/ Clock!Detach(c)
      BY <1>3 DEF Finish, PutRunningList, Stop, SkipSlot, Run
    <3>2. \A d \in CPUs \ {c} : stage'[d] = stage[d]
      BY <3>1, TypeSched, ClockStep
    <3>3. stage[c] = "working"
      BY <1>3 DEF Finish, PutRunningList, Stop, SkipSlot, Run, Clock!Arrive, Clock!Detach
    <3>4. stage'[c] = "gone" => Stop(c)
      BY <1>3, <3>3 DEF Finish, PutRunningList, SkipSlot, Run, Clock!Arrive,
                        TypeOK, Clock!ClockTypeOK
    <3> QED BY <3>2, <3>4 DEF Stop, TypeOK
  <2>3. waiting # {} /\ proc'[c] = NULL => stage'[c] = "working" /\ cpc'[c] # "recheck"
    <3>1. CASE Finish(c)
      BY <3>1 DEF Finish, TypeOK
    <3>2. CASE PutRunningList(c) \/ Run(c)
      BY <3>2 DEF PutRunningList, Run
    <3>3. CASE Stop(c) \/ SkipSlot(c)
      BY <3>3 DEF Stop, SkipSlot, BusyInv
    <3> QED BY <1>3, <3>1, <3>2, <3>3
  <2>4. \A p \in waiting' : Waits(p)'
    BY <2>1 DEF BusyInv, Waits, Places
  <2> QED BY <2>1, <2>2, <2>3, <2>4 DEF BusyInv
<1>4. CASE LdReady
  <2>1. /\ i \in Procs /\ put_mlq_proc(i) /\ Clock!Arrive(Loader)
        /\ UNCHANGED <<cpc, proc, waiting>>
    BY <1>4, KernelAssumption DEF LdReady, LabelInv, TypeOK, Procs, cpuVars
  <2>2. \A k \in Prios : \A n \in Places(k) :
          n \in Places(k)' /\ mlq_ready_queue'[k][n] = mlq_ready_queue[k][n]
    BY <2>1, TypeSched, PutProc
  <2>3. \A p \in waiting : Waits(p)'
    BY <2>2 DEF BusyInv, Waits
  <2>4. \A d \in CPUs : stage'[d] = stage[d]
    BY <2>1, TypeSched, ClockStep, KernelAssumption
  <2> QED BY <2>1, <2>3, <2>4 DEF BusyInv
<1>5. CASE LdWait \/ LdExit \/ LdRunningList \/ LastSlot \/ UNCHANGED vars
  <2>1. UNCHANGED <<mlq_ready_queue, cpc, proc, waiting>>
    BY <1>5 DEF LdWait, LdExit, LdRunningList, LastSlot, vars, schedVars, cpuVars
  <2>2. \A d \in CPUs : stage'[d] = stage[d]
    <3>1. Clock!Arrive(Loader) \/ Clock!Detach(Loader) \/ stage' = stage
      BY <1>5 DEF LdWait, LdExit, LdRunningList, LastSlot, Clock!LastTick, vars
    <3> QED BY <3>1, TypeSched, ClockStep, KernelAssumption
  <2>3. \A p \in waiting' : Waits(p)'
    BY <2>1 DEF BusyInv, Waits, Places
  <2> QED BY <2>1, <2>2, <2>3 DEF BusyInv
<1>6. CASE NextSlot
  <2>1. /\ UNCHANGED <<mlq_ready_queue, cpc, proc>>
        /\ waiting' = {p \in Procs : InReadyQueue(p)}
    BY <1>6 DEF NextSlot, schedVars, cpuVars
  <2>2. /\ \A d \in CPUs \cup {Loader} : stage[d] # "working"
        /\ \A d \in CPUs : stage'[d] = IF stage[d] = "arrived" THEN "working" ELSE stage[d]
    BY <1>6 DEF NextSlot, Clock!Tick
  <2>3. \A p \in Procs : InReadyQueue(p) <=> Waits(p)
    BY DEF InReadyQueue, Waits, Places
  <2>4. \A p \in waiting' : Waits(p)'
    BY <2>1, <2>3 DEF Waits, Places
  <2>5. \A d \in CPUs : stage[d] \in {"arrived", "gone"} /\ cpc[d] \notin {"recheck", "fetch"}
    BY <2>2 DEF TypeOK, Clock!ClockTypeOK, Clock!Stages, LabelInv
  <2>6. \A d \in CPUs : stage'[d] = "gone" => cpc'[d] = "stopped"
    BY <2>1, <2>2, <2>5 DEF BusyInv
  <2>7. ASSUME NEW d \in CPUs, stage[d] = "gone"
        PROVE  waiting' = {}
    <3>1. Bare(d) /\ stage[Loader] # "arrived"
      BY <2>7 DEF BusyInv, Bare, DoneInv
    <3>2. Matched(Queued, Fetching)
      BY <3>1 DEF MatchInv
    <3>3. Fetching = {}
      BY <2>5 DEF Fetching
    <3>4. Queued = {}
      BY <3>2, <3>3 DEF Matched
    <3> QED BY <2>1, <2>3, <3>4 DEF Queued
  <2>8. waiting' # {} => \A d \in CPUs : proc'[d] = NULL =>
          stage'[d] = "working" /\ cpc'[d] # "recheck"
    BY <2>1, <2>2, <2>5, <2>7
  <2> QED BY <2>4, <2>6, <2>8 DEF BusyInv
<1> QED BY <1>1, <1>2, <1>3, <1>4, <1>5, <1>6
        DEF Next, CpuStep, LoaderStep
------------------------------------------------------------------------------
(* The theorems.                                                           *)

(* With queues that hold all processes, an added process that has not      *)
(* finished is always in a ready queue or on a CPU: enqueue drops nothing. *)
THEOREM KernelNoProcessLost ==
  ASSUME NumProcs <= MAX_QUEUE_SIZE
  PROVE  Spec => []NoProcessLost
<1>1. Init => FoundInv
  BY KernelAssumption DEF Init, FoundInv, Added
<1>2. IInv /\ FoundInv /\ [Next]_vars => FoundInv'
  BY FoundNext
<1>3. IInv /\ FoundInv => NoProcessLost
  BY TypeSched, HeldHome DEF IInv, FoundInv, NoProcessLost
<1> QED BY <1>1, <1>2, <1>3, KernelInvariant, PTL DEF Spec

(* When the last CPU has stopped, every process of the table has been      *)
(* loaded and has finished.                                                *)
THEOREM KernelNoOrphan ==
  ASSUME NumProcs <= MAX_QUEUE_SIZE, CPUs # {}
  PROVE  Spec => []NoOrphan
<1>1. Init => FoundInv /\ DoneInv /\ LookInv
  <2> SUFFICES ASSUME Init PROVE FoundInv /\ DoneInv /\ LookInv
    OBVIOUS
  <2>1. FoundInv
    BY KernelAssumption DEF Init, FoundInv, Added
  <2>2. DoneInv
    BY DEF Init, DoneInv, Clock!ClockInit
  <2>3. LookInv
    BY DEF Init, LookInv, Waits, Places
  <2> QED BY <2>1, <2>2, <2>3
<1>2. IInv /\ FoundInv /\ DoneInv /\ LookInv /\ [Next]_vars
        => FoundInv' /\ DoneInv' /\ LookInv'
  BY FoundNext, DoneNext, LookNext
<1>3. IInv /\ FoundInv /\ DoneInv /\ LookInv => NoOrphan
  <2> SUFFICES ASSUME IInv, FoundInv, DoneInv, LookInv,
                      \A c \in CPUs : cpc[c] = "stopped"
               PROVE  freed = Procs
    BY DEF NoOrphan
  <2>1. done /\ stage[Loader] = "gone" /\ i = NumProcs + 1
    BY DEF DoneInv
  <2>2. Added = Procs
    BY <2>1, KernelAssumption DEF Added, Procs
  <2>3. \A p \in Procs : ~ Waits(p)
    BY <2>1 DEF LookInv, Looking
  <2>4. \A c \in CPUs : proc[c] \notin Procs
    BY KernelAssumption DEF IInv, LabelInv
  <2>5. freed \subseteq Procs
    BY DEF IInv, TypeOK
  <2>6. \A p \in Procs \ freed : FALSE
    BY <2>2, <2>3, <2>4 DEF FoundInv, Held
  <2> QED BY <2>5, <2>6
<1> QED BY <1>1, <1>2, <1>3, KernelInvariant, PTL DEF Spec

(* No CPU lets a slot pass, or stops, while a process waits in a ready     *)
(* queue through that slot, for every number of CPUs and processes and     *)
(* queues of any size: the order in which CPUs find the queues empty, put  *)
(* processes back and read done never leaves a CPU idle beside waiting     *)
(* work.                                                                   *)
THEOREM KernelWorkConserving == Spec => []WorkConserving
<1>1. Init => DoneInv /\ MatchInv /\ BusyInv
  <2> SUFFICES ASSUME Init PROVE DoneInv /\ MatchInv /\ BusyInv
    OBVIOUS
  <2>1. DoneInv
    BY DEF Init, DoneInv, Clock!ClockInit
  <2>2. MatchInv
    BY DEF Init, MatchInv, Bare
  <2>3. BusyInv
    BY DEF Init, BusyInv, Clock!ClockInit
  <2> QED BY <2>1, <2>2, <2>3
<1>2. IInv /\ DoneInv /\ MatchInv /\ BusyInv /\ [Next]_vars
        => DoneInv' /\ MatchInv' /\ BusyInv'
  BY DoneNext, MatchNext, BusyNext
<1>3. BusyInv => WorkConserving
  BY DEF BusyInv, WorkConserving
<1> QED BY <1>1, <1>2, <1>3, KernelInvariant, PTL DEF Spec
==============================================================================
