----------------------------- MODULE KernelProofs -----------------------------
(***************************************************************************)
(* Proofs about Kernel, for every number of CPUs, processes and priorities *)
(* and every size of the queues, full ones included.                       *)
(***************************************************************************)
EXTENDS SlotPace, QueueProofs

------------------------------------------------------------------------------
(* The inductive invariant, in the parts the actors rely on.               *)

(* What a thread knows where it is: it is at work in the slot inside       *)
(* put_proc, get_proc and add_proc, and a CPU with no process has no       *)
(* budget.                                                                 *)
LabelInv ==
  /\ \A c \in CPUs :
       /\ cpc[c] \in {"put", "fetch", "recheck"} => stage[c] = "working"
       /\ cpc[c] = "put" => proc[c] # NULL /\ time_left[c] = 0
       /\ cpc[c] \in {"fetch", "stopped"} => proc[c] = NULL
       /\ proc[c] = NULL => time_left[c] = 0
  /\ ldpc = "add" => /\ i <= NumProcs
                     /\ stage[Loader] = "working"
                     /\ time >= job[i].start

(* The positions of the ready queues.                                      *)
Places(k) == 1..Len(mlq_ready_queue[k])

(* CPUs and queue positions hold different processes, all of them added    *)
(* and not freed.                                                          *)
HomeInv ==
  /\ freed \subseteq Added
  /\ \A c \in CPUs : proc[c] # NULL => proc[c] \in Added \ freed
  /\ \A c, d \in CPUs : proc[c] # NULL /\ proc[c] = proc[d] => c = d
  /\ \A k \in Prios : \A n \in Places(k) :
       /\ mlq_ready_queue[k][n] \in Added \ freed
       /\ \A c \in CPUs : proc[c] # mlq_ready_queue[k][n]
  /\ \A k, l \in Prios : \A m \in Places(k), n \in Places(l) :
       mlq_ready_queue[k][m] = mlq_ready_queue[l][n] => k = l /\ m = n

IInv == TypeOK /\ LabelInv /\ HomeInv

(* The part of TypeOK that the operations of sched.c need and keep: the    *)
(* clock, the process table, the queues, and what CPUs and loader hold.    *)
SchedType ==
  /\ Clock!ClockTypeOK
  /\ job \in Configs
  /\ mlq_ready_queue \in [Prios -> Seq(Procs)]
  /\ \A k \in Prios : Len(mlq_ready_queue[k]) <= MAX_QUEUE_SIZE
  /\ curr_prio \in Prios
  /\ curr_slot \in 0..slot(curr_prio) - 1
  /\ i \in 1..NumProcs + 1
  /\ proc \in [CPUs -> Procs \cup {NULL}]
  /\ freed \subseteq Procs
  /\ waiting \subseteq Procs

(* SchedType is a part of TypeOK.                                          *)
LEMMA TypeSched == TypeOK => SchedType
BY DEF TypeOK, SchedType
------------------------------------------------------------------------------
(* The state main leaves behind satisfies the invariant.                   *)
LEMMA InitIInv == Init => IInv
<1> SUFFICES ASSUME Init PROVE IInv
  OBVIOUS
<1> USE KernelAssumption, ConfigsAssumption, QueueAssumption DEF Init
<1>1. TypeOK
  <2>1. Clock!ClockTypeOK
    BY DEF Clock!ClockInit, Clock!ClockTypeOK, Clock!Stages
  <2>2. job \in Configs /\ job \in [Procs -> Jobs]
    OBVIOUS
  <2>3. /\ mlq_ready_queue \in [Prios -> Seq(Procs)]
        /\ running_list \in Seq(Procs)
        /\ \A k \in Prios : Len(mlq_ready_queue[k]) <= MAX_QUEUE_SIZE
        /\ Len(running_list) <= MAX_QUEUE_SIZE
    OBVIOUS
  <2>4. curr_prio \in Prios /\ curr_slot \in 0..slot(curr_prio) - 1
    BY DEF Prios, slot
  <2>5. /\ cpc \in [CPUs -> CpuPCs]
        /\ proc \in [CPUs -> Procs \cup {NULL}]
        /\ time_left \in [CPUs -> 0..TimeSlot]
        /\ ldpc \in LoaderPCs
        /\ i \in 1..NumProcs + 1
    BY DEF CpuPCs, LoaderPCs
  <2>6. pc \in [Procs -> Nat] /\ \A p \in Procs : pc[p] <= job[p].size
    BY <2>2 DEF Jobs
  <2> QED BY <2>1, <2>2, <2>3, <2>4, <2>5, <2>6 DEF TypeOK
<1>2. LabelInv
  BY DEF LabelInv
<1>3. HomeInv
  BY DEF HomeInv, Places, Added
<1> QED BY <1>1, <1>2, <1>3 DEF IInv
------------------------------------------------------------------------------
(* What the operations of sched.c do, whichever thread calls them.         *)

(* The type of a process table.                                            *)
LEMMA JobType ==
  ASSUME SchedType
  PROVE  /\ job \in [Procs -> Jobs]
         /\ priority \in [Procs -> Nat]
         /\ \A p \in Procs : /\ job[p].start \in 0..MaxTime
                             /\ job[p].prio \in Prios
                             /\ job[p].size \in Nat
<1>1. job \in [Procs -> Jobs]
  BY ConfigsAssumption DEF SchedType
<1> QED BY <1>1 DEF Jobs, priority

(* The budget of a queue is positive, and counting within it stays in it.  *)
LEMMA SlotRange ==
  ASSUME NEW k \in Prios, NEW s \in Nat
  PROVE  slot(k) \in Nat \ {0} /\ (s + 1) % slot(k) \in 0..slot(k) - 1
<1>1. slot(k) \in Nat \ {0}
  BY KernelAssumption DEF slot, Prios
<1>2. \A n \in Nat \ {0} : (s + 1) % n \in 0..n - 1
  OBVIOUS
<1> QED BY <1>1, <1>2

(* get_proc keeps the types, whatever the queues hold.                     *)
LEMMA GetTypes ==
  ASSUME SchedType, NEW c \in CPUs, get_mlq_proc(c)
  PROVE  /\ mlq_ready_queue' \in [Prios -> Seq(Procs)]
         /\ \A k \in Prios : Len(mlq_ready_queue[k])' <= MAX_QUEUE_SIZE
         /\ curr_prio' \in Prios
         /\ curr_slot' \in 0..slot(curr_prio)' - 1
         /\ proc' \in [CPUs -> Procs \cup {NULL}]
         /\ waiting' \subseteq Procs
         /\ \A d \in CPUs \ {c} : proc'[d] = proc[d]
<1>a. /\ mlq_ready_queue \in [Prios -> Seq(Procs)]
      /\ \A k \in Prios : Len(mlq_ready_queue[k]) <= MAX_QUEUE_SIZE
      /\ proc \in [CPUs -> Procs \cup {NULL}]
      /\ waiting \subseteq Procs
      /\ curr_prio \in Prios
      /\ curr_slot \in Nat
  BY SlotRange DEF SchedType
<1>b. NULL \notin Procs /\ 0 \in Prios /\ MAX_PRIO \in Nat \ {0}
  BY KernelAssumption DEF Prios
<1>c. \A k \in Prios : MAX_PRIO - k \in Nat \ {0}
  BY <1>b DEF Prios
<1>1. CASE ~ \E k \in Prios : FirstReady(k)
  <2>1. /\ proc' = [proc EXCEPT ![c] = NULL]
        /\ curr_prio' = 0
        /\ curr_slot' = 0
        /\ UNCHANGED <<mlq_ready_queue, waiting>>
    BY <1>1 DEF get_mlq_proc
  <2>2. /\ proc' \in [CPUs -> Procs \cup {NULL}]
        /\ \A d \in CPUs \ {c} : proc'[d] = proc[d]
    BY <2>1, <1>a
  <2>3. curr_slot' \in 0..slot(curr_prio)' - 1
    BY <2>1, <1>b DEF slot
  <2> QED BY <1>a, <1>b, <2>1, <2>2, <2>3
<1>2. CASE \E k \in Prios : FirstReady(k)
  <2> DEFINE h(k) == HighestIndex(mlq_ready_queue[k], priority)
  <2>1. PICK k \in Prios :
          /\ FirstReady(k)
          /\ proc' = [proc EXCEPT ![c] = dequeued(mlq_ready_queue[k], priority)]
          /\ mlq_ready_queue' =
               [mlq_ready_queue EXCEPT
                  ![k] = dequeue(mlq_ready_queue[k], priority)]
          /\ waiting' = waiting \ {dequeued(mlq_ready_queue[k], priority)}
          /\ LET next == (curr_slot + 1) % slot(k)
             IN /\ curr_slot' = IF curr_prio = k THEN next ELSE 0
                /\ curr_prio' = IF curr_prio # k THEN k
                                ELSE IF next = 0 THEN (k + 1) % MAX_PRIO
                                ELSE curr_prio
    BY <1>2 DEF get_mlq_proc
  <2> DEFINE q == mlq_ready_queue[k]
             p == dequeued(q, priority)
             r == dequeue(q, priority)
  <2>2. q \in Seq(Procs) /\ Len(q) # 0 /\ Len(q) \in Nat
    BY <1>a, <2>1 DEF FirstReady, Ready, empty
  <2>3. /\ h(k) \in 1..Len(q)
        /\ p = q[h(k)]
        /\ p \in Procs
        /\ r \in Seq(Procs)
        /\ Len(r) = Len(q) - 1
        /\ \A n \in 1..Len(r) : r[n] = IF n < h(k) THEN q[n] ELSE q[n + 1]
    BY <2>2, JobType, DequeueProperties
  <2> HIDE DEF h
  <2>4. /\ mlq_ready_queue'[k] = r
        /\ \A l \in Prios \ {k} : mlq_ready_queue'[l] = mlq_ready_queue[l]
        /\ proc'[c] = p
        /\ \A d \in CPUs \ {c} : proc'[d] = proc[d]
    BY <2>1, <1>a
  <2> HIDE DEF p, r
  <2>5. /\ mlq_ready_queue' \in [Prios -> Seq(Procs)]
        /\ \A l \in Prios : Len(mlq_ready_queue[l])' <= MAX_QUEUE_SIZE
    <3>1. mlq_ready_queue' \in [Prios -> Seq(Procs)]
      BY <2>1, <2>3, <1>a DEF r
    <3>2. ASSUME NEW l \in Prios
          PROVE  Len(mlq_ready_queue[l])' <= MAX_QUEUE_SIZE
      <4>1. CASE l = k
        BY <4>1, <2>2, <2>3, <2>4, <1>a, QueueAssumption
      <4>2. CASE l # k
        BY <4>2, <2>4, <1>a
      <4> QED BY <4>1, <4>2
    <3> QED BY <3>1, <3>2
  <2>6. proc' \in [CPUs -> Procs \cup {NULL}] /\ waiting' \subseteq Procs
    BY <2>1, <2>3, <1>a DEF p
  <2>7. curr_prio' \in Prios /\ curr_slot' \in 0..slot(curr_prio)' - 1
    <3>1. slot(k) \in Nat \ {0} /\ (curr_slot + 1) % slot(k) \in 0..slot(k) - 1
      BY <1>a, SlotRange
    <3>2. k + 1 \in Nat /\ (k + 1) % MAX_PRIO \in Prios
      <4>1. k + 1 \in Nat
        BY <1>b DEF Prios
      <4>2. \A n \in Nat : \A m \in Nat \ {0} : n % m \in 0..m - 1
        OBVIOUS
      <4> QED BY <1>b, <4>1, <4>2 DEF Prios
    <3>3. CASE curr_prio # k
      <4>1. curr_prio' = k /\ curr_slot' = 0
        BY <2>1, <3>3
      <4> QED BY <4>1, <3>1 DEF slot
    <3>4. CASE curr_prio = k /\ (curr_slot + 1) % slot(k) = 0
      <4>1. curr_prio' = (k + 1) % MAX_PRIO /\ curr_slot' = 0
        BY <2>1, <3>4
      <4>2. curr_prio' \in Prios
        BY <3>2, <4>1
      <4>3. MAX_PRIO - curr_prio' \in Nat \ {0}
        BY <4>2, <1>c
      <4> QED BY <4>1, <4>2, <4>3 DEF slot
    <3>5. CASE curr_prio = k /\ (curr_slot + 1) % slot(k) # 0
      <4>1. curr_prio' = k /\ curr_slot' = (curr_slot + 1) % slot(k)
        BY <2>1, <3>5
      <4> QED BY <4>1, <3>1 DEF slot
    <3> QED BY <3>3, <3>4, <3>5
  <2> QED BY <2>4, <2>5, <2>6, <2>7
<1> QED BY <1>1, <1>2

(* get_proc takes a process out of a queue, or finds none; everything else *)
(* in the queues stays.                                                    *)
LEMMA GetProc ==
  ASSUME SchedType, HomeInv, NEW c \in CPUs, proc[c] = NULL, get_mlq_proc(c),
         UNCHANGED <<i, freed>>
  PROVE  /\ mlq_ready_queue' \in [Prios -> Seq(Procs)]
         /\ \A k \in Prios : Len(mlq_ready_queue[k])' <= MAX_QUEUE_SIZE
         /\ curr_prio' \in Prios
         /\ curr_slot' \in 0..slot(curr_prio)' - 1
         /\ proc' \in [CPUs -> Procs \cup {NULL}]
         /\ waiting' \subseteq Procs
         /\ HomeInv'
         /\ \A d \in CPUs \ {c} : proc'[d] = proc[d]
         /\ proc'[c] # NULL =>
              \E k \in Prios : \E m \in Places(k) :
                proc'[c] = mlq_ready_queue[k][m]
         /\ \A k \in Prios : \A n \in Places(k)' : \E m \in Places(k) :
              mlq_ready_queue'[k][n] = mlq_ready_queue[k][m]
         /\ \A k \in Prios : \A m \in Places(k) :
              \/ mlq_ready_queue[k][m] = proc'[c]
              \/ \E n \in Places(k)' :
                   mlq_ready_queue'[k][n] = mlq_ready_queue[k][m]
<1>a. /\ mlq_ready_queue \in [Prios -> Seq(Procs)]
      /\ \A k \in Prios : Len(mlq_ready_queue[k]) <= MAX_QUEUE_SIZE
      /\ proc \in [CPUs -> Procs \cup {NULL}]
      /\ waiting \subseteq Procs
      /\ curr_prio \in Prios
      /\ curr_slot \in Nat
  BY SlotRange DEF SchedType
<1>b. NULL \notin Procs /\ 0 \in Prios /\ MAX_PRIO \in Nat \ {0}
  BY KernelAssumption DEF Prios
<1>d. /\ mlq_ready_queue' \in [Prios -> Seq(Procs)]
      /\ \A k \in Prios : Len(mlq_ready_queue[k])' <= MAX_QUEUE_SIZE
      /\ curr_prio' \in Prios
      /\ curr_slot' \in 0..slot(curr_prio)' - 1
      /\ proc' \in [CPUs -> Procs \cup {NULL}]
      /\ waiting' \subseteq Procs
  BY GetTypes
<1>1. CASE ~ \E k \in Prios : FirstReady(k)
  <2>1. /\ proc' = [proc EXCEPT ![c] = NULL]
        /\ curr_prio' = 0
        /\ curr_slot' = 0
        /\ UNCHANGED <<mlq_ready_queue, waiting>>
    BY <1>1 DEF get_mlq_proc
  <2>2. proc' = proc
    BY <2>1, <1>a
  <2>3. HomeInv'
    BY <2>1, <2>2 DEF HomeInv, Places, Added
  <2> QED BY <1>d, <2>1, <2>2, <2>3 DEF Places
<1>2. CASE \E k \in Prios : FirstReady(k)
  <2> DEFINE h(k) == HighestIndex(mlq_ready_queue[k], priority)
  <2>1. PICK k \in Prios :
          /\ FirstReady(k)
          /\ proc' = [proc EXCEPT ![c] = dequeued(mlq_ready_queue[k], priority)]
          /\ mlq_ready_queue' =
               [mlq_ready_queue EXCEPT
                  ![k] = dequeue(mlq_ready_queue[k], priority)]
          /\ waiting' = waiting \ {dequeued(mlq_ready_queue[k], priority)}
          /\ LET next == (curr_slot + 1) % slot(k)
             IN /\ curr_slot' = IF curr_prio = k THEN next ELSE 0
                /\ curr_prio' = IF curr_prio # k THEN k
                                ELSE IF next = 0 THEN (k + 1) % MAX_PRIO
                                ELSE curr_prio
    BY <1>2 DEF get_mlq_proc
  <2> DEFINE q == mlq_ready_queue[k]
             p == dequeued(q, priority)
             r == dequeue(q, priority)
             src(n) == IF n < h(k) THEN n ELSE n + 1
  <2>2. q \in Seq(Procs) /\ Len(q) # 0 /\ Len(q) \in Nat
    BY <1>a, <2>1 DEF FirstReady, Ready, empty
  <2>3. /\ h(k) \in 1..Len(q)
        /\ p = q[h(k)]
        /\ p \in Procs
        /\ r \in Seq(Procs)
        /\ Len(r) = Len(q) - 1
        /\ \A n \in 1..Len(r) : r[n] = IF n < h(k) THEN q[n] ELSE q[n + 1]
    BY <2>2, JobType, DequeueProperties
  <2> HIDE DEF h
  <2>4. /\ mlq_ready_queue'[k] = r
        /\ \A l \in Prios \ {k} : mlq_ready_queue'[l] = mlq_ready_queue[l]
        /\ proc'[c] = p
        /\ \A d \in CPUs \ {c} : proc'[d] = proc[d]
    BY <2>1, <1>a
  <2> HIDE DEF p, r
  <2>8. \A n \in 1..Len(r) :
          src(n) \in 1..Len(q) /\ src(n) # h(k) /\ r[n] = q[src(n)]
    BY <2>2, <2>3
  <2>9. \A m, n \in 1..Len(r) : src(m) = src(n) => m = n
    BY <2>2, <2>3
  <2> HIDE DEF src
  <2>10. \A l \in Prios : \A n \in Places(l)' : \E m \in Places(l) :
           /\ mlq_ready_queue'[l][n] = mlq_ready_queue[l][m]
           /\ l = k => m # h(k)
    <3> SUFFICES ASSUME NEW l \in Prios, NEW n \in Places(l)'
                 PROVE  \E m \in Places(l) :
                          /\ mlq_ready_queue'[l][n] = mlq_ready_queue[l][m]
                          /\ l = k => m # h(k)
      OBVIOUS
    <3>1. CASE l = k
      BY <3>1, <2>4, <2>8 DEF Places
    <3>2. CASE l # k
      BY <3>2, <2>4 DEF Places
    <3> QED BY <3>1, <3>2
  <2>11. \A l \in Prios : \A m \in Places(l)' : \A n \in Places(l)' :
           mlq_ready_queue'[l][m] = mlq_ready_queue'[l][n] => m = n
    <3> SUFFICES ASSUME NEW l \in Prios,
                        NEW m \in Places(l)', NEW n \in Places(l)',
                        mlq_ready_queue'[l][m] = mlq_ready_queue'[l][n]
                 PROVE  m = n
      OBVIOUS
    <3>1. CASE l = k
      BY <3>1, <2>4, <2>8, <2>9 DEF Places, HomeInv
    <3>2. CASE l # k
      BY <3>2, <2>4 DEF Places, HomeInv
    <3> QED BY <3>1, <3>2
  <2>12. HomeInv'
    <3>1. h(k) \in Places(k) /\ p = mlq_ready_queue[k][h(k)] /\ p # NULL
      BY <2>3, <1>b DEF Places
    <3>2. (freed \subseteq Added)'
      BY DEF HomeInv, Added
    <3>3. \A d \in CPUs : proc'[d] # NULL => proc'[d] \in (Added \ freed)'
      BY <2>4, <3>1 DEF HomeInv, Added
    <3>4. \A d, e \in CPUs : proc'[d] # NULL /\ proc'[d] = proc'[e] => d = e
      BY <2>4, <3>1 DEF HomeInv
    <3>5. ASSUME NEW l \in Prios, NEW n \in Places(l)'
          PROVE  /\ mlq_ready_queue'[l][n] \in (Added \ freed)'
                 /\ \A d \in CPUs : proc'[d] # mlq_ready_queue'[l][n]
      <4>1. PICK m \in Places(l) :
              /\ mlq_ready_queue'[l][n] = mlq_ready_queue[l][m]
              /\ l = k => m # h(k)
        BY <2>10
      <4>2. mlq_ready_queue[l][m] # p
        BY <4>1, <3>1 DEF HomeInv
      <4> QED BY <4>1, <4>2, <2>4 DEF HomeInv, Added
    <3>6. ASSUME NEW l1 \in Prios, NEW l2 \in Prios,
                 NEW m \in Places(l1)', NEW n \in Places(l2)',
                 mlq_ready_queue'[l1][m] = mlq_ready_queue'[l2][n]
          PROVE  l1 = l2 /\ m = n
      <4>1. l1 = l2
        BY <3>6, <2>10 DEF HomeInv
      <4> QED BY <4>1, <3>6, <2>11
    <3> QED BY <3>2, <3>3, <3>4, <3>5, <3>6 DEF HomeInv
  <2>13. ASSUME NEW l \in Prios, NEW m \in Places(l)
         PROVE  \/ mlq_ready_queue[l][m] = proc'[c]
                \/ \E n \in Places(l)' :
                     mlq_ready_queue'[l][n] = mlq_ready_queue[l][m]
    <3>1. CASE l # k
      BY <2>4, <3>1 DEF Places
    <3>2. CASE l = k /\ m = h(k)
      BY <2>3, <2>4, <3>2
    <3>3. CASE l = k /\ m < h(k)
      <4>1. m \in 1..Len(r) /\ r[m] = q[m]
        BY <2>2, <2>3, <3>3 DEF Places
      <4> QED BY <2>4, <3>3, <4>1 DEF Places
    <3>4. CASE l = k /\ m > h(k)
      <4>1. m - 1 \in 1..Len(r) /\ ~ (m - 1 < h(k)) /\ (m - 1) + 1 = m
        BY <2>2, <2>3, <3>4 DEF Places
      <4>2. r[m - 1] = q[m]
        BY <2>3, <4>1
      <4> QED BY <2>4, <3>4, <4>1, <4>2 DEF Places
    <3>5. m \in Nat /\ h(k) \in Nat
      BY <2>3, <1>a DEF Places
    <3> QED BY <3>1, <3>2, <3>3, <3>4, <3>5
  <2>14. \E m \in Places(k) : proc'[c] = mlq_ready_queue[k][m]
    BY <2>3, <2>4 DEF Places
  <2>15. \A l \in Prios : \A n \in Places(l)' : \E m \in Places(l) :
           mlq_ready_queue'[l][n] = mlq_ready_queue[l][m]
    BY <2>10
  <2> QED
    BY <1>d, <2>4, <2>12, <2>13, <2>14, <2>15
<1> QED BY <1>1, <1>2

(* An enqueue leaves what is in the queues where it is and adds at most    *)
(* the process it is given.                                                *)
LEMMA PutQueue ==
  ASSUME SchedType, NEW p \in Procs, NEW k0 \in Prios,
         mlq_ready_queue' = [mlq_ready_queue EXCEPT ![k0] = enqueue(@, p)]
  PROVE  /\ mlq_ready_queue' \in [Prios -> Seq(Procs)]
         /\ \A k \in Prios : Len(mlq_ready_queue[k])' <= MAX_QUEUE_SIZE
         /\ \A k \in Prios : \A n \in Places(k)' :
              \/ n \in Places(k) /\ mlq_ready_queue'[k][n] = mlq_ready_queue[k][n]
              \/ /\ mlq_ready_queue'[k][n] = p
                 /\ k = k0
                 /\ n = Len(mlq_ready_queue[k]) + 1
         /\ \A k \in Prios : \A n \in Places(k) :
              n \in Places(k)' /\ mlq_ready_queue'[k][n] = mlq_ready_queue[k][n]
         /\ Len(mlq_ready_queue[k0]) < MAX_QUEUE_SIZE =>
              \E k \in Prios : \E n \in Places(k)' : mlq_ready_queue'[k][n] = p
<1> DEFINE q == mlq_ready_queue[k0]
           r == enqueue(q, p)
<1>2. /\ mlq_ready_queue \in [Prios -> Seq(Procs)]
      /\ \A k \in Prios : Len(mlq_ready_queue[k]) <= MAX_QUEUE_SIZE
  BY DEF SchedType
<1>3. mlq_ready_queue' = [mlq_ready_queue EXCEPT ![k0] = r]
  OBVIOUS
<1>4. q \in Seq(Procs) /\ Len(q) <= MAX_QUEUE_SIZE
  BY <1>2
<1> HIDE DEF q
<1>5. r \in Seq(Procs) /\ Len(r) <= MAX_QUEUE_SIZE
  BY <1>4, EnqueueType
<1>6. \A n \in 1..Len(q) : n \in 1..Len(r) /\ r[n] = q[n]
  BY <1>4, EnqueueKeeps
<1>7. \A n \in 1..Len(r) : \/ n \in 1..Len(q)
                           \/ n = Len(q) + 1 /\ r[n] = p
  BY <1>4, EnqueueAdds
<1>8. Len(q) < MAX_QUEUE_SIZE => \E n \in 1..Len(r) : r[n] = p
  BY <1>4, EnqueueRoom
<1> HIDE DEF r
<1>9. /\ mlq_ready_queue' \in [Prios -> Seq(Procs)]
      /\ mlq_ready_queue'[k0] = r
      /\ \A k \in Prios : k # k0 => mlq_ready_queue'[k] = mlq_ready_queue[k]
  BY <1>2, <1>3, <1>5
<1>10. \A k \in Prios : Len(mlq_ready_queue[k])' <= MAX_QUEUE_SIZE
  BY <1>2, <1>5, <1>9
<1>11. ASSUME NEW k \in Prios, NEW n \in Places(k)'
       PROVE  \/ /\ n \in Places(k)
                 /\ mlq_ready_queue'[k][n] = mlq_ready_queue[k][n]
              \/ /\ mlq_ready_queue'[k][n] = p
                 /\ k = k0
                 /\ n = Len(mlq_ready_queue[k]) + 1
  <2>1. CASE k = k0
    BY <1>6, <1>7, <1>9, <2>1 DEF Places, q
  <2>2. CASE k # k0
    BY <1>9, <2>2 DEF Places
  <2> QED BY <2>1, <2>2
<1>12. ASSUME NEW k \in Prios, NEW n \in Places(k)
       PROVE  n \in Places(k)' /\ mlq_ready_queue'[k][n] = mlq_ready_queue[k][n]
  <2>1. CASE k = k0
    BY <1>6, <1>9, <2>1 DEF Places, q
  <2>2. CASE k # k0
    BY <1>9, <2>2 DEF Places
  <2> QED BY <2>1, <2>2
<1>13. Len(mlq_ready_queue[k0]) < MAX_QUEUE_SIZE =>
         \E k \in Prios : \E n \in Places(k)' : mlq_ready_queue'[k][n] = p
  BY <1>8, <1>9 DEF Places, q
<1> QED BY <1>9, <1>10, <1>11, <1>12, <1>13

(* put_proc and add_proc enqueue a process in the queue of its prio.        *)
LEMMA PutProc ==
  ASSUME SchedType, NEW p \in Procs, put_mlq_proc(p)
  PROVE  /\ mlq_ready_queue' \in [Prios -> Seq(Procs)]
         /\ \A k \in Prios : Len(mlq_ready_queue[k])' <= MAX_QUEUE_SIZE
         /\ \A k \in Prios : \A n \in Places(k)' :
              \/ n \in Places(k) /\ mlq_ready_queue'[k][n] = mlq_ready_queue[k][n]
              \/ /\ mlq_ready_queue'[k][n] = p
                 /\ k = job[p].prio
                 /\ n = Len(mlq_ready_queue[k]) + 1
         /\ \A k \in Prios : \A n \in Places(k) :
              n \in Places(k)' /\ mlq_ready_queue'[k][n] = mlq_ready_queue[k][n]
         /\ Len(mlq_ready_queue[job[p].prio]) < MAX_QUEUE_SIZE =>
              \E k \in Prios : \E n \in Places(k)' : mlq_ready_queue'[k][n] = p
<1>1. job[p].prio \in Prios
  BY JobType
<1>2. mlq_ready_queue' =
        [mlq_ready_queue EXCEPT ![job[p].prio] = enqueue(@, p)]
  BY DEF put_mlq_proc
<1> QED BY <1>1, <1>2, PutQueue
------------------------------------------------------------------------------
(* The invariant is preserved by every step.                               *)

(* What next_slot and detach_event change: where the caller is.            *)
LEMMA ClockStep ==
  ASSUME SchedType, NEW d \in CPUs \cup {Loader},
         Clock!Arrive(d) \/ Clock!Detach(d)
  PROVE  /\ Clock!ClockTypeOK'
         /\ time' = time
         /\ stage[d] = "working"
         /\ stage'[d] # "working"
         /\ \A e \in CPUs \cup {Loader} : e # d => stage'[e] = stage[e]
BY DEF SchedType, Clock!ClockTypeOK, Clock!Stages, Clock!Arrive, Clock!Detach

(* Run: the one action that moves the pc of a process.                     *)
LEMMA RunIInv ==
  ASSUME IInv, NEW c \in CPUs, Run(c)
  PROVE  IInv'
<1> DEFINE p == proc[c]
           budget == IF time_left[c] = 0 THEN TimeSlot ELSE time_left[c]
<1> USE DEF IInv
<1>1. /\ p # NULL
      /\ pc' = [pc EXCEPT ![p] = IF @ >= job[p].size THEN @ ELSE @ + 1]
      /\ time_left' = [time_left EXCEPT ![c] = budget - 1]
      /\ cpc' = [cpc EXCEPT ![c] = "top"]
      /\ Clock!Arrive(c)
      /\ UNCHANGED <<job, mlq_ready_queue, running_list, curr_prio, curr_slot,
                     done, ldpc, i, proc, freed, waiting>>
  BY DEF Run, schedVars, loaderVars
<1>2. /\ Clock!ClockTypeOK'
      /\ time' = time
      /\ stage[c] = "working"
      /\ stage'[c] # "working"
      /\ \A e \in CPUs \cup {Loader} : e # c => stage'[e] = stage[e]
  BY <1>1, TypeSched, ClockStep
<1>3. p \in Procs /\ job[p].size \in Nat /\ pc[p] \in Nat /\ pc[p] <= job[p].size
  BY <1>1, TypeSched, JobType DEF TypeOK
<1>4. /\ pc' \in [Procs -> Nat]
      /\ pc'[p] <= job[p].size
      /\ pc'[p] <= pc[p] + 1
      /\ \A r \in Procs : r # p => pc'[r] = pc[r]
  BY <1>1, <1>3 DEF TypeOK
<1>5. time_left' \in [CPUs -> 0..TimeSlot]
  <2>1. budget - 1 \in 0..TimeSlot
    BY KernelAssumption DEF TypeOK
  <2> QED BY <2>1, <1>1 DEF TypeOK
<1> HIDE DEF p, budget
<1>6. TypeOK'
  <2>1. \A r \in Procs : pc'[r] <= job'[r].size
    BY <1>1, <1>3, <1>4 DEF TypeOK
  <2>2. cpc' \in [CPUs -> CpuPCs]
    BY <1>1 DEF TypeOK, CpuPCs
  <2> QED BY <1>1, <1>2, <1>4, <1>5, <2>1, <2>2 DEF TypeOK, slot
<1>7. LabelInv'
  <2>1. \A d \in CPUs : d # c => cpc'[d] = cpc[d] /\ time_left'[d] = time_left[d]
    BY <1>1 DEF TypeOK
  <2>2. cpc'[c] = "top" /\ proc'[c] # NULL /\ Loader # c
    BY <1>1, KernelAssumption DEF TypeOK, p
  <2> QED BY <1>1, <1>2, <2>1, <2>2 DEF LabelInv
<1>8. HomeInv'
  BY <1>1 DEF HomeInv, Places, Added
<1> QED BY <1>6, <1>7, <1>8

(* FetchIdle: an idle CPU gets a process, or lets the slot pass.           *)
LEMMA FetchIdleStep ==
  ASSUME IInv, NEW c \in CPUs, FetchIdle(c)
  PROVE  IInv'
<1> USE DEF IInv
<1>1. /\ stage[c] = "working"
      /\ cpc[c] = "top"
      /\ proc[c] = NULL
      /\ get_mlq_proc(c)
      /\ UNCHANGED <<job, running_list, done, ldpc, i, time_left, pc, freed>>
  BY DEF FetchIdle, loaderVars, procVars
<1>2. /\ mlq_ready_queue' \in [Prios -> Seq(Procs)]
      /\ \A k \in Prios : Len(mlq_ready_queue[k])' <= MAX_QUEUE_SIZE
      /\ curr_prio' \in Prios
      /\ curr_slot' \in 0..slot(curr_prio)' - 1
      /\ proc' \in [CPUs -> Procs \cup {NULL}]
      /\ waiting' \subseteq Procs
      /\ HomeInv'
      /\ \A d \in CPUs \ {c} : proc'[d] = proc[d]
  BY <1>1, TypeSched, GetProc
<1>3. /\ Clock!ClockTypeOK'
      /\ time' = time
      /\ cpc' \in [CPUs -> CpuPCs]
      /\ \A d \in CPUs : d # c => cpc'[d] = cpc[d]
      /\ \A e \in CPUs \cup {Loader} : e # c => stage'[e] = stage[e]
      /\ \/ cpc'[c] = "top"
         \/ cpc'[c] = "recheck" /\ stage'[c] = "working"
  <2>1. CASE proc'[c] = NULL
    <3>1. Clock!Arrive(c) /\ UNCHANGED cpc
      BY <2>1 DEF FetchIdle
    <3> QED BY <1>1, <3>1, TypeSched, ClockStep DEF TypeOK
  <2>2. CASE proc'[c] # NULL
    <3>1. cpc' = [cpc EXCEPT ![c] = "recheck"] /\ UNCHANGED <<time, stage>>
      BY <2>2 DEF FetchIdle
    <3> QED BY <1>1, <3>1 DEF TypeOK, CpuPCs, Clock!ClockTypeOK
  <2> QED BY <2>1, <2>2
<1>4. TypeOK'
  BY <1>1, <1>2, <1>3 DEF TypeOK
<1>5. LabelInv'
  BY <1>1, <1>2, <1>3, KernelAssumption DEF LabelInv
<1> QED BY <1>2, <1>4, <1>5

(* Fetch: a CPU that has just given up its process gets another one.       *)
LEMMA FetchStep ==
  ASSUME IInv, NEW c \in CPUs, Fetch(c)
  PROVE  IInv'
<1> USE DEF IInv
<1>1. /\ cpc[c] = "fetch"
      /\ proc[c] = NULL
      /\ stage[c] = "working"
      /\ get_mlq_proc(c)
      /\ cpc' = [cpc EXCEPT ![c] = "recheck"]
      /\ UNCHANGED <<time, stage, job, running_list, done, ldpc, i, time_left,
                     pc, freed>>
  BY DEF Fetch, LabelInv, loaderVars, procVars
<1>2. /\ mlq_ready_queue' \in [Prios -> Seq(Procs)]
      /\ \A k \in Prios : Len(mlq_ready_queue[k])' <= MAX_QUEUE_SIZE
      /\ curr_prio' \in Prios
      /\ curr_slot' \in 0..slot(curr_prio)' - 1
      /\ proc' \in [CPUs -> Procs \cup {NULL}]
      /\ waiting' \subseteq Procs
      /\ HomeInv'
      /\ \A d \in CPUs \ {c} : proc'[d] = proc[d]
  BY <1>1, TypeSched, GetProc
<1>3. /\ cpc' \in [CPUs -> CpuPCs]
      /\ cpc'[c] = "recheck"
      /\ \A d \in CPUs : d # c => cpc'[d] = cpc[d]
  BY <1>1 DEF TypeOK, CpuPCs
<1>4. TypeOK'
  BY <1>1, <1>2, <1>3 DEF TypeOK, Clock!ClockTypeOK
<1>5. LabelInv'
  BY <1>1, <1>2, <1>3 DEF LabelInv
<1> QED BY <1>2, <1>4, <1>5

(* Finish: the PCB is freed when no one else has it.                       *)
LEMMA FinishHome ==
  ASSUME SchedType, HomeInv, NEW c \in CPUs, Finish(c)
  PROVE  HomeInv'
<1>a. /\ proc[c] # NULL
      /\ freed' = freed \cup {proc[c]}
      /\ proc' = [proc EXCEPT ![c] = NULL]
      /\ UNCHANGED <<mlq_ready_queue, i>>
  BY DEF Finish, schedVars, loaderVars
<1>b. proc'[c] = NULL /\ \A d \in CPUs : d # c => proc'[d] = proc[d]
  BY <1>a DEF SchedType
<1>1. (freed \subseteq Added)'
  <2>1. freed \subseteq Added /\ proc[c] \in Added
    BY <1>a DEF HomeInv
  <2>2. Added' = Added
    BY <1>a DEF Added
  <2> QED BY <1>a, <2>1, <2>2
<1>2. \A d \in CPUs : proc'[d] # NULL => proc'[d] \in (Added \ freed)'
  BY <1>a, <1>b DEF HomeInv, Added
<1>3. \A d, e \in CPUs : proc'[d] # NULL /\ proc'[d] = proc'[e] => d = e
  BY <1>b DEF HomeInv
<1>4. ASSUME NEW k \in Prios, NEW n \in Places(k)
      PROVE  /\ mlq_ready_queue[k][n] \in (Added \ freed)'
             /\ \A d \in CPUs : proc'[d] # mlq_ready_queue[k][n]
  <2>1. mlq_ready_queue[k][n] \in Procs
    BY DEF SchedType, Places
  <2> QED BY <1>a, <1>b, <2>1, KernelAssumption DEF HomeInv, Added
<1>5. \A k, l \in Prios : \A m \in Places(k), n \in Places(l) :
        mlq_ready_queue[k][m] = mlq_ready_queue[l][n] => k = l /\ m = n
  BY DEF HomeInv
<1> QED BY <1>a, <1>1, <1>2, <1>3, <1>4, <1>5 DEF HomeInv, Places

(* Finish: the process leaves the CPU.                                     *)
LEMMA FinishStep ==
  ASSUME IInv, NEW c \in CPUs, Finish(c)
  PROVE  IInv'
<1> USE DEF IInv
<1>1. /\ stage[c] = "working"
      /\ proc[c] # NULL
      /\ freed' = freed \cup {proc[c]}
      /\ proc' = [proc EXCEPT ![c] = NULL]
      /\ time_left' = [time_left EXCEPT ![c] = 0]
      /\ cpc' = [cpc EXCEPT ![c] = "fetch"]
      /\ UNCHANGED <<time, stage, job, mlq_ready_queue, running_list, curr_prio,
                     curr_slot, done, ldpc, i, pc, waiting>>
  BY DEF Finish, schedVars, loaderVars
<1>2. /\ proc'[c] = NULL /\ time_left'[c] = 0 /\ cpc'[c] = "fetch"
      /\ \A d \in CPUs : d # c => /\ proc'[d] = proc[d]
                                  /\ time_left'[d] = time_left[d]
                                  /\ cpc'[d] = cpc[d]
  BY <1>1 DEF TypeOK
<1>3. TypeOK'
  <2>1. /\ proc' \in [CPUs -> Procs \cup {NULL}]
        /\ time_left' \in [CPUs -> 0..TimeSlot]
        /\ cpc' \in [CPUs -> CpuPCs]
        /\ freed' \subseteq Procs
    BY <1>1, KernelAssumption DEF TypeOK, CpuPCs
  <2> QED BY <1>1, <2>1 DEF TypeOK, slot, Clock!ClockTypeOK
<1>4. LabelInv'
  BY <1>1, <1>2 DEF LabelInv
<1>5. HomeInv'
  BY <1>1, TypeSched, FinishHome
<1> QED BY <1>3, <1>4, <1>5

(* PutRunningList: only running_list and the place of the CPU change.      *)
LEMMA PutRunningListStep ==
  ASSUME IInv, NEW c \in CPUs, PutRunningList(c)
  PROVE  IInv'
<1> USE DEF IInv
<1>1. /\ stage[c] = "working"
      /\ proc[c] # NULL
      /\ time_left[c] = 0
      /\ running_list' = enqueue(running_list, proc[c])
      /\ cpc' = [cpc EXCEPT ![c] = "put"]
      /\ UNCHANGED <<time, stage, job, mlq_ready_queue, curr_prio, curr_slot,
                     done, ldpc, i, proc, time_left, pc, freed, waiting>>
  BY DEF PutRunningList, loaderVars, procVars
<1>2. /\ cpc'[c] = "put"
      /\ \A d \in CPUs : d # c => cpc'[d] = cpc[d]
  BY <1>1 DEF TypeOK
<1>3. TypeOK'
  <2>1. proc[c] \in Procs /\ running_list \in Seq(Procs)
    BY <1>1 DEF TypeOK
  <2>2. running_list' \in Seq(Procs) /\ Len(running_list') <= MAX_QUEUE_SIZE
    BY <1>1, <2>1, EnqueueType DEF TypeOK
  <2>3. cpc' \in [CPUs -> CpuPCs]
    BY <1>1 DEF TypeOK, CpuPCs
  <2> QED BY <1>1, <2>2, <2>3 DEF TypeOK, slot, Clock!ClockTypeOK
<1>4. LabelInv'
  BY <1>1, <1>2 DEF LabelInv
<1>5. HomeInv'
  BY <1>1 DEF HomeInv, Places, Added
<1> QED BY <1>3, <1>4, <1>5

(* PutReady: the process is on the CPU until it is in its queue.           *)
LEMMA PutReadyHome ==
  ASSUME SchedType, HomeInv, NEW c \in CPUs, proc[c] # NULL, PutReady(c)
  PROVE  HomeInv'
<1> DEFINE p == proc[c]
<1>a. /\ p # NULL
      /\ put_mlq_proc(p)
      /\ proc' = [proc EXCEPT ![c] = NULL]
      /\ UNCHANGED <<i, freed>>
  BY DEF PutReady, loaderVars, procVars
<1>b. /\ proc'[c] = NULL
      /\ \A d \in CPUs : d # c => proc'[d] = proc[d]
  BY <1>a DEF SchedType
<1>c. p \in Procs /\ p \in Added \ freed
  BY <1>a DEF SchedType, HomeInv
<1>d. \A k \in Prios : \A n \in Places(k)' :
        \/ n \in Places(k) /\ mlq_ready_queue'[k][n] = mlq_ready_queue[k][n]
        \/ /\ mlq_ready_queue'[k][n] = p
           /\ k = job[p].prio
           /\ n = Len(mlq_ready_queue[k]) + 1
  BY <1>a, <1>c, PutProc
<1>e. /\ \A k \in Prios : \A n \in Places(k) : mlq_ready_queue[k][n] # p
      /\ \A d \in CPUs : d # c => proc[d] # p
  BY <1>a DEF HomeInv
<1> HIDE DEF p
<1>1. \A d \in CPUs : proc'[d] # NULL => proc'[d] \in Added \ freed /\ proc'[d] # p
  BY <1>b, <1>e DEF HomeInv
<1>2. \A d, e \in CPUs : proc'[d] # NULL /\ proc'[d] = proc'[e] => d = e
  BY <1>b DEF HomeInv
<1>3. ASSUME NEW k \in Prios, NEW n \in Places(k)'
      PROVE  /\ mlq_ready_queue'[k][n] \in Added \ freed
             /\ \A d \in CPUs : proc'[d] # mlq_ready_queue'[k][n]
  <2>1. p # NULL
    BY <1>c, KernelAssumption
  <2>2. CASE mlq_ready_queue'[k][n] = p
    BY <1>b, <1>c, <1>1, <2>1, <2>2
  <2>3. CASE /\ n \in Places(k)
             /\ mlq_ready_queue'[k][n] = mlq_ready_queue[k][n]
    <3>1. mlq_ready_queue[k][n] \in Procs
      BY <2>3 DEF SchedType, Places
    <3> QED BY <1>b, <2>3, <3>1, KernelAssumption DEF HomeInv
  <2> QED BY <1>d, <2>2, <2>3
<1>4. ASSUME NEW k \in Prios, NEW l \in Prios,
             NEW m \in Places(k)', NEW n \in Places(l)',
             mlq_ready_queue'[k][m] = mlq_ready_queue'[l][n]
      PROVE  k = l /\ m = n
  BY <1>d, <1>e, <1>4 DEF HomeInv
<1> QED BY <1>a, <1>1, <1>2, <1>3, <1>4 DEF HomeInv, Added

(* PutReady: from the CPU to the end of its queue, or nowhere if the queue *)
(* is full.                                                                *)
LEMMA PutReadyStep ==
  ASSUME IInv, NEW c \in CPUs, PutReady(c)
  PROVE  IInv'
<1> USE DEF IInv
<1> DEFINE p == proc[c]
<1>1. /\ cpc[c] = "put"
      /\ p # NULL
      /\ stage[c] = "working"
      /\ time_left[c] = 0
      /\ put_mlq_proc(p)
      /\ proc' = [proc EXCEPT ![c] = NULL]
      /\ cpc' = [cpc EXCEPT ![c] = "fetch"]
      /\ UNCHANGED <<time, stage, job, running_list, curr_prio, curr_slot,
                     done, ldpc, i, time_left, pc, freed, waiting>>
  BY DEF PutReady, LabelInv, loaderVars, procVars
<1>2. /\ proc'[c] = NULL /\ cpc'[c] = "fetch"
      /\ \A d \in CPUs : d # c => proc'[d] = proc[d] /\ cpc'[d] = cpc[d]
  BY <1>1 DEF TypeOK
<1>3. p \in Procs /\ p \in Added \ freed
  BY <1>1 DEF TypeOK, HomeInv
<1>4. /\ mlq_ready_queue' \in [Prios -> Seq(Procs)]
      /\ \A k \in Prios : Len(mlq_ready_queue[k])' <= MAX_QUEUE_SIZE
      /\ \A k \in Prios : \A n \in Places(k)' :
           \/ n \in Places(k) /\ mlq_ready_queue'[k][n] = mlq_ready_queue[k][n]
           \/ /\ mlq_ready_queue'[k][n] = p
              /\ k = job[p].prio
              /\ n = Len(mlq_ready_queue[k]) + 1
  BY <1>1, <1>3, TypeSched, PutProc
<1>6. TypeOK'
  <2>1. proc' \in [CPUs -> Procs \cup {NULL}] /\ cpc' \in [CPUs -> CpuPCs]
    BY <1>1 DEF TypeOK, CpuPCs
  <2> QED BY <1>1, <1>4, <2>1 DEF TypeOK, slot, Clock!ClockTypeOK
<1>7. LabelInv'
  BY <1>1, <1>2 DEF LabelInv
<1> HIDE DEF p
<1>8. HomeInv'
  BY <1>1, TypeSched, PutReadyHome DEF p
<1> QED BY <1>6, <1>7, <1>8

(* Stop and SkipSlot: the CPU has no process.                              *)
LEMMA NothingToRunStep ==
  ASSUME IInv, NEW c \in CPUs, Stop(c) \/ SkipSlot(c)
  PROVE  IInv'
<1> USE DEF IInv
<1>1. /\ proc[c] = NULL
      /\ Clock!Arrive(c) \/ Clock!Detach(c)
      /\ \/ cpc' = [cpc EXCEPT ![c] = "stopped"]
         \/ cpc' = [cpc EXCEPT ![c] = "top"]
      /\ UNCHANGED <<job, mlq_ready_queue, running_list, curr_prio, curr_slot,
                     done, ldpc, i, proc, time_left, pc, freed, waiting>>
  BY DEF Stop, SkipSlot, schedVars, loaderVars, procVars
<1>2. /\ Clock!ClockTypeOK'
      /\ time' = time
      /\ \A e \in CPUs \cup {Loader} : e # c => stage'[e] = stage[e]
  BY <1>1, TypeSched, ClockStep
<1>3. /\ cpc'[c] \in {"stopped", "top"}
      /\ cpc' \in [CPUs -> CpuPCs]
      /\ \A d \in CPUs : d # c => cpc'[d] = cpc[d]
  BY <1>1 DEF TypeOK, CpuPCs
<1>4. TypeOK'
  BY <1>1, <1>2, <1>3 DEF TypeOK, slot
<1>5. LabelInv'
  BY <1>1, <1>2, <1>3, KernelAssumption DEF LabelInv
<1>6. HomeInv'
  BY <1>1 DEF HomeInv, Places, Added
<1> QED BY <1>4, <1>5, <1>6

(* LdWait, LdExit: only the loader moves.                                  *)
LEMMA LoaderIdleStep ==
  ASSUME IInv, LdWait \/ LdExit
  PROVE  IInv'
<1> USE DEF IInv
<1>1. /\ ldpc' \in LoaderPCs
      /\ ldpc' # "add"
      /\ done' \in BOOLEAN
      /\ Clock!Arrive(Loader) \/ Clock!Detach(Loader)
      /\ UNCHANGED <<job, mlq_ready_queue, running_list, curr_prio, curr_slot,
                     i, cpc, proc, time_left, pc, freed, waiting>>
  BY DEF LdWait, LdExit, TypeOK, LoaderPCs, schedVars, loaderVars, cpuVars,
         procVars
<1>2. /\ Clock!ClockTypeOK'
      /\ time' = time
      /\ \A c \in CPUs : stage'[c] = stage[c]
  BY <1>1, TypeSched, ClockStep, KernelAssumption
<1>3. TypeOK'
  BY <1>1, <1>2 DEF TypeOK, slot
<1>4. LabelInv'
  BY <1>1, <1>2 DEF LabelInv
<1>5. HomeInv'
  BY <1>1 DEF HomeInv, Places, Added
<1> QED BY <1>3, <1>4, <1>5

(* LdRunningList: the loader enters add_proc, in time for the process.     *)
LEMMA LdRunningListStep ==
  ASSUME IInv, LdRunningList
  PROVE  IInv'
<1> USE DEF IInv
<1>1. /\ stage[Loader] = "working"
      /\ i <= NumProcs
      /\ time >= job[i].start
      /\ running_list' = enqueue(running_list, i)
      /\ ldpc' = "add"
      /\ UNCHANGED <<time, stage, job, mlq_ready_queue, curr_prio, curr_slot,
                     done, i, cpc, proc, time_left, pc, freed, waiting>>
  BY DEF LdRunningList, cpuVars, procVars
<1>2. TypeOK'
  <2>1. i \in Procs /\ running_list \in Seq(Procs)
    BY <1>1, KernelAssumption DEF TypeOK, Procs
  <2>2. running_list' \in Seq(Procs) /\ Len(running_list') <= MAX_QUEUE_SIZE
    BY <1>1, <2>1, EnqueueType DEF TypeOK
  <2>3. ldpc' \in LoaderPCs
    BY <1>1 DEF LoaderPCs
  <2> QED BY <1>1, <2>2, <2>3 DEF TypeOK, slot, Clock!ClockTypeOK
<1>3. LabelInv'
  BY <1>1 DEF LabelInv
<1>4. HomeInv'
  BY <1>1 DEF HomeInv, Places, Added
<1> QED BY <1>2, <1>3, <1>4

(* LdReady: the process was nowhere before it enters its queue.            *)
LEMMA LdReadyHome ==
  ASSUME SchedType, HomeInv, i <= NumProcs, LdReady
  PROVE  HomeInv'
<1>a. /\ put_mlq_proc(i)
      /\ i' = i + 1
      /\ UNCHANGED <<proc, freed>>
  BY DEF LdReady, cpuVars, procVars
<1>c. /\ i \in Procs
      /\ i \notin Added
      /\ Added \subseteq Procs
      /\ Added' = Added \cup {i}
  BY <1>a, KernelAssumption DEF SchedType, Procs, Added
<1>d. \A k \in Prios : \A n \in Places(k)' :
        \/ n \in Places(k) /\ mlq_ready_queue'[k][n] = mlq_ready_queue[k][n]
        \/ /\ mlq_ready_queue'[k][n] = i
           /\ k = job[i].prio
           /\ n = Len(mlq_ready_queue[k]) + 1
  BY <1>a, <1>c, PutProc
<1>e. /\ \A k \in Prios : \A n \in Places(k) : mlq_ready_queue[k][n] # i
      /\ \A c \in CPUs : proc[c] # i
      /\ i \notin freed
  <2>1. i # NULL
    BY <1>c, KernelAssumption
  <2> QED BY <1>c, <2>1 DEF HomeInv
<1>1. ASSUME NEW k \in Prios, NEW n \in Places(k)'
      PROVE  /\ mlq_ready_queue'[k][n] \in Added' \ freed
             /\ \A c \in CPUs : proc[c] # mlq_ready_queue'[k][n]
  BY <1>c, <1>d, <1>e DEF HomeInv
<1>2. ASSUME NEW k \in Prios, NEW l \in Prios,
             NEW m \in Places(k)', NEW n \in Places(l)',
             mlq_ready_queue'[k][m] = mlq_ready_queue'[l][n]
      PROVE  k = l /\ m = n
  BY <1>d, <1>e, <1>2 DEF HomeInv
<1>3. /\ freed \subseteq Added'
      /\ \A c \in CPUs : proc[c] # NULL => proc[c] \in Added' \ freed
      /\ \A c, d \in CPUs : proc[c] # NULL /\ proc[c] = proc[d] => c = d
  BY <1>c DEF HomeInv
<1> QED BY <1>a, <1>1, <1>2, <1>3 DEF HomeInv

(* LdReady: a process that was nowhere enters a queue.                     *)
LEMMA LdReadyStep ==
  ASSUME IInv, LdReady
  PROVE  IInv'
<1> USE DEF IInv
<1>1. /\ i <= NumProcs
      /\ time >= job[i].start
      /\ put_mlq_proc(i)
      /\ i' = i + 1
      /\ ldpc' = "wait"
      /\ Clock!Arrive(Loader)
      /\ UNCHANGED <<job, running_list, curr_prio, curr_slot, done, cpc, proc,
                     time_left, pc, freed, waiting>>
  BY DEF LdReady, LabelInv, cpuVars, procVars
<1>2. /\ Clock!ClockTypeOK'
      /\ time' = time
      /\ \A c \in CPUs : stage'[c] = stage[c]
  BY <1>1, TypeSched, ClockStep, KernelAssumption
<1>3. /\ i \in Procs
      /\ i \notin Added
      /\ Added \subseteq Procs
      /\ Added' = Added \cup {i}
      /\ i' \in 1..NumProcs + 1
  BY <1>1, KernelAssumption DEF TypeOK, Procs, Added
<1>4. /\ mlq_ready_queue' \in [Prios -> Seq(Procs)]
      /\ \A k \in Prios : Len(mlq_ready_queue[k])' <= MAX_QUEUE_SIZE
      /\ \A k \in Prios : \A n \in Places(k)' :
           \/ n \in Places(k) /\ mlq_ready_queue'[k][n] = mlq_ready_queue[k][n]
           \/ /\ mlq_ready_queue'[k][n] = i
              /\ k = job[i].prio
              /\ n = Len(mlq_ready_queue[k]) + 1
  BY <1>1, <1>3, TypeSched, PutProc
<1>6. TypeOK'
  <2>1. ldpc' \in LoaderPCs
    BY <1>1 DEF LoaderPCs
  <2> QED BY <1>1, <1>2, <1>3, <1>4, <2>1 DEF TypeOK, slot
<1>7. LabelInv'
  BY <1>1, <1>2 DEF LabelInv
<1>8. HomeInv'
  BY <1>1, TypeSched, LdReadyHome
<1> QED BY <1>6, <1>7, <1>8

(* NextSlot, LastSlot: no thread is inside put_proc, get_proc or add_proc, *)
(* and whatever ran in the old slot may run again.                         *)
LEMMA ClockTickStep ==
  ASSUME IInv, NextSlot \/ LastSlot
  PROVE  IInv'
<1> USE DEF IInv
<1>1. /\ \A d \in CPUs \cup {Loader} : stage[d] # "working"
      /\ time' = Clock!Later(time)
      /\ Clock!ClockTypeOK'
      /\ waiting' \subseteq Procs
      /\ UNCHANGED <<job, mlq_ready_queue, running_list, curr_prio, curr_slot,
                     done, ldpc, i, cpc, proc, time_left, pc, freed>>
  <2>1. CASE NextSlot
    BY <2>1, KernelAssumption
       DEF NextSlot, Clock!Tick, Clock!Later, Clock!ClockTypeOK, Clock!Stages,
           TypeOK, schedVars, loaderVars, cpuVars, procVars
  <2>2. CASE LastSlot
    BY <2>2, KernelAssumption
       DEF LastSlot, Clock!LastTick, Clock!Later, Clock!ClockTypeOK,
           Clock!Stages, TypeOK, schedVars, loaderVars, cpuVars, procVars
  <2> QED BY <2>1, <2>2
<1>2. TypeOK'
  BY <1>1 DEF TypeOK, slot
<1>3. LabelInv'
  BY <1>1 DEF LabelInv
<1>4. HomeInv'
  BY <1>1 DEF HomeInv, Places, Added
<1> QED BY <1>2, <1>3, <1>4

(* Every step of every thread preserves the invariant.                     *)
LEMMA NextIInv == IInv /\ [Next]_vars => IInv'
<1> SUFFICES ASSUME IInv, [Next]_vars PROVE IInv'
  OBVIOUS
<1>1. ASSUME NEW c \in CPUs, CpuStep(c) PROVE IInv'
  BY <1>1, FetchIdleStep, FinishStep, PutRunningListStep, PutReadyStep,
     FetchStep, NothingToRunStep, RunIInv DEF CpuStep
<1>2. CASE LoaderStep
  BY <1>2, LoaderIdleStep, LdRunningListStep, LdReadyStep DEF LoaderStep
<1>3. CASE NextSlot \/ LastSlot
  BY <1>3, ClockTickStep
<1>4. CASE UNCHANGED vars
  <2> USE <1>4 DEF IInv, vars, schedVars, loaderVars, cpuVars, procVars
  <2>1. TypeOK'
    BY DEF TypeOK, slot, Clock!ClockTypeOK
  <2>2. LabelInv'
    BY DEF LabelInv
  <2>3. HomeInv'
    BY DEF HomeInv, Places, Added
  <2> QED BY <2>1, <2>2, <2>3
<1> QED BY <1>1, <1>2, <1>3, <1>4 DEF Next
------------------------------------------------------------------------------
(* The theorems.                                                           *)

(* The inductive invariant holds in every reachable state: of every number *)
(* of CPUs running any table of processes on queues of any size.           *)
THEOREM KernelInvariant == Spec => []IInv
BY InitIInv, NextIInv, PTL DEF Spec

(* Kernel's variables keep their types; in particular no queue outgrows    *)
(* its array and (curr_prio, curr_slot) stays within the budget of a queue. *)
THEOREM KernelTypeOK == Spec => []TypeOK
<1>1. IInv => TypeOK
  BY DEF IInv
<1> QED BY <1>1, KernelInvariant, PTL

(* What HomeInv says of the places says the same of the homes.             *)
LEMMA HomeSingle == HomeInv => SingleHome
<1> SUFFICES ASSUME HomeInv, NEW p \in Procs
             PROVE  /\ \A g, h \in Homes(p) : g = h
                    /\ p \notin Added \/ p \in freed => Homes(p) = {}
  BY DEF SingleHome
<1>0. p # NULL
  BY KernelAssumption
<1>1. \A h \in Homes(p) :
        \/ \E k \in Prios : \E n \in Places(k) :
             h = <<"ready", k, n>> /\ mlq_ready_queue[k][n] = p
        \/ \E c \in CPUs : h = <<"cpu", c>> /\ proc[c] = p
  BY DEF Homes, Places
<1>2. ASSUME NEW g \in Homes(p), NEW h \in Homes(p) PROVE g = h
  BY <1>0, <1>1 DEF HomeInv
<1>3. ASSUME NEW h \in Homes(p) PROVE p \in Added \ freed
  BY <1>0, <1>1 DEF HomeInv
<1> QED BY <1>2, <1>3

(* No process is at two places, and none is found before it was added or   *)
(* after its PCB was freed.                                                *)
THEOREM KernelSingleHome == Spec => []SingleHome
<1>1. IInv => SingleHome
  BY HomeSingle DEF IInv
<1> QED BY <1>1, KernelInvariant, PTL

(* A CPU works on its own process, in its turn of the slot, and only Run   *)
(* moves a pc.                                                             *)
LEMMA CpuWorks ==
  ASSUME IInv, NEW c \in CPUs, CpuStep(c)
  PROVE  /\ stage[c] = "working"
         /\ \A d \in CPUs \ {c} : proc'[d] = proc[d] /\ stage'[d] = stage[d]
         /\ \/ Executed = {}
            \/ /\ Executed = {proc[c]} /\ proc[c] # NULL
               /\ proc'[c] = proc[c] /\ stage'[c] # "working"
<1> USE DEF IInv
<1>1. CASE Run(c)
  <2>1. /\ proc[c] # NULL /\ proc' = proc
        /\ pc' = [pc EXCEPT ![proc[c]] =
                    IF @ >= job[proc[c]].size THEN @ ELSE @ + 1]
        /\ Clock!Arrive(c)
    BY <1>1 DEF Run
  <2>2. /\ stage[c] = "working"
        /\ stage'[c] # "working"
        /\ \A e \in CPUs \cup {Loader} : e # c => stage'[e] = stage[e]
    BY <2>1, TypeSched, ClockStep
  <2>3. Executed \subseteq {proc[c]}
    BY <2>1 DEF Executed, TypeOK
  <2> QED BY <2>1, <2>2, <2>3
<1>2. CASE FetchIdle(c) \/ Fetch(c)
  <2>1. /\ get_mlq_proc(c) /\ proc[c] = NULL
        /\ stage[c] = "working"
        /\ UNCHANGED <<job, i, freed, pc>>
    BY <1>2 DEF FetchIdle, Fetch, LabelInv, loaderVars, procVars
  <2>2. \A d \in CPUs \ {c} : proc'[d] = proc[d]
    BY <2>1, TypeSched, GetProc
  <2>3. \A d \in CPUs \ {c} : stage'[d] = stage[d]
    BY <1>2, TypeSched, ClockStep DEF FetchIdle, Fetch
  <2> QED BY <2>1, <2>2, <2>3 DEF Executed
<1>3. CASE Finish(c) \/ PutRunningList(c) \/ PutReady(c)
  BY <1>3 DEF Finish, PutRunningList, PutReady, LabelInv, TypeOK, procVars, Executed
<1>4. CASE Stop(c) \/ SkipSlot(c)
  <2>1. /\ Clock!Arrive(c) \/ Clock!Detach(c)
        /\ UNCHANGED <<proc, pc>>
    BY <1>4 DEF Stop, SkipSlot, procVars
  <2> QED BY <2>1, TypeSched, ClockStep DEF Executed
<1> QED BY <1>1, <1>2, <1>3, <1>4 DEF CpuStep

(* A process that has run in this slot is still on its CPU, which waits    *)
(* for the next one.                                                       *)
HasRunInv ==
  \A p \in hasRun : \E c \in CPUs : proc[c] = p /\ stage[c] # "working"

LEMMA PaceStep ==
  ASSUME IInv, HasRunInv, [PaceNext]_paceVars
  PROVE  HasRunInv' /\ (Executed \cap hasRun = {} \/ UNCHANGED paceVars)
<1>1. CASE NextSlot /\ hasRun' = {}
  BY <1>1 DEF HasRunInv, NextSlot, procVars, Executed
<1>2. ASSUME NEW c \in CPUs, CpuStep(c), hasRun' = hasRun \cup Executed
      PROVE  HasRunInv' /\ Executed \cap hasRun = {}
  <2>1. /\ stage[c] = "working"
        /\ \A d \in CPUs \ {c} : proc'[d] = proc[d] /\ stage'[d] = stage[d]
        /\ \/ Executed = {}
           \/ /\ Executed = {proc[c]} /\ proc[c] # NULL
              /\ proc'[c] = proc[c] /\ stage'[c] # "working"
    BY <1>2, CpuWorks
  <2>2. \A p \in hasRun : \E d \in CPUs \ {c} : proc[d] = p /\ stage[d] # "working"
    BY <2>1 DEF HasRunInv
  <2>3. \A p \in hasRun : \E d \in CPUs : proc'[d] = p /\ stage'[d] # "working"
    BY <2>1, <2>2
  <2>4. Executed \cap hasRun = {}
    BY <2>1, <2>2 DEF IInv, HomeInv
  <2> QED BY <1>2, <2>1, <2>3, <2>4 DEF HasRunInv
<1>3. CASE (LoaderStep \/ LastSlot) /\ hasRun' = hasRun \cup Executed
  <2>1. UNCHANGED <<proc, pc>> /\ \A c \in CPUs : stage'[c] = stage[c]
    <3>1. CASE LastSlot
      BY <3>1 DEF LastSlot, Clock!LastTick, cpuVars, procVars
    <3>2. CASE LoaderStep
      BY <3>2, TypeSched, ClockStep, KernelAssumption
         DEF LoaderStep, LdWait, LdRunningList, LdReady, LdExit, cpuVars, procVars,
             IInv
    <3> QED BY <1>3, <3>1, <3>2
  <2> QED BY <1>3, <2>1 DEF HasRunInv, Executed
<1>4. CASE UNCHANGED paceVars
  BY <1>4 DEF paceVars, vars, cpuVars, HasRunInv
<1> QED BY <1>1, <1>2, <1>3, <1>4 DEF PaceNext

(* A process executes at most one instruction per slot: on any number of   *)
(* CPUs no step of cpu_routine runs a process that has run in this slot.   *)
THEOREM KernelPace == PaceSpec => Pace
<1>1. PaceInit => IInv /\ HasRunInv
  BY InitIInv DEF PaceInit, HasRunInv
<1>2. IInv /\ HasRunInv /\ [PaceNext]_paceVars => (IInv /\ HasRunInv)'
  <2>1. [PaceNext]_paceVars => [Next]_vars
    BY DEF PaceNext, paceVars, Next
  <2> QED BY <2>1, NextIInv, PaceStep
<1>3. IInv /\ HasRunInv /\ [PaceNext]_paceVars =>
        [Executed \cap hasRun = {}]_paceVars
  BY PaceStep
<1> QED BY <1>1, <1>2, <1>3, PTL DEF PaceSpec, Pace

(* A CPU without a process has no budget left over.                        *)
THEOREM KernelNoBudgetLeftOver == Spec => []NoBudgetLeftOver
<1>1. IInv => NoBudgetLeftOver
  BY DEF IInv, LabelInv, NoBudgetLeftOver
<1> QED BY <1>1, KernelInvariant, PTL
==============================================================================
