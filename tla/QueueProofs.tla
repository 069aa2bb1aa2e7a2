----------------------------- MODULE QueueProofs -----------------------------
(***************************************************************************)
(* What enqueue and dequeue of queue.c do to a queue, for every capacity   *)
(* and every content: the facts that the proofs about Kernel rest on.      *)
(***************************************************************************)
EXTENDS Queue, SequenceTheorems, WellFoundedInduction, TLAPS

(* A set of natural numbers that is not empty has a least element: the     *)
(* loop of dequeue that looks for the lowest priority finds one.           *)
LEMMA LeastNatural ==
  ASSUME NEW T, T \subseteq Nat, T # {}
  PROVE  \E x \in T : \A y \in T : x <= y
<1> DEFINE R == OpToRel(<, Nat)
<1>1. IsWellFoundedOn(R, Nat)
  BY NatLessThanWellFounded
<1> HIDE DEF R
<1>2. PICK x \in T : \A y \in T : ~ (<<y, x>> \in R)
  BY <1>1, WFMin
<1>3. \A y \in T : x <= y
  <2> SUFFICES ASSUME NEW y \in T PROVE x <= y
    OBVIOUS
  <2>1. ~ (y < x)
    BY <1>2 DEF R, OpToRel
  <2> QED BY <2>1
<1> QED BY <1>3

(* dequeue finds a position of the queue: the first of those that hold the *)
(* lowest priority.                                                        *)
LEMMA HighestIndexInQueue ==
  ASSUME NEW S, NEW q \in Seq(S), Len(q) # 0, NEW priority \in [S -> Nat]
  PROVE  /\ HighestIndex(q, priority) \in 1..Len(q)
         /\ \A j \in 1..Len(q) :
              /\ priority[q[HighestIndex(q, priority)]] <= priority[q[j]]
              /\ priority[q[HighestIndex(q, priority)]] = priority[q[j]] =>
                   HighestIndex(q, priority) <= j
<1> DEFINE values == {priority[q[n]] : n \in 1..Len(q)}
           least(v) == {n \in 1..Len(q) : priority[q[n]] = v}
<1>0. Len(q) \in Nat /\ \A n \in 1..Len(q) : q[n] \in S /\ priority[q[n]] \in Nat
  OBVIOUS
<1>1. values \subseteq Nat /\ values # {}
  <2>1. 1 \in 1..Len(q)
    BY <1>0
  <2> QED BY <1>0, <2>1
<1>2. PICK v \in values : \A w \in values : v <= w
  BY <1>1, LeastNatural
<1>3. least(v) \subseteq Nat /\ least(v) # {}
  BY <1>0, <1>2
<1>4. PICK k \in least(v) : \A n \in least(v) : k <= n
  BY <1>3, LeastNatural
<1>5. /\ k \in 1..Len(q)
      /\ \A j \in 1..Len(q) : \/ priority[q[k]] < priority[q[j]]
                              \/ priority[q[k]] = priority[q[j]] /\ k <= j
  <2> SUFFICES ASSUME NEW j \in 1..Len(q)
               PROVE  \/ priority[q[k]] < priority[q[j]]
                      \/ priority[q[k]] = priority[q[j]] /\ k <= j
    BY <1>4
  <2>1. priority[q[k]] = v /\ v <= priority[q[j]] /\ v \in Nat
    BY <1>1, <1>2, <1>4
  <2>2. CASE priority[q[j]] = v
    BY <2>1, <2>2, <1>4
  <2>3. CASE priority[q[j]] # v
    BY <2>1, <2>3, <1>0
  <2> QED BY <2>2, <2>3
<1> HIDE DEF values, least
<1>6. /\ HighestIndex(q, priority) \in 1..Len(q)
      /\ \A j \in 1..Len(q) :
           \/ priority[q[HighestIndex(q, priority)]] < priority[q[j]]
           \/ /\ priority[q[HighestIndex(q, priority)]] = priority[q[j]]
              /\ HighestIndex(q, priority) <= j
  BY <1>5 DEF HighestIndex
<1> QED BY <1>0, <1>6

(* The shift takes one place out and keeps the others in their order,      *)
(* whichever place it is.                                                  *)
LEMMA ShiftProperties ==
  ASSUME NEW S, NEW q \in Seq(S), Len(q) # 0, NEW k \in Nat
  PROVE  LET r == ShiftDown(q, k)
         IN /\ r \in Seq(S)
            /\ Len(r) = Len(q) - 1
            /\ \A n \in 1..Len(r) : r[n] = IF n < k THEN q[n] ELSE q[n + 1]
<1> DEFINE r == [n \in 1..Len(q) - 1 |-> IF n < k THEN q[n] ELSE q[n + 1]]
<1>1. ShiftDown(q, k) = r
  BY DEF ShiftDown
<1>2. Len(q) \in Nat
  OBVIOUS
<1>3. \A n \in 1..Len(q) - 1 : r[n] \in S
  BY <1>2
<1>4. r \in Seq(S) /\ Len(r) = Len(q) - 1
  <2>1. Len(q) - 1 \in Nat
    BY <1>2
  <2> QED BY <2>1, <1>3, IsASeq, LenProperties
<1> QED BY <1>1, <1>2, <1>3, <1>4

(* dequeue takes one element out and keeps the others in their order.      *)
LEMMA DequeueProperties ==
  ASSUME NEW S, NEW q \in Seq(S), Len(q) # 0, NEW priority \in [S -> Nat]
  PROVE  LET k == HighestIndex(q, priority)
             r == dequeue(q, priority)
         IN /\ k \in 1..Len(q)
            /\ dequeued(q, priority) = q[k]
            /\ dequeued(q, priority) \in S
            /\ r \in Seq(S)
            /\ Len(r) = Len(q) - 1
            /\ \A n \in 1..Len(r) : r[n] = IF n < k THEN q[n] ELSE q[n + 1]
<1> DEFINE k == HighestIndex(q, priority)
           r == dequeue(q, priority)
<1>1. k \in 1..Len(q) /\ k \in Nat /\ Len(q) \in Nat
  BY HighestIndexInQueue
<1>2. r = ShiftDown(q, k) /\ dequeued(q, priority) = q[k]
  BY DEF dequeue, dequeued
<1> HIDE DEF k, r
<1>3. /\ r \in Seq(S)
      /\ Len(r) = Len(q) - 1
      /\ \A n \in 1..Len(r) : r[n] = IF n < k THEN q[n] ELSE q[n + 1]
  BY <1>1, <1>2, ShiftProperties
<1>4. q[k] \in S
  BY <1>1
<1> QED BY <1>1, <1>2, <1>3, <1>4 DEF k, r

(* enqueue keeps the queue within its array.                               *)
LEMMA EnqueueType ==
  ASSUME NEW S, NEW q \in Seq(S), NEW p \in S
  PROVE  /\ enqueue(q, p) \in Seq(S)
         /\ Len(q) <= MAX_QUEUE_SIZE => Len(enqueue(q, p)) <= MAX_QUEUE_SIZE
BY QueueAssumption DEF enqueue

(* enqueue moves nothing that is in the queue.                             *)
LEMMA EnqueueKeeps ==
  ASSUME NEW S, NEW q \in Seq(S), NEW p \in S, NEW n \in 1..Len(q)
  PROVE  n \in 1..Len(enqueue(q, p)) /\ enqueue(q, p)[n] = q[n]
BY DEF enqueue

(* What enqueue adds is the process it was given.                          *)
LEMMA EnqueueAdds ==
  ASSUME NEW S, NEW q \in Seq(S), NEW p \in S,
         NEW n \in 1..Len(enqueue(q, p)), n \notin 1..Len(q)
  PROVE  n = Len(q) + 1 /\ enqueue(q, p)[n] = p
BY DEF enqueue

(* enqueue drops nothing as long as the queue is not full.                 *)
LEMMA EnqueueRoom ==
  ASSUME NEW S, NEW q \in Seq(S), NEW p \in S, Len(q) < MAX_QUEUE_SIZE
  PROVE  \E n \in 1..Len(enqueue(q, p)) : enqueue(q, p)[n] = p
<1>1. enqueue(q, p) = Append(q, p)
  BY QueueAssumption DEF enqueue
<1>2. Len(q) \in Nat
  OBVIOUS
<1>3. Len(Append(q, p)) = Len(q) + 1 /\ Append(q, p)[Len(q) + 1] = p
  OBVIOUS
<1>4. Len(q) + 1 \in 1..Len(enqueue(q, p))
  BY <1>1, <1>2, <1>3
<1> QED BY <1>1, <1>3, <1>4
==============================================================================
