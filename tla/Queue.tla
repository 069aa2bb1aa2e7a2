-------------------------------- MODULE Queue --------------------------------
(***************************************************************************)
(* queue.c: a process queue is an array of at most MAX_QUEUE_SIZE PCB      *)
(* pointers, modelled by the sequence of the processes in it.  Dequeuing   *)
(* compares the default priority of the PCBs, which the caller passes as   *)
(* the function priority.                                                  *)
(***************************************************************************)
EXTENDS Naturals, Sequences

CONSTANT MAX_QUEUE_SIZE

ASSUME QueueAssumption == MAX_QUEUE_SIZE \in Nat \ {0}

empty(q) == Len(q) = 0

(* Mutation: the size test is off by one.                                  *)
enqueue_OffByOne(q, p) ==
  IF Len(q) > MAX_QUEUE_SIZE THEN q ELSE Append(q, p)

(* Mutation: the last place of the array is never used.                    *)
enqueue_OneShort(q, p) ==
  IF Len(q) >= MAX_QUEUE_SIZE - 1 THEN q ELSE Append(q, p)

(* A full queue drops the process: enqueue returns without a word.         *)
enqueue(q, p) ==
  IF Len(q) >= MAX_QUEUE_SIZE THEN q ELSE Append(q, p)

(* The position dequeue takes: the lowest priority value, the earliest of  *)
(* equals.                                                                 *)
HighestIndex(q, priority) ==
  CHOOSE i \in 1..Len(q) :
    \A j \in 1..Len(q) : \/ priority[q[i]] < priority[q[j]]
                         \/ priority[q[i]] = priority[q[j]] /\ i <= j

(* Mutation: the shift starts one position too late.                       *)
ShiftDown_Late(q, k) ==
  [i \in 1..Len(q) - 1 |-> IF i <= k THEN q[i] ELSE q[i + 1]]

(* The array after the elements behind position k have moved down one.     *)
ShiftDown(q, k) ==
  [i \in 1..Len(q) - 1 |-> IF i < k THEN q[i] ELSE q[i + 1]]

(* What dequeue returns, and what it leaves, for a queue that is not empty. *)
dequeued(q, priority) == q[HighestIndex(q, priority)]
dequeue(q, priority) == ShiftDown(q, HighestIndex(q, priority))
==============================================================================
