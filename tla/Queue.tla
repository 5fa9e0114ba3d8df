-------------------------------- MODULE Queue -------------------------------
(***************************************************************************)
(* The queue of src/lib/queue.c: a linked list with a lock and a condition *)
(* variable.  A node is named by the position of its data in the input, so *)
(* that every node has a name of its own, as a freshly allocated one has.  *)
(* Under the lock the operations are atomic; the lock itself is taken and  *)
(* released by separate steps.                                             *)
(***************************************************************************)
EXTENDS Integers, FiniteSets

CONSTANT MaxNodes    \* bound: nodes ever allocated

VARIABLES
  front, back, size,  \* of zqueue_t
  nextOf,             \* the next field of each node
  freed,              \* the nodes given back with free()
  lock,               \* the thread that holds the mutex, or "free"
  waiting             \* the threads blocked on the condition empty

queueVars == <<front, back, size, nextOf, freed, lock, waiting>>

NoNode == 0
QNodes == 1 .. MaxNodes

QueueInit ==
  /\ front = NoNode /\ back = NoNode /\ size = 0
  /\ nextOf = [n \in QNodes |-> NoNode]
  /\ freed = {} /\ lock = "free" /\ waiting = {}

IsEmpty == size = 0

(* The body of push_back under the lock, with the signal. *)
PushBack(n) ==
  /\ front' = IF IsEmpty THEN n ELSE front
  /\ nextOf' = IF IsEmpty THEN nextOf ELSE [nextOf EXCEPT ![back] = n]
  /\ back' = n
  /\ size' = size + 1
  /\ UNCHANGED freed

(* pop_front_unsafe; back keeps its value. *)
PopFrontUnsafe ==
  /\ front' = nextOf[front]
  /\ size' = size - 1
  /\ UNCHANGED <<back, nextOf, freed>>

Lock(t)   == lock = "free" /\ lock' = t
Unlock(t) == lock = t /\ lock' = "free"

(* pthread_cond_signal wakes one waiting thread, if there is one. *)
Signal == IF waiting = {} THEN UNCHANGED waiting
          ELSE \E t \in waiting : waiting' = waiting \ {t}
=============================================================================
