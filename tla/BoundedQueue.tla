---------------------------- MODULE BoundedQueue ----------------------------
(***************************************************************************)
(* BoundedQueue<T> of common/concurrency/BoundedQueue.h: a queue shared by *)
(* producers and consumers, protected by one mutex, with one condition     *)
(* variable on which WaitPop blocks.  A push into a full queue throws the  *)
(* oldest element away.                                                    *)
(*                                                                         *)
(* Every method holds _mutex from its first to its last access, so one     *)
(* critical section is one step.  WaitPop has two kinds of critical        *)
(* section: the one it is called in and one each time it wakes up, because *)
(* condition_variable::wait releases the mutex while the thread is blocked *)
(* and evaluates its predicate again afterwards.                           *)
(*                                                                         *)
(* T is never inspected: an element is the number of the push that brought *)
(* it, so that any two elements can be told apart.                         *)
(***************************************************************************)
EXTENDS Integers, Sequences, FiniteSets

CONSTANTS
  Consumers,         \* threads that pop
  RequestedCapacity, \* the argument of the constructor
  MaxPushes          \* bound on the accepted pushes

ASSUME QueueAssumption ==
  /\ IsFiniteSet(Consumers)
  /\ RequestedCapacity \in Nat
  /\ MaxPushes \in Nat

VARIABLES
  queue,    \* _queue
  closed,   \* _closed
  waiting,  \* threads blocked in _condition.wait
  woken,    \* threads notified in wait that have not got _mutex back yet
  pushed,   \* number of pushes that were accepted
  received  \* the last element popped by each consumer, 0 when there is none

vars == <<queue, closed, waiting, woken, pushed, received>>

(* The constructor raises the capacity to 1.                               *)
Capacity == IF RequestedCapacity < 1 THEN 1 ELSE RequestedCapacity

Init ==
  /\ queue = <<>>
  /\ closed = FALSE
  /\ waiting = {}
  /\ woken = {}
  /\ pushed = 0
  /\ received = [c \in Consumers |-> 0]
-----------------------------------------------------------------------------
(* Mutated forms of the operators below, each a plausible slip.            *)
KeepOneTooMany(q) == IF Len(q) > Capacity THEN Tail(q) ELSE q
DropNewest(q) == IF Len(q) >= Capacity THEN SubSeq(q, 1, Len(q) - 1) ELSE q
NotifyNobody == UNCHANGED <<waiting, woken>>
PopLast(c) ==
  /\ queue # <<>>
  /\ received' = [received EXCEPT ![c] = queue[Len(queue)]]
  /\ queue' = SubSeq(queue, 1, Len(queue) - 1)
-----------------------------------------------------------------------------
(* notify_one wakes one blocked thread, any of them, and nobody when no    *)
(* thread is blocked; the notification is not remembered.                  *)
NotifyOne ==
  \/ waiting = {} /\ UNCHANGED <<waiting, woken>>
  \/ \E c \in waiting : /\ waiting' = waiting \ {c}
                        /\ woken' = woken \cup {c}

NotifyAll ==
  /\ waiting' = {}
  /\ woken' = woken \cup waiting

DropOldest(q) == IF Len(q) >= Capacity THEN Tail(q) ELSE q

(* A push into a closed queue returns false and changes nothing.           *)
PushOrDropOldest ==
  /\ ~closed
  /\ pushed < MaxPushes
  /\ queue' = Append(DropOldest(queue), pushed + 1)
  /\ pushed' = pushed + 1
  /\ NotifyOne
  /\ UNCHANGED <<closed, received>>

PopFront(c) ==
  /\ queue # <<>>
  /\ received' = [received EXCEPT ![c] = Head(queue)]
  /\ queue' = Tail(queue)

Leave(c) ==
  /\ woken' = woken \ {c}
  /\ UNCHANGED waiting

Block(c) ==
  /\ waiting' = waiting \cup {c}
  /\ woken' = woken \ {c}

(* Mutated form of Resume: the predicate is not evaluated after a wakeup.  *)
ResumeWithoutRecheck(c) ==
  /\ c \in woken
  /\ PopFront(c) \/ (queue = <<>> /\ UNCHANGED <<queue, received>>)
  /\ Leave(c)
  /\ UNCHANGED <<closed, pushed>>

(* One critical section of WaitPop by thread c: it pops, or it returns     *)
(* false from a closed empty queue, or it blocks.                          *)
WaitForElement(c) ==
  /\ \/ PopFront(c) /\ Leave(c)
     \/ queue = <<>> /\ closed /\ Leave(c) /\ UNCHANGED <<queue, received>>
     \/ queue = <<>> /\ ~closed /\ Block(c) /\ UNCHANGED <<queue, received>>
  /\ UNCHANGED <<closed, pushed>>

WaitPop(c) ==
  /\ c \notin waiting \cup woken
  /\ WaitForElement(c)

Resume(c) ==
  /\ c \in woken
  /\ WaitForElement(c)

(* condition_variable::wait may return without a notification.             *)
SpuriousWakeup(c) ==
  /\ c \in waiting
  /\ waiting' = waiting \ {c}
  /\ woken' = woken \cup {c}
  /\ UNCHANGED <<queue, closed, pushed, received>>

(* TryPop on an empty queue returns false and changes nothing.             *)
TryPop(c) ==
  /\ c \notin waiting \cup woken
  /\ PopFront(c)
  /\ UNCHANGED <<closed, waiting, woken, pushed>>

Close ==
  /\ closed' = TRUE
  /\ NotifyAll
  /\ UNCHANGED <<queue, pushed, received>>

Next ==
  \/ PushOrDropOldest
  \/ Close
  \/ \E c \in Consumers :
       WaitPop(c) \/ Resume(c) \/ SpuriousWakeup(c) \/ TryPop(c)

Spec == Init /\ [][Next]_vars

(* A notified thread gets the mutex eventually: no method keeps it.        *)
FairSpec == Spec /\ \A c \in Consumers : WF_vars(Resume(c))
-----------------------------------------------------------------------------
(* Types, and the deque never outgrows its capacity.                       *)
TypeOK ==
  /\ queue \in Seq(Nat)
  /\ Len(queue) <= Capacity
  /\ closed \in BOOLEAN
  /\ waiting \subseteq Consumers
  /\ woken \subseteq Consumers
  /\ waiting \cap woken = {}
  /\ pushed \in Nat
  /\ received \in [Consumers -> Nat]

(* No lost wakeup: as long as some consumer sleeps in WaitPop there are    *)
(* enough notified consumers on their way to empty the queue, and nobody   *)
(* sleeps on a closed queue.  One notify_one per push is enough although   *)
(* TryPop, late WaitPop callers and dropped elements all disturb the       *)
(* count of elements.                                                      *)
NoLostWakeup ==
  /\ waiting # {} => Len(queue) <= Cardinality(woken)
  /\ closed => waiting = {}

(* The queue holds exactly the newest accepted elements, in push order, so *)
(* that only the oldest element ever gives way, and no consumer already    *)
(* has one of them.                                                        *)
HoldsNewest ==
  /\ Len(queue) <= pushed
  /\ \A i \in 1..Len(queue) : queue[i] = pushed - Len(queue) + i
  /\ \A c \in Consumers : received[c] <= pushed - Len(queue)

(* Elements leave in push order whoever pops them, none twice: an element  *)
(* that is received is newer than every element received before.           *)
DeliveredInOrder ==
  [][\A c \in Consumers : received'[c] # received[c] =>
       \A d \in Consumers : received'[c] > received[d]]_vars

(* The queue implements the stream: what is left of the condition variable *)
(* is the set of consumers whose WaitPop has not returned.                 *)
Stream == INSTANCE LossyStream WITH
  high <- pushed,
  low <- pushed - Len(queue),
  shut <- closed,
  pending <- waiting \cup woken

ImplementsStream == Stream!Spec

(* After Close every blocked WaitPop returns and none blocks again.        *)
CloseReleasesWaiters ==
  closed ~> [](waiting \cup woken = {})

(* A consumer asleep in WaitPop does not share the queue with an element   *)
(* for ever.                                                               *)
WaiterIsServed ==
  \A c \in Consumers : (c \in waiting /\ queue # <<>>)
                         ~> (c \notin waiting \/ queue = <<>>)

(* The comment of WaitPop: it returns false when the queue is empty or     *)
(* closed, hence no element is handed out by WaitPop once it is closed.    *)
ClosedWaitPopFails ==
  [][\A c \in Consumers : closed /\ (WaitPop(c) \/ Resume(c))
       => received' = received]_vars
=============================================================================
