------------------------- MODULE BoundedQueueProofs -------------------------
(***************************************************************************)
(* Theorems about BoundedQueue, for every number of consumers, capacity    *)
(* and number of pushes.                                                   *)
(***************************************************************************)
EXTENDS BoundedQueue, SequenceTheorems, FiniteSetTheorems, TLAPS

(* The capacity after the constructor's max(1, capacity).                  *)
LEMMA CapacityPositive == Capacity \in Nat /\ Capacity >= 1
  BY QueueAssumption DEF Capacity

(* A step of NotifyOne moves at most one thread from waiting to woken.     *)
LEMMA NotifyOneMoves ==
  ASSUME NotifyOne, waiting \subseteq Consumers, woken \subseteq Consumers,
         waiting \cap woken = {}
  PROVE  /\ waiting' \subseteq Consumers
         /\ woken' \subseteq Consumers
         /\ waiting' \cap woken' = {}
         /\ waiting' \cup woken' = waiting \cup woken
  BY DEF NotifyOne

(* Making room keeps a tail of the queue that is shorter than Capacity.    *)
LEMMA DropOldestProperties ==
  ASSUME NEW q \in Seq(Nat), Len(q) <= Capacity
  PROVE  /\ DropOldest(q) \in Seq(Nat)
         /\ Len(DropOldest(q)) = IF Len(q) = Capacity THEN Len(q) - 1 ELSE Len(q)
         /\ \A i \in 1..Len(DropOldest(q)) :
              DropOldest(q)[i] = q[i + Len(q) - Len(DropOldest(q))]
<1>1. CASE Len(q) >= Capacity
  <2>1. q # <<>> /\ Len(q) = Capacity
    BY <1>1, CapacityPositive, EmptySeq
  <2>. QED
    BY <2>1, CapacityPositive, HeadTailProperties DEF DropOldest
<1>2. CASE ~(Len(q) >= Capacity)
  BY <1>2, CapacityPositive, LenProperties DEF DropOldest
<1>. QED  BY <1>1, <1>2

(* PopFront takes one element from the front of the queue.                 *)
LEMMA PopFrontProperties ==
  ASSUME TypeOK, NEW c \in Consumers, PopFront(c)
  PROVE  /\ queue' \in Seq(Nat)
         /\ Len(queue) >= 1
         /\ Len(queue') = Len(queue) - 1
         /\ \A i \in 1..Len(queue') : queue'[i] = queue[i + 1]
         /\ received' = [received EXCEPT ![c] = queue[1]]
         /\ received' \in [Consumers -> Nat]
<1>1. queue \in Seq(Nat) /\ queue # <<>> /\ queue' = Tail(queue)
  BY DEF PopFront, TypeOK
<1>2. Len(queue) \in Nat /\ Len(queue) >= 1
  BY <1>1, EmptySeq, LenProperties
<1>3. Head(queue) = queue[1] /\ queue[1] \in Nat
  BY <1>1, <1>2, HeadTailProperties
<1>4. received' = [received EXCEPT ![c] = queue[1]]
  BY <1>3 DEF PopFront
<1>5. received' \in [Consumers -> Nat]
  BY <1>3, <1>4 DEF TypeOK
<1>. QED
  <2>1. /\ queue' \in Seq(Nat)
        /\ Len(queue') = Len(queue) - 1
        /\ \A i \in 1..Len(queue') : queue'[i] = queue[i + 1]
    BY <1>1, HeadTailProperties
  <2>. QED  BY <1>2, <1>4, <1>5, <2>1
-----------------------------------------------------------------------------
(* The fields of the queue keep their types, the deque stays within its    *)
(* capacity, and a thread is blocked or notified, never both: PushOrDrop-  *)
(* Oldest, WaitPop with its wakeups, TryPop and Close in any order.        *)
THEOREM TypeCorrect == Spec => []TypeOK
<1>1. Init => TypeOK
  <2>. SUFFICES ASSUME Init PROVE TypeOK
    OBVIOUS
  <2>1. queue = <<>>
    BY DEF Init
  <2>2. queue \in Seq(Nat)
    <3>1. <<>> \in Seq(Nat)
      BY EmptySeq
    <3>. QED  BY Zenon, <2>1, <3>1
  <2>3. Len(queue) <= Capacity
    BY <2>1, CapacityPositive
  <2>4. /\ closed \in BOOLEAN
        /\ waiting \subseteq Consumers /\ woken \subseteq Consumers
        /\ waiting \cap woken = {}
        /\ pushed \in Nat
        /\ received \in [Consumers -> Nat]
    BY DEF Init
  <2>. QED  BY Zenon, <2>2, <2>3, <2>4 DEF TypeOK
<1>2. TypeOK /\ [Next]_vars => TypeOK'
  <2> SUFFICES ASSUME TypeOK, [Next]_vars PROVE TypeOK'
    OBVIOUS
  <2>1. CASE PushOrDropOldest
    <3>1. /\ DropOldest(queue) \in Seq(Nat)
          /\ Len(DropOldest(queue)) <= Capacity - 1
      BY DropOldestProperties, CapacityPositive, LenProperties DEF TypeOK
    <3>2. /\ queue' \in Seq(Nat)
          /\ Len(queue') <= Capacity
      BY <2>1, <3>1, AppendProperties, CapacityPositive, LenProperties
         DEF PushOrDropOldest, TypeOK
    <3>. QED
      BY <2>1, <3>2, NotifyOneMoves DEF PushOrDropOldest, TypeOK
  <2>2. CASE Close
    BY <2>2 DEF Close, NotifyAll, TypeOK
  <2>3. ASSUME NEW c \in Consumers, WaitForElement(c), c \notin waiting
        PROVE  TypeOK'
    <3>1. CASE PopFront(c) /\ Leave(c)
      <4>1. /\ queue' \in Seq(Nat)
            /\ Len(queue') = Len(queue) - 1
            /\ received' \in [Consumers -> Nat]
        BY <3>1, PopFrontProperties
      <4>2. Len(queue') <= Capacity
        BY <4>1, LenProperties, CapacityPositive DEF TypeOK
      <4>. QED
        BY <2>3, <3>1, <4>1, <4>2 DEF WaitForElement, Leave, TypeOK
    <3>2. CASE queue = <<>> /\ closed /\ Leave(c) /\ UNCHANGED <<queue, received>>
      BY <2>3, <3>2 DEF WaitForElement, Leave, TypeOK
    <3>3. CASE queue = <<>> /\ ~closed /\ Block(c) /\ UNCHANGED <<queue, received>>
      BY <2>3, <3>3 DEF WaitForElement, Block, TypeOK
    <3>. QED  BY <2>3, <3>1, <3>2, <3>3 DEF WaitForElement
  <2>4. ASSUME NEW c \in Consumers, WaitPop(c) PROVE TypeOK'
    BY <2>3, <2>4 DEF WaitPop
  <2>5. ASSUME NEW c \in Consumers, Resume(c) PROVE TypeOK'
    BY <2>3, <2>5 DEF Resume, TypeOK
  <2>6. ASSUME NEW c \in Consumers, SpuriousWakeup(c) PROVE TypeOK'
    BY <2>6 DEF SpuriousWakeup, TypeOK
  <2>7. ASSUME NEW c \in Consumers, TryPop(c) PROVE TypeOK'
    <3>1. /\ queue' \in Seq(Nat)
          /\ Len(queue') = Len(queue) - 1
          /\ received' \in [Consumers -> Nat]
      BY <2>7, PopFrontProperties DEF TryPop
    <3>2. Len(queue') <= Capacity
      BY <3>1, LenProperties, CapacityPositive DEF TypeOK
    <3>. QED
      BY <2>7, <3>1, <3>2 DEF TryPop, TypeOK
  <2>8. CASE UNCHANGED vars
    BY <2>8 DEF vars, TypeOK
  <2>. QED
    BY <2>1, <2>2, <2>4, <2>5, <2>6, <2>7, <2>8 DEF Next
<1>. QED  BY <1>1, <1>2, PTL DEF Spec
-----------------------------------------------------------------------------
(* The notified consumers are finitely many, and one more or one less      *)
(* changes their number by one at most.                                    *)
LEMMA WokenCount ==
  ASSUME TypeOK
  PROVE  /\ Cardinality(woken) \in Nat
         /\ \A c \in Consumers :
              /\ Cardinality(woken \ {c}) \in Nat
              /\ Cardinality(woken \ {c}) >= Cardinality(woken) - 1
              /\ c \notin woken =>
                   Cardinality(woken \cup {c}) = Cardinality(woken) + 1
<1>1. IsFiniteSet(woken)
  BY QueueAssumption, FS_Subset DEF TypeOK
<1>2. Cardinality(woken) \in Nat
  BY <1>1, FS_CardinalityType
<1>3. ASSUME NEW c \in Consumers
      PROVE  /\ Cardinality(woken \ {c}) \in Nat
             /\ Cardinality(woken \ {c}) >= Cardinality(woken) - 1
  <2>1. /\ IsFiniteSet(woken \ {c})
        /\ Cardinality(woken \ {c}) =
             IF c \in woken THEN Cardinality(woken) - 1 ELSE Cardinality(woken)
    BY <1>1, FS_RemoveElement
  <2>2. Cardinality(woken \ {c}) \in Nat
    BY <2>1, FS_CardinalityType
  <2>. QED  BY <1>2, <2>1, <2>2
<1>4. ASSUME NEW c \in Consumers, c \notin woken
      PROVE  Cardinality(woken \cup {c}) = Cardinality(woken) + 1
  BY <1>1, <1>4, FS_AddElement
<1>. QED  BY <1>2, <1>3, <1>4

(* The length of the queue after a push.                                   *)
LEMMA PushLength ==
  ASSUME TypeOK, PushOrDropOldest
  PROVE  /\ Len(queue) \in Nat
         /\ Len(queue') = IF Len(queue) = Capacity THEN Len(queue) ELSE Len(queue) + 1
<1>1. /\ DropOldest(queue) \in Seq(Nat)
      /\ Len(DropOldest(queue)) =
           IF Len(queue) = Capacity THEN Len(queue) - 1 ELSE Len(queue)
  BY DropOldestProperties DEF TypeOK
<1>2. Len(queue) \in Nat /\ pushed + 1 \in Nat
  BY LenProperties DEF TypeOK
<1>3. Len(queue') = Len(DropOldest(queue)) + 1
  BY <1>1, <1>2, AppendProperties DEF PushOrDropOldest
<1>. QED  BY <1>1, <1>2, <1>3

(* No wakeup is lost: while a consumer sleeps, at least as many notified   *)
(* consumers as there are elements are on their way (PushOrDropOldest's    *)
(* notify_one, Close's notify_all, and the loop inside WaitPop's wait).    *)
THEOREM NoWakeupIsLost == Spec => []NoLostWakeup
<1>1. Init => NoLostWakeup
  BY DEF Init, NoLostWakeup
<1>2. TypeOK /\ NoLostWakeup /\ [Next]_vars => NoLostWakeup'
  <2> SUFFICES ASSUME TypeOK, NoLostWakeup, [Next]_vars PROVE NoLostWakeup'
    OBVIOUS
  <2>0. Len(queue) \in Nat
    BY LenProperties DEF TypeOK
  <2>1. CASE PushOrDropOldest
    <3>1. Len(queue') \in Nat /\ Len(queue') <= Len(queue) + 1
      BY <2>0, <2>1, PushLength
    <3>2. CASE waiting = {} /\ UNCHANGED <<waiting, woken>>
      BY <2>1, <3>2 DEF NoLostWakeup, PushOrDropOldest
    <3>3. ASSUME NEW c \in waiting,
                 waiting' = waiting \ {c}, woken' = woken \cup {c}
          PROVE  NoLostWakeup'
      <4>1. c \in Consumers /\ c \notin woken
        BY DEF TypeOK
      <4>2. Cardinality(woken') = Cardinality(woken) + 1
        BY <3>3, <4>1, WokenCount
      <4>3. Len(queue') <= Cardinality(woken')
        BY <2>0, <3>1, <4>2, WokenCount DEF NoLostWakeup
      <4>. QED
        BY <2>1, <4>3 DEF NoLostWakeup, PushOrDropOldest
    <3>. QED  BY <2>1, <3>2, <3>3 DEF PushOrDropOldest, NotifyOne
  <2>2. CASE Close
    BY <2>2 DEF Close, NotifyAll, NoLostWakeup
  <2>3. ASSUME NEW c \in Consumers, WaitForElement(c)
        PROVE  NoLostWakeup'
    <3>1. CASE PopFront(c) /\ Leave(c)
      <4>1. Len(queue') = Len(queue) - 1
        BY <3>1, PopFrontProperties
      <4>2. waiting # {} => Len(queue') <= Cardinality(woken')
        <5>1. /\ Cardinality(woken) \in Nat
              /\ Cardinality(woken \ {c}) \in Nat
              /\ Cardinality(woken \ {c}) >= Cardinality(woken) - 1
          BY WokenCount
        <5>2. Cardinality(woken') = Cardinality(woken \ {c})
          BY <3>1 DEF Leave
        <5>3. waiting # {} => Len(queue) <= Cardinality(woken)
          BY DEF NoLostWakeup
        <5>. QED
          BY <2>0, <4>1, <5>1, <5>2, <5>3
      <4>3. closed' = closed /\ waiting' = waiting
        BY <2>3, <3>1 DEF WaitForElement, Leave
      <4>. QED
        BY <4>2, <4>3 DEF NoLostWakeup
    <3>2. CASE queue = <<>> /\ closed /\ Leave(c) /\ UNCHANGED <<queue, received>>
      BY <2>3, <3>2 DEF NoLostWakeup, WaitForElement, Leave
    <3>3. CASE queue = <<>> /\ ~closed /\ Block(c) /\ UNCHANGED <<queue, received>>
      <4>1. Len(queue') = 0
        BY <3>3, EmptySeq
      <4>2. Len(queue') <= Cardinality(woken')
        <5>1. Cardinality(woken \ {c}) \in Nat
          BY WokenCount
        <5>2. Cardinality(woken') = Cardinality(woken \ {c})
          BY <3>3 DEF Block
        <5>. QED
          BY <4>1, <5>1, <5>2
      <4>3. ~closed'
        BY <2>3, <3>3 DEF WaitForElement
      <4>. QED
        BY <4>2, <4>3 DEF NoLostWakeup
    <3>. QED  BY <2>3, <3>1, <3>2, <3>3 DEF WaitForElement
  <2>4. ASSUME NEW c \in Consumers, SpuriousWakeup(c) PROVE NoLostWakeup'
    <3>1. c \notin woken /\ woken' = woken \cup {c}
      BY <2>4 DEF SpuriousWakeup, TypeOK
    <3>2. Len(queue) <= Cardinality(woken')
      BY <2>0, <2>4, <3>1, WokenCount DEF NoLostWakeup, SpuriousWakeup
    <3>. QED
      BY <2>4, <3>2 DEF NoLostWakeup, SpuriousWakeup
  <2>5. ASSUME NEW c \in Consumers, TryPop(c) PROVE NoLostWakeup'
    <3>1. Len(queue') = Len(queue) - 1
      BY <2>5, PopFrontProperties DEF TryPop
    <3>. QED
      BY <2>0, <2>5, <3>1, WokenCount DEF NoLostWakeup, TryPop
  <2>6. CASE UNCHANGED vars
    BY <2>6 DEF vars, NoLostWakeup
  <2>. QED
    BY <2>1, <2>2, <2>3, <2>4, <2>5, <2>6 DEF Next, WaitPop, Resume
<1>. QED  BY <1>1, <1>2, TypeCorrect, PTL DEF Spec
-----------------------------------------------------------------------------
(* The queue after a push: the kept part and the new element.              *)
LEMMA PushProperties ==
  ASSUME TypeOK, HoldsNewest, PushOrDropOldest
  PROVE  /\ Len(queue') <= pushed'
         /\ pushed - Len(queue) <= pushed' - Len(queue')
         /\ \A i \in 1..Len(queue') : queue'[i] = pushed' - Len(queue') + i
<1>. DEFINE kept == DropOldest(queue)
<1>1. /\ kept \in Seq(Nat)
      /\ Len(kept) = IF Len(queue) = Capacity THEN Len(queue) - 1 ELSE Len(queue)
      /\ \A i \in 1..Len(kept) : kept[i] = queue[i + Len(queue) - Len(kept)]
  BY DropOldestProperties DEF TypeOK
<1>2. /\ Len(queue) \in Nat /\ Len(kept) \in Nat
      /\ Len(kept) <= Len(queue)
      /\ pushed \in Nat /\ Len(queue) <= pushed
  BY <1>1, LenProperties DEF TypeOK, HoldsNewest
<1>3. pushed' = pushed + 1 /\ queue' = Append(kept, pushed + 1)
  BY DEF PushOrDropOldest
<1>4. /\ Len(queue') = Len(kept) + 1
      /\ \A i \in 1..Len(kept) : queue'[i] = kept[i]
      /\ queue'[Len(kept) + 1] = pushed + 1
  BY <1>1, <1>2, <1>3, AppendProperties
<1>. HIDE DEF kept
<1>5. ASSUME NEW i \in 1..Len(queue')
      PROVE  queue'[i] = pushed' - Len(queue') + i
  <2>1. CASE i = Len(kept) + 1
    BY <1>2, <1>3, <1>4, <2>1
  <2>2. CASE i # Len(kept) + 1
    <3>1. i \in 1..Len(kept) /\ i + Len(queue) - Len(kept) \in 1..Len(queue)
      BY <1>2, <1>4, <2>2
    <3>2. queue'[i] = queue[i + Len(queue) - Len(kept)]
      BY <1>1, <1>4, <3>1
    <3>3. queue[i + Len(queue) - Len(kept)] = pushed - Len(queue) + (i + Len(queue) - Len(kept))
      BY <3>1 DEF HoldsNewest
    <3>. QED  BY <1>2, <1>3, <1>4, <3>1, <3>2, <3>3
  <2>. QED  BY <2>1, <2>2
<1>. QED  BY <1>1, <1>2, <1>3, <1>4, <1>5

(* A pop hands out the element after the last one that has left.           *)
LEMMA PopsNext ==
  ASSUME TypeOK, HoldsNewest, NEW c \in Consumers, PopFront(c), pushed' = pushed
  PROVE  /\ HoldsNewest'
         /\ Len(queue) \in Nat /\ Len(queue) >= 1
         /\ Len(queue') = Len(queue) - 1
         /\ received' = [received EXCEPT ![c] = pushed - Len(queue) + 1]
<1>1. /\ Len(queue) \in Nat /\ Len(queue) >= 1
      /\ Len(queue') = Len(queue) - 1
      /\ \A i \in 1..Len(queue') : queue'[i] = queue[i + 1]
      /\ received' = [received EXCEPT ![c] = queue[1]]
  BY PopFrontProperties, LenProperties DEF TypeOK
<1>2. pushed \in Nat /\ Len(queue) <= pushed
  BY DEF TypeOK, HoldsNewest
<1>3. received' = [received EXCEPT ![c] = pushed - Len(queue) + 1]
  <2>1. 1 \in 1..Len(queue)
    BY <1>1
  <2>2. queue[1] = pushed - Len(queue) + 1
    BY <2>1 DEF HoldsNewest
  <2>. QED  BY <1>1, <2>2
<1>4. ASSUME NEW i \in 1..Len(queue')
      PROVE  queue'[i] = pushed' - Len(queue') + i
  <2>1. i + 1 \in 1..Len(queue)
    BY <1>1
  <2>2. queue'[i] = pushed - Len(queue) + (i + 1)
    BY <1>1, <2>1 DEF HoldsNewest
  <2>. QED  BY <1>1, <1>2, <2>2
<1>5. ASSUME NEW d \in Consumers
      PROVE  received'[d] <= pushed' - Len(queue')
  <2>1. received[d] \in Nat /\ received[d] <= pushed - Len(queue)
    BY DEF TypeOK, HoldsNewest
  <2>2. received'[d] = IF d = c THEN pushed - Len(queue) + 1 ELSE received[d]
    BY <1>3 DEF TypeOK
  <2>. QED  BY <1>1, <1>2, <2>1, <2>2
<1>6. HoldsNewest'
  BY <1>1, <1>2, <1>4, <1>5 DEF HoldsNewest
<1>. QED  BY <1>1, <1>3, <1>6

(* What a step that pops does, seen by the callers of the queue.           *)
LEMMA StepOfQueue ==
  ASSUME TypeOK, HoldsNewest, Next
  PROVE  \/ PushOrDropOldest
         \/ Close
         \/ \E c \in Consumers : PopFront(c) /\ UNCHANGED <<closed, pushed>>
         \/ UNCHANGED <<queue, closed, pushed, received>>
<1>1. ASSUME NEW c \in Consumers, WaitForElement(c)
      PROVE  \/ PopFront(c) /\ UNCHANGED <<closed, pushed>>
             \/ UNCHANGED <<queue, closed, pushed, received>>
  BY <1>1 DEF WaitForElement
<1>2. ASSUME NEW c \in Consumers,
             WaitPop(c) \/ Resume(c) \/ SpuriousWakeup(c) \/ TryPop(c)
      PROVE  \/ PopFront(c) /\ UNCHANGED <<closed, pushed>>
             \/ UNCHANGED <<queue, closed, pushed, received>>
  BY <1>1, <1>2 DEF WaitPop, Resume, SpuriousWakeup, TryPop
<1>. QED  BY <1>2 DEF Next

(* PushOrDropOldest drops the oldest element and no other, and no popped   *)
(* element stays in the queue.                                             *)
THEOREM KeepsNewest == Spec => []HoldsNewest
<1>1. Init => HoldsNewest
  BY DEF Init, HoldsNewest
<1>2. TypeOK /\ HoldsNewest /\ [Next]_vars => HoldsNewest'
  <2>. SUFFICES ASSUME TypeOK, HoldsNewest, [Next]_vars PROVE HoldsNewest'
    OBVIOUS
  <2>1. CASE PushOrDropOldest
    <3>1. /\ Len(queue') <= pushed'
          /\ pushed - Len(queue) <= pushed' - Len(queue')
          /\ \A i \in 1..Len(queue') : queue'[i] = pushed' - Len(queue') + i
      BY <2>1, PushProperties
    <3>2. Len(queue) \in Nat /\ Len(queue') \in Nat /\ pushed \in Nat /\ pushed' \in Nat
      BY <2>1, PushLength DEF TypeOK, PushOrDropOldest
    <3>3. ASSUME NEW c \in Consumers
          PROVE  received'[c] <= pushed' - Len(queue')
      <4>1. received[c] \in Nat /\ received[c] <= pushed - Len(queue) /\ received' = received
        BY <2>1 DEF TypeOK, HoldsNewest, PushOrDropOldest
      <4>. QED  BY <3>1, <3>2, <4>1
    <3>. QED  BY <3>1, <3>3 DEF HoldsNewest
  <2>2. CASE Close
    BY <2>2 DEF Close, HoldsNewest
  <2>3. ASSUME NEW c \in Consumers, PopFront(c), UNCHANGED <<closed, pushed>>
        PROVE  HoldsNewest'
    BY <2>3, PopsNext
  <2>4. CASE UNCHANGED <<queue, closed, pushed, received>>
    BY <2>4 DEF HoldsNewest
  <2>5. CASE UNCHANGED vars
    BY <2>5 DEF vars, HoldsNewest
  <2>. QED  BY <2>1, <2>2, <2>3, <2>4, <2>5, StepOfQueue
<1>. QED  BY <1>1, <1>2, TypeCorrect, PTL DEF Spec
-----------------------------------------------------------------------------
(* Elements leave the queue in push order and none is popped twice,        *)
(* whichever consumers pop them with WaitPop or TryPop.                    *)
THEOREM DeliversInOrder == Spec => DeliveredInOrder
<1>. DEFINE Older == \A c \in Consumers : received'[c] # received[c] =>
                       \A d \in Consumers : received'[c] > received[d]
<1>1. TypeOK /\ HoldsNewest /\ [Next]_vars => [Older]_vars
  <2>. SUFFICES ASSUME TypeOK, HoldsNewest, Next PROVE Older
    OBVIOUS
  <2>1. ASSUME NEW c \in Consumers, PopFront(c), UNCHANGED <<closed, pushed>>,
               NEW e \in Consumers, received'[e] # received[e],
               NEW d \in Consumers
        PROVE  received'[e] > received[d]
    <3>1. /\ received' = [received EXCEPT ![c] = pushed - Len(queue) + 1]
          /\ Len(queue) \in Nat
      BY <2>1, PopsNext
    <3>2. e = c /\ received'[e] = pushed - Len(queue) + 1
      BY <2>1, <3>1 DEF TypeOK
    <3>3. received[d] \in Nat /\ received[d] <= pushed - Len(queue) /\ pushed \in Nat
      BY DEF TypeOK, HoldsNewest
    <3>. QED  BY <3>1, <3>2, <3>3
  <2>2. CASE received' = received
    BY <2>2
  <2>. QED
    BY <2>1, <2>2, StepOfQueue DEF PushOrDropOldest, Close
<1>. QED
  BY <1>1, TypeCorrect, KeepsNewest, PTL DEF Spec, DeliveredInOrder
-----------------------------------------------------------------------------
(* The queue with its mutex, deque and condition variable implements the   *)
(* stream its callers see: numbered elements with a low and a high mark.   *)
THEOREM QueueImplementsStream == Spec => ImplementsStream
<1>1. Init => Stream!Init
  <2>. SUFFICES ASSUME Init PROVE Stream!Init
    OBVIOUS
  <2>1. Len(queue) = 0 /\ pushed = 0
    BY DEF Init
  <2>2. pushed - Len(queue) = 0
    BY <2>1
  <2>3. waiting \cup woken = {}
    BY DEF Init
  <2>4. closed = FALSE /\ received = [c \in Consumers |-> 0]
    BY DEF Init
  <2>. QED  BY Zenon, <2>1, <2>2, <2>3, <2>4 DEF Stream!Init
<1>2. TypeOK /\ HoldsNewest /\ [Next]_vars => [Stream!Next]_Stream!streamVars
  <2>. SUFFICES ASSUME TypeOK, HoldsNewest, [Next]_vars
                PROVE  Stream!Next \/ UNCHANGED Stream!streamVars
    OBVIOUS
  <2>0. /\ Len(queue) \in Nat /\ pushed \in Nat
        /\ Len(queue) <= pushed /\ Len(queue) <= Capacity
    BY LenProperties DEF TypeOK, HoldsNewest
  <2>1. CASE PushOrDropOldest
    <3>1. Len(queue') = IF Len(queue) = Capacity THEN Len(queue) ELSE Len(queue) + 1
      BY <2>1, PushLength
    <3>0. pushed' = pushed + 1 /\ Capacity \in Nat
      BY <2>1, CapacityPositive DEF PushOrDropOldest
    <3>2. pushed' - Len(queue') =
            IF pushed - (pushed - Len(queue)) = Capacity
              THEN pushed - Len(queue) + 1 ELSE pushed - Len(queue)
      BY <2>0, <3>0, <3>1
    <3>3. waiting' \cup woken' = waiting \cup woken
      BY <2>1, NotifyOneMoves DEF PushOrDropOldest, TypeOK
    <3>4. Stream!Accept
      BY <2>1, <3>2, <3>3 DEF Stream!Accept, PushOrDropOldest
    <3>. QED  BY <3>4 DEF Stream!Next
  <2>2. CASE Close
    <3>1. waiting' \cup woken' = waiting \cup woken
      BY <2>2 DEF Close, NotifyAll
    <3>2. Stream!Shut
      BY <2>2, <3>1 DEF Close, Stream!Shut
    <3>. QED  BY <3>2 DEF Stream!Next
  <2>3. ASSUME NEW c \in Consumers, PopFront(c), UNCHANGED <<closed, pushed>>,
               waiting' \cup woken' = (waiting \cup woken) \ {c}
        PROVE  Stream!Deliver(c)
    <3>1. /\ Len(queue) >= 1 /\ Len(queue') = Len(queue) - 1
          /\ received' = [received EXCEPT ![c] = pushed - Len(queue) + 1]
      BY <2>3, PopsNext
    <3>2. /\ pushed - Len(queue) < pushed
          /\ pushed' - Len(queue') = pushed - Len(queue) + 1
      BY <2>0, <2>3, <3>1
    <3>. QED  BY <2>3, <3>1, <3>2 DEF Stream!Deliver
  <2>4. ASSUME NEW c \in Consumers, WaitForElement(c), c \notin waiting
        PROVE  Stream!Next \/ UNCHANGED Stream!streamVars
    <3>1. CASE PopFront(c) /\ Leave(c)
      <4>1. waiting' \cup woken' = (waiting \cup woken) \ {c}
        BY <2>4, <3>1 DEF Leave
      <4>. QED  BY <2>3, <2>4, <3>1, <4>1 DEF WaitForElement, Stream!Next
    <3>2. CASE queue = <<>> /\ closed /\ Leave(c) /\ UNCHANGED <<queue, received>>
      <4>1. waiting' \cup woken' = (waiting \cup woken) \ {c}
        BY <2>4, <3>2 DEF Leave
      <4>2. pushed - Len(queue) = pushed /\ pushed' - Len(queue') = pushed - Len(queue)
        BY <2>0, <2>4, <3>2 DEF WaitForElement
      <4>3. CASE c \in woken
        <5>1. Stream!Refuse(c)
          BY <2>4, <3>2, <4>1, <4>2, <4>3 DEF Stream!Refuse, WaitForElement
        <5>. QED  BY <5>1 DEF Stream!Next
      <4>4. CASE c \notin woken
        <5>1. waiting' \cup woken' = waiting \cup woken
          BY <2>4, <4>1, <4>4
        <5>. QED  BY <2>4, <3>2, <4>2, <5>1 DEF Stream!streamVars, WaitForElement
      <4>. QED  BY <4>3, <4>4
    <3>3. CASE queue = <<>> /\ ~closed /\ Block(c) /\ UNCHANGED <<queue, received>>
      <4>1. waiting' \cup woken' = (waiting \cup woken) \cup {c}
        BY <3>3 DEF Block
      <4>2. pushed' - Len(queue') = pushed - Len(queue)
        BY <2>4, <3>3 DEF WaitForElement
      <4>3. CASE c \in woken
        <5>1. waiting' \cup woken' = waiting \cup woken
          BY <4>1, <4>3
        <5>. QED  BY <2>4, <3>3, <4>2, <5>1 DEF Stream!streamVars, WaitForElement
      <4>4. CASE c \notin woken
        <5>1. Stream!Request(c)
          BY <2>4, <3>3, <4>1, <4>2, <4>4 DEF Stream!Request, WaitForElement
        <5>. QED  BY <5>1 DEF Stream!Next
      <4>. QED  BY <4>3, <4>4
    <3>. QED  BY <2>4, <3>1, <3>2, <3>3 DEF WaitForElement
  <2>5. ASSUME NEW c \in Consumers, WaitPop(c) \/ Resume(c)
        PROVE  Stream!Next \/ UNCHANGED Stream!streamVars
    BY <2>4, <2>5 DEF WaitPop, Resume, TypeOK
  <2>6. ASSUME NEW c \in Consumers, SpuriousWakeup(c)
        PROVE  UNCHANGED Stream!streamVars
    <3>1. waiting' \cup woken' = waiting \cup woken
      BY <2>6 DEF SpuriousWakeup
    <3>. QED  BY <2>6, <3>1 DEF SpuriousWakeup, Stream!streamVars
  <2>7. ASSUME NEW c \in Consumers, TryPop(c)
        PROVE  Stream!Deliver(c)
    <3>1. waiting' \cup woken' = (waiting \cup woken) \ {c}
      BY <2>7 DEF TryPop
    <3>. QED  BY <2>3, <2>7, <3>1 DEF TryPop
  <2>8. CASE UNCHANGED vars
    BY <2>8 DEF vars, Stream!streamVars
  <2>. QED
    BY <2>1, <2>2, <2>5, <2>6, <2>7, <2>8 DEF Next, Stream!Next
<1>. QED
  BY <1>1, <1>2, TypeCorrect, KeepsNewest, PTL DEF Spec, ImplementsStream, Stream!Spec
=============================================================================
