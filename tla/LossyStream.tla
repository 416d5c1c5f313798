---------------------------- MODULE LossyStream ----------------------------
(***************************************************************************)
(* What a BoundedQueue promises to its callers, with no mutex, no deque    *)
(* and no condition variable.                                              *)
(*                                                                         *)
(* The accepted elements are numbered 1, 2, 3, ... in the order of their   *)
(* acceptance.  Two marks describe the stream: every element up to low has *)
(* left (taken or dropped), the elements low+1 .. high can still be taken. *)
(***************************************************************************)
EXTENDS Integers

CONSTANTS Consumers, Capacity, MaxPushes

VARIABLES
  high,      \* number of accepted elements
  low,       \* number of elements that have left
  shut,      \* no element is accepted any more
  pending,   \* the consumers that asked for an element and have no answer
  received   \* the last element each consumer got, 0 when it got none

streamVars == <<high, low, shut, pending, received>>

Init ==
  /\ high = 0
  /\ low = 0
  /\ shut = FALSE
  /\ pending = {}
  /\ received = [c \in Consumers |-> 0]

(* A producer never waits: a full stream gives up its oldest element.      *)
Accept ==
  /\ ~shut
  /\ high < MaxPushes
  /\ high' = high + 1
  /\ low' = IF high - low = Capacity THEN low + 1 ELSE low
  /\ UNCHANGED <<shut, pending, received>>

Request(c) ==
  /\ c \notin pending
  /\ pending' = pending \cup {c}
  /\ UNCHANGED <<high, low, shut, received>>

(* The oldest element still there goes to c, whether or not c was waiting. *)
Deliver(c) ==
  /\ low < high
  /\ low' = low + 1
  /\ received' = [received EXCEPT ![c] = low + 1]
  /\ pending' = pending \ {c}
  /\ UNCHANGED <<high, shut>>

Refuse(c) ==
  /\ c \in pending
  /\ shut
  /\ low = high
  /\ pending' = pending \ {c}
  /\ UNCHANGED <<high, low, shut, received>>

Shut ==
  /\ shut' = TRUE
  /\ UNCHANGED <<high, low, pending, received>>

Next ==
  \/ Accept
  \/ Shut
  \/ \E c \in Consumers : Request(c) \/ Deliver(c) \/ Refuse(c)

Spec == Init /\ [][Next]_streamVars
=============================================================================
