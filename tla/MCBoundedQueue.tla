--------------------------- MODULE MCBoundedQueue ---------------------------
(***************************************************************************)
(* TLC instances of BoundedQueue.  Consumers are model values; they are    *)
(* interchangeable, which the run of the invariants uses as a symmetry.    *)
(***************************************************************************)
EXTENDS BoundedQueue, TLC

ConsumerSymmetry == Permutations(Consumers)
=============================================================================
