------------------------------ MODULE MCLogger ------------------------------
(***************************************************************************)
(* TLC instance of Logger.  Threads are model values and interchangeable.  *)
(***************************************************************************)
EXTENDS Logger, TLC

ThreadSymmetry == Permutations(Threads)
=============================================================================
