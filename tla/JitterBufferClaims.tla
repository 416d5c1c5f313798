-------------------------- MODULE JitterBufferClaims -------------------------
(***************************************************************************)
(* What the comments of AdaptiveJitterBuffer.h promise and its code does   *)
(* not keep.  Each is checked by a run of its own, which finds the         *)
(* behaviour that breaks it.                                               *)
(***************************************************************************)
EXTENDS AdaptiveJitterBuffer

(* A network rated poor is buffered in smooth mode (lines 23 and 39):      *)
(* while the rating stays poor, smooth is reached.  No transition looks at *)
(* the rating, so with losses and little jitter bypass is kept for ever.   *)
PoorMeansSmooth == <>[](quality = "poor") => <>(mode = "smooth")

(* Every change of mode or rating is logged (line 93): the new pair        *)
(* differs from the one compared with.  _last_logged_quality has no value  *)
(* before the first sample, and the first change may be missed.            *)
ChangesAreLogged ==
  [][Sample /\ <<mode', quality'>> # <<mode, quality>>
       => lastLogged # <<mode', quality'>>]_vars
=============================================================================
