--------------------------- MODULE MCJitterBuffer ---------------------------
(***************************************************************************)
(* TLC instances of the jitter buffer itself, for the runs about its       *)
(* fixed and automatic modes, its limits and its liveness.                 *)
(***************************************************************************)
EXTENDS JitterBufferClaims

DefaultOnly == {DefaultConfig}
=============================================================================
