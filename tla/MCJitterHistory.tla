--------------------------- MODULE MCJitterHistory --------------------------
(***************************************************************************)
(* TLC instance of the jitter buffer with its history.  The jitters        *)
(* (tenths of a millisecond) of the run lie on both sides of the           *)
(* thresholds 0.5 ms, 1 ms and 10 ms.                                      *)
(***************************************************************************)
EXTENDS JitterBufferEvidence

DefaultOnly == {DefaultConfig}
BothConfigs == DefaultOnly \cup {[maxWait |-> 16, maxFrames |-> 2]}
=============================================================================
