--------------------------- MODULE MCLatencyStats ---------------------------
(***************************************************************************)
(* TLC instances of LatencyStatsObject.  The samples are three values with *)
(* unequal gaps, so that a wrong rank or a wrong interpolation shows.      *)
(***************************************************************************)
EXTENDS LatencyStatsObject

UnevenValues == {-1, 2, 7}
=============================================================================
