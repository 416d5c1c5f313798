--------------------------- MODULE MCServerLogger ---------------------------
(***************************************************************************)
(* TLC instance of ServerLogger.  Without symmetry, for its liveness.      *)
(***************************************************************************)
EXTENDS ServerLogger
=============================================================================
