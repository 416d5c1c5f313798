------------------------------ MODULE LogLines ------------------------------
(***************************************************************************)
(* Messages and lines of a log.  A line is known by the message it belongs *)
(* to, its level and its place in the message.                             *)
(***************************************************************************)
EXTENDS Integers, Sequences

LineOf(m, n) == [call |-> m.call, level |-> m.level, number |-> n]

(* The lines of m from number n on, all of them for n = 1.                 *)
LinesFrom(m, n) == [i \in 1..m.lines - n + 1 |-> LineOf(m, n + i - 1)]

(* The one line that belongs to no message.                                *)
Warning == [call |-> 0, level |-> "error", number |-> 1]
=============================================================================
