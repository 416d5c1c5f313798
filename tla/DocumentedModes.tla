-------------------------- MODULE DocumentedModes --------------------------
(***************************************************************************)
(* The mode transitions of an adaptive jitter buffer as they are           *)
(* documented above EvaluateStateTransition, in terms of what an observer  *)
(* of the samples has seen, without the counters, the flag and the         *)
(* timestamp of the class.  A mode may be left when the evidence is        *)
(* complete; it need not be.                                               *)
(***************************************************************************)
EXTENDS Integers

CONSTANTS HighRun, LowRun, CalmPeriod, Elapsed

VARIABLES
  mode,
  highSeen,  \* jitters above 1 ms in a row
  lowSeen,   \* jitters below 0.5 ms in a row
  hotSeen,   \* p95 readings above 10 ms in a row
  calmFor    \* time since the first of the last p95 readings below 5 ms, or -1

modeVars == <<mode, highSeen, lowSeen, hotSeen, calmFor>>

Upto(bound, n) == IF n > bound THEN bound ELSE n

Init ==
  /\ mode = "bypass"
  /\ highSeen = 0 /\ lowSeen = 0 /\ hotSeen = 0
  /\ calmFor = -1

(* The evidence after one more sample.                                     *)
Seen(high, low, hot, calm, d) ==
  /\ highSeen' = IF high THEN Upto(HighRun, highSeen + 1) ELSE 0
  /\ lowSeen' = IF low THEN Upto(LowRun, lowSeen + 1) ELSE 0
  /\ hotSeen' = IF hot THEN Upto(2, hotSeen + 1) ELSE 0
  /\ calmFor' = IF ~calm THEN -1
                ELSE IF calmFor = -1 THEN 0
                ELSE Upto(CalmPeriod, calmFor + d)

Transition ==
  \/ mode' = mode
  \/ mode = "bypass" /\ highSeen' >= HighRun /\ mode' = "low_latency"
  \/ mode = "low_latency" /\ lowSeen' >= LowRun /\ mode' = "bypass"
  \/ mode = "low_latency" /\ hotSeen' >= 2 /\ mode' = "smooth"
  \/ mode = "smooth" /\ calmFor' >= CalmPeriod /\ mode' = "low_latency"

Observe ==
  /\ \E high, low, hot, calm \in BOOLEAN, d \in Elapsed :
       Seen(high, low, hot, calm, d)
  /\ Transition

Restart ==
  /\ mode' = "bypass"
  /\ highSeen' = 0 /\ lowSeen' = 0 /\ hotSeen' = 0
  /\ calmFor' = -1

Next == Observe \/ Restart

Spec == Init /\ [][Next]_modeVars
=============================================================================
