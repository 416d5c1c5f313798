------------------------ MODULE JitterBufferEvidence ------------------------
(***************************************************************************)
(* AdaptiveJitterBuffer against the network itself: the p95 it decides on  *)
(* comes from a summary that is refreshed every fourth sample only, and is *)
(* compared here with the exact p95 of the window after every sample.  As  *)
(* in JitterBufferHistory nothing here restricts a step.                   *)
(***************************************************************************)
EXTENDS JitterBufferHistory

VARIABLES
  sinceHot,  \* samples since the exact p95 was above 10 ms
  sinceCalm  \* samples since it was below 5 ms

evidence == <<sinceHot, sinceCalm>>
evidenceVars == <<allVars, evidence>>

LongAgo == Stats!RefreshEvery

Since(count, now) == IF now THEN 0 ELSE Documented!Upto(LongAgo, count + 1)

Hot(p95) == p95 > 10000
Calm(p95) == p95 < 5000

(* The exact p95 of the window as the step leaves it.                      *)
Watch ==
  \E p95 \in {Stats!BuildSummary(window').p95} :
    /\ sinceHot' = Since(sinceHot, Hot(p95))
    /\ sinceCalm' = Since(sinceCalm, Calm(p95))

EvidenceInit == ObservedAutoInit /\ sinceHot = LongAgo /\ sinceCalm = LongAgo

EvidenceNext ==
  \/ ObservedSample /\ Watch
  \/ ReadPercentile /\ UNCHANGED <<history, evidence>>
  \/ Reset /\ ForgetAll /\ sinceHot' = LongAgo /\ sinceCalm' = LongAgo

EvidenceSpec == EvidenceInit /\ [][EvidenceNext]_evidenceVars
-----------------------------------------------------------------------------
Decided ==
  /\ mode = "low_latency" /\ mode' = "smooth" => sinceHot' < LongAgo
  /\ mode = "smooth" /\ mode' = "low_latency" => sinceCalm' < LongAgo

(* Smooth is entered and left on a p95 that the window really had within   *)
(* the last RefreshEvery samples, the present one included: a summary from *)
(* before a Reset, or one that is older than the interval, decides nothing.*)
DecidesOnRecentP95 == [][Decided]_evidenceVars
=============================================================================
