------------------------ MODULE JitterBufferHistory ------------------------
(***************************************************************************)
(* AdaptiveJitterBuffer with the history its documentation speaks of: the  *)
(* runs of high and low jitters and of high and low p95 readings, counted  *)
(* for every sample whatever the mode and whether or not the automatic     *)
(* mode is on.  The history is observed only, it never restricts a step.   *)
(***************************************************************************)
EXTENDS AdaptiveJitterBuffer

VARIABLES highSeen, lowSeen, hotSeen, calmFor

history == <<highSeen, lowSeen, hotSeen, calmFor>>
allVars == <<vars, history>>

Documented == INSTANCE DocumentedModes

NothingSeen == highSeen = 0 /\ lowSeen = 0 /\ hotSeen = 0 /\ calmFor = -1

ObservedAutoInit == AutoInit /\ NothingSeen

ForgetAll == highSeen' = 0 /\ lowSeen' = 0 /\ hotSeen' = 0 /\ calmFor' = -1

SeenWith(j, p95, d) ==
  Documented!Seen(j > 10, j < 5, p95 > 10000, p95 < 5000, d)

ObservedSample ==
  \E j \in Jitters, loss \in Losses, skip \in Skips, d \in Elapsed :
    /\ RecordJitter(j, loss, skip, d)
    /\ SeenWith(j, Observed(j).cached.p95, d)

ObservedAutoNext ==
  \/ ObservedSample
  \/ ReadPercentile /\ UNCHANGED history
  \/ Reset /\ ForgetAll

ObservedAutoSpec == ObservedAutoInit /\ [][ObservedAutoNext]_allVars

-----------------------------------------------------------------------------
(* The counters of the class never run ahead of what has been seen.        *)
CountersAreEvidence ==
  /\ highCount <= highSeen
  /\ lowCount <= lowSeen
  /\ mode = "low_latency" /\ p95Exceeded => hotSeen >= 1
  /\ mode = "smooth" => calmAge <= calmFor

(* Every change of mode is one of those documented above                   *)
(* EvaluateStateTransition and has its evidence: 10 high jitters in a row, *)
(* 20 low ones, two p95 readings above 10 ms, 3 s of p95 below 5 ms.       *)
ImplementsDocumentedModes == Documented!Spec
=============================================================================
