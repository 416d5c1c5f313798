------------------------- MODULE LatencyStatsObject -------------------------
(***************************************************************************)
(* One LatencyStats object and the calls made on it, with the history of   *)
(* what was recorded.  Snapshot() and Format() return the summary that     *)
(* their step leaves in _cached_summary.                                   *)
(***************************************************************************)
EXTENDS LatencyStats

CONSTANTS
  Values,     \* samples, in some unit
  MaxRecords  \* bound on the samples recorded between two resets

ASSUME ObjectAssumption ==
  /\ Values \subseteq Int
  /\ MaxRecords \in Nat

VARIABLES
  stats,    \* the fields of the object
  recorded  \* history: every sample since the construction or the last Reset

vars == <<stats, recorded>>

Init ==
  /\ stats = EmptyStats
  /\ recorded = <<>>

Record(v) ==
  /\ Len(recorded) < MaxRecords
  /\ stats' = Recorded(stats, v)
  /\ recorded' = Append(recorded, v)

(* Snapshot(), average_ms() and every caller that may do with a summary    *)
(* that is somewhat old.                                                   *)
Snapshot ==
  /\ stats' = Refreshed(stats, FALSE)
  /\ UNCHANGED recorded

Format ==
  /\ stats' = Refreshed(stats, TRUE)
  /\ UNCHANGED recorded

Reset ==
  /\ stats' = Cleared(stats)
  /\ recorded' = <<>>

Next ==
  \/ \E v \in Values : Record(v)
  \/ Snapshot
  \/ Format
  \/ Reset

Spec == Init /\ [][Next]_vars
-----------------------------------------------------------------------------
(* The window a summary of the first n samples is about, and that summary. *)
Smaller(a, b) == IF a < b THEN a ELSE b

WindowAt(n) == SubSeq(recorded, n + 1 - Smaller(n, MaxSamples), n)

SummaryAt(n) ==
  Summary(WindowAt(n), IF n = 0 THEN 0 ELSE recorded[n])
-----------------------------------------------------------------------------
(* Types, whatever the cached summary is; the next slot is one of the      *)
(* ring's, and a ring that is not full has been written from slot 0 on.    *)
Fields(summary) ==
  [samples : [0..MaxSamples - 1 -> Int], next : Nat, count : Nat,
   dirty : BOOLEAN, valid : BOOLEAN, pending : Nat, cached : {summary}, last : Int]

TypeOK ==
  /\ stats \in Fields(stats.cached)
  /\ stats.count <= MaxSamples
  /\ stats.next <= MaxSamples
  /\ MaxSamples > 0 => stats.next < MaxSamples
  /\ stats.count < MaxSamples => stats.next = stats.count
  /\ recorded \in Seq(Int)

(* The two-segment copy of BuildSummary returns the latest samples, oldest *)
(* first, wherever the ring has wrapped.                                   *)
RingHoldsLatest == OrderedSamples(stats) = WindowAt(Len(recorded))

(* Whatever was recorded, read and reset before, a Snapshot taken now is   *)
(* about the samples as they were fewer than RefreshEvery samples ago, and *)
(* a Format is about the samples of now: the flags dirty, valid and        *)
(* pending never pass off an older summary, or one from before a Reset.    *)
ReadersSeeRecent ==
  /\ \E lag \in 0..RefreshEvery - 1 :
       /\ lag <= Len(recorded)
       /\ Refreshed(stats, FALSE).cached = SummaryAt(Len(recorded) - lag)
  /\ Refreshed(stats, TRUE).cached = SummaryAt(Len(recorded))

(* The figures of one summary agree with each other: the comment of        *)
(* PercentileFormSorted promises percentiles within [min, max].            *)
SummaryOrdered ==
  LET s == stats.cached
  IN  stats.valid =>
        /\ 100 * s.min <= s.p50
        /\ s.p50 <= s.p95
        /\ s.p95 <= s.p99
        /\ s.p99 <= 100 * s.max
        /\ s.min * s.avg[2] <= s.avg[1]
        /\ s.avg[1] <= s.max * s.avg[2]

(* Percentiles by their definition, without a sort and without an index:   *)
(* the k-th smallest sample is found by counting, and the percentile is    *)
(* reached by walking percent% of the n-1 gaps up from the smallest one.   *)
Ranked(window, k) ==
  CHOOSE x \in Range(window) :
    /\ Cardinality({i \in DOMAIN window : window[i] < x}) < k
    /\ Cardinality({i \in DOMAIN window : window[i] <= x}) >= k

Walked(gap, distance) ==
  IF distance <= 100 * (gap - 1) THEN 0
  ELSE Smaller(distance - 100 * (gap - 1), 100)

PercentileByDefinition(window, percent) ==
  LET n == Len(window)
  IN  100 * Ranked(window, 1) +
      FoldFunction(+, 0, [g \in 1..n - 1 |->
        (Ranked(window, g + 1) - Ranked(window, g)) * Walked(g, percent * (n - 1))])

(* BuildSummary computes what statistics means by its figures.             *)
PercentilesAreExact ==
  LET window == WindowAt(Len(recorded))
      s == BuildSummary(stats)
  IN  window # <<>> => /\ s.p50 = PercentileByDefinition(window, 50)
                       /\ s.p95 = PercentileByDefinition(window, 95)
                       /\ s.p99 = PercentileByDefinition(window, 99)
=============================================================================
