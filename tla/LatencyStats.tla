---------------------------- MODULE LatencyStats ----------------------------
(***************************************************************************)
(* The class LatencyStats of common/metrics/LatencyStats.h as operators on *)
(* the record of its fields: a ring buffer of the latest samples and a     *)
(* summary of them that is computed lazily.  LatencyStatsObject makes a    *)
(* state machine of it and AdaptiveJitterBuffer owns one.                  *)
(*                                                                         *)
(* Samples are integers in some unit.  A percentile is interpolated with a *)
(* fraction that has two decimals, so percentiles are given in hundredths  *)
(* of that unit and are exact; the average is kept as a fraction.          *)
(***************************************************************************)
EXTENDS Integers, Sequences, FiniteSets, Functions

CONSTANTS
  MaxSamples,              \* _max_samples
  SnapshotRefreshInterval  \* the constructor's snapshot_refresh_interval

ASSUME StatsAssumption ==
  /\ MaxSamples \in Nat
  /\ SnapshotRefreshInterval \in Nat

(* The constructor raises the interval to 1.                               *)
RefreshEvery ==
  IF SnapshotRefreshInterval < 1 THEN 1 ELSE SnapshotRefreshInterval

EmptySummary ==
  [count |-> 0, last |-> 0, min |-> 0, avg |-> <<0, 1>>,
   p50 |-> 0, p95 |-> 0, p99 |-> 0, max |-> 0]

(* The object after its constructor.                                       *)
EmptyStats ==
  [samples |-> [i \in 0..MaxSamples - 1 |-> 0],
   next    |-> 0,       \* _next_index
   count   |-> 0,       \* _sample_count
   dirty   |-> FALSE,
   valid   |-> FALSE,   \* _cached_summary_valid
   pending |-> 0,       \* _pending_snapshot_samples
   cached  |-> EmptySummary,
   last    |-> 0]
-----------------------------------------------------------------------------
(* Mutated forms of the operators below, each a plausible slip: the index  *)
(* does not wrap, a reset leaves the cache valid, the ring is read from    *)
(* slot 0, the rank counts samples and not gaps, nothing is sorted, the    *)
(* summary is used once too often.                                         *)
RecordedPastTheEnd(s, v) ==
  [s EXCEPT !.last = v, !.samples[s.next] = v, !.next = s.next + 1,
            !.count = IF s.count < MaxSamples THEN s.count + 1 ELSE s.count,
            !.dirty = TRUE, !.pending = s.pending + 1]

ClearedButValid(s) == [EmptyStats EXCEPT !.cached = s.cached, !.valid = s.valid]

SamplesFromSlotZero(s) == [i \in 1..s.count |-> s.samples[i - 1]]

PercentileOfCount(values, percent) ==
  LET index == percent * Len(values)
  IN  100 * values[(index \div 100) + 1]

SummaryOfUnsorted(window, last) ==
  IF window = <<>>
    THEN [EmptySummary EXCEPT !.last = last]
    ELSE LET n == Len(window)
         IN  [count |-> n, last |-> last, min |-> window[1], max |-> window[n],
              avg |-> <<FoldFunction(+, 0, window), n>>,
              p50 |-> 100 * window[(n + 1) \div 2],
              p95 |-> 100 * window[n], p99 |-> 100 * window[n]]
-----------------------------------------------------------------------------
(* Record(value_ms).  Without a buffer only _last_ms is kept.              *)
Recorded(s, v) ==
  IF MaxSamples = 0
    THEN [s EXCEPT !.last = v, !.dirty = TRUE, !.valid = FALSE, !.pending = 0]
    ELSE [s EXCEPT !.last = v,
                   !.samples[s.next] = v,
                   !.next = (s.next + 1) % MaxSamples,
                   !.count = IF s.count < MaxSamples THEN s.count + 1 ELSE s.count,
                   !.dirty = TRUE,
                   !.pending = s.pending + 1]

(* Reset() clears every field except the stale _cached_summary.            *)
Cleared(s) == [EmptyStats EXCEPT !.cached = s.cached]
-----------------------------------------------------------------------------
(* Slots from .. to - 1 of the ring as a sequence.                         *)
Segment(s, from, to) == [i \in 1..to - from |-> s.samples[from + i - 1]]

(* The samples from the oldest to the newest: a full ring is copied in two *)
(* segments that meet at the next slot to be written.                      *)
OrderedSamples(s) ==
  IF s.count < MaxSamples
    THEN Segment(s, 0, s.count)
    ELSE Segment(s, s.next, MaxSamples) \o Segment(s, 0, s.next)

(* Linear interpolation between the two samples around percent*(n-1)/100,  *)
(* in hundredths of a unit.                                                *)
PercentileFromSorted(values, percent) ==
  LET index    == percent * (Len(values) - 1)
      lower    == index \div 100
      upper    == IF lower + 1 < Len(values) - 1 THEN lower + 1 ELSE Len(values) - 1
      fraction == index % 100
  IN  100 * values[lower + 1] + (values[upper + 1] - values[lower + 1]) * fraction

(* std::sort of a copy: a sample comes behind the smaller ones and behind  *)
(* the equal ones that were before it.                                     *)
NotAbove(window, i) ==
  {j \in DOMAIN window : window[j] < window[i] \/ (window[j] = window[i] /\ j <= i)}

Sorted(window) ==
  LET Nth(k) == CHOOSE i \in DOMAIN window : Cardinality(NotAbove(window, i)) = k
  IN  SubSeq([k \in DOMAIN window |-> window[Nth(k)]], 1, Len(window))

Summary(window, last) ==
  IF window = <<>>
    THEN [EmptySummary EXCEPT !.last = last]
    ELSE LET sorted == Sorted(window)
         IN  [count |-> Len(window), last |-> last,
              min |-> sorted[1], max |-> sorted[Len(sorted)],
              avg |-> <<FoldFunction(+, 0, window), Len(window)>>,
              p50 |-> PercentileFromSorted(sorted, 50),
              p95 |-> PercentileFromSorted(sorted, 95),
              p99 |-> PercentileFromSorted(sorted, 99)]

BuildSummary(s) == Summary(OrderedSamples(s), s.last)

(* RefreshSummary(force).  Not forced, a valid summary is used until       *)
(* RefreshEvery samples have arrived since it was built.                   *)
UpToDate(s) == s.valid /\ ~s.dirty

FreshOnceMore(s, force) ==
  UpToDate(s) \/ (~force /\ s.valid /\ s.pending <= RefreshEvery)

FreshEnough(s, force) ==
  UpToDate(s) \/ (~force /\ s.valid /\ s.pending < RefreshEvery)

Refreshed(s, force) ==
  IF FreshEnough(s, force)
    THEN s
    ELSE [s EXCEPT !.cached = BuildSummary(s), !.valid = TRUE,
                   !.dirty = FALSE, !.pending = 0]
=============================================================================
