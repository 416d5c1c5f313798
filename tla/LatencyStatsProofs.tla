------------------------- MODULE LatencyStatsProofs -------------------------
(***************************************************************************)
(* Theorems about LatencyStatsObject, for every size of the ring, every    *)
(* refresh interval and every history of samples.                          *)
(***************************************************************************)
EXTENDS LatencyStatsObject, SumLemmas, SequenceTheorems, TLAPS

LEMMA RefreshEveryPositive == RefreshEvery \in Nat /\ RefreshEvery >= 1
  BY StatsAssumption DEF RefreshEvery

LEMMA EmptyStatsFields ==
  /\ EmptyStats \in Fields(EmptySummary)
  /\ EmptyStats.count = 0 /\ EmptyStats.next = 0 /\ EmptyStats.pending = 0
  /\ EmptyStats.valid = FALSE /\ EmptyStats.last = 0
  BY StatsAssumption DEF EmptyStats, Fields

(* The fields after each of the four calls.                                *)
LEMMA RecordedFields ==
  ASSUME TypeOK, NEW v \in Int, MaxSamples > 0
  PROVE  LET r == Recorded(stats, v)
         IN  /\ r \in Fields(stats.cached)
             /\ r.samples = [stats.samples EXCEPT ![stats.next] = v]
             /\ r.next = IF stats.next + 1 = MaxSamples THEN 0 ELSE stats.next + 1
             /\ r.count = IF stats.count < MaxSamples THEN stats.count + 1 ELSE stats.count
             /\ r.dirty = TRUE
             /\ r.valid = stats.valid
             /\ r.pending = stats.pending + 1
             /\ r.cached = stats.cached
             /\ r.last = v
<1>1. stats \in Fields(stats.cached) /\ stats.next \in 0..MaxSamples - 1
  BY StatsAssumption DEF TypeOK, Fields
<1>2. (stats.next + 1) % MaxSamples = IF stats.next + 1 = MaxSamples THEN 0 ELSE stats.next + 1
  BY <1>1, StatsAssumption
<1>3. (stats.next + 1) % MaxSamples \in Nat
  BY <1>1, <1>2
<1>4. [stats.samples EXCEPT ![stats.next] = v] \in [0..MaxSamples - 1 -> Int]
  BY <1>1 DEF Fields
<1>5. PICK n \in Nat : n = (stats.next + 1) % MaxSamples
  BY <1>3
<1>6. PICK samples \in [0..MaxSamples - 1 -> Int] : samples = [stats.samples EXCEPT ![stats.next] = v]
  BY <1>4
<1>7. PICK count \in Nat :
        count = IF stats.count < MaxSamples THEN stats.count + 1 ELSE stats.count
  BY <1>1 DEF Fields
<1>8. Recorded(stats, v) =
        [stats EXCEPT !.last = v, !.samples = samples, !.next = n, !.count = count,
                      !.dirty = TRUE, !.pending = stats.pending + 1]
  BY <1>1, <1>5, <1>6, <1>7 DEF Recorded, Fields
<1>9. stats.pending + 1 \in Nat
  BY <1>1 DEF Fields
<1>10. /\ Recorded(stats, v) \in Fields(stats.cached)
       /\ Recorded(stats, v).samples = samples
       /\ Recorded(stats, v).next = n
       /\ Recorded(stats, v).count = count
       /\ Recorded(stats, v).dirty = TRUE
       /\ Recorded(stats, v).valid = stats.valid
       /\ Recorded(stats, v).pending = stats.pending + 1
       /\ Recorded(stats, v).cached = stats.cached
       /\ Recorded(stats, v).last = v
  BY <1>1, <1>8, <1>9 DEF Fields
<1>. QED  BY <1>2, <1>5, <1>6, <1>7, <1>10

LEMMA RecordedNowhereFields ==
  ASSUME TypeOK, NEW v \in Int, MaxSamples = 0
  PROVE  LET r == Recorded(stats, v)
         IN  /\ r \in Fields(stats.cached)
             /\ r.samples = stats.samples /\ r.next = stats.next /\ r.count = stats.count
             /\ r.dirty = TRUE
             /\ r.valid = FALSE
             /\ r.pending = 0
             /\ r.cached = stats.cached
             /\ r.last = v
  BY DEF Recorded, Fields, TypeOK

LEMMA RefreshedFields ==
  ASSUME TypeOK, NEW force \in BOOLEAN
  PROVE  LET r == Refreshed(stats, force)
         IN  /\ r \in Fields(r.cached)
             /\ r.samples = stats.samples /\ r.next = stats.next
             /\ r.count = stats.count /\ r.last = stats.last
             /\ ~FreshEnough(stats, force) =>
                  /\ r.cached = BuildSummary(stats)
                  /\ r.valid = TRUE /\ r.dirty = FALSE /\ r.pending = 0
  BY DEF Refreshed, Fields, TypeOK

LEMMA ClearedFields ==
  /\ Cleared(stats) \in Fields(stats.cached)
  /\ Cleared(stats).count = 0 /\ Cleared(stats).next = 0 /\ Cleared(stats).pending = 0
  /\ Cleared(stats).valid = FALSE /\ Cleared(stats).last = 0
  BY EmptyStatsFields DEF Cleared, Fields
-----------------------------------------------------------------------------
(* The fields of LatencyStats keep their types and _next_index stays a     *)
(* slot of the ring, through every call.                                   *)
THEOREM StatsTypeCorrect == Spec => []TypeOK
<1>1. Init => TypeOK
  <2>. SUFFICES ASSUME Init PROVE TypeOK
    OBVIOUS
  <2>1. stats = EmptyStats
    BY DEF Init
  <2>2. stats.cached = EmptySummary
    BY <2>1 DEF EmptyStats
  <2>3. recorded \in Seq(Int)
    <3>1. <<>> \in Seq(Int)
      BY EmptySeq
    <3>. QED  BY Zenon, <3>1 DEF Init
  <2>4. stats \in Fields(stats.cached) /\ stats.count = 0 /\ stats.next = 0
    BY Zenon, <2>1, <2>2, EmptyStatsFields
  <2>. QED  BY <2>3, <2>4, StatsAssumption DEF TypeOK
<1>2. TypeOK /\ [Next]_vars => TypeOK'
  <2>. SUFFICES ASSUME TypeOK, [Next]_vars PROVE TypeOK'
    OBVIOUS
  <2>1. ASSUME NEW v \in Values, Record(v) PROVE TypeOK'
    <3>1. v \in Int
      BY ObjectAssumption
    <3>2. recorded' \in Seq(Int)
      BY <2>1, <3>1, AppendProperties DEF Record, TypeOK
    <3>3. stats' = Recorded(stats, v)
      BY <2>1 DEF Record
    <3>4. CASE MaxSamples > 0
      <4>1. /\ stats' \in Fields(stats.cached) /\ stats'.cached = stats.cached
            /\ stats'.next = IF stats.next + 1 = MaxSamples THEN 0 ELSE stats.next + 1
            /\ stats'.count = IF stats.count < MaxSamples THEN stats.count + 1 ELSE stats.count
        BY Zenon, <3>1, <3>3, <3>4, RecordedFields
      <4>2. /\ stats.count \in Nat /\ stats.next \in Nat
            /\ stats.count <= MaxSamples /\ stats.next < MaxSamples
            /\ stats.count < MaxSamples => stats.next = stats.count
        BY <3>4 DEF TypeOK, Fields
      <4>3. /\ stats'.count <= MaxSamples
            /\ stats'.next <= MaxSamples /\ stats'.next < MaxSamples
            /\ stats'.count < MaxSamples => stats'.next = stats'.count
        BY <3>4, <4>1, <4>2, StatsAssumption
      <4>. QED  BY <3>2, <4>1, <4>3 DEF TypeOK
    <3>5. CASE MaxSamples = 0
      BY <3>1, <3>2, <3>3, <3>5, RecordedNowhereFields DEF TypeOK
    <3>. QED  BY <3>4, <3>5, StatsAssumption
  <2>2. ASSUME NEW force \in BOOLEAN, stats' = Refreshed(stats, force), UNCHANGED recorded
        PROVE  TypeOK'
    BY <2>2, RefreshedFields DEF TypeOK
  <2>3. CASE Reset
    <3>1. recorded' \in Seq(Int)
      <4>1. <<>> \in Seq(Int)
        BY EmptySeq
      <4>. QED  BY Zenon, <2>3, <4>1 DEF Reset
    <3>2. stats' = Cleared(stats)
      BY <2>3 DEF Reset
    <3>. QED  BY <3>1, <3>2, ClearedFields, StatsAssumption DEF TypeOK, Fields
  <2>4. CASE UNCHANGED vars
    BY <2>4 DEF vars, TypeOK
  <2>. QED
    BY <2>1, <2>2, <2>3, <2>4 DEF Next, Snapshot, Format
<1>. QED  BY <1>1, <1>2, PTL DEF Spec
-----------------------------------------------------------------------------
(* Where the samples are: slot j of the ring holds the sample number       *)
(* SampleIn(j) of the history, counted back from the next slot.            *)
SampleIn(j) ==
  Len(recorded) + 1 - stats.next + j - (IF j < stats.next THEN 0 ELSE MaxSamples)

Placement ==
  /\ stats.count = Smaller(Len(recorded), MaxSamples)
  /\ \A j \in 0..stats.count - 1 : stats.samples[j] = recorded[SampleIn(j)]

(* The numbers that the proofs below calculate with.                       *)
LEMMA RingNumbers ==
  ASSUME TypeOK, Placement
  PROVE  /\ MaxSamples \in Nat /\ Len(recorded) \in Nat
         /\ stats.count \in Nat /\ stats.next \in Nat
         /\ stats.next <= MaxSamples
         /\ MaxSamples > 0 => stats.next < MaxSamples
         /\ stats.count < MaxSamples => stats.next = stats.count /\ stats.count = Len(recorded)
         /\ stats.count >= MaxSamples => stats.count = MaxSamples /\ MaxSamples <= Len(recorded)
         /\ \A j \in 0..stats.count - 1 : SampleIn(j) \in 1..Len(recorded)
<1>1. /\ MaxSamples \in Nat /\ Len(recorded) \in Nat
      /\ stats.count \in Nat /\ stats.next \in Nat
      /\ stats.next <= MaxSamples /\ stats.count <= MaxSamples
      /\ MaxSamples > 0 => stats.next < MaxSamples
      /\ stats.count < MaxSamples => stats.next = stats.count
  BY StatsAssumption, LenProperties DEF TypeOK, Fields
<1>2. /\ stats.count < MaxSamples => stats.count = Len(recorded)
      /\ stats.count >= MaxSamples => stats.count = MaxSamples /\ MaxSamples <= Len(recorded)
  BY <1>1 DEF Placement, Smaller
<1>3. ASSUME NEW j \in 0..stats.count - 1
      PROVE  SampleIn(j) \in 1..Len(recorded)
  <2>1. CASE j < stats.next
    <3>1. SampleIn(j) = Len(recorded) + 1 - stats.next + j
      BY <1>1, <2>1 DEF SampleIn
    <3>2. stats.next <= Len(recorded)
      BY <1>1, <1>2
    <3>. QED  BY <1>1, <2>1, <3>1, <3>2
  <2>2. CASE ~(j < stats.next)
    <3>1. SampleIn(j) = Len(recorded) + 1 - stats.next + j - MaxSamples
      BY <1>1, <2>2 DEF SampleIn
    <3>2. stats.count = MaxSamples /\ MaxSamples <= Len(recorded)
      BY <1>1, <1>2, <2>2
    <3>. QED  BY <1>1, <2>2, <3>1, <3>2
  <2>. QED  BY <2>1, <2>2
<1>. QED  BY <1>1, <1>2, <1>3

LEMMA RecordPlaces ==
  ASSUME TypeOK, Placement, NEW v \in Int, MaxSamples > 0,
         stats' = Recorded(stats, v), recorded' = Append(recorded, v)
  PROVE  Placement'
<1>0. /\ MaxSamples \in Nat /\ Len(recorded) \in Nat
      /\ stats.count \in Nat /\ stats.next \in Nat
      /\ stats.next < MaxSamples
      /\ stats.count < MaxSamples => stats.next = stats.count /\ stats.count = Len(recorded)
      /\ stats.count >= MaxSamples => stats.count = MaxSamples /\ MaxSamples <= Len(recorded)
  BY Zenon, RingNumbers
<1>1. /\ stats'.samples = [stats.samples EXCEPT ![stats.next] = v]
      /\ stats'.next = IF stats.next + 1 = MaxSamples THEN 0 ELSE stats.next + 1
      /\ stats'.count = IF stats.count < MaxSamples THEN stats.count + 1 ELSE stats.count
  BY Zenon, RecordedFields
<1>2. /\ Len(recorded') = Len(recorded) + 1
      /\ \A i \in 1..Len(recorded) : recorded'[i] = recorded[i]
      /\ recorded'[Len(recorded) + 1] = v
  BY AppendProperties DEF TypeOK
<1>3. stats'.count = Smaller(Len(recorded'), MaxSamples)
  BY <1>0, <1>1, <1>2 DEF Smaller
<1>4. ASSUME NEW j \in 0..stats'.count - 1
      PROVE  stats'.samples[j] = recorded'[SampleIn(j)']
  <2>0. stats.samples \in [0..MaxSamples - 1 -> Int] /\ j \in 0..MaxSamples - 1
    BY <1>0, <1>1 DEF TypeOK, Fields
  <2>1. CASE j = stats.next
    <3>1. SampleIn(j)' = Len(recorded) + 1
      <4>1. Len(recorded') = Len(recorded) + 1
        BY Zenon, <1>2
      <4>. QED  BY <1>0, <1>1, <2>1, <4>1 DEF SampleIn
    <3>. QED  BY <1>1, <1>2, <2>0, <2>1, <3>1
  <2>2. CASE j # stats.next
    <3>1. j \in 0..stats.count - 1
      BY <1>0, <1>1, <2>0, <2>2
    <3>2. SampleIn(j)' = SampleIn(j)
      <4>0. Len(recorded') = Len(recorded) + 1
        BY Zenon, <1>2
      <4>1. stats.next \in Nat /\ MaxSamples \in Nat /\ Len(recorded) \in Nat
        BY Zenon, <1>0
      <4>2. CASE stats.next + 1 = MaxSamples
        <5>1. stats'.next = 0 /\ j < stats.next
          BY <1>1, <2>0, <2>2, <4>1, <4>2
        <5>2. /\ SampleIn(j)' = Len(recorded') + 1 - 0 + j - MaxSamples
              /\ SampleIn(j) = Len(recorded) + 1 - stats.next + j - 0
          BY <2>0, <4>1, <5>1 DEF SampleIn
        <5>3. \A l, n \in Nat : (l + 1) + 1 - 0 + j - (n + 1) = l + 1 - n + j - 0
          BY <2>0
        <5>. QED  BY Zenon, <4>0, <4>1, <4>2, <5>2, <5>3
      <4>3. CASE stats.next + 1 # MaxSamples
        <5>1. stats'.next = stats.next + 1 /\ (j < stats'.next <=> j < stats.next)
          BY <1>1, <2>0, <2>2, <4>1, <4>3
        <5>2. Len(recorded') + 1 - stats'.next = Len(recorded) + 1 - stats.next
          <6>1. stats'.next = stats.next + 1
            BY Zenon, <5>1
          <6>2. \A l, n \in Nat : (l + 1) + 1 - (n + 1) = l + 1 - n
            OBVIOUS
          <6>. QED  BY Zenon, <4>0, <4>1, <6>1, <6>2
        <5>. QED  BY Zenon, <5>1, <5>2 DEF SampleIn
      <4>. QED  BY <4>2, <4>3
    <3>3. stats'.samples[j] = stats.samples[j]
      BY <1>1, <2>0, <2>2
    <3>. QED  BY <1>2, <3>1, <3>2, <3>3, RingNumbers DEF Placement
  <2>. QED  BY <2>1, <2>2
<1>. QED  BY <1>3, <1>4 DEF Placement

LEMMA PlacementInvariant == Spec => []Placement
<1>1. Init => Placement
  <2>. SUFFICES ASSUME Init PROVE Placement
    OBVIOUS
  <2>1. stats.count = 0
    BY EmptyStatsFields DEF Init
  <2>2. Len(recorded) = 0
    BY DEF Init
  <2>3. 0 = Smaller(0, MaxSamples)
    BY StatsAssumption DEF Smaller
  <2>. QED  BY <2>1, <2>2, <2>3 DEF Placement
<1>2. TypeOK /\ Placement /\ [Next]_vars => Placement'
  <2>. SUFFICES ASSUME TypeOK, Placement, [Next]_vars PROVE Placement'
    OBVIOUS
  <2>1. ASSUME NEW v \in Values, Record(v) PROVE Placement'
    <3>1. v \in Int /\ stats' = Recorded(stats, v) /\ recorded' = Append(recorded, v)
      BY <2>1, ObjectAssumption DEF Record
    <3>2. CASE MaxSamples > 0
      BY <3>1, <3>2, RecordPlaces
    <3>3. CASE MaxSamples = 0
      <4>1. stats.count = 0 /\ stats'.count = stats.count
        <5>1. stats'.count = stats.count
          BY Zenon, <3>1, <3>3, RecordedNowhereFields
        <5>. QED  BY <3>3, <5>1, RingNumbers DEF TypeOK
      <4>2. Len(recorded') \in Nat
        BY <3>1, AppendProperties DEF TypeOK
      <4>. QED  BY <3>3, <4>1, <4>2 DEF Placement, Smaller
    <3>. QED  BY <3>2, <3>3, StatsAssumption
  <2>2. ASSUME NEW force \in BOOLEAN, stats' = Refreshed(stats, force), UNCHANGED recorded
        PROVE  Placement'
    <3>1. stats'.samples = stats.samples /\ stats'.next = stats.next /\ stats'.count = stats.count
      BY Zenon, <2>2, RefreshedFields
    <3>. QED  BY <2>2, <3>1 DEF Placement, SampleIn
  <2>3. CASE Reset
    <3>1. stats'.count = 0
      BY Zenon, <2>3, ClearedFields DEF Reset
    <3>2. Len(recorded') = 0
      BY <2>3 DEF Reset
    <3>3. 0 = Smaller(0, MaxSamples)
      BY StatsAssumption DEF Smaller
    <3>. QED  BY <3>1, <3>2, <3>3 DEF Placement
  <2>4. CASE UNCHANGED vars
    BY <2>4 DEF vars, Placement, SampleIn
  <2>. QED
    BY <2>1, <2>2, <2>3, <2>4 DEF Next, Snapshot, Format
<1>. QED  BY <1>1, <1>2, StatsTypeCorrect, PTL DEF Spec
-----------------------------------------------------------------------------
(* The window after n samples, spelled out.                                *)
LEMMA WindowProperties ==
  ASSUME TypeOK, NEW n \in 0..Len(recorded)
  PROVE  LET size == Smaller(n, MaxSamples)
         IN  /\ size \in 0..n
             /\ WindowAt(n) \in Seq(Int)
             /\ Len(WindowAt(n)) = size
             /\ \A i \in 1..size : WindowAt(n)[i] = recorded[n - size + i]
<1>. DEFINE size == Smaller(n, MaxSamples)
<1>1. size \in 0..n /\ Len(recorded) \in Nat /\ n \in Nat
  BY StatsAssumption, LenProperties DEF Smaller, TypeOK
<1>. HIDE DEF size
<1>2. \A i \in n + 1 - size .. n : recorded[i] \in Int
  BY <1>1, LenProperties DEF TypeOK
<1>3. WindowAt(n) = SubSeq(recorded, n + 1 - size, n)
  BY DEF WindowAt, size
<1>4. n + 1 - size \in Int /\ n \in Int
  BY <1>1
<1>5. /\ SubSeq(recorded, n + 1 - size, n) \in Seq(Int)
      /\ Len(SubSeq(recorded, n + 1 - size, n)) =
           IF n + 1 - size <= n THEN n - (n + 1 - size) + 1 ELSE 0
      /\ \A i \in 1 .. n - (n + 1 - size) + 1 :
           SubSeq(recorded, n + 1 - size, n)[i] = recorded[(n + 1 - size) + i - 1]
  BY <1>2, <1>4, SubSeqProperties
<1>6. Len(WindowAt(n)) = size
  BY <1>1, <1>3, <1>5
<1>7. ASSUME NEW i \in 1..size
      PROVE  WindowAt(n)[i] = recorded[n - size + i]
  <2>1. i \in 1 .. n - (n + 1 - size) + 1 /\ (n + 1 - size) + i - 1 = n - size + i
    BY <1>1
  <2>. QED  BY <1>3, <1>5, <2>1
<1>. QED  BY <1>1, <1>3, <1>5, <1>6, <1>7 DEF size

(* One segment of the ring, spelled out.                                   *)
LEMMA SegmentProperties ==
  ASSUME TypeOK, NEW from \in Nat, NEW to \in Nat, from <= to, to <= MaxSamples
  PROVE  /\ Segment(stats, from, to) \in Seq(Int)
         /\ Len(Segment(stats, from, to)) = to - from
         /\ \A i \in 1..to - from : Segment(stats, from, to)[i] = stats.samples[from + i - 1]
<1>1. ASSUME NEW i \in 1..to - from
      PROVE  stats.samples[from + i - 1] \in Int
  <2>1. stats.samples \in [0..MaxSamples - 1 -> Int]
    BY DEF TypeOK, Fields
  <2>2. from + i - 1 \in 0..MaxSamples - 1
    BY StatsAssumption
  <2>. QED  BY <2>1, <2>2
<1>2. to - from \in Nat
  OBVIOUS
<1>3. Segment(stats, from, to) \in Seq(Int)
  BY <1>1, <1>2, IsASeq DEF Segment
<1>. QED  BY <1>2, <1>3 DEF Segment

LEMMA PlacementGivesWindow ==
  ASSUME TypeOK, Placement
  PROVE  RingHoldsLatest
<1>. DEFINE len == Len(recorded)
            window == WindowAt(len)
<1>1. /\ MaxSamples \in Nat /\ len \in Nat /\ stats.count \in Nat /\ stats.next \in Nat
      /\ stats.next <= MaxSamples
      /\ stats.count = Smaller(len, MaxSamples)
  BY RingNumbers DEF Placement
<1>2. /\ window \in Seq(Int) /\ Len(window) = stats.count
      /\ \A i \in 1..stats.count : window[i] = recorded[len - stats.count + i]
  <2>1. len \in 0..Len(recorded)
    BY <1>1
  <2>. QED  BY <1>1, <2>1, WindowProperties
<1>. HIDE DEF window
<1>3. CASE stats.count < MaxSamples
  <2>1. stats.next = stats.count /\ stats.count = len
    BY <1>3, RingNumbers
  <2>2. /\ OrderedSamples(stats) = Segment(stats, 0, stats.count)
        /\ OrderedSamples(stats) \in Seq(Int)
        /\ Len(OrderedSamples(stats)) = stats.count
        /\ \A i \in 1..stats.count - 0 : OrderedSamples(stats)[i] = stats.samples[0 + i - 1]
    BY <1>1, <1>3, SegmentProperties DEF OrderedSamples
  <2>3. ASSUME NEW i \in 1..stats.count
        PROVE  OrderedSamples(stats)[i] = window[i]
    <3>1. i - 1 \in 0..stats.count - 1 /\ 0 + i - 1 = i - 1 /\ i \in 1..stats.count - 0
      BY <1>1
    <3>2. SampleIn(i - 1) = i
      BY <1>1, <2>1, <3>1 DEF SampleIn
    <3>3. window[i] = recorded[i]
      BY <1>1, <1>2, <2>1
    <3>. QED  BY <2>2, <3>1, <3>2, <3>3 DEF Placement
  <2>. QED  BY <1>2, <2>2, <2>3, SeqEqual DEF RingHoldsLatest, window
<1>4. CASE ~(stats.count < MaxSamples)
  <2>1. stats.count = MaxSamples /\ MaxSamples <= len
    BY <1>1, <1>4, RingNumbers
  <2>. DEFINE older == Segment(stats, stats.next, MaxSamples)
              newer == Segment(stats, 0, stats.next)
  <2>0. 0 \in Nat /\ 0 <= stats.next /\ MaxSamples <= MaxSamples
    BY <1>1
  <2>2. /\ older \in Seq(Int) /\ Len(older) = MaxSamples - stats.next
        /\ \A i \in 1..MaxSamples - stats.next : older[i] = stats.samples[stats.next + i - 1]
    BY Zenon, <1>1, <2>0, SegmentProperties
  <2>3. /\ newer \in Seq(Int) /\ Len(newer) = stats.next - 0
        /\ \A i \in 1..stats.next - 0 : newer[i] = stats.samples[0 + i - 1]
    BY Zenon, <1>1, <2>0, SegmentProperties
  <2>. HIDE DEF older, newer
  <2>4. Len(older) = MaxSamples - stats.next
    BY Zenon, <2>2
  <2>5. /\ older \o newer \in Seq(Int)
        /\ Len(older \o newer) = stats.count
        /\ \A i \in 1..stats.count : (older \o newer)[i] =
             IF i <= Len(older) THEN older[i] ELSE newer[i - Len(older)]
    <3>1. Len(older) + Len(newer) = stats.count
      BY <1>1, <2>1, <2>2, <2>3
    <3>2. /\ older \o newer \in Seq(Int)
          /\ Len(older \o newer) = Len(older) + Len(newer)
          /\ \A i \in 1..Len(older) + Len(newer) : (older \o newer)[i] =
               IF i <= Len(older) THEN older[i] ELSE newer[i - Len(older)]
      BY Zenon, <2>2, <2>3, ConcatProperties
    <3>. QED  BY Zenon, <3>1, <3>2
  <2>6. OrderedSamples(stats) = older \o newer
    BY <1>4 DEF OrderedSamples, older, newer
  <2>7. ASSUME NEW i \in 1..stats.count
        PROVE  (older \o newer)[i] = window[i]
    <3>1. window[i] = recorded[len - MaxSamples + i]
      BY <1>2, <2>1
    <3>2. CASE i <= Len(older)
      <4>1. i \in 1..MaxSamples - stats.next /\ stats.next + i - 1 \in 0..stats.count - 1
        BY <1>1, <2>1, <2>4, <3>2
      <4>2. SampleIn(stats.next + i - 1) = len - MaxSamples + i
        BY <1>1, <4>1 DEF SampleIn
      <4>3. (older \o newer)[i] = stats.samples[stats.next + i - 1]
        BY <2>2, <2>5, <3>2, <4>1
      <4>. QED  BY <3>1, <4>1, <4>2, <4>3 DEF Placement
    <3>3. CASE ~(i <= Len(older))
      <4>1. /\ i - Len(older) \in 1..stats.next - 0
            /\ 0 + (i - Len(older)) - 1 = i - (MaxSamples - stats.next) - 1
            /\ i - (MaxSamples - stats.next) - 1 \in 0..stats.count - 1
            /\ i - (MaxSamples - stats.next) - 1 < stats.next
        BY <1>1, <2>1, <2>4, <3>3
      <4>2. SampleIn(i - (MaxSamples - stats.next) - 1) = len - MaxSamples + i
        <5>1. SampleIn(i - (MaxSamples - stats.next) - 1)
                = len + 1 - stats.next + (i - (MaxSamples - stats.next) - 1) - 0
          BY Zenon, <4>1 DEF SampleIn, len
        <5>2. \A l, n, m \in Nat : l + 1 - n + (i - (m - n) - 1) - 0 = l - m + i
          OBVIOUS
        <5>. QED  BY Zenon, <1>1, <5>1, <5>2
      <4>3. (older \o newer)[i] = stats.samples[i - (MaxSamples - stats.next) - 1]
        BY <2>3, <2>5, <3>3, <4>1
      <4>. QED  BY <3>1, <4>1, <4>2, <4>3 DEF Placement
    <3>. QED  BY <3>2, <3>3
  <2>. QED  BY <1>2, <2>5, <2>6, <2>7, SeqEqual DEF RingHoldsLatest, window
<1>. QED  BY <1>3, <1>4

(* BuildSummary sees the latest samples, oldest first, wherever the ring   *)
(* has wrapped: the two std::copy calls of BuildSummary.                   *)
THEOREM RingIsWindow == Spec => []RingHoldsLatest
BY StatsTypeCorrect, PlacementInvariant, PlacementGivesWindow, PTL
-----------------------------------------------------------------------------
(* The cached summary, while it is valid, is that of some earlier moment   *)
(* since the last Reset, and pending counts the samples since then.        *)
CacheLags ==
  /\ stats.last = IF Len(recorded) = 0 THEN 0 ELSE recorded[Len(recorded)]
  /\ stats.valid =>
       /\ stats.pending <= Len(recorded)
       /\ stats.cached = SummaryAt(Len(recorded) - stats.pending)
       /\ ~stats.dirty => stats.pending = 0

LEMMA SubSeqOfAppend ==
  ASSUME NEW r \in Seq(Int), NEW v \in Int, NEW n \in 0..Len(r), NEW m \in 1..n + 1
  PROVE  SubSeq(Append(r, v), m, n) = SubSeq(r, m, n)
<1>1. n \in Int /\ m \in Int /\ Len(r) \in Nat
  BY LenProperties
<1>2. CASE n < m
  BY <1>1, <1>2, SubSeqEmpty
<1>3. CASE m <= n
  <2>1. Append(r, v) = r \o <<v>> /\ <<v>> \in Seq(Int)
    BY AppendIsConcat
  <2>2. m \in 1..Len(r) /\ n \in 1..Len(r)
    BY <1>1, <1>3
  <2>. QED  BY <2>1, <2>2, SubSeqOfConcat1
<1>. QED  BY <1>1, <1>2, <1>3

(* Later samples do not change what an earlier summary is about.           *)
LEMMA SummaryStable ==
  ASSUME TypeOK, NEW v \in Int, recorded' = Append(recorded, v),
         NEW n \in 0..Len(recorded)
  PROVE  SummaryAt(n)' = SummaryAt(n)
<1>1. /\ recorded \in Seq(Int) /\ Len(recorded) \in Nat
      /\ \A i \in 1..Len(recorded) : recorded'[i] = recorded[i]
  BY AppendProperties, LenProperties DEF TypeOK
<1>2. n + 1 - Smaller(n, MaxSamples) \in 1..n + 1
  BY <1>1, StatsAssumption DEF Smaller
<1>3. WindowAt(n)' = WindowAt(n)
  BY <1>1, <1>2, SubSeqOfAppend DEF WindowAt
<1>4. n # 0 => recorded'[n] = recorded[n]
  BY <1>1
<1>. QED  BY Zenon, <1>3, <1>4 DEF SummaryAt

(* A summary built now is the summary of the samples of now.               *)
LEMMA BuildsCurrentSummary ==
  ASSUME RingHoldsLatest, CacheLags
  PROVE  BuildSummary(stats) = SummaryAt(Len(recorded))
  BY Zenon DEF RingHoldsLatest, CacheLags, BuildSummary, SummaryAt

LEMMA CacheInvariant == Spec => []CacheLags
<1>1. Init => CacheLags
  <2>. SUFFICES ASSUME Init PROVE CacheLags
    OBVIOUS
  <2>1. stats.last = 0 /\ stats.valid = FALSE
    BY EmptyStatsFields DEF Init
  <2>2. Len(recorded) = 0
    BY DEF Init
  <2>. QED  BY <2>1, <2>2 DEF CacheLags
<1>2. TypeOK /\ RingHoldsLatest /\ CacheLags /\ [Next]_vars => CacheLags'
  <2>. SUFFICES ASSUME TypeOK, RingHoldsLatest, CacheLags, [Next]_vars PROVE CacheLags'
    OBVIOUS
  <2>0. Len(recorded) \in Nat /\ stats.pending \in Nat
    BY LenProperties DEF TypeOK, Fields
  <2>1. ASSUME NEW v \in Values, Record(v) PROVE CacheLags'
    <3>1. v \in Int /\ stats' = Recorded(stats, v) /\ recorded' = Append(recorded, v)
      BY <2>1, ObjectAssumption DEF Record
    <3>2. Len(recorded') = Len(recorded) + 1 /\ recorded'[Len(recorded) + 1] = v
      BY <3>1, AppendProperties DEF TypeOK
    <3>3. CASE MaxSamples > 0
      <4>1. /\ stats'.last = v /\ stats'.valid = stats.valid /\ stats'.dirty = TRUE
            /\ stats'.pending = stats.pending + 1 /\ stats'.cached = stats.cached
        BY Zenon, <3>1, <3>3, RecordedFields
      <4>2. Len(recorded') - stats'.pending = Len(recorded) - stats.pending
        BY <2>0, <3>2, <4>1
      <4>3. ASSUME stats.valid
            PROVE  /\ stats'.pending <= Len(recorded')
                   /\ stats'.cached = SummaryAt(Len(recorded) - stats.pending)'
        <5>1. stats.pending <= Len(recorded) /\ stats.cached = SummaryAt(Len(recorded) - stats.pending)
          BY <4>3 DEF CacheLags
        <5>2. Len(recorded) - stats.pending \in 0..Len(recorded)
          BY <2>0, <5>1
        <5>3. \A n \in 0..Len(recorded) : SummaryAt(n)' = SummaryAt(n)
          BY <3>1, SummaryStable
        <5>4. stats'.pending <= Len(recorded')
          BY <2>0, <3>2, <4>1, <5>1
        <5>5. SummaryAt(Len(recorded) - stats.pending)' = SummaryAt(Len(recorded) - stats.pending)
          <6>1. PICK n \in 0..Len(recorded) : n = Len(recorded) - stats.pending
            BY <5>2
          <6>2. n = Len(recorded') - stats'.pending
            BY <4>2, <6>1
          <6>. QED  BY <5>3, <6>1, <6>2
        <5>. QED  BY Zenon, <4>1, <5>1, <5>4, <5>5
      <4>. QED  BY <2>0, <3>2, <4>1, <4>2, <4>3 DEF CacheLags
    <3>4. CASE MaxSamples = 0
      <4>1. stats'.last = v /\ stats'.valid = FALSE
        BY Zenon, <3>1, <3>4, RecordedNowhereFields
      <4>. QED  BY <2>0, <3>2, <4>1 DEF CacheLags
    <3>. QED  BY <3>3, <3>4, StatsAssumption
  <2>2. ASSUME NEW force \in BOOLEAN, stats' = Refreshed(stats, force), UNCHANGED recorded
        PROVE  CacheLags'
    <3>1. CASE FreshEnough(stats, force)
      BY <2>2, <3>1 DEF Refreshed, CacheLags, SummaryAt, WindowAt
    <3>2. CASE ~FreshEnough(stats, force)
      <4>1. /\ stats'.cached = BuildSummary(stats) /\ stats'.last = stats.last
            /\ stats'.valid = TRUE /\ stats'.dirty = FALSE /\ stats'.pending = 0
        BY Zenon, <2>2, <3>2, RefreshedFields
      <4>2. stats'.cached = SummaryAt(Len(recorded))
        BY <4>1, BuildsCurrentSummary
      <4>3. Len(recorded') - stats'.pending = Len(recorded)
        BY <2>0, <2>2, <4>1
      <4>. QED  BY <2>0, <2>2, <4>1, <4>2, <4>3 DEF CacheLags, SummaryAt, WindowAt
    <3>. QED  BY <3>1, <3>2
  <2>3. CASE Reset
    <3>1. stats'.last = 0 /\ stats'.valid = FALSE
      BY Zenon, <2>3, ClearedFields DEF Reset
    <3>2. Len(recorded') = 0
      BY <2>3 DEF Reset
    <3>. QED  BY <3>1, <3>2 DEF CacheLags
  <2>4. CASE UNCHANGED vars
    BY <2>4 DEF vars, CacheLags, SummaryAt, WindowAt
  <2>. QED
    BY <2>1, <2>2, <2>3, <2>4 DEF Next, Snapshot, Format
<1>. QED  BY <1>1, <1>2, StatsTypeCorrect, RingIsWindow, PTL DEF Spec

(* The bound on the age of what Snapshot returns, and that Format returns  *)
(* the present: RefreshSummary with its flags over any sequence of calls.  *)
THEOREM ReadersAreRecent == Spec => []ReadersSeeRecent
<1>1. TypeOK /\ RingHoldsLatest /\ CacheLags => ReadersSeeRecent
  <2>. SUFFICES ASSUME TypeOK, RingHoldsLatest, CacheLags PROVE ReadersSeeRecent
    OBVIOUS
  <2>0. /\ Len(recorded) \in Nat /\ stats.pending \in Nat
        /\ RefreshEvery \in Nat /\ RefreshEvery >= 1
    BY LenProperties, RefreshEveryPositive DEF TypeOK, Fields
  <2>1. BuildSummary(stats) = SummaryAt(Len(recorded))
    BY BuildsCurrentSummary
  <2>2. ASSUME NEW force \in BOOLEAN, ~FreshEnough(stats, force)
        PROVE  Refreshed(stats, force).cached = SummaryAt(Len(recorded))
    BY Zenon, <2>1, <2>2, RefreshedFields
  <2>3. ASSUME UpToDate(stats)
        PROVE  stats.cached = SummaryAt(Len(recorded)) /\ stats.pending = 0
    <3>1. stats.pending = 0 /\ stats.cached = SummaryAt(Len(recorded) - stats.pending)
      BY <2>3 DEF UpToDate, CacheLags
    <3>2. Len(recorded) - stats.pending = Len(recorded)
      BY <2>0, <3>1
    <3>. QED  BY <3>1, <3>2
  <2>4. Refreshed(stats, TRUE).cached = SummaryAt(Len(recorded))
    <3>1. CASE FreshEnough(stats, TRUE)
      BY <2>3, <3>1 DEF FreshEnough, Refreshed
    <3>. QED  BY <2>2, <3>1
  <2>5. \E lag \in 0..RefreshEvery - 1 :
          /\ lag <= Len(recorded)
          /\ Refreshed(stats, FALSE).cached = SummaryAt(Len(recorded) - lag)
    <3>1. CASE FreshEnough(stats, FALSE)
      <4>1. stats.valid /\ stats.pending \in 0..RefreshEvery - 1
        BY <2>0, <2>3, <3>1 DEF FreshEnough, UpToDate
      <4>2. Refreshed(stats, FALSE).cached = stats.cached
        BY <3>1 DEF Refreshed
      <4>. QED  BY <4>1, <4>2 DEF CacheLags
    <3>2. CASE ~FreshEnough(stats, FALSE)
      <4>1. Len(recorded) - 0 = Len(recorded) /\ 0 \in 0..RefreshEvery - 1 /\ 0 <= Len(recorded)
        BY <2>0
      <4>. QED  BY <2>2, <3>2, <4>1
    <3>. QED  BY <3>1, <3>2
  <2>. QED  BY <2>4, <2>5 DEF ReadersSeeRecent
<1>. QED
  BY <1>1, StatsTypeCorrect, RingIsWindow, CacheInvariant, PTL
-----------------------------------------------------------------------------
(* Interpolation between two samples that are d apart.                     *)
LEMMA ScaledByFraction ==
  ASSUME NEW d \in Nat, NEW f \in Nat, NEW g \in Nat, f <= g
  PROVE  d * f \in Nat /\ d * f <= d * g
<1>1. d * f \in Nat /\ d * g \in Nat /\ d * (g - f) \in Nat
  OBVIOUS
<1>2. d * g = d * f + d * (g - f)
  OBVIOUS
<1>. QED  BY <1>1, <1>2

(* PercentileFormSorted stays within [min, max], as its comment says, and  *)
(* a higher percentile is never the smaller one, for any sorted samples.   *)
THEOREM PercentilesOrdered ==
  ASSUME NEW values \in Seq(Int), Len(values) > 0,
         \A i, j \in 1..Len(values) : i <= j => values[i] <= values[j],
         NEW p \in 0..100, NEW q \in 0..100, p <= q
  PROVE  /\ 100 * values[1] <= PercentileFromSorted(values, p)
         /\ PercentileFromSorted(values, p) <= PercentileFromSorted(values, q)
         /\ PercentileFromSorted(values, q) <= 100 * values[Len(values)]
<1>. DEFINE gaps == Len(values) - 1
            Lower(x) == x \div 100
            Upper(x) == IF Lower(x) + 1 < gaps THEN Lower(x) + 1 ELSE gaps
            Below(x) == values[Lower(x) + 1]
            Above(x) == values[Upper(x) + 1]
            At(x) == 100 * Below(x) + (Above(x) - Below(x)) * (x % 100)
<1>. HIDE DEF gaps, Lower, Upper, Below, Above, At
<1>1. gaps \in Nat /\ Len(values) = gaps + 1
  BY LenProperties DEF gaps
<1>2. \A i \in 0..gaps : values[i + 1] \in Int
  <2>1. ASSUME NEW i \in 0..gaps PROVE i + 1 \in 1..Len(values)
    BY <1>1
  <2>. QED  BY <2>1, LenProperties
<1>3. \A i, j \in 0..gaps : i <= j => values[i + 1] <= values[j + 1]
  BY <1>1
<1>4. ASSUME NEW x \in Nat, x <= 100 * gaps
      PROVE  /\ Lower(x) \in 0..gaps /\ Upper(x) \in 0..gaps
             /\ Lower(x) <= Upper(x)
             /\ Lower(x) < gaps => Upper(x) = Lower(x) + 1
             /\ x % 100 \in 0..99
             /\ x = 100 * Lower(x) + (x % 100)
  <2>1. Lower(x) \in Nat /\ x % 100 \in 0..99 /\ x = 100 * Lower(x) + (x % 100)
    BY DEF Lower
  <2>2. Lower(x) \in 0..gaps
    <3>1. \A l \in Nat, f \in 0..99 : 100 * l + f <= 100 * gaps => l <= gaps
      BY <1>1
    <3>. QED  BY <1>1, <1>4, <2>1, <3>1
  <2>3. /\ Upper(x) \in 0..gaps /\ Lower(x) <= Upper(x)
        /\ Lower(x) < gaps => Upper(x) = Lower(x) + 1
    BY <1>1, <2>2 DEF Upper
  <2>. QED  BY <2>1, <2>2, <2>3
<1>5. ASSUME NEW x \in Nat, x <= 100 * gaps
      PROVE  /\ Below(x) \in Int /\ Above(x) \in Int
             /\ values[1] <= Below(x) /\ Below(x) <= Above(x)
             /\ Above(x) <= values[gaps + 1]
  <2>1. 0 \in 0..gaps /\ gaps \in 0..gaps /\ values[0 + 1] = values[1]
    BY <1>1
  <2>2. /\ Lower(x) \in 0..gaps /\ Upper(x) \in 0..gaps
        /\ 0 <= Lower(x) /\ Lower(x) <= Upper(x) /\ Upper(x) <= gaps
    BY <1>1, <1>4, <1>5
  <2>3. Below(x) \in Int /\ Above(x) \in Int
    BY <1>2, <2>2 DEF Below, Above
  <2>4. values[0 + 1] <= Below(x) /\ Below(x) <= Above(x) /\ Above(x) <= values[gaps + 1]
    BY Zenon, <1>3, <2>1, <2>2 DEF Below, Above
  <2>. QED  BY Zenon, <2>1, <2>3, <2>4
<1>6. ASSUME NEW x \in Nat, x <= 100 * gaps
      PROVE  At(x) \in Int /\ 100 * Below(x) <= At(x) /\ At(x) <= 100 * Above(x)
  <2>1. PICK d \in Nat : Above(x) = Below(x) + d /\ Above(x) - Below(x) = d
    BY <1>5, <1>6
  <2>2. PICK f \in Nat : f = x % 100 /\ f <= 100
    BY <1>4, <1>6
  <2>3. d * f \in Nat /\ d * f <= d * 100
    BY ScaledByFraction, <2>2
  <2>4. At(x) = 100 * Below(x) + d * f
    BY Zenon, <2>1, <2>2 DEF At
  <2>5. Below(x) \in Int
    BY <1>5, <1>6
  <2>. QED  BY <2>1, <2>3, <2>4, <2>5
<1>7. ASSUME NEW x \in Nat, NEW y \in Nat, x <= y, y <= 100 * gaps
      PROVE  At(x) <= At(y)
  <2>0. x <= 100 * gaps
    BY <1>1, <1>7
  <2>1. /\ Lower(x) \in 0..gaps /\ Lower(y) \in 0..gaps
        /\ x % 100 \in 0..99 /\ y % 100 \in 0..99
        /\ x = 100 * Lower(x) + (x % 100) /\ y = 100 * Lower(y) + (y % 100)
    <3>1. /\ Lower(x) \in 0..gaps /\ x % 100 \in 0..99
          /\ x = 100 * Lower(x) + (x % 100)
      BY Zenon, <1>4, <1>7, <2>0
    <3>2. /\ Lower(y) \in 0..gaps /\ y % 100 \in 0..99
          /\ y = 100 * Lower(y) + (y % 100)
      BY Zenon, <1>4, <1>7
    <3>. QED  BY Zenon, <3>1, <3>2
  <2>. DEFINE k == x % 100
              l == y % 100
  <2>. HIDE DEF k, l
  <2>2. /\ Lower(x) \in Nat /\ Lower(y) \in Nat /\ k \in 0..99 /\ l \in 0..99
        /\ 100 * Lower(x) + k <= 100 * Lower(y) + l
    <3>1. Lower(x) \in Nat /\ Lower(y) \in Nat
      BY <1>1, <2>1
    <3>. QED  BY Zenon, <1>7, <2>1, <3>1 DEF k, l
  <2>3. CASE Lower(x) = Lower(y)
    <3>0. k <= l /\ k \in Nat /\ l \in Nat
      BY <2>3, <2>2
    <3>1. x % 100 <= y % 100 /\ x % 100 \in Nat /\ y % 100 \in Nat
      BY Zenon, <3>0 DEF k, l
    <3>2. PICK d \in Nat : Above(x) - Below(x) = d
      BY <1>5, <2>0
    <3>3. PICK m \in Nat, n \in Nat :
            m = d * (x % 100) /\ n = d * (y % 100) /\ m <= n
      BY <3>1, ScaledByFraction
    <3>4. Below(x) = Below(y) /\ Above(x) = Above(y)
      BY Zenon, <2>3 DEF Below, Above, Upper
    <3>5. At(x) = 100 * Below(x) + m /\ At(y) = 100 * Below(x) + n
      BY Zenon, <3>2, <3>3, <3>4 DEF At
    <3>6. PICK b \in Int : b = Below(x)
      BY <1>5, <2>0
    <3>7. 100 * b + m <= 100 * b + n
      BY <3>3
    <3>. QED  BY Zenon, <3>5, <3>6, <3>7
  <2>4. CASE Lower(x) # Lower(y)
    <3>1. Lower(x) < Lower(y)
      <4>1. k \in 0..99 /\ l \in 0..99
        BY Zenon, <2>2
      <4>2. \A a, b \in Nat : 100 * a + k <= 100 * b + l => a < b \/ a = b
        BY <4>1
      <4>. QED  BY Zenon, <2>2, <2>4, <4>2
    <3>2. Upper(x) \in 0..gaps /\ Upper(x) <= Lower(y)
      <4>1. Lower(x) < gaps /\ Lower(x) \in 0..gaps /\ Lower(y) \in 0..gaps
        BY <1>1, <2>1, <3>1
      <4>2. Upper(x) = Lower(x) + 1
        BY Zenon, <1>4, <2>0, <4>1
      <4>. QED  BY <1>1, <3>1, <4>1, <4>2
    <3>3. Above(x) <= Below(y)
      BY Zenon, <1>3, <2>1, <3>2 DEF Above, Below
    <3>4. Above(x) \in Int /\ Below(y) \in Int
      BY <1>5, <1>7, <2>0
    <3>5. At(x) <= 100 * Above(x) /\ 100 * Below(y) <= At(y) /\ At(x) \in Int /\ At(y) \in Int
      BY <1>6, <1>7, <2>0
    <3>. QED  BY <3>3, <3>4, <3>5
  <2>. QED  BY <2>3, <2>4
<1>8. ASSUME NEW x \in Nat, x <= 100 * gaps
      PROVE  100 * values[1] <= At(x) /\ At(x) <= 100 * values[Len(values)]
  <2>1. /\ Below(x) \in Int /\ Above(x) \in Int
        /\ values[1] <= Below(x) /\ Above(x) <= values[Len(values)]
    BY Zenon, <1>1, <1>5, <1>8
  <2>2. values[1] \in Int /\ values[Len(values)] \in Int
    BY <1>1, LenProperties
  <2>3. At(x) \in Int /\ 100 * Below(x) <= At(x) /\ At(x) <= 100 * Above(x)
    BY <1>6, <1>8
  <2>. QED  BY <2>1, <2>2, <2>3
<1>9. /\ p * gaps \in Nat /\ q * gaps \in Nat
      /\ p * gaps <= q * gaps /\ p * gaps <= 100 * gaps /\ q * gaps <= 100 * gaps
  <2>1. /\ gaps * p \in Nat /\ gaps * q \in Nat
        /\ gaps * p <= gaps * q /\ gaps * p <= gaps * 100 /\ gaps * q <= gaps * 100
    BY <1>1, ScaledByFraction
  <2>. QED  BY <1>1, <2>1
<1>10. /\ PercentileFromSorted(values, p) = At(p * gaps)
       /\ PercentileFromSorted(values, q) = At(q * gaps)
  BY Zenon DEF PercentileFromSorted, At, Above, Below, Upper, Lower, gaps
<1>. QED  BY Zenon, <1>7, <1>8, <1>9, <1>10
-----------------------------------------------------------------------------
(* Sorted: the place of a sample is the number of samples that are not     *)
(* above it, and the places are the numbers from 1 to the length.          *)
Place(w, i) == Cardinality(NotAbove(w, i))

LEMMA WindowDomain ==
  ASSUME NEW w \in Seq(Int)
  PROVE  /\ DOMAIN w = 1..Len(w) /\ Len(w) \in Nat /\ IsFiniteSet(DOMAIN w)
         /\ Cardinality(DOMAIN w) = Len(w)
         /\ \A i \in DOMAIN w : w[i] \in Int
<1>1. DOMAIN w = 1..Len(w) /\ Len(w) \in Nat
  BY LenProperties
<1>2. IsFiniteSet(1..Len(w)) /\ Cardinality(1..Len(w)) = Len(w)
  <2>1. \A n \in Nat : IsFiniteSet(1..n) /\ Cardinality(1..n) = IF 1 > n THEN 0 ELSE n - 1 + 1
    BY FS_Interval
  <2>2. \A n \in Nat : (IF 1 > n THEN 0 ELSE n - 1 + 1) = n
    OBVIOUS
  <2>. QED  BY Zenon, <1>1, <2>1, <2>2
<1>3. \A i \in 1..Len(w) : w[i] \in Int
  BY Zenon, ElementOfSeq
<1>. QED  BY Zenon, <1>1, <1>2, <1>3

LEMMA PlaceBounds ==
  ASSUME NEW w \in Seq(Int), NEW i \in DOMAIN w
  PROVE  /\ IsFiniteSet(NotAbove(w, i)) /\ NotAbove(w, i) \subseteq DOMAIN w
         /\ i \in NotAbove(w, i)
         /\ Place(w, i) \in 1..Len(w)
<1>1. NotAbove(w, i) \in SUBSET DOMAIN w /\ i \in NotAbove(w, i)
  BY WindowDomain DEF NotAbove
<1>2. /\ IsFiniteSet(NotAbove(w, i))
      /\ Place(w, i) <= Len(w) /\ Place(w, i) \in Nat /\ Place(w, i) # 0
  <2>1. IsFiniteSet(DOMAIN w) /\ Cardinality(DOMAIN w) = Len(w)
    BY WindowDomain
  <2>2. IsFiniteSet(NotAbove(w, i)) /\ Place(w, i) <= Len(w)
    BY <1>1, <2>1, FS_Subset DEF Place
  <2>. QED  BY <1>1, <2>2, FS_CardinalityType, FS_EmptySet DEF Place
<1>3. Len(w) \in Nat
  BY WindowDomain
<1>. QED  BY <1>1, <1>2, <1>3

(* A sample that is smaller, or equal and older, has the smaller place.    *)
LEMMA PlacesOrder ==
  ASSUME NEW w \in Seq(Int), NEW i \in DOMAIN w, NEW j \in DOMAIN w,
         i # j, w[i] < w[j] \/ (w[i] = w[j] /\ i <= j)
  PROVE  Place(w, i) < Place(w, j)
<1>1. /\ i \in Int /\ j \in Int /\ w[i] \in Int /\ w[j] \in Int
      /\ \A k \in DOMAIN w : k \in Int /\ w[k] \in Int
  BY WindowDomain
<1>2. NotAbove(w, i) \in SUBSET NotAbove(w, j)
  BY <1>1 DEF NotAbove
<1>3. j \in NotAbove(w, j) /\ j \notin NotAbove(w, i)
  BY <1>1 DEF NotAbove
<1>4. IsFiniteSet(NotAbove(w, j))
  BY PlaceBounds
<1>5. Place(w, i) <= Place(w, j) /\ Place(w, i) # Place(w, j)
  BY <1>2, <1>3, <1>4, FS_Subset DEF Place
<1>6. Place(w, i) \in 1..Len(w) /\ Place(w, j) \in 1..Len(w) /\ Len(w) \in Nat
  BY PlaceBounds, WindowDomain
<1>. QED  BY <1>5, <1>6

LEMMA PlacesDiffer ==
  ASSUME NEW w \in Seq(Int), NEW i \in DOMAIN w, NEW j \in DOMAIN w, Place(w, i) = Place(w, j)
  PROVE  i = j
<1>1. /\ i \in Int /\ j \in Int /\ w[i] \in Int /\ w[j] \in Int
  BY WindowDomain
<1>2. Place(w, i) \in Int /\ Place(w, j) \in Int
  BY PlaceBounds
<1>3. SUFFICES ASSUME i # j PROVE FALSE
  OBVIOUS
<1>4. \/ w[i] < w[j] \/ (w[i] = w[j] /\ i <= j)
      \/ w[j] < w[i] \/ (w[j] = w[i] /\ j <= i)
  BY <1>1
<1>5. Place(w, i) < Place(w, j) \/ Place(w, j) < Place(w, i)
  BY Zenon, <1>3, <1>4, PlacesOrder
<1>. QED  BY <1>2, <1>5

LEMMA EveryPlaceIsTaken ==
  ASSUME NEW w \in Seq(Int), NEW k \in DOMAIN w
  PROVE  \E i \in DOMAIN w : Place(w, i) = k
<1> DEFINE place == [i \in DOMAIN w |-> Place(w, i)]
<1>1. place \in [DOMAIN w -> DOMAIN w]
  BY PlaceBounds, WindowDomain
<1>2. \A i, j \in DOMAIN w : place[i] = place[j] => i = j
  BY PlacesDiffer
<1>. HIDE DEF place
<1>3. place \in Injection(DOMAIN w, DOMAIN w)
  BY Zenon, <1>1, <1>2 DEF Injection, IsInjective
<1>4. IsFiniteSet(DOMAIN w)
  BY WindowDomain
<1>5. place \in Surjection(DOMAIN w, DOMAIN w)
  BY Zenon, <1>3, <1>4, FS_Injection
<1>6. \E i \in DOMAIN w : place[i] = k
  BY <1>5 DEF Surjection
<1>. QED  BY <1>6 DEF place

(* The sorted copy, spelled out.                                           *)
LEMMA SortedProperties ==
  ASSUME NEW w \in Seq(Int)
  PROVE  /\ Sorted(w) \in Seq(Int) /\ Len(Sorted(w)) = Len(w)
         /\ \A i \in DOMAIN w : Place(w, i) \in DOMAIN w /\ Sorted(w)[Place(w, i)] = w[i]
         /\ \A k \in DOMAIN w : \E i \in DOMAIN w : Place(w, i) = k /\ Sorted(w)[k] = w[i]
<1> DEFINE Nth(k) == CHOOSE i \in DOMAIN w : Place(w, i) = k
           copy == [k \in DOMAIN w |-> w[Nth(k)]]
<1>1. Sorted(w) = SubSeq(copy, 1, Len(w))
  BY DEF Sorted, Place
<1>2. \A k \in DOMAIN w : Nth(k) \in DOMAIN w /\ Place(w, Nth(k)) = k
  BY EveryPlaceIsTaken
<1>. HIDE DEF Nth
<1>3. DOMAIN w = 1..Len(w) /\ Len(w) \in Nat /\ \A i \in DOMAIN w : w[i] \in Int
  BY WindowDomain
<1>4. \A k \in 1..Len(w) : copy[k] \in Int /\ copy[k] = w[Nth(k)]
  BY <1>2, <1>3
<1>. HIDE DEF copy
<1>5. /\ Sorted(w) \in Seq(Int) /\ Len(Sorted(w)) = Len(w)
      /\ \A k \in 1..Len(w) : Sorted(w)[k] = copy[k]
  <2>1. /\ SubSeq(copy, 1, Len(w)) \in Seq(Int)
        /\ Len(SubSeq(copy, 1, Len(w))) = IF 1 <= Len(w) THEN Len(w) - 1 + 1 ELSE 0
        /\ \A k \in 1..Len(w) - 1 + 1 : SubSeq(copy, 1, Len(w))[k] = copy[1 + k - 1]
    BY <1>3, <1>4, SubSeqProperties
  <2>2. \A k \in 1..Len(w) : k \in 1..Len(w) - 1 + 1 /\ 1 + k - 1 = k
    BY <1>3
  <2>. QED  BY <1>1, <1>3, <2>1, <2>2
<1>6. ASSUME NEW k \in DOMAIN w
      PROVE  \E i \in DOMAIN w : Place(w, i) = k /\ Sorted(w)[k] = w[i]
  BY <1>2, <1>3, <1>4, <1>5
<1>7. ASSUME NEW i \in DOMAIN w
      PROVE  Place(w, i) \in DOMAIN w /\ Sorted(w)[Place(w, i)] = w[i]
  <2>1. Place(w, i) \in DOMAIN w
    BY <1>3, PlaceBounds
  <2>2. PICK j \in DOMAIN w : Place(w, j) = Place(w, i) /\ Sorted(w)[Place(w, i)] = w[j]
    BY <1>6, <2>1
  <2>. QED  BY <2>1, <2>2, PlacesDiffer
<1>. QED  BY <1>5, <1>6, <1>7

LEMMA SortedAscends ==
  ASSUME NEW w \in Seq(Int), NEW k \in 1..Len(w), NEW l \in 1..Len(w), k <= l
  PROVE  Sorted(w)[k] <= Sorted(w)[l]
<1>1. DOMAIN w = 1..Len(w)
  BY WindowDomain
<1>2. PICK i \in DOMAIN w : Place(w, i) = k /\ Sorted(w)[k] = w[i]
  BY <1>1, SortedProperties
<1>3. PICK j \in DOMAIN w : Place(w, j) = l /\ Sorted(w)[l] = w[j]
  BY <1>1, SortedProperties
<1>4. w[i] \in Int /\ w[j] \in Int
  BY WindowDomain
<1>5. SUFFICES ASSUME w[j] < w[i] PROVE FALSE
  BY <1>2, <1>3, <1>4
<1>6. i # j
  BY <1>4, <1>5
<1>7. Place(w, j) < Place(w, i)
  BY <1>5, <1>6, PlacesOrder
<1>. QED  BY <1>2, <1>3, <1>7
-----------------------------------------------------------------------------
(* Ranked, which counts, finds what Sorted, which places, has at that      *)
(* place.                                                                  *)
LowerThan(w, x) == {i \in DOMAIN w : w[i] < x}
AtMost(w, x) == {i \in DOMAIN w : w[i] <= x}

HasRank(w, k, x) ==
  Cardinality(LowerThan(w, x)) < k /\ Cardinality(AtMost(w, x)) >= k

LEMMA SortedHasRank ==
  ASSUME NEW w \in Seq(Int), NEW k \in DOMAIN w
  PROVE  Sorted(w)[k] \in Range(w) /\ HasRank(w, k, Sorted(w)[k])
<1>1. PICK i \in DOMAIN w : Place(w, i) = k /\ Sorted(w)[k] = w[i]
  BY SortedProperties
<1>2. /\ IsFiniteSet(DOMAIN w) /\ \A j \in DOMAIN w : w[j] \in Int /\ j \in Int
  BY WindowDomain
<1>3. LowerThan(w, w[i]) \in SUBSET NotAbove(w, i) /\ NotAbove(w, i) \in SUBSET AtMost(w, w[i])
  BY <1>2 DEF LowerThan, AtMost, NotAbove
<1>4. i \in NotAbove(w, i) /\ i \notin LowerThan(w, w[i])
  BY <1>2 DEF LowerThan, NotAbove
<1>5. IsFiniteSet(NotAbove(w, i)) /\ Place(w, i) \in Int
  BY PlaceBounds
<1>6. AtMost(w, w[i]) \in SUBSET DOMAIN w
  BY DEF AtMost
<1>7. IsFiniteSet(AtMost(w, w[i])) /\ IsFiniteSet(LowerThan(w, w[i]))
  BY <1>2, <1>3, <1>5, <1>6, FS_Subset
<1>8. /\ Cardinality(LowerThan(w, w[i])) <= Place(w, i)
      /\ Cardinality(LowerThan(w, w[i])) # Place(w, i)
      /\ Place(w, i) <= Cardinality(AtMost(w, w[i]))
  BY <1>3, <1>4, <1>5, <1>7, FS_Subset DEF Place
<1>9. Cardinality(LowerThan(w, w[i])) \in Nat /\ Cardinality(AtMost(w, w[i])) \in Nat
  BY <1>7, FS_CardinalityType
<1>10. HasRank(w, k, w[i])
  BY <1>1, <1>5, <1>8, <1>9 DEF HasRank
<1>. QED  BY Zenon, <1>1, <1>10 DEF Range

(* There is only one such value.                                           *)
LEMMA RanksAreUnique ==
  ASSUME NEW w \in Seq(Int), NEW k \in DOMAIN w, NEW x \in Int, NEW y \in Int,
         HasRank(w, k, x), HasRank(w, k, y)
  PROVE  ~(x < y)
<1>1. SUFFICES ASSUME x < y PROVE FALSE
  OBVIOUS
<1>2. /\ IsFiniteSet(DOMAIN w) /\ k \in Int /\ \A j \in DOMAIN w : w[j] \in Int
  BY WindowDomain
<1>3. AtMost(w, x) \in SUBSET LowerThan(w, y) /\ LowerThan(w, y) \in SUBSET DOMAIN w
  BY <1>1, <1>2 DEF AtMost, LowerThan
<1>4. IsFiniteSet(LowerThan(w, y)) /\ IsFiniteSet(AtMost(w, x))
  BY <1>2, <1>3, FS_Subset
<1>5. Cardinality(AtMost(w, x)) <= Cardinality(LowerThan(w, y))
  BY <1>3, <1>4, FS_Subset
<1>6. Cardinality(AtMost(w, x)) \in Nat /\ Cardinality(LowerThan(w, y)) \in Nat
  BY <1>4, FS_CardinalityType
<1>. QED  BY <1>2, <1>5, <1>6 DEF HasRank

LEMMA RankedIsSorted ==
  ASSUME NEW w \in Seq(Int), NEW k \in DOMAIN w
  PROVE  Ranked(w, k) = Sorted(w)[k]
<1> DEFINE x == Sorted(w)[k]
<1>1. Ranked(w, k) = CHOOSE y \in Range(w) : HasRank(w, k, y)
  BY DEF Ranked, HasRank, LowerThan, AtMost
<1>2. x \in Range(w) /\ HasRank(w, k, x)
  BY SortedHasRank
<1>3. \A y \in Range(w) : y \in Int
  BY WindowDomain DEF Range
<1>. HIDE DEF x
<1>4. Ranked(w, k) \in Range(w) /\ HasRank(w, k, Ranked(w, k))
  <2>1. \E y \in Range(w) : HasRank(w, k, y)
    BY Zenon, <1>2
  <2>. QED  BY Zenon, <1>1, <2>1
<1>5. ~(x < Ranked(w, k)) /\ ~(Ranked(w, k) < x) /\ x \in Int /\ Ranked(w, k) \in Int
  BY <1>2, <1>3, <1>4, RanksAreUnique
<1>. QED  BY <1>5 DEF x
-----------------------------------------------------------------------------
LEMMA PercentileOrder ==
  ASSUME NEW w \in Seq(Int), Len(w) > 0, NEW p \in 0..100, NEW q \in 0..100, p <= q
  PROVE  /\ 100 * Sorted(w)[1] <= PercentileFromSorted(Sorted(w), p)
         /\ PercentileFromSorted(Sorted(w), p) <= PercentileFromSorted(Sorted(w), q)
         /\ PercentileFromSorted(Sorted(w), q) <= 100 * Sorted(w)[Len(Sorted(w))]
<1> DEFINE values == Sorted(w)
<1>1. values \in Seq(Int) /\ Len(values) = Len(w)
  BY SortedProperties
<1>2. \A i, j \in 1..Len(values) : i <= j => values[i] <= values[j]
  BY <1>1, SortedAscends
<1>. HIDE DEF values
<1>3. /\ 100 * values[1] <= PercentileFromSorted(values, p)
      /\ PercentileFromSorted(values, p) <= PercentileFromSorted(values, q)
      /\ PercentileFromSorted(values, q) <= 100 * values[Len(values)]
  BY <1>1, <1>2, PercentilesOrdered
<1>. QED  BY <1>3 DEF values

(* The average lies between the smallest and the largest sample.           *)
LEMMA AverageBounds ==
  ASSUME NEW w \in Seq(Int), Len(w) > 0
  PROVE  /\ Sorted(w)[1] * Len(w) <= FoldFunction(+, 0, w)
         /\ FoldFunction(+, 0, w) <= Sorted(w)[Len(w)] * Len(w)
<1> DEFINE lo == Sorted(w)[1]
           hi == Sorted(w)[Len(w)]
<1>1. /\ DOMAIN w = 1..Len(w) /\ Len(w) \in Nat /\ IsFiniteSet(DOMAIN w)
      /\ Cardinality(DOMAIN w) = Len(w) /\ IntOn(w, DOMAIN w)
  BY WindowDomain DEF IntOn
<1>2. 1 \in 1..Len(w) /\ Len(w) \in 1..Len(w)
  BY <1>1
<1>3. lo \in Int /\ hi \in Int
  BY <1>2, SortedProperties, ElementOfSeq
<1>4. ASSUME NEW i \in DOMAIN w PROVE lo <= w[i] /\ w[i] <= hi
  <2>1. Place(w, i) \in 1..Len(w) /\ Sorted(w)[Place(w, i)] = w[i]
    BY <1>1, SortedProperties
  <2>2. 1 <= Place(w, i) /\ Place(w, i) <= Len(w)
    BY <1>1, <2>1
  <2>. QED  BY <1>2, <2>1, <2>2, SortedAscends
<1>5. FoldFunction(+, 0, w) = SumOver(w, DOMAIN w)
  BY DEF FoldFunction, SumOver
<1>. HIDE DEF lo, hi
<1>6. Between(w, DOMAIN w, lo, hi)
  BY <1>4 DEF Between
<1>7. /\ lo * Cardinality(DOMAIN w) <= SumOver(w, DOMAIN w)
      /\ SumOver(w, DOMAIN w) <= hi * Cardinality(DOMAIN w)
  BY Zenon, <1>1, <1>3, <1>6, SumBounds
<1>. QED  BY Zenon, <1>1, <1>5, <1>7 DEF lo, hi

(* What SummaryOrdered says of one summary.                                *)
FiguresAgree(s) ==
  /\ 100 * s.min <= s.p50
  /\ s.p50 <= s.p95
  /\ s.p95 <= s.p99
  /\ s.p99 <= 100 * s.max
  /\ s.min * s.avg[2] <= s.avg[1]
  /\ s.avg[1] <= s.max * s.avg[2]

LEMMA SummaryFiguresAgree ==
  ASSUME NEW w \in Seq(Int), NEW last
  PROVE  FiguresAgree(Summary(w, last))
<1>1. CASE w = <<>>
  <2>1. Summary(w, last) = [EmptySummary EXCEPT !.last = last]
    BY Zenon, <1>1 DEF Summary
  <2>2. LET s == [EmptySummary EXCEPT !.last = last]
        IN  /\ s.min = 0 /\ s.max = 0 /\ s.p50 = 0 /\ s.p95 = 0 /\ s.p99 = 0
            /\ s.avg = <<0, 1>>
    BY DEF EmptySummary
  <2>. DEFINE s == Summary(w, last)
  <2>3. /\ s.min = 0 /\ s.max = 0 /\ s.p50 = 0 /\ s.p95 = 0 /\ s.p99 = 0
        /\ s.avg[1] = 0 /\ s.avg[2] = 1
    BY <2>1, <2>2
  <2>. HIDE DEF s
  <2>4. FiguresAgree(s)
    BY <2>3 DEF FiguresAgree
  <2>. QED  BY <2>4 DEF s
<1>2. CASE w # <<>>
  <2>. DEFINE s == Summary(w, last)
              values == Sorted(w)
              P(p) == PercentileFromSorted(values, p)
              total == FoldFunction(+, 0, w)
              average == <<total, Len(w)>>
  <2>0. Len(w) > 0 /\ Len(values) = Len(w)
    BY <1>2, EmptySeq, LenProperties, SortedProperties
  <2>1. s = [count |-> Len(w), last |-> last, min |-> values[1], max |-> values[Len(values)],
             avg |-> average, p50 |-> P(50), p95 |-> P(95), p99 |-> P(99)]
    BY Zenon, <1>2 DEF Summary
  <2>2. /\ 100 * values[1] <= P(50) /\ P(50) <= P(95)
        /\ P(95) <= P(99) /\ P(99) <= 100 * values[Len(values)]
    <3>1. 50 \in 0..100 /\ 95 \in 0..100 /\ 99 \in 0..100 /\ 50 <= 95 /\ 95 <= 99
      OBVIOUS
    <3>2. 100 * values[1] <= P(50) /\ P(50) <= P(95)
      BY Zenon, <2>0, <3>1, PercentileOrder
    <3>3. P(95) <= P(99) /\ P(99) <= 100 * values[Len(values)]
      BY Zenon, <2>0, <3>1, PercentileOrder
    <3>. QED  BY <3>2, <3>3
  <2>3. values[1] * Len(w) <= total /\ total <= values[Len(values)] * Len(w)
    BY Zenon, <2>0, AverageBounds
  <2>4. average[1] = total /\ average[2] = Len(w)
    BY DEF average
  <2>. HIDE DEF s, values, P, total, average
  <2>5. /\ s.min = values[1] /\ s.max = values[Len(values)] /\ s.avg = average
        /\ s.p50 = P(50) /\ s.p95 = P(95) /\ s.p99 = P(99)
    BY <2>1
  <2>6. FiguresAgree(s)
    BY Zenon, <2>2, <2>3, <2>4, <2>5 DEF FiguresAgree
  <2>. QED  BY Zenon, <2>6 DEF s
<1>. QED  BY <1>1, <1>2

(* The figures of one summary agree with each other, whatever was recorded *)
(* since the construction: min, p50, p95, p99 and max ascend and the       *)
(* average lies between min and max.  CacheInvariant says which samples    *)
(* the cached summary is about; the sort, the interpolation and the sum    *)
(* of BuildSummary do the rest.                                            *)
THEOREM SummariesAgree == Spec => []SummaryOrdered
<1>1. TypeOK /\ CacheLags => SummaryOrdered
  <2>. SUFFICES ASSUME TypeOK, CacheLags, stats.valid PROVE FiguresAgree(stats.cached)
    BY Zenon DEF SummaryOrdered, FiguresAgree
  <2>1. Len(recorded) \in Nat /\ stats.pending \in Nat
    BY LenProperties DEF TypeOK, Fields
  <2>. DEFINE n == Len(recorded) - stats.pending
  <2>2. n \in 0..Len(recorded) /\ stats.cached = SummaryAt(n)
    BY <2>1 DEF CacheLags
  <2>. HIDE DEF n
  <2>3. WindowAt(n) \in Seq(Int)
    BY <2>2, WindowProperties
  <2>. QED  BY Zenon, <2>2, <2>3, SummaryFiguresAgree DEF SummaryAt
<1>. QED  BY <1>1, StatsTypeCorrect, CacheInvariant, PTL
-----------------------------------------------------------------------------
(* The walk up the gaps between sorted samples v[1] .. v[n], of which each *)
(* counts with the part of it that the distance covers.                    *)
Steps(v, n, distance) ==
  [g \in 1..n - 1 |-> (v[g + 1] - v[g]) * Walked(g, distance)]

Covered(l, f, g) ==
  /\ g <= l => Walked(g, 100 * l + f) = 100
  /\ g = l + 1 => Walked(g, 100 * l + f) = f
  /\ g > l + 1 => Walked(g, 100 * l + f) = 0

LEMMA WalkedParts ==
  ASSUME NEW l \in Nat, NEW f \in 0..99, NEW g \in Nat, g >= 1
  PROVE  Covered(l, f, g)
<1>1. CASE g <= l
  BY <1>1 DEF Walked, Smaller, Covered
<1>2. CASE g = l + 1
  <2>1. PICK a \in Nat : a = 100 * l
    OBVIOUS
  <2>2. 100 * (g - 1) = a
    BY <1>2, <2>1
  <2>3. Walked(g, a + f) = f
    BY <2>2 DEF Walked, Smaller
  <2>. QED  BY <1>2, <2>1, <2>3 DEF Covered
<1>3. CASE g > l + 1
  BY <1>3 DEF Walked, Smaller, Covered
<1>. QED  BY <1>1, <1>2, <1>3

(* How far the walk has come after k gaps.                                 *)
Reached(v, l, f, k) ==
  IF k <= l THEN 100 * (v[k + 1] - v[1])
  ELSE 100 * (v[l + 1] - v[1]) + (v[l + 2] - v[l + 1]) * f

SumsReach(v, n, l, f, k) ==
  SumOver(Steps(v, n, 100 * l + f), 1..k) = Reached(v, l, f, k)

LEMMA WalkReaches ==
  ASSUME NEW n \in Nat, n > 0, NEW v, IntOn(v, 1..n),
         NEW l \in 0..n - 1, NEW f \in 0..99, NEW k \in 0..n - 1
  PROVE  SumsReach(v, n, l, f, k)
<1>. SUFFICES SumOver(Steps(v, n, 100 * l + f), 1..k) = Reached(v, l, f, k)
  BY DEF SumsReach
<1>0. \A i \in 1..n : v[i] \in Int
  BY DEF IntOn
<1> DEFINE steps == Steps(v, n, 100 * l + f)
           Sum(i) == SumOver(steps, 1..i)
           S == {i \in 0..n - 1 : Sum(i) = Reached(v, l, f, i)}
<1>1. ASSUME NEW g \in 1..n - 1
      PROVE  /\ g <= l => steps[g] = (v[g + 1] - v[g]) * 100
             /\ g = l + 1 => steps[g] = (v[g + 1] - v[g]) * f
             /\ g > l + 1 => steps[g] = 0
             /\ steps[g] \in Int
             /\ v[g] \in Int /\ v[g + 1] \in Int
  <2>1. g \in Nat /\ g >= 1 /\ l \in Nat /\ g \in 1..n /\ g + 1 \in 1..n
    OBVIOUS
  <2>2. v[g] \in Int /\ v[g + 1] \in Int
    BY <1>0, <2>1
  <2>3. PICK d \in Int : d = v[g + 1] - v[g]
    BY <2>2
  <2>4. steps[g] = d * Walked(g, 100 * l + f)
    BY Zenon, <2>3 DEF Steps
  <2>5. d * 0 = 0 /\ d * 100 \in Int /\ d * f \in Int
    OBVIOUS
  <2>6. g <= l \/ g = l + 1 \/ g > l + 1
    BY <2>1
  <2>7. /\ g <= l => steps[g] = d * 100
        /\ g = l + 1 => steps[g] = d * f
        /\ g > l + 1 => steps[g] = 0
    <3>1. Covered(l, f, g)
      BY Zenon, <2>1, WalkedParts
    <3>. QED  BY <2>4, <2>5, <3>1 DEF Covered
  <2>. QED  BY <2>2, <2>3, <2>5, <2>6, <2>7
<1>. HIDE DEF steps
<1>2. ASSUME NEW i \in 0..n - 2
      PROVE  Sum(i + 1) = steps[i + 1] + Sum(i)
  <2>1. IntOn(steps, 1..i + 1) /\ i + 1 \in Nat /\ i + 1 > 0
    BY <1>1 DEF IntOn
  <2>2. Sum(i + 1) = steps[i + 1] + SumOver(steps, 1..(i + 1) - 1)
    BY Zenon, <2>1, SumOfPrefix
  <2>3. (i + 1) - 1 = i
    OBVIOUS
  <2>. QED  BY Zenon, <2>2, <2>3
<1>3. Sum(0) = 0
  <2>1. 1..0 = {}
    OBVIOUS
  <2>. QED  BY Zenon, <2>1, SumEmpty
<1>. HIDE DEF Sum
<1>4. 0 \in S
  <2>1. Reached(v, l, f, 0) = 0
    BY <1>0 DEF Reached
  <2>. QED  BY <1>3, <2>1
<1>5. ASSUME NEW i \in 0..(n - 1) - 1, i \in S
      PROVE  i + 1 \in S
  <2>1. Sum(i) = Reached(v, l, f, i) /\ i + 1 \in 1..n - 1
    BY <1>5
  <2>2. Sum(i + 1) = steps[i + 1] + Reached(v, l, f, i)
    BY <1>2, <2>1
  <2>3. /\ v[1] \in Int /\ v[i + 1] \in Int /\ v[i + 2] \in Int
        /\ v[l + 1] \in Int /\ (i + 1) + 1 = i + 2
    BY <1>0
  <2>4. CASE i + 1 <= l
    <3>1. steps[i + 1] = (v[i + 2] - v[i + 1]) * 100
      <4>1. steps[i + 1] = (v[(i + 1) + 1] - v[i + 1]) * 100
        BY <1>1, <2>1, <2>4
      <4>2. (i + 1) + 1 = i + 2
        OBVIOUS
      <4>. QED  BY Zenon, <4>1, <4>2
    <3>2. Reached(v, l, f, i) = 100 * (v[i + 1] - v[1])
      BY <2>4 DEF Reached
    <3>3. Reached(v, l, f, i + 1) = 100 * (v[i + 2] - v[1])
      BY Zenon, <2>3, <2>4 DEF Reached
    <3>4. (v[i + 2] - v[i + 1]) * 100 + 100 * (v[i + 1] - v[1]) = 100 * (v[i + 2] - v[1])
      BY <2>3
    <3>5. Sum(i + 1) = Reached(v, l, f, i + 1)
      BY Zenon, <2>2, <3>1, <3>2, <3>3, <3>4
    <3>. QED  BY <2>1, <3>5
  <2>5. CASE i + 1 = l + 1
    <3>0. i = l
      BY <2>5
    <3>1. steps[i + 1] = (v[l + 2] - v[l + 1]) * f
      BY Zenon, <1>1, <2>1, <2>3, <2>5, <3>0
    <3>2. Reached(v, l, f, i) = 100 * (v[l + 1] - v[1])
      BY <3>0 DEF Reached
    <3>3. Reached(v, l, f, i + 1) = 100 * (v[l + 1] - v[1]) + (v[l + 2] - v[l + 1]) * f
      BY <3>0 DEF Reached
    <3>4. (v[l + 2] - v[l + 1]) * f \in Int
      BY <2>3, <3>0
    <3>5. 100 * (v[l + 1] - v[1]) \in Int
      BY <2>3
    <3>6. steps[i + 1] + Reached(v, l, f, i) = Reached(v, l, f, i + 1)
      BY <3>1, <3>2, <3>3, <3>4, <3>5
    <3>. QED  BY <2>1, <2>2, <3>6
  <2>6. CASE i + 1 > l + 1
    <3>1. steps[i + 1] = 0
      BY Zenon, <1>1, <2>1, <2>6
    <3>2. ~(i <= l) /\ ~(i + 1 <= l)
      BY <2>6
    <3>3. Reached(v, l, f, i + 1) = Reached(v, l, f, i)
      BY Zenon, <3>2 DEF Reached
    <3>4. Reached(v, l, f, i) \in Int
      <4>1. l + 2 \in 1..n /\ l + 1 \in 1..n /\ 1 \in 1..n
        BY <2>6
      <4>2. v[l + 2] \in Int /\ v[l + 1] \in Int /\ v[1] \in Int
        BY Zenon, <1>0, <4>1
      <4>3. PICK d \in Int, e \in Int : d = v[l + 2] - v[l + 1] /\ e = v[l + 1] - v[1]
        <5>1. v[l + 2] - v[l + 1] \in Int /\ v[l + 1] - v[1] \in Int
          BY <4>2
        <5>. QED  BY Zenon, <5>1
      <4>4. 100 * e + d * f \in Int
        OBVIOUS
      <4>. QED  BY Zenon, <3>2, <4>3, <4>4 DEF Reached
    <3>. QED  BY <2>1, <2>2, <3>1, <3>3, <3>4
  <2>7. i + 1 <= l \/ i + 1 = l + 1 \/ i + 1 > l + 1
    OBVIOUS
  <2>. QED  BY <2>4, <2>5, <2>6, <2>7
<1>6. 0..n - 1 \subseteq S
  <2>1. \A i \in 0..(n - 1) - 1 : i \in S => i + 1 \in S
    BY <1>5
  <2>2. n - 1 \in Nat
    OBVIOUS
  <2>. HIDE DEF S
  <2>. QED  BY Zenon, <1>4, <2>1, <2>2, InductionUpTo
<1>. QED  BY <1>6 DEF Sum, steps

LEMMA PercentileIsExact ==
  ASSUME NEW w \in Seq(Int), Len(w) > 0, NEW p \in 0..100
  PROVE  PercentileFromSorted(Sorted(w), p) = PercentileByDefinition(w, p)
<1> DEFINE v == Sorted(w)
           n == Len(w)
           x == p * (n - 1)
           l == x \div 100
           f == x % 100
           upper == IF l + 1 < n - 1 THEN l + 1 ELSE n - 1
<1>1. n \in Nat /\ n > 0 /\ DOMAIN w = 1..n /\ Len(v) = n
  BY WindowDomain, SortedProperties
<1>2. \A i \in 1..n : v[i] \in Int /\ Ranked(w, i) = v[i]
  <2>1. v \in Seq(Int) /\ Len(v) = n
    BY SortedProperties
  <2>. QED  BY <1>1, <2>1, ElementOfSeq, RankedIsSorted
<1>. HIDE DEF v, n
<1>3. x \in Nat /\ x <= 100 * (n - 1)
  <2>1. /\ (n - 1) * p \in Nat /\ (n - 1) * p <= (n - 1) * 100
    BY <1>1, ScaledByFraction
  <2>. QED  BY <1>1, <2>1
<1>. HIDE DEF x
<1>4. l \in Nat /\ f \in 0..99 /\ x = 100 * l + f
  BY <1>3
<1>. HIDE DEF l, f
<1>5. l \in 0..n - 1
  <2>1. \A a \in Nat, b \in 0..99 : 100 * a + b <= 100 * (n - 1) => a <= n - 1
    BY <1>1
  <2>. QED  BY <1>1, <1>3, <1>4, <2>1
<1>6. PercentileFromSorted(v, p) = 100 * v[l + 1] + (v[upper + 1] - v[l + 1]) * f
  BY Zenon, <1>1 DEF PercentileFromSorted, l, f, x
<1> DEFINE gaps == [g \in 1..n - 1 |-> (Ranked(w, g + 1) - Ranked(w, g)) * Walked(g, x)]
<1>7. PercentileByDefinition(w, p) = 100 * Ranked(w, 1) + FoldFunction(+, 0, gaps)
  BY Zenon DEF PercentileByDefinition, n, x
<1>8. gaps = Steps(v, n, 100 * l + f)
  <2>1. \A g \in 1..n - 1 :
          (Ranked(w, g + 1) - Ranked(w, g)) * Walked(g, x) = (v[g + 1] - v[g]) * Walked(g, x)
    <3>1. ASSUME NEW g \in 1..n - 1
          PROVE  Ranked(w, g + 1) = v[g + 1] /\ Ranked(w, g) = v[g]
      BY <1>1, <1>2
    <3>. QED  BY Zenon, <3>1
  <2>. QED  BY Zenon, <1>4, <2>1 DEF Steps
<1>9. FoldFunction(+, 0, gaps) = SumOver(gaps, 1..n - 1)
  <2>1. DOMAIN gaps = 1..n - 1
    BY Zenon
  <2>2. FoldFunction(+, 0, gaps) = SumOver(gaps, DOMAIN gaps)
    BY Zenon DEF FoldFunction, SumOver
  <2>. QED  BY Zenon, <2>1, <2>2
<1>. HIDE DEF gaps
<1>10. SumOver(Steps(v, n, 100 * l + f), 1..n - 1) = Reached(v, l, f, n - 1)
  <2>1. \A i \in 1..n : v[i] \in Int
    BY <1>2
  <2>2. n - 1 \in 0..n - 1
    BY <1>1
  <2>3. IntOn(v, 1..n)
    BY Zenon, <2>1 DEF IntOn
  <2>4. SumsReach(v, n, l, f, n - 1)
    BY Zenon, <1>1, <1>4, <1>5, <2>2, <2>3, WalkReaches
  <2>. QED  BY Zenon, <2>4 DEF SumsReach
<1>11. PercentileByDefinition(w, p) = 100 * v[1] + Reached(v, l, f, n - 1)
  <2>1. Ranked(w, 1) = v[1]
    BY <1>1, <1>2
  <2>. QED  BY Zenon, <1>7, <1>8, <1>9, <1>10, <2>1
<1>12. v[1] \in Int /\ v[n] \in Int /\ v[l + 1] \in Int /\ (n - 1) + 1 = n
  <2>1. 1 \in 1..n /\ n \in 1..n /\ l + 1 \in 1..n
    BY <1>1, <1>5
  <2>. QED  BY <1>1, <1>2, <2>1
<1>13. CASE l = n - 1
  <2>1. Reached(v, l, f, n - 1) = 100 * (v[n] - v[1])
    BY <1>1, <1>12, <1>13 DEF Reached
  <2>2. v[upper + 1] = v[n] /\ v[l + 1] = v[n]
    BY <1>1, <1>12, <1>13
  <2>3. (v[n] - v[n]) * f = 0
    BY <1>4, <1>12
  <2>. QED  BY <1>6, <1>11, <1>12, <2>1, <2>2, <2>3 DEF v
<1>14. CASE l # n - 1
  <2>1. upper + 1 = l + 2 /\ ~(n - 1 <= l) /\ l + 2 \in 1..n
    BY <1>1, <1>5, <1>14
  <2>2. Reached(v, l, f, n - 1) = 100 * (v[l + 1] - v[1]) + (v[l + 2] - v[l + 1]) * f
    BY Zenon, <2>1 DEF Reached
  <2>3. PICK d \in Int : d = (v[l + 2] - v[l + 1]) * f
    <3>1. v[l + 2] \in Int
      BY Zenon, <1>2, <2>1
    <3>2. PICK e \in Int : e = v[l + 2] - v[l + 1]
      BY <1>12, <3>1
    <3>3. e * f \in Int
      BY <1>4
    <3>. QED  BY Zenon, <3>2, <3>3
  <2>4. PercentileFromSorted(v, p) = 100 * v[l + 1] + d
    BY Zenon, <1>6, <2>1, <2>3
  <2>5. PercentileByDefinition(w, p) = 100 * v[1] + (100 * (v[l + 1] - v[1]) + d)
    BY Zenon, <1>11, <2>2, <2>3
  <2>6. 100 * v[1] + (100 * (v[l + 1] - v[1]) + d) = 100 * v[l + 1] + d
    BY <1>12
  <2>. QED  BY Zenon, <2>4, <2>5, <2>6 DEF v
<1>. QED  BY <1>13, <1>14

(* The percentiles of BuildSummary are those of statistics: the value      *)
(* percent% of the way up the gaps between the samples ranked by counting, *)
(* for every window, its first sample and equal samples included.          *)
THEOREM PercentilesExact == Spec => []PercentilesAreExact
<1>1. TypeOK /\ RingHoldsLatest => PercentilesAreExact
  <2>. DEFINE w == WindowAt(Len(recorded))
              s == BuildSummary(stats)
  <2>. SUFFICES ASSUME TypeOK, RingHoldsLatest, w # <<>>
                PROVE  /\ s.p50 = PercentileByDefinition(w, 50)
                       /\ s.p95 = PercentileByDefinition(w, 95)
                       /\ s.p99 = PercentileByDefinition(w, 99)
    BY Zenon DEF PercentilesAreExact
  <2>1. w \in Seq(Int)
    <3>1. Len(recorded) \in 0..Len(recorded)
      BY LenProperties DEF TypeOK
    <3>. QED  BY <3>1, WindowProperties
  <2>2. s = Summary(w, stats.last)
    BY Zenon DEF BuildSummary, RingHoldsLatest
  <2>. HIDE DEF w, s
  <2>3. Len(w) > 0
    BY <2>1, EmptySeq, LenProperties
  <2> DEFINE P(p) == PercentileFromSorted(Sorted(w), p)
             average == <<FoldFunction(+, 0, w), Len(w)>>
  <2>4. s = [count |-> Len(w), last |-> stats.last,
             min |-> Sorted(w)[1], max |-> Sorted(w)[Len(Sorted(w))],
             avg |-> average, p50 |-> P(50), p95 |-> P(95), p99 |-> P(99)]
    BY Zenon, <2>2 DEF Summary
  <2>. HIDE DEF P, average
  <2>5. s.p50 = P(50) /\ s.p95 = P(95) /\ s.p99 = P(99)
    BY <2>4
  <2>6. 50 \in 0..100 /\ 95 \in 0..100 /\ 99 \in 0..100
    OBVIOUS
  <2>7. \A p \in 0..100 : P(p) = PercentileByDefinition(w, p)
    BY Zenon, <2>1, <2>3, PercentileIsExact DEF P
  <2>8. /\ P(50) = PercentileByDefinition(w, 50)
        /\ P(95) = PercentileByDefinition(w, 95)
        /\ P(99) = PercentileByDefinition(w, 99)
    BY Zenon, <2>6, <2>7
  <2>. HIDE DEF P
  <2>. QED  BY <2>5, <2>8
<1>. QED  BY <1>1, StatsTypeCorrect, RingIsWindow, PTL
=============================================================================
