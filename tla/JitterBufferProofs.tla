------------------------- MODULE JitterBufferProofs -------------------------
(***************************************************************************)
(* Theorems about AdaptiveJitterBuffer and its history, for all lengths of *)
(* runs, all windows and all samples.  A p95 reading is whatever the       *)
(* window returns: no step depends on more than its comparisons.           *)
(***************************************************************************)
EXTENDS JitterBufferEvidence, TLAPS

USE DEF Unset

LEMMA AgeBounds ==
  ASSUME NEW age \in 0..CalmPeriod \cup {Unset}, NEW d \in Nat
  PROVE  Aged(age, d) \in 0..CalmPeriod \cup {Unset}
  BY BufferAssumption DEF Aged

LEMMA RatingIsQuality ==
  ASSUME NEW p95, NEW loss, NEW skip
  PROVE  Rating(p95, loss, skip) \in Qualities
  BY SMT DEF Rating, Qualities

LEMMA LimitsAreNat ==
  ASSUME NEW q \in Qualities, NEW base \in Nat
  PROVE  /\ WaitFor(q, base) \in Nat
         /\ FramesFor(q, base) \in Nat
  <1>1. /\ base \div 4 \in Nat /\ base \div 2 \in Nat
        /\ 3 * base \in Nat /\ 4 * base \in Nat
    OBVIOUS
  <1>2. \A x \in Nat : Larger(20, x) \in Nat /\ Larger(2, x) \in Nat /\ Larger(4, x) \in Nat
    BY DEF Larger
  <1>3. CASE q = "excellent"  BY <1>1, <1>2, <1>3 DEF WaitFor, FramesFor
  <1>4. CASE q = "good"       BY <1>1, <1>2, <1>4 DEF WaitFor, FramesFor
  <1>5. CASE q = "fair"       BY <1>1, <1>5 DEF WaitFor, FramesFor
  <1>6. CASE q = "poor"       BY <1>1, <1>6 DEF WaitFor, FramesFor
  <1>. QED  BY <1>3, <1>4, <1>5, <1>6 DEF Qualities

(* What a sample does to the mode and its evidence, whether or not the     *)
(* automatic mode acts.                                                    *)
LEMMA TransitionTypes ==
  ASSUME TypeOK, NEW j \in Nat, NEW p95, NEW d \in Nat,
         \/ EvaluateStateTransition(j, p95, d)
         \/ /\ calmAge' = Aged(calmAge, d)
            /\ UNCHANGED <<mode, highCount, lowCount, p95Exceeded>>
  PROVE  /\ mode' \in Modes
         /\ highCount' \in 0..HighRun - 1
         /\ lowCount' \in 0..LowRun - 1
         /\ p95Exceeded' \in BOOLEAN
         /\ calmAge' \in 0..CalmPeriod \cup {Unset}
  <1>1. Aged(calmAge, d) \in 0..CalmPeriod \cup {Unset}
    BY AgeBounds DEF TypeOK
  <1>2. Larger(Aged(calmAge, d), 0) \in 0..CalmPeriod
    BY <1>1, BufferAssumption DEF Larger
  <1>3. CASE mode = "bypass" /\ EvaluateBypass(j) /\ calmAge' = Aged(calmAge, d)
    <2>1. CASE EnterLowLatency
      <3>1. p95Exceeded' \in BOOLEAN  BY Zenon, <2>1 DEF EnterLowLatency
      <3>2. /\ mode' = "low_latency" /\ highCount' = 0 /\ lowCount' = 0
        BY <2>1 DEF EnterLowLatency
      <3>. QED  BY <1>1, <1>3, <3>1, <3>2, BufferAssumption DEF Modes
    <2>2. CASE ~EnterLowLatency
      <3> DEFINE high == IF j > 10 THEN highCount + 1 ELSE 0
      <3>1. high \in Nat  BY DEF TypeOK
      <3>2. /\ high < HighRun
            /\ highCount' = high
            /\ UNCHANGED <<mode, lowCount, p95Exceeded>>
        BY <1>3, <2>2 DEF EvaluateBypass
      <3>. QED  BY <1>1, <1>3, <3>1, <3>2, BufferAssumption DEF TypeOK
    <2>. QED  BY <2>1, <2>2
  <1>4. CASE mode = "low_latency" /\ EvaluateLowLatency(j, p95, d)
    <2> DEFINE low == IF j < 5 THEN lowCount + 1 ELSE 0
    <2>1. low \in Nat  BY DEF TypeOK
    <2>2. p95Exceeded \in BOOLEAN  BY DEF TypeOK
    <2>. HIDE DEF low
    <2>3. \/ /\ mode' = "bypass" /\ highCount' = 0 /\ lowCount' = 0
             /\ p95Exceeded' = p95Exceeded /\ calmAge' = Aged(calmAge, d)
          \/ /\ mode' = "smooth" /\ highCount' = 0 /\ lowCount' = 0
             /\ p95Exceeded' = FALSE /\ calmAge' = Unset
          \/ /\ low < LowRun /\ lowCount' = low /\ (p95Exceeded' = TRUE \/ p95Exceeded' = FALSE)
             /\ mode' = mode /\ highCount' = highCount /\ calmAge' = Aged(calmAge, d)
      BY <1>4, SMTT(20) DEF EvaluateLowLatency, low
    <2>4. p95Exceeded' \in BOOLEAN  BY Zenon, <2>2, <2>3
    <2>5. \/ mode' = "bypass" /\ highCount' = 0 /\ lowCount' = 0 /\ calmAge' = Aged(calmAge, d)
          \/ mode' = "smooth" /\ highCount' = 0 /\ lowCount' = 0 /\ calmAge' = Unset
          \/ /\ low < LowRun /\ lowCount' = low
             /\ mode' = mode /\ highCount' = highCount /\ calmAge' = Aged(calmAge, d)
      BY Zenon, <2>3
    <2>. QED  BY <1>1, <2>1, <2>4, <2>5, BufferAssumption DEF TypeOK, Modes
  <1>5. CASE mode = "smooth" /\ EvaluateSmooth(p95, d)
    <2>1. \/ EnterLowLatency /\ calmAge' = Unset
          \/ /\ \/ calmAge' = Larger(Aged(calmAge, d), 0)
                \/ calmAge' = Unset
             /\ UNCHANGED <<mode, highCount, lowCount, p95Exceeded>>
      BY <1>5 DEF EvaluateSmooth
    <2>2. p95Exceeded \in BOOLEAN  BY DEF TypeOK
    <2>3. p95Exceeded' \in BOOLEAN  BY Zenon, <2>1, <2>2 DEF EnterLowLatency
    <2>4. \/ mode' = "low_latency" /\ highCount' = 0 /\ lowCount' = 0 /\ calmAge' = Unset
          \/ /\ \/ calmAge' = Larger(Aged(calmAge, d), 0)
                \/ calmAge' = Unset
             /\ mode' = mode /\ highCount' = highCount /\ lowCount' = lowCount
      BY Zenon, <2>1 DEF EnterLowLatency
    <2>. QED  BY <1>2, <2>3, <2>4, BufferAssumption DEF TypeOK, Modes
  <1>6. CASE /\ calmAge' = Aged(calmAge, d)
             /\ UNCHANGED <<mode, highCount, lowCount, p95Exceeded>>
    BY <1>1, <1>6 DEF TypeOK
  <1>. QED  BY <1>3, <1>4, <1>5, <1>6 DEF EvaluateStateTransition
-----------------------------------------------------------------------------
(* The history stays within its bounds.                                    *)
SeenOK ==
  /\ highSeen \in 0..HighRun
  /\ lowSeen \in 0..LowRun
  /\ hotSeen \in 0..2
  /\ calmFor \in 0..CalmPeriod \cup {-1}

LEMMA SeenBounds ==
  ASSUME SeenOK, NEW high, NEW low, NEW hot, NEW calm, NEW d \in Nat,
         Documented!Seen(high, low, hot, calm, d)
  PROVE  SeenOK'
  BY BufferAssumption DEF SeenOK, Documented!Seen, Documented!Upto

(* One sample in bypass: the counter of high jitters is a lower bound of   *)
(* the run that was seen, and complete only when the run is.               *)
LEMMA BypassEvidence ==
  ASSUME TypeOK, SeenOK, NoResidue, CountersAreEvidence, mode = "bypass",
         NEW j \in Nat, NEW low, NEW hot, NEW calm, NEW d \in Nat,
         EvaluateBypass(j), calmAge' = Aged(calmAge, d),
         Documented!Seen(j > 10, low, hot, calm, d)
  PROVE  NoResidue' /\ CountersAreEvidence' /\ Documented!Transition
  <1> DEFINE high == IF j > 10 THEN highCount + 1 ELSE 0
  <1>1. SeenOK'  BY SeenBounds
  <1>2. lowCount = 0 /\ calmAge' = Unset
    BY DEF NoResidue, Aged
  <1>3. high \in Nat /\ (high >= HighRun => highSeen' >= HighRun)
        /\ (high < HighRun => high <= highSeen')
    BY BufferAssumption
    DEF TypeOK, SeenOK, CountersAreEvidence, Documented!Seen, Documented!Upto
  <1>4. CASE high >= HighRun /\ EnterLowLatency
    <2>1. mode' = "low_latency" /\ highCount' = 0 /\ lowCount' = 0 /\ ~p95Exceeded'
      BY Zenon, <1>4 DEF EnterLowLatency
    <2>. QED
      BY <1>1, <1>2, <1>3, <1>4, <2>1
      DEF NoResidue, CountersAreEvidence, SeenOK, Documented!Transition
  <1>5. CASE high < HighRun /\ highCount' = high
             /\ UNCHANGED <<mode, lowCount, p95Exceeded>>
    BY <1>1, <1>2, <1>3, <1>5
    DEF NoResidue, CountersAreEvidence, SeenOK, Documented!Transition
  <1>. QED  BY <1>4, <1>5 DEF EvaluateBypass

LEMMA LowLatencyEvidence ==
  ASSUME TypeOK, SeenOK, NoResidue, CountersAreEvidence, mode = "low_latency",
         NEW j \in Nat, NEW p95, NEW high, NEW calm, NEW d \in Nat,
         EvaluateLowLatency(j, p95, d),
         Documented!Seen(high, j < 5, p95 > 10000, calm, d)
  PROVE  NoResidue' /\ CountersAreEvidence' /\ Documented!Transition
  <1> DEFINE low == IF j < 5 THEN lowCount + 1 ELSE 0
  <1>1. SeenOK'  BY SeenBounds
  <1>2. highCount = 0 /\ Aged(calmAge, d) = Unset
    BY DEF NoResidue, Aged
  <1>3. low \in Nat /\ (low >= LowRun => lowSeen' >= LowRun)
        /\ (low < LowRun => low <= lowSeen')
    BY BufferAssumption
    DEF TypeOK, SeenOK, CountersAreEvidence, Documented!Seen, Documented!Upto
  <1>4. /\ p95 > 10000 => hotSeen' >= 1
        /\ p95 > 10000 /\ p95Exceeded => hotSeen' >= 2
    BY DEF SeenOK, CountersAreEvidence, Documented!Seen, Documented!Upto
  <1>5. \/ /\ low >= LowRun
           /\ mode' = "bypass" /\ highCount' = 0 /\ lowCount' = 0 /\ calmAge' = Unset
        \/ mode' = "smooth" /\ highCount' = 0 /\ lowCount' = 0 /\ calmAge' = Unset
        \/ /\ low < LowRun /\ lowCount' = low
           /\ mode' = "low_latency" /\ highCount' = 0 /\ calmAge' = Unset
    BY <1>2, SMTT(20) DEF EvaluateLowLatency
  <1>6. mode' = "smooth" => p95 > 10000 /\ p95Exceeded
    BY SMTT(20) DEF EvaluateLowLatency
  <1>7. mode' = "smooth" => ~p95Exceeded'
    BY SMTT(20) DEF EvaluateLowLatency
  <1>8. mode' = "low_latency" /\ ~(p95 > 10000) => p95Exceeded' = FALSE
    BY SMTT(20) DEF EvaluateLowLatency
  <1>9. mode' = "low_latency" /\ p95Exceeded' => hotSeen' >= 1
    BY <1>4, <1>8
  <1>10. mode' = "smooth" => hotSeen' >= 2
    BY <1>4, <1>6
  <1>. HIDE DEF low
  <1>. QED
    BY <1>1, <1>3, <1>5, <1>7, <1>9, <1>10
    DEF NoResidue, CountersAreEvidence, SeenOK, Documented!Transition

LEMMA SmoothEvidence ==
  ASSUME TypeOK, SeenOK, NoResidue, CountersAreEvidence, mode = "smooth",
         NEW p95, NEW high, NEW low, NEW hot, NEW d \in Nat,
         EvaluateSmooth(p95, d),
         Documented!Seen(high, low, hot, p95 < 5000, d)
  PROVE  NoResidue' /\ CountersAreEvidence' /\ Documented!Transition
  <1> DEFINE age == Aged(calmAge, d)
             calm == p95 < 5000
  <1>1. SeenOK'  BY SeenBounds
  <1>2. age \in 0..CalmPeriod \cup {Unset}
    BY AgeBounds DEF TypeOK
  <1>3. calm => Larger(age, 0) <= calmFor'
    BY BufferAssumption
    DEF TypeOK, SeenOK, CountersAreEvidence, Aged, Larger, Documented!Seen, Documented!Upto
  <1>. HIDE DEF age, calm
  <1>4. \/ /\ calm /\ age >= CalmPeriod
           /\ mode' = "low_latency" /\ highCount' = 0 /\ lowCount' = 0
           /\ ~p95Exceeded' /\ calmAge' = Unset
        \/ /\ \/ calm /\ calmAge' = Larger(age, 0)
              \/ calmAge' = Unset
           /\ mode' = mode /\ highCount' = highCount /\ lowCount' = lowCount
           /\ p95Exceeded' = p95Exceeded
    BY SMTT(20) DEF EvaluateSmooth, EnterLowLatency, age, calm
  <1>5. calm /\ age >= CalmPeriod => calmFor' >= CalmPeriod
    BY <1>1, <1>2, <1>3, BufferAssumption DEF SeenOK, Larger
  <1>. QED
    BY <1>1, <1>2, <1>3, <1>4, <1>5
    DEF NoResidue, CountersAreEvidence, SeenOK, TypeOK, Documented!Transition

LEMMA TransitionEvidence ==
  ASSUME TypeOK, SeenOK, NoResidue, CountersAreEvidence,
         NEW j \in Nat, NEW p95, NEW d \in Nat,
         EvaluateStateTransition(j, p95, d),
         SeenWith(j, p95, d)
  PROVE  NoResidue' /\ CountersAreEvidence' /\ Documented!Transition
  BY BypassEvidence, LowLatencyEvidence, SmoothEvidence
  DEF EvaluateStateTransition, SeenWith

-----------------------------------------------------------------------------
(* The window as a record of the fields of LatencyStats; only the number   *)
(* of samples matters here.                                                *)
Fields(w) ==
  [samples : {w.samples}, next : {w.next}, count : Nat, dirty : {w.dirty},
   valid : {w.valid}, pending : {w.pending}, cached : {w.cached}, last : {w.last}]

WindowOK == window \in Fields(window)

LEMMA EmptyWindow ==
  /\ Stats!EmptyStats \in Fields(Stats!EmptyStats)
  /\ Stats!EmptyStats.count = 0
  <1> DEFINE none == [i \in 0..WindowSize - 1 |-> 0]
  <1>1. Stats!EmptyStats =
          [samples |-> none, next |-> 0, count |-> 0, dirty |-> FALSE, valid |-> FALSE,
           pending |-> 0, cached |-> Stats!EmptySummary, last |-> 0]
    BY Zenon DEF Stats!EmptyStats
  <1>. HIDE DEF none
  <1>. QED  BY <1>1 DEF Fields

LEMMA RefreshKeepsCount ==
  ASSUME NEW w, w \in Fields(w)
  PROVE  LET r == Stats!Refreshed(w, FALSE)
         IN  r \in Fields(r) /\ r.count = w.count
  BY DEF Stats!Refreshed, Fields

LEMMA RecordedCount ==
  ASSUME NEW w, w \in Fields(w), NEW j
  PROVE  LET r == Stats!Recorded(w, j)
         IN  r \in Fields(r) /\ r.count >= w.count
  <1> DEFINE ring == [w.samples EXCEPT ![w.next] = j]
             next == (w.next + 1) % WindowSize
             count == IF w.count < WindowSize THEN w.count + 1 ELSE w.count
             pending == w.pending + 1
  <1>1. count \in Nat /\ count >= w.count
    BY BufferAssumption DEF Fields
  <1>2. CASE WindowSize = 0
    <2> DEFINE built == FALSE
    <2>1. Stats!Recorded(w, j) =
            [w EXCEPT !.last = j, !.dirty = TRUE, !.valid = built, !.pending = 0]
      BY Zenon, <1>2 DEF Stats!Recorded
    <2>. HIDE DEF built
    <2>2. Stats!Recorded(w, j) \in Fields(Stats!Recorded(w, j))
      BY <2>1 DEF Fields
    <2>3. Stats!Recorded(w, j).count = w.count
      BY <2>1 DEF Fields
    <2>4. w.count \in Nat
      BY DEF Fields
    <2>. QED  BY <2>2, <2>3, <2>4
  <1>3. CASE WindowSize # 0
    <2>1. Stats!Recorded(w, j) =
            [w EXCEPT !.last = j, !.samples = ring, !.next = next, !.count = count,
                      !.dirty = TRUE, !.pending = pending]
      BY Zenon, <1>3 DEF Stats!Recorded
    <2>. HIDE DEF ring, next, count, pending
    <2>. QED  BY <1>1, <2>1 DEF Fields
  <1>. QED  BY <1>2, <1>3

LEMMA ObservedCount ==
  ASSUME WindowOK, NEW j
  PROVE  /\ Observed(j) \in Fields(Observed(j))
         /\ Observed(j).count >= window.count
  <1>1. /\ Stats!Recorded(window, j) \in Fields(Stats!Recorded(window, j))
        /\ Stats!Recorded(window, j).count >= window.count
    BY Zenon, RecordedCount DEF WindowOK
  <1>2. /\ Observed(j) \in Fields(Observed(j))
        /\ Observed(j).count = Stats!Recorded(window, j).count
    BY Zenon, <1>1, RefreshKeepsCount DEF Observed
  <1>. QED  BY Zenon, <1>1, <1>2
-----------------------------------------------------------------------------
LEMMA SampleTypes ==
  ASSUME TypeOK, NEW j \in Jitters, NEW loss, NEW skip, NEW d \in Elapsed,
         RecordJitter(j, loss, skip, d)
  PROVE  TypeOK'
  <1> DEFINE p95 == Observed(j).cached.p95
  <1>1. j \in Nat /\ d \in Nat  BY BufferAssumption
  <1>2. \/ EvaluateStateTransition(j, p95, d)
        \/ /\ calmAge' = Aged(calmAge, d)
           /\ UNCHANGED <<mode, highCount, lowCount, p95Exceeded>>
    BY Zenon DEF RecordJitter
  <1>3. quality' \in Qualities
    BY Zenon, RatingIsQuality DEF RecordJitter
  <1>4. ApplyQualityParams(quality') \/ UNCHANGED limits
    BY Zenon DEF RecordJitter, limits
  <1>5. config.maxWait \in Nat /\ config.maxFrames \in Nat
    BY DEF TypeOK
  <1>6. maxWait' \in Nat /\ maxFrames' \in Nat
    <2>1. CASE ApplyQualityParams(quality')
      BY Zenon, <1>3, <1>5, <2>1, LimitsAreNat DEF ApplyQualityParams
    <2>2. CASE UNCHANGED limits
      BY <2>2 DEF limits, TypeOK
    <2>. QED  BY <1>4, <2>1, <2>2
  <1>7. lastLogged' = <<mode', quality'>> /\ autoMode' = autoMode /\ config' = config
    BY Zenon DEF RecordJitter
  <1>. HIDE DEF p95
  <1>8. /\ mode' \in Modes
        /\ highCount' \in 0..HighRun - 1
        /\ lowCount' \in 0..LowRun - 1
        /\ p95Exceeded' \in BOOLEAN
        /\ calmAge' \in 0..CalmPeriod \cup {Unset}
    BY Zenon, <1>1, <1>2, TransitionTypes
  <1>. QED  BY <1>3, <1>6, <1>7, <1>8 DEF TypeOK

LEMMA ResetTypes ==
  ASSUME TypeOK, Reset
  PROVE  TypeOK'
  <1>1. p95Exceeded' \in BOOLEAN  BY Zenon DEF Reset
  <1>2. autoMode' \in BOOLEAN  BY DEF Reset, TypeOK
  <1>3. /\ mode' \in Modes /\ quality' \in Qualities
        /\ lastLogged' \in Modes \X Qualities
    BY DEF Reset, Modes, Qualities
  <1>4. /\ highCount' \in 0..HighRun - 1 /\ lowCount' \in 0..LowRun - 1
        /\ calmAge' \in 0..CalmPeriod \cup {Unset}
    BY BufferAssumption DEF Reset
  <1>5. /\ config' \in [maxWait : Nat, maxFrames : Nat]
        /\ maxWait' \in Nat /\ maxFrames' \in Nat
    BY DEF Reset, TypeOK
  <1>. QED  BY Zenon, <1>1, <1>2, <1>3, <1>4, <1>5 DEF TypeOK

LEMMA InitTypes ==
  ASSUME NEW c \in [maxWait : Nat, maxFrames : Nat], InitWith(c)
  PROVE  TypeOK
  <1>1. p95Exceeded \in BOOLEAN /\ autoMode \in BOOLEAN  BY Zenon DEF InitWith
  <1>2. /\ mode \in Modes /\ quality \in Qualities
        /\ lastLogged \in Modes \X Qualities
    BY DEF InitWith, Modes, Qualities
  <1>3. /\ highCount \in 0..HighRun - 1 /\ lowCount \in 0..LowRun - 1
        /\ calmAge \in 0..CalmPeriod \cup {Unset}
    BY BufferAssumption DEF InitWith
  <1>4. /\ config \in [maxWait : Nat, maxFrames : Nat]
        /\ maxWait \in Nat /\ maxFrames \in Nat
    BY DEF InitWith
  <1>. QED  BY Zenon, <1>1, <1>2, <1>3, <1>4 DEF TypeOK

(* The fields keep their types; the two counters of jitters are never      *)
(* found at the lengths of their runs, and the age of the timestamp never  *)
(* beyond CalmPeriod (at which it may stand while the mode is fixed),      *)
(* whatever the order of RecordJitter, the accessors, Configure,           *)
(* SetFixedMode, EnableAutoMode and Reset.                                 *)
THEOREM BufferTypeCorrect == Spec => []TypeOK
<1>1. Init => TypeOK
  BY InitTypes DEF Init, DefaultConfig
<1>2. TypeOK /\ [Next]_vars => TypeOK'
  <2>. SUFFICES ASSUME TypeOK, [Next]_vars  PROVE TypeOK'
    OBVIOUS
  <2>1. CASE Sample
    BY Zenon, <2>1, SampleTypes DEF Sample
  <2>2. CASE ReadPercentile
    BY <2>2 DEF ReadPercentile, counters, limits, TypeOK
  <2>3. ASSUME NEW c \in Configs, Configure(c)  PROVE TypeOK'
    <3>1. c \in [maxWait : Nat, maxFrames : Nat]  BY BufferAssumption
    <3>. QED  BY <2>3, <3>1 DEF Configure, counters, TypeOK
  <2>4. ASSUME NEW m \in Modes, SetFixedMode(m)  PROVE TypeOK'
    BY <2>4 DEF SetFixedMode, counters, limits, TypeOK
  <2>5. CASE EnableAutoMode
    BY <2>5 DEF EnableAutoMode, counters, limits, TypeOK
  <2>6. CASE Reset
    BY <2>6, ResetTypes
  <2>7. CASE UNCHANGED vars
    BY <2>7 DEF vars, counters, limits, TypeOK
  <2>. QED  BY <2>1, <2>2, <2>3, <2>4, <2>5, <2>6, <2>7 DEF Next
<1>. QED  BY <1>1, <1>2, PTL DEF Spec
-----------------------------------------------------------------------------
(* A buffer that adds no delay and that no sample moves from there.        *)
StuckInBypass ==
  /\ mode = "bypass"
  /\ ~autoMode
  /\ maxWait = config.maxWait /\ maxFrames = config.maxFrames

LEMMA ResetStartsOver ==
  ASSUME Reset, autoMode = TRUE
  PROVE  InitWith(config)'
<1>1. "excellent" \in Qualities
  BY DEF Qualities
<1>. QED  BY Zenon, <1>1 DEF Reset, InitWith

LEMMA OnlyCallerReleases ==
  ASSUME StuckInBypass, [Next]_vars
  PROVE  StuckInBypass' \/ EnableAutoMode \/ \E m \in Modes : SetFixedMode(m)
<1>1. CASE Sample
  <2>1. PICK j \in Jitters, loss \in Losses, skip \in Skips, d \in Elapsed :
          RecordJitter(j, loss, skip, d)
    BY Zenon, <1>1 DEF Sample
  <2>2. ~Adjusts(Observed(j))
    BY Zenon DEF Adjusts, StuckInBypass
  <2>3. UNCHANGED <<mode, highCount, lowCount, p95Exceeded, limits>>
    BY Zenon, <2>1, <2>2 DEF RecordJitter
  <2>4. autoMode' = autoMode /\ config' = config
    BY Zenon, <2>1 DEF RecordJitter
  <2>. QED  BY <2>3, <2>4 DEF limits, StuckInBypass
<1>2. CASE ReadPercentile
  BY <1>2 DEF ReadPercentile, limits, StuckInBypass
<1>3. CASE \E c \in Configs : Configure(c)
  <2>1. PICK c \in Configs : Configure(c)
    BY Zenon, <1>3
  <2>2. config' = c /\ maxWait' = c.maxWait /\ maxFrames' = c.maxFrames
    BY Zenon, <2>1 DEF Configure
  <2>3. mode' = mode /\ autoMode' = autoMode
    BY <2>1 DEF Configure
  <2>. QED  BY Zenon, <2>2, <2>3 DEF StuckInBypass
<1>4. CASE Reset
  BY Zenon, <1>4 DEF Reset, StuckInBypass
<1>5. CASE UNCHANGED vars
  BY <1>5 DEF vars, limits, StuckInBypass
<1>. QED  BY Zenon, <1>1, <1>2, <1>3, <1>4, <1>5 DEF Next

(* Reset does not put back all state (its comment, line 137, says it does).*)
(* It makes an automatic buffer a new one with the present configuration,  *)
(* but after SetFixedMode it leaves a buffer in bypass that no sample, no  *)
(* Configure and no further Reset sets going again.                        *)
THEOREM ResetLeavesItOff ==
  Spec => [][/\ Reset => IF autoMode THEN InitWith(config)' ELSE StuckInBypass'
             /\ StuckInBypass => \/ StuckInBypass'
                                 \/ EnableAutoMode
                                 \/ \E m \in Modes : SetFixedMode(m)]_vars
<1>1. TypeOK /\ Reset => IF autoMode THEN InitWith(config)' ELSE StuckInBypass'
  <2>. SUFFICES ASSUME TypeOK, Reset
                PROVE  IF autoMode THEN InitWith(config)' ELSE StuckInBypass'
    OBVIOUS
  <2>1. autoMode \in BOOLEAN
    BY DEF TypeOK
  <2>2. CASE autoMode = TRUE
    BY Zenon, <2>2, ResetStartsOver
  <2>3. CASE autoMode = FALSE
    BY Zenon, <2>3 DEF Reset, StuckInBypass
  <2>. QED  BY Zenon, <2>1, <2>2, <2>3
<1>2. [Next]_vars /\ StuckInBypass =>
        StuckInBypass' \/ EnableAutoMode \/ \E m \in Modes : SetFixedMode(m)
  BY Zenon, OnlyCallerReleases
<1>. QED  BY <1>1, <1>2, BufferTypeCorrect, PTL DEF Spec
-----------------------------------------------------------------------------
(* The inductive invariant of a buffer that stays automatic.  Until        *)
(* MinSamples samples are in, the counters are not fed, and they agree     *)
(* with the evidence because they are 0.                                   *)
NotStarted ==
  /\ mode = "bypass"
  /\ highCount = 0 /\ lowCount = 0
  /\ calmAge = Unset

IInv ==
  /\ TypeOK
  /\ SeenOK
  /\ WindowOK
  /\ autoMode = TRUE
  /\ window.count < MinSamples => NotStarted
  /\ NoResidue
  /\ CountersAreEvidence
  /\ LimitsFollowQuality

LEMMA NotStartedEvidence ==
  ASSUME SeenOK, NotStarted
  PROVE  NoResidue /\ CountersAreEvidence
  BY DEF SeenOK, NotStarted, NoResidue, CountersAreEvidence

LEMMA SeenWithBounds ==
  ASSUME SeenOK, NEW j, NEW p95, NEW d \in Nat, SeenWith(j, p95, d)
  PROVE  SeenOK'
  BY SeenBounds DEF SeenWith

LEMMA SeenWithObserves ==
  ASSUME NEW j, NEW p95, NEW d \in Elapsed, SeenWith(j, p95, d), Documented!Transition
  PROVE  Documented!Next
  <1> DEFINE High(high) == highSeen' = IF high THEN Documented!Upto(HighRun, highSeen + 1) ELSE 0
             Low(low) == lowSeen' = IF low THEN Documented!Upto(LowRun, lowSeen + 1) ELSE 0
             HotRun(hot) == hotSeen' = IF hot THEN Documented!Upto(2, hotSeen + 1) ELSE 0
             CalmFor(calm) == calmFor' = IF ~calm THEN -1
                                         ELSE IF calmFor = -1 THEN 0
                                         ELSE Documented!Upto(CalmPeriod, calmFor + d)
  <1>1. High(TRUE) \/ High(FALSE)
    BY DEF SeenWith, Documented!Seen
  <1>2. Low(TRUE) \/ Low(FALSE)
    BY DEF SeenWith, Documented!Seen
  <1>3. HotRun(TRUE) \/ HotRun(FALSE)
    BY DEF SeenWith, Documented!Seen
  <1>4. CalmFor(TRUE) \/ CalmFor(FALSE)
    BY DEF SeenWith, Documented!Seen
  <1>5. \A high, low, hot, calm \in BOOLEAN :
          High(high) /\ Low(low) /\ HotRun(hot) /\ CalmFor(calm)
            => Documented!Seen(high, low, hot, calm, d)
    BY Zenon DEF Documented!Seen
  <1>. HIDE DEF High, Low, HotRun, CalmFor
  <1>6. \E high, low, hot, calm \in BOOLEAN : Documented!Seen(high, low, hot, calm, d)
    BY Zenon, <1>1, <1>2, <1>3, <1>4, <1>5
  <1>. QED  BY Zenon, <1>6 DEF Documented!Next, Documented!Observe

(* One sample keeps the invariant, and its change of mode is documented.   *)
LEMMA SampleStep ==
  ASSUME IInv, ObservedSample
  PROVE  IInv' /\ Documented!Next
  <1>1. PICK j \in Jitters, loss \in Losses, skip \in Skips, d \in Elapsed :
          /\ RecordJitter(j, loss, skip, d)
          /\ SeenWith(j, Observed(j).cached.p95, d)
    BY Zenon DEF ObservedSample
  <1> DEFINE p95 == Observed(j).cached.p95
  <1>2. j \in Nat /\ d \in Nat  BY BufferAssumption
  <1>3. TypeOK'
    BY Zenon, <1>1, SampleTypes DEF IInv
  <1>4. SeenOK'
    BY Zenon, <1>1, <1>2, SeenWithBounds DEF IInv
  <1>5. window' = Observed(j) /\ autoMode' = autoMode /\ config' = config
    BY Zenon, <1>1 DEF RecordJitter
  <1>6. WindowOK' /\ window'.count >= window.count
    BY Zenon, <1>5, ObservedCount DEF IInv, WindowOK
  <1>7. window.count \in Nat /\ window'.count \in Nat
    BY <1>6 DEF IInv, WindowOK, Fields
  <1>8. SeenWith(j, p95, d)
    BY Zenon, <1>1
  <1>9. Adjusts(Observed(j)) <=> window'.count >= MinSamples
    BY <1>5 DEF Adjusts, IInv
  <1>10. CASE Adjusts(Observed(j))
    <2>1. EvaluateStateTransition(j, p95, d) /\ ApplyQualityParams(quality')
      BY Zenon, <1>1, <1>10 DEF RecordJitter
    <2>. HIDE DEF p95
    <2>2. NoResidue' /\ CountersAreEvidence' /\ Documented!Transition
      BY Zenon, <1>2, <1>8, <2>1, TransitionEvidence DEF IInv
    <2>3. LimitsFollowQuality'
      BY Zenon, <1>5, <2>1 DEF ApplyQualityParams, LimitsFollowQuality
    <2>4. ~(window'.count < MinSamples)
      BY <1>7, <1>9, <1>10, BufferAssumption
    <2>. QED
      BY Zenon, <1>2, <1>3, <1>4, <1>5, <1>6, <1>8, <2>2, <2>3, <2>4, SeenWithObserves
      DEF IInv
  <1>11. CASE ~Adjusts(Observed(j))
    <2>1. /\ calmAge' = Aged(calmAge, d)
          /\ UNCHANGED <<mode, highCount, lowCount, p95Exceeded>>
      BY Zenon, <1>1, <1>11 DEF RecordJitter
    <2>2. window.count < MinSamples /\ ~(window'.count >= MinSamples)
      BY <1>6, <1>7, <1>9, <1>11, BufferAssumption
    <2>3. NotStarted'
      BY <2>1, <2>2 DEF NotStarted, IInv, Aged
    <2>4. NoResidue' /\ CountersAreEvidence'
      BY <1>4, <2>3 DEF SeenOK, NotStarted, NoResidue, CountersAreEvidence
    <2>5. LimitsFollowQuality'
      BY Zenon, <2>2 DEF LimitsFollowQuality
    <2>6. Documented!Transition
      BY Zenon, <2>1 DEF Documented!Transition
    <2>. QED
      BY Zenon, <1>2, <1>3, <1>4, <1>5, <1>6, <1>8, <2>3, <2>4, <2>5, <2>6, SeenWithObserves
      DEF IInv
  <1>. QED  BY <1>10, <1>11

LEMMA ReadStep ==
  ASSUME IInv, ReadPercentile, UNCHANGED history
  PROVE  IInv' /\ UNCHANGED Documented!modeVars
  <1>1. WindowOK' /\ window'.count = window.count
    BY Zenon, RefreshKeepsCount DEF IInv, WindowOK, ReadPercentile
  <1>2. UNCHANGED <<mode, quality, autoMode, counters, lastLogged, config, limits>>
    BY Zenon DEF ReadPercentile
  <1>3. TypeOK'
    BY <1>2 DEF IInv, TypeOK, counters, limits
  <1>4. SeenOK' /\ NoResidue' /\ CountersAreEvidence'
    BY <1>2 DEF IInv, SeenOK, NoResidue, CountersAreEvidence, counters, history
  <1>5. LimitsFollowQuality'
    BY Zenon, <1>1, <1>2 DEF IInv, LimitsFollowQuality, limits
  <1>6. window'.count < MinSamples => NotStarted'
    BY <1>1, <1>2 DEF IInv, NotStarted, counters
  <1>7. autoMode' = TRUE
    BY Zenon, <1>2 DEF IInv
  <1>8. UNCHANGED Documented!modeVars
    BY <1>2 DEF Documented!modeVars, history
  <1>. QED  BY Zenon, <1>1, <1>3, <1>4, <1>5, <1>6, <1>7, <1>8 DEF IInv

LEMMA ResetStep ==
  ASSUME IInv, Reset, ForgetAll
  PROVE  IInv' /\ Documented!Restart
  <1>1. TypeOK'
    BY ResetTypes DEF IInv
  <1>2. SeenOK'
    BY BufferAssumption DEF ForgetAll, SeenOK
  <1>3. NotStarted' /\ autoMode' = autoMode
    BY DEF Reset, NotStarted
  <1>4. WindowOK' /\ window'.count = 0
    BY Zenon, EmptyWindow DEF Reset, WindowOK
  <1>5. NoResidue' /\ CountersAreEvidence'
    BY <1>2, <1>3 DEF SeenOK, NotStarted, NoResidue, CountersAreEvidence
  <1>6. LimitsFollowQuality'
    BY <1>4, BufferAssumption DEF LimitsFollowQuality
  <1>7. Documented!Restart
    BY DEF Reset, ForgetAll, Documented!Restart
  <1>. QED  BY Zenon, <1>1, <1>2, <1>3, <1>4, <1>5, <1>6, <1>7 DEF IInv

LEMMA InvInit ==
  ASSUME AutoInit, NothingSeen
  PROVE  IInv /\ Documented!Init
  <1>1. PICK c \in Configs : InitWith(c)
    BY DEF AutoInit
  <1>2. c \in [maxWait : Nat, maxFrames : Nat]
    BY BufferAssumption
  <1>3. TypeOK
    BY <1>1, <1>2, InitTypes
  <1>4. SeenOK
    BY BufferAssumption DEF NothingSeen, SeenOK
  <1>5. NotStarted /\ autoMode = TRUE
    BY <1>1 DEF InitWith, NotStarted
  <1>6. WindowOK /\ window.count = 0
    BY Zenon, <1>1, EmptyWindow DEF InitWith, WindowOK
  <1>7. NoResidue /\ CountersAreEvidence
    BY <1>4, <1>5 DEF SeenOK, NotStarted, NoResidue, CountersAreEvidence
  <1>8. LimitsFollowQuality
    BY <1>6, BufferAssumption DEF LimitsFollowQuality
  <1>9. Documented!Init
    BY <1>5 DEF NothingSeen, NotStarted, Documented!Init
  <1>. QED  BY Zenon, <1>3, <1>4, <1>5, <1>6, <1>7, <1>8, <1>9 DEF IInv

LEMMA InvNext ==
  ASSUME IInv, [ObservedAutoNext]_allVars
  PROVE  IInv' /\ [Documented!Next]_(Documented!modeVars)
  <1>1. CASE ObservedSample
    BY Zenon, <1>1, SampleStep
  <1>2. CASE ReadPercentile /\ UNCHANGED history
    BY Zenon, <1>2, ReadStep
  <1>3. CASE Reset /\ ForgetAll
    BY Zenon, <1>3, ResetStep DEF Documented!Next
  <1>4. CASE UNCHANGED allVars
    <2>1. UNCHANGED <<mode, quality, autoMode, window, highCount, lowCount, p95Exceeded,
                      calmAge, lastLogged, config, maxWait, maxFrames,
                      highSeen, lowSeen, hotSeen, calmFor>>
      BY <1>4 DEF allVars, vars, counters, limits, history
    <2>2. TypeOK'
      BY <2>1 DEF IInv, TypeOK
    <2>3. SeenOK' /\ NoResidue' /\ CountersAreEvidence'
      BY <2>1 DEF IInv, SeenOK, NoResidue, CountersAreEvidence
    <2>4. WindowOK' /\ LimitsFollowQuality' /\ autoMode' = TRUE
      BY Zenon, <2>1 DEF IInv, WindowOK, LimitsFollowQuality
    <2>5. window'.count < MinSamples => NotStarted'
      BY <2>1 DEF IInv, NotStarted
    <2>6. UNCHANGED Documented!modeVars
      BY <2>1 DEF Documented!modeVars
    <2>. QED  BY Zenon, <2>2, <2>3, <2>4, <2>5, <2>6 DEF IInv
  <1>. QED  BY Zenon, <1>1, <1>2, <1>3, <1>4 DEF ObservedAutoNext

LEMMA AutoInvariant == ObservedAutoSpec => []IInv
<1>1. AutoInit /\ NothingSeen => IInv
  BY InvInit
<1>2. IInv /\ [ObservedAutoNext]_allVars => IInv'
  BY InvNext
<1>. QED  BY <1>1, <1>2, PTL DEF ObservedAutoSpec, ObservedAutoInit

(* EvaluateStateTransition clears what belongs to the mode it leaves: no   *)
(* counter, flag or timestamp of another mode is there when a mode is      *)
(* entered, for every sequence of samples, reads and resets.               *)
THEOREM ModesStartClean == ObservedAutoSpec => []NoResidue
<1>1. IInv => NoResidue
  BY DEF IInv
<1>. QED  BY <1>1, AutoInvariant, PTL

(* RecordJitter rates the network before it applies the rating: from       *)
(* MinSamples samples on the limits are those of the rating in force.      *)
THEOREM LimitsAreCurrent == ObservedAutoSpec => []LimitsFollowQuality
<1>1. IInv => LimitsFollowQuality
  BY DEF IInv
<1>. QED  BY <1>1, AutoInvariant, PTL

(* The counters, the flag and the timestamp of the class never claim more  *)
(* than the samples have shown.                                            *)
THEOREM CountersAreHonest == ObservedAutoSpec => []CountersAreEvidence
<1>1. IInv => CountersAreEvidence
  BY DEF IInv
<1>. QED  BY <1>1, AutoInvariant, PTL

(* While the buffer is automatic, every change of mode is one of the four  *)
(* documented above EvaluateStateTransition and has the evidence that is   *)
(* documented for it, whatever the lengths of the runs, the size of the    *)
(* window and its refresh interval.                                        *)
THEOREM ModesAreDocumented == ObservedAutoSpec => ImplementsDocumentedModes
<1>1. AutoInit /\ NothingSeen => Documented!Init
  BY InvInit
<1>2. IInv /\ [ObservedAutoNext]_allVars => [Documented!Next]_(Documented!modeVars)
  BY InvNext
<1>. QED
  BY <1>1, <1>2, AutoInvariant, PTL
  DEF ObservedAutoSpec, ObservedAutoInit, ImplementsDocumentedModes, Documented!Spec
-----------------------------------------------------------------------------
LEMMA Ratings ==
  ASSUME NEW base
  PROVE  /\ WaitFor("excellent", base) = Larger(20, base \div 4)
         /\ WaitFor("good", base) = base \div 2
         /\ WaitFor("fair", base) = base
         /\ WaitFor("poor", base) = 3 * base
         /\ FramesFor("excellent", base) = Larger(2, base \div 4)
         /\ FramesFor("good", base) = Larger(4, base \div 2)
         /\ FramesFor("fair", base) = base
         /\ FramesFor("poor", base) = 4 * base
  BY DEF WaitFor, FramesFor

(* The worse ApplyQualityParams finds the rating, the more it lets the     *)
(* playout buffer hold, provided that the configured base is at least      *)
(* 40 ms and 4 frames (the defaults are 80 and 8); below that the floors   *)
(* of the better ratings exceed the base.                                  *)
THEOREM WorseRatingBuffersMore ==
  ASSUME NEW wait \in Nat, wait >= 40, NEW frames \in Nat, frames >= 4
  PROVE  /\ WaitFor("excellent", wait) <= WaitFor("good", wait)
         /\ WaitFor("good", wait) <= WaitFor("fair", wait)
         /\ WaitFor("fair", wait) <= WaitFor("poor", wait)
         /\ FramesFor("excellent", frames) <= FramesFor("good", frames)
         /\ FramesFor("good", frames) <= FramesFor("fair", frames)
         /\ FramesFor("fair", frames) <= FramesFor("poor", frames)
  <1>1. /\ Larger(20, wait \div 4) <= wait \div 2
        /\ wait \div 2 <= wait
        /\ wait <= 3 * wait
    BY DEF Larger
  <1>2. /\ Larger(2, frames \div 4) <= Larger(4, frames \div 2)
        /\ Larger(4, frames \div 2) <= frames
        /\ frames <= 4 * frames
    BY DEF Larger
  <1>. QED  BY <1>1, <1>2, Ratings
-----------------------------------------------------------------------------
(* What a decision was taken on.  Nothing below depends on more of a p95   *)
(* than these two comparisons and that 0 is not hot.                       *)
Exact(w) == Stats!BuildSummary(w).p95

LEMMA ZeroIsNotHot == ~Hot(0)
  BY DEF Hot

LEMMA RefreshEveryPositive == LongAgo \in Nat /\ LongAgo >= 1
  BY BufferAssumption DEF LongAgo, Stats!RefreshEvery

(* A summary is computed from the samples alone: the flags and the cached  *)
(* summary, which are all that a refresh changes, do not matter.           *)
LEMMA RefreshKeepsExact ==
  ASSUME NEW w, w \in Fields(w)
  PROVE  Exact(Stats!Refreshed(w, FALSE)) = Exact(w)
<1> DEFINE r == Stats!Refreshed(w, FALSE)
<1>1. r.samples = w.samples /\ r.next = w.next /\ r.count = w.count /\ r.last = w.last
  BY DEF Stats!Refreshed, Fields
<1>. HIDE DEF r
<1>2. Stats!OrderedSamples(r) = Stats!OrderedSamples(w)
  BY Zenon, <1>1 DEF Stats!OrderedSamples, Stats!Segment
<1>3. Stats!BuildSummary(r) = Stats!BuildSummary(w)
  BY Zenon, <1>1, <1>2 DEF Stats!BuildSummary
<1>. QED  BY Zenon, <1>3 DEF Exact, r

LEMMA RefreshBuilds ==
  ASSUME NEW w, w \in Fields(w), ~Stats!FreshEnough(w, FALSE)
  PROVE  LET r == Stats!Refreshed(w, FALSE)
         IN  r.cached.p95 = Exact(w) /\ r.pending = 0
<1> DEFINE built == Stats!BuildSummary(w)
<1>1. Stats!Refreshed(w, FALSE) =
        [w EXCEPT !.cached = built, !.valid = TRUE, !.dirty = FALSE, !.pending = 0]
  BY Zenon DEF Stats!Refreshed
<1>. HIDE DEF built
<1>2. Stats!Refreshed(w, FALSE).cached = built /\ Stats!Refreshed(w, FALSE).pending = 0
  BY <1>1 DEF Fields
<1>. QED  BY Zenon, <1>2 DEF built, Exact

LEMMA RecordedFlags ==
  ASSUME NEW w, w \in Fields(w), w.pending \in Nat, NEW j
  PROVE  LET r == Stats!Recorded(w, j)
         IN  /\ r.dirty = TRUE
             /\ r.valid => w.valid /\ r.pending = w.pending + 1
             /\ r.cached = w.cached
             /\ r.pending \in Nat
<1> DEFINE ring == [w.samples EXCEPT ![w.next] = j]
           next == (w.next + 1) % WindowSize
           count == IF w.count < WindowSize THEN w.count + 1 ELSE w.count
           pending == w.pending + 1
<1>1. CASE WindowSize = 0
  <2>1. Stats!Recorded(w, j) =
          [w EXCEPT !.last = j, !.dirty = TRUE, !.valid = FALSE, !.pending = 0]
    BY Zenon, <1>1 DEF Stats!Recorded
  <2>. QED  BY <2>1 DEF Fields
<1>2. CASE WindowSize # 0
  <2>1. Stats!Recorded(w, j) =
          [w EXCEPT !.last = j, !.samples = ring, !.next = next, !.count = count,
                    !.dirty = TRUE, !.pending = pending]
    BY Zenon, <1>2 DEF Stats!Recorded
  <2>2. pending \in Nat
    OBVIOUS
  <2>. HIDE DEF ring, next, count, pending
  <2>3. LET r == Stats!Recorded(w, j)
        IN  /\ r.dirty = TRUE /\ r.valid = w.valid /\ r.cached = w.cached
            /\ r.pending = pending
    BY <2>1 DEF Fields
  <2>. QED  BY Zenon, <2>2, <2>3 DEF pending
<1>. QED  BY <1>1, <1>2

(* What a sample finds: the summary of before, one sample older and still  *)
(* within the interval, or the exact one.                                  *)
LEMMA ObservedReading ==
  ASSUME WindowOK, window.pending \in Nat, NEW j
  PROVE  LET o == Observed(j)
         IN  /\ o.pending \in Nat
             /\ \/ /\ window.valid
                   /\ o.cached = window.cached
                   /\ o.pending = window.pending + 1
                   /\ o.pending < LongAgo
                \/ o.cached.p95 = Exact(o) /\ o.pending = 0
<1> DEFINE r == Stats!Recorded(window, j)
<1>1. r \in Fields(r)
  BY Zenon, RecordedCount DEF WindowOK
<1>2. /\ r.dirty = TRUE
      /\ r.valid => window.valid /\ r.pending = window.pending + 1
      /\ r.cached = window.cached
      /\ r.pending \in Nat
  BY Zenon, RecordedFlags DEF WindowOK
<1>. HIDE DEF r
<1>3. Observed(j) = Stats!Refreshed(r, FALSE)
  BY Zenon DEF Observed, r
<1>4. CASE Stats!FreshEnough(r, FALSE)
  <2>1. r.valid /\ r.pending < LongAgo
    BY <1>2, <1>4 DEF Stats!FreshEnough, Stats!UpToDate, LongAgo
  <2>2. Observed(j) = r
    BY Zenon, <1>3, <1>4 DEF Stats!Refreshed
  <2>. QED  BY Zenon, <1>2, <2>1, <2>2
<1>5. CASE ~Stats!FreshEnough(r, FALSE)
  <2>1. Observed(j).cached.p95 = Exact(Observed(j)) /\ Observed(j).pending = 0
    BY Zenon, <1>1, <1>3, <1>5, RefreshBuilds, RefreshKeepsExact
  <2>. QED  BY <2>1
<1>. QED  BY <1>4, <1>5

(* The summary of no samples.                                              *)
LEMMA EmptyReadingFields ==
  ASSUME NEW last
  PROVE  [Stats!EmptySummary EXCEPT !.last = last].p95 = 0
  BY DEF Stats!EmptySummary

LEMMA EmptyReading ==
  LET w == Stats!EmptyStats
  IN  w.valid = FALSE /\ w.pending = 0 /\ Exact(w) = 0 /\ w.cached.p95 = 0
<1> DEFINE none == [i \in 0..WindowSize - 1 |-> 0]
           w == Stats!EmptyStats
<1>1. w = [samples |-> none, next |-> 0, count |-> 0, dirty |-> FALSE, valid |-> FALSE,
           pending |-> 0, cached |-> Stats!EmptySummary, last |-> 0]
  BY Zenon DEF Stats!EmptyStats
<1>. HIDE DEF none, w
<1>2. w.valid = FALSE /\ w.pending = 0 /\ w.cached = Stats!EmptySummary
      /\ w.count = 0 /\ w.next = 0
  BY <1>1
<1>3. Stats!EmptySummary.p95 = 0
  BY DEF Stats!EmptySummary
<1>4. Stats!Segment(w, 0, 0) = <<>>
  BY DEF Stats!Segment
<1>5. Stats!OrderedSamples(w) = <<>>
  <2>1. CASE 0 < WindowSize
    BY <1>2, <1>4, <2>1 DEF Stats!OrderedSamples
  <2>2. CASE ~(0 < WindowSize)
    <3>1. WindowSize = 0
      BY <2>2, BufferAssumption
    <3>2. Stats!OrderedSamples(w) = <<>> \o <<>>
      BY <1>2, <1>4, <3>1 DEF Stats!OrderedSamples
    <3>. QED  BY <3>2
  <2>. QED  BY <2>1, <2>2
<1>6. Stats!BuildSummary(w).p95 = 0
  BY Zenon, <1>5, EmptyReadingFields DEF Stats!BuildSummary, Stats!Summary
<1>. QED  BY Zenon, <1>2, <1>3, <1>6 DEF Exact, w
-----------------------------------------------------------------------------
(* The inductive invariant behind DecidesOnRecentP95: a valid summary that *)
(* would enter or leave smooth is about a window that was there at most    *)
(* pending samples ago.  For a calm summary this begins with smooth only,  *)
(* because the window of no samples is calm and no sample has shown it.    *)
HotSeen ==
  /\ window.valid /\ Hot(window.cached.p95) => sinceHot <= window.pending
  /\ Hot(Exact(window)) => sinceHot = 0

CalmRead == window.valid /\ Calm(window.cached.p95) => sinceCalm <= window.pending
CalmNow == Calm(Exact(window)) => sinceCalm = 0

EvidenceInv ==
  /\ WindowOK
  /\ window.pending \in Nat /\ sinceHot \in Nat /\ sinceCalm \in Nat
  /\ HotSeen
  /\ CalmRead \/ (mode # "smooth" /\ ~Hot(window.cached.p95))
  /\ CalmNow \/ (mode # "smooth" /\ ~Hot(Exact(window)))

LEMMA SinceCounts ==
  ASSUME NEW n \in Nat, NEW now
  PROVE  /\ Since(n, now) \in Nat
         /\ Since(n, now) <= n + 1
         /\ now => Since(n, now) = 0
  BY RefreshEveryPositive DEF Since, Documented!Upto

LEMMA WatchSteps ==
  ASSUME EvidenceInv, Watch
  PROVE  /\ sinceHot' \in Nat /\ sinceCalm' \in Nat
         /\ sinceHot' <= sinceHot + 1 /\ sinceCalm' <= sinceCalm + 1
         /\ Hot(Exact(window)') => sinceHot' = 0
         /\ Calm(Exact(window)') => sinceCalm' = 0
<1>1. sinceHot \in Nat /\ sinceCalm \in Nat
  BY DEF EvidenceInv
<1>2. /\ sinceHot' = Since(sinceHot, Hot(Exact(window)'))
      /\ sinceCalm' = Since(sinceCalm, Calm(Exact(window)'))
  <2>1. PICK p95 \in {Exact(window)'} :
          /\ sinceHot' = Since(sinceHot, Hot(p95))
          /\ sinceCalm' = Since(sinceCalm, Calm(p95))
    BY Zenon DEF Watch, Exact
  <2>2. p95 = Exact(window)'
    BY Zenon, <2>1
  <2>. QED  BY Zenon, <2>1, <2>2
<1>. QED  BY Zenon, <1>1, <1>2, SinceCounts

(* Smooth is entered on a hot reading and left on a calm one.              *)
LEMMA ChangesHaveReadings ==
  ASSUME NEW j, NEW p95, NEW d, mode \in Modes, EvaluateStateTransition(j, p95, d)
  PROVE  /\ mode # "smooth" /\ mode' = "smooth" => Hot(p95)
         /\ mode = "smooth" /\ mode' # "smooth" => Calm(p95)
<1>1. CASE mode = "bypass" /\ EvaluateBypass(j)
  BY <1>1 DEF EvaluateBypass, EnterLowLatency
<1>2. CASE mode = "low_latency" /\ EvaluateLowLatency(j, p95, d)
  BY <1>2, SMTT(20) DEF EvaluateLowLatency, Hot
<1>3. CASE mode = "smooth" /\ EvaluateSmooth(p95, d)
  BY <1>3, SMTT(20) DEF EvaluateSmooth, Calm
<1>. QED  BY <1>1, <1>2, <1>3 DEF EvaluateStateTransition

(* What one sample does to the evidence, and what a change of mode that it *)
(* makes has to show.                                                      *)
LEMMA SampleDecides ==
  ASSUME EvidenceInv, mode \in Modes, ObservedSample, Watch
  PROVE  EvidenceInv' /\ Decided
<1>1. PICK j \in Jitters, loss \in Losses, skip \in Skips, d \in Elapsed :
        RecordJitter(j, loss, skip, d)
  BY Zenon DEF ObservedSample
<1> DEFINE p95 == Observed(j).cached.p95
<1>2. window' = Observed(j)
  BY Zenon, <1>1 DEF RecordJitter
<1>3. mode' = mode \/ EvaluateStateTransition(j, p95, d)
  BY Zenon, <1>1 DEF RecordJitter
<1>4. window'.cached.p95 = p95
  BY Zenon, <1>2
<1>. HIDE DEF p95
<1>5. /\ mode # "smooth" /\ mode' = "smooth" => Hot(p95)
      /\ mode = "smooth" /\ mode' # "smooth" => Calm(p95)
  BY Zenon, <1>3, ChangesHaveReadings
<1>6. WindowOK'
  BY Zenon, <1>2, ObservedCount DEF EvidenceInv, WindowOK
<1>7. /\ window'.pending \in Nat
      /\ \/ /\ window.valid
            /\ window'.cached = window.cached
            /\ window'.pending = window.pending + 1
            /\ window'.pending < LongAgo
         \/ window'.cached.p95 = Exact(window)' /\ window'.pending = 0
  BY Zenon, <1>2, ObservedReading DEF EvidenceInv, Exact
<1>8. /\ sinceHot' \in Nat /\ sinceCalm' \in Nat
      /\ sinceHot' <= sinceHot + 1 /\ sinceCalm' <= sinceCalm + 1
      /\ Hot(Exact(window)') => sinceHot' = 0
      /\ Calm(Exact(window)') => sinceCalm' = 0
  BY Zenon, WatchSteps
<1>9. window.pending \in Nat /\ sinceHot \in Nat /\ sinceCalm \in Nat
  BY DEF EvidenceInv
<1>10. Hot(p95) => sinceHot' <= window'.pending /\ sinceHot' < LongAgo
  <2>1. CASE window.valid /\ window'.cached = window.cached
             /\ window'.pending = window.pending + 1 /\ window'.pending < LongAgo
    <3>1. Hot(p95) => sinceHot <= window.pending
      BY Zenon, <1>4, <2>1 DEF EvidenceInv, HotSeen
    <3>. QED  BY <1>7, <1>8, <1>9, <2>1, <3>1, RefreshEveryPositive
  <2>2. CASE window'.cached.p95 = Exact(window)' /\ window'.pending = 0
    <3>1. Hot(p95) => sinceHot' = 0
      BY Zenon, <1>4, <1>8, <2>2
    <3>. QED  BY <2>2, <3>1, RefreshEveryPositive
  <2>. QED  BY Zenon, <1>7, <2>1, <2>2
<1>11. Calm(p95) /\ (mode = "smooth" \/ Hot(p95))
         => sinceCalm' <= window'.pending /\ sinceCalm' < LongAgo
  <2>1. CASE window.valid /\ window'.cached = window.cached
             /\ window'.pending = window.pending + 1 /\ window'.pending < LongAgo
    <3>1. Calm(p95) /\ (mode = "smooth" \/ Hot(p95)) => sinceCalm <= window.pending
      BY Zenon, <1>4, <2>1 DEF EvidenceInv, CalmRead
    <3>. QED  BY <1>7, <1>8, <1>9, <2>1, <3>1, RefreshEveryPositive
  <2>2. CASE window'.cached.p95 = Exact(window)' /\ window'.pending = 0
    <3>1. Calm(p95) => sinceCalm' = 0
      BY Zenon, <1>4, <1>8, <2>2
    <3>. QED  BY <2>2, <3>1, RefreshEveryPositive
  <2>. QED  BY Zenon, <1>7, <2>1, <2>2
<1>12. HotSeen'
  BY Zenon, <1>4, <1>8, <1>10 DEF HotSeen, Exact
<1>13. CalmNow'
  BY Zenon, <1>8 DEF CalmNow, Exact
<1>14. CalmRead' \/ (mode' # "smooth" /\ ~Hot(window'.cached.p95))
  BY Zenon, <1>4, <1>5, <1>11 DEF CalmRead
<1>15. Decided
  BY Zenon, <1>5, <1>10, <1>11 DEF Decided
<1>. QED  BY Zenon, <1>6, <1>7, <1>8, <1>12, <1>13, <1>14, <1>15 DEF EvidenceInv

LEMMA ReadKeepsEvidence ==
  ASSUME EvidenceInv, ReadPercentile, UNCHANGED evidence
  PROVE  EvidenceInv' /\ Decided
<1>1. window' = Stats!Refreshed(window, FALSE) /\ mode' = mode
  BY Zenon DEF ReadPercentile
<1>2. sinceHot' = sinceHot /\ sinceCalm' = sinceCalm
  BY DEF evidence
<1>3. WindowOK'
  BY Zenon, <1>1, RefreshKeepsCount DEF EvidenceInv, WindowOK
<1>4. Exact(window)' = Exact(window)
  BY Zenon, <1>1, RefreshKeepsExact DEF EvidenceInv, WindowOK, Exact
<1>5. \/ window' = window
      \/ window'.cached.p95 = Exact(window) /\ window'.pending = 0
  <2>1. CASE Stats!FreshEnough(window, FALSE)
    BY Zenon, <1>1, <2>1 DEF Stats!Refreshed
  <2>2. CASE ~Stats!FreshEnough(window, FALSE)
    BY Zenon, <1>1, <2>2, RefreshBuilds DEF EvidenceInv, WindowOK
  <2>. QED  BY <2>1, <2>2
<1>6. Decided
  BY <1>1 DEF Decided
<1>7. CASE window' = window
  BY Zenon, <1>1, <1>2, <1>3, <1>4, <1>6, <1>7
  DEF EvidenceInv, HotSeen, CalmRead, CalmNow, Exact
<1>8. CASE window'.cached.p95 = Exact(window) /\ window'.pending = 0
  <2>1. 0 \in Nat /\ 0 <= 0
    OBVIOUS
  <2>2. HotSeen'
    BY Zenon, <1>2, <1>4, <1>8, <2>1 DEF EvidenceInv, HotSeen, Exact
  <2>3. CalmRead' \/ (mode' # "smooth" /\ ~Hot(window'.cached.p95))
    BY Zenon, <1>1, <1>2, <1>4, <1>8, <2>1 DEF EvidenceInv, CalmNow, CalmRead, Exact
  <2>4. CalmNow' \/ (mode' # "smooth" /\ ~Hot(Exact(window)'))
    BY Zenon, <1>1, <1>2, <1>4 DEF EvidenceInv, CalmNow, Exact
  <2>5. window'.pending \in Nat /\ sinceHot' \in Nat /\ sinceCalm' \in Nat
    BY Zenon, <1>2, <1>8, <2>1 DEF EvidenceInv
  <2>. QED  BY Zenon, <1>3, <1>6, <2>2, <2>3, <2>4, <2>5 DEF EvidenceInv, Exact
<1>. QED  BY <1>5, <1>7, <1>8

LEMMA EmptyEvidence ==
  ASSUME window = Stats!EmptyStats, mode = "bypass", sinceHot = LongAgo, sinceCalm = LongAgo
  PROVE  EvidenceInv
<1>1. /\ window.valid = FALSE /\ window.pending = 0
      /\ ~Hot(Exact(window)) /\ ~Hot(window.cached.p95)
  BY Zenon, EmptyReading, ZeroIsNotHot
<1>2. WindowOK
  BY Zenon, EmptyWindow DEF WindowOK
<1>3. mode # "smooth" /\ LongAgo \in Nat /\ 0 \in Nat
  BY RefreshEveryPositive
<1>. QED  BY Zenon, <1>1, <1>2, <1>3 DEF EvidenceInv, HotSeen

(* RecordJitter reads a summary that is refreshed lazily, but it enters    *)
(* and leaves smooth only on a p95 that the window really had within the   *)
(* last RefreshEvery samples, whatever the size of the window and the      *)
(* interval, and never on a summary from before a Reset.                   *)
THEOREM DecisionsAreRecent == EvidenceSpec => DecidesOnRecentP95
<1>1. EvidenceInit => EvidenceInv
  BY Zenon, EmptyEvidence DEF EvidenceInit, ObservedAutoInit, AutoInit, InitWith
<1>2. IInv /\ EvidenceInv /\ [EvidenceNext]_evidenceVars => EvidenceInv' /\ Decided
  <2>. SUFFICES ASSUME IInv, EvidenceInv, [EvidenceNext]_evidenceVars
                PROVE  EvidenceInv' /\ Decided
    OBVIOUS
  <2>0. mode \in Modes
    BY DEF IInv, TypeOK
  <2>1. CASE ObservedSample /\ Watch
    BY Zenon, <2>0, <2>1, SampleDecides
  <2>2. CASE ReadPercentile /\ UNCHANGED <<history, evidence>>
    BY <2>2, ReadKeepsEvidence
  <2>3. CASE Reset /\ sinceHot' = LongAgo /\ sinceCalm' = LongAgo
    <3>1. window' = Stats!EmptyStats /\ mode' = "bypass"
      BY Zenon, <2>3 DEF Reset
    <3>2. /\ window'.valid = FALSE /\ window'.pending = 0
          /\ ~Hot(Exact(window)') /\ ~Hot(window'.cached.p95)
      BY Zenon, <3>1, EmptyReading, ZeroIsNotHot DEF Exact
    <3>3. WindowOK'
      BY Zenon, <3>1, EmptyWindow DEF WindowOK
    <3>4. mode' # "smooth" /\ mode' # "low_latency" /\ LongAgo \in Nat /\ 0 \in Nat
      BY <3>1, RefreshEveryPositive
    <3>. QED
      BY Zenon, <2>3, <3>2, <3>3, <3>4 DEF EvidenceInv, HotSeen, Decided, Exact
  <2>4. CASE UNCHANGED evidenceVars
    <3>1. window' = window /\ mode' = mode /\ sinceHot' = sinceHot /\ sinceCalm' = sinceCalm
      BY <2>4 DEF evidenceVars, evidence, allVars, vars
    <3>2. Decided
      BY <3>1 DEF Decided
    <3>. QED
      BY Zenon, <3>1, <3>2
      DEF EvidenceInv, WindowOK, HotSeen, CalmRead, CalmNow, Exact
  <2>. QED  BY Zenon, <2>1, <2>2, <2>3, <2>4 DEF EvidenceNext
<1>3. EvidenceSpec => ObservedAutoSpec
  <2>1. [EvidenceNext]_evidenceVars => [ObservedAutoNext]_allVars
    <3>1. UNCHANGED evidenceVars => UNCHANGED allVars
      BY DEF evidenceVars
    <3>. QED  BY Zenon, <3>1 DEF EvidenceNext, ObservedAutoNext
  <2>. QED  BY <2>1, PTL DEF EvidenceSpec, EvidenceInit, ObservedAutoSpec
<1>. QED
  BY <1>1, <1>2, <1>3, AutoInvariant, PTL DEF EvidenceSpec, DecidesOnRecentP95
=============================================================================
