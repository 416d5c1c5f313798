------------------------ MODULE AdaptiveJitterBuffer ------------------------
(***************************************************************************)
(* AdaptiveJitterBuffer of modules/network/AdaptiveJitterBuffer.h: from    *)
(* the jitter of every frame it rates the network, walks through three     *)
(* buffering modes and derives the limits of the playout buffer.           *)
(*                                                                         *)
(* Units: jitter in tenths of a millisecond, so that the percentiles of    *)
(* LatencyStats are in microseconds; fragment loss in hundredths of a      *)
(* percent; skip rate in percent.                                          *)
(*                                                                         *)
(* now_ns is used through one difference only, so the timestamp            *)
(* _smooth_low_p95_since_ns is kept as its age, which stops growing at     *)
(* CalmPeriod where nothing tells greater ages apart.  A step of           *)
(* RecordJitter says how much time has elapsed since the previous one; the *)
(* caller's clock does not go back and is not 0.  The periodic status log  *)
(* is left out: nothing reads _last_periodic_log_ns but that log.          *)
(***************************************************************************)
EXTENDS Integers, Sequences

CONSTANTS
  WindowSize,        \* 100, first argument of _window
  SnapshotInterval,  \* 4, second argument of _window
  MinSamples,        \* 10 samples before the mode is adjusted
  HighRun,           \* 10 high jitters in a row end bypass
  LowRun,            \* 20 low jitters in a row restore bypass
  CalmPeriod,        \* 3 s of low p95 end smooth, in ticks of Elapsed
  Jitters, Losses, Skips, Elapsed,  \* arguments of RecordJitter
  Configs            \* arguments of Configure

ASSUME BufferAssumption ==
  /\ WindowSize \in Nat /\ SnapshotInterval \in Nat /\ MinSamples \in Nat \ {0}
  /\ HighRun \in Nat \ {0} /\ LowRun \in Nat \ {0} /\ CalmPeriod \in Nat \ {0}
  /\ Jitters \subseteq Nat /\ Losses \subseteq Nat /\ Skips \subseteq Nat
  /\ Elapsed \subseteq Nat
  /\ Configs \subseteq [maxWait : Nat, maxFrames : Nat]

VARIABLES
  mode,         \* _active_mode
  quality,      \* _network_quality
  autoMode,     \* _auto_mode
  window,       \* _window, a LatencyStats
  highCount,    \* _consecutive_high_jitter
  lowCount,     \* _consecutive_low_jitter
  p95Exceeded,  \* _low_to_smooth_p95_exceeded
  calmAge,      \* age of _smooth_low_p95_since_ns, Unset when that is 0
  lastLogged,   \* <<_last_logged_mode, _last_logged_quality>>
  config,       \* base_max_wait_ms and base_max_frames of _config
  maxWait,      \* _current_max_wait_ms
  maxFrames     \* _current_max_frames

counters == <<highCount, lowCount, p95Exceeded, calmAge>>
limits == <<maxWait, maxFrames>>
vars == <<mode, quality, autoMode, window, counters, lastLogged, config, limits>>

Stats == INSTANCE LatencyStats WITH
  MaxSamples <- WindowSize, SnapshotRefreshInterval <- SnapshotInterval

Modes == {"bypass", "low_latency", "smooth"}
Qualities == {"excellent", "good", "fair", "poor"}

Unset == -1
DefaultConfig == [maxWait |-> 80, maxFrames |-> 8]

Larger(a, b) == IF a > b THEN a ELSE b

(* The age, d later.                                                       *)
Aged(age, d) ==
  IF age = Unset THEN Unset
  ELSE IF age + d > CalmPeriod THEN CalmPeriod ELSE age + d

(* The constructor, and Configure(c) before anything else.  The            *)
(* constructor gives _last_logged_quality no value.                        *)
InitWith(c) ==
  /\ mode = "bypass"
  /\ quality = "excellent"
  /\ autoMode = TRUE
  /\ window = Stats!EmptyStats
  /\ highCount = 0 /\ lowCount = 0
  /\ p95Exceeded = FALSE
  /\ calmAge = Unset
  /\ \E unwritten \in Qualities : lastLogged = <<"bypass", unwritten>>
  /\ config = c
  /\ maxWait = c.maxWait /\ maxFrames = c.maxFrames

Init == InitWith(DefaultConfig)
-----------------------------------------------------------------------------
Rating(p95, loss, skip) ==
  IF p95 > 50000 \/ loss > 100 \/ skip > 5 THEN "poor"
  ELSE IF p95 > 10000 \/ loss > 10 \/ skip > 1 THEN "fair"
  ELSE IF p95 > 1000 \/ loss > 1 THEN "good"
  ELSE "excellent"

WaitFor(q, base) ==
  CASE q = "excellent" -> Larger(20, base \div 4)
    [] q = "good"      -> base \div 2
    [] q = "fair"      -> base
    [] q = "poor"      -> 3 * base

FramesFor(q, base) ==
  CASE q = "excellent" -> Larger(2, base \div 4)
    [] q = "good"      -> Larger(4, base \div 2)
    [] q = "fair"      -> base
    [] q = "poor"      -> 4 * base

(* Mutated form of ApplyQualityParams.                                    *)
AppliesOldQuality(q) ==
  /\ maxWait' = WaitFor(quality, config.maxWait)
  /\ maxFrames' = FramesFor(quality, config.maxFrames)

ApplyQualityParams(q) ==
  /\ maxWait' = WaitFor(q, config.maxWait)
  /\ maxFrames' = FramesFor(q, config.maxFrames)
-----------------------------------------------------------------------------
(* Mutated forms of the operators below, each a plausible slip.            *)
CountsEveryHighJitter(j) ==
  LET high == IF j > 10 THEN highCount + 1 ELSE highCount
  IN  /\ \/ high >= HighRun /\ mode' = "low_latency" /\ highCount' = 0
         \/ high < HighRun /\ mode' = mode /\ highCount' = high
      /\ UNCHANGED <<lowCount, p95Exceeded>>

CountsOneTooMany(j) ==
  LET high == IF j > 10 THEN highCount + 1 ELSE 0
  IN  /\ \/ high > HighRun /\ mode' = "low_latency" /\ highCount' = 0
         \/ high <= HighRun /\ mode' = mode /\ highCount' = high
      /\ UNCHANGED <<lowCount, p95Exceeded>>

KeepsTimestamp(p95, d) ==
  LET age == Aged(calmAge, d)
  IN  /\ calmAge' = IF p95 < 5000 THEN (IF age = Unset THEN 0 ELSE age) ELSE Unset
      /\ mode' = IF p95 < 5000 /\ age >= CalmPeriod THEN "low_latency" ELSE mode
      /\ UNCHANGED <<highCount, lowCount, p95Exceeded>>

RestartsTimestamp(p95, d) ==
  /\ calmAge' = IF p95 < 5000 THEN 0 ELSE Unset
  /\ mode' = IF p95 < 5000 /\ calmAge # Unset /\ d >= CalmPeriod THEN "low_latency" ELSE mode
  /\ UNCHANGED <<highCount, lowCount, p95Exceeded>>

ForgetsFirstExcess(j, p95, d) ==
  LET low == IF j < 5 THEN lowCount + 1 ELSE 0
  IN  /\ mode' = IF low >= LowRun THEN "bypass"
                 ELSE IF p95 > 10000 /\ p95Exceeded THEN "smooth" ELSE mode
      /\ lowCount' = IF low >= LowRun THEN 0 ELSE low
      /\ p95Exceeded' = FALSE
      /\ calmAge' = Aged(calmAge, d)
      /\ UNCHANGED highCount
-----------------------------------------------------------------------------
(* EvaluateStateTransition, one operator per mode.                         *)
EnterLowLatency ==
  /\ mode' = "low_latency"
  /\ highCount' = 0 /\ lowCount' = 0
  /\ p95Exceeded' = FALSE

EvaluateBypass(j) ==
  LET high == IF j > 10 THEN highCount + 1 ELSE 0
  IN  \/ high >= HighRun /\ EnterLowLatency
      \/ /\ high < HighRun
         /\ highCount' = high
         /\ UNCHANGED <<mode, lowCount, p95Exceeded>>

(* The run of low jitters is looked at first: when it is complete, the     *)
(* p95 is not.                                                             *)
EvaluateLowLatency(j, p95, d) ==
  LET low == IF j < 5 THEN lowCount + 1 ELSE 0
      Stay == lowCount' = low /\ UNCHANGED <<mode, highCount>> /\ calmAge' = Aged(calmAge, d)
  IN  \/ /\ low >= LowRun
         /\ mode' = "bypass"
         /\ highCount' = 0 /\ lowCount' = 0
         /\ UNCHANGED p95Exceeded
         /\ calmAge' = Aged(calmAge, d)
      \/ /\ low < LowRun
         /\ p95 > 10000 /\ p95Exceeded
         /\ mode' = "smooth"
         /\ highCount' = 0 /\ lowCount' = 0
         /\ p95Exceeded' = FALSE
         /\ calmAge' = Unset
      \/ low < LowRun /\ p95 > 10000 /\ ~p95Exceeded /\ p95Exceeded' = TRUE /\ Stay
      \/ low < LowRun /\ ~(p95 > 10000) /\ p95Exceeded' = FALSE /\ Stay

EvaluateSmooth(p95, d) ==
  LET age == Aged(calmAge, d)
  IN  \/ p95 < 5000 /\ age >= CalmPeriod /\ EnterLowLatency /\ calmAge' = Unset
      \/ /\ ~(p95 < 5000 /\ age >= CalmPeriod)
         /\ calmAge' = IF p95 < 5000 THEN Larger(age, 0) ELSE Unset
         /\ UNCHANGED <<mode, highCount, lowCount, p95Exceeded>>

EvaluateStateTransition(j, p95, d) ==
  \/ mode = "bypass" /\ EvaluateBypass(j) /\ calmAge' = Aged(calmAge, d)
  \/ mode = "low_latency" /\ EvaluateLowLatency(j, p95, d)
  \/ mode = "smooth" /\ EvaluateSmooth(p95, d)
-----------------------------------------------------------------------------
(* The window after one more sample and after the reads of its p95 that    *)
(* follow in the same call: the first read may refresh the summary, the    *)
(* others find it as the first one left it.                                *)
Observed(j) == Stats!Refreshed(Stats!Recorded(window, j), FALSE)

Adjusts(w) == autoMode /\ w.count >= MinSamples

(* RecordJitter(jitter_ms, loss, skip, now_ns).                            *)
RecordJitter(j, loss, skip, d) ==
  LET w == Observed(j)
      p95 == w.cached.p95
  IN  /\ window' = w
      /\ quality' = Rating(p95, loss, skip)
      /\ \/ /\ Adjusts(w)
            /\ EvaluateStateTransition(j, p95, d)
            /\ ApplyQualityParams(quality')
         \/ /\ ~Adjusts(w)
            /\ calmAge' = Aged(calmAge, d)
            /\ UNCHANGED <<mode, highCount, lowCount, p95Exceeded, limits>>
      /\ lastLogged' = <<mode', quality'>>
      /\ UNCHANGED <<autoMode, config>>

(* jitter_p95_ms(), jitter_50_ms() and TargetDelayNs(), called between two *)
(* samples: const, but the summary of the window may be refreshed.         *)
ReadPercentile ==
  /\ window' = Stats!Refreshed(window, FALSE)
  /\ UNCHANGED <<mode, quality, autoMode, counters, lastLogged, config, limits>>

Configure(c) ==
  /\ config' = c
  /\ maxWait' = c.maxWait /\ maxFrames' = c.maxFrames
  /\ UNCHANGED <<mode, quality, autoMode, window, counters, lastLogged>>

SetFixedMode(m) ==
  /\ autoMode' = FALSE
  /\ mode' = m
  /\ UNCHANGED <<quality, window, counters, lastLogged, config, limits>>

EnableAutoMode ==
  /\ autoMode' = TRUE
  /\ UNCHANGED <<mode, quality, window, counters, lastLogged, config, limits>>

Reset ==
  /\ window' = Stats!EmptyStats
  /\ mode' = "bypass"
  /\ quality' = "excellent"
  /\ highCount' = 0 /\ lowCount' = 0
  /\ p95Exceeded' = FALSE
  /\ calmAge' = Unset
  /\ lastLogged' = <<"bypass", "excellent">>
  /\ maxWait' = config.maxWait /\ maxFrames' = config.maxFrames
  /\ UNCHANGED <<autoMode, config>>
-----------------------------------------------------------------------------
Sample ==
  \E j \in Jitters, loss \in Losses, skip \in Skips, d \in Elapsed :
    RecordJitter(j, loss, skip, d)

Next ==
  \/ Sample
  \/ ReadPercentile
  \/ \E c \in Configs : Configure(c)
  \/ \E m \in Modes : SetFixedMode(m)
  \/ EnableAutoMode
  \/ Reset

Spec == Init /\ [][Next]_vars

(* A buffer that is configured before its first sample and never fixed.    *)
AutoInit == \E c \in Configs : InitWith(c)

AutoNext == Sample \/ ReadPercentile \/ Reset

AutoSpec == AutoInit /\ [][AutoNext]_vars

(* Frames keep arriving, and time passes between some of them.             *)
TimePasses ==
  \E j \in Jitters, loss \in Losses, skip \in Skips, d \in Elapsed \ {0} :
    RecordJitter(j, loss, skip, d)

FairAutoSpec == AutoSpec /\ WF_vars(TimePasses)
-----------------------------------------------------------------------------
(* Types, and a run of jitters that reaches its length has its effect in   *)
(* the same call: the counters are never found at their thresholds.        *)
TypeOK ==
  /\ mode \in Modes
  /\ quality \in Qualities
  /\ autoMode \in BOOLEAN
  /\ highCount \in 0..HighRun - 1
  /\ lowCount \in 0..LowRun - 1
  /\ p95Exceeded \in BOOLEAN
  /\ calmAge \in 0..CalmPeriod \cup {Unset}
  /\ lastLogged \in Modes \X Qualities
  /\ config \in [maxWait : Nat, maxFrames : Nat]
  /\ maxWait \in Nat /\ maxFrames \in Nat

(* Every mode is entered with a clean slate: what was counted or timed in  *)
(* another mode never shortens the evidence needed to leave this one.      *)
NoResidue ==
  /\ mode = "bypass" => lowCount = 0 /\ calmAge = Unset
  /\ mode = "low_latency" => highCount = 0 /\ calmAge = Unset
  /\ mode = "smooth" => highCount = 0 /\ lowCount = 0 /\ ~p95Exceeded

(* The limits of the playout buffer are those of the current rating and    *)
(* configuration as soon as enough samples are in, never those of the      *)
(* rating before: the rating is updated first within one call.             *)
LimitsFollowQuality ==
  window.count >= MinSamples =>
    /\ maxWait = WaitFor(quality, config.maxWait)
    /\ maxFrames = FramesFor(quality, config.maxFrames)

(* A sample of a quiet network (jitter below 0.5 ms, nothing lost), and of *)
(* a network whose jitter is above 10 ms.                                  *)
CalmSample(d) == \E j \in {x \in Jitters : x < 5} : RecordJitter(j, 0, 0, d)

RoughSample ==
  \E j \in {x \in Jitters : x > 100}, loss \in Losses, skip \in Skips, d \in Elapsed :
    RecordJitter(j, loss, skip, d)

(* Whatever mode, counters, timestamp and window earlier samples, fixed    *)
(* modes and resets have left: when the network turns quiet for good the   *)
(* buffer ends up in bypass and stays there, and when its jitter exceeds   *)
(* 10 ms for good it ends up in smooth and stays there.                    *)
SettlesInBypass ==
  /\ <>[][ReadPercentile \/ \E d \in Elapsed : CalmSample(d)]_vars
  /\ []<><<\E d \in Elapsed \ {0} : CalmSample(d)>>_vars
  /\ <>[]autoMode
  => <>[](mode = "bypass")

SettlesInSmooth ==
  /\ <>[][ReadPercentile \/ RoughSample]_vars
  /\ []<><<RoughSample>>_vars
  /\ <>[]autoMode
  => <>[](mode = "smooth")
=============================================================================
