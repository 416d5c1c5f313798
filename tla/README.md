# fastvid: a TLA+ model of the stream client's core

fastvid is a low-latency video streaming program in C++: a client
(`src/sclient`) and a server (`src/sserver`).  At this commit it consists of
header-only building blocks for the client, one logger for each side, and a
`StreamClient` whose network code is mostly still to be written.  There are no
tests and no build files; the documentation is the comments in the headers.

This directory models the building blocks that carry state and decisions,
checks them with TLC on small instances, and proves the most important
properties with TLAPS for every value of the constants.

## Inventory

| Component | State | Operations | What is hard | What makes it correct |
|---|---|---|---|---|
| `BoundedQueue<T>` (`sclient/src/common/concurrency/BoundedQueue.h`) | deque, closed flag, mutex, condition variable | `PushOrDropOldest`, `WaitPop`, `TryPop`, `Size`, `Close` | several producers and consumers; blocked, notified and spuriously woken threads; close with sleepers; a full queue | no lost wakeup; newest elements kept; each element delivered at most once, in order; close releases everyone |
| `LatencyStats` (`common/metrics/LatencyStats.h`) | ring of samples, lazily computed summary, three flags | `Record`, `Snapshot`, `average_ms`, `Format`, `Reset` | the ring wraps; a cached summary may be too old, or from before a reset | summaries are about the latest samples and at most `interval - 1` samples old; percentiles are exact |
| `AdaptiveJitterBuffer` (`modules/network/AdaptiveJitterBuffer.h`) | mode, rating, a `LatencyStats` window, two counters, a flag, a timestamp, limits | `RecordJitter`, `Configure`, `SetFixedMode`, `EnableAutoMode`, `Reset`, accessors that may refresh the window | hysteresis over long sequences of samples; counters that outlive a mode; time | mode changes have the documented evidence; modes start clean; limits follow the rating; the buffer settles |
| `RtpProtocol` (`common/net/RtpProtocol.h`) | none | write and parse RTP headers and the latency extension | lengths in words and bytes, optional parts | what is written is parsed back; nothing is read beyond the packet |
| `Protocol` (`common/protocol/Protocol.h`) | none | constants, packed wire structs, `FillMessageMagic`, `HasValidMessageMagic` | - | a filled magic is valid |
| Logger of the client and of the server (`common/log/Logger.{h,cpp}` on either side) | log file, its path, three flags, a mutex | `SetVerbose`, `CurrentLogFilePath`, `Debug`/`Info`/`Warn`/`Error` | first use by several threads; a directory or a file that cannot be made; a disk that fills up; on the server the verbosity flag is a plain `bool` | initialised once; lines of one message stay together; failure disables the file only, and leaves no gap in it; the race on the flag is harmless |
| `StreamClient` (`modules/network/StreamClient*`) | sockets, threads, queues (declared) | `Connect` has an empty body, the others no definition; `XorInto` for the parity of fragments | fragments of different length | a lost fragment is recovered |
| `types/*.h` | plain structs | none | - | - |

Interactions: `AdaptiveJitterBuffer` owns a `LatencyStats` and reads its p95
several times per sample; it calls `Logger::Info`.  `StreamClient`
declares an `AdaptiveJitterBuffer` as a member.  No code of the repository uses
`BoundedQueue` or the functions of `RtpProtocol.h` yet, so their callers are
arbitrary.

## Modules

    LossyStream            what a queue promises: a stream with two marks
    BoundedQueue           the queue, its mutex and its condition variable
    BoundedQueueProofs     theorems about it
    LatencyStats           the class as operators on the record of its fields
    LatencyStatsObject     one object, the calls on it, and what was recorded
    SumLemmas              lemmas about sums over sets, and induction up to a bound
    LatencyStatsProofs     theorems about the statistics
    AdaptiveJitterBuffer   the buffer; its window is an INSTANCE of LatencyStats
    DocumentedModes        the mode transitions as they are documented
    JitterBufferHistory    the buffer with the history the documentation needs
    JitterBufferEvidence   the buffer against the exact p95 of its window
    JitterBufferClaims     comments of the header that the code does not keep
    JitterBufferProofs     theorems about the buffer
    LogLines, MessageLog   lines of messages; what a logger promises
    Logger                 the logger, its mutex and its first use of a file
    LoggerProofs           theorems about it, the refinement of MessageLog too
    ServerLogger           the server's logger with its unprotected flag
    ServerLoggerProofs     theorems about it
    XorParity              parity of two fragments, and a theorem about it
    RtpProtocol            the functions of the header, on sequences of bytes
    RtpEndpoints           a writer and a parser with reused buffers, the network
    RtpProofs              theorems about both
    MCBoundedQueue, MCLatencyStats, MCJitterBuffer, MCJitterHistory, MCLogger,
    MCServerLogger, MCRtpEndpoints   the instances TLC checks

### BoundedQueue

Every method holds `_mutex` throughout, so each critical section is one
action.  `WaitPop` has two: the one it is called in (`WaitPop(c)`) and one each
time the thread has the mutex back after a wakeup (`Resume(c)`).  In between
the thread is in `waiting` (blocked) or in `woken` (notified, without the
mutex).  `NotifyOne` moves any one thread from `waiting` to `woken`, or does
nothing when nobody is blocked; `SpuriousWakeup` moves one without a
notification.  An element is the number of its push, so reordering, loss and
duplication show.  Calls that change nothing (a push or a `TryPop` that fails, a
null pointer) are stuttering steps and have no action.  `MaxPushes` is the only
bound in a guard.

`LossyStream` has neither deque nor condition variable: a low and a high mark,
the consumers without an answer, and what each got last.  `ImplementsStream`
maps `high` to the number of pushes, `low` to that number minus the length of
the deque, and the pending consumers to `waiting \cup woken`.

### LatencyStats

The fields of the object are a record, `Recorded`, `Refreshed` and `Cleared`
are its methods.  Samples are integers; the fraction of an interpolated
percentile has two decimals, so percentiles are exact in hundredths.  The rank
of the code is computed in floating point, where `0.95 * (n - 1)` may fall a
rounding error below an integer; interpolation then lands next to the same
value, and the model does not tell these apart.  `std::sort` is modelled by its
result (`Sorted`): every sample goes to the place its rank gives it.
`LatencyStatsObject` adds the history `recorded`; `SummaryAt(n)` is the summary the first n samples deserve.

### AdaptiveJitterBuffer

`RecordJitter` is one action in the code's order: record, refresh, rate, then
(if automatic, and `MinSamples` samples are in the window) one step of the
state machine and the limits, then the comparison for the log.  Jitter is in
tenths of a millisecond, which makes percentiles microseconds.  The timestamp
`_smooth_low_p95_since_ns` is kept as its age, which stops growing at
`CalmPeriod`; the clock does not go back and is never 0 (the only one in the
repository is `MonotonicNowNs`, which reads `CLOCK_MONOTONIC`).  The
constructor leaves `_last_logged_quality` unwritten: any rating is possible
there.  `MinSamples`, `HighRun`, `LowRun`, `CalmPeriod` and the two arguments of
the window are constants of the model (10, 10, 20, 3 s, 100 and 4 in the code),
the thresholds of jitter, loss and skip rate are the code's own.

Left out: the value of `TargetDelayNs`, the texts of the log and the periodic
status line, none of which any other method reads.

`JitterBufferHistory` counts, for every sample, what the comment above
`EvaluateStateTransition` speaks of: high and low jitters in a row, p95
readings above 10 ms in a row, the time p95 has been below 5 ms.
`DocumentedModes` says which change of mode needs what; it knows no counter of
the class.

The p95 of these readings is that of the cached summary, which is refreshed
every fourth sample only.  `JitterBufferEvidence` therefore watches the exact
p95 of the window after every sample, and `DecidesOnRecentP95` says that smooth
is entered and left on a p95 the window has had within the last four samples.
Two readings in a row may still be one summary read twice; the comment does not
say whether a reading is a sample or a summary, and the model follows the code.

### Logger

A call of `Debug`, `Info`, `Warn` or `Error` is several actions of its thread:
`Call` (the check of the level, against the flag and without the mutex),
`Enter` (the mutex and `EnsureLogFileInitialized`), and for each line
`WriteConsole` and, if the file is open, `WriteFile`; the last of them returns
and frees the mutex.  A step per stream and line shows what a process that dies
leaves behind.  `EnsureLogFileInitialized` has three outcomes, which the file
system chooses: no directory, no file, a file.  A write to the file may fail, a
full disk for example: the stream stays open, is no longer `good`, and drops
whatever comes later without a word.  `CurrentLogFilePath` holds the
mutex throughout and is one action.  A line is the number of its call, its
level and its place; the prefix is left out.  `MaxCalls` is the only bound.

`MessageLog` has neither mutex nor lines: a message is published whole, to its
console stream and to the file, at one moment between its call and its return;
if the disk fills up (`CutOff`) the file is cut at some line and nothing is
added to it any more.  `ImplementsMessageLog` takes the moment the mutex is
taken and counts the lines still to come as written.

Two remarks on the comments of the header: it says that debug messages are by
default not on the console, but `verbose` starts as true; and it says the files
are in `./logs/`, which is so unless the program is started from a directory
called `build`, whose parent then gets them.

### ServerLogger

The server's logger is the same code, statement by statement, apart from a
verbosity flag that is a plain `bool` and that threads write and read without
the mutex.  `ServerLogger` extends `Logger` with it.  To the language such a race
is undefined; modelled is what the machines do this program is built for, where
a `bool` is read whole: `values` is the sequence of the values the flag has had,
every thread has reached some place in it (`seen`) and reads any value from
there on, and taking the mutex brings a thread to the place those before it had
reached (`published`).  A compiler that kept the flag in a register across
calls is excluded, since a call takes a mutex.

`ImplementsUnswitchedLog` is the promise of the client's log without the switch:
`MessageLog` with a flag that is always true, so that which debug messages are
let through is left to the race and everything else holds as before.

`AtMostOneLate` is what makes the race bearable: when the thread that switched
debug messages off has logged anything since, or asked for the path, every
other thread lets one more through at the most.  `setter`, `told` and `late` are
history and restrict nothing.

### XorParity

`XorInto` on sequences of bytes, a byte being the set of its bits: the target
grows to the length of the source, never shrinks, and the bits are added.  The
module has no state and no run, only a theorem.

### RtpProtocol and RtpEndpoints

The functions of the header are operators on sequences of bytes, translated
field by field; `CanParse` collects the early returns of `ParseRtpHeader` in
their order.  They keep no state, but their callers reuse buffers and output
objects: `RtpEndpoints` writes and parses again and again with the same ones,
cuts datagrams at every byte, and mixes in headers of other senders with CSRC
entries, empty extensions, padding and another version.  Those are laid out by
`Layout`, which is written from RFC 3550 and not from the code.  32-bit values
stay below 2^31, where TLC's integers end, and 64-bit times are pairs.  A
payload shorter than what `ParseRtpLatencyExtension` reads is followed by
arbitrary memory.

## Runs

| Run | Checks | Bounds, and why they are enough |
|---|---|---|
| `queue_safety` | `TypeOK`, `NoLostWakeup`, `HoldsNewest`, `DeliveredInOrder`, `ImplementsStream` | 4 consumers, capacity 2, 7 pushes, consumers symmetric: more sleepers than elements, several notified at once, several drops |
| `queue_liveness` | `CloseReleasesWaiters`, `WaiterIsServed` | 3 consumers, requested capacity 0 (hence 1) |
| `queue_close` | `ClosedWaitPopFails` is violated | 2 consumers |
| `stats_ring` | `TypeOK`, `RingHoldsLatest`, `ReadersSeeRecent`, `SummaryOrdered`, `PercentilesAreExact` | ring of 4, interval 3, up to 7 samples of 3 values with unequal gaps: the ring wraps almost twice, reads fall on every phase of the interval |
| `jitter_auto` | `TypeOK`, `NoResidue`, `LimitsFollowQuality`, `CountersAreEvidence`, `ImplementsDocumentedModes`, `DecidesOnRecentP95` | runs of 2 and 4, calm period 2, window 5, interval 2: like in the code, the minimum of samples equals the run of high jitters, the run of low ones is twice that and shorter than the window, and the summary may be stale |
| `jitter_settles` | `SettlesInBypass`, `SettlesInSmooth` | all methods; runs of 2, window 2 |
| `jitter_poor`, `jitter_log` | one comment each, violated | smallest instances |
| `logger_safety` | `TypeOK`, `FileMatchesStreams`, `WarnedOnce`, `AnswersAgree`, `ImplementsMessageLog` | 3 symmetric threads, 3 messages of one or two lines, levels debug, warn and error: two threads wait while the third writes; the first use of the file races between messages and questions; the disk fills up at any line |
| `server_flag` | `ServerTypeOK`, `AtMostOneLate`, `CallsReturn`, `ImplementsUnswitchedLog` | 2 threads, 3 messages of two lines, levels debug and error, 2 writes of the flag: on, off and on again, or twice off, with a message of the writer and two of the other thread behind it; no symmetry, for the liveness |
| `rtp_headers` | `TypeOK`, `OutputsAreOfOneHeader`, `OnlyWholeHeaders`, `RoundTrip` | 2 headers with extreme values, 5 extensions (none, latency, without payload, no number of words, one word), 17 foreign headers, every cut |
| `rtp_latency` | `LatencyIsCarried` is violated | the same |

The violated comments:

* `queue_close`: `WaitPop` drains a closed queue; its comment says it returns
  false once the queue is closed.  (`ImplementsStream` states what it does.)
* `jitter_poor`: the rating never influences the mode: a network rated poor for
  its losses stays in bypass.
* `jitter_log`: the first change of rating is compared with an unwritten member.
* `rtp_latency`: `ParseRtpLatencyExtension` compares a size in bytes (16) with
  a number of words (4), so what `BuildRtpLatencyHeaderExtension` builds is
  always refused, while an extension of 4 bytes is accepted and 16 are read.

Others without a run.  `Reset` "resets all states", but leaves `_auto_mode` false
after `SetFixedMode`: the buffer is then in bypass and does not adapt.
`SettlesInBypass` and `SettlesInSmooth` suppose that the automatic mode is on for
good and say nothing of this; the theorem `ResetLeavesItOff` does.  The count of
high jitters survives `SetFixedMode` and `EnableAutoMode`, and the
samples of the fixed period do not touch it, so bypass may then be left with
fewer than ten high jitters in a row.  The status line of the jitter buffer
contains `"max_wait=" = std::to_string(...)`, which drops the text before it.
`StreamClient::Connect` flows off its end without the `bool` it promises.

`max_samples` 0 and interval 0 of `LatencyStats` have no run: the theorems
about it allow both, and `StatsTypeCorrect` shows that no slot is then touched.

`PROJECT.json` names for every property of a passing run a mutated form of a
definition under which TLC finds it violated; the mutated forms stand in the
modules under the heading "Mutated forms".

## Fairness

`FairSpec` of the queue assumes weak fairness of `Resume(c)` only: a notified
thread eventually gets the mutex, which no method keeps.  Producers, callers
and spurious wakeups are under no obligation.  For the jitter buffer nothing in
the code guarantees that frames arrive; `SettlesInBypass` and `SettlesInSmooth`
therefore carry their assumption about the network and the caller in the
formula, under `Spec` without fairness.  `FairAutoSpec` (time passes between
samples) is used for `jitter_poor` only, so that its counterexample is not a
buffer that simply gets no samples.

`FairServerSpec` of the loggers is as weak as a mutex: when it is free and
somebody waits, somebody gets it (not everybody in turn), and the thread that
holds it runs.  No thread is obliged to log.  `CallsReturn` follows because the
calls are bounded by `MaxCalls`; with calls without end a waiting thread may
starve, as it may in the code.

## Proofs

All proofs are for arbitrary constants within the named assumptions
(`QueueAssumption`, `StatsAssumption`, `ObjectAssumption`, `BufferAssumption`,
`LoggerAssumption`, `ServerAssumption`, `EndpointsAssumption`).

* Queue.  `TypeCorrect`; `NoWakeupIsLost`: `NoLostWakeup` is inductive together
  with `TypeOK`, because a push that finds a sleeper adds one element and one
  notified thread, and a notified thread leaves `woken` only with an element or
  when the queue is empty; it needs that `woken` is finite.  `KeepsNewest`,
  `DeliversInOrder` (from `HoldsNewest`: the head of the queue is newer than
  everything received) and `QueueImplementsStream`.
* Statistics.  `StatsTypeCorrect`, `RingIsWindow`, `ReadersAreRecent`.  The
  inductive invariant places every sample of the window in its slot
  (`PlacementInvariant`) and says about which prefix of the history the cached
  summary is (`CacheInvariant`).  `PercentilesOrdered` is about the pure
  function: in a sorted sequence interpolation is monotone and within bounds.
  `SummariesAgree` carries this to every summary that is shown: the ranks of a
  window are a permutation of its places (`EveryPlaceIsTaken`), so `Sorted`
  ascends (`SortedAscends`) and its ends bound the average (`AverageBounds`).
* Percentiles.  `PercentilesExact`: what the code computes with a sort and an
  index is the percentile by its definition, which counts and walks up the gaps
  between the samples.  The k-th element of `Sorted` is the one value of rank k
  (`RanksAreUnique`, `RankedIsSorted`), and the sum over the gaps is the point
  that interpolation names (`WalkReaches`): the gaps before it count in full,
  one in part, those behind it not at all.  Sums over finite sets are proved
  about in `SumLemmas`; where such a proof needs an induction it takes a
  smallest counterexample (`MinimalCounterexample`, `LeastElement`), since the
  induction theorems of the library have an operator as a parameter.
* Jitter buffer.  `BufferTypeCorrect` under all methods: the counters stay below
  the lengths of their runs, and the age of the timestamp, which goes on growing
  while a mode is fixed, never passes `CalmPeriod`.  `ResetLeavesItOff`: `Reset`
  makes an automatic buffer a new one, but one whose mode was fixed is left in
  bypass, and `StuckInBypass` holds on until the caller calls `EnableAutoMode` or
  `SetFixedMode` (`OnlyCallerReleases`).  For an automatic
  buffer, `IInv` joins types, the shape of the window, `NoResidue`,
  `CountersAreEvidence`, `LimitsFollowQuality` and the fact that before
  `MinSamples` samples everything is still 0 (without which an idle counter
  could exceed the run that was seen).  From it follow `ModesStartClean`,
  `LimitsAreCurrent`, `CountersAreHonest` and the refinement
  `ModesAreDocumented`.  A p95 reading is an arbitrary value in these proofs.
  In `DecisionsAreRecent` it is not: `EvidenceInv` bounds the number of samples
  since the exact p95 was as hot as the cached one by the samples that are
  pending, and likewise for a calm one while smooth may be left; a refresh comes
  before there are too many of them.
  `WorseRatingBuffersMore`: limits grow as the rating gets worse, given a base of
  at least 40 ms and 4 frames; below, the floors reverse the order (an excellent
  network then gets 20 ms although a good one gets half the base).
* Logger.  `LoggerTypeCorrect`; `PathIsSettled` from `DecidedOnce`: before the
  initialisation nobody has an answer, after it a path is there exactly if a
  file is, and neither changes any more.  `WarnsOnce` from `WarnedOK`: the
  warning stands at one place of stderr once the flag is set, and a line of a
  message is never the warning.
* Logger and `MessageLog`.  `LoggerImplementsLog`: the first step of a message
  with the mutex is `Publish`, a write to a stream is no step since the line
  moves from those to come to those written (`LineGoesOver`), and a write to
  the file that fails is `CutOff`, whose missing lines are all of the message
  hand.  The invariant (`Inv`) adds that messages on their way are all
  different, without which publishing one would remove two, and that the file
  goes bad only while it is open.
* The log file.  `FileFollowsConsole` is about places and not about sequences
  that were filtered: every line of the file stands in its stream at the place
  that counts the lines of that stream up to it.  A line that goes to both
  moves both counts (`BothGrow`), one that only the console got is the line in
  hand (`LineIsMissing`), and before the initialisation nothing was written at
  all (`NothingYet`).
* Logger of the server.  The lemmas about the client's logger are stated for
  any step of it that may begin a message whatever the flag says (`AnyStep`),
  and every step of the server is one (`ServerStep`).  Hence
  `ServerFileFollowsConsole`, `ServerDecidesOnce` and `ServerImplementsLog`: the
  race on the flag harms nothing but the flag.
* The flag of the server.  `ServerTypeCorrect` and `OneLateAtMost`.  The inductive
  invariant (`LateOK`) says why one message is all: the setter knows the last
  value of the flag, hence after its turn with the mutex so does whoever takes
  the mutex next; a thread that let a debug message through either is still on
  its way to the mutex, and cannot call again, or has been there.
* RTP.  `TypeCorrect`, `OneHeaderAtATime`, `WholeHeadersOnly` and
  `WrittenIsParsed`, for all fields, extensions below 65536 words, CSRC lists,
  media and cuts.  Numbers are read back from their bytes (`Be16`, `Be32`),
  from wherever the bytes lie in a longer sequence (`JoinedReads`); hence a
  datagram that begins with a header is accepted exactly when all of the header
  is left, and yields its parts (`ParsedHeader`), and `WriteRtpHeader` lays its
  parts out as any other sender does (`WrittenHeader`).  The invariant (`IInv`
  of `RtpProofs`) says that the buffer is such a layout and that the outputs
  are parts of the headers they are said to come from.
* RTP, beyond the runs.  `LatencyArrivesAndIsRefused`: the finding of
  `rtp_latency` holds for all timestamps, fields and media, and only the test of
  the length is at fault, since the bytes that arrive hold the timestamps.
  `LongExtensionIsCut`: an extension of 65536 words or more is written and
  accepted, but parsed into a beginning of itself, and the rest passes for
  media.
* Parity.  `LostFragmentIsRecovered`: for all fragments of all lengths.  If the
  lost one is the shorter, zeros follow it up to the length of the other.

Every safety property that a passing run checks is thus stated by a theorem.
Only model-checked are the five liveness properties, `CloseReleasesWaiters`,
`WaiterIsServed`, `SettlesInBypass`, `SettlesInSmooth` and `CallsReturn`, which
depend on fairness and on what is enabled or follow behaviours to their end.
The theorems about refinements are about safety alone, as the abstract
specifications are.

## Not modelled

Texts and formats of log lines, floating-point rounding, the plain structs of
`types/`, the constants and the two magic functions of `Protocol.h` (whatever
could be said of them holds by definition), and `StreamClient` apart from
`XorInto`: its header declares reassembly, NACK and a reordering buffer, but no
body exists to translate.

## Plan

A pipeline that composes `BoundedQueue` with `AdaptiveJitterBuffer`, when
`StreamClient` gets the code that connects them.
