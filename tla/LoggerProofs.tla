---------------------------- MODULE LoggerProofs ----------------------------
(***************************************************************************)
(* Theorems about Logger, for any set of threads, any messages and any     *)
(* number of calls.                                                        *)
(***************************************************************************)
EXTENDS Logger, SequenceTheorems, FiniteSetTheorems, TLAPS

(* The number of lines of a message in hand.                               *)
LEMMA MessageLines ==
  ASSUME TypeOK, NEW t \in Threads
  PROVE  /\ message[t] \in Messages
         /\ message[t].lines \in Nat
         /\ message[t] # Idle => message[t].lines >= 1
<1>1. message[t] \in Messages
  BY DEF TypeOK
<1>2. CASE message[t] = Idle
  BY <1>1, <1>2 DEF Idle
<1>3. CASE message[t] # Idle
  <2>1. message[t] \in [call : 1..MaxCalls, level : Levels, lines : LineCounts]
    BY <1>1, <1>3 DEF Messages
  <2>2. message[t].lines \in LineCounts
    BY <2>1
  <2>3. \A n \in LineCounts : n \in Nat /\ n >= 1
    BY LoggerAssumption
  <2>. QED  BY Zenon, <1>1, <2>2, <2>3
<1>. QED  BY <1>2, <1>3

(* Who holds the mutex is in a message.                                    *)
LEMMA HolderIsBusy ==
  ASSUME TypeOK, NEW t \in Threads, message[t] = Idle
  PROVE  holder # t
<1>. SUFFICES ASSUME holder = t PROVE FALSE
  OBVIOUS
<1>1. Idle.lines = 0 /\ t # Nobody
  BY LoggerAssumption DEF Idle
<1>2. line \in 1..0
  BY Zenon, <1>1 DEF TypeOK
<1>. QED  BY <1>2

LEMMA InitializedTypes ==
  ASSUME TypeOK, EnsureLogFileInitialized
  PROVE  /\ initialized' = TRUE
         /\ warned' \in BOOLEAN /\ path' \in Nat /\ open' \in BOOLEAN
         /\ initialized => UNCHANGED fileState /\ stderr' = stderr
<1>1. CASE initialized
  BY Zenon, <1>1 DEF TypeOK, EnsureLogFileInitialized, fileState
<1>2. CASE ~initialized
  <2>1. calls + 1 \in Nat /\ NoPath \in Nat
    BY LoggerAssumption DEF TypeOK, NoPath
  <2>. QED  BY Zenon, <1>2, <2>1 DEF TypeOK, EnsureLogFileInitialized, Warn
<1>. QED  BY <1>1, <1>2

LEMMA AdvanceTypes ==
  ASSUME TypeOK, NEW t \in Threads, holder = t, Advance(t)
  PROVE  /\ message' \in [Threads -> Messages]
         /\ holder' \in Threads \cup {Nobody}
         /\ line' \in Nat
         /\ holder' = Nobody => line' = 1
         /\ holder' # Nobody => line' \in 1..message'[holder'].lines
<1>1. CASE line < message[t].lines
  <2>1. line # message[t].lines /\ line + 1 \in 1..message[t].lines
    BY <1>1, MessageLines DEF TypeOK
  <2>2. line' = line + 1 /\ holder' = t /\ message' = message
    BY Zenon, <2>1 DEF Advance
  <2>3. t # Nobody /\ line + 1 \in Nat
    BY LoggerAssumption DEF TypeOK
  <2>. QED  BY Zenon, <2>1, <2>2, <2>3 DEF TypeOK
<1>2. CASE ~(line < message[t].lines)
  <2>1. line' = 1 /\ holder' = Nobody /\ message' = [message EXCEPT ![t] = Idle]
    BY <1>2 DEF Advance
  <2>2. Idle \in Messages
    BY DEF Messages
  <2>. QED  BY <2>1, <2>2 DEF TypeOK
<1>. QED  BY <1>1, <1>2

LEMMA TypesAtStart == Init => TypeOK
<1>. SUFFICES ASSUME Init PROVE TypeOK
  OBVIOUS
<1>1. message \in [Threads -> Messages]
  BY DEF Init, Messages
<1>2. path \in Nat /\ calls \in 0..MaxCalls /\ line \in Nat
  BY LoggerAssumption DEF Init, NoPath
<1>. QED  BY Zenon, <1>1, <1>2 DEF Init, TypeOK

(* The steps of Next, those of Log without the check of the level.         *)
AnyStep ==
  \/ \E b \in BOOLEAN : SetVerbose(b)
  \/ \E t \in Threads :
       \/ \E level \in Levels, lines \in LineCounts : Begin(t, level, lines)
       \/ Enter(t) \/ Write(t) \/ CurrentLogFilePath(t)
  \/ UNCHANGED vars

LEMMA EveryStep == [Next]_vars => AnyStep
  BY Zenon DEF Next, AnyStep, Call

LEMMA StepKeepsTypes == TypeOK /\ AnyStep => TypeOK'
<1>. SUFFICES ASSUME TypeOK, AnyStep PROVE TypeOK'
  OBVIOUS
<1>1. ASSUME NEW b \in BOOLEAN, SetVerbose(b) PROVE TypeOK'
  BY Zenon, <1>1 DEF SetVerbose, TypeOK, fileState, streams, progress
<1>2. ASSUME NEW t \in Threads, NEW level \in Levels, NEW lines \in LineCounts,
             Begin(t, level, lines)
      PROVE  TypeOK'
  <2>1. calls + 1 \in 1..MaxCalls /\ calls' \in 0..MaxCalls
    BY <1>2, LoggerAssumption DEF Begin, TypeOK
  <2>. DEFINE m == [call |-> calls + 1, level |-> level, lines |-> lines]
  <2>2. m \in Messages
    BY <2>1 DEF Messages
  <2>3. message' = [message EXCEPT ![t] = m] /\ message' \in [Threads -> Messages]
    BY <1>2, <2>2 DEF Begin, TypeOK
  <2>4. holder # Nobody => message'[holder] = message[holder]
    <3>1. holder # Nobody => message[holder] # Idle
      <4>. SUFFICES ASSUME holder # Nobody, message[holder] = Idle PROVE FALSE
        OBVIOUS
      <4>1. Idle.lines = 0
        BY DEF Idle
      <4>2. line \in 1..0
        BY Zenon, <4>1 DEF TypeOK
      <4>. QED  BY <4>2
    <3>. QED  BY <1>2, <2>3, <3>1 DEF Begin, TypeOK
  <2>. QED  BY Zenon, <1>2, <2>1, <2>3, <2>4 DEF Begin, TypeOK, fileState, streams, progress
<1>3. ASSUME NEW t \in Threads, Enter(t) PROVE TypeOK'
  <2>1. line = 1 /\ message[t].lines \in Nat /\ message[t].lines >= 1
    BY <1>3, MessageLines DEF Enter, TypeOK
  <2>2. 1 \in 1..message[t].lines
    BY <2>1
  <2>3. holder' = t /\ t # Nobody
    BY <1>3, LoggerAssumption DEF Enter
  <2>4. EnsureLogFileInitialized
    BY Zenon, <1>3 DEF Enter
  <2>. QED
    BY Zenon, <1>3, <2>1, <2>2, <2>3, <2>4, InitializedTypes DEF Enter, TypeOK, progress
<1>4. ASSUME NEW t \in Threads, WriteConsole(t) PROVE TypeOK'
  <2>1. holder = t /\ t # Nobody /\ initialized
    BY <1>4, LoggerAssumption DEF WriteConsole, TypeOK
  <2>2. CASE open
    BY Zenon, <1>4, <2>1, <2>2 DEF WriteConsole, TypeOK, fileState
  <2>3. CASE ~open
    <3>1. Advance(t)
      BY Zenon, <1>4, <2>3 DEF WriteConsole
    <3>2. ~fileDue /\ fileDue' = fileDue
      BY Zenon, <1>4, <2>3 DEF WriteConsole
    <3>3. UNCHANGED <<verbose, fileState, good, calls>>
      BY Zenon, <1>4 DEF WriteConsole
    <3>. QED  BY Zenon, <2>1, <3>1, <3>2, <3>3, AdvanceTypes DEF TypeOK, fileState
  <2>. QED  BY <2>2, <2>3
<1>5. ASSUME NEW t \in Threads, WriteFile(t) PROVE TypeOK'
  <2>1. holder = t /\ t # Nobody /\ initialized /\ Advance(t)
    BY <1>5, LoggerAssumption DEF WriteFile, TypeOK
  <2>. QED  BY Zenon, <1>5, <2>1, AdvanceTypes DEF WriteFile, TypeOK, fileState
<1>6. ASSUME NEW t \in Threads, CurrentLogFilePath(t) PROVE TypeOK'
  <2>1. EnsureLogFileInitialized
    BY Zenon, <1>6 DEF CurrentLogFilePath
  <2>. QED  BY Zenon, <1>6, <2>1, InitializedTypes DEF CurrentLogFilePath, TypeOK, progress
<1>7. CASE UNCHANGED vars
  BY Zenon, <1>7 DEF vars, TypeOK, fileState, streams, progress
<1>. QED  BY Zenon, <1>1, <1>2, <1>3, <1>4, <1>5, <1>6, <1>7 DEF AnyStep, Write

(* No two threads are between taking and freeing the mutex, the holder is  *)
(* at a line of its message, and a line is due for the file only while it  *)
(* is open.                                                                *)
THEOREM LoggerTypeCorrect == Spec => []TypeOK
<1>. QED  BY EveryStep, TypesAtStart, StepKeepsTypes, PTL DEF Spec
-----------------------------------------------------------------------------
(* Before the initialisation nobody has warned, opened or answered; after  *)
(* it there is a path exactly if there is a file, and nothing of this      *)
(* changes any more.                                                       *)
DecidedOnce ==
  /\ ~initialized => ~warned /\ ~open /\ path = NoPath /\ answers = {}
  /\ path # NoPath <=> open
  /\ \A p \in answers : p = path

LEMMA InitializedOnce ==
  ASSUME TypeOK, DecidedOnce, EnsureLogFileInitialized
  PROVE  /\ path' # NoPath <=> open'
         /\ answers # {} => path' = path
<1>1. (path # NoPath => open) /\ (open => path # NoPath)
  BY Zenon DEF DecidedOnce
<1>2. CASE initialized
  <2>1. path' = path /\ open' = open
    BY Zenon, <1>2 DEF EnsureLogFileInitialized, fileState
  <2>. QED  BY Zenon, <1>1, <2>1
<1>3. CASE ~initialized
  <2>1. calls + 1 # NoPath
    BY LoggerAssumption DEF TypeOK, NoPath
  <2>2. ~open /\ path = NoPath /\ answers = {}
    BY Zenon, <1>3 DEF DecidedOnce
  <2>3. \/ path' = path /\ open' = open
        \/ path' = NoPath /\ open' = FALSE
        \/ path' = calls + 1 /\ open' = TRUE
    BY Zenon, <1>3 DEF EnsureLogFileInitialized
  <2>4. CASE path' = path /\ open' = open
    BY Zenon, <2>2, <2>4
  <2>5. CASE path' = NoPath /\ open' = FALSE
    BY Zenon, <2>2, <2>5
  <2>6. CASE path' = calls + 1 /\ open' = TRUE
    BY Zenon, <2>1, <2>2, <2>6
  <2>. QED  BY Zenon, <2>3, <2>4, <2>5, <2>6
<1>. QED  BY <1>2, <1>3

LEMMA DecidedOnceStep == TypeOK /\ DecidedOnce /\ AnyStep => DecidedOnce'
<1>. SUFFICES ASSUME TypeOK, DecidedOnce, AnyStep PROVE DecidedOnce'
  OBVIOUS
<1>1. CASE UNCHANGED <<fileState, answers>>
  BY Zenon, <1>1 DEF DecidedOnce, fileState
<1>2. ASSUME NEW t \in Threads, Enter(t) PROVE DecidedOnce'
  <2>1. EnsureLogFileInitialized /\ answers' = answers
    BY Zenon, <1>2 DEF Enter
  <2>. QED  BY Zenon, <2>1, InitializedOnce, InitializedTypes DEF DecidedOnce
<1>3. ASSUME NEW t \in Threads, CurrentLogFilePath(t) PROVE DecidedOnce'
  <2>1. EnsureLogFileInitialized /\ answers' = answers \cup {path'}
    BY Zenon, <1>3 DEF CurrentLogFilePath
  <2>. QED  BY Zenon, <2>1, InitializedOnce, InitializedTypes DEF DecidedOnce
<1>4. ASSUME NEW t \in Threads, WriteConsole(t) \/ WriteFile(t)
      PROVE  UNCHANGED <<fileState, answers>>
  BY Zenon, <1>4 DEF WriteConsole, WriteFile
<1>5. ASSUME NEW t \in Threads, NEW level \in Levels, NEW lines \in LineCounts,
             Begin(t, level, lines)
      PROVE  UNCHANGED <<fileState, answers>>
  BY Zenon, <1>5 DEF Begin
<1>6. ASSUME NEW b \in BOOLEAN, SetVerbose(b) PROVE UNCHANGED <<fileState, answers>>
  BY Zenon, <1>6 DEF SetVerbose
<1>7. CASE UNCHANGED vars
  BY Zenon, <1>1, <1>7 DEF vars
<1>. QED  BY Zenon, <1>1, <1>2, <1>3, <1>4, <1>5, <1>6, <1>7 DEF AnyStep, Write

LEMMA DecidedAtStart == Init => DecidedOnce
BY Zenon DEF Init, DecidedOnce

LEMMA DecidedAnswers == DecidedOnce => AnswersAgree
BY Zenon DEF DecidedOnce, AnswersAgree

(* Whoever asks for the path of the log file, at whatever time and in      *)
(* whatever race to initialise it, gets the same answer, and a name only   *)
(* if there is a file.                                                     *)
THEOREM PathIsSettled == Spec => []AnswersAgree
BY DecidedAnswers, EveryStep, DecidedAtStart, DecidedOnceStep, LoggerTypeCorrect, PTL DEF Spec
-----------------------------------------------------------------------------
(* The places of stderr where the warning stands.                          *)
Line == [call : Nat, level : Levels \cup {"error"}, number : Nat]

Warnings(s) == {i \in DOMAIN s : s[i] = Warning}

LEMMA WarningsAppended ==
  ASSUME NEW s \in Seq(Line), NEW l \in Line
  PROVE  /\ Append(s, l) \in Seq(Line)
         /\ l # Warning => Warnings(Append(s, l)) = Warnings(s)
         /\ l = Warning /\ Warnings(s) = {} => Warnings(Append(s, l)) = {Len(s) + 1}
<1>1. /\ Append(s, l) \in Seq(Line)
      /\ DOMAIN s = 1..Len(s) /\ DOMAIN Append(s, l) = 1..Len(s) + 1 /\ Len(s) \in Nat
      /\ \A i \in 1..Len(s) : Append(s, l)[i] = s[i]
      /\ Append(s, l)[Len(s) + 1] = l
  BY AppendProperties, LenProperties
<1> DEFINE a == Append(s, l)
<1> HIDE DEF a
<1>2. CASE l # Warning
  <2>1. \A i \in DOMAIN a : a[i] = Warning => i \in DOMAIN s /\ s[i] = Warning
    BY <1>1, <1>2 DEF a
  <2>2. \A i \in DOMAIN s : i \in DOMAIN a /\ a[i] = s[i]
    BY <1>1 DEF a
  <2>3. Warnings(a) = Warnings(s)
    BY Zenon, <2>1, <2>2 DEF Warnings
  <2>. QED  BY Zenon, <1>1, <1>2, <2>3 DEF a
<1>3. CASE l = Warning
  <2>1. ASSUME Warnings(s) = {} PROVE Warnings(a) = {Len(s) + 1}
    <3>1. \A i \in DOMAIN s : s[i] # Warning
      BY Zenon, <2>1 DEF Warnings
    <3>2. \A i \in DOMAIN a : a[i] = Warning <=> i = Len(s) + 1
      BY <1>1, <1>3, <3>1 DEF a
    <3>3. Len(s) + 1 \in DOMAIN a
      BY <1>1 DEF a
    <3>. QED  BY Zenon, <3>2, <3>3 DEF Warnings
  <2>. QED  BY Zenon, <1>1, <1>3, <2>1 DEF a
<1>. QED  BY Zenon, <1>2, <1>3

(* The warning is on stderr once if the flag says so and not at all        *)
(* otherwise, and the flag is set exactly if there is no file after the    *)
(* initialisation.                                                         *)
WarnedOK ==
  /\ stderr \in Seq(Line)
  /\ warned => initialized /\ ~open
  /\ initialized /\ ~open => warned
  /\ ~warned => Warnings(stderr) = {}
  /\ warned => \E k : Warnings(stderr) = {k}

LEMMA InitializedWarns ==
  ASSUME TypeOK, DecidedOnce, WarnedOK, EnsureLogFileInitialized
  PROVE  WarnedOK'
<1>1. CASE initialized
  <2>1. UNCHANGED <<initialized, warned, open, stderr>>
    BY Zenon, <1>1 DEF EnsureLogFileInitialized, fileState
  <2>. QED  BY Zenon, <2>1 DEF WarnedOK
<1>2. CASE ~initialized
  <2>1. ~warned /\ ~open /\ initialized' = TRUE
    BY Zenon, <1>2 DEF EnsureLogFileInitialized, DecidedOnce
  <2>2. CASE Warn /\ ~open'
    <3>1. stderr' = Append(stderr, Warning) /\ warned' = TRUE
      BY Zenon, <2>1, <2>2 DEF Warn
    <3>2. Warning \in Line
      BY DEF Warning, Line
    <3>3. stderr' \in Seq(Line) /\ \E k : Warnings(stderr') = {k}
      BY Zenon, <2>1, <3>1, <3>2, WarningsAppended DEF WarnedOK
    <3>. QED  BY Zenon, <2>1, <2>2, <3>1, <3>3 DEF WarnedOK, Warnings
  <2>3. CASE warned' = warned /\ open' = TRUE /\ stderr' = stderr
    BY Zenon, <2>1, <2>3 DEF WarnedOK, Warnings
  <2>4. (Warn /\ ~open') \/ (warned' = warned /\ open' = TRUE /\ stderr' = stderr)
    BY Zenon, <1>2, <2>1 DEF EnsureLogFileInitialized
  <2>. QED  BY Zenon, <2>2, <2>3, <2>4
<1>. QED  BY Zenon, <1>1, <1>2

LEMMA WarnedOKStep == TypeOK /\ DecidedOnce /\ WarnedOK /\ AnyStep => WarnedOK'
<1>. SUFFICES ASSUME TypeOK, DecidedOnce, WarnedOK, AnyStep PROVE WarnedOK'
  OBVIOUS
<1>1. CASE UNCHANGED <<fileState, stderr>>
  BY Zenon, <1>1 DEF WarnedOK, Warnings, fileState
<1>2. ASSUME NEW t \in Threads, Enter(t) \/ CurrentLogFilePath(t) PROVE WarnedOK'
  <2>1. EnsureLogFileInitialized
    BY Zenon, <1>2 DEF Enter, CurrentLogFilePath
  <2>. QED  BY Zenon, <2>1, InitializedWarns
<1>3. ASSUME NEW t \in Threads, WriteConsole(t) PROVE WarnedOK'
  <2>1. UNCHANGED fileState
    BY Zenon, <1>3 DEF WriteConsole
  <2>2. CASE stderr' = stderr
    BY Zenon, <1>1, <2>1, <2>2
  <2>3. CASE stderr' = Append(stderr, LineOf(message[t], line))
    <3>1. message[t] # Idle /\ message[t] \in Messages
      BY Zenon, <1>3, HolderIsBusy DEF WriteConsole, TypeOK
    <3>2. message[t] \in [call : 1..MaxCalls, level : Levels, lines : LineCounts]
      BY Zenon, <3>1 DEF Messages
    <3>3. LineOf(message[t], line) \in Line /\ LineOf(message[t], line).call # Warning.call
      BY <3>2, LoggerAssumption DEF LineOf, Line, Warning, TypeOK
    <3>4. LineOf(message[t], line) # Warning
      BY Zenon, <3>3
    <3>5. stderr' \in Seq(Line) /\ Warnings(stderr') = Warnings(stderr)
      BY Zenon, <2>3, <3>3, <3>4, WarningsAppended DEF WarnedOK
    <3>. QED  BY Zenon, <2>1, <3>5 DEF WarnedOK, Warnings, fileState
  <2>. QED  BY Zenon, <1>3, <2>2, <2>3 DEF WriteConsole
<1>4. ASSUME NEW t \in Threads, WriteFile(t) PROVE UNCHANGED <<fileState, stderr>>
  BY Zenon, <1>4 DEF WriteFile
<1>5. ASSUME NEW t \in Threads, NEW level \in Levels, NEW lines \in LineCounts,
             Begin(t, level, lines)
      PROVE  UNCHANGED <<fileState, stderr>>
  BY Zenon, <1>5 DEF Begin, streams
<1>6. ASSUME NEW b \in BOOLEAN, SetVerbose(b) PROVE UNCHANGED <<fileState, stderr>>
  BY Zenon, <1>6 DEF SetVerbose, streams
<1>7. CASE UNCHANGED vars
  BY Zenon, <1>1, <1>7 DEF vars, streams
<1>. QED  BY Zenon, <1>1, <1>2, <1>3, <1>4, <1>5, <1>6, <1>7 DEF AnyStep, Write

LEMMA WarnedAtStart == Init => WarnedOK
<1>. SUFFICES ASSUME Init PROVE WarnedOK
  OBVIOUS
<1>1. stderr \in Seq(Line) /\ Warnings(stderr) = {}
  BY DEF Init, Warnings
<1>. QED  BY Zenon, <1>1 DEF Init, WarnedOK

LEMMA WarnedIsOnce == WarnedOK => WarnedOnce
<1>. SUFFICES ASSUME WarnedOK PROVE WarnedOnce
  OBVIOUS
<1>1. CASE warned
  <2>1. PICK k : Warnings(stderr) = {k}
    BY Zenon, <1>1 DEF WarnedOK
  <2>2. Cardinality(Warnings(stderr)) = 1
    BY Zenon, <2>1, FS_Singleton
  <2>. QED  BY Zenon, <1>1, <2>2 DEF WarnedOK, WarnedOnce, Warnings
<1>2. CASE ~warned
  <2>1. Cardinality(Warnings(stderr)) = 0
    BY Zenon, <1>2, FS_EmptySet DEF WarnedOK
  <2>. QED  BY Zenon, <1>2, <2>1 DEF WarnedOK, WarnedOnce, Warnings
<1>. QED  BY Zenon, <1>1, <1>2

(* That there is no log file is said on stderr exactly once, by whichever  *)
(* thread ran into it, and is not said if there is one.                    *)
THEOREM WarnsOnce == Spec => []WarnedOnce
BY WarnedIsOnce, EveryStep, DecidedAtStart, DecidedOnceStep, WarnedAtStart, WarnedOKStep,
   LoggerTypeCorrect, PTL DEF Spec
-----------------------------------------------------------------------------
(* Logger implements MessageLog: a step maps to the one action of          *)
(* MessageLog it stands for, or to no step.                                *)
Message == [call : 1..MaxCalls, level : Levels, lines : LineCounts]

LEMMA FieldsOfMessage ==
  ASSUME NEW m \in Message
  PROVE  m.lines \in Nat /\ m.lines >= 1 /\ m.call \in Nat /\ m.call >= 1 /\ m.level \in Levels
<1>1. m.lines \in LineCounts /\ m.call \in 1..MaxCalls /\ m.level \in Levels
  BY DEF Message
<1>2. \A n \in LineCounts : n \in Nat /\ n >= 1
  BY LoggerAssumption
<1>3. \A c \in 1..MaxCalls : c \in Nat /\ c >= 1
  BY LoggerAssumption
<1>. QED  BY Zenon, <1>1, <1>2, <1>3

(* The lines of a message from one on are that line and the lines behind   *)
(* it, and all of them are lines of the message.                           *)
LEMMA LinesOfMessage ==
  ASSUME NEW m \in Message, NEW n \in 1..m.lines
  PROVE  /\ LineOf(m, n) \in Line
         /\ LinesFrom(m, n) \in Seq(Line)
         /\ LinesFrom(m, n + 1) \in Seq(Line)
         /\ Len(LinesFrom(m, n)) = m.lines - n + 1
         /\ \A i \in 1..m.lines - n + 1 : LinesFrom(m, n)[i].call = m.call
         /\ n = m.lines => LinesFrom(m, n + 1) = <<>>
<1>1. m.lines \in Nat /\ m.call \in Nat /\ m.level \in Levels
  BY Zenon, FieldsOfMessage
<1>2. \A k \in Nat : LineOf(m, k) \in Line /\ LineOf(m, k).call = m.call
  BY <1>1 DEF LineOf, Line
<1>3. ASSUME NEW k \in 1..m.lines + 1
      PROVE  /\ LinesFrom(m, k) \in Seq(Line)
             /\ Len(LinesFrom(m, k)) = m.lines - k + 1
             /\ \A i \in 1..m.lines - k + 1 : LinesFrom(m, k)[i].call = m.call
  <2>1. m.lines - k + 1 \in Nat
    BY <1>1
  <2>2. \A i \in 1..m.lines - k + 1 : k + i - 1 \in Nat
    BY <1>1
  <2>3. \A i \in 1..m.lines - k + 1 : LinesFrom(m, k)[i] = LineOf(m, k + i - 1)
    BY DEF LinesFrom
  <2>4. \A i \in 1..m.lines - k + 1 : LinesFrom(m, k)[i] \in Line /\ LinesFrom(m, k)[i].call = m.call
    BY Zenon, <1>2, <2>2, <2>3
  <2>5. LinesFrom(m, k) \in [1..m.lines - k + 1 -> Line]
    BY <2>4 DEF LinesFrom
  <2>. QED  BY <2>1, <2>4, <2>5
<1>4. n \in 1..m.lines + 1 /\ n + 1 \in 1..m.lines + 1
  BY <1>1
<1>5. n = m.lines => LinesFrom(m, n + 1) = <<>>
  <2>. SUFFICES ASSUME n = m.lines PROVE LinesFrom(m, n + 1) = <<>>
    OBVIOUS
  <2>1. LinesFrom(m, n + 1) \in Seq(Line) /\ Len(LinesFrom(m, n + 1)) = 0
    BY <1>1, <1>3, <1>4
  <2>. QED  BY <2>1
<1>6. LineOf(m, n) \in Line
  BY <1>1, <1>2
<1>. QED  BY Zenon, <1>3, <1>4, <1>5, <1>6

LEMMA LineGoesOver ==
  ASSUME NEW m \in Message, NEW n \in 1..m.lines, NEW s \in Seq(Line)
  PROVE  /\ Append(s, LineOf(m, n)) \in Seq(Line)
         /\ s \o LinesFrom(m, n) = Append(s, LineOf(m, n)) \o LinesFrom(m, n + 1)
<1> DEFINE rest == LinesFrom(m, n + 1)
           all == LinesFrom(m, n)
           first == LineOf(m, n)
<1>1. m.lines \in Nat /\ n \in Nat /\ n >= 1 /\ n <= m.lines
  BY FieldsOfMessage
<1>2. first \in Line /\ all \in Seq(Line) /\ rest \in Seq(Line) /\ Len(all) = m.lines - n + 1
  BY Zenon, LinesOfMessage
<1>3. Len(rest) = m.lines - n
  BY <1>1 DEF LinesFrom
<1>4. \A i \in 1..m.lines - n + 1 : all[i] = LineOf(m, n + i - 1)
  BY DEF LinesFrom
<1>5. \A i \in 1..m.lines - n : rest[i] = LineOf(m, n + i)
  BY <1>1 DEF LinesFrom
<1>6. all[1] = first /\ \A i \in 1..m.lines - n : all[i + 1] = rest[i]
  BY <1>1, <1>4, <1>5
<1> HIDE DEF rest, all, first
<1>7. Append(s, first) \in Seq(Line) /\ Append(s, first) = s \o <<first>>
  BY <1>2, AppendProperties, AppendIsConcat
<1>8. <<first>> \o rest = all
  <2>1. <<first>> \in Seq(Line) /\ Len(<<first>>) = 1 /\ <<first>>[1] = first
    BY <1>2
  <2>2. <<first>> \o rest \in Seq(Line) /\ Len(<<first>> \o rest) = 1 + Len(rest)
    BY <1>2, <2>1, ConcatProperties
  <2>3. \A i \in 1..Len(all) : (<<first>> \o rest)[i] = IF i <= 1 THEN first ELSE rest[i - 1]
    <3>1. Len(all) = 1 + Len(rest) /\ Len(rest) \in Nat
      BY <1>1, <1>2, <1>3
    <3>. QED  BY <1>2, <2>1, <3>1, ConcatProperties
  <2>4. \A i \in 1..Len(all) : (<<first>> \o rest)[i] = all[i]
    <3>1. ASSUME NEW i \in 1..Len(all) PROVE (IF i <= 1 THEN first ELSE rest[i - 1]) = all[i]
      <4>1. CASE i = 1
        BY <1>6, <4>1
      <4>2. CASE i # 1
        <5>1. i - 1 \in 1..m.lines - n /\ (i - 1) + 1 = i
          BY <1>1, <1>2, <4>2
        <5>2. all[(i - 1) + 1] = rest[i - 1]
          BY <1>6, <5>1
        <5>. QED  BY <5>1, <5>2
      <4>. QED  BY <4>1, <4>2
    <3>. QED  BY Zenon, <2>3, <3>1
  <2>5. Len(<<first>> \o rest) = Len(all)
    BY <1>1, <1>2, <1>3, <2>2
  <2>. QED  BY Zenon, <1>2, <2>2, <2>4, <2>5, SeqEqual
<1>9. s \o all = (s \o <<first>>) \o rest
  <2>1. <<first>> \in Seq(Line)
    BY <1>2
  <2>2. (s \o <<first>>) \o rest = s \o (<<first>> \o rest)
    BY <1>2, <2>1, ConcatAssociative
  <2>. QED  BY <1>8, <2>2
<1>. QED  BY <1>7, <1>9 DEF rest, all, first
-----------------------------------------------------------------------------
(* What is written are lines; the file goes bad only while it is open; no  *)
(* two messages on their way are the same, for their calls differ.         *)
MessagesApart ==
  /\ \A t \in Threads : message[t].call \in Nat /\ message[t].call <= calls
  /\ \A t, u \in Threads : t # u /\ message[t] # Idle => message[t] # message[u]

Written ==
  /\ stdout \in Seq(Line) /\ file \in Seq(Line)
  /\ ~open => good

Inv == TypeOK /\ DecidedOnce /\ WarnedOK /\ MessagesApart /\ Written

LEMMA BusyMessage ==
  ASSUME TypeOK, NEW t \in Threads, message[t] # Idle
  PROVE  message[t] \in Message
BY Zenon DEF TypeOK, Messages, Message

LEMMA HolderMessage ==
  ASSUME TypeOK, NEW t \in Threads, holder = t
  PROVE  message[t] \in Message /\ line \in 1..message[t].lines /\ t # Nobody
<1>1. message[t] # Idle
  BY Zenon, HolderIsBusy
<1>2. t # Nobody
  BY LoggerAssumption
<1>. QED  BY Zenon, <1>1, <1>2, BusyMessage DEF TypeOK

LEMMA AdvanceKeepsApart ==
  ASSUME TypeOK, MessagesApart, NEW t \in Threads, Advance(t), calls' = calls
  PROVE  MessagesApart'
<1>1. CASE message' = message
  BY Zenon, <1>1 DEF MessagesApart
<1>2. CASE message' = [message EXCEPT ![t] = Idle]
  <2>1. Idle.call = 0
    BY DEF Idle
  <2>2. \A u \in Threads : message'[u] = IF u = t THEN Idle ELSE message[u]
    BY Zenon, <1>2 DEF TypeOK
  <2>3. 0 \in Nat /\ 0 <= calls
    BY LoggerAssumption DEF TypeOK
  <2>4. \A u \in Threads : message'[u].call \in Nat /\ message'[u].call <= calls
    BY Zenon, <2>1, <2>2, <2>3 DEF MessagesApart
  <2>5. \A u, v \in Threads : u # v /\ message'[u] # Idle => message'[u] # message'[v]
    BY Zenon, <2>2 DEF MessagesApart
  <2>. QED  BY Zenon, <2>4, <2>5 DEF MessagesApart
<1>. QED  BY Zenon, <1>1, <1>2 DEF Advance

LEMMA BeginKeepsApart ==
  ASSUME TypeOK, MessagesApart, NEW t \in Threads, NEW level \in Levels,
         NEW lines \in LineCounts, Begin(t, level, lines)
  PROVE  MessagesApart'
<1> DEFINE m == [call |-> calls + 1, level |-> level, lines |-> lines]
<1>1. m.call = calls + 1
  OBVIOUS
<1>2. message' = [message EXCEPT ![t] = m] /\ calls' = calls + 1
  BY Zenon DEF Begin
<1> HIDE DEF m
<1>3. \A u \in Threads : message'[u] = IF u = t THEN m ELSE message[u]
  BY Zenon, <1>2 DEF TypeOK
<1>4. \A c \in Nat : c <= calls => c <= calls + 1 /\ c # calls + 1
  BY LoggerAssumption DEF TypeOK
<1>5. calls + 1 \in Nat /\ calls + 1 <= calls + 1
  BY LoggerAssumption DEF TypeOK
<1>6. ASSUME NEW u \in Threads
      PROVE  message'[u].call \in Nat /\ message'[u].call <= calls'
  <2>1. CASE u = t
    BY Zenon, <1>1, <1>2, <1>3, <1>5, <2>1
  <2>2. CASE u # t
    <3>1. message'[u] = message[u] /\ message[u].call \in Nat /\ message[u].call <= calls
      BY Zenon, <1>3, <2>2 DEF MessagesApart
    <3>. QED  BY Zenon, <1>2, <1>4, <3>1
  <2>. QED  BY Zenon, <2>1, <2>2
<1>7. \A u \in Threads : message[u] # m
  BY Zenon, <1>1, <1>4 DEF MessagesApart
<1>8. \A u, v \in Threads : u # v /\ message'[u] # Idle => message'[u] # message'[v]
  BY Zenon, <1>3, <1>7 DEF MessagesApart
<1>. QED  BY Zenon, <1>6, <1>8 DEF MessagesApart

LEMMA InvAtStart == Init => Inv
<1>. SUFFICES ASSUME Init PROVE Inv
  OBVIOUS
<1>1. \A t \in Threads : message[t] = Idle
  BY DEF Init
<1>2. calls = 0 /\ Idle.call = 0 /\ 0 \in Nat /\ 0 <= 0
  BY DEF Init, Idle
<1>3. MessagesApart
  BY Zenon, <1>1, <1>2 DEF MessagesApart
<1>4. <<>> \in Seq(Line)
  OBVIOUS
<1>5. Written
  BY Zenon, <1>4 DEF Init, Written
<1>. QED  BY Zenon, <1>3, <1>5, TypesAtStart, DecidedAtStart, WarnedAtStart DEF Inv

LEMMA InvStep == Inv /\ AnyStep => Inv'
<1>. SUFFICES ASSUME Inv, AnyStep PROVE Inv'
  OBVIOUS
<1>0. TypeOK /\ DecidedOnce /\ WarnedOK /\ MessagesApart /\ Written
  BY Zenon DEF Inv
<1>2. TypeOK' /\ DecidedOnce' /\ WarnedOK'
  BY Zenon, <1>0, StepKeepsTypes, DecidedOnceStep, WarnedOKStep
<1>3. ASSUME UNCHANGED <<message, calls>> PROVE MessagesApart'
  BY Zenon, <1>0, <1>3 DEF MessagesApart
<1>4. ASSUME UNCHANGED <<stdout, file, good, open>> PROVE Written'
  BY Zenon, <1>0, <1>4 DEF Written
<1>5. ASSUME NEW t \in Threads, NEW level \in Levels, NEW lines \in LineCounts,
             Begin(t, level, lines)
      PROVE  MessagesApart' /\ Written'
  <2>1. UNCHANGED <<stdout, file, good, open>>
    BY Zenon, <1>5 DEF Begin, streams, fileState
  <2>. QED  BY Zenon, <1>0, <1>4, <1>5, <2>1, BeginKeepsApart
<1>6. ASSUME NEW t \in Threads, Enter(t) \/ CurrentLogFilePath(t)
      PROVE  MessagesApart' /\ Written'
  <2>1. EnsureLogFileInitialized /\ UNCHANGED <<message, calls, stdout, file, good>>
    BY Zenon, <1>6 DEF Enter, CurrentLogFilePath
  <2>2. ~open' => ~open
    BY Zenon, <1>0, <2>1 DEF EnsureLogFileInitialized, DecidedOnce, fileState
  <2>. QED  BY Zenon, <1>0, <1>3, <2>1, <2>2 DEF Written
<1>7. ASSUME NEW t \in Threads, WriteConsole(t) PROVE MessagesApart' /\ Written'
  <2>1. message[t] \in Message /\ line \in 1..message[t].lines
    BY Zenon, <1>0, <1>7, HolderMessage DEF WriteConsole
  <2>2. UNCHANGED <<file, good, open, calls>>
    BY Zenon, <1>7 DEF WriteConsole, fileState
  <2>3. stdout' \in Seq(Line)
    BY Zenon, <1>0, <1>7, <2>1, LineGoesOver DEF WriteConsole, Written
  <2>4. message' = message \/ Advance(t)
    BY Zenon, <1>7 DEF WriteConsole
  <2>. QED  BY Zenon, <1>0, <1>3, <2>2, <2>3, <2>4, AdvanceKeepsApart DEF Written
<1>8. ASSUME NEW t \in Threads, WriteFile(t) PROVE MessagesApart' /\ Written'
  <2>1. message[t] \in Message /\ line \in 1..message[t].lines
    BY Zenon, <1>0, <1>8, HolderMessage DEF WriteFile
  <2>2. Advance(t) /\ UNCHANGED <<stdout, calls>> /\ open'
    BY Zenon, <1>0, <1>8 DEF WriteFile, TypeOK, fileState
  <2>3. file' \in Seq(Line)
    BY Zenon, <1>0, <1>8, <2>1, LineGoesOver DEF WriteFile, Written
  <2>. QED  BY Zenon, <1>0, <2>2, <2>3, AdvanceKeepsApart DEF Written
<1>9. ASSUME (\E b \in BOOLEAN : SetVerbose(b)) \/ UNCHANGED vars
      PROVE  MessagesApart' /\ Written'
  BY Zenon, <1>3, <1>4, <1>9 DEF SetVerbose, vars, streams, fileState
<1>. QED
  BY Zenon, <1>2, <1>5, <1>6, <1>7, <1>8, <1>9 DEF AnyStep, Inv, Write
-----------------------------------------------------------------------------
(* What the mapping says of the streams while nobody holds the mutex.      *)
LEMMA NothingInHand ==
  ASSUME holder = Nobody
  PROVE  InHand = <<>> /\ ForConsole(TRUE) = <<>> /\ ForConsole(FALSE) = <<>>
BY Zenon DEF InHand, ForConsole

LEMMA FullWhenFree ==
  ASSUME Inv, holder = Nobody
  PROVE  FullStdout = stdout /\ FullStderr = stderr /\ FullFile = file
<1>1. stdout \in Seq(Line) /\ stderr \in Seq(Line) /\ file \in Seq(Line)
  BY Zenon DEF Inv, Written, WarnedOK
<1>2. stdout \o <<>> = stdout /\ stderr \o <<>> = stderr /\ file \o <<>> = file
  BY <1>1
<1>. QED  BY Zenon, <1>2, NothingInHand DEF FullStdout, FullStderr, FullFile

(* The initialisation, wherever it happens, is the decision and its        *)
(* warning.                                                                *)
LEMMA InitializationDecides ==
  ASSUME Inv, EnsureLogFileInitialized, good' = good
  PROVE  /\ Promised!Decide
         /\ stderr' = stderr \o Promised!WarningDue
         /\ Filing' = "on" <=> open' /\ good'
<1>1. TypeOK /\ DecidedOnce /\ WarnedOK /\ Written
  BY Zenon DEF Inv
<1>2. initialized' = TRUE
  BY Zenon, <1>1, InitializedTypes
<1>3. Filing' = "on" <=> open' /\ good'
  BY <1>2 DEF Filing
<1>4. stderr \o <<>> = stderr
  BY <1>1 DEF WarnedOK
<1>5. CASE initialized
  <2>1. UNCHANGED <<open, stderr>>
    BY Zenon, <1>5 DEF EnsureLogFileInitialized, fileState
  <2>2. Filing' = Filing /\ Filing # "unknown"
    BY <1>2, <1>5, <2>1 DEF Filing
  <2>3. Promised!WarningDue = <<>>
    BY Zenon, <2>2 DEF Promised!WarningDue
  <2>. QED  BY Zenon, <1>3, <1>4, <2>1, <2>2, <2>3 DEF Promised!Decide
<1>6. CASE ~initialized
  <2>1. Filing = "unknown" /\ ~warned /\ ~open /\ good
    BY Zenon, <1>1, <1>6 DEF Filing, DecidedOnce, Written
  <2>2. CASE open' /\ stderr' = stderr
    <3>1. Filing' = "on" /\ Filing' # "off"
      BY <1>2, <2>1, <2>2 DEF Filing
    <3>2. Promised!WarningDue = <<>>
      BY Zenon, <3>1 DEF Promised!WarningDue
    <3>. QED  BY Zenon, <1>3, <1>4, <2>1, <2>2, <3>1, <3>2 DEF Promised!Decide
  <2>3. CASE ~open' /\ stderr' = Append(stderr, Warning)
    <3>1. Filing' = "off"
      BY <1>2, <2>3 DEF Filing
    <3>2. Promised!WarningDue = <<Promised!Warning>>
      BY Zenon, <2>1, <3>1 DEF Promised!WarningDue
    <3>3. Promised!Warning = Warning /\ Warning \in Line
      BY DEF Promised!Warning, Warning, Line
    <3>4. Append(stderr, Warning) = stderr \o <<Warning>>
      BY <1>1, <3>3, AppendIsConcat DEF WarnedOK
    <3>. QED  BY Zenon, <1>3, <2>1, <2>3, <3>1, <3>2, <3>3, <3>4 DEF Promised!Decide
  <2>4. (open' /\ stderr' = stderr) \/ (~open' /\ stderr' = Append(stderr, Warning))
    BY Zenon, <1>6, <2>1 DEF EnsureLogFileInitialized, Warn
  <2>. QED  BY Zenon, <2>2, <2>3, <2>4
<1>. QED  BY Zenon, <1>5, <1>6

(* A message on its way to the mutex is one the log has accepted.          *)
LEMMA BeginAccepts ==
  ASSUME Inv, NEW t \in Threads, NEW level \in Levels, NEW lines \in LineCounts,
         Begin(t, level, lines)
  PROVE  /\ calls < MaxCalls /\ calls' = calls + 1 /\ verbose' = verbose
         /\ Waiting' = Waiting \cup {[call |-> calls + 1, level |-> level, lines |-> lines]}
         /\ UNCHANGED <<Filing, FullStdout, FullStderr, FullFile>>
<1> DEFINE m == [call |-> calls + 1, level |-> level, lines |-> lines]
<1>1. TypeOK
  BY Zenon DEF Inv
<1>2. m # Idle
  <2>1. m.call = calls + 1 /\ Idle.call = 0 /\ calls + 1 # 0
    BY <1>1, LoggerAssumption DEF TypeOK, Idle
  <2>. QED  BY Zenon, <2>1
<1>3. holder # t
  BY Zenon, <1>1, HolderIsBusy DEF Begin
<1>4. message[t] = Idle /\ message' = [message EXCEPT ![t] = m]
  BY Zenon DEF Begin
<1>5. calls < MaxCalls /\ calls' = calls + 1
  BY Zenon DEF Begin
<1>6. UNCHANGED <<verbose, fileState, streams, holder, progress>>
  BY Zenon DEF Begin
<1> HIDE DEF m
<1>7. \A u \in Threads : message'[u] = IF u = t THEN m ELSE message[u]
  BY Zenon, <1>1, <1>4 DEF TypeOK
<1>8. Waiting' = Waiting \cup {m}
  <2>1. ASSUME NEW x \in Waiting' PROVE x \in Waiting \cup {m}
    <3>1. PICK u \in Threads : message'[u] # Idle /\ u # holder /\ x = message'[u]
      BY Zenon, <1>6, <2>1 DEF Waiting
    <3>. QED  BY Zenon, <1>7, <3>1 DEF Waiting
  <2>2. ASSUME NEW x \in Waiting PROVE x \in Waiting'
    <3>1. PICK u \in Threads : message[u] # Idle /\ u # holder /\ x = message[u]
      BY Zenon, <2>2 DEF Waiting
    <3>2. message'[u] = message[u]
      BY Zenon, <1>4, <1>7, <3>1
    <3>. QED  BY Zenon, <1>6, <3>1, <3>2 DEF Waiting
  <2>3. m \in Waiting'
    BY Zenon, <1>2, <1>3, <1>6, <1>7 DEF Waiting
  <2>. QED  BY Zenon, <2>1, <2>2, <2>3
<1>9. InHand' = InHand /\ ForConsole(TRUE)' = ForConsole(TRUE) /\ ForConsole(FALSE)' = ForConsole(FALSE)
  <2>1. holder # Nobody => message'[holder] = message[holder]
    BY Zenon, <1>1, <1>3, <1>7 DEF TypeOK
  <2>. QED  BY Zenon, <1>6, <2>1 DEF InHand, ForConsole, progress
<1>10. UNCHANGED <<Filing, FullStdout, FullStderr, FullFile>>
  BY Zenon, <1>6, <1>9 DEF Filing, FullStdout, FullStderr, FullFile, fileState, streams
<1>. QED  BY Zenon, <1>5, <1>6, <1>8, <1>10 DEF m

LEMMA EnterPublishes ==
  ASSUME Inv, NEW t \in Threads, Enter(t)
  PROVE  message[t] \in Waiting /\ Promised!Publish(message[t])
<1> DEFINE m == message[t]
           all == LinesFrom(m, 1)
<1>1. TypeOK /\ MessagesApart /\ Written /\ stderr \in Seq(Line)
  BY Zenon DEF Inv, WarnedOK
<1>2. /\ holder = Nobody /\ m # Idle /\ holder' = t /\ EnsureLogFileInitialized
      /\ UNCHANGED <<verbose, stdout, file, good, message, progress, calls>>
  BY Zenon DEF Enter
<1>3. line' = 1 /\ ~fileDue' /\ t # Nobody
  BY Zenon, <1>1, <1>2, LoggerAssumption DEF TypeOK, progress
<1>4. m \in Message /\ Promised!LinesFrom(m, 1) = all
  <2>1. Promised!LinesFrom(m, 1) = all
    BY DEF Promised!LinesFrom, Promised!LineOf, LinesFrom, LineOf
  <2>. QED  BY Zenon, <1>1, <1>2, <2>1, BusyMessage
<1>5. m \in Waiting /\ Waiting' = Waiting \ {m}
  <2>1. m \in Waiting
    BY Zenon, <1>2, <1>3 DEF Waiting
  <2>2. ASSUME NEW x \in Waiting' PROVE x \in Waiting /\ x # m
    <3>1. PICK u \in Threads : message[u] # Idle /\ u # t /\ x = message[u]
      BY Zenon, <1>2, <2>2 DEF Waiting
    <3>2. u # Nobody
      BY Zenon, <3>1, LoggerAssumption
    <3>. QED  BY Zenon, <1>1, <1>2, <3>1, <3>2 DEF Waiting, MessagesApart
  <2>3. ASSUME NEW x \in Waiting, x # m PROVE x \in Waiting'
    <3>1. PICK u \in Threads : message[u] # Idle /\ x = message[u]
      BY Zenon, <2>3 DEF Waiting
    <3>. QED  BY Zenon, <1>2, <2>3, <3>1 DEF Waiting
  <2>. QED  BY Zenon, <2>1, <2>2, <2>3
<1> HIDE DEF all
<1>6. /\ InHand' = all
      /\ m.level = "error" => ForConsole(TRUE)' = all /\ ForConsole(FALSE)' = <<>>
      /\ m.level # "error" => ForConsole(TRUE)' = <<>> /\ ForConsole(FALSE)' = all
  BY Zenon, <1>2, <1>3 DEF InHand, ForConsole, all
<1> HIDE DEF m
<1>7. FullStdout = stdout /\ FullStderr = stderr /\ FullFile = file
  BY Zenon, <1>2, FullWhenFree
<1>8. /\ Promised!Decide
      /\ stderr' = stderr \o Promised!WarningDue
      /\ Filing' = "on" <=> open' /\ good'
  BY Zenon, <1>2, InitializationDecides
<1>9. FullFile' = IF Filing' = "on" THEN file \o all ELSE file
  BY Zenon, <1>2, <1>6, <1>8 DEF FullFile
<1>10. stdout \o <<>> = stdout /\ stderr' \o <<>> = stderr'
  <2>1. stderr' \in Seq(Line)
    BY Zenon, <1>2, InitializedWarns DEF Inv, WarnedOK
  <2>. QED  BY <1>1, <2>1 DEF Written
<1>11. CASE m.level = "error"
  <2>1. FullStdout' = stdout /\ FullStderr' = (stderr \o Promised!WarningDue) \o all
    BY Zenon, <1>2, <1>6, <1>8, <1>10, <1>11 DEF FullStdout, FullStderr
  <2>. QED
    BY Zenon, <1>2, <1>4, <1>5, <1>7, <1>8, <1>9, <1>11, <2>1 DEF Promised!Publish, m
<1>12. CASE m.level # "error"
  <2>1. FullStdout' = stdout \o all /\ FullStderr' = stderr \o Promised!WarningDue
    BY Zenon, <1>2, <1>6, <1>8, <1>10, <1>12 DEF FullStdout, FullStderr
  <2>. QED
    BY Zenon, <1>2, <1>4, <1>5, <1>7, <1>8, <1>9, <1>12, <2>1 DEF Promised!Publish, m
<1>. QED  BY Zenon, <1>11, <1>12

LEMMA AskingDecides ==
  ASSUME Inv, NEW t \in Threads, CurrentLogFilePath(t)
  PROVE  Promised!DecideOnly
<1>1. /\ holder = Nobody /\ EnsureLogFileInitialized
      /\ UNCHANGED <<verbose, stdout, file, good, holder, message, progress, calls>>
  BY Zenon DEF CurrentLogFilePath
<1>2. stdout \in Seq(Line) /\ file \in Seq(Line) /\ stderr' \in Seq(Line)
  BY Zenon, <1>1, InitializedWarns DEF Inv, Written, WarnedOK
<1>3. stdout \o <<>> = stdout /\ stderr' \o <<>> = stderr' /\ file \o <<>> = file
  BY <1>2
<1>4. InHand' = <<>> /\ ForConsole(TRUE)' = <<>> /\ ForConsole(FALSE)' = <<>>
  BY Zenon, <1>1 DEF InHand, ForConsole
<1>5. FullStdout' = stdout /\ FullStderr' = stderr' /\ FullFile' = file /\ Waiting' = Waiting
  BY Zenon, <1>1, <1>3, <1>4 DEF FullStdout, FullStderr, FullFile, Waiting
<1>6. FullStdout = stdout /\ FullStderr = stderr /\ FullFile = file
  BY Zenon, <1>1, FullWhenFree
<1>7. Promised!Decide /\ stderr' = stderr \o Promised!WarningDue
  BY Zenon, <1>1, InitializationDecides
<1>. QED  BY Zenon, <1>1, <1>5, <1>6, <1>7 DEF Promised!DecideOnly
-----------------------------------------------------------------------------
(* The lines for the two streams: those of the message from one on, all    *)
(* for the stream of its level.                                            *)
ToConsole(level, lines, out, err) ==
  IF level = "error" THEN err = lines /\ out = <<>> ELSE out = lines /\ err = <<>>

(* After the holder's turn come the lines behind this one, none if it was  *)
(* the last.                                                               *)
LEMMA AdvanceLeavesRest ==
  ASSUME Inv, NEW t \in Threads, holder = t, Advance(t), ~fileDue'
  PROVE  /\ Waiting' = Waiting
         /\ InHand' = LinesFrom(message[t], line + 1)
         /\ ToConsole(message[t].level, LinesFrom(message[t], line + 1),
                      ForConsole(FALSE)', ForConsole(TRUE)')
<1> DEFINE rest == LinesFrom(message[t], line + 1)
<1>1. TypeOK
  BY Zenon DEF Inv
<1>2. message[t] \in Message /\ line \in 1..message[t].lines /\ t # Nobody
  BY Zenon, <1>1, HolderMessage
<1>3. CASE line < message[t].lines
  <2>1. line # message[t].lines
    BY <1>2, <1>3, FieldsOfMessage
  <2>2. line' = line + 1 /\ UNCHANGED <<holder, message>>
    BY Zenon, <2>1 DEF Advance
  <2>. QED  BY Zenon, <1>2, <2>2 DEF Waiting, InHand, ForConsole, ToConsole
<1>4. CASE line = message[t].lines
  <2>1. ~(line < message[t].lines)
    BY <1>2, <1>4, FieldsOfMessage
  <2>2. holder' = Nobody /\ message' = [message EXCEPT ![t] = Idle]
    BY Zenon, <2>1 DEF Advance
  <2>3. rest = <<>>
    BY Zenon, <1>2, <1>4, LinesOfMessage
  <2>4. \A u \in Threads : message'[u] = IF u = t THEN Idle ELSE message[u]
    BY Zenon, <1>1, <2>2 DEF TypeOK
  <2>5. Waiting' = Waiting
    <3>1. ASSUME NEW x \in Waiting' PROVE x \in Waiting
      <4>1. PICK u \in Threads : message'[u] # Idle /\ x = message'[u]
        BY Zenon, <3>1 DEF Waiting
      <4>. QED  BY Zenon, <2>4, <4>1 DEF Waiting
    <3>2. ASSUME NEW x \in Waiting PROVE x \in Waiting'
      <4>1. PICK u \in Threads : message[u] # Idle /\ u # t /\ x = message[u]
        BY Zenon, <3>2 DEF Waiting
      <4>2. u # Nobody
        BY Zenon, <4>1, LoggerAssumption
      <4>. QED  BY Zenon, <2>2, <2>4, <4>1, <4>2 DEF Waiting
    <3>. QED  BY Zenon, <3>1, <3>2
  <2>. QED  BY Zenon, <2>2, <2>3, <2>5 DEF InHand, ForConsole, ToConsole
<1>. QED  BY Zenon, <1>3, <1>4 DEF Advance

LEMMA ConsoleIsNoStep ==
  ASSUME Inv, NEW t \in Threads, WriteConsole(t)
  PROVE  UNCHANGED Promised!logVars
<1> DEFINE m == message[t]
           rest == LinesFrom(m, line + 1)
<1>1. TypeOK /\ Written /\ stderr \in Seq(Line)
  BY Zenon DEF Inv, WarnedOK
<1>2. holder = t /\ ~fileDue /\ UNCHANGED <<verbose, fileState, file, good, calls>>
  BY Zenon DEF WriteConsole
<1>3. m \in Message /\ line \in 1..m.lines /\ t # Nobody
  BY Zenon, <1>1, <1>2, HolderMessage
<1>4. /\ Waiting' = Waiting
      /\ open => InHand' = InHand
      /\ ToConsole(m.level, rest, ForConsole(FALSE)', ForConsole(TRUE)')
  <2>1. CASE open
    <3>1. fileDue' /\ UNCHANGED <<line, holder, message>>
      BY Zenon, <2>1 DEF WriteConsole
    <3>. QED
      BY Zenon, <1>2, <1>3, <3>1 DEF Waiting, InHand, ForConsole, ToConsole
  <2>2. CASE ~open
    <3>1. Advance(t) /\ fileDue' = fileDue
      BY Zenon, <2>2 DEF WriteConsole
    <3>2. ~fileDue'
      BY <1>2, <3>1
    <3>. QED  BY Zenon, <1>2, <2>2, <3>1, <3>2, AdvanceLeavesRest
  <2>. QED  BY Zenon, <2>1, <2>2
<1>5. ToConsole(m.level, LinesFrom(m, line), ForConsole(FALSE), ForConsole(TRUE))
  BY Zenon, <1>2, <1>3 DEF ForConsole, ToConsole
<1> HIDE DEF rest
<1>6. FullStdout' = FullStdout /\ FullStderr' = FullStderr
  <2>1. CASE m.level = "error"
    <3>1. stderr' = Append(stderr, LineOf(m, line)) /\ stdout' = stdout
      BY Zenon, <2>1 DEF WriteConsole, UsesStderr
    <3>2. stderr \o LinesFrom(m, line) = stderr' \o rest
      BY Zenon, <1>1, <1>3, <3>1, LineGoesOver DEF rest
    <3>. QED
      BY Zenon, <1>4, <1>5, <2>1, <3>1, <3>2 DEF FullStdout, FullStderr, ToConsole
  <2>2. CASE m.level # "error"
    <3>1. stdout' = Append(stdout, LineOf(m, line)) /\ stderr' = stderr
      BY Zenon, <2>2 DEF WriteConsole, UsesStderr
    <3>2. stdout \o LinesFrom(m, line) = stdout' \o rest
      BY Zenon, <1>1, <1>3, <3>1, LineGoesOver DEF rest, Written
    <3>. QED
      BY Zenon, <1>4, <1>5, <2>2, <3>1, <3>2 DEF FullStdout, FullStderr, ToConsole
  <2>. QED  BY Zenon, <2>1, <2>2
<1>7. FullFile' = FullFile /\ Filing' = Filing
  BY Zenon, <1>2, <1>4 DEF FullFile, Filing, fileState
<1>. QED  BY Zenon, <1>2, <1>4, <1>6, <1>7 DEF Promised!logVars

LEMMA FileKeepsOrIsCut ==
  ASSUME Inv, NEW t \in Threads, WriteFile(t)
  PROVE  Promised!CutOff \/ UNCHANGED Promised!logVars
<1> DEFINE m == message[t]
           all == LinesFrom(m, line)
           rest == LinesFrom(m, line + 1)
<1>1. TypeOK /\ Written /\ initialized /\ open
  BY Zenon, LoggerAssumption DEF Inv, TypeOK, WriteFile
<1>2. holder = t /\ fileDue /\ ~fileDue' /\ Advance(t)
      /\ UNCHANGED <<verbose, fileState, stdout, stderr, calls>>
  BY Zenon DEF WriteFile
<1>3. m \in Message /\ line \in 1..m.lines /\ t # Nobody
  BY Zenon, <1>1, <1>2, HolderMessage
<1>4. /\ Waiting' = Waiting /\ InHand' = rest
      /\ ToConsole(m.level, rest, ForConsole(FALSE)', ForConsole(TRUE)')
  BY Zenon, <1>2, AdvanceLeavesRest
<1>5. InHand = all /\ ToConsole(m.level, rest, ForConsole(FALSE), ForConsole(TRUE))
  BY Zenon, <1>2, <1>3 DEF InHand, ForConsole, ToConsole
<1> HIDE DEF all, rest
<1>6. UNCHANGED <<verbose, calls, Waiting, FullStdout, FullStderr>>
  <2>1. ForConsole(FALSE)' = ForConsole(FALSE) /\ ForConsole(TRUE)' = ForConsole(TRUE)
    <3>1. CASE m.level = "error"
      BY Zenon, <1>4, <1>5, <3>1 DEF ToConsole
    <3>2. CASE m.level # "error"
      BY Zenon, <1>4, <1>5, <3>2 DEF ToConsole
    <3>. QED  BY Zenon, <3>1, <3>2
  <2>. QED  BY Zenon, <1>2, <1>4, <2>1 DEF FullStdout, FullStderr
<1>7. CASE good /\ good' /\ file' = Append(file, LineOf(m, line))
  <2>1. file \o all = file' \o rest
    BY Zenon, <1>1, <1>3, <1>7, LineGoesOver DEF all, rest, Written
  <2>2. open' /\ initialized'
    BY Zenon, <1>1, <1>2 DEF fileState
  <2>3. FullFile = file \o all /\ FullFile' = file' \o rest
    BY Zenon, <1>1, <1>4, <1>5, <1>7, <2>2 DEF FullFile
  <2>4. Filing = "on" /\ Filing' = "on"
    BY <1>1, <1>7, <2>2 DEF Filing
  <2>. QED  BY Zenon, <1>6, <2>1, <2>3, <2>4 DEF Promised!logVars
<1>8. CASE ~good /\ ~good' /\ file' = file
  <2>1. FullFile' = FullFile /\ Filing' = Filing
    BY Zenon, <1>2, <1>8 DEF FullFile, Filing, fileState
  <2>. QED  BY Zenon, <1>6, <2>1 DEF Promised!logVars
<1>9. CASE good /\ ~good' /\ file' = file
  <2>1. FullFile = file \o all /\ FullFile' = file /\ open' /\ initialized'
    BY Zenon, <1>1, <1>2, <1>5, <1>9 DEF FullFile, fileState
  <2>2. Filing = "on" /\ Filing' = "cut"
    BY <1>1, <1>9, <2>1 DEF Filing
  <2>3. file \in Seq(Line) /\ all \in Seq(Line) /\ Len(all) \in Nat /\ Len(all) >= 1
        /\ \A i \in 1..Len(all) : all[i].call = m.call
    <3>1. all \in Seq(Line) /\ Len(all) = m.lines - line + 1
          /\ \A i \in 1..m.lines - line + 1 : all[i].call = m.call
      BY Zenon, <1>3, LinesOfMessage DEF all
    <3>. QED  BY <1>1, <1>3, <3>1, FieldsOfMessage DEF Written
  <2> DEFINE whole == file \o all
             n == Len(file)
  <2>4. /\ n \in Nat /\ Len(whole) = n + Len(all)
        /\ \A i \in n + 1..Len(whole) : whole[i].call = m.call
        /\ whole[Len(whole)].call = m.call
    <3>1. n \in Nat /\ Len(whole) = n + Len(all)
      BY <2>3
    <3>2. ASSUME NEW i \in n + 1..Len(whole) PROVE whole[i].call = m.call
      <4>1. i - n \in 1..Len(all) /\ whole[i] = all[i - n]
        BY <2>3, <3>1
      <4>. QED  BY Zenon, <2>3, <4>1
    <3>3. Len(whole) \in n + 1..Len(whole)
      BY <2>3, <3>1
    <3>. QED  BY Zenon, <3>1, <3>2, <3>3
  <2>5. file = SubSeq(whole, 1, n) /\ n \in 0..Len(whole)
    <3>1. n \in 0..Len(whole)
      BY <2>3, <2>4
    <3>2. file = SubSeq(whole, 1, n)
      BY <2>3, <2>4
    <3>. QED  BY <3>1, <3>2
  <2>6. \E k \in 0..Len(whole) :
          /\ file = SubSeq(whole, 1, k)
          /\ \A i \in k + 1..Len(whole) : whole[i].call = whole[Len(whole)].call
    BY Zenon, <2>4, <2>5
  <2> HIDE DEF whole, n
  <2>7. FullFile = whole
    BY Zenon, <2>1 DEF whole
  <2>. QED  BY Zenon, <1>6, <2>1, <2>2, <2>6, <2>7 DEF Promised!CutOff
<1>10. \/ good /\ good' /\ file' = Append(file, LineOf(m, line))
       \/ ~good' /\ file' = file
  <2>1. \/ good /\ good' = good /\ file' = Append(file, LineOf(m, line))
        \/ good' = FALSE /\ file' = file
    BY Zenon DEF WriteFile
  <2>. QED  BY <2>1
<1>. QED  BY Zenon, <1>7, <1>8, <1>9, <1>10

LEMMA MappedAtStart == Init => Promised!Init
<1>. SUFFICES ASSUME Init PROVE Promised!Init
  OBVIOUS
<1>1. InHand = <<>> /\ ForConsole(TRUE) = <<>> /\ ForConsole(FALSE) = <<>>
  BY Zenon, NothingInHand DEF Init
<1>2. <<>> \o <<>> = <<>>
  OBVIOUS
<1>3. FullStdout = <<>> /\ FullStderr = <<>> /\ FullFile = <<>>
  BY Zenon, <1>1, <1>2 DEF Init, FullStdout, FullStderr, FullFile
<1>4. Waiting = {} /\ Filing = "unknown"
  BY Zenon DEF Init, Waiting, Filing
<1>. QED  BY Zenon, <1>2, <1>3, <1>4 DEF Init, Promised!Init

(* What the threads see and what is on the console and in the file could   *)
(* be the work of a log that writes every message whole, between the call  *)
(* and the return, in one order for all streams, and that decides once     *)
(* whether there is a file.                                                *)
THEOREM LoggerImplementsLog == Spec => ImplementsMessageLog
<1>1. Inv /\ [Next]_vars => [Promised!Next]_(Promised!logVars)
  <2>. SUFFICES ASSUME Inv, [Next]_vars
                PROVE  Promised!Next \/ UNCHANGED Promised!logVars
    OBVIOUS
  <2>1. ASSUME NEW b \in BOOLEAN, SetVerbose(b) PROVE Promised!Next
    BY Zenon, <2>1 DEF SetVerbose, Promised!Next, Promised!SetVerbose, Waiting, Filing,
       FullStdout, FullStderr, FullFile, InHand, ForConsole, fileState, streams, progress
  <2>2. ASSUME NEW t \in Threads, NEW level \in Levels, NEW lines \in LineCounts,
               Call(t, level, lines)
        PROVE  Promised!Next
    BY Zenon, <2>2, BeginAccepts DEF Call, Promised!Accept, Promised!Next
  <2>3. ASSUME NEW t \in Threads, Enter(t) PROVE Promised!Next
    BY Zenon, <2>3, EnterPublishes DEF Promised!Next
  <2>4. ASSUME NEW t \in Threads, CurrentLogFilePath(t) PROVE Promised!Next
    BY Zenon, <2>4, AskingDecides DEF Promised!Next
  <2>5. ASSUME NEW t \in Threads, Write(t)
        PROVE  Promised!Next \/ UNCHANGED Promised!logVars
    BY Zenon, <2>5, ConsoleIsNoStep, FileKeepsOrIsCut DEF Promised!Next, Write
  <2>6. CASE UNCHANGED vars
    BY Zenon, <2>6 DEF vars, Promised!logVars, Waiting, Filing, FullStdout, FullStderr,
       FullFile, InHand, ForConsole, fileState, streams, progress
  <2>. QED  BY Zenon, <2>1, <2>2, <2>3, <2>4, <2>5, <2>6 DEF Next
<1>. QED
  BY <1>1, MappedAtStart, EveryStep, InvAtStart, InvStep, PTL DEF Spec, ImplementsMessageLog, Promised!Spec
-----------------------------------------------------------------------------
(* Places of lines are counted by the sets of them: a line at the end adds *)
(* its own place if it is for the stream, and changes no other count.      *)
Count(i, s, error) == Cardinality(PlacesUpTo(i, s, error))

LEMMA PlacesCounted ==
  ASSUME NEW s, NEW error, NEW i \in Nat, NEW n \in Nat, i <= n
  PROVE  /\ IsFiniteSet(PlacesUpTo(i, s, error))
         /\ Count(i, s, error) \in Nat
         /\ Count(i, s, error) <= Count(n, s, error)
         /\ i \in PlacesUpTo(n, s, error) => Count(i, s, error) >= 1
<1>1. \A k \in Nat : IsFiniteSet(1..k)
  BY FS_Interval
<1>2. \A k \in Nat : PlacesUpTo(k, s, error) \subseteq 1..k
  BY DEF PlacesUpTo
<1>3. \A k \in Nat : IsFiniteSet(PlacesUpTo(k, s, error))
  BY Zenon, <1>1, <1>2, FS_Subset
<1>4. \A k \in Nat : Count(k, s, error) \in Nat
  BY Zenon, <1>3, FS_CardinalityType DEF Count
<1>5. PlacesUpTo(i, s, error) \subseteq PlacesUpTo(n, s, error)
  BY DEF PlacesUpTo
<1>6. Count(i, s, error) <= Count(n, s, error)
  BY Zenon, <1>3, <1>5, FS_Subset DEF Count
<1>7. ASSUME i \in PlacesUpTo(n, s, error) PROVE Count(i, s, error) >= 1
  <2>1. i \in PlacesUpTo(i, s, error)
    BY <1>7 DEF PlacesUpTo
  <2>2. Count(i, s, error) # 0
    BY Zenon, <1>3, <2>1, FS_EmptySet DEF Count
  <2>. QED  BY <1>4, <2>2
<1>. QED  BY Zenon, <1>3, <1>4, <1>6, <1>7

(* How the counts of a sequence change when l comes to its end.            *)
CountsGo(s, l, error) ==
  /\ \A i \in 0..Len(s) : PlacesUpTo(i, Append(s, l), error) = PlacesUpTo(i, s, error)
  /\ \A i \in 0..Len(s) : Count(i, Append(s, l), error) = Count(i, s, error)
  /\ IsFor(error, l) =>
       /\ PlacesUpTo(Len(s) + 1, Append(s, l), error)
            = PlacesUpTo(Len(s), s, error) \cup {Len(s) + 1}
       /\ Count(Len(s) + 1, Append(s, l), error) = Count(Len(s), s, error) + 1
  /\ ~IsFor(error, l) =>
       /\ PlacesUpTo(Len(s) + 1, Append(s, l), error) = PlacesUpTo(Len(s), s, error)
       /\ Count(Len(s) + 1, Append(s, l), error) = Count(Len(s), s, error)

LEMMA CountsAppended ==
  ASSUME NEW s \in Seq(Line), NEW l \in Line, NEW error
  PROVE  CountsGo(s, l, error)
<1> DEFINE a == Append(s, l)
           n == Len(s)
<1>1. n \in Nat /\ a[n + 1] = l /\ \A i \in 1..n : a[i] = s[i]
  BY AppendProperties, LenProperties
<1>. HIDE DEF a, n
<1>2. \A i \in 0..n : PlacesUpTo(i, a, error) = PlacesUpTo(i, s, error)
  <2>1. ASSUME NEW i \in 0..n PROVE PlacesUpTo(i, a, error) = PlacesUpTo(i, s, error)
    <3>1. \A j \in 1..i : a[j] = s[j]
      BY <1>1
    <3>. QED  BY Zenon, <3>1 DEF PlacesUpTo
  <2>. QED  BY <2>1
<1>3. PlacesUpTo(n + 1, a, error)
        = IF IsFor(error, l) THEN PlacesUpTo(n, s, error) \cup {n + 1} ELSE PlacesUpTo(n, s, error)
  <2>1. \A j : j \in 1..n + 1 <=> j \in 1..n \/ j = n + 1
    BY <1>1
  <2>2. \A j : j \in PlacesUpTo(n + 1, a, error)
                 <=> j \in PlacesUpTo(n, s, error) \/ (j = n + 1 /\ IsFor(error, l))
    BY Zenon, <1>1, <2>1 DEF PlacesUpTo
  <2>. QED  BY Zenon, <2>2
<1>4. IsFiniteSet(PlacesUpTo(n, s, error)) /\ n + 1 \notin PlacesUpTo(n, s, error)
  <2>1. n <= n
    BY <1>1
  <2>2. n + 1 \notin 1..n
    BY <1>1
  <2>3. IsFiniteSet(PlacesUpTo(n, s, error))
    BY Zenon, <1>1, <2>1, PlacesCounted
  <2>. QED  BY Zenon, <2>2, <2>3 DEF PlacesUpTo
<1>5. Cardinality(PlacesUpTo(n, s, error) \cup {n + 1}) = Cardinality(PlacesUpTo(n, s, error)) + 1
  BY Zenon, <1>4, FS_AddElement
<1>. QED  BY Zenon, <1>2, <1>3, <1>5 DEF CountsGo, Count, a, n

(* A line that goes to a stream and to the sequence that holds all of it.  *)
LEMMA BothGrow ==
  ASSUME NEW stream \in Seq(Line), NEW s \in Seq(Line), NEW l \in Line, NEW error,
         IsFor(error, l), AllOf(stream, s, error)
  PROVE  AllOf(Append(stream, l), Append(s, l), error)
<1> DEFINE a == Append(s, l)
           longer == Append(stream, l)
           n == Len(s)
           k == Len(stream)
<1>1. /\ n \in Nat /\ k \in Nat /\ Len(a) = n + 1 /\ Len(longer) = k + 1
      /\ a[n + 1] = l /\ longer[k + 1] = l
      /\ \A i \in 1..n : a[i] = s[i]
      /\ \A i \in 1..k : longer[i] = stream[i]
  BY AppendProperties, LenProperties
<1>2. CountsGo(s, l, error)
  BY Zenon, CountsAppended
<1>3. /\ Count(n, s, error) = k
      /\ \A i \in PlacesUpTo(n, s, error) : s[i] = stream[Count(i, s, error)]
  BY Zenon DEF AllOf, BeginningOf, Count
<1>. HIDE DEF a, longer, n, k
<1>4. /\ \A i \in 0..n : Count(i, a, error) = Count(i, s, error)
      /\ PlacesUpTo(n + 1, a, error) = PlacesUpTo(n, s, error) \cup {n + 1}
      /\ Count(n + 1, a, error) = k + 1
  BY Zenon, <1>2, <1>3 DEF CountsGo, a, n
<1>5. ASSUME NEW i \in PlacesUpTo(n, s, error)
      PROVE  a[i] = longer[Count(i, a, error)]
  <2>1. i \in 1..n /\ i \in Nat /\ i <= n /\ i \in 0..n
    BY <1>1 DEF PlacesUpTo
  <2>2. Count(i, s, error) \in Nat /\ Count(i, s, error) <= k /\ Count(i, s, error) >= 1
    BY Zenon, <1>1, <1>3, <2>1, PlacesCounted
  <2>3. Count(i, s, error) \in 1..k
    BY <1>1, <2>2
  <2>. QED  BY Zenon, <1>1, <1>3, <1>4, <2>1, <2>3
<1>6. \A i \in PlacesUpTo(n + 1, a, error) : a[i] = longer[Count(i, a, error)]
  BY Zenon, <1>1, <1>4, <1>5
<1>7. k + 1 <= k + 1
  BY <1>1
<1>. QED  BY Zenon, <1>1, <1>4, <1>6, <1>7 DEF AllOf, BeginningOf, Count, a, longer

(* A line that goes to the other stream.                                   *)
LEMMA OtherGrows ==
  ASSUME NEW stream \in Seq(Line), NEW s \in Seq(Line), NEW l \in Line, NEW error,
         ~IsFor(error, l), AllOf(stream, s, error)
  PROVE  AllOf(stream, Append(s, l), error)
<1> DEFINE a == Append(s, l)
           n == Len(s)
<1>1. /\ n \in Nat /\ Len(a) = n + 1
      /\ \A i \in 1..n : a[i] = s[i]
  BY AppendProperties, LenProperties
<1>2. CountsGo(s, l, error)
  BY Zenon, CountsAppended
<1>3. /\ Count(n, s, error) = Len(stream) /\ Count(n, s, error) <= Len(stream)
      /\ \A i \in PlacesUpTo(n, s, error) : s[i] = stream[Count(i, s, error)]
  BY Zenon DEF AllOf, BeginningOf, Count
<1>. HIDE DEF a, n
<1>4. /\ \A i \in 0..n : Count(i, a, error) = Count(i, s, error)
      /\ PlacesUpTo(n + 1, a, error) = PlacesUpTo(n, s, error)
      /\ Count(n + 1, a, error) = Count(n, s, error)
  BY Zenon, <1>2 DEF CountsGo, a, n
<1>5. ASSUME NEW i \in PlacesUpTo(n + 1, a, error)
      PROVE  a[i] = stream[Count(i, a, error)]
  <2>1. i \in PlacesUpTo(n, s, error)
    BY Zenon, <1>4
  <2>2. i \in 1..n /\ i \in 0..n
    BY <1>1, <2>1 DEF PlacesUpTo
  <2>. QED  BY Zenon, <1>1, <1>3, <1>4, <2>1, <2>2
<1>. QED  BY Zenon, <1>1, <1>3, <1>4, <1>5 DEF AllOf, BeginningOf, Count, a

(* A stream that grows behind what the sequence holds of it.               *)
LEMMA StreamGrows ==
  ASSUME NEW stream \in Seq(Line), NEW s \in Seq(Line), NEW l \in Line, NEW error,
         BeginningOf(stream, s, error)
  PROVE  BeginningOf(Append(stream, l), s, error)
<1> DEFINE longer == Append(stream, l)
           n == Len(s)
           k == Len(stream)
<1>1. /\ n \in Nat /\ k \in Nat /\ Len(longer) = k + 1 /\ n <= n
      /\ \A i \in 1..k : longer[i] = stream[i]
  BY AppendProperties, LenProperties
<1>2. /\ Count(n, s, error) <= k
      /\ \A i \in PlacesUpTo(n, s, error) : s[i] = stream[Count(i, s, error)]
  BY Zenon DEF AllOf, BeginningOf, Count
<1>. HIDE DEF longer, n, k
<1>3. Count(n, s, error) \in Nat
  BY Zenon, <1>1, PlacesCounted
<1>4. ASSUME NEW i \in PlacesUpTo(n, s, error)
      PROVE  s[i] = longer[Count(i, s, error)]
  <2>1. i \in Nat /\ i <= n
    BY <1>1 DEF PlacesUpTo
  <2>2. Count(i, s, error) \in Nat /\ Count(i, s, error) <= Count(n, s, error)
        /\ Count(i, s, error) >= 1
    BY Zenon, <1>1, <2>1, PlacesCounted
  <2>3. Count(i, s, error) \in 1..k
    BY <1>1, <1>2, <1>3, <2>2
  <2>. QED  BY Zenon, <1>1, <1>2, <2>3
<1>5. Count(n, s, error) <= k + 1
  BY <1>1, <1>2, <1>3
<1>. QED  BY Zenon, <1>1, <1>4, <1>5 DEF AllOf, BeginningOf, Count, longer, n

(* A sequence that lacks the last line of what it could hold.              *)
LEMMA LineIsMissing ==
  ASSUME NEW stream \in Seq(Line), NEW s \in Seq(Line), NEW l \in Line, NEW error,
         BeginningOf(stream, Append(s, l), error)
  PROVE  BeginningOf(stream, s, error)
<1> DEFINE a == Append(s, l)
           n == Len(s)
           k == Len(stream)
<1>1. /\ n \in Nat /\ k \in Nat /\ Len(a) = n + 1 /\ n <= n /\ n + 1 \in Nat /\ n <= n + 1
      /\ \A i \in 1..n : a[i] = s[i]
  BY AppendProperties, LenProperties
<1>2. CountsGo(s, l, error)
  BY Zenon, CountsAppended
<1>3. /\ Count(n + 1, a, error) <= k
      /\ \A i \in PlacesUpTo(n + 1, a, error) : a[i] = stream[Count(i, a, error)]
  BY Zenon, <1>1 DEF AllOf, BeginningOf, Count
<1>. HIDE DEF a, n, k
<1>4. /\ \A i \in 0..n : Count(i, a, error) = Count(i, s, error)
      /\ PlacesUpTo(n, s, error) \subseteq PlacesUpTo(n + 1, a, error)
  <2>1. \A i \in 0..n : Count(i, a, error) = Count(i, s, error)
    BY Zenon, <1>2 DEF CountsGo, a, n
  <2>2. PlacesUpTo(n, s, error) \subseteq PlacesUpTo(n + 1, a, error)
    BY Zenon, <1>2 DEF CountsGo, a, n
  <2>. QED  BY Zenon, <2>1, <2>2
<1>5. ASSUME NEW i \in PlacesUpTo(n, s, error)
      PROVE  s[i] = stream[Count(i, s, error)]
  <2>1. i \in 1..n /\ i \in 0..n
    BY <1>1 DEF PlacesUpTo
  <2>2. a[i] = stream[Count(i, a, error)]
    BY Zenon, <1>3, <1>4
  <2>. QED  BY Zenon, <1>1, <1>4, <2>1, <2>2
<1>6. Count(n, s, error) <= k
  <2>1. Count(n, a, error) <= Count(n + 1, a, error)
    BY Zenon, <1>1, PlacesCounted
  <2>2. Count(n, a, error) = Count(n, s, error) /\ Count(n, a, error) \in Nat
    <3>1. n \in 0..n
      BY <1>1
    <3>. QED  BY Zenon, <1>1, <1>4, <3>1, PlacesCounted
  <2>3. Count(n + 1, a, error) \in Nat
    <3>1. n + 1 <= n + 1
      BY <1>1
    <3>. QED  BY Zenon, <1>1, <3>1, PlacesCounted
  <2>. QED  BY <1>1, <1>3, <2>1, <2>2, <2>3
<1>. QED  BY Zenon, <1>5, <1>6 DEF AllOf, BeginningOf, Count, n, k

LEMMA NothingIsAll ==
  ASSUME NEW error
  PROVE  AllOf(<<>>, <<>>, error)
<1>1. PlacesUpTo(0, <<>>, error) = {}
  BY DEF PlacesUpTo
<1>2. Cardinality({}) = 0 /\ Len(<<>>) = 0 /\ 0 <= 0
  BY FS_EmptySet
<1>. QED  BY Zenon, <1>1, <1>2 DEF AllOf, BeginningOf

(* Nothing is written before the file has been tried.                      *)
NothingYet == ~initialized => stdout = <<>> /\ stderr = <<>> /\ file = <<>>

LEMMA InitializedMatches ==
  ASSUME Inv, FileMatchesStreams, NothingYet, holder = Nobody, EnsureLogFileInitialized,
         UNCHANGED <<stdout, file, good>>, ~fileDue'
  PROVE  FileMatchesStreams' /\ NothingYet'
<1>1. initialized' = TRUE /\ ~fileDue
  BY Zenon, InitializedTypes DEF Inv, TypeOK
<1>2. DueLine = <<>> /\ DueLine' = <<>>
  BY Zenon, <1>1 DEF DueLine
<1>3. CASE initialized
  <2>1. UNCHANGED <<open, stderr>>
    BY Zenon, <1>3 DEF EnsureLogFileInitialized, fileState
  <2>. QED  BY Zenon, <1>1, <1>2, <2>1 DEF FileMatchesStreams, NothingYet
<1>4. CASE ~initialized
  <2>1. stdout = <<>> /\ stderr = <<>> /\ file = <<>> /\ ~open
    BY Zenon, <1>4 DEF NothingYet, Inv, DecidedOnce
  <2>2. CASE ~open'
    BY Zenon, <1>1, <2>1, <2>2 DEF FileMatchesStreams, NothingYet
  <2>3. CASE open'
    <3>1. stderr' = stderr
      BY Zenon, <1>4, <2>1, <2>3 DEF EnsureLogFileInitialized
    <3>2. good'
      BY Zenon, <2>1 DEF Inv, Written
    <3>3. <<>> \o <<>> = <<>>
      OBVIOUS
    <3>4. file' \o DueLine' = <<>>
      BY Zenon, <1>2, <2>1, <3>3
    <3>. QED
      BY Zenon, <1>1, <2>1, <2>3, <3>1, <3>2, <3>4, NothingIsAll
      DEF FileMatchesStreams, NothingYet
  <2>. QED  BY <2>2, <2>3
<1>. QED  BY <1>3, <1>4

LEMMA ConsoleMatches ==
  ASSUME Inv, FileMatchesStreams, NothingYet, NEW t \in Threads, WriteConsole(t)
  PROVE  FileMatchesStreams' /\ NothingYet'
<1> DEFINE l == LineOf(message[t], line)
<1>1. TypeOK /\ stdout \in Seq(Line) /\ stderr \in Seq(Line) /\ file \in Seq(Line)
  BY Zenon DEF Inv, WarnedOK, Written
<1>2. holder = t /\ ~fileDue /\ UNCHANGED <<fileState, file, good>>
  BY Zenon DEF WriteConsole
<1>3. l \in Line /\ t # Nobody /\ initialized
  <2>1. message[t] \in Message /\ line \in 1..message[t].lines /\ t # Nobody
    BY Zenon, <1>1, <1>2, HolderMessage
  <2>. QED  BY Zenon, <1>1, <1>2, <2>1, LinesOfMessage DEF TypeOK
<1>4. initialized' /\ open' = open
  BY Zenon, <1>2, <1>3 DEF fileState
<1>5. file \o <<>> = file /\ Append(file, l) = file \o <<l>>
  BY <1>1, <1>3, AppendIsConcat
<1>6. file \o DueLine = file
  BY Zenon, <1>2, <1>5 DEF DueLine
<1>7. open => file' \o DueLine' = Append(file, l)
  <2>1. ASSUME open PROVE fileDue' /\ UNCHANGED <<line, holder, message>>
    BY Zenon, <2>1 DEF WriteConsole
  <2>. QED  BY Zenon, <1>2, <1>5, <2>1 DEF DueLine
<1>8. IF l.level = "error" THEN stderr' = Append(stderr, l) /\ stdout' = stdout
                           ELSE stdout' = Append(stdout, l) /\ stderr' = stderr
  <2>1. l.level = message[t].level
    BY DEF LineOf
  <2>. HIDE DEF l
  <2>. QED  BY Zenon, <2>1 DEF WriteConsole, UsesStderr, l
<1>. HIDE DEF l
<1>9. CASE l.level = "error"
  <2>1. IsFor(TRUE, l) /\ ~IsFor(FALSE, l)
    BY Zenon, <1>9 DEF IsFor
  <2>. QED
    BY Zenon, <1>1, <1>2, <1>3, <1>4, <1>6, <1>7, <1>8, <1>9, <2>1,
       BothGrow, OtherGrows, StreamGrows DEF FileMatchesStreams, NothingYet
<1>10. CASE l.level # "error"
  <2>1. ~IsFor(TRUE, l) /\ IsFor(FALSE, l)
    BY Zenon, <1>10 DEF IsFor
  <2>. QED
    BY Zenon, <1>1, <1>2, <1>3, <1>4, <1>6, <1>7, <1>8, <1>10, <2>1,
       BothGrow, OtherGrows, StreamGrows DEF FileMatchesStreams, NothingYet
<1>. QED  BY <1>9, <1>10

LEMMA FileMatches ==
  ASSUME Inv, FileMatchesStreams, NothingYet, NEW t \in Threads, WriteFile(t)
  PROVE  FileMatchesStreams' /\ NothingYet'
<1> DEFINE l == LineOf(message[t], line)
<1>1. TypeOK /\ stdout \in Seq(Line) /\ stderr \in Seq(Line) /\ file \in Seq(Line)
  BY Zenon DEF Inv, WarnedOK, Written
<1>2. holder = t /\ fileDue /\ ~fileDue' /\ UNCHANGED <<fileState, stdout, stderr>>
  BY Zenon DEF WriteFile
<1>3. l \in Line /\ t # Nobody /\ initialized /\ open
  <2>1. message[t] \in Message /\ line \in 1..message[t].lines /\ t # Nobody
    BY Zenon, <1>1, <1>2, HolderMessage
  <2>. QED  BY Zenon, <1>1, <1>2, <2>1, LinesOfMessage DEF TypeOK
<1>4. initialized' /\ open'
  BY Zenon, <1>2, <1>3 DEF fileState
<1>5. Append(file, l) = file \o <<l>> /\ Append(file, l) \in Seq(Line)
      /\ \A s \in Seq(Line) : s \o <<>> = s
  BY <1>1, <1>3, AppendIsConcat, AppendProperties
<1>6. file \o DueLine = Append(file, l) /\ DueLine' = <<>>
  BY Zenon, <1>2, <1>5 DEF DueLine
<1>7. \/ good /\ good' /\ file' = Append(file, l)
      \/ ~good' /\ file' = file
  <2>1. \/ good /\ good' = good /\ file' = Append(file, l)
        \/ good' = FALSE /\ file' = file
    BY Zenon DEF WriteFile
  <2>. QED  BY <2>1
<1>. HIDE DEF l
<1>8. CASE good /\ good' /\ file' = Append(file, l)
  <2>1. file' \o DueLine' = Append(file, l)
    BY Zenon, <1>5, <1>6, <1>8
  <2>. QED
    BY Zenon, <1>2, <1>3, <1>4, <1>6, <1>8, <2>1 DEF FileMatchesStreams, NothingYet
<1>9. CASE ~good' /\ file' = file
  <2>1. BeginningOf(stderr, file, TRUE) /\ BeginningOf(stdout, file, FALSE)
    <3>1. CASE good
      <4>1. BeginningOf(stderr, Append(file, l), TRUE) /\ BeginningOf(stdout, Append(file, l), FALSE)
        BY Zenon, <1>3, <1>6, <3>1 DEF FileMatchesStreams, AllOf
      <4>. QED  BY Zenon, <1>1, <1>3, <4>1, LineIsMissing
    <3>2. CASE ~good
      BY Zenon, <1>3, <3>2 DEF FileMatchesStreams
    <3>. QED  BY <3>1, <3>2
  <2>. QED  BY Zenon, <1>2, <1>4, <1>9, <2>1 DEF FileMatchesStreams, NothingYet
<1>. QED  BY Zenon, <1>7, <1>8, <1>9

LEMMA FileAtStart == Init => FileMatchesStreams /\ NothingYet /\ Inv
<1>. SUFFICES ASSUME Init PROVE FileMatchesStreams /\ NothingYet /\ Inv
  OBVIOUS
<1>1. FileMatchesStreams /\ NothingYet
  BY Zenon DEF Init, FileMatchesStreams, NothingYet
<1>. QED  BY Zenon, <1>1, InvAtStart

LEMMA FileStep ==
  Inv /\ FileMatchesStreams /\ NothingYet /\ AnyStep => FileMatchesStreams' /\ NothingYet'
<1>. SUFFICES ASSUME Inv, FileMatchesStreams, NothingYet, AnyStep
              PROVE  FileMatchesStreams' /\ NothingYet'
  OBVIOUS
<1>1. CASE UNCHANGED <<fileState, streams, progress>> /\ DueLine' = DueLine
  BY Zenon, <1>1 DEF FileMatchesStreams, NothingYet, fileState, streams
<1>2. ASSUME NEW t \in Threads, Enter(t) PROVE FileMatchesStreams' /\ NothingYet'
  <2>1. holder = Nobody /\ EnsureLogFileInitialized /\ fileDue' = fileDue
        /\ UNCHANGED <<stdout, file, good>>
    BY Zenon, <1>2 DEF Enter, progress
  <2>2. ~fileDue'
    BY Zenon, <2>1 DEF Inv, TypeOK
  <2>. QED  BY Zenon, <2>1, <2>2, InitializedMatches
<1>3. ASSUME NEW t \in Threads, CurrentLogFilePath(t) PROVE FileMatchesStreams' /\ NothingYet'
  <2>1. holder = Nobody /\ EnsureLogFileInitialized /\ fileDue' = fileDue
        /\ UNCHANGED <<stdout, file, good>>
    BY Zenon, <1>3 DEF CurrentLogFilePath, progress
  <2>2. ~fileDue'
    BY Zenon, <2>1 DEF Inv, TypeOK
  <2>. QED  BY Zenon, <2>1, <2>2, InitializedMatches
<1>4. ASSUME NEW t \in Threads, Write(t) PROVE FileMatchesStreams' /\ NothingYet'
  BY Zenon, <1>4, ConsoleMatches, FileMatches DEF Write
<1>5. ASSUME NEW t \in Threads, NEW level \in Levels, NEW lines \in LineCounts,
             Begin(t, level, lines)
      PROVE  FileMatchesStreams' /\ NothingYet'
  <2>1. message[t] = Idle /\ UNCHANGED <<fileState, streams, progress, holder>>
        /\ \E m : message' = [message EXCEPT ![t] = m]
    BY Zenon, <1>5 DEF Begin
  <2>2. TypeOK
    BY Zenon DEF Inv
  <2>3. fileDue => holder \in Threads /\ message'[holder] = message[holder]
    <3>1. holder # t
      BY Zenon, <2>1, <2>2, HolderIsBusy
    <3>2. fileDue => holder \in Threads
      BY Zenon, <2>2 DEF TypeOK
    <3>. QED  BY <2>1, <2>2, <3>1, <3>2 DEF TypeOK
  <2>4. DueLine' = DueLine
    BY Zenon, <2>1, <2>3 DEF DueLine, progress
  <2>. QED  BY Zenon, <1>1, <2>1, <2>4
<1>6. ASSUME NEW b \in BOOLEAN, SetVerbose(b)
      PROVE  UNCHANGED <<fileState, streams, progress>> /\ DueLine' = DueLine
  BY Zenon, <1>6 DEF SetVerbose, DueLine, progress
<1>7. CASE UNCHANGED vars
  <2>1. UNCHANGED <<fileState, streams, progress>> /\ DueLine' = DueLine
    BY Zenon, <1>7 DEF vars, DueLine, progress
  <2>. QED  BY Zenon, <1>1, <2>1
<1>. QED  BY Zenon, <1>1, <1>2, <1>3, <1>4, <1>5, <1>6, <1>7 DEF AnyStep

(* The file holds what the two streams hold, each in its order, up to the  *)
(* one line between console and file; once a write has failed it holds a   *)
(* beginning of each for good.  That there is nothing before the file is   *)
(* tried is what makes the invariant inductive: the file cannot miss lines *)
(* that were written before it was opened.                                 *)
THEOREM FileFollowsConsole == Spec => []FileMatchesStreams
BY EveryStep, FileAtStart, FileStep, InvStep, PTL DEF Spec
=============================================================================
