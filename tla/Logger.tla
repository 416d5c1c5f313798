------------------------------- MODULE Logger -------------------------------
(***************************************************************************)
(* The client's Logger of common/log/Logger.cpp: static functions that any *)
(* thread calls, one mutex, two console streams and a log file that the    *)
(* first call to take the mutex tries to open.                             *)
(*                                                                         *)
(* A message is the number of its call, its level and its number of lines; *)
(* Log cuts it at every '\n', so that a message has one line more than it  *)
(* has '\n', the last one empty when it ends with one.  Lines are written  *)
(* one at a time, first to the console and then to the file.  The prefix   *)
(* of the lines, a time and the level, is left out.                        *)
(*                                                                         *)
(* The file system may refuse the directory or the file, and later the     *)
(* disk may be full.  A line written in part counts as missing.  The name  *)
(* of the file ends with the date of its opening, for which the number of  *)
(* accepted calls stands here.                                             *)
(***************************************************************************)
EXTENDS LogLines, FiniteSets

CONSTANTS
  Threads,
  Levels,      \* levels in use, among those of LogLevel
  LineCounts,  \* numbers of lines of a message
  MaxCalls,    \* bound on the messages that pass the check of the level
  Nobody       \* holds the mutex when it is free; also: not in a call

ASSUME LoggerAssumption ==
  /\ Nobody \notin Threads
  /\ Levels \subseteq {"debug", "info", "warn", "error"}
  /\ LineCounts \subseteq Nat \ {0}
  /\ MaxCalls \in Nat

VARIABLES
  verbose,      \* VerboseFlag()
  initialized,  \* LogFileInitialized()
  warned,       \* LogFileWarningPrinted()
  path,         \* LogFilePath()
  open,         \* LogFileStream().is_open()
  stdout, stderr, file,  \* what has been written
  good,         \* LogFileStream().good(): no write to the file has failed
  holder,       \* the thread that holds LogMutex()
  message,      \* the message each thread is in Log with, past the check
  line,         \* the line the holder is at
  fileDue,      \* the holder has written it to the console only
  calls,        \* number of messages past the check
  answers       \* results of CurrentLogFilePath so far

fileState == <<initialized, warned, path, open>>
streams == <<stdout, stderr, file, good>>
progress == <<line, fileDue>>
vars == <<verbose, fileState, streams, holder, message, progress, calls, answers>>

NoPath == 0
Idle == [call |-> 0, level |-> "none", lines |-> 0]

Init ==
  /\ verbose = TRUE
  /\ initialized = FALSE /\ warned = FALSE
  /\ path = NoPath /\ open = FALSE
  /\ stdout = <<>> /\ stderr = <<>> /\ file = <<>> /\ good = TRUE
  /\ holder = Nobody
  /\ message = [t \in Threads |-> Idle]
  /\ line = 1 /\ fileDue = FALSE
  /\ calls = 0
  /\ answers = {}
-----------------------------------------------------------------------------
(* OutputStreamForLevel: std::cerr for errors, std::cout for the others.   *)
UsesStderr(level) == level = "error"

Warn ==
  /\ warned' = TRUE
  /\ stderr' = IF warned THEN stderr ELSE Append(stderr, Warning)

(* Mutated forms of EnsureLogFileInitialized: the flag is set when there   *)
(* is a file, so that later calls try again; a file that cannot be opened  *)
(* goes unnoticed.                                                         *)
RetryUntilOpen ==
  \/ initialized /\ UNCHANGED <<fileState, stderr>>
  \/ /\ ~initialized
     /\ \/ Warn /\ UNCHANGED <<path, open, initialized>>
        \/ Warn /\ path' = NoPath /\ UNCHANGED <<open, initialized>>
        \/ /\ path' = calls + 1 /\ open' = TRUE /\ initialized' = TRUE
           /\ UNCHANGED <<warned, stderr>>

OverlookRefusedFile ==
  \/ initialized /\ UNCHANGED <<fileState, stderr>>
  \/ /\ ~initialized
     /\ initialized' = TRUE
     /\ \/ Warn /\ UNCHANGED <<path, open>>
        \/ UNCHANGED <<warned, path, open, stderr>>
        \/ path' = calls + 1 /\ open' = TRUE /\ UNCHANGED <<warned, stderr>>

(* EnsureLogFileInitialized, by the holder of the mutex.  The flag is set  *)
(* whatever comes of it: the directory cannot be made, the file cannot be  *)
(* opened, or there is a log file from now on.                             *)
EnsureLogFileInitialized ==
  \/ initialized /\ UNCHANGED <<fileState, stderr>>
  \/ /\ ~initialized
     /\ initialized' = TRUE
     /\ \/ Warn /\ UNCHANGED <<path, open>>
        \/ Warn /\ path' = NoPath /\ open' = FALSE
        \/ path' = calls + 1 /\ open' = TRUE /\ UNCHANGED <<warned, stderr>>

SetVerbose(b) ==
  /\ verbose' = b
  /\ UNCHANGED <<fileState, streams, holder, message, progress, calls, answers>>

(* Log behind the check of the level and before the mutex.                 *)
Begin(t, level, lines) ==
  /\ message[t] = Idle
  /\ calls < MaxCalls
  /\ calls' = calls + 1
  /\ message' = [message EXCEPT ![t] = [call |-> calls + 1, level |-> level, lines |-> lines]]
  /\ UNCHANGED <<verbose, fileState, streams, holder, progress, answers>>

(* The flag is read without the mutex.  A debug message that is not wanted *)
(* returns at once and changes nothing.                                    *)
Call(t, level, lines) ==
  /\ level = "debug" => verbose
  /\ Begin(t, level, lines)

(* Mutated form of Enter: no lock_guard.                                   *)
EnterWithoutLock(t) ==
  /\ message[t] # Idle
  /\ holder # t
  /\ holder' = t
  /\ EnsureLogFileInitialized
  /\ line' = 1 /\ fileDue' = FALSE
  /\ UNCHANGED <<verbose, stdout, file, good, message, calls, answers>>

Enter(t) ==
  /\ holder = Nobody
  /\ message[t] # Idle
  /\ holder' = t
  /\ EnsureLogFileInitialized
  /\ UNCHANGED <<verbose, stdout, file, good, message, progress, calls, answers>>

(* Mutated forms of Advance: one turn too many; the mutex is not released. *)
AdvancePastTheEnd(t) ==
  \/ line <= message[t].lines /\ line' = line + 1 /\ UNCHANGED <<holder, message>>
  \/ /\ line > message[t].lines
     /\ line' = 1 /\ holder' = Nobody
     /\ message' = [message EXCEPT ![t] = Idle]

AdvanceWithoutUnlock(t) ==
  \/ line < message[t].lines /\ line' = line + 1 /\ UNCHANGED <<holder, message>>
  \/ /\ line = message[t].lines
     /\ line' = 1 /\ message' = [message EXCEPT ![t] = Idle] /\ UNCHANGED holder

(* The next turn of the loop, or the end of Log and of its lock_guard.     *)
Advance(t) ==
  \/ line < message[t].lines /\ line' = line + 1 /\ UNCHANGED <<holder, message>>
  \/ /\ line = message[t].lines
     /\ line' = 1 /\ holder' = Nobody
     /\ message' = [message EXCEPT ![t] = Idle]

WriteConsole(t) ==
  /\ holder = t /\ ~fileDue
  /\ \/ /\ UsesStderr(message[t].level)
        /\ stderr' = Append(stderr, LineOf(message[t], line))
        /\ UNCHANGED stdout
     \/ /\ ~UsesStderr(message[t].level)
        /\ stdout' = Append(stdout, LineOf(message[t], line))
        /\ UNCHANGED stderr
  /\ \/ open /\ fileDue' = TRUE /\ UNCHANGED <<line, holder, message>>
     \/ ~open /\ Advance(t) /\ UNCHANGED fileDue
  /\ UNCHANGED <<verbose, fileState, file, good, calls, answers>>

(* Mutated form of WriteFile: the error is cleared after every line.       *)
WriteFileAfterError(t) ==
  /\ holder = t /\ fileDue
  /\ \/ file' = Append(file, LineOf(message[t], line)) /\ good' = TRUE
     \/ good' = FALSE /\ UNCHANGED file
  /\ fileDue' = FALSE
  /\ Advance(t)
  /\ UNCHANGED <<verbose, fileState, stdout, stderr, calls, answers>>

(* A write that fails leaves the stream bad, and a bad stream drops what   *)
(* comes later; it stays open, and nobody looks.                           *)
WriteFile(t) ==
  /\ holder = t /\ fileDue
  /\ \/ good /\ file' = Append(file, LineOf(message[t], line)) /\ UNCHANGED good
     \/ good' = FALSE /\ UNCHANGED file
  /\ fileDue' = FALSE
  /\ Advance(t)
  /\ UNCHANGED <<verbose, fileState, stdout, stderr, calls, answers>>

Write(t) == WriteConsole(t) \/ WriteFile(t)

(* The whole call holds the mutex and leaves it free.                      *)
CurrentLogFilePath(t) ==
  /\ holder = Nobody
  /\ message[t] = Idle
  /\ EnsureLogFileInitialized
  /\ answers' = answers \cup {path'}
  /\ UNCHANGED <<verbose, stdout, file, good, holder, message, progress, calls>>

Next ==
  \/ \E b \in BOOLEAN : SetVerbose(b)
  \/ \E t \in Threads :
       \/ \E level \in Levels, lines \in LineCounts : Call(t, level, lines)
       \/ Enter(t) \/ Write(t) \/ CurrentLogFilePath(t)

Spec == Init /\ [][Next]_vars

-----------------------------------------------------------------------------
Messages ==
  [call : 1..MaxCalls, level : Levels, lines : LineCounts] \cup {Idle}

(* Types; the holder is inside a message, and a line is due for the file   *)
(* only while somebody writes and the file is open.                        *)
TypeOK ==
  /\ verbose \in BOOLEAN /\ initialized \in BOOLEAN /\ warned \in BOOLEAN
  /\ path \in Nat /\ open \in BOOLEAN /\ good \in BOOLEAN
  /\ holder \in Threads \cup {Nobody}
  /\ message \in [Threads -> Messages]
  /\ fileDue \in BOOLEAN
  /\ calls \in 0..MaxCalls
  /\ line \in Nat
  /\ holder = Nobody => line = 1 /\ ~fileDue
  /\ holder # Nobody => initialized /\ line \in 1..message[holder].lines
  /\ fileDue => open

DueLine == IF fileDue THEN <<LineOf(message[holder], line)>> ELSE <<>>

(* The places up to i of s with lines for stderr, or with lines for stdout.*)
IsFor(error, l) == l.level = "error" <=> error

PlacesUpTo(i, s, error) == {j \in 1..i : IsFor(error, s[j])}

(* These lines of s are a beginning of the stream, or all of it.           *)
BeginningOf(stream, s, error) ==
  /\ Cardinality(PlacesUpTo(Len(s), s, error)) <= Len(stream)
  /\ \A i \in PlacesUpTo(Len(s), s, error) :
       s[i] = stream[Cardinality(PlacesUpTo(i, s, error))]

AllOf(stream, s, error) ==
  /\ BeginningOf(stream, s, error)
  /\ Cardinality(PlacesUpTo(Len(s), s, error)) = Len(stream)

(* If there is a log file it holds all that the two console streams hold,  *)
(* each in its order, from the first message on: a process that dies has   *)
(* at most one line on the console that is not in the file.  If the disk   *)
(* fills up it holds a beginning of each, and never goes on behind a gap.  *)
(* Without a file nothing is written to it.                                *)
FileMatchesStreams ==
  /\ open /\ good => /\ AllOf(stderr, file \o DueLine, TRUE)
                     /\ AllOf(stdout, file \o DueLine, FALSE)
  /\ open /\ ~good => /\ BeginningOf(stderr, file, TRUE)
                      /\ BeginningOf(stdout, file, FALSE)
  /\ ~open => file = <<>>

(* The log file is missing after the initialisation exactly if stderr says *)
(* so, and says so once, whichever thread ran into it and however many     *)
(* messages and questions for the path came later.                         *)
WarnedOnce ==
  Cardinality({i \in DOMAIN stderr : stderr[i] = Warning})
    = IF initialized /\ ~open THEN 1 ELSE 0

(* Every caller of CurrentLogFilePath gets the same answer, the name of    *)
(* the file if there is one and no name if there is none.                  *)
AnswersAgree ==
  \A p \in answers : initialized /\ p = path /\ (p # NoPath <=> open)

(* The lines that are still to come, of the message in hand.               *)
InHand == IF holder = Nobody THEN <<>> ELSE LinesFrom(message[holder], line)

ForConsole(error) ==
  IF holder # Nobody /\ (message[holder].level = "error" <=> error)
    THEN LinesFrom(message[holder], IF fileDue THEN line + 1 ELSE line)
    ELSE <<>>

Waiting == {message[t] : t \in {u \in Threads : message[u] # Idle /\ u # holder}}

Filing ==
  IF ~initialized THEN "unknown" ELSE IF ~open THEN "off" ELSE IF good THEN "on" ELSE "cut"

FullStdout == stdout \o ForConsole(FALSE)
FullStderr == stderr \o ForConsole(TRUE)
FullFile == IF open /\ good THEN file \o InHand ELSE file

(* The messages are written one after the other, whole, in the order in    *)
(* which the threads get the mutex.                                        *)
Promised == INSTANCE MessageLog WITH
  accepted <- Waiting, filing <- Filing,
  stdout <- FullStdout, stderr <- FullStderr, file <- FullFile

ImplementsMessageLog == Promised!Spec
=============================================================================
