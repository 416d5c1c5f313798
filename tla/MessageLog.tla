----------------------------- MODULE MessageLog -----------------------------
(***************************************************************************)
(* What a Logger promises to the threads that use it, with no mutex and no *)
(* line by line output: a message appears as a whole, in its console       *)
(* stream and, if there is a log file, in the file, between the call of    *)
(* the thread and its return.  Whether there is a file is decided once.    *)
(* The file may be cut off, somewhere in the message it has last got; it   *)
(* then gets no other.                                                     *)
(***************************************************************************)
EXTENDS LogLines

CONSTANTS Levels, LineCounts, MaxCalls

VARIABLES
  verbose,   \* debug messages are accepted
  calls,     \* number of accepted messages
  accepted,  \* the messages that have not appeared yet
  filing,    \* "unknown", "on", "off" or "cut"
  stdout, stderr, file

logVars == <<verbose, calls, accepted, filing, stdout, stderr, file>>

Init ==
  /\ verbose = TRUE
  /\ calls = 0
  /\ accepted = {}
  /\ filing = "unknown"
  /\ stdout = <<>> /\ stderr = <<>> /\ file = <<>>

SetVerbose(b) ==
  /\ verbose' = b
  /\ UNCHANGED <<calls, accepted, filing, stdout, stderr, file>>

Accept(level, lines) ==
  /\ calls < MaxCalls
  /\ level = "debug" => verbose
  /\ calls' = calls + 1
  /\ accepted' = accepted \cup {[call |-> calls + 1, level |-> level, lines |-> lines]}
  /\ UNCHANGED <<verbose, filing, stdout, stderr, file>>

(* The decision about the file, and the warning it may cause.              *)
Decide ==
  \/ filing = "unknown" /\ filing' \in {"on", "off"}
  \/ filing # "unknown" /\ UNCHANGED filing

WarningDue == IF filing = "unknown" /\ filing' = "off" THEN <<Warning>> ELSE <<>>

Publish(m) ==
  /\ accepted' = accepted \ {m}
  /\ Decide
  /\ file' = IF filing' = "on" THEN file \o LinesFrom(m, 1) ELSE file
  /\ \/ /\ m.level = "error"
        /\ stderr' = stderr \o WarningDue \o LinesFrom(m, 1)
        /\ stdout' = stdout
     \/ /\ m.level # "error"
        /\ stderr' = stderr \o WarningDue
        /\ stdout' = stdout \o LinesFrom(m, 1)
  /\ UNCHANGED <<verbose, calls>>

(* Somebody asks for the path of the file.                                 *)
DecideOnly ==
  /\ Decide
  /\ stderr' = stderr \o WarningDue
  /\ UNCHANGED <<verbose, calls, accepted, stdout, file>>

CutOff ==
  /\ filing = "on" /\ filing' = "cut"
  /\ \E n \in 0..Len(file) :
       /\ file' = SubSeq(file, 1, n)
       /\ \A i \in n + 1..Len(file) : file[i].call = file[Len(file)].call
  /\ UNCHANGED <<verbose, calls, accepted, stdout, stderr>>

Next ==
  \/ \E b \in BOOLEAN : SetVerbose(b)
  \/ \E level \in Levels, lines \in LineCounts : Accept(level, lines)
  \/ \E m \in accepted : Publish(m)
  \/ DecideOnly
  \/ CutOff

Spec == Init /\ [][Next]_logVars
=============================================================================
