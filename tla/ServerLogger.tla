---------------------------- MODULE ServerLogger ----------------------------
(***************************************************************************)
(* The server's Logger, sserver/src/common/log/Logger.cpp: the code of the *)
(* client's, except that the verbosity is a plain bool, which any thread   *)
(* writes and reads without the mutex.  What is known of such a flag on    *)
(* the machines it is built for: all threads see its values in one order,  *)
(* none goes back to an older one than it has seen, and whoever takes the  *)
(* mutex has seen what those before him had seen.                          *)
(***************************************************************************)
EXTENDS Logger

CONSTANT MaxWrites  \* bound on the calls of SetVerbose

ASSUME ServerAssumption == MaxWrites \in Nat

VARIABLES
  values,    \* every value VerboseFlag() has had; the last one is verbose
  seen,      \* for each thread, the place in values it has reached
  published  \* the place reached by those who have held the mutex

flag == <<values, seen, published>>

(* History: who has called SetVerbose last, whether he has taken the mutex *)
(* since, and what every thread has accepted of debug messages since then. *)
VARIABLES setter, told, late

serverVars == <<vars, flag, setter, told, late>>

NotLate == [t \in Threads |-> 0]

ServerInit ==
  /\ Init
  /\ values = <<TRUE>>
  /\ seen = [t \in Threads |-> 1]
  /\ published = 1
  /\ setter = Nobody /\ told = FALSE /\ late = NotLate
-----------------------------------------------------------------------------
ServerSetVerbose(t, b) ==
  /\ message[t] = Idle
  /\ Len(values) <= MaxWrites
  /\ SetVerbose(b)
  /\ values' = Append(values, b)
  /\ seen' = [seen EXCEPT ![t] = Len(values) + 1]
  /\ setter' = t /\ told' = FALSE /\ late' = NotLate
  /\ UNCHANGED published

(* VerboseFlag() read by t: any value from the place t has reached on.     *)
Reads(t, value) ==
  \E i \in seen[t]..Len(values) :
    values[i] = value /\ seen' = [seen EXCEPT ![t] = i]

ServerCall(t, level, lines) ==
  /\ Begin(t, level, lines)
  /\ \/ level # "debug" /\ UNCHANGED <<seen, late>>
     \/ /\ level = "debug" /\ Reads(t, TRUE)
        /\ late' = IF told /\ ~verbose THEN [late EXCEPT ![t] = @ + 1] ELSE late
  /\ UNCHANGED <<values, published, setter, told>>

(* Log returns early: the message is not wanted.                           *)
ServerDiscard(t) ==
  /\ message[t] = Idle
  /\ "debug" \in Levels /\ Reads(t, FALSE)
  /\ UNCHANGED <<vars, values, published, setter, told, late>>

(* Mutated form of Synchronize: nothing is learnt from the mutex.          *)
SynchronizeNothing(t) ==
  told' = (told \/ t = setter) /\ UNCHANGED <<values, seen, published, setter, late>>

(* Mutated form of Synchronize: a thread leaves word of what it has seen   *)
(* and does not learn what those before it had seen.                       *)
SynchronizeOneWay(t) ==
  LET latest == IF seen[t] > published THEN seen[t] ELSE published
  IN  /\ published' = latest
      /\ told' = (told \/ t = setter)
      /\ UNCHANGED <<values, seen, setter, late>>

(* What taking the mutex does to the flag.                                 *)
Synchronize(t) ==
  LET latest == IF seen[t] > published THEN seen[t] ELSE published
  IN  /\ seen' = [seen EXCEPT ![t] = latest]
      /\ published' = latest
      /\ told' = (told \/ t = setter)
      /\ UNCHANGED <<values, setter, late>>

ServerEnter(t) == Enter(t) /\ Synchronize(t)

ServerWrite(t) == Write(t) /\ UNCHANGED <<flag, setter, told, late>>

ServerCurrentLogFilePath(t) == CurrentLogFilePath(t) /\ Synchronize(t)

ServerNext ==
  \E t \in Threads :
    \/ \E b \in BOOLEAN : ServerSetVerbose(t, b)
    \/ \E level \in Levels, lines \in LineCounts : ServerCall(t, level, lines)
    \/ ServerDiscard(t)
    \/ ServerEnter(t) \/ ServerWrite(t) \/ ServerCurrentLogFilePath(t)

ServerSpec == ServerInit /\ [][ServerNext]_serverVars

(* The mutex, once free, goes to one of those who wait, though not to each *)
(* in turn, and the thread that holds it runs.                             *)
FairServerSpec ==
  /\ ServerSpec
  /\ WF_serverVars(\E t \in Threads : ServerEnter(t))
  /\ WF_serverVars(\E t \in Threads : ServerWrite(t))
-----------------------------------------------------------------------------
(* Types, and no place is behind what has been published to its thread.    *)
ServerTypeOK ==
  /\ TypeOK
  /\ values \in Seq(BOOLEAN)
  /\ verbose = values[Len(values)]
  /\ seen \in [Threads -> 1..Len(values)]
  /\ published \in 1..Len(values)
  /\ holder # Nobody => published <= seen[holder]

(* The race on the flag is harmless: once the thread that switched debug   *)
(* messages off has logged anything or asked for the path, every thread    *)
(* accepts one more of them at the most, since that one message brings it  *)
(* to the mutex.                                                           *)
AtMostOneLate == \A t \in Threads : late[t] <= 1

(* But for the switch the promise is that of the client's log: messages    *)
(* appear whole, in the order of the mutex, whatever the threads have seen *)
(* of the flag.                                                            *)
Unswitched == INSTANCE MessageLog WITH
  verbose <- TRUE, accepted <- Waiting, filing <- Filing,
  stdout <- FullStdout, stderr <- FullStderr, file <- FullFile

ImplementsUnswitchedLog == Unswitched!Spec

(* Every call returns: the loop over the lines ends, and the mutex is free *)
(* again for those who wait.  (Only calls that go on without end could     *)
(* starve one of them; here MaxCalls ends them.)                           *)
CallsReturn == \A t \in Threads : message[t] # Idle ~> message[t] = Idle
=============================================================================
