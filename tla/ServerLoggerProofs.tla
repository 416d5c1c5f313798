------------------------- MODULE ServerLoggerProofs -------------------------
(***************************************************************************)
(* Theorems about ServerLogger, for any set of threads, any messages and   *)
(* any number of calls of SetVerbose.                                      *)
(***************************************************************************)
EXTENDS ServerLogger, LoggerProofs

(* Why one message is all: the thread that accepted it is on its way to    *)
(* the mutex, or has been there and knows the last value of the flag,      *)
(* because the one who set it has been there before.                       *)
LateOK ==
  /\ setter \in Threads => seen[setter] = Len(values)
  /\ told => published = Len(values)
  /\ late \in [Threads -> Nat]
  /\ \A t \in Threads :
       \/ late[t] = 0
       \/ /\ late[t] = 1 /\ told /\ verbose = FALSE
          /\ seen[t] = Len(values) \/ (message[t] # Idle /\ holder # t)

IInv == ServerTypeOK /\ LateOK

(* What ServerTypeOK says of the places in values.                         *)
LEMMA Places ==
  ASSUME ServerTypeOK
  PROVE  /\ Len(values) \in Nat /\ Len(values) >= 1 /\ published \in 1..Len(values)
         /\ \A t \in Threads : seen[t] \in 1..Len(values)
         /\ seen \in [Threads -> 1..Len(values)]
  BY LenProperties DEF ServerTypeOK

(* Taking the mutex, by t.                                                 *)
LEMMA SynchronizeKeeps ==
  ASSUME IInv, NEW t \in Threads, Synchronize(t)
  PROVE  /\ seen' \in [Threads -> 1..Len(values)]
         /\ published' \in 1..Len(values) /\ published' = seen'[t]
         /\ \A u \in Threads : u # t => seen'[u] = seen[u]
         /\ told' => published' = Len(values)
         /\ seen[t] = Len(values) => seen'[t] = Len(values)
         /\ setter \in Threads => seen'[setter] = Len(values)
<1> DEFINE latest == IF seen[t] > published THEN seen[t] ELSE published
<1>1. /\ seen' = [seen EXCEPT ![t] = latest] /\ published' = latest
      /\ told' = (told \/ t = setter)
  BY Zenon DEF Synchronize
<1>2. latest \in 1..Len(values) /\ latest >= seen[t] /\ latest >= published
  BY Places DEF IInv
<1> HIDE DEF latest
<1>3. seen[t] = Len(values) => latest = Len(values)
  BY <1>2, Places DEF IInv
<1>4. told' => latest = Len(values)
  <2>1. CASE told
    <3>1. published = Len(values)
      BY Zenon, <2>1 DEF IInv, LateOK
    <3>. QED  BY <1>2, <3>1, Places DEF IInv
  <2>2. CASE t = setter
    <3>1. seen[t] = Len(values)
      BY Zenon, <2>2 DEF IInv, LateOK
    <3>. QED  BY Zenon, <1>3, <3>1
  <2>. QED  BY Zenon, <1>1, <2>1, <2>2
<1>5. /\ seen' \in [Threads -> 1..Len(values)] /\ seen'[t] = latest
      /\ \A u \in Threads : u # t => seen'[u] = seen[u]
  BY <1>1, <1>2, Places DEF IInv
<1>6. setter \in Threads => seen[setter] = Len(values)
  BY Zenon DEF IInv, LateOK
<1>. QED  BY Zenon, <1>1, <1>2, <1>3, <1>4, <1>5, <1>6

(* A step of the server is one of the client on the client's state.        *)
LEMMA ServerStep == [ServerNext]_serverVars => AnyStep
<1>1. CASE UNCHANGED serverVars
  BY Zenon, <1>1 DEF serverVars, AnyStep
<1>2. CASE ServerNext
  BY Zenon, <1>2 DEF ServerNext, AnyStep, ServerSetVerbose, ServerCall, ServerDiscard,
     ServerEnter, ServerWrite, ServerCurrentLogFilePath
<1>. QED  BY Zenon, <1>1, <1>2

LEMMA ClientTypes ==
  ASSUME ServerTypeOK, [ServerNext]_serverVars
  PROVE  TypeOK'
BY Zenon, ServerStep, StepKeepsTypes DEF ServerTypeOK

LEMMA SetVerboseKeeps ==
  ASSUME IInv, TypeOK', NEW t \in Threads, NEW b \in BOOLEAN, ServerSetVerbose(t, b)
  PROVE  IInv'
<1> DEFINE n == Len(values)
<1>1. /\ values' = Append(values, b) /\ verbose' = b
      /\ seen' = [seen EXCEPT ![t] = n + 1] /\ published' = published
      /\ setter' = t /\ told' = FALSE /\ late' = NotLate
      /\ holder' = holder
  BY Zenon DEF ServerSetVerbose, SetVerbose
<1>2. values \in Seq(BOOLEAN) /\ ServerTypeOK
  BY Zenon DEF IInv, ServerTypeOK
<1>3. /\ values' \in Seq(BOOLEAN) /\ Len(values') = n + 1
      /\ values'[n + 1] = b /\ n \in Nat
  <2>1. /\ Append(values, b) \in Seq(BOOLEAN) /\ Len(Append(values, b)) = Len(values) + 1
        /\ Append(values, b)[Len(values) + 1] = b
    BY <1>2, AppendProperties
  <2>2. n \in Nat
    BY <1>2, LenProperties
  <2>. QED  BY Zenon, <1>1, <2>1, <2>2
<1> HIDE DEF n
<1>4. /\ seen \in [Threads -> 1..n] /\ published \in 1..n
  BY Zenon, <1>2, Places DEF n
<1>5. /\ seen' \in [Threads -> 1..n + 1] /\ published' \in 1..n + 1
      /\ seen'[t] = n + 1
      /\ \A u \in Threads : seen'[u] = seen[u] \/ seen'[u] >= published'
  BY <1>1, <1>3, <1>4
<1>6. holder' # Nobody => published' <= seen'[holder']
  <2>1. holder \in Threads \cup {Nobody} /\ (holder # Nobody => published <= seen[holder])
    BY Zenon, <1>2 DEF ServerTypeOK, TypeOK
  <2>. QED  BY <1>1, <1>4, <1>5, <2>1
<1>7. late' \in [Threads -> Nat] /\ \A u \in Threads : late'[u] = 0
  BY <1>1 DEF NotLate
<1>8. ServerTypeOK'
  BY Zenon, <1>1, <1>3, <1>5, <1>6 DEF ServerTypeOK
<1>9. LateOK'
  BY Zenon, <1>1, <1>3, <1>5, <1>7 DEF LateOK
<1>. QED  BY Zenon, <1>8, <1>9 DEF IInv

(* Log before the mutex, and its early return: t reads the flag.           *)
LEMMA ReadsKeeps ==
  ASSUME IInv, NEW t \in Threads, NEW value \in BOOLEAN, Reads(t, value)
  PROVE  /\ seen' \in [Threads -> 1..Len(values)]
         /\ \A u \in Threads : u # t => seen'[u] = seen[u]
         /\ seen'[t] >= seen[t]
         /\ seen[t] = Len(values) =>
              seen'[t] = Len(values) /\ value = values[Len(values)]
<1>1. PICK i \in seen[t]..Len(values) :
        values[i] = value /\ seen' = [seen EXCEPT ![t] = i]
  BY Zenon DEF Reads
<1>2. seen \in [Threads -> 1..Len(values)] /\ Len(values) \in Nat
  BY Zenon, Places DEF IInv
<1>3. i \in 1..Len(values) /\ i >= seen[t] /\ (seen[t] = Len(values) => i = Len(values))
  BY <1>2
<1>4. seen' \in [Threads -> 1..Len(values)] /\ seen'[t] = i
  BY <1>1, <1>2, <1>3
<1>5. \A u \in Threads : u # t => seen'[u] = seen[u]
  BY <1>1, <1>2
<1>. QED  BY Zenon, <1>1, <1>3, <1>4, <1>5

(* A step in which the places move as they may, and nobody is late anew.   *)
LEMMA MovesKeep ==
  ASSUME IInv, TypeOK',
         UNCHANGED <<values, verbose, setter, late>>,
         told => told',
         seen' \in [Threads -> 1..Len(values)], published' \in 1..Len(values),
         told' => published' = Len(values),
         \A u \in Threads : seen[u] = Len(values) => seen'[u] = Len(values),
         holder' # Nobody => published' <= seen'[holder'],
         \A u \in Threads :
           \/ message[u] # Idle /\ holder # u => message'[u] # Idle /\ holder' # u
           \/ told' => seen'[u] = Len(values)
  PROVE  IInv'
<1>1. /\ values' = values /\ verbose' = verbose /\ setter' = setter /\ late' = late
  BY Zenon
<1>2. ServerTypeOK'
  BY Zenon, <1>1 DEF IInv, ServerTypeOK
<1>3. setter' \in Threads => seen'[setter'] = Len(values')
  BY Zenon, <1>1 DEF IInv, LateOK
<1>4. ASSUME NEW u \in Threads
      PROVE  \/ late'[u] = 0
             \/ /\ late'[u] = 1 /\ told' /\ verbose' = FALSE
                /\ seen'[u] = Len(values') \/ (message'[u] # Idle /\ holder' # u)
  <2>1. \/ late[u] = 0
        \/ /\ late[u] = 1 /\ told /\ verbose = FALSE
           /\ seen[u] = Len(values) \/ (message[u] # Idle /\ holder # u)
    BY Zenon DEF IInv, LateOK
  <2>2. CASE late[u] = 0
    BY Zenon, <1>1, <2>2
  <2>3. CASE /\ late[u] = 1 /\ told /\ verbose = FALSE
             /\ seen[u] = Len(values) \/ (message[u] # Idle /\ holder # u)
    <3>1. late'[u] = 1 /\ told' /\ verbose' = FALSE
      BY Zenon, <1>1, <2>3
    <3>2. seen'[u] = Len(values) \/ (message'[u] # Idle /\ holder' # u)
      BY Zenon, <2>3, <3>1
    <3>. QED  BY Zenon, <1>1, <3>1, <3>2
  <2>. QED  BY Zenon, <2>1, <2>2, <2>3
<1>5. LateOK'
  BY Zenon, <1>1, <1>3, <1>4 DEF IInv, LateOK
<1>. QED  BY Zenon, <1>2, <1>5 DEF IInv
LEMMA BeginMoves ==
  ASSUME TypeOK, NEW t \in Threads, NEW level \in Levels, NEW lines \in LineCounts,
         Begin(t, level, lines)
  PROVE  /\ message[t] = Idle /\ message'[t] # Idle
         /\ \A u \in Threads : u # t => message'[u] = message[u]
         /\ verbose' = verbose /\ holder' = holder /\ holder # t
<1>1. calls + 1 # 0 /\ Idle.call = 0
  BY DEF TypeOK, Idle
<1>2. /\ message' = [message EXCEPT ![t] = [call |-> calls + 1, level |-> level, lines |-> lines]]
      /\ message \in [Threads -> Messages]
  BY Zenon DEF Begin, TypeOK
<1>3. message'[t].call = calls + 1 /\ \A u \in Threads : u # t => message'[u] = message[u]
  BY <1>2
<1>4. message[t] = Idle /\ verbose' = verbose /\ holder' = holder
  BY Zenon DEF Begin
<1>. QED  BY Zenon, <1>1, <1>3, <1>4, HolderIsBusy

LEMMA CallKeeps ==
  ASSUME IInv, TypeOK', NEW t \in Threads, NEW level \in Levels, NEW lines \in LineCounts,
         ServerCall(t, level, lines)
  PROVE  IInv'
<1>1. /\ message[t] = Idle /\ message'[t] # Idle
      /\ \A u \in Threads : u # t => message'[u] = message[u]
      /\ verbose' = verbose /\ holder' = holder /\ holder # t
  BY Zenon, BeginMoves DEF ServerCall, IInv, ServerTypeOK
<1>2. UNCHANGED <<values, published, setter, told>>
  BY Zenon DEF ServerCall
<1>3. /\ seen \in [Threads -> 1..Len(values)] /\ Len(values) \in Nat
      /\ published \in 1..Len(values) /\ \A u \in Threads : seen[u] \in 1..Len(values)
      /\ told => published = Len(values)
      /\ setter \in Threads => seen[setter] = Len(values)
      /\ holder \in Threads \cup {Nobody} /\ (holder # Nobody => published <= seen[holder])
  BY Zenon, Places DEF IInv, LateOK, ServerTypeOK, TypeOK
<1>4. \A u \in Threads : message[u] # Idle /\ holder # u => message'[u] # Idle /\ holder' # u
  BY Zenon, <1>1
<1>5. CASE seen' = seen /\ late' = late
  BY Zenon, <1>1, <1>2, <1>3, <1>4, <1>5, MovesKeep
<1>6. CASE /\ Reads(t, TRUE)
           /\ late' = IF told /\ ~verbose THEN [late EXCEPT ![t] = @ + 1] ELSE late
  <2>1. /\ seen' \in [Threads -> 1..Len(values)]
        /\ \A u \in Threads : u # t => seen'[u] = seen[u]
        /\ seen[t] = Len(values) => seen'[t] = Len(values) /\ values[Len(values)] = TRUE
    BY Zenon, <1>6, ReadsKeeps
  <2>2. \A u \in Threads : seen[u] = Len(values) => seen'[u] = Len(values)
    BY Zenon, <2>1
  <2>3. holder' # Nobody => published' <= seen'[holder']
    BY Zenon, <1>1, <1>2, <1>3, <2>1
  <2>4. CASE ~(told /\ ~verbose)
    <3>1. late' = late
      BY Zenon, <1>6, <2>4
    <3>. QED  BY Zenon, <1>1, <1>2, <1>3, <1>4, <2>1, <2>2, <2>3, <3>1, MovesKeep
  <2>5. CASE told /\ ~verbose
    <3>1. verbose = values[Len(values)] /\ verbose = FALSE
      BY Zenon, <2>5 DEF IInv, ServerTypeOK, TypeOK
    <3>2. seen[t] # Len(values)
      BY Zenon, <2>1, <2>5, <3>1
    <3>3. /\ late \in [Threads -> Nat] /\ late[t] = 0
          /\ \A u \in Threads :
               \/ late[u] = 0
               \/ late[u] = 1 /\ (seen[u] = Len(values) \/ (message[u] # Idle /\ holder # u))
      BY Zenon, <1>1, <3>2 DEF IInv, LateOK
    <3>4. late' = [late EXCEPT ![t] = late[t] + 1]
      BY Zenon, <1>6, <2>5
    <3>5. late' \in [Threads -> Nat] /\ late'[t] = 1 /\ \A u \in Threads : u # t => late'[u] = late[u]
      BY <3>3, <3>4
    <3>6. ASSUME NEW u \in Threads
          PROVE  \/ late'[u] = 0
                 \/ /\ late'[u] = 1
                    /\ seen'[u] = Len(values) \/ (message'[u] # Idle /\ holder' # u)
      BY Zenon, <1>1, <1>4, <2>2, <3>3, <3>5
    <3>7. told' /\ verbose' = FALSE
      BY Zenon, <1>1, <1>2, <2>5, <3>1
    <3>8. setter' \in Threads => seen'[setter'] = Len(values')
      BY Zenon, <1>2, <1>3, <2>2
    <3>9. LateOK'
      BY Zenon, <1>2, <1>3, <3>5, <3>6, <3>7, <3>8 DEF LateOK
    <3>10. ServerTypeOK'
      BY Zenon, <1>1, <1>2, <1>3, <2>1, <2>3, <3>1 DEF IInv, ServerTypeOK
    <3>. QED  BY Zenon, <3>9, <3>10 DEF IInv
  <2>. QED  BY Zenon, <2>4, <2>5
<1>. QED  BY Zenon, <1>5, <1>6 DEF ServerCall

LEMMA DiscardKeeps ==
  ASSUME IInv, TypeOK', NEW t \in Threads, ServerDiscard(t)
  PROVE  IInv'
<1>1. /\ UNCHANGED <<values, published, setter, told, late>>
      /\ verbose' = verbose /\ message' = message /\ holder' = holder
      /\ Reads(t, FALSE) /\ message[t] = Idle
  BY Zenon DEF ServerDiscard, vars
<1>2. /\ published \in 1..Len(values) /\ (told => published = Len(values))
      /\ holder \in Threads \cup {Nobody} /\ (holder # Nobody => published <= seen[holder])
  BY Zenon, Places DEF IInv, LateOK, ServerTypeOK, TypeOK
<1>3. /\ seen' \in [Threads -> 1..Len(values)]
      /\ \A u \in Threads : u # t => seen'[u] = seen[u]
      /\ seen[t] = Len(values) => seen'[t] = Len(values)
  BY Zenon, <1>1, ReadsKeeps
<1>4. holder' # Nobody => published' <= seen'[holder']
  <2>1. holder # t
    BY Zenon, <1>1, HolderIsBusy DEF IInv, ServerTypeOK
  <2>. QED  BY Zenon, <1>1, <1>2, <1>3, <2>1
<1>. QED  BY Zenon, <1>1, <1>2, <1>3, <1>4, MovesKeep
(* Taking the mutex to write, and to ask for the path.                     *)
LEMMA LockKeeps ==
  ASSUME IInv, TypeOK', NEW t \in Threads, Synchronize(t),
         holder = Nobody, verbose' = verbose, message' = message,
         holder' \in {t, Nobody}
  PROVE  IInv'
<1>1. UNCHANGED <<values, setter, late>> /\ (told => told')
  BY Zenon DEF Synchronize
<1>2. /\ seen' \in [Threads -> 1..Len(values)]
      /\ published' \in 1..Len(values) /\ published' = seen'[t]
      /\ \A u \in Threads : u # t => seen'[u] = seen[u]
      /\ told' => published' = Len(values)
      /\ seen[t] = Len(values) => seen'[t] = Len(values)
  BY Zenon, SynchronizeKeeps
<1>3. holder' # Nobody => published' <= seen'[holder']
  <2>1. published' <= seen'[t]
    BY <1>2, Places DEF IInv
  <2>. QED  BY Zenon, <2>1
<1>4. ASSUME NEW u \in Threads
      PROVE  \/ message[u] # Idle /\ holder # u => message'[u] # Idle /\ holder' # u
             \/ told' => seen'[u] = Len(values)
  <2>1. CASE u = t
    BY Zenon, <1>2, <2>1
  <2>2. CASE u # t
    <3>1. u # Nobody
      BY LoggerAssumption
    <3>. QED  BY Zenon, <2>2, <3>1
  <2>. QED  BY Zenon, <2>1, <2>2
<1>5. \A u \in Threads : seen[u] = Len(values) => seen'[u] = Len(values)
  BY Zenon, <1>2
<1>. QED  BY Zenon, <1>1, <1>2, <1>3, <1>4, <1>5, MovesKeep

LEMMA WriteKeeps ==
  ASSUME IInv, TypeOK', NEW t \in Threads, ServerWrite(t)
  PROVE  IInv'
<1>1. UNCHANGED <<values, seen, published, setter, told, late>> /\ verbose' = verbose
  BY Zenon DEF ServerWrite, Write, WriteConsole, WriteFile, flag
<1>2. /\ holder = t /\ t # Nobody
      /\ holder' \in {t, Nobody}
      /\ message' = message \/ message' = [message EXCEPT ![t] = Idle]
  BY Zenon, LoggerAssumption DEF ServerWrite, Write, WriteConsole, WriteFile, Advance
<1>3. message \in [Threads -> Messages]
  BY Zenon DEF IInv, ServerTypeOK, TypeOK
<1>4. \A u \in Threads : u # t => message'[u] = message[u]
  BY <1>2, <1>3
<1>5. \A u \in Threads : message[u] # Idle /\ holder # u => message'[u] # Idle /\ holder' # u
  <2>. SUFFICES ASSUME NEW u \in Threads, message[u] # Idle, holder # u
                PROVE  message'[u] # Idle /\ holder' # u
    OBVIOUS
  <2>1. u # Nobody
    BY LoggerAssumption
  <2>. QED  BY Zenon, <1>2, <1>4, <2>1
<1>6. /\ seen \in [Threads -> 1..Len(values)] /\ published \in 1..Len(values)
      /\ told => published = Len(values)
      /\ holder # Nobody => published <= seen[holder]
  BY Zenon, Places DEF IInv, LateOK, ServerTypeOK
<1>7. holder' # Nobody => published' <= seen'[holder']
  BY Zenon, <1>1, <1>2, <1>6
<1>. QED  BY Zenon, <1>1, <1>5, <1>6, <1>7, MovesKeep

LEMMA InvariantStep == IInv /\ [ServerNext]_serverVars => IInv'
<1>. SUFFICES ASSUME IInv, [ServerNext]_serverVars PROVE IInv'
  OBVIOUS
<1>1. TypeOK'
  BY Zenon, ClientTypes DEF IInv
<1>2. ASSUME NEW t \in Threads, NEW b \in BOOLEAN, ServerSetVerbose(t, b) PROVE IInv'
  BY Zenon, <1>1, <1>2, SetVerboseKeeps
<1>3. ASSUME NEW t \in Threads, NEW level \in Levels, NEW lines \in LineCounts,
             ServerCall(t, level, lines)
      PROVE  IInv'
  BY Zenon, <1>1, <1>3, CallKeeps
<1>4. ASSUME NEW t \in Threads, ServerDiscard(t) PROVE IInv'
  BY Zenon, <1>1, <1>4, DiscardKeeps
<1>5. ASSUME NEW t \in Threads, ServerEnter(t) PROVE IInv'
  BY Zenon, <1>1, <1>5, LockKeeps DEF ServerEnter, Enter
<1>6. ASSUME NEW t \in Threads, ServerWrite(t) PROVE IInv'
  BY Zenon, <1>1, <1>6, WriteKeeps
<1>7. ASSUME NEW t \in Threads, ServerCurrentLogFilePath(t) PROVE IInv'
  BY Zenon, <1>1, <1>7, LockKeeps DEF ServerCurrentLogFilePath, CurrentLogFilePath
<1>8. CASE UNCHANGED serverVars
  <2>1. /\ UNCHANGED <<values, seen, published, setter, told, late>>
        /\ verbose' = verbose /\ holder' = holder /\ message' = message
    BY Zenon, <1>8 DEF serverVars, vars, flag
  <2>2. /\ seen \in [Threads -> 1..Len(values)] /\ published \in 1..Len(values)
        /\ told => published = Len(values)
        /\ holder # Nobody => published <= seen[holder]
    BY Zenon, Places DEF IInv, LateOK, ServerTypeOK
  <2>3. holder' # Nobody => published' <= seen'[holder']
    BY Zenon, <2>1, <2>2
  <2>. QED  BY Zenon, <1>1, <2>1, <2>2, <2>3, MovesKeep
<1>. QED  BY Zenon, <1>2, <1>3, <1>4, <1>5, <1>6, <1>7, <1>8 DEF ServerNext

LEMMA ServerInvariant == ServerSpec => []IInv
<1>1. ServerInit => IInv
  <2>. SUFFICES ASSUME ServerInit PROVE IInv
    OBVIOUS
  <2>1. values \in Seq(BOOLEAN) /\ Len(values) = 1 /\ values[Len(values)] = TRUE
    BY DEF ServerInit
  <2>2. /\ seen \in [Threads -> 1..Len(values)] /\ published \in 1..Len(values)
        /\ late \in [Threads -> Nat] /\ \A t \in Threads : late[t] = 0
    BY <2>1 DEF ServerInit, NotLate
  <2>3. TypeOK /\ holder = Nobody /\ verbose = TRUE /\ told = FALSE /\ setter \notin Threads
    BY Zenon, TypesAtStart, LoggerAssumption DEF ServerInit, Init
  <2>. QED  BY Zenon, <2>1, <2>2, <2>3 DEF IInv, ServerTypeOK, LateOK
<1>. QED  BY <1>1, InvariantStep, PTL DEF ServerSpec

(* The places in the order of the flag's values are ones it has had, and   *)
(* whoever holds the mutex knows what its earlier holders knew.            *)
THEOREM ServerTypeCorrect == ServerSpec => []ServerTypeOK
<1>1. IInv => ServerTypeOK
  BY DEF IInv
<1>. QED  BY <1>1, ServerInvariant, PTL

(* Once debug messages are switched off by a thread that has taken the     *)
(* mutex since, every thread lets one more through at the most, however    *)
(* many threads race on the flag and however often it was switched before. *)
THEOREM OneLateAtMost == ServerSpec => []AtMostOneLate
<1>1. IInv => AtMostOneLate
  <2>. SUFFICES ASSUME IInv, NEW t \in Threads PROVE late[t] <= 1
    BY Zenon DEF AtMostOneLate
  <2>1. late[t] = 0 \/ late[t] = 1
    BY Zenon DEF IInv, LateOK
  <2>. QED  BY <2>1
<1>. QED  BY <1>1, ServerInvariant, PTL
-----------------------------------------------------------------------------
(* The client's invariant holds for the server too, since its proof never  *)
(* asks why a message was accepted.                                        *)
LEMMA ClientInvariant == ServerSpec => [](Inv /\ FileMatchesStreams /\ NothingYet)
<1>1. ServerInit => Inv /\ FileMatchesStreams /\ NothingYet
  BY Zenon, FileAtStart DEF ServerInit
<1>2. /\ Inv /\ FileMatchesStreams /\ NothingYet
      /\ [ServerNext]_serverVars
      => Inv' /\ FileMatchesStreams' /\ NothingYet'
  BY Zenon, ServerStep, InvStep, FileStep
<1>. QED  BY <1>1, <1>2, PTL DEF ServerSpec

(* The server's log file holds what its console has shown, in the order of *)
(* each stream and up to one line, or a beginning of it once a write has   *)
(* failed, whatever the race on the flag lets through.                     *)
THEOREM ServerFileFollowsConsole == ServerSpec => []FileMatchesStreams
BY ClientInvariant, PTL

(* A missing log file is reported once, and the server's threads agree on  *)
(* the path of the file.                                                   *)
THEOREM ServerDecidesOnce == ServerSpec => [](WarnedOnce /\ AnswersAgree)
<1>1. Inv => WarnedOnce /\ AnswersAgree
  BY Zenon, WarnedIsOnce, DecidedAnswers DEF Inv
<1>. QED  BY <1>1, ClientInvariant, PTL

(* The log without a switch and the client's log are one but for the       *)
(* variable verbose.                                                       *)
LEMMA SwitchAside ==
  /\ Promised!DecideOnly => Unswitched!DecideOnly
  /\ Promised!CutOff => Unswitched!CutOff
  /\ UNCHANGED Promised!logVars => UNCHANGED Unswitched!logVars
  /\ \A m : Promised!Publish(m) => Unswitched!Publish(m)
<1>1. Promised!DecideOnly => Unswitched!DecideOnly
  BY Zenon DEF Promised!DecideOnly, Promised!Decide, Promised!WarningDue, Promised!Warning,
     Unswitched!DecideOnly, Unswitched!Decide, Unswitched!WarningDue, Unswitched!Warning
<1>2. Promised!CutOff => Unswitched!CutOff
  BY Zenon DEF Promised!CutOff, Unswitched!CutOff
<1>3. UNCHANGED Promised!logVars => UNCHANGED Unswitched!logVars
  BY Zenon DEF Promised!logVars, Unswitched!logVars
<1>4. ASSUME NEW m, Promised!Publish(m) PROVE Unswitched!Publish(m)
  BY Zenon, <1>4 DEF Promised!Publish, Promised!Decide, Promised!WarningDue, Promised!Warning,
     Promised!LinesFrom, Promised!LineOf,
     Unswitched!Publish, Unswitched!Decide, Unswitched!WarningDue, Unswitched!Warning,
     Unswitched!LinesFrom, Unswitched!LineOf
<1>. QED  BY Zenon, <1>1, <1>2, <1>3, <1>4

(* The server's messages, too, come out whole and one after the other, the *)
(* same order on the console and in the file, decided by the mutex; which  *)
(* debug messages there are is all that the race on the flag can change.   *)
THEOREM ServerImplementsLog == ServerSpec => ImplementsUnswitchedLog
<1>1. ServerInit => Unswitched!Init
  <2>1. Init => Promised!Init
    BY Zenon, MappedAtStart
  <2>. QED  BY Zenon, <2>1 DEF ServerInit, Promised!Init, Unswitched!Init
<1>2. Inv /\ [ServerNext]_serverVars => [Unswitched!Next]_(Unswitched!logVars)
  <2>. SUFFICES ASSUME Inv, AnyStep
                PROVE  Unswitched!Next \/ UNCHANGED Unswitched!logVars
    BY Zenon, ServerStep
  <2>1. ASSUME NEW b \in BOOLEAN, SetVerbose(b) PROVE UNCHANGED Unswitched!logVars
    BY Zenon, <2>1 DEF SetVerbose, Unswitched!logVars, Waiting, Filing,
       FullStdout, FullStderr, FullFile, InHand, ForConsole, fileState, streams, progress
  <2>2. ASSUME NEW t \in Threads, NEW level \in Levels, NEW lines \in LineCounts,
               Begin(t, level, lines)
        PROVE  Unswitched!Next
    BY Zenon, <2>2, BeginAccepts DEF Unswitched!Accept, Unswitched!Next
  <2>3. ASSUME NEW t \in Threads, Enter(t) PROVE Unswitched!Next
    BY Zenon, <2>3, EnterPublishes, SwitchAside DEF Unswitched!Next
  <2>4. ASSUME NEW t \in Threads, CurrentLogFilePath(t) PROVE Unswitched!Next
    BY Zenon, <2>4, AskingDecides, SwitchAside DEF Unswitched!Next
  <2>5. ASSUME NEW t \in Threads, Write(t)
        PROVE  Unswitched!Next \/ UNCHANGED Unswitched!logVars
    BY Zenon, <2>5, ConsoleIsNoStep, FileKeepsOrIsCut, SwitchAside DEF Unswitched!Next, Write
  <2>6. CASE UNCHANGED vars
    BY Zenon, <2>6 DEF vars, Unswitched!logVars, Waiting, Filing, FullStdout, FullStderr,
       FullFile, InHand, ForConsole, fileState, streams, progress
  <2>. QED  BY Zenon, <2>1, <2>2, <2>3, <2>4, <2>5, <2>6 DEF AnyStep
<1>. QED  BY <1>1, <1>2, ClientInvariant, PTL DEF ServerSpec, ImplementsUnswitchedLog,
          Unswitched!Spec
=============================================================================
