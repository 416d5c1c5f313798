\* Two threads switch debug messages on and off and write three messages.
SPECIFICATION FairServerSpec
CONSTANTS
  Threads = {t1, t2}
  Levels = {"debug", "error"}
  LineCounts = {2}
  MaxCalls = 3
  MaxWrites = 2
  Nobody = Nobody
INVARIANTS
  ServerTypeOK
  AtMostOneLate
PROPERTIES
  ImplementsUnswitchedLog
  CallsReturn
