\* Three threads compete for three messages of one or two lines.
SPECIFICATION Spec
CONSTANTS
  Threads = {t1, t2, t3}
  Levels = {"debug", "warn", "error"}
  LineCounts = {1, 2}
  MaxCalls = 3
  Nobody = Nobody
SYMMETRY ThreadSymmetry
INVARIANTS
  TypeOK
  FileMatchesStreams
  WarnedOnce
  AnswersAgree
PROPERTIES
  ImplementsMessageLog
