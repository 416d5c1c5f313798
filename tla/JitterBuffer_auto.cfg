SPECIFICATION EvidenceSpec
CONSTANTS
  WindowSize = 5
  SnapshotInterval = 2
  MinSamples = 2
  HighRun = 2
  LowRun = 4
  CalmPeriod = 2
  Jitters = {3, 20, 120}
  Losses = {0, 200}
  Skips = {0}
  Elapsed = {0, 1}
  Configs <- BothConfigs
INVARIANTS
  TypeOK
  NoResidue
  LimitsFollowQuality
  CountersAreEvidence
PROPERTIES
  ImplementsDocumentedModes
  DecidesOnRecentP95
