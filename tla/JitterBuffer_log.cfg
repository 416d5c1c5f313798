SPECIFICATION AutoSpec
CONSTANTS
  WindowSize = 2
  SnapshotInterval = 2
  MinSamples = 2
  HighRun = 2
  LowRun = 2
  CalmPeriod = 2
  Jitters = {3, 120}
  Losses = {0}
  Skips = {0}
  Elapsed = {0, 1}
  Configs <- DefaultOnly
PROPERTY ChangesAreLogged
