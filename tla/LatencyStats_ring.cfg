\* Histories twice as long as the ring, with readers that lag behind.
SPECIFICATION Spec
CONSTANTS
  MaxSamples = 4
  SnapshotRefreshInterval = 3
  MaxRecords = 7
  Values <- UnevenValues
INVARIANTS
  TypeOK
  RingHoldsLatest
  ReadersSeeRecent
  SummaryOrdered
  PercentilesAreExact
