CONSTANTS
  Rank = {0, 1}
  Segments = 4
  analysisInterval = 2
  NodeCount <- FewOrMany
  UINT64_MAX = 1000
  WriterMayFail = FALSE
SPECIFICATION FairSpec
INVARIANTS
  CollectivesMatch
  OutsideRegions
  NoBacklog
  EventsWritten
PROPERTIES
  DriverEnds
