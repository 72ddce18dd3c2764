CONSTANTS
  Rank <- TwoRanks
  LastActivity <- Last4
  Tag <- AllTags
  ReverseTag = 10
  Programs <- TwoRankPrograms
  Timings <- Times3
SPECIFICATION AnalysisSpec
INVARIANTS
  WaitsForPartner
  WaitingIsSpent
  BuffersAlive
  NothingLeft
  WaitingIsBlamed
  DetectionInput
PROPERTIES
  NoWaitingOnPath
  AnalysisEnds
