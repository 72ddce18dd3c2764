CONSTANTS
  Rank <- TwoRanks
  LastActivity <- Last3
  Tag <- OneTag
  ReverseTag = 10
  Programs <- TestallPrograms
  Timings <- Times2
SPECIFICATION FairSpec
PROPERTIES
  ReplayEnds
CHECK_DEADLOCK FALSE
