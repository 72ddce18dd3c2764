CONSTANTS
  Rank <- ThreeRanks
  LastActivity <- Last3
  Tag <- OneTag
  ReverseTag = 10
  Programs <- RingPrograms
  Timings <- Times2
SPECIFICATION AnalysisSpec
INVARIANTS
  LateIsBlamed
  Acyclic
  WalkGoesBack
