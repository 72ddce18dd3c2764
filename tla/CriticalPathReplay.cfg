CONSTANTS
  r1 = r1
  r2 = r2
  Rank <- TwoRanks
  LastActivity <- Two
  AtomicStarts = {FALSE, TRUE}
SPECIFICATION FairSpec
INVARIANTS
  OneMaster
  FoundWhenLost
  NoStaleMessage
  ProtocolInv
  NoGapLost
  OnlyCrossedGaps
  PathComplete
PROPERTIES
  ImplementsWalk
  Termination
