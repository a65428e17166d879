SPECIFICATION FairSpec
CONSTANTS
  Call = {c1, c2, c3}
  MaxNew = 2
  MayFree = TRUE
INVARIANTS CutOnlyIfAsked AtMostOneLate
PROPERTY CallsReturn
CHECK_DEADLOCK FALSE
