SPECIFICATION FairSpec
CONSTANTS
  Agent = {a1, a2}
  Tool = {i1}
  NeedsLock = {i1}
  MaxIterations = 3
  MaxCall = 1
  OwnLimit <- UnequalLimits
  SessionLimit = 1
  MaxStops = 1
  MaxCrashes = 1
INVARIANTS OneVerdict Overshoot NeverRunAgain
PROPERTY RunEnds
CHECK_DEADLOCK FALSE
