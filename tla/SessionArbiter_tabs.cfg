SPECIFICATION FairSpec
CONSTANTS
  t1 = t1
  t2 = t2
  c1 = c1
  c2 = c2
  c3 = c3
  Tab <- MCTab
  Call <- MCCall
  owner <- MCOwner
  NoCall = none
INVARIANTS Exclusive LostOnlyTwoWays
PROPERTIES FirstComeFirstServed AcquireReturns
CHECK_DEADLOCK FALSE
