SPECIFICATION FairSpec
CONSTANTS
  t1 = t1
  t2 = t2
  c1 = c1
  Tab <- MCTab
  Call <- MCCall
  owner <- MCOwner
  MaxTeardowns = 1
  NoTab = none
INVARIANT NothingLeftOfALostCore
PROPERTIES CoreComesBack RpcSettles
CHECK_DEADLOCK FALSE
