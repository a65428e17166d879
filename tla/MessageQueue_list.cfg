SPECIFICATION Spec
CONSTANTS
  MsgId = {m1, m2, m3}
  MaxSize = 2
  Used = {1, 2}
  MaxRetries = 1
  Persisted = TRUE
  SaveMayFail = TRUE
  MaxCrashes = 1
SYMMETRY MsgSymmetry
INVARIANTS QueueStablyOrdered NeverTwice
PROPERTY ImplementsBuffer
CHECK_DEADLOCK FALSE
