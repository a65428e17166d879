SPECIFICATION FairSpec
CONSTANTS
  MaxMessages = 2
  MaxTools = 2
  MaxDetours = 2
  Later = {"UserQuestion"}
INVARIANTS ApprovedByUser NoMessageLost
PROPERTIES CancelledSilent QueuedAreSent
CHECK_DEADLOCK FALSE
