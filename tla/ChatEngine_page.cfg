SPECIFICATION FairSpec
CONSTANTS
  j1 = j1  j2 = j2
  c1 = c1  c2 = c2
  Job = {j1, j2}
  Conv = {c1, c2}
  Chats <- MCChats
  MaxTokens = 1
  MaxKills = 1
  None = None
  Torn = Torn
INVARIANTS SteppingHolds QueuedWorkSurvives AnswerStored StopHitsItsJob
PROPERTIES ChainsOffFinished EveryJobsTurn
CHECK_DEADLOCK FALSE
