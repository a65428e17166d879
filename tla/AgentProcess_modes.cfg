SPECIFICATION FairProcess
CONSTANTS
  Prompt = {m1, m2}
  Pending = pending
  Viewer = {v1}
  Commands = {"UserInput", "QueueMessage", "PlanMode", "PlanInput", "Detach", "ParentExiting", "Cancel", "Exit", "Shutdown"}
  PendingStart = {FALSE}
  MaxSize = 1
  MaxRetries = 1
INVARIANTS MainKeepsPrompts PlanRepliesAdjacent
PROPERTY ExitHappens
CHECK_DEADLOCK FALSE
