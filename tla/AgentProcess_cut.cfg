SPECIFICATION ProcessSpec
CONSTANTS
  Prompt = {m1, m2, m3}
  Pending = pending
  Viewer = {v1}
  Commands = {"UserInput", "QueueMessage", "ParentExiting"}
  PendingStart = {FALSE}
  MaxSize = 1
  MaxRetries = 1
SYMMETRY AgentSymmetry
PROPERTY ExitFinishesWork
CHECK_DEADLOCK FALSE
