SPECIFICATION ProcessSpec
CONSTANTS
  Prompt = {m1, m2, m3, m4}
  Pending = pending
  Viewer = {v1}
  Commands = {"UserInput", "QueueMessage", "ClearHistory"}
  PendingStart = {TRUE, FALSE}
  MaxSize = 1
  MaxRetries = 1
SYMMETRY AgentSymmetry
INVARIANTS ProcessTypeOK QueuedInOnePlace PromptsBounded
CHECK_DEADLOCK FALSE
