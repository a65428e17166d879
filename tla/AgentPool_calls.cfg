SPECIFICATION FairPool
CONSTANTS
  AgentId = {a1, a2, a3}
  Caller = {c1, c2}
  MaxAgents = 1
  MayShutdown = TRUE
INVARIANTS MapBounded NoRunningAgentDetached
PROPERTY CallsReturn
CHECK_DEADLOCK FALSE
