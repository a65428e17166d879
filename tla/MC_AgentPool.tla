------------------------------ MODULE MC_AgentPool ------------------------------
(***************************************************************************)
(* Small instances of AgentPool for TLC; agents and callers are alike.     *)
(***************************************************************************)
EXTENDS AgentPool, TLC

PoolSymmetry == Permutations(AgentId) \union Permutations(Caller)
================================================================================
