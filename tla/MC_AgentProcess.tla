---------------------------- MODULE MC_AgentProcess ----------------------------
(***************************************************************************)
(* Small instances of AgentProcess for TLC.  Messages are alike, and so    *)
(* are viewers; Pending is neither.                                        *)
(***************************************************************************)
EXTENDS AgentProcess

AgentSymmetry == Permutations(Prompt) \union Permutations(Viewer)
================================================================================
