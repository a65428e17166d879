------------------------------ MODULE MC_TaskAgent ------------------------------
(***************************************************************************)
(* A small instance of TaskAgent for TLC: one agent has a limit for two    *)
(* calls of the largest size, the others for one.                          *)
(***************************************************************************)
EXTENDS TaskAgent

Favoured == CHOOSE a \in Agent : TRUE
UnequalLimits == [a \in Agent |-> IF a = Favoured THEN 2 * MaxCall ELSE MaxCall]
================================================================================
