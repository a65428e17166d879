----------------------------- MODULE MC_ChatEngine -----------------------------
(***************************************************************************)
(* Two messages, to one conversation or to two.                            *)
(***************************************************************************)
EXTENDS ChatEngine

CONSTANTS j1, j2, c1, c2

MCChats == {j1 :> c1 @@ j2 :> c1, j1 :> c1 @@ j2 :> c2}
================================================================================
