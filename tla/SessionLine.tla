------------------------------ MODULE SessionLine ------------------------------
(***************************************************************************)
(* What "arbitrates the inference session FIFO across tabs" promises, with *)
(* no messages, no ports and no tabs: calls stand in one line, whose head  *)
(* is given the session when nobody holds it.  Anybody may leave, in the   *)
(* line or with the session, and who has left does not come back.          *)
(***************************************************************************)
EXTENDS Lists

CONSTANT Call

VARIABLES line,     (* who waits, in the order of arrival                      *)
          holding,  (* the at most one call that has the session               *)
          joined    (* every call that has joined the line or never will       *)

vars == <<line, holding, joined>>

Init == line = <<>> /\ holding = {} /\ joined = {}

Join(c) == /\ c \notin joined /\ joined' = joined \union {c}
           /\ line' = Append(line, c)
           /\ UNCHANGED holding

Take == /\ holding = {} /\ line # <<>>
        /\ holding' = {Head(line)} /\ line' = Tail(line)
        /\ UNCHANGED joined

Leave(S) == /\ line' = Without(line, S) /\ holding' = holding \ S
            /\ joined \subseteq joined'

Next == Take \/ (\E c \in Call : Join(c)) \/ (\E S \in SUBSET Call : Leave(S))

Spec == Init /\ [][Next]_vars
================================================================================
