---------------------------- MODULE MC_SessionArbiter ----------------------------
(***************************************************************************)
(* A small instance of SessionArbiter: two calls in one tab, one in the    *)
(* other.                                                                  *)
(***************************************************************************)
EXTENDS SessionArbiter, TLC

CONSTANTS t1, t2, c1, c2, c3

MCTab == {t1, t2}
MCCall == {c1, c2, c3}
MCOwner == (c1 :> t1) @@ (c2 :> t1) @@ (c3 :> t2)
================================================================================
