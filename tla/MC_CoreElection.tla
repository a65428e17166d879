----------------------------- MODULE MC_CoreElection -----------------------------
(***************************************************************************)
(* A small instance of CoreElection: one tab makes an RPC at a time, and   *)
(* either may host.                                                        *)
(***************************************************************************)
EXTENDS CoreElection, TLC

CONSTANTS t1, t2, c1

MCTab == {t1, t2}
MCCall == {c1}
MCOwner == (c1 :> t1)
================================================================================
