---------------------------- MODULE MC_MessageQueue ----------------------------
(***************************************************************************)
(* Small instances of MessageQueue for TLC: the messages are alike except  *)
(* for what is done with them, so their identities may be permuted.        *)
(***************************************************************************)
EXTENDS MessageQueue

MsgSymmetry == Permutations(MsgId)
================================================================================
