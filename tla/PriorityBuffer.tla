----------------------------- MODULE PriorityBuffer -----------------------------
(***************************************************************************)
(* What a message queue promises, with no list and no position: a set of   *)
(* messages from which the consumer is always given one that no other      *)
(* precedes.  A crash may lose any of them and bring back any accepted one.*)
(***************************************************************************)
EXTENDS MessageQueueOps, FiniteSets

VARIABLES pending,   (* the messages waiting                                  *)
          inhand,    (* the at most one message the consumer is working on    *)
          seen       (* every message ever accepted, each retry included      *)

vars == <<pending, inhand, seen>>

Init == pending = {} /\ inhand = {} /\ seen = {}

\* A message joins the buffer behind every message of its priority.
Add(m) == /\ Cardinality(pending) < MaxSize
          /\ \A n \in pending : n.prio = m.prio => Before(n, m)
          /\ pending' = pending \union {m}
          /\ seen' = seen \union {m}

Accept == (\E m \in pending' \ pending : Add(m)) /\ UNCHANGED inhand

Take == /\ inhand = {}
        /\ \E m \in pending : /\ \A n \in pending \ {m} : Before(m, n)
                              /\ inhand' = {m}
                              /\ pending' = pending \ {m}
        /\ UNCHANGED seen

\* Done with the message: delivered, given up, or no room to retry it.
Settle == inhand # {} /\ inhand' = {} /\ UNCHANGED <<pending, seen>>

Retry == \E m \in inhand, n \in pending' \ pending :
           /\ n = [Retried(m) EXCEPT !.at = n.at]
           /\ Add(n)
           /\ inhand' = {}

Discard == pending' = {} /\ UNCHANGED <<inhand, seen>>

Fail == inhand' = {} /\ pending' = {} /\ UNCHANGED seen

Recover == inhand = {} /\ pending = {} /\ pending' \subseteq seen
           /\ UNCHANGED <<inhand, seen>>

Next == Accept \/ Take \/ Settle \/ Retry \/ Discard \/ Fail \/ Recover

Spec == Init /\ [][Next]_vars
================================================================================
