---------------------------- MODULE MessageQueueOps ----------------------------
(***************************************************************************)
(* The pure part of agent/message_queue.rs: where a message goes in the    *)
(* VecDeque, when the queue refuses one, when retries are exhausted.  No   *)
(* variables: MessageQueue and AgentProcess build their actions from it.   *)
(***************************************************************************)
EXTENDS Integers, Sequences, SequencesExt

CONSTANTS MaxSize,     (* max_size: 1000 for MessageQueue::default()          *)
          MaxRetries   (* max_retries: 3 for QueuedMessage::new()             *)

ASSUME QueueLimits == MaxSize \in Nat /\ MaxRetries \in Nat

\* priority_value: Low = 0, Normal = 1, High = 2, System = 3.
Priority == 0..3

\* A QueuedMessage.  "at" is not in the program: it numbers the insertions, so
\* that first-come order can be stated.
Message(Id) == [id: Id, prio: Priority, retry: Nat, at: Nat]

\* Mutant: >= for > in the comparison, a newcomer overtakes its own priority.
InsertPosition_Overtaking(q, prio) ==
  CHOOSE i \in 1..(Len(q) + 1) :
    /\ \A j \in 1..(i - 1) : q[j].prio > prio
    /\ i <= Len(q) => q[i].prio <= prio

\* find_insert_position: before the first strictly lower priority, else the end.
InsertPosition(q, prio) ==
  CHOOSE i \in 1..(Len(q) + 1) :
    /\ \A j \in 1..(i - 1) : q[j].prio >= prio
    /\ i <= Len(q) => q[i].prio < prio

Inserted(q, m) == InsertAt(q, InsertPosition(q, m.prio), m)

\* Mutant: the capacity check lets one message too many in.
Full_OffByOne(q) == Len(q) > MaxSize
Full(q) == Len(q) >= MaxSize

Retried(m) == [m EXCEPT !.retry = @ + 1]

\* Mutant: one attempt too many.
RetriesExhausted_Late(m) == m.retry > MaxRetries + 1
RetriesExhausted(m) == m.retry > MaxRetries

\* Higher priority first, and first come first served within a priority.
Before(m, n) == m.prio > n.prio \/ (m.prio = n.prio /\ m.at < n.at)

StablyOrdered(q) == \A i, j \in 1..Len(q) : i < j => Before(q[i], q[j])
================================================================================
