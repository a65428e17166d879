------------------------------ MODULE MessageQueue ------------------------------
(***************************************************************************)
(* agent/message_queue.rs with one consumer like process_queued_messages   *)
(* (AgentProcess has several at once): messages are pushed, popped,        *)
(* delivered or requeued; the file may follow every change; the process    *)
(* may crash and start again.                                              *)
(***************************************************************************)
EXTENDS MessageQueueOps, FiniteSets

CONSTANTS MsgId,         (* messages that may be pushed, each once            *)
          Used,          (* bound: the priorities pushed                      *)
          Persisted,     (* with_persistence (TRUE) or new (FALSE)            *)
          SaveMayFail,   (* whether fs::write may fail                        *)
          MaxCrashes     (* bound: crashes in a behaviour                     *)

ASSUME QueueModes == /\ Persisted \in BOOLEAN /\ SaveMayFail \in BOOLEAN
                     /\ MaxCrashes \in Nat /\ Used \subseteq Priority

VARIABLES queue,      (* the VecDeque, front first                            *)
          held,       (* {} or the message popped and not yet disposed of     *)
          disk,       (* the messages in the file                             *)
          torn,       (* the file was truncated and not written to the end    *)
          up,         (* the process runs and holds a MessageQueue            *)
          clock,      (* insertions so far                                    *)
          accepted,   (* every record ever inserted                           *)
          attempts,   (* how often each message was popped                    *)
          settled,    (* disposed of: delivered, exhausted or no room         *)
          dropped,    (* removed by clear or drain                            *)
          stale,      (* the last save failed: the file is behind             *)
          replayed,   (* a file that was behind has been loaded               *)
          crashes

vars == <<queue, held, disk, torn, up, clock, accepted, attempts, settled,
          dropped, stale, replayed, crashes>>

Ids(q) == {q[i].id : i \in DOMAIN q}

Init == /\ queue = <<>> /\ held = {} /\ disk = <<>> /\ torn = FALSE /\ up = TRUE
        /\ clock = 0 /\ accepted = {} /\ attempts = [m \in MsgId |-> 0]
        /\ settled = {} /\ dropped = {} /\ stale = FALSE /\ crashes = 0
        /\ replayed = FALSE
--------------------------------------------------------------------------------
\* save(): fs::write truncates the file before it writes, so a failure leaves the
\* old contents or a torn file.  A queue without a path saves nothing.
Save(q) ==
  \/ Persisted /\ disk' = q /\ torn' = FALSE /\ stale' = FALSE
  \/ Persisted /\ SaveMayFail /\ stale' = TRUE /\ torn' \in {torn, TRUE} /\ UNCHANGED disk
  \/ ~Persisted /\ UNCHANGED <<disk, torn, stale>>

\* The part of push after the capacity check.
Insert(m) == /\ queue' = Inserted(queue, [m EXCEPT !.at = clock])
             /\ Save(queue')
             /\ clock' = clock + 1
             /\ accepted' = accepted \union {[m EXCEPT !.at = clock]}

Push(id, p) ==
  /\ up /\ id \notin {m.id : m \in accepted} /\ ~Full(queue)
  /\ Insert([id |-> id, prio |-> p, retry |-> 0, at |-> 0])
  /\ UNCHANGED <<held, up, attempts, settled, dropped, crashes, replayed>>

\* Mutant: the message is worked on before the shorter queue is saved.
Pop_Unsaved ==
  /\ up /\ held = {} /\ queue # <<>>
  /\ held' = {Head(queue)}
  /\ queue' = Tail(queue)
  /\ attempts' = [attempts EXCEPT ![Head(queue).id] = @ + 1]
  /\ UNCHANGED <<disk, torn, stale, up, clock, accepted, settled, dropped, crashes, replayed>>

Pop ==
  /\ up /\ held = {} /\ queue # <<>>
  /\ held' = {Head(queue)}
  /\ queue' = Tail(queue)
  /\ Save(queue')
  /\ attempts' = [attempts EXCEPT ![Head(queue).id] = @ + 1]
  /\ UNCHANGED <<up, clock, accepted, settled, dropped, crashes, replayed>>

\* The consumer processed the popped message.
Deliver ==
  /\ up /\ held # {}
  /\ held' = {}
  /\ settled' = settled \union {m.id : m \in held}
  /\ UNCHANGED <<queue, disk, torn, up, clock, accepted, attempts, dropped, stale, crashes,
                 replayed>>

\* The consumer failed: back in the queue behind its priority, unless its retries
\* are exhausted or the queue has filled up meanwhile (push bails, the caller logs).
Requeue ==
  /\ up
  /\ \E m \in held :
       \/ /\ ~RetriesExhausted(Retried(m)) /\ ~Full(queue)
          /\ Insert(Retried(m))
          /\ UNCHANGED settled
       \/ /\ RetriesExhausted(Retried(m)) \/ Full(queue)
          /\ settled' = settled \union {m.id}
          /\ UNCHANGED <<queue, disk, torn, stale, clock, accepted>>
  /\ held' = {}
  /\ UNCHANGED <<up, attempts, dropped, crashes, replayed>>

\* clear() and drain(): empty the queue, then save it.
Clear ==
  /\ up
  /\ dropped' = dropped \union Ids(queue)
  /\ queue' = <<>>
  /\ Save(queue')
  /\ UNCHANGED <<held, up, clock, accepted, attempts, settled, crashes, replayed>>

\* The process dies, possibly inside a save of a persisted queue.
Crash ==
  /\ up /\ crashes < MaxCrashes
  /\ up' = FALSE /\ queue' = <<>> /\ held' = {} /\ crashes' = crashes + 1
  /\ UNCHANGED torn \/ (Persisted /\ torn' = TRUE)
  /\ UNCHANGED <<disk, clock, accepted, attempts, settled, dropped, stale, replayed>>

\* with_persistence: load what the file holds; a torn file fails to deserialize
\* and no queue is created.  new(): an empty queue.
Restart ==
  /\ ~up /\ ~torn
  /\ up' = TRUE /\ queue' = disk
  /\ replayed' = (replayed \/ stale) /\ stale' = FALSE
  /\ UNCHANGED <<held, disk, torn, clock, accepted, attempts, settled, dropped, crashes>>

Next == \/ \E id \in MsgId, p \in Used : Push(id, p)
        \/ Pop \/ Deliver \/ Requeue \/ Clear \/ Crash \/ Restart

Spec == Init /\ [][Next]_vars
--------------------------------------------------------------------------------
TypeOK ==
  /\ queue \in Seq(Message(MsgId)) /\ Len(queue) <= MaxSize
  /\ disk \in Seq(Message(MsgId)) /\ Len(disk) <= MaxSize
  /\ held \subseteq Message(MsgId) /\ \A m, n \in held : m = n
  /\ accepted \subseteq Message(MsgId)
  /\ clock \in Nat /\ crashes \in Nat
  /\ attempts \in [MsgId -> Nat]
  /\ settled \subseteq MsgId /\ dropped \subseteq MsgId
  /\ torn \in BOOLEAN /\ up \in BOOLEAN /\ stale \in BOOLEAN /\ replayed \in BOOLEAN

(***************************************************************************)
(* find_insert_position keeps the queue sorted by priority and, within a   *)
(* priority, by insertion: through pushes, retries and reloads.            *)
(***************************************************************************)
QueueStablyOrdered == StablyOrdered(queue) /\ StablyOrdered(disk)

(***************************************************************************)
(* Every operation that changes a persisted queue saves it: the file is    *)
(* the queue unless the last save failed (or the process is down).         *)
(***************************************************************************)
FileMirrorsQueue == Persisted /\ up /\ ~stale => disk = queue

(***************************************************************************)
(* requeue counts the attempt before it tests the limit: unless a file     *)
(* that was behind is loaded, no message is ever attempted more than       *)
(* max_retries + 1 times, crashes and reloads included.                    *)
(***************************************************************************)
AttemptsBounded == ~replayed => \A m \in MsgId : attempts[m] <= MaxRetries + 1

(***************************************************************************)
(* A message is in at most one place: queued once, in hand, settled or     *)
(* dropped.  Unless the file was behind, a reload never brings back a      *)
(* message already processed (pop saves before the message is worked on).  *)
(***************************************************************************)
NeverTwice ==
  ~replayed =>
  LET inHand == {m.id : m \in held} IN
  /\ \A i, j \in DOMAIN queue : queue[i].id = queue[j].id => i = j
  /\ Ids(queue) \intersect inHand = {}
  /\ settled \intersect (Ids(queue) \union inHand \union dropped) = {}
  /\ dropped \intersect (Ids(queue) \union inHand) = {}

\* A set with the right "next" element is what the list implements.
Buffer == INSTANCE PriorityBuffer
            WITH pending <- {queue[i] : i \in DOMAIN queue}, inhand <- held, seen <- accepted
ImplementsBuffer == Buffer!Spec
================================================================================
