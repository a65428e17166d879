-------------------------- MODULE AgentMessages_proofs --------------------------
(***************************************************************************)
(* Proofs about the messages an agent is sent.  MessageQueue, for every    *)
(* set of messages, capacity, retry limit and failure mode: it stays       *)
(* stably ordered and implements PriorityBuffer.  AgentProcess, for every  *)
(* set of prompts, viewers and commands: what its tasks do with the queue  *)
(* and the conversations.                                                  *)
(***************************************************************************)
EXTENDS MessageQueue, AgentProcess, SequenceTheorems, FiniteSetTheorems,
        WellFoundedInduction, TLAPS

\* Every nonempty set of natural numbers has a least element.
LEMMA LeastNatural ==
  ASSUME NEW T \in SUBSET Nat, T # {}
  PROVE  \E x \in T : \A y \in T : x <= y
<1> DEFINE Less == {ss \in Nat \X Nat : ss[1] < ss[2]}
<1>1. IsWellFoundedOn(Less, Nat)
  BY NatLessThanWellFounded DEF OpToRel
<1>2. \A x, y \in Nat : ~(<<y, x>> \in Less) => x <= y
  OBVIOUS
<1> HIDE DEF Less
<1>3. PICK x \in T : \A y \in T : ~(<<y, x>> \in Less)
  BY <1>1, WFMin
<1>4. \A y \in T : x <= y
  BY <1>2, <1>3
<1> QED BY <1>4

\* The fields of a message that its place depends on are numbers.
LEMMA MessageFields ==
  ASSUME NEW Id, NEW m \in Message(Id)
  PROVE  m.prio \in Priority /\ m.prio \in Int /\ m.at \in Int
BY DEF Message, Priority

\* find_insert_position returns a position whose predecessors all rank at least
\* as high and whose element, if there is one, ranks lower.
LEMMA InsertPositionSpec ==
  ASSUME NEW Id, NEW q \in Seq(Message(Id)), NEW p \in Priority
  PROVE  LET i == InsertPosition(q, p)
         IN  /\ i \in 1..(Len(q) + 1)
             /\ \A j \in 1..(i - 1) : q[j].prio >= p
             /\ i <= Len(q) => q[i].prio < p
<1> DEFINE Fits(i) == i <= Len(q) => q[i].prio < p
           T == {i \in 1..(Len(q) + 1) : Fits(i)}
<1>1. Len(q) \in Nat /\ \A j \in 1..Len(q) : q[j].prio \in Int
  <2>1. Len(q) \in Nat /\ \A j \in 1..Len(q) : q[j] \in Message(Id)
    BY LenProperties, ElementOfSeq
  <2> QED BY <2>1 DEF Message, Priority
<1>2. T \in SUBSET Nat /\ Len(q) + 1 \in T
  BY <1>1
<1>3. PICK i \in T : \A j \in T : i <= j
  BY <1>2, LeastNatural
<1>4. \A j \in 1..(i - 1) : q[j].prio >= p
  <2> SUFFICES ASSUME NEW j \in 1..(i - 1), ~(q[j].prio >= p) PROVE FALSE
    OBVIOUS
  <2>1. j \in T
    BY <1>1, <1>2, <1>3 DEF Priority
  <2> QED BY <2>1, <1>1, <1>2, <1>3
<1>5. i \in 1..(Len(q) + 1) /\ (i <= Len(q) => q[i].prio < p)
  BY <1>3
<1> QED BY <1>4, <1>5 DEF InsertPosition

\* Inserting shifts the tail by one and keeps everything else in place.
LEMMA InsertedElements ==
  ASSUME NEW Id, NEW q \in Seq(Message(Id)), NEW m \in Message(Id)
  PROVE  LET k == InsertPosition(q, m.prio)
             s == Inserted(q, m)
         IN  /\ s \in Seq(Message(Id))
             /\ Len(s) = Len(q) + 1
             /\ \A j \in 1..(Len(q) + 1) :
                  s[j] = IF j < k THEN q[j] ELSE IF j = k THEN m ELSE q[j - 1]
<1> DEFINE k == InsertPosition(q, m.prio)
           a == SubSeq(q, 1, k - 1)
           b == SubSeq(q, k, Len(q))
<1>1. Len(q) \in Nat /\ \A j \in 1..Len(q) : q[j] \in Message(Id)
  BY LenProperties, ElementOfSeq
<1>2. k \in 1..(Len(q) + 1)
  BY InsertPositionSpec DEF Message
<1> HIDE DEF k
<1>3. /\ a \in Seq(Message(Id)) /\ Len(a) = k - 1
      /\ \A j \in 1..(k - 1) : a[j] = q[j]
  <2>1. 1 \in Int /\ k - 1 \in Int /\ \A j \in 1..(k - 1) : q[j] \in Message(Id)
    BY <1>1, <1>2
  <2>2. /\ a \in Seq(Message(Id))
        /\ Len(a) = IF 1 <= k - 1 THEN (k - 1) - 1 + 1 ELSE 0
        /\ \A j \in 1..((k - 1) - 1 + 1) : a[j] = q[1 + j - 1]
    BY <2>1, SubSeqProperties
  <2>3. 1 <= k - 1 \/ k - 1 = 0
    BY <1>1, <1>2
  <2> HIDE DEF a
  <2> QED BY <2>2, <2>3, <1>1, <1>2
<1>4. /\ b \in Seq(Message(Id)) /\ Len(b) = Len(q) - k + 1
      /\ \A j \in 1..(Len(q) - k + 1) : b[j] = q[k + j - 1]
  <2>1. k \in Int /\ Len(q) \in Int /\ \A j \in k..Len(q) : q[j] \in Message(Id)
    BY <1>1, <1>2
  <2>2. /\ b \in Seq(Message(Id))
        /\ Len(b) = IF k <= Len(q) THEN Len(q) - k + 1 ELSE 0
        /\ \A j \in 1..(Len(q) - k + 1) : b[j] = q[k + j - 1]
    BY <2>1, SubSeqProperties
  <2> HIDE DEF b
  <2> QED BY <2>2, <1>1, <1>2
<1> HIDE DEF a, b
<1> DEFINE one == <<m>>
           c == a \o one
<1>5. one \in Seq(Message(Id)) /\ Len(one) = 1 /\ one[1] = m
  OBVIOUS
<1> HIDE DEF one
<1>6. /\ c \in Seq(Message(Id)) /\ Len(c) = k
      /\ \A j \in 1..(k - 1) : c[j] = q[j]
      /\ c[k] = m
  <2>1. /\ c \in Seq(Message(Id)) /\ Len(c) = Len(a) + Len(one)
        /\ \A j \in 1..(Len(a) + Len(one)) :
             c[j] = IF j <= Len(a) THEN a[j] ELSE one[j - Len(a)]
    BY <1>3, <1>5, ConcatProperties
  <2> HIDE DEF c
  <2> QED BY <2>1, <1>2, <1>3, <1>5
<1> HIDE DEF c
<1>7. /\ c \o b \in Seq(Message(Id)) /\ Len(c \o b) = Len(c) + Len(b)
      /\ \A j \in 1..(Len(c) + Len(b)) :
           (c \o b)[j] = IF j <= Len(c) THEN c[j] ELSE b[j - Len(c)]
  BY <1>4, <1>6, ConcatProperties
<1>8. Inserted(q, m) = c \o b
  BY DEF Inserted, InsertAt, k, a, b, c, one
<1>9. \A j \in 1..(Len(q) + 1) :
        Inserted(q, m)[j] = IF j < k THEN q[j] ELSE IF j = k THEN m ELSE q[j - 1]
  BY <1>1, <1>2, <1>4, <1>6, <1>7, <1>8
<1>10. Inserted(q, m) \in Seq(Message(Id)) /\ Len(Inserted(q, m)) = Len(q) + 1
  BY <1>1, <1>2, <1>4, <1>6, <1>7, <1>8
<1> QED BY <1>9, <1>10 DEF k

\* A message younger than every queued one is inserted without disturbing the order.
LEMMA InsertedOrdered ==
  ASSUME NEW q \in Seq(Message(MsgId)), NEW m \in Message(MsgId), StablyOrdered(q),
         \A j \in 1..Len(q) : q[j].at < m.at
  PROVE  StablyOrdered(Inserted(q, m))
<1> DEFINE k == InsertPosition(q, m.prio)
           s == Inserted(q, m)
<1>1. /\ Len(q) \in Nat
      /\ \A j \in 1..Len(q) : q[j].prio \in Int /\ q[j].at \in Int
      /\ m.prio \in Priority /\ m.prio \in Int /\ m.at \in Int
  <2>1. Len(q) \in Nat /\ \A j \in 1..Len(q) : q[j] \in Message(MsgId)
    BY LenProperties, ElementOfSeq
  <2> QED BY <2>1, MessageFields
<1>2. /\ k \in 1..(Len(q) + 1)
      /\ \A j \in 1..(k - 1) : q[j].prio >= m.prio
      /\ k <= Len(q) => q[k].prio < m.prio
  BY <1>1, InsertPositionSpec
<1>3. /\ Len(s) = Len(q) + 1
      /\ \A j \in 1..(Len(q) + 1) :
           s[j] = IF j < k THEN q[j] ELSE IF j = k THEN m ELSE q[j - 1]
  BY InsertedElements
<1> HIDE DEF k, s
<1>4. \A j \in k..Len(q) : q[j].prio < m.prio
  BY <1>1, <1>2 DEF StablyOrdered, Before
<1> SUFFICES ASSUME NEW i \in 1..Len(s), NEW j \in 1..Len(s), i < j
             PROVE  Before(s[i], s[j])
  BY DEF StablyOrdered, s
<1>5. CASE j < k
  <2>1. s[i] = q[i] /\ s[j] = q[j] /\ i \in 1..Len(q) /\ j \in 1..Len(q)
    BY <1>1, <1>2, <1>3, <1>5
  <2>2. i < j => Before(s[i], s[j])
    BY <2>1, <1>1, <1>5 DEF StablyOrdered
  <2> QED BY <2>2
<1>6. CASE j = k
  BY <1>1, <1>2, <1>3, <1>6 DEF Before
<1>7. CASE j > k /\ i = k
  <2>1. s[i] = m /\ s[j] = q[j - 1] /\ j - 1 \in k..Len(q)
    BY <1>1, <1>2, <1>3, <1>7
  <2> QED BY <2>1, <1>1, <1>4 DEF Before
<1>8. CASE j > k /\ i < k
  <2>1. s[i] = q[i] /\ s[j] = q[j - 1] /\ i \in 1..Len(q) /\ j - 1 \in 1..Len(q) /\ i < j - 1
    BY <1>1, <1>2, <1>3, <1>8
  <2>2. i < j => Before(s[i], s[j])
    BY <2>1, <1>1, <1>8 DEF StablyOrdered
  <2> QED BY <2>2
<1>9. CASE i > k
  <2>1. s[i] = q[i - 1] /\ s[j] = q[j - 1] /\ i - 1 \in 1..Len(q) /\ j - 1 \in 1..Len(q)
    BY <1>1, <1>2, <1>3, <1>9
  <2>2. i < j => Before(s[i], s[j])
    BY <2>1, <1>1, <1>9 DEF StablyOrdered
  <2> QED BY <2>2
<1> QED BY <1>2, <1>5, <1>6, <1>7, <1>8, <1>9, <1>1, <1>3
--------------------------------------------------------------------------------
\* The inductive invariant: the order, and where the messages come from.
Elements(q) == {q[i] : i \in DOMAIN q}

IInv == /\ TypeOK
        /\ QueueStablyOrdered
        /\ Elements(queue) \subseteq accepted
        /\ Elements(disk) \subseteq accepted
        /\ held \subseteq accepted
        /\ \A a \in accepted : a.at < clock
        /\ ~up => queue = <<>> /\ held = {}

\* A stably ordered queue stays so without its head, whose follower it precedes.
LEMMA TailOrdered ==
  ASSUME NEW q \in Seq(Message(MsgId)), q # <<>>, StablyOrdered(q)
  PROVE  /\ StablyOrdered(Tail(q))
         /\ Tail(q) \in Seq(Message(MsgId)) /\ Len(Tail(q)) = Len(q) - 1
         /\ Head(q) \in Message(MsgId)
         /\ Elements(Tail(q)) = Elements(q) \ {Head(q)}
         /\ \A n \in Elements(Tail(q)) : Before(Head(q), n)
<1> DEFINE t == Tail(q)
<1>1. /\ Len(q) \in Nat \ {0} /\ DOMAIN q = 1..Len(q)
      /\ \A i \in 1..Len(q) : q[i] \in Message(MsgId)
  BY LenProperties, ElementOfSeq, EmptySeq
<1>2. /\ t \in Seq(Message(MsgId)) /\ Len(t) = Len(q) - 1
      /\ \A i \in 1..Len(t) : t[i] = q[i + 1]
  BY HeadTailProperties
<1>3. Head(q) = q[1] /\ DOMAIN t = 1..Len(t)
  BY <1>1, <1>2, LenProperties
<1> HIDE DEF t
<1>4. StablyOrdered(t)
  BY <1>1, <1>2 DEF StablyOrdered
<1>5. \A n \in Elements(t) : Before(q[1], n)
  BY <1>1, <1>2, <1>3 DEF StablyOrdered, Elements
<1>6. \A n \in Message(MsgId) : ~Before(n, n)
  BY MessageFields DEF Before
<1>7. Elements(t) = Elements(q) \ {q[1]}
  <2>1. Elements(t) \subseteq Elements(q) \ {q[1]}
    BY <1>1, <1>2, <1>3, <1>5, <1>6 DEF Elements
  <2>2. ASSUME NEW n \in Elements(q), n # q[1] PROVE n \in Elements(t)
    <3>1. PICK i \in 1..Len(q) : n = q[i]
      BY <1>1 DEF Elements
    <3>2. i - 1 \in 1..Len(t) /\ t[i - 1] = n
      BY <3>1, <2>2, <1>1, <1>2
    <3> QED BY <3>2, <1>3 DEF Elements
  <2> QED BY <2>1, <2>2
<1> QED BY <1>1, <1>2, <1>3, <1>4, <1>5, <1>7 DEF t

\* An insertion adds its message to the elements and nothing else.
LEMMA InsertedAdds ==
  ASSUME NEW Id, NEW q \in Seq(Message(Id)), NEW m \in Message(Id)
  PROVE  Elements(Inserted(q, m)) = Elements(q) \union {m}
<1> DEFINE k == InsertPosition(q, m.prio)
           s == Inserted(q, m)
<1>1. Len(q) \in Nat /\ DOMAIN q = 1..Len(q) /\ k \in 1..(Len(q) + 1)
  BY LenProperties, InsertPositionSpec, MessageFields
<1>2. /\ s \in Seq(Message(Id)) /\ Len(s) = Len(q) + 1
      /\ \A j \in 1..(Len(q) + 1) :
           s[j] = IF j < k THEN q[j] ELSE IF j = k THEN m ELSE q[j - 1]
  BY InsertedElements
<1>3. DOMAIN s = 1..(Len(q) + 1)
  BY <1>2, LenProperties
<1> HIDE DEF k, s
<1>4. Elements(s) \subseteq Elements(q) \union {m}
  <2> SUFFICES ASSUME NEW j \in 1..(Len(q) + 1) PROVE s[j] \in Elements(q) \union {m}
    BY <1>3 DEF Elements
  <2>1. CASE j < k
    <3>1. j \in 1..Len(q) /\ s[j] = q[j]
      BY <2>1, <1>1, <1>2
    <3> QED BY <3>1, <1>1 DEF Elements
  <2>2. CASE j = k
    BY <2>2, <1>2
  <2>3. CASE j > k
    <3>1. j - 1 \in 1..Len(q) /\ s[j] = q[j - 1]
      BY <2>3, <1>1, <1>2
    <3> QED BY <3>1, <1>1 DEF Elements
  <2> QED BY <2>1, <2>2, <2>3, <1>1
<1>5. m \in Elements(s)
  BY <1>1, <1>2, <1>3 DEF Elements
<1>6. ASSUME NEW j \in 1..Len(q) PROVE q[j] \in Elements(s)
  <2>1. CASE j < k
    BY <2>1, <1>1, <1>2, <1>3 DEF Elements
  <2>2. CASE j >= k
    <3>1. j + 1 \in 1..(Len(q) + 1) /\ s[j + 1] = q[j]
      BY <2>2, <1>1, <1>2
    <3> QED BY <3>1, <1>3 DEF Elements
  <2> QED BY <2>1, <2>2, <1>1
<1>7. Elements(q) \subseteq Elements(s)
  BY <1>1, <1>6 DEF Elements
<1> QED BY <1>4, <1>5, <1>7 DEF s

\* What Insert does to the state, in terms of the elements.
LEMMA InsertSpec ==
  ASSUME IInv, NEW m \in Message(MsgId), ~Full(queue), Insert(m)
  PROVE  LET n == [m EXCEPT !.at = clock]
         IN  /\ n \in Message(MsgId) /\ n.prio = m.prio /\ n.at = clock
             /\ queue' \in Seq(Message(MsgId)) /\ Len(queue') <= MaxSize
             /\ StablyOrdered(queue')
             /\ Elements(queue') = Elements(queue) \union {n}
             /\ n \notin Elements(queue)
<1> DEFINE n == [m EXCEPT !.at = clock]
<1>1. n \in Message(MsgId) /\ n.prio = m.prio /\ n.at = clock
  BY DEF Message, IInv, TypeOK
<1>2. queue' = Inserted(queue, n)
  BY DEF Insert
<1> HIDE DEF n
<1>3. /\ queue \in Seq(Message(MsgId)) /\ Len(queue) \in Nat /\ DOMAIN queue = 1..Len(queue)
      /\ StablyOrdered(queue)
  BY LenProperties DEF IInv, TypeOK, QueueStablyOrdered
<1>4. \A j \in 1..Len(queue) : queue[j].at < n.at
  BY <1>1, <1>3 DEF IInv, Elements
<1>5. Len(queue) + 1 <= MaxSize
  BY <1>3, QueueLimits DEF Full
<1>6. n \notin Elements(queue)
  BY <1>1, <1>3, <1>4, MessageFields DEF Elements
<1>7. /\ queue' \in Seq(Message(MsgId)) /\ Len(queue') = Len(queue) + 1
  BY <1>1, <1>2, <1>3, InsertedElements
<1>8. StablyOrdered(queue')
  BY <1>1, <1>2, <1>3, <1>4, InsertedOrdered
<1>9. Elements(queue') = Elements(queue) \union {n}
  BY <1>1, <1>2, <1>3, InsertedAdds
<1> QED BY <1>1, <1>5, <1>6, <1>7, <1>8, <1>9 DEF n

\* save() leaves the file as it was or makes it the queue.
LEMMA SaveSpec ==
  ASSUME NEW q, Save(q), torn \in BOOLEAN, stale \in BOOLEAN
  PROVE  (disk' = disk \/ disk' = q) /\ torn' \in BOOLEAN /\ stale' \in BOOLEAN
BY DEF Save

\* The empty queue satisfies everything said of queues.
LEMMA EmptyQueue ==
  /\ <<>> \in Seq(Message(MsgId)) /\ Len(<<>>) <= MaxSize
  /\ StablyOrdered(<<>>) /\ Elements(<<>>) = {}
BY EmptySeq, QueueLimits DEF StablyOrdered, Elements

LEMMA InitInv == Init => IInv
<1> SUFFICES ASSUME Init PROVE IInv
  OBVIOUS
<1>1. TypeOK
  BY EmptyQueue DEF Init, TypeOK
<1>2. QueueStablyOrdered
  BY EmptyQueue DEF Init, QueueStablyOrdered
<1>3. Elements(queue) = {} /\ Elements(disk) = {} /\ held = {} /\ accepted = {} /\ up
  BY EmptyQueue DEF Init
<1> QED BY <1>1, <1>2, <1>3 DEF IInv

LEMMA PushInv ==
  ASSUME IInv, NEW id \in MsgId, NEW p \in Priority, Push(id, p)
  PROVE  IInv'
<1> DEFINE m == [id |-> id, prio |-> p, retry |-> 0, at |-> 0]
           n == [m EXCEPT !.at = clock]
<1>1. m \in Message(MsgId) /\ Insert(m) /\ ~Full(queue)
  BY DEF Push, Message
<1> HIDE DEF m
<1>2. /\ n \in Message(MsgId) /\ n.prio = m.prio /\ n.at = clock
      /\ queue' \in Seq(Message(MsgId)) /\ Len(queue') <= MaxSize
      /\ StablyOrdered(queue') /\ Elements(queue') = Elements(queue) \union {n}
  BY <1>1, InsertSpec
<1>3. /\ clock' = clock + 1 /\ accepted' = accepted \union {n} /\ Save(queue')
  BY <1>1 DEF Insert
<1>4. (disk' = disk \/ disk' = queue') /\ torn' \in BOOLEAN /\ stale' \in BOOLEAN
  BY <1>3, SaveSpec DEF IInv, TypeOK
<1>5. UNCHANGED <<held, up, attempts, settled, dropped, crashes, replayed>> /\ up
  BY DEF Push
<1> HIDE DEF n
<1>6. TypeOK'
  BY <1>2, <1>3, <1>4, <1>5 DEF IInv, TypeOK
<1>7. QueueStablyOrdered'
  BY <1>2, <1>4 DEF IInv, QueueStablyOrdered
<1>8. \A a \in accepted' : a.at < clock'
  BY <1>2, <1>3, MessageFields DEF IInv, TypeOK
<1> QED BY <1>2, <1>3, <1>4, <1>5, <1>6, <1>7, <1>8 DEF IInv

LEMMA PopInv == ASSUME IInv, Pop PROVE IInv'
<1>1. /\ queue \in Seq(Message(MsgId)) /\ queue # <<>> /\ StablyOrdered(queue)
      /\ Len(queue) \in Nat /\ Len(queue) <= MaxSize
  BY LenProperties DEF Pop, IInv, TypeOK, QueueStablyOrdered
<1>2. /\ StablyOrdered(queue') /\ queue' \in Seq(Message(MsgId))
      /\ Len(queue') <= MaxSize
      /\ Head(queue) \in Message(MsgId) /\ held' = {Head(queue)}
      /\ Elements(queue') = Elements(queue) \ {Head(queue)}
  BY <1>1, TailOrdered, QueueLimits DEF Pop
<1>3. Head(queue) \in Elements(queue)
  BY <1>1, LenProperties, HeadTailProperties DEF Elements
<1>4. (disk' = disk \/ disk' = queue') /\ torn' \in BOOLEAN /\ stale' \in BOOLEAN
  BY SaveSpec DEF Pop, IInv, TypeOK
<1>5. attempts' \in [MsgId -> Nat]
  <2>1. Head(queue).id \in MsgId
    BY <1>2 DEF Message
  <2> QED BY <2>1 DEF Pop, IInv, TypeOK
<1>6. UNCHANGED <<up, clock, accepted, settled, dropped, crashes, replayed>> /\ up
  BY DEF Pop
<1>7. TypeOK'
  BY <1>2, <1>4, <1>5, <1>6 DEF IInv, TypeOK
<1>8. QueueStablyOrdered'
  BY <1>2, <1>4 DEF IInv, QueueStablyOrdered
<1> QED BY <1>2, <1>3, <1>4, <1>6, <1>7, <1>8 DEF IInv

LEMMA RequeueInv == ASSUME IInv, Requeue PROVE IInv'
<1> PICK m \in held :
      \/ /\ ~RetriesExhausted(Retried(m)) /\ ~Full(queue)
         /\ Insert(Retried(m))
         /\ UNCHANGED settled
      \/ /\ RetriesExhausted(Retried(m)) \/ Full(queue)
         /\ settled' = settled \union {m.id}
         /\ UNCHANGED <<queue, disk, torn, stale, clock, accepted>>
  BY DEF Requeue
<1>1. up /\ held' = {} /\ UNCHANGED <<up, attempts, dropped, crashes, replayed>>
  BY DEF Requeue
<1>2. m \in Message(MsgId) /\ m.id \in MsgId /\ Retried(m) \in Message(MsgId)
  <2>1. m \in Message(MsgId)
    BY DEF IInv, TypeOK
  <2>2. m.id \in MsgId /\ m.retry + 1 \in Nat
    BY <2>1 DEF Message
  <2> QED BY <2>1, <2>2 DEF Message, Retried
<1>3. CASE UNCHANGED <<queue, disk, torn, stale, clock, accepted>>
  <2>1. settled' \subseteq MsgId
    BY <1>2, <1>3 DEF IInv, TypeOK
  <2>2. TypeOK'
    BY <2>1, <1>1, <1>3 DEF IInv, TypeOK
  <2>3. QueueStablyOrdered'
    BY <1>3 DEF IInv, QueueStablyOrdered
  <2> QED BY <2>2, <2>3, <1>1, <1>3 DEF IInv
<1>4. CASE ~Full(queue) /\ Insert(Retried(m)) /\ UNCHANGED settled
  <2> DEFINE n == [Retried(m) EXCEPT !.at = clock]
  <2>2. /\ n \in Message(MsgId) /\ n.at = clock
        /\ queue' \in Seq(Message(MsgId)) /\ Len(queue') <= MaxSize
        /\ StablyOrdered(queue') /\ Elements(queue') = Elements(queue) \union {n}
    BY <1>2, <1>4, InsertSpec
  <2>3. /\ clock' = clock + 1 /\ accepted' = accepted \union {n} /\ Save(queue')
    BY <1>4 DEF Insert
  <2>4. (disk' = disk \/ disk' = queue') /\ torn' \in BOOLEAN /\ stale' \in BOOLEAN
    BY <2>3, SaveSpec DEF IInv, TypeOK
  <2> HIDE DEF n
  <2>6. TypeOK'
    BY <2>2, <2>3, <2>4, <1>1, <1>4 DEF IInv, TypeOK
  <2>7. QueueStablyOrdered'
    BY <2>2, <2>4 DEF IInv, QueueStablyOrdered
  <2>8. \A a \in accepted' : a.at < clock'
    BY <2>2, <2>3, MessageFields DEF IInv, TypeOK
  <2> QED BY <2>2, <2>3, <2>4, <2>6, <2>7, <2>8, <1>1 DEF IInv
<1> QED BY <1>3, <1>4

\* Clear, Crash and Restart replace the queue by an ordered one.
LEMMA OtherInv ==
  ASSUME IInv, Deliver \/ Clear \/ Crash \/ Restart \/ UNCHANGED vars
  PROVE  IInv'
<1>1. CASE Deliver
  <2>1. settled' \subseteq MsgId
    BY <1>1 DEF Deliver, IInv, TypeOK, Message
  <2> QED BY <2>1, <1>1 DEF Deliver, IInv, TypeOK, QueueStablyOrdered
<1>2. CASE Clear
  <2>1. dropped' \subseteq MsgId
    <3>1. \A i \in DOMAIN queue : queue[i] \in Message(MsgId)
      BY LenProperties, ElementOfSeq DEF IInv, TypeOK
    <3> QED BY <3>1, <1>2 DEF Clear, IInv, TypeOK, Ids, Message
  <2>2. (disk' = disk \/ disk' = queue') /\ torn' \in BOOLEAN /\ stale' \in BOOLEAN
    BY <1>2, SaveSpec DEF Clear, IInv, TypeOK
  <2> QED BY <2>1, <2>2, EmptyQueue, <1>2 DEF Clear, IInv, TypeOK, QueueStablyOrdered
<1>3. CASE Crash
  <2>0. torn' \in BOOLEAN
    BY <1>3 DEF Crash, IInv, TypeOK
  <2>1. crashes' \in Nat
    BY <1>3 DEF Crash, IInv, TypeOK
  <2>2. /\ queue' = <<>> /\ held' = {} /\ ~up' /\ up' \in BOOLEAN
        /\ UNCHANGED <<disk, clock, accepted, attempts, settled, dropped, stale, replayed>>
    BY <1>3 DEF Crash
  <2> QED BY <2>0, <2>1, <2>2, EmptyQueue DEF IInv, TypeOK, QueueStablyOrdered
<1>4. CASE Restart
  BY <1>4 DEF Restart, IInv, TypeOK, QueueStablyOrdered
<1>5. CASE UNCHANGED vars
  BY <1>5 DEF vars, IInv, TypeOK, QueueStablyOrdered
<1> QED BY <1>1, <1>2, <1>3, <1>4, <1>5

LEMMA NextInv == IInv /\ [Next]_vars => IInv'
<1> SUFFICES ASSUME IInv, [Next]_vars PROVE IInv'
  OBVIOUS
<1> QED BY PushInv, PopInv, RequeueInv, OtherInv, QueueModes DEF Next

LEMMA Invariance == Spec => []IInv
BY InitInv, NextInv, PTL DEF Spec

\* The queue is a list of messages within its capacity, and the rest is typed.
THEOREM MessageQueueTypeOK == Spec => []TypeOK
<1>1. IInv => TypeOK
  BY DEF IInv
<1> QED BY <1>1, Invariance, PTL

\* pop always returns the oldest message of the highest priority waiting, whatever
\* was pushed, retried, saved, lost and reloaded before.
THEOREM MessageQueueOrdered == Spec => []QueueStablyOrdered
<1>1. IInv => QueueStablyOrdered
  BY DEF IInv
<1> QED BY <1>1, Invariance, PTL
--------------------------------------------------------------------------------
\* Where each message is and how often it was tried.  Kept apart from IInv: it
\* holds only until a file that was behind has been loaded.

\* What is known of the messages in a list that may be (or become) the queue.
Unspent(q) ==
  /\ \A m, n \in Elements(q) : m.id = n.id => m = n
  /\ \A m \in Elements(q) : /\ m.id \notin settled \union dropped
                            /\ attempts[m.id] = m.retry /\ m.retry <= MaxRetries

HeldOK == \A m \in held :
            /\ m.id \notin settled \union dropped
            /\ \A n \in Elements(queue) : n.id # m.id
            /\ attempts[m.id] = m.retry + 1 /\ m.retry <= MaxRetries

\* Only a message that was accepted has a history.
KnownOK == /\ settled \union dropped \subseteq {a.id : a \in accepted}
           /\ \A m \in MsgId : m \notin {a.id : a \in accepted} => attempts[m] = 0

\* A queue without a path has no file, and nothing to be behind.
NoFileOK == ~Persisted => disk = <<>> /\ ~stale

PlaceInv ==
  /\ IInv /\ FileMirrorsQueue /\ KnownOK /\ NoFileOK
  /\ ~replayed => /\ Unspent(queue) /\ HeldOK /\ AttemptsBounded
                  /\ settled \intersect dropped = {}
                  /\ ~up /\ ~stale => Unspent(disk)

\* After a save the file is the queue, or it is behind, or there is none.
LEMMA SaveMirrors ==
  ASSUME Save(queue'), NoFileOK, up'
  PROVE  FileMirrorsQueue' /\ NoFileOK'
<1>1. CASE Persisted /\ disk' = queue' /\ stale' = FALSE
  BY <1>1 DEF FileMirrorsQueue, NoFileOK
<1>2. CASE Persisted /\ stale' = TRUE
  BY <1>2 DEF FileMirrorsQueue, NoFileOK
<1>3. CASE ~Persisted /\ UNCHANGED <<disk, stale>>
  BY <1>3 DEF FileMirrorsQueue, NoFileOK
<1> QED BY <1>1, <1>2, <1>3 DEF Save

\* What the steps below need of the types.
LEMMA MessageParts ==
  ASSUME IInv
  PROVE  /\ \A m \in Elements(queue) \union held \union accepted :
              m \in Message(MsgId) /\ m.id \in MsgId /\ m.retry \in Nat
         /\ Elements(queue) \subseteq accepted /\ held \subseteq accepted
         /\ MaxRetries \in Nat /\ attempts \in [MsgId -> Nat]
         /\ torn \in BOOLEAN /\ stale \in BOOLEAN
<1>1. Elements(queue) \subseteq accepted /\ held \subseteq accepted
  BY DEF IInv
<1>2. accepted \subseteq Message(MsgId) /\ attempts \in [MsgId -> Nat]
      /\ torn \in BOOLEAN /\ stale \in BOOLEAN
  BY DEF IInv, TypeOK
<1> QED BY <1>1, <1>2, QueueLimits DEF Message

LEMMA EmptyUnspent == Unspent(<<>>) /\ Unspent(<<>>)'
BY EmptyQueue DEF Unspent, Elements

LEMMA InitPlace == Init => PlaceInv
<1> SUFFICES ASSUME Init PROVE PlaceInv
  OBVIOUS
<1>1. IInv
  BY InitInv
<1>2. FileMirrorsQueue /\ KnownOK /\ NoFileOK
  BY DEF Init, FileMirrorsQueue, KnownOK, NoFileOK
<1>3. Unspent(queue) /\ HeldOK /\ AttemptsBounded /\ settled \intersect dropped = {} /\ up
  BY EmptyUnspent, QueueLimits DEF Init, HeldOK, AttemptsBounded
<1> QED BY <1>1, <1>2, <1>3 DEF PlaceInv

LEMMA PushPlace ==
  ASSUME PlaceInv, NEW id \in MsgId, NEW p \in Priority, Push(id, p)
  PROVE  PlaceInv'
<1> DEFINE m == [id |-> id, prio |-> p, retry |-> 0, at |-> 0]
           n == [m EXCEPT !.at = clock]
<1>0. IInv
  BY DEF PlaceInv
<1>1. m \in Message(MsgId) /\ Insert(m) /\ ~Full(queue) /\ n.id = id /\ n.retry = 0
  BY DEF Push, Message
<1>2. Elements(queue') = Elements(queue) \union {n}
  BY <1>0, <1>1, InsertSpec
<1>3. accepted' = accepted \union {n} /\ Save(queue')
  BY <1>1 DEF Insert
<1> HIDE DEF n, m
<1>4. /\ UNCHANGED <<held, up, attempts, settled, dropped, replayed>> /\ up
      /\ id \notin {a.id : a \in accepted}
  BY DEF Push
<1>5. FileMirrorsQueue' /\ NoFileOK'
  BY <1>3, <1>4, SaveMirrors DEF PlaceInv
<1>6. id \notin settled \union dropped /\ attempts[id] = 0
  BY <1>4 DEF PlaceInv, KnownOK
<1>7. KnownOK'
  BY <1>1, <1>3, <1>4 DEF PlaceInv, KnownOK
<1>8. \A a \in Elements(queue) \union held : a.id # id
  BY <1>0, <1>4, MessageParts
<1>9. ASSUME ~replayed PROVE Unspent(queue)' /\ HeldOK' /\ AttemptsBounded'
  <2>1. Unspent(queue) /\ HeldOK /\ AttemptsBounded
    BY <1>9 DEF PlaceInv
  <2>2. Unspent(queue)'
    <3>1. Unspent(queue)' <=>
            /\ \A a, b \in Elements(queue') : a.id = b.id => a = b
            /\ \A a \in Elements(queue') : /\ a.id \notin settled' \union dropped'
                                           /\ attempts'[a.id] = a.retry /\ a.retry <= MaxRetries
      BY DEF Unspent, Elements
    <3> QED BY <2>1, <3>1, <1>0, <1>1, <1>2, <1>4, <1>6, <1>8, MessageParts DEF Unspent
  <2>3. HeldOK'
    <3>1. HeldOK' <=> \A a \in held' :
            /\ a.id \notin settled' \union dropped'
            /\ \A b \in Elements(queue') : b.id # a.id
            /\ attempts'[a.id] = a.retry + 1 /\ a.retry <= MaxRetries
      BY DEF HeldOK, Elements
    <3> QED BY <2>1, <3>1, <1>1, <1>2, <1>4, <1>8 DEF HeldOK
  <2> QED BY <2>1, <2>2, <2>3, <1>4 DEF AttemptsBounded
<1>10. IInv'
  BY <1>0, PushInv
<1> QED BY <1>4, <1>5, <1>7, <1>9, <1>10 DEF PlaceInv

LEMMA PopPlace == ASSUME PlaceInv, Pop PROVE PlaceInv'
<1> DEFINE h == Head(queue)
<1>0. IInv /\ IInv'
  BY PopInv DEF PlaceInv
<1>1. /\ h \in Elements(queue) /\ held' = {h} /\ held = {}
      /\ Elements(queue') = Elements(queue) \ {h}
  <2>1. /\ queue \in Seq(Message(MsgId)) /\ queue # <<>> /\ StablyOrdered(queue)
        /\ queue' = Tail(queue) /\ held' = {h} /\ held = {}
    BY <1>0 DEF Pop, IInv, TypeOK, QueueStablyOrdered
  <2>2. h \in Elements(queue)
    BY <2>1, LenProperties, HeadTailProperties DEF Elements
  <2> QED BY <2>1, <2>2, TailOrdered
<1>2. /\ Save(queue') /\ attempts' = [attempts EXCEPT ![h.id] = @ + 1]
      /\ UNCHANGED <<up, accepted, settled, dropped, replayed>> /\ up
  BY DEF Pop
<1> HIDE DEF h
<1>3. h.id \in MsgId /\ h.retry \in Nat /\ h \in accepted
  BY <1>0, <1>1, MessageParts
<1>4. FileMirrorsQueue' /\ NoFileOK'
  BY <1>2, SaveMirrors DEF PlaceInv
<1>5. KnownOK'
  BY <1>0, <1>2, <1>3, MessageParts DEF PlaceInv, KnownOK
<1>6. ASSUME ~replayed PROVE Unspent(queue)' /\ HeldOK' /\ AttemptsBounded'
  <2>1. Unspent(queue) /\ AttemptsBounded
    BY <1>6 DEF PlaceInv
  <2>2. /\ \A a \in Elements(queue') : a \in Elements(queue) /\ a.id # h.id /\ a.id \in MsgId
        /\ attempts[h.id] = h.retry /\ h.retry <= MaxRetries
        /\ h.id \notin settled \union dropped
    BY <2>1, <1>0, <1>1, MessageParts DEF Unspent
  <2>3. /\ \A a \in Elements(queue') : attempts'[a.id] = attempts[a.id]
        /\ attempts'[h.id] = h.retry + 1
    BY <2>2, <1>0, <1>2, <1>3, MessageParts
  <2>4. Unspent(queue)'
    <3>1. Unspent(queue)' <=>
            /\ \A a, b \in Elements(queue') : a.id = b.id => a = b
            /\ \A a \in Elements(queue') : /\ a.id \notin settled' \union dropped'
                                           /\ attempts'[a.id] = a.retry /\ a.retry <= MaxRetries
      BY DEF Unspent, Elements
    <3> QED BY <2>1, <2>2, <2>3, <3>1, <1>2 DEF Unspent
  <2>5. HeldOK'
    <3>1. HeldOK' <=> \A a \in held' :
            /\ a.id \notin settled' \union dropped'
            /\ \A b \in Elements(queue') : b.id # a.id
            /\ attempts'[a.id] = a.retry + 1 /\ a.retry <= MaxRetries
      BY DEF HeldOK, Elements
    <3> QED BY <2>2, <2>3, <3>1, <1>1, <1>2
  <2>6. AttemptsBounded'
    BY <2>1, <2>2, <1>0, <1>2, <1>3, <1>6, MessageParts DEF AttemptsBounded
  <2> QED BY <2>4, <2>5, <2>6
<1> QED BY <1>0, <1>2, <1>4, <1>5, <1>6 DEF PlaceInv

LEMMA RequeuePlace == ASSUME PlaceInv, Requeue PROVE PlaceInv'
<1>0. IInv /\ IInv'
  BY RequeueInv DEF PlaceInv
<1> PICK m \in held :
      \/ /\ ~RetriesExhausted(Retried(m)) /\ ~Full(queue)
         /\ Insert(Retried(m))
         /\ UNCHANGED settled
      \/ /\ settled' = settled \union {m.id}
         /\ UNCHANGED <<queue, disk, stale, accepted>>
  BY DEF Requeue
<1>1. up /\ held' = {} /\ UNCHANGED <<up, attempts, dropped, replayed>>
  BY DEF Requeue
<1>2. /\ m \in accepted /\ m \in Message(MsgId) /\ m.id \in MsgId /\ m.retry \in Nat
      /\ MaxRetries \in Nat
  BY <1>0, MessageParts
<1>3. HeldOK'
  BY <1>1 DEF HeldOK
<1>4. Unspent(queue)' <=>
        /\ \A a, b \in Elements(queue') : a.id = b.id => a = b
        /\ \A a \in Elements(queue') : /\ a.id \notin settled' \union dropped'
                                       /\ attempts'[a.id] = a.retry /\ a.retry <= MaxRetries
  BY DEF Unspent, Elements
<1>5. ~replayed => /\ Unspent(queue) /\ AttemptsBounded /\ settled \intersect dropped = {}
                   /\ m.id \notin settled \union dropped
                   /\ \A a \in Elements(queue) : a.id # m.id
                   /\ attempts[m.id] = m.retry + 1
  BY DEF PlaceInv, HeldOK
<1>6. CASE settled' = settled \union {m.id} /\ UNCHANGED <<queue, disk, stale, accepted>>
  <2>1. FileMirrorsQueue' /\ NoFileOK'
    BY <1>1, <1>6 DEF PlaceInv, FileMirrorsQueue, NoFileOK
  <2>2. KnownOK'
    BY <1>1, <1>2, <1>6 DEF PlaceInv, KnownOK
  <2>3. ~replayed => Unspent(queue)' /\ AttemptsBounded' /\ settled' \intersect dropped' = {}
    BY <1>1, <1>4, <1>5, <1>6 DEF Unspent, AttemptsBounded
  <2> QED BY <2>1, <2>2, <2>3, <1>0, <1>1, <1>3 DEF PlaceInv
<1>7. CASE /\ ~RetriesExhausted(Retried(m)) /\ ~Full(queue)
           /\ Insert(Retried(m)) /\ UNCHANGED settled
  <2> DEFINE n == [Retried(m) EXCEPT !.at = clock]
  <2>1. /\ Retried(m) \in Message(MsgId)
        /\ n.id = m.id /\ n.retry = m.retry + 1 /\ n.retry <= MaxRetries
    BY <1>2, <1>7 DEF Retried, Message, RetriesExhausted
  <2>2. Elements(queue') = Elements(queue) \union {n}
    BY <2>1, <1>0, <1>7, InsertSpec
  <2>3. Save(queue') /\ accepted' = accepted \union {n}
    BY <1>7 DEF Insert
  <2> HIDE DEF n
  <2>4. FileMirrorsQueue' /\ NoFileOK'
    BY <2>3, <1>1, SaveMirrors DEF PlaceInv
  <2>5. KnownOK'
    BY <2>3, <1>1, <1>7 DEF PlaceInv, KnownOK
  <2>6. ~replayed => Unspent(queue)' /\ AttemptsBounded' /\ settled' \intersect dropped' = {}
    BY <2>1, <2>2, <1>1, <1>4, <1>5, <1>7 DEF Unspent, AttemptsBounded
  <2> QED BY <2>4, <2>5, <2>6, <1>0, <1>1, <1>3 DEF PlaceInv
<1> QED BY <1>6, <1>7

LEMMA OtherPlace ==
  ASSUME PlaceInv, Deliver \/ Clear \/ Crash \/ Restart \/ UNCHANGED vars
  PROVE  PlaceInv'
<1>0. IInv /\ IInv'
  BY OtherInv DEF PlaceInv
<1>1. CASE Deliver
  <2>1. /\ held' = {} /\ settled' = settled \union {m.id : m \in held} /\ up
        /\ UNCHANGED <<queue, disk, up, accepted, attempts, dropped, stale, replayed>>
    BY <1>1 DEF Deliver
  <2>2. FileMirrorsQueue' /\ NoFileOK' /\ HeldOK'
    BY <2>1 DEF PlaceInv, FileMirrorsQueue, NoFileOK, HeldOK
  <2>3. KnownOK'
    BY <2>1, <1>0, MessageParts DEF PlaceInv, KnownOK
  <2>4. ASSUME ~replayed
        PROVE  Unspent(queue)' /\ AttemptsBounded' /\ settled' \intersect dropped' = {}
    <3>1. Unspent(queue) /\ HeldOK /\ AttemptsBounded /\ settled \intersect dropped = {}
      BY <2>4 DEF PlaceInv
    <3> QED BY <3>1, <2>1 DEF Unspent, HeldOK, AttemptsBounded, Elements
  <2> QED BY <2>1, <2>2, <2>3, <2>4, <1>0 DEF PlaceInv
<1>2. CASE Clear
  <2>1. /\ up /\ dropped' = dropped \union Ids(queue) /\ queue' = <<>> /\ Save(queue')
        /\ UNCHANGED <<held, up, accepted, attempts, settled, replayed>>
    BY <1>2 DEF Clear
  <2>2. Ids(queue) = {m.id : m \in Elements(queue)}
    BY DEF Ids, Elements
  <2>3. FileMirrorsQueue' /\ NoFileOK'
    BY <2>1, SaveMirrors DEF PlaceInv
  <2>4. KnownOK'
    BY <2>1, <2>2, <1>0, MessageParts DEF PlaceInv, KnownOK
  <2>5. Elements(queue') = {} /\ Unspent(queue)'
    BY <2>1, EmptyQueue DEF Unspent, Elements
  <2>6. ASSUME ~replayed
        PROVE  HeldOK' /\ AttemptsBounded' /\ settled' \intersect dropped' = {}
    <3>1. Unspent(queue) /\ HeldOK /\ AttemptsBounded /\ settled \intersect dropped = {}
      BY <2>6 DEF PlaceInv
    <3>2. HeldOK'
      <4>1. \A m \in held : m.id \notin settled' \union dropped'
        BY <3>1, <2>1, <2>2 DEF HeldOK
      <4>2. HeldOK' <=> \A a \in held' :
              /\ a.id \notin settled' \union dropped'
              /\ \A b \in Elements(queue') : b.id # a.id
              /\ attempts'[a.id] = a.retry + 1 /\ a.retry <= MaxRetries
        BY DEF HeldOK, Elements
      <4> QED BY <3>1, <4>1, <4>2, <2>1, <2>5 DEF HeldOK
    <3>3. settled' \intersect dropped' = {}
      BY <3>1, <2>1, <2>2 DEF Unspent
    <3> QED BY <3>1, <3>2, <3>3, <2>1 DEF AttemptsBounded
  <2> QED BY <2>1, <2>3, <2>4, <2>5, <2>6, <1>0 DEF PlaceInv
<1>3. CASE Crash
  <2>1. /\ up /\ ~up' /\ queue' = <<>> /\ held' = {}
        /\ UNCHANGED <<disk, accepted, attempts, settled, dropped, stale, replayed>>
    BY <1>3 DEF Crash
  <2>2. FileMirrorsQueue' /\ NoFileOK' /\ KnownOK' /\ HeldOK'
    BY <2>1 DEF PlaceInv, FileMirrorsQueue, NoFileOK, KnownOK, HeldOK
  <2>3. Unspent(queue)'
    BY <2>1, EmptyQueue DEF Unspent, Elements
  <2>4. ASSUME ~replayed, ~stale PROVE Unspent(disk)'
    <3>1. disk = queue \/ disk = <<>>
      BY <2>1, <2>4, QueueModes DEF PlaceInv, FileMirrorsQueue, NoFileOK
    <3>2. Unspent(disk)
      BY <3>1, <2>4, EmptyUnspent DEF PlaceInv
    <3> QED BY <3>2, <2>1 DEF Unspent, Elements
  <2>5. ~replayed => AttemptsBounded' /\ settled' \intersect dropped' = {}
    BY <2>1 DEF PlaceInv, AttemptsBounded
  <2> QED BY <2>1, <2>2, <2>3, <2>4, <2>5, <1>0 DEF PlaceInv
<1>4. CASE Restart
  <2>1. /\ ~up /\ up' /\ queue' = disk /\ replayed' = (replayed \/ stale) /\ ~stale'
        /\ UNCHANGED <<held, disk, accepted, attempts, settled, dropped>>
    BY <1>4 DEF Restart
  <2>2. held = {} /\ HeldOK'
    BY <2>1, <1>0 DEF IInv, HeldOK
  <2>3. FileMirrorsQueue' /\ NoFileOK' /\ KnownOK'
    BY <2>1 DEF PlaceInv, FileMirrorsQueue, NoFileOK, KnownOK
  <2>4. ASSUME ~replayed'
        PROVE  Unspent(queue)' /\ AttemptsBounded' /\ settled' \intersect dropped' = {}
    <3>1. ~replayed /\ ~stale
      BY <2>1, <2>4
    <3>2. Unspent(disk) /\ AttemptsBounded /\ settled \intersect dropped = {}
      BY <3>1, <2>1 DEF PlaceInv
    <3> QED BY <3>1, <3>2, <2>1 DEF Unspent, AttemptsBounded, Elements
  <2> QED BY <2>1, <2>2, <2>3, <2>4, <1>0 DEF PlaceInv
<1>5. CASE UNCHANGED vars
  <2>1. UNCHANGED <<queue, held, disk, up, accepted, attempts, settled, dropped, stale,
                    replayed>>
    BY <1>5 DEF vars
  <2>2. FileMirrorsQueue' /\ NoFileOK' /\ KnownOK' /\ (HeldOK <=> HeldOK')
    BY <2>1 DEF PlaceInv, FileMirrorsQueue, NoFileOK, KnownOK, HeldOK, Elements
  <2>3. (Unspent(queue) <=> Unspent(queue)') /\ (Unspent(disk) <=> Unspent(disk)')
    BY <2>1 DEF Unspent, Elements
  <2>4. AttemptsBounded <=> AttemptsBounded'
    BY <2>1 DEF AttemptsBounded
  <2> QED BY <2>1, <2>2, <2>3, <2>4, <1>0 DEF PlaceInv
<1> QED BY <1>1, <1>2, <1>3, <1>4, <1>5

LEMMA PlaceInvariance == Spec => []PlaceInv
<1>1. PlaceInv /\ [Next]_vars => PlaceInv'
  <2> SUFFICES ASSUME PlaceInv, [Next]_vars PROVE PlaceInv'
    OBVIOUS
  <2> QED BY PushPlace, PopPlace, RequeuePlace, OtherPlace, QueueModes DEF Next
<1> QED BY <1>1, InitPlace, PTL DEF Spec

\* Whatever an operation does to a persisted queue is in the file, unless the save
\* failed: push, pop, requeue, clear and drain all save.
THEOREM MessageQueueFileFollows == Spec => []FileMirrorsQueue
<1>1. PlaceInv => FileMirrorsQueue
  BY DEF PlaceInv
<1> QED BY <1>1, PlaceInvariance, PTL

\* A message is attempted at most max_retries + 1 times, across crashes and reloads.
THEOREM MessageQueueAttempts == Spec => []AttemptsBounded
<1>1. PlaceInv => AttemptsBounded
  BY DEF PlaceInv, AttemptsBounded
<1> QED BY <1>1, PlaceInvariance, PTL

\* A message is queued once, in hand, settled or dropped; a reload brings nothing
\* back that was worked on, because pop saves before it hands out.
THEOREM MessageQueueNeverTwice == Spec => []NeverTwice
<1>1. ASSUME PlaceInv, ~replayed PROVE NeverTwice
  <2>1. Unspent(queue) /\ HeldOK /\ settled \intersect dropped = {}
    BY <1>1 DEF PlaceInv
  <2>2. Ids(queue) = {m.id : m \in Elements(queue)}
    BY DEF Ids, Elements
  <2>3. ASSUME NEW i \in DOMAIN queue, NEW j \in DOMAIN queue, queue[i].id = queue[j].id
        PROVE  i = j
    <3>1. DOMAIN queue = 1..Len(queue) /\ Len(queue) \in Nat /\ StablyOrdered(queue)
          /\ \A k \in 1..Len(queue) : queue[k] \in Message(MsgId)
      BY <1>1, LenProperties, ElementOfSeq DEF PlaceInv, IInv, TypeOK, QueueStablyOrdered
    <3>2. queue[i] = queue[j]
      BY <2>1, <2>3 DEF Unspent, Elements
    <3>3. ~(i < j) /\ ~(j < i)
      BY <3>1, <3>2, MessageFields DEF StablyOrdered, Before
    <3> QED BY <3>1, <3>3
  <2> QED BY <2>1, <2>2, <2>3 DEF NeverTwice, Unspent, HeldOK
<1>2. PlaceInv => NeverTwice
  BY <1>1 DEF NeverTwice
<1> QED BY <1>2, PlaceInvariance, PTL
--------------------------------------------------------------------------------
\* The refinement.  The abstract buffer's pending set is Elements(queue).

\* A queue has at least as many places as elements.
LEMMA ElementsBound ==
  ASSUME NEW q \in Seq(Message(MsgId))
  PROVE  IsFiniteSet(Elements(q)) /\ Cardinality(Elements(q)) <= Len(q)
<1>1. Len(q) \in Nat /\ DOMAIN q = 1..Len(q) /\ q \in [1..Len(q) -> Elements(q)]
  BY LenProperties DEF Elements
<1>2. q \in Surjection(1..Len(q), Elements(q))
  BY <1>1 DEF Surjection, Elements
<1>3. IsFiniteSet(1..Len(q)) /\ Cardinality(1..Len(q)) = Len(q)
  BY <1>1, FS_Interval
<1> QED BY <1>2, <1>3, FS_Surjection

\* An insertion into the list is an Add of the buffer.
LEMMA InsertIsAdd ==
  ASSUME IInv, NEW m \in Message(MsgId), ~Full(queue), Insert(m),
         NEW n, n = [m EXCEPT !.at = clock]
  PROVE  Buffer!Add(n) /\ n \in Elements(queue') \ Elements(queue)
<1>1. /\ n \in Message(MsgId) /\ n.at = clock
      /\ Elements(queue') = Elements(queue) \union {n}
      /\ n \notin Elements(queue)
  BY InsertSpec
<1>2. accepted' = accepted \union {n}
  BY DEF Insert
<1>3. Buffer!Cardinality(Elements(queue)) < MaxSize
  <2>1. queue \in Seq(Message(MsgId)) /\ Len(queue) \in Nat
    BY LenProperties DEF IInv, TypeOK
  <2>2. IsFiniteSet(Elements(queue)) /\ Cardinality(Elements(queue)) <= Len(queue)
    BY <2>1, ElementsBound
  <2>3. Cardinality(Elements(queue)) \in Nat
    BY <2>2, FS_CardinalityType
  <2>4. Cardinality(Elements(queue)) < MaxSize
    BY <2>1, <2>2, <2>3, QueueLimits DEF Full
  <2>5. Buffer!Cardinality(Elements(queue)) = Cardinality(Elements(queue))
    BY DEF Cardinality, Buffer!Cardinality
  <2> QED BY <2>4, <2>5
<1>4. \A o \in Elements(queue) : o.prio = n.prio => Buffer!Before(o, n)
  BY <1>1 DEF IInv, Buffer!Before
<1> QED BY <1>1, <1>2, <1>3, <1>4 DEF Buffer!Add, Elements

LEMMA PushRefines ==
  ASSUME IInv, NEW id \in MsgId, NEW p \in Priority, Push(id, p)
  PROVE  Buffer!Accept
<1>1. PICK m \in Message(MsgId) : Insert(m) /\ ~Full(queue)
  BY DEF Push, Message
<1>2. UNCHANGED held
  BY DEF Push
<1> PICK n : n = [m EXCEPT !.at = clock]
  OBVIOUS
<1>3. Buffer!Add(n) /\ n \in Elements(queue') \ Elements(queue)
  BY <1>1, InsertIsAdd
<1> QED BY <1>2, <1>3 DEF Buffer!Accept, Elements

LEMMA PopRefines == ASSUME IInv, Pop PROVE Buffer!Take
<1>1. queue \in Seq(Message(MsgId)) /\ queue # <<>> /\ StablyOrdered(queue)
  BY DEF Pop, IInv, TypeOK, QueueStablyOrdered
<1>2. /\ Elements(queue') = Elements(queue) \ {Head(queue)}
      /\ \A n \in Elements(queue') : Before(Head(queue), n)
  BY <1>1, TailOrdered DEF Pop
<1>3. Head(queue) \in Elements(queue)
  BY <1>1, LenProperties, HeadTailProperties DEF Elements
<1>4. held = {} /\ held' = {Head(queue)} /\ UNCHANGED accepted
  BY DEF Pop
<1>5. \A m, n : Before(m, n) <=> Buffer!Before(m, n)
  BY DEF Before, Buffer!Before
<1> QED BY <1>2, <1>3, <1>4, <1>5 DEF Buffer!Take, Elements

LEMMA RequeueRefines == ASSUME IInv, Requeue PROVE Buffer!Next
<1> PICK m \in held :
      \/ /\ ~RetriesExhausted(Retried(m)) /\ ~Full(queue)
         /\ Insert(Retried(m))
      \/ UNCHANGED <<queue, accepted>>
  BY DEF Requeue
<1>1. held' = {} /\ held # {}
  BY DEF Requeue
<1>2. CASE UNCHANGED <<queue, accepted>>
  BY <1>1, <1>2 DEF Buffer!Next, Buffer!Settle
<1>3. CASE ~Full(queue) /\ Insert(Retried(m))
  <2> PICK n : n = [Retried(m) EXCEPT !.at = clock]
    OBVIOUS
  <2>1. m \in Message(MsgId) /\ m.id \in MsgId /\ m.retry + 1 \in Nat
    BY DEF IInv, TypeOK, Message
  <2>2. Retried(m) \in Message(MsgId)
    BY <2>1 DEF Retried, Message
  <2>3. Buffer!Add(n) /\ n \in Elements(queue') \ Elements(queue)
    BY <2>2, <1>3, InsertIsAdd
  <2>4. n = [Buffer!Retried(m) EXCEPT !.at = n.at]
    BY <2>1 DEF Retried, Buffer!Retried, Message
  <2>5. Buffer!Retry
    BY <2>3, <2>4, <1>1 DEF Buffer!Retry, Elements
  <2> QED BY <2>5 DEF Buffer!Next
<1> QED BY <1>2, <1>3

LEMMA OtherRefines ==
  ASSUME IInv, Deliver \/ Clear \/ Crash \/ Restart \/ UNCHANGED vars
  PROVE  Buffer!Next \/ UNCHANGED Buffer!vars
<1>1. CASE Deliver
  BY <1>1 DEF Deliver, Buffer!Next, Buffer!Settle
<1>2. CASE Clear
  <2>1. Elements(queue') = {} /\ UNCHANGED <<held, accepted>>
    BY <1>2, EmptyQueue DEF Clear
  <2> QED BY <2>1 DEF Buffer!Next, Buffer!Discard, Elements
<1>3. CASE Crash
  <2>1. Elements(queue') = {} /\ held' = {} /\ UNCHANGED accepted
    BY <1>3, EmptyQueue DEF Crash
  <2> QED BY <2>1 DEF Buffer!Next, Buffer!Fail, Elements
<1>4. CASE Restart
  <2>1. held = {} /\ Elements(queue) = {}
    BY <1>4, EmptyQueue DEF Restart, IInv
  <2>2. Elements(queue') \subseteq accepted /\ UNCHANGED <<held, accepted>>
    BY <1>4 DEF Restart, IInv
  <2> QED BY <2>1, <2>2 DEF Buffer!Next, Buffer!Recover, Elements
<1>5. CASE UNCHANGED vars
  BY <1>5 DEF vars, Buffer!vars
<1> QED BY <1>1, <1>2, <1>3, <1>4, <1>5

\* The list with its insertion scan implements the set from which the oldest message
\* of the highest priority is taken.
THEOREM MessageQueueRefinesBuffer == Spec => ImplementsBuffer
<1>1. Init => Buffer!Init
  BY EmptyQueue DEF Init, Buffer!Init, Elements
<1>2. IInv /\ [Next]_vars => [Buffer!Next]_(Buffer!vars)
  <2> SUFFICES ASSUME IInv, [Next]_vars PROVE Buffer!Next \/ UNCHANGED Buffer!vars
    OBVIOUS
  <2>1. ASSUME NEW id \in MsgId, NEW p \in Priority, Push(id, p) PROVE Buffer!Next
    BY <2>1, PushRefines DEF Buffer!Next
  <2>2. ASSUME Pop PROVE Buffer!Next
    BY <2>2, PopRefines DEF Buffer!Next
  <2> QED BY <2>1, <2>2, RequeueRefines, OtherRefines, QueueModes DEF Next
<1> QED BY <1>1, <1>2, Invariance, PTL DEF Spec, ImplementsBuffer, Buffer!Spec
--------------------------------------------------------------------------------
(* AgentProcess: its inductive invariant. *)

\* The conversations the process keeps.
Logs == {conversation, saved, planStore}

\* How often an entry occurs in a conversation.
Times(c, role, m) == Cardinality({i \in DOMAIN c : c[i] = [role |-> role, id |-> m]})

\* What the stage of a task says of the message it was spawned for.
StagesOK ==
  /\ stage[Pending] \in {"idle", "pending", "resume"}
  /\ stage[Pending] # "idle" => Pending \notin answered
  /\ \A m \in Prompt :
       /\ stage[m] \notin {"pending", "resume"}
       /\ stage[m] \in {"input", "drain", "held", "queued"} => origin[m] \in {"main", "stray"}
       /\ stage[m] \in {"planWait", "plan"} => origin[m] = "plan"
       /\ stage[m] \in {"input", "planWait", "plan"} => m \notin answered
       /\ m \in answered => origin[m] # "new"
  /\ \A o \in Owner : stage[o] \notin {"held", "queued"} => hand[o] = {}

\* A queued message that was neither answered nor given up.
Unsettled(m) == origin[m] = "queue" /\ m \notin answered \union abandoned

DistinctIds(q) == \A i, j \in DOMAIN q : q[i].id = q[j].id => i = j

\* Such a message waits once or is in one hand, and no other does or is.
PlacesOK ==
  /\ DistinctIds(message_queue)
  /\ \A e \in Elements(message_queue) : Unsettled(e.id) /\ e.retry <= MaxRetries
  /\ \A o \in Owner : \A h \in hand[o] :
       /\ Unsettled(h.id) /\ hand[o] = {h} /\ h.retry <= MaxRetries
       /\ \A e \in Elements(message_queue) : e.id # h.id
       /\ \A p \in Owner : \A g \in hand[p] : g.id = h.id => o = p
  /\ \A m \in abandoned : origin[m] = "queue" /\ m \notin answered
  /\ \A m \in Prompt : Unsettled(m) =>
       \/ \E e \in Elements(message_queue) : e.id = m
       \/ \E o \in Owner : \E h \in hand[o] : h.id = m

\* An attempt adds one entry, and a message has had one attempt more than retries
\* from the moment its reply streams.
Counted(c) ==
  /\ \A m \in Prompt :
       /\ Times(c, "assistant", m) <= IF m \in answered THEN 1 ELSE 0
       /\ origin[m] = "new" \/ stage[m] = "planWait" => Times(c, "user", m) = 0
       /\ origin[m] \in {"main", "stray", "plan"} => Times(c, "user", m) <= 1
       /\ origin[m] = "queue" => Times(c, "user", m) <= MaxRetries + 1
  /\ \A e \in Elements(message_queue) : Times(c, "user", e.id) <= e.retry
  /\ \A o \in Owner : \A h \in hand[o] :
       /\ Times(c, "user", h.id) <= h.retry + 1
       /\ stage[o] = "held" => Times(c, "user", h.id) <= h.retry

CountsOK == \A c \in Logs : Counted(c)

\* One plan input at a time, the last entry while its reply streams.
PlanOK ==
  \A m \in Owner : stage[m] = "plan" =>
    /\ conversation # <<>>
    /\ conversation[Len(conversation)] = [role |-> "user", id |-> m]
    /\ \A n \in Owner : stage[n] = "plan" => n = m

\* Only what was answered has a reply in a conversation.
RepliesOK ==
  \A c \in Logs : \A x \in Elements(c) :
    x.role = "assistant" /\ x.id \in Prompt => x.id \in answered

ProcessInv == ProcessTypeOK /\ StagesOK /\ PlacesOK /\ CountsOK /\ PlanOK /\ RepliesOK
                /\ PlanRepliesAdjacent
--------------------------------------------------------------------------------
(* What appending does to a list, and what taking the head does to a queue. *)

LEMMA AppendElements ==
  ASSUME NEW S, NEW c \in Seq(S), NEW x \in S
  PROVE  /\ Append(c, x) \in Seq(S) /\ Len(c) \in Nat /\ DOMAIN c = 1..Len(c)
         /\ DOMAIN Append(c, x) = 1..(Len(c) + 1) /\ Len(Append(c, x)) = Len(c) + 1
         /\ \A i \in 1..Len(c) : Append(c, x)[i] = c[i]
         /\ Append(c, x)[Len(c) + 1] = x
         /\ Elements(Append(c, x)) = Elements(c) \union {x}
<1>1. /\ Append(c, x) \in Seq(S) /\ Len(c) \in Nat /\ DOMAIN c = 1..Len(c)
      /\ DOMAIN Append(c, x) = 1..(Len(c) + 1) /\ Len(Append(c, x)) = Len(c) + 1
      /\ \A i \in 1..Len(c) : Append(c, x)[i] = c[i]
      /\ Append(c, x)[Len(c) + 1] = x
  BY AppendProperties, LenProperties
<1> DEFINE d == Append(c, x)
<1> HIDE DEF d
<1>2. \A y : y \in Elements(d) <=> \E i \in 1..(Len(c) + 1) : y = d[i]
  BY <1>1 DEF Elements, d
<1>3. \A y : y \in Elements(c) <=> \E i \in 1..Len(c) : y = c[i]
  BY <1>1 DEF Elements
<1>4. \A i \in 1..(Len(c) + 1) : i \in 1..Len(c) \/ i = Len(c) + 1
  BY <1>1
<1>5. 1..Len(c) \subseteq 1..(Len(c) + 1) /\ Len(c) + 1 \in 1..(Len(c) + 1)
  BY <1>1
<1>6. \A y : y \in Elements(d) <=> y \in Elements(c) \/ y = x
  BY <1>1, <1>2, <1>3, <1>4, <1>5 DEF d
<1> QED BY <1>1, <1>6 DEF d

\* The head of a queue of distinct messages is not in its tail.
LEMMA TailDistinct ==
  ASSUME NEW Id, NEW q \in Seq(Message(Id)), q # <<>>, DistinctIds(q)
  PROVE  /\ Tail(q) \in Seq(Message(Id)) /\ Len(Tail(q)) = Len(q) - 1
         /\ Head(q) \in Message(Id) /\ DistinctIds(Tail(q))
         /\ Elements(q) = Elements(Tail(q)) \union {Head(q)}
         /\ \A e \in Elements(Tail(q)) : e.id # Head(q).id
<1> DEFINE t == Tail(q)
<1>1. /\ Len(q) \in Nat \ {0} /\ DOMAIN q = 1..Len(q)
      /\ t \in Seq(Message(Id)) /\ Len(t) = Len(q) - 1 /\ DOMAIN t = 1..Len(t)
      /\ \A i \in 1..Len(t) : t[i] = q[i + 1]
      /\ Head(q) = q[1] /\ Head(q) \in Message(Id)
  <2>1. Len(q) \in Nat \ {0} /\ DOMAIN q = 1..Len(q) BY LenProperties, EmptySeq
  <2>2. /\ t \in Seq(Message(Id)) /\ Len(t) = Len(q) - 1
        /\ \A i \in 1..Len(t) : t[i] = q[i + 1]
    BY HeadTailProperties
  <2>3. DOMAIN t = 1..Len(t) BY <2>2, LenProperties
  <2>4. Head(q) = q[1] /\ q[1] \in Message(Id) BY <2>1, ElementOfSeq
  <2> QED BY <2>1, <2>2, <2>3, <2>4
<1> HIDE DEF t
<1>2. \A i \in 1..Len(t) : i + 1 \in 1..Len(q) /\ i + 1 # 1 BY <1>1
<1>3. \A i \in 1..Len(q) : i = 1 \/ (i - 1 \in 1..Len(t) /\ t[i - 1] = q[i])
  BY <1>1
<1>4. DistinctIds(t)
  <2> SUFFICES ASSUME NEW i \in 1..Len(t), NEW j \in 1..Len(t), t[i].id = t[j].id PROVE i = j
    BY <1>1 DEF DistinctIds
  <2>1. i + 1 = j + 1 BY <1>1, <1>2 DEF DistinctIds
  <2> QED BY <2>1
<1>5. \A e \in Elements(t) : e.id # q[1].id
  <2> SUFFICES ASSUME NEW i \in 1..Len(t), t[i].id = q[1].id PROVE FALSE
    BY <1>1 DEF Elements
  <2>1. 1 \in DOMAIN q BY <1>1
  <2>2. i + 1 = 1 BY <1>1, <1>2, <2>1 DEF DistinctIds
  <2> QED BY <2>2
<1>6. Elements(q) = Elements(t) \union {q[1]}
  <2>1. \A y : y \in Elements(q) <=> \E i \in 1..Len(q) : y = q[i] BY <1>1 DEF Elements
  <2>2. \A y : y \in Elements(t) <=> \E i \in 1..Len(t) : y = t[i] BY <1>1 DEF Elements
  <2>3. 1 \in 1..Len(q) BY <1>1
  <2> QED BY <1>1, <1>2, <1>3, <2>1, <2>2, <2>3
<1> QED BY <1>1, <1>4, <1>5, <1>6 DEF t

\* A message whose id is not in the queue keeps it distinct.
LEMMA InsertedDistinct ==
  ASSUME NEW Id, NEW q \in Seq(Message(Id)), DistinctIds(q), NEW m \in Message(Id),
         \A e \in Elements(q) : e.id # m.id
  PROVE  /\ Inserted(q, m) \in Seq(Message(Id)) /\ Len(Inserted(q, m)) = Len(q) + 1
         /\ DistinctIds(Inserted(q, m))
         /\ Elements(Inserted(q, m)) = Elements(q) \union {m}
<1> DEFINE k == InsertPosition(q, m.prio)
           s == Inserted(q, m)
<1>1. Len(q) \in Nat /\ DOMAIN q = 1..Len(q) /\ k \in 1..(Len(q) + 1)
  BY LenProperties, InsertPositionSpec, MessageFields
<1>2. /\ s \in Seq(Message(Id)) /\ Len(s) = Len(q) + 1
      /\ \A j \in 1..(Len(q) + 1) :
           s[j] = IF j < k THEN q[j] ELSE IF j = k THEN m ELSE q[j - 1]
  BY InsertedElements
<1>3. DOMAIN s = 1..(Len(q) + 1) BY <1>2, LenProperties
<1>4. Elements(s) = Elements(q) \union {m} BY InsertedAdds
<1> HIDE DEF k, s
<1>5. \A j \in 1..Len(q) : q[j].id # m.id BY <1>1 DEF Elements
<1> DEFINE old(j) == IF j < k THEN j ELSE j - 1
<1>6. \A j \in 1..(Len(q) + 1) : j # k => old(j) \in 1..Len(q) /\ s[j] = q[old(j)]
  BY <1>1, <1>2
<1>7. \A i, j \in 1..(Len(q) + 1) : i # k /\ j # k /\ old(i) = old(j) => i = j
  BY <1>1
<1>8. s[k] = m BY <1>1, <1>2
<1> HIDE DEF old
<1>9. DistinctIds(s)
  <2> SUFFICES ASSUME NEW i \in 1..(Len(q) + 1), NEW j \in 1..(Len(q) + 1), s[i].id = s[j].id
               PROVE  i = j
    BY <1>3 DEF DistinctIds
  <2>1. CASE i = k \/ j = k BY <2>1, <1>5, <1>6, <1>8
  <2>2. CASE i # k /\ j # k
    <3>1. old(i) = old(j) BY <2>2, <1>1, <1>6 DEF DistinctIds
    <3> QED BY <2>2, <3>1, <1>7
  <2> QED BY <2>1, <2>2
<1> QED BY <1>2, <1>4, <1>9 DEF s

\* An append adds one to the occurrences of its entry and to no other.
LEMMA TimesAppend ==
  ASSUME NEW S, NEW c \in Seq(S), NEW x \in S, NEW role, NEW m
  PROVE  /\ Times(c, role, m) \in Nat
         /\ Times(Append(c, x), role, m)
              = Times(c, role, m) + IF x = [role |-> role, id |-> m] THEN 1 ELSE 0
<1> DEFINE d == Append(c, x)
           at_c == {i \in 1..Len(c) : c[i] = [role |-> role, id |-> m]}
           at_d == {i \in 1..(Len(c) + 1) : d[i] = [role |-> role, id |-> m]}
<1>1. /\ Len(c) \in Nat /\ DOMAIN c = 1..Len(c) /\ DOMAIN d = 1..(Len(c) + 1)
      /\ \A i \in 1..Len(c) : d[i] = c[i]
      /\ d[Len(c) + 1] = x
  BY AppendElements
<1>2. Times(c, role, m) = Cardinality(at_c) /\ Times(d, role, m) = Cardinality(at_d)
  BY <1>1 DEF Times
<1>3. IsFiniteSet(1..Len(c)) BY <1>1, FS_Interval
<1>4. IsFiniteSet(at_c) /\ Cardinality(at_c) \in Nat BY <1>3, FS_Subset, FS_CardinalityType
<1>5. Len(c) + 1 \notin at_c BY <1>1
<1>6. at_d = IF x = [role |-> role, id |-> m] THEN at_c \union {Len(c) + 1} ELSE at_c
  <2>1. 1..(Len(c) + 1) = (1..Len(c)) \union {Len(c) + 1} BY <1>1
  <2> QED BY <1>1, <2>1
<1> HIDE DEF d, at_c, at_d
<1>7. Cardinality(at_c \union {Len(c) + 1}) = Cardinality(at_c) + 1
  BY <1>4, <1>5, FS_AddElement
<1> QED BY <1>2, <1>4, <1>6, <1>7 DEF d

LEMMA TimesNat == \A c \in Seq(Entry) : \A role, m : Times(c, role, m) \in Nat
<1> SUFFICES ASSUME NEW c \in Seq(Entry), NEW role, NEW m PROVE Times(c, role, m) \in Nat
  OBVIOUS
<1>1. [role |-> "user", id |-> Pending] \in Entry BY DEF Entry, Owner
<1> QED BY <1>1, TimesAppend

LEMMA TimesEmpty == \A role, m : Times(<<>>, role, m) = 0
<1> SUFFICES ASSUME NEW role, NEW m PROVE Times(<<>>, role, m) = 0 OBVIOUS
<1>1. {i \in DOMAIN <<>> : <<>>[i] = [role |-> role, id |-> m]} = {} OBVIOUS
<1> QED BY <1>1, FS_EmptySet DEF Times

\* The conversations after a step that adds one entry to the current one.
LEMMA LogsSaid ==
  ASSUME ProcessTypeOK, NEW r \in {"user", "assistant"}, NEW m \in Owner,
         conversation' = Said(r, m), UNCHANGED modes
  PROVE  /\ conversation' \in Seq(Entry)
         /\ \A d \in Logs' : \E c \in Logs :
              /\ \A role, n : /\ Times(c, role, n) \in Nat /\ Times(d, role, n) \in Nat
                              /\ Times(d, role, n) <= Times(c, role, n) + 1
                              /\ role # r \/ n # m => Times(d, role, n) <= Times(c, role, n)
              /\ Elements(d) \subseteq Elements(c) \union {[role |-> r, id |-> m]}
<1> DEFINE x == [role |-> r, id |-> m]
           Grown(d, c) ==
             /\ \A role, n : /\ Times(c, role, n) \in Nat /\ Times(d, role, n) \in Nat
                             /\ Times(d, role, n) <= Times(c, role, n) + 1
                             /\ role # r \/ n # m => Times(d, role, n) <= Times(c, role, n)
             /\ Elements(d) \subseteq Elements(c) \union {x}
<1>1. \A c \in Logs : c \in Seq(Entry) BY DEF Logs, ProcessTypeOK
<1>2. \A c \in Logs : \A role, n : Times(c, role, n) \in Nat BY <1>1, TimesNat
<1>3. conversation \in Seq(Entry) /\ conversation' = Append(conversation, x) /\ x \in Entry
  BY <1>1 DEF Logs, Said, Entry
<1>4. conversation' \in Seq(Entry) /\ Elements(conversation') = Elements(conversation) \union {x}
  BY <1>3, AppendElements
<1>5. \A role, n : /\ Times(conversation, role, n) \in Nat
                   /\ Times(conversation', role, n) = Times(conversation, role, n)
                         + IF x = [role |-> role, id |-> n] THEN 1 ELSE 0
  BY <1>3, TimesAppend
<1>6. \A role, n : role # r \/ n # m => x # [role |-> role, id |-> n]
  <2> SUFFICES ASSUME NEW role, NEW n, x = [role |-> role, id |-> n] PROVE role = r /\ n = m
    OBVIOUS
  <2>1. x.role = role /\ x.id = n OBVIOUS
  <2> QED BY <2>1
<1>7. Grown(conversation', conversation)
  <2> HIDE DEF x
  <2>1. \A role, n : /\ Times(conversation', role, n) \in Nat
                     /\ Times(conversation', role, n) <= Times(conversation, role, n) + 1
                     /\ role # r \/ n # m =>
                          Times(conversation', role, n) <= Times(conversation, role, n)
    BY <1>5, <1>6
  <2> QED BY <2>1, <1>4, <1>5
<1>8. ASSUME NEW d \in Logs PROVE Grown(d, d)
  <2>1. \A role, n : Times(d, role, n) \in Nat BY <1>2
  <2>2. \A role, n : /\ Times(d, role, n) <= Times(d, role, n) + 1
                     /\ Times(d, role, n) <= Times(d, role, n)
    BY <2>1
  <2> QED BY <2>1, <2>2
<1>9. \A d \in Logs' : d = conversation' \/ d \in Logs BY DEF Logs, modes
<1>10. conversation \in Logs BY DEF Logs
<1> HIDE DEF Grown
<1>11. \A d \in Logs' : \E c \in Logs : Grown(d, c) BY <1>7, <1>8, <1>9, <1>10
<1> QED BY <1>4, <1>11 DEF Grown

\* The conversations after a step that only copies, clears or swaps them.
LEMMA LogsKept ==
  ASSUME ProcessTypeOK, Logs' \subseteq Logs \union {<<>>}
  PROVE  \A d \in Logs' :
           \/ d \in Logs
           \/ Elements(d) = {} /\ \A role, m : Times(d, role, m) = 0
  BY TimesEmpty DEF Elements
--------------------------------------------------------------------------------
(* Steps that leave the tasks and the queue alone. *)

\* Steps of connections and flags disturb nothing.
LEMMA QuietKeeps ==
  ASSUME ProcessInv, UNCHANGED <<context, work, history>>,
         process' \in {"up", "closing", "gone"}, viewer' \in [Viewer -> {"new", "open", "closed"}],
         busy' \in BOOLEAN, exitWhenDone' \in BOOLEAN
  PROVE  ProcessInv'
<1> USE DEF ProcessInv, context, work, history, modes
<1>1. ProcessTypeOK' BY DEF ProcessTypeOK
<1>2. StagesOK' BY DEF StagesOK
<1>3. PlacesOK' BY DEF PlacesOK, Unsettled
<1>4. Logs' = Logs BY DEF Logs
<1>5. CountsOK' BY <1>4 DEF CountsOK, Counted
<1>6. PlanOK' BY DEF PlanOK
<1>7. RepliesOK' BY <1>4 DEF RepliesOK
<1>8. PlanRepliesAdjacent' BY DEF PlanRepliesAdjacent
<1> QED BY <1>1, <1>2, <1>3, <1>5, <1>6, <1>7, <1>8

LEMMA ProcessQuiet ==
  ASSUME ProcessInv,
         \/ \E v \in Viewer : \/ Attach(v) \/ Leave(v) \/ Cancel(v) \/ Detach(v) \/ Exit(v)
                              \/ ParentExiting(v) \/ ParentShutdown(v)
         \/ ExitCheck \/ Terminate \/ UNCHANGED processVars
  PROVE  ProcessInv'
<1> USE DEF ProcessInv, ProcessTypeOK, Close, flags, history, work
<1>1. ASSUME NEW v \in Viewer,
             \/ Attach(v) \/ Leave(v) \/ Cancel(v) \/ Detach(v) \/ Exit(v)
             \/ ParentExiting(v) \/ ParentShutdown(v)
      PROVE  /\ UNCHANGED <<context, work, history>> /\ process' = process
             /\ viewer' \in [Viewer -> {"new", "open", "closed"}]
             /\ busy' \in BOOLEAN /\ exitWhenDone' \in BOOLEAN
  BY <1>1 DEF Attach, Leave, Cancel, Detach, Exit, ParentExiting, ParentShutdown
<1>2. CASE ExitCheck \/ Terminate BY <1>2, QuietKeeps DEF ExitCheck, Terminate
<1>3. CASE UNCHANGED processVars BY <1>3, QuietKeeps DEF processVars
<1> QED BY <1>1, <1>2, <1>3, QuietKeeps

\* What holds of every conversation holds of a copy, and of an empty one.
LEMMA ProcessModes ==
  ASSUME ProcessInv,
         \E v \in Viewer : ClearHistory(v) \/ EnterPlanMode(v) \/ ExitPlanMode(v)
  PROVE  ProcessInv'
<1> USE DEF ProcessInv
<1>1. /\ UNCHANGED <<process, viewer, flags, work, history>> /\ ~Locked
      /\ planMode' \in BOOLEAN
      /\ conversation' \in {conversation, saved, planStore, <<>>}
      /\ saved' \in {conversation, saved, planStore, <<>>}
      /\ planStore' \in {conversation, saved, planStore, <<>>}
  BY DEF ClearHistory, EnterPlanMode, ExitPlanMode, Sends, Alive, ProcessTypeOK, context, modes
<1>2. ProcessTypeOK'
  <2>1. <<>> \in Seq(Entry) OBVIOUS
  <2> QED BY <1>1, <2>1 DEF ProcessTypeOK, flags, work, history
<1>3. Logs' \subseteq Logs \union {<<>>} BY <1>1 DEF Logs
<1>4. \A d \in Logs' : d \in Logs \/ (Elements(d) = {} /\ \A role, m : Times(d, role, m) = 0)
  BY <1>3, LogsKept
<1>5. StagesOK' BY <1>1 DEF StagesOK, work, history
<1>6. PlacesOK' BY <1>1 DEF PlacesOK, Unsettled, work, history
<1>7. CountsOK'
  <2>1. ASSUME NEW d \in Logs PROVE Counted(d)' BY <1>1 DEF CountsOK, Counted, work, history
  <2>2. ASSUME NEW d, \A role, m : Times(d, role, m) = 0 PROVE Counted(d)'
    <3>1. MaxRetries \in Nat /\ \A m \in Message(Prompt) : m.retry \in Nat
      BY QueueLimits DEF Message
    <3>2. /\ \A e \in Elements(message_queue) : e \in Message(Prompt)
          /\ \A o \in Owner : \A h \in hand[o] : h \in Message(Prompt)
      BY LenProperties, ElementOfSeq DEF ProcessTypeOK, Elements
    <3> QED BY <1>1, <2>2, <3>1, <3>2 DEF Counted, work, history
  <2> QED BY <1>4, <2>1, <2>2 DEF CountsOK
<1>8. PlanOK' BY <1>1 DEF PlanOK, Locked, work, history
<1>9. RepliesOK' BY <1>1, <1>4 DEF RepliesOK, work, history
<1>10. PlanRepliesAdjacent'
  <2>1. \A d \in {conversation, saved, planStore}' :
          d \in {conversation, saved, planStore} \/ d = <<>>
    BY <1>1
  <2> QED BY <1>1, <2>1 DEF PlanRepliesAdjacent, history
<1> QED BY <1>2, <1>5, <1>6, <1>7, <1>8, <1>9, <1>10
--------------------------------------------------------------------------------
(* Steps of tasks. *)

\* An entry that is added is no reply, or the reply to the plan input before it, or
\* the reply to a message of another kind.
LEMMA SaidReplies ==
  ASSUME ProcessInv, NEW r \in {"user", "assistant"}, NEW m \in Owner,
         conversation' = Said(r, m), UNCHANGED modes, answered \subseteq answered',
         \A n \in Prompt : n \in answered => origin'[n] = origin[n],
         r = "assistant" /\ m \in Prompt =>
           /\ m \in answered'
           /\ origin'[m] = "plan" =>
                /\ conversation # <<>>
                /\ conversation[Len(conversation)] = [role |-> "user", id |-> m]
  PROVE  RepliesOK' /\ PlanRepliesAdjacent'
<1> DEFINE x == [role |-> r, id |-> m]
<1> USE DEF ProcessInv
<1>1. conversation \in Seq(Entry) /\ conversation' = Append(conversation, x) /\ x \in Entry
  BY DEF ProcessTypeOK, Said, Entry
<1>2. /\ Len(conversation) \in Nat /\ DOMAIN conversation = 1..Len(conversation)
      /\ DOMAIN conversation' = 1..(Len(conversation) + 1)
      /\ \A i \in 1..Len(conversation) : conversation'[i] = conversation[i]
      /\ conversation'[Len(conversation) + 1] = x
  BY <1>1, AppendElements
<1>3. RepliesOK'
  <2>1. \A d \in Logs' : \E c \in Logs : Elements(d) \subseteq Elements(c) \union {x}
    BY LogsSaid
  <2>2. x.role = r /\ x.id = m OBVIOUS
  <2> HIDE DEF x
  <2> QED BY <2>1, <2>2 DEF RepliesOK
<1>4. ASSUME NEW c \in {conversation, saved, planStore}, NEW i \in DOMAIN c,
             c[i].role = "assistant", c[i].id \in Prompt, origin'[c[i].id] = "plan"
      PROVE  i > 1 /\ c[i - 1] = [role |-> "user", id |-> c[i].id]
  <2>1. c[i].id \in answered BY <1>4 DEF RepliesOK, Logs, Elements
  <2> QED BY <1>4, <2>1 DEF PlanRepliesAdjacent
<1>5. ASSUME NEW i \in DOMAIN conversation', conversation'[i].role = "assistant",
             conversation'[i].id \in Prompt, origin'[conversation'[i].id] = "plan"
      PROVE  i > 1 /\ conversation'[i - 1] = [role |-> "user", id |-> conversation'[i].id]
  <2>1. CASE i \in 1..Len(conversation)
    <3>1. i > 1 /\ conversation[i - 1] = [role |-> "user", id |-> conversation[i].id]
      BY <1>2, <1>4, <1>5, <2>1
    <3>2. i - 1 \in 1..Len(conversation) BY <1>2, <2>1, <3>1
    <3> QED BY <1>2, <2>1, <3>1, <3>2
  <2>2. CASE i = Len(conversation) + 1
    <3>1. r = "assistant" /\ m \in Prompt /\ origin'[m] = "plan" BY <1>2, <1>5, <2>2
    <3>2. Len(conversation) # 0 BY <1>1, <3>1, EmptySeq
    <3>3. Len(conversation) \in 1..Len(conversation) BY <1>2, <3>2
    <3>4. conversation'[i].id = m BY <1>2, <2>2
    <3>5. i - 1 = Len(conversation) /\ i > 1 BY <1>2, <2>2, <3>2
    <3> QED BY <1>2, <3>1, <3>3, <3>4, <3>5
  <2> QED BY <1>2, <2>1, <2>2
<1>6. saved' = saved /\ planStore' = planStore BY DEF modes
<1>7. PlanRepliesAdjacent' BY <1>4, <1>5, <1>6 DEF PlanRepliesAdjacent
<1> QED BY <1>3, <1>7

\* Without a new entry it is enough that no answered prompt changes its kind.
LEMMA KeptReplies ==
  ASSUME ProcessInv, UNCHANGED context, answered \subseteq answered',
         \A n \in Prompt : n \in answered => origin'[n] = origin[n]
  PROVE  RepliesOK' /\ PlanRepliesAdjacent'
<1> USE DEF ProcessInv, context, modes
<1>1. RepliesOK' BY DEF RepliesOK, Logs
<1>2. \A c \in {conversation, saved, planStore} : \A i \in DOMAIN c :
        c[i].role = "assistant" /\ c[i].id \in Prompt => c[i].id \in answered
  BY DEF RepliesOK, Logs, Elements
<1>3. PlanRepliesAdjacent' BY <1>2 DEF PlanRepliesAdjacent
<1> QED BY <1>1, <1>3

\* The messages in the queue and in hand are records with a prompt for id.
LEMMA HeldMessages ==
  ASSUME ProcessTypeOK
  PROVE  /\ \A e \in Elements(message_queue) : e.id \in Prompt /\ e.retry \in Nat
         /\ \A o \in Owner : \A h \in hand[o] :
              h \in Message(Prompt) /\ h.id \in Prompt /\ h.retry \in Nat
         /\ Prompt \subseteq Owner /\ Pending \in Owner /\ Pending \notin Prompt
         /\ abandoned \subseteq Prompt
<1>1. \A e \in Elements(message_queue) : e \in Message(Prompt)
  BY LenProperties, ElementOfSeq DEF ProcessTypeOK, Elements
<1>2. \A o \in Owner : \A h \in hand[o] : h \in Message(Prompt) BY DEF ProcessTypeOK
<1>3. abandoned \subseteq Prompt BY DEF ProcessTypeOK
<1> QED BY <1>1, <1>2, <1>3, AgentModes DEF Message, Owner

\* No task works on a prompt that has not come in.
LEMMA NewPrompt ==
  ASSUME ProcessInv, NEW m \in Prompt, origin[m] = "new"
  PROVE  /\ m \in Owner /\ m \notin answered /\ m \notin abandoned
         /\ stage[m] = "idle" /\ hand[m] = {}
<1> USE DEF ProcessInv
<1>1. m \in Owner BY DEF Owner
<1>2. m \notin answered BY DEF StagesOK
<1>3. m \notin abandoned BY DEF PlacesOK
<1>4. stage[m] \in Stage BY <1>1 DEF ProcessTypeOK
<1>5. stage[m] \notin {"pending", "resume", "input", "drain", "held", "queued", "planWait", "plan"}
  BY DEF StagesOK
<1>6. stage[m] = "idle" BY <1>4, <1>5 DEF Stage
<1>7. hand[m] = {} BY <1>1, <1>6 DEF StagesOK
<1> QED BY <1>1, <1>2, <1>3, <1>6, <1>7

\* The queue and the hands are as they were, and so is what they say of a prompt.
LEMMA PlacesKept ==
  ASSUME ProcessInv, UNCHANGED <<message_queue, hand, answered, abandoned>>,
         \A n \in Prompt : Unsettled(n)' <=> Unsettled(n),
         \A n \in Prompt : origin[n] = "queue" => origin'[n] = "queue"
  PROVE  PlacesOK'
<1> USE HeldMessages DEF ProcessInv
<1>1. \A e \in Elements(message_queue) : Unsettled(e.id)' /\ e.retry <= MaxRetries
  BY DEF PlacesOK
<1>2. \A o \in Owner : \A h \in hand[o] :
       /\ Unsettled(h.id)' /\ hand[o] = {h} /\ h.retry <= MaxRetries
       /\ \A e \in Elements(message_queue) : e.id # h.id
       /\ \A p \in Owner : \A g \in hand[p] : g.id = h.id => o = p
  BY DEF PlacesOK
<1>3. \A n \in abandoned : origin'[n] = "queue" /\ n \notin answered BY DEF PlacesOK
<1>4. \A n \in Prompt : Unsettled(n)' =>
       \/ \E e \in Elements(message_queue) : e.id = n
       \/ \E o \in Owner : \E h \in hand[o] : h.id = n
  BY DEF PlacesOK
<1> HIDE DEF ProcessInv
<1>5. DistinctIds(message_queue') BY DEF ProcessInv, PlacesOK
<1> QED BY <1>1, <1>2, <1>3, <1>4, <1>5 DEF PlacesOK

\* The counts after an input, of either mode, enters the conversation.
LEMMA CountsInput ==
  ASSUME ProcessInv, NEW m \in Prompt, conversation' = Said("user", m), UNCHANGED modes,
         UNCHANGED <<message_queue, hand, answered>>,
         origin[m] = "new" \/ stage[m] = "planWait", origin'[m] \in {"main", "stray", "plan"},
         \A n \in Prompt : n # m => origin'[n] = origin[n],
         stage'[m] \in {"input", "plan"}, \A o \in Owner : o # m => stage'[o] = stage[o],
         hand[m] = {}, \A e \in Elements(message_queue) : e.id # m,
         \A o \in Owner : \A h \in hand[o] : h.id # m
  PROVE  CountsOK'
<1> USE DEF ProcessInv
<1> SUFFICES ASSUME NEW d \in Logs' PROVE Counted(d)' BY DEF CountsOK
<1>1. m \in Owner BY DEF Owner
<1>2. PICK c \in Logs :
        \A role, n : /\ Times(c, role, n) \in Nat /\ Times(d, role, n) \in Nat
                     /\ Times(d, role, n) <= Times(c, role, n) + 1
                     /\ role # "user" \/ n # m => Times(d, role, n) <= Times(c, role, n)
  BY <1>1, LogsSaid
<1>3. Counted(c) BY DEF CountsOK
<1>4. /\ \A e \in Elements(message_queue) : e.id \in Prompt /\ e.retry \in Nat
      /\ \A o \in Owner : \A h \in hand[o] : h.id \in Prompt /\ h.retry \in Nat
      /\ MaxRetries \in Nat
  BY HeldMessages, QueueLimits
<1>5. \A n : /\ Times(d, "assistant", n) <= Times(c, "assistant", n)
             /\ n # m => Times(d, "user", n) <= Times(c, "user", n)
  BY <1>2
<1>6. Times(d, "user", m) <= 1 BY <1>2, <1>3 DEF Counted
<1> HIDE DEF ProcessInv
<1>7. ASSUME NEW n \in Prompt
      PROVE  /\ Times(d, "assistant", n) <= IF n \in answered' THEN 1 ELSE 0
             /\ origin'[n] = "new" \/ stage'[n] = "planWait" => Times(d, "user", n) = 0
             /\ origin'[n] \in {"main", "stray", "plan"} => Times(d, "user", n) <= 1
             /\ origin'[n] = "queue" => Times(d, "user", n) <= MaxRetries + 1
  <2>1. CASE n = m BY <1>2, <1>3, <1>5, <1>6, <2>1 DEF Counted
  <2>2. CASE n # m
    <3>1. origin'[n] = origin[n] /\ stage'[n] = stage[n] BY <2>2 DEF Owner
    <3> QED BY <1>2, <1>3, <1>4, <1>5, <2>2, <3>1 DEF Counted
  <2> QED BY <2>1, <2>2
<1>8. \A e \in Elements(message_queue) : Times(d, "user", e.id) <= e.retry
  BY <1>2, <1>3, <1>4, <1>5 DEF Counted
<1>9. ASSUME NEW o \in Owner, NEW h \in hand[o]
      PROVE  /\ Times(d, "user", h.id) <= h.retry + 1
             /\ stage'[o] = "held" => Times(d, "user", h.id) <= h.retry
  <2>1. o # m /\ h.id # m /\ stage'[o] = stage[o] OBVIOUS
  <2>2. /\ Times(d, "user", h.id) <= Times(c, "user", h.id) /\ h.retry \in Nat
        /\ Times(d, "user", h.id) \in Nat /\ Times(c, "user", h.id) \in Nat
    BY <1>2, <1>4, <1>5, <2>1
  <2>3. /\ Times(c, "user", h.id) <= h.retry + 1
        /\ stage[o] = "held" => Times(c, "user", h.id) <= h.retry
    BY <1>3 DEF Counted
  <2> QED BY <2>1, <2>2, <2>3
<1> QED BY <1>7, <1>8, <1>9 DEF Counted

LEMMA ProcessUserInput ==
  ASSUME ProcessInv, NEW v \in Viewer, NEW m \in Prompt, UserInput(v, m)
  PROVE  ProcessInv'
<1> USE HeldMessages DEF ProcessInv
<1>1. /\ conversation' = Said("user", m) /\ busy' = TRUE
      /\ stage' = [stage EXCEPT ![m] = "input"]
      /\ origin[m] = "new" /\ origin' \in [Prompt -> {"new", "main", "stray", "plan", "queue"}]
      /\ origin'[m] \in {"main", "stray"} /\ \A n \in Prompt : n # m => origin'[n] = origin[n]
      /\ UNCHANGED <<process, viewer, exitWhenDone, planMode, saved, planStore>>
      /\ UNCHANGED <<message_queue, hand, answered, abandoned>> /\ ~Locked
  BY DEF UserInput, Sends, Alive, modes, ProcessTypeOK
<1> USE <1>1
<1>2. m \in Owner /\ UNCHANGED modes BY DEF modes
<1>3. conversation' \in Seq(Entry) BY <1>2, LogsSaid
<1>4. ProcessTypeOK' BY <1>3 DEF ProcessTypeOK, Stage
<1>5. m \notin answered /\ m \notin abandoned /\ stage[m] = "idle" /\ hand[m] = {}
  BY NewPrompt
<1>6. StagesOK' BY <1>5 DEF StagesOK, ProcessTypeOK
<1>7. \A n \in Prompt : Unsettled(n)' <=> Unsettled(n) BY DEF Unsettled
<1>8. PlacesOK' BY <1>7, PlacesKept
<1>9. CountsOK'
  <2>1. \A o \in Owner : o # m => stage'[o] = stage[o] BY DEF ProcessTypeOK
  <2>2. stage'[m] = "input" BY <1>2 DEF ProcessTypeOK
  <2>3. \A e \in Elements(message_queue) : e.id # m BY DEF PlacesOK, Unsettled
  <2>4. \A o \in Owner : \A h \in hand[o] : h.id # m BY DEF PlacesOK, Unsettled
  <2> QED BY <1>2, <1>5, <2>1, <2>2, <2>3, <2>4, CountsInput
<1>10. PlanOK' BY DEF PlanOK, Locked, ProcessTypeOK
<1>11. RepliesOK' /\ PlanRepliesAdjacent' BY <1>2, <1>5, SaidReplies
<1> QED BY <1>4, <1>6, <1>8, <1>9, <1>10, <1>11

LEMMA ProcessPlanInput ==
  ASSUME ProcessInv, NEW v \in Viewer, NEW m \in Prompt, PlanModeUserInput(v, m)
  PROVE  ProcessInv'
<1> USE HeldMessages DEF ProcessInv
<1>1. /\ stage' = [stage EXCEPT ![m] = "planWait"] /\ origin[m] = "new"
      /\ origin' = [origin EXCEPT ![m] = "plan"]
      /\ UNCHANGED <<process, viewer, busy, exitWhenDone, context>>
      /\ UNCHANGED <<conversation, planMode, saved, planStore>>
      /\ UNCHANGED <<message_queue, hand, answered, abandoned>> /\ ~Locked
  BY DEF PlanModeUserInput, Sends, Alive, context, modes, flags
<1> USE <1>1
<1>2. m \in Owner /\ m \notin answered /\ m \notin abandoned /\ stage[m] = "idle" /\ hand[m] = {}
  BY NewPrompt
<1>3. ProcessTypeOK' BY DEF ProcessTypeOK, Stage
<1>4. StagesOK' BY <1>2 DEF StagesOK, ProcessTypeOK
<1>5. \A n \in Prompt : Unsettled(n)' <=> Unsettled(n) BY DEF Unsettled, ProcessTypeOK
<1>6. PlacesOK'
  <2>1. \A n \in Prompt : origin[n] = "queue" => origin'[n] = "queue" BY DEF ProcessTypeOK
  <2> QED BY <1>5, <2>1, PlacesKept
<1>7. CountsOK'
  <2> SUFFICES ASSUME NEW c \in Logs PROVE Counted(c)' BY DEF CountsOK, Logs
  <2>1. Counted(c) BY DEF CountsOK
  <2>2. \A o \in Owner : \A h \in hand[o] : h.id # m /\ o # m BY <1>2 DEF PlacesOK, Unsettled
  <2> HIDE DEF ProcessInv
  <2> QED BY <2>1, <2>2 DEF Counted, ProcessTypeOK
<1>8. PlanOK' BY DEF PlanOK, Locked, ProcessTypeOK
<1>9. RepliesOK' /\ PlanRepliesAdjacent' BY <1>2, KeptReplies DEF ProcessTypeOK
<1> QED BY <1>3, <1>4, <1>6, <1>7, <1>8, <1>9

\* A stage that changes with nothing else but the flags.
LEMMA StageMoves ==
  ASSUME ProcessInv, NEW o \in Owner, NEW to \in {"idle", "resume", "drain"},
         stage' = [stage EXCEPT ![o] = to], busy' \in BOOLEAN,
         UNCHANGED <<process, viewer, exitWhenDone, context, message_queue, hand, history>>,
         hand[o] = {}, o \in Prompt => to # "resume", o = Pending => to # "drain",
         to = "drain" => stage[o] = "input", to = "resume" => stage[o] = "pending"
  PROVE  ProcessInv'
<1> USE HeldMessages DEF ProcessInv
<1>1. /\ UNCHANGED <<conversation, planMode, saved, planStore, origin, answered, abandoned>>
      /\ UNCHANGED <<process, viewer, exitWhenDone, message_queue, hand>>
  BY DEF context, modes, history
<1> USE <1>1
<1>2. stage \in [Owner -> Stage] BY DEF ProcessTypeOK
<1>3. ProcessTypeOK' BY DEF ProcessTypeOK, Stage
<1>4. StagesOK' BY <1>2 DEF StagesOK, Owner
<1>5. PlacesOK' BY DEF PlacesOK, Unsettled
<1>6. CountsOK'
  <2> SUFFICES ASSUME NEW c \in Logs PROVE Counted(c)' BY DEF CountsOK, Logs
  <2>1. Counted(c) BY DEF CountsOK
  <2>2. \A p \in Owner : \A h \in hand[p] : p # o OBVIOUS
  <2> HIDE DEF ProcessInv
  <2> QED BY <1>2, <2>1, <2>2 DEF Counted
<1>7. PlanOK' BY <1>2 DEF PlanOK
<1>8. RepliesOK' /\ PlanRepliesAdjacent' BY KeptReplies
<1> QED BY <1>3, <1>4, <1>5, <1>6, <1>7, <1>8

LEMMA ProcessStageMoves ==
  ASSUME ProcessInv,
         \/ PendingBegin \/ PendingFail
         \/ \E m \in Prompt : \/ InputFail(m)
                              \/ PlanStart(m) /\ ~planMode
                              \/ PlanEnd(m) /\ UNCHANGED conversation
                              \/ QueuePop(m) /\ message_queue = <<>>
  PROVE  ProcessInv'
<1> USE HeldMessages DEF ProcessInv
<1>1. hand[Pending] = {} BY DEF StagesOK, Owner
<1>2. CASE PendingBegin \/ PendingFail
  <2>1. \E to \in {"idle", "resume"} :
          stage' = [stage EXCEPT ![Pending] = to] /\ (to = "resume" => stage[Pending] = "pending")
    BY <1>2 DEF PendingBegin, PendingFail
  <2>2. /\ UNCHANGED <<process, viewer, exitWhenDone, context, message_queue, hand, history>>
        /\ busy' \in BOOLEAN
    BY <1>2 DEF PendingBegin, PendingFail, flags, ProcessTypeOK
  <2> QED BY <1>1, <2>1, <2>2, StageMoves
<1>3. ASSUME NEW m \in Prompt,
             \/ InputFail(m)
             \/ PlanStart(m) /\ ~planMode
             \/ PlanEnd(m) /\ UNCHANGED conversation
             \/ QueuePop(m) /\ message_queue = <<>>
      PROVE  ProcessInv'
  <2>1. \/ ~(PlanEnd(m) /\ conversation' = Said("assistant", m))
        \/ conversation' # conversation
    <3> SUFFICES ASSUME conversation' = Said("assistant", m) PROVE conversation' # conversation
      OBVIOUS
    <3>1. conversation \in Seq(Entry) /\ [role |-> "assistant", id |-> m] \in Entry
      BY DEF ProcessTypeOK, Entry
    <3>2. Len(conversation') = Len(conversation) + 1 /\ Len(conversation) \in Nat
      BY <3>1, AppendElements DEF Said
    <3> QED BY <3>2
  <2>2. /\ stage' = [stage EXCEPT ![m] = "idle"] /\ busy' \in BOOLEAN
        /\ UNCHANGED <<process, viewer, exitWhenDone, context, message_queue, hand, history>>
        /\ stage[m] \in {"input", "plan", "planWait", "drain"}
    BY <1>3, <2>1
    DEF InputFail, PlanStart, PlanEnd, QueuePop, flags, context, history, ProcessTypeOK
  <2>3. hand[m] = {} BY <2>2 DEF StagesOK
  <2> QED BY <2>2, <2>3, StageMoves
<1> QED BY <1>2, <1>3

LEMMA ProcessPlanStart ==
  ASSUME ProcessInv, NEW m \in Prompt, PlanStart(m), planMode
  PROVE  ProcessInv'
<1> USE HeldMessages DEF ProcessInv
<1>1. /\ stage[m] = "planWait" /\ stage' = [stage EXCEPT ![m] = "plan"] /\ busy' = TRUE
      /\ conversation' = Said("user", m) /\ UNCHANGED modes /\ ~Locked
      /\ UNCHANGED <<planMode, saved, planStore, origin, answered, abandoned>>
      /\ UNCHANGED <<process, viewer, exitWhenDone, message_queue, hand>>
  BY DEF PlanStart, Alive, modes, history
<1> USE <1>1
<1>2. conversation' \in Seq(Entry) BY LogsSaid
<1>3. ProcessTypeOK' BY <1>2 DEF ProcessTypeOK, Stage
<1>4. m \notin answered /\ hand[m] = {} /\ origin[m] = "plan" BY DEF StagesOK
<1>5. StagesOK' BY <1>4 DEF StagesOK, ProcessTypeOK
<1>6. PlacesOK' BY DEF PlacesOK, Unsettled
<1>7. CountsOK'
  <2>1. \A o \in Owner : o # m => stage'[o] = stage[o] BY DEF ProcessTypeOK
  <2>2. stage'[m] = "plan" BY DEF ProcessTypeOK
  <2>3. \A e \in Elements(message_queue) : e.id # m BY <1>4 DEF PlacesOK, Unsettled
  <2>4. \A o \in Owner : \A h \in hand[o] : h.id # m BY <1>4 DEF PlacesOK, Unsettled
  <2> QED BY <1>4, <2>1, <2>2, <2>3, <2>4, CountsInput
<1>8. PlanOK'
  <2>1. conversation \in Seq(Entry) /\ [role |-> "user", id |-> m] \in Entry
    BY DEF ProcessTypeOK, Entry
  <2>2. /\ Len(conversation') = Len(conversation) + 1 /\ Len(conversation) \in Nat
        /\ conversation'[Len(conversation) + 1] = [role |-> "user", id |-> m]
    BY <2>1, AppendElements DEF Said
  <2>3. conversation' # <<>> BY <2>2, EmptySeq
  <2> QED BY <2>2, <2>3 DEF PlanOK, Locked, ProcessTypeOK
<1>9. RepliesOK' /\ PlanRepliesAdjacent' BY SaidReplies
<1> QED BY <1>3, <1>5, <1>6, <1>7, <1>8, <1>9

\* Once per message: nothing with its id is answered again, or was in the conversation.
LEMMA CountsReplied ==
  ASSUME ProcessInv, NEW m \in Owner, conversation' = Said("assistant", m), UNCHANGED modes,
         m \notin answered, answered' = answered \union {m}, UNCHANGED <<message_queue, origin>>,
         stage' \in [Owner -> Stage],
         \A n \in Prompt : stage'[n] = "planWait" => stage[n] = "planWait",
         \A o \in Owner : hand'[o] \subseteq hand[o],
         \A o \in Owner : stage'[o] = "held" => stage[o] = "held"
  PROVE  CountsOK'
<1> USE HeldMessages DEF ProcessInv
<1> SUFFICES ASSUME NEW d \in Logs' PROVE Counted(d)' BY DEF CountsOK
<1> HIDE HeldMessages
<1>1. PICK c \in Logs :
        \A role, n : /\ Times(c, role, n) \in Nat /\ Times(d, role, n) \in Nat
                     /\ Times(d, role, n) <= Times(c, role, n) + 1
                     /\ role # "assistant" \/ n # m => Times(d, role, n) <= Times(c, role, n)
  BY LogsSaid
<1>2. Counted(c) BY DEF CountsOK
<1>3. /\ \A e \in Elements(message_queue) : e.id \in Prompt /\ e.retry \in Nat
      /\ \A o \in Owner : \A h \in hand[o] : h.id \in Prompt /\ h.retry \in Nat
      /\ MaxRetries \in Nat
  BY HeldMessages, QueueLimits
<1> HIDE DEF ProcessInv
<1>4. \A n : /\ Times(d, "user", n) <= Times(c, "user", n)
             /\ Times(d, "user", n) \in Nat /\ Times(c, "user", n) \in Nat
             /\ Times(c, "user", n) = 0 => Times(d, "user", n) = 0
  BY <1>1
<1>5. ASSUME NEW n \in Prompt
      PROVE  /\ Times(d, "assistant", n) <= IF n \in answered' THEN 1 ELSE 0
             /\ origin'[n] = "new" \/ stage'[n] = "planWait" => Times(d, "user", n) = 0
             /\ origin'[n] \in {"main", "stray", "plan"} => Times(d, "user", n) <= 1
             /\ origin'[n] = "queue" => Times(d, "user", n) <= MaxRetries + 1
  <2>1. Times(d, "assistant", n) <= IF n \in answered' THEN 1 ELSE 0
    BY <1>1, <1>2 DEF Counted
  <2> QED BY <1>2, <1>3, <1>4, <2>1 DEF Counted
<1>6. \A e \in Elements(message_queue) : Times(d, "user", e.id) <= e.retry
  BY <1>2, <1>3, <1>4 DEF Counted
<1>7. ASSUME NEW o \in Owner, NEW h \in hand'[o]
      PROVE  /\ Times(d, "user", h.id) <= h.retry + 1
             /\ stage'[o] = "held" => Times(d, "user", h.id) <= h.retry
  <2>1. h \in hand[o] /\ h.retry \in Nat BY <1>3
  <2> QED BY <1>2, <1>4, <2>1 DEF Counted
<1> QED BY <1>5, <1>6, <1>7 DEF Counted

LEMMA ProcessPlanReply ==
  ASSUME ProcessInv, NEW m \in Prompt, PlanEnd(m), conversation' = Said("assistant", m),
         answered' = answered \union {m}
  PROVE  ProcessInv'
<1> USE HeldMessages DEF ProcessInv
<1>1. /\ stage[m] = "plan" /\ stage' = [stage EXCEPT ![m] = "idle"] /\ busy' = FALSE
      /\ UNCHANGED <<planMode, saved, planStore, modes, origin, abandoned>>
      /\ UNCHANGED <<process, viewer, exitWhenDone, message_queue, hand>>
  BY DEF PlanEnd, modes
<1> USE <1>1
<1>2. conversation' \in Seq(Entry) BY LogsSaid
<1>3. ProcessTypeOK' BY <1>2 DEF ProcessTypeOK, Stage
<1>4. m \notin answered /\ hand[m] = {} /\ origin[m] = "plan" BY DEF StagesOK
<1>5. StagesOK' BY <1>4 DEF StagesOK, ProcessTypeOK
<1>6. \A n \in Prompt : Unsettled(n)' <=> Unsettled(n) BY <1>4 DEF Unsettled
<1>7. PlacesOK' BY <1>4, <1>6 DEF PlacesOK
<1>8. CountsOK' BY <1>3, <1>4, CountsReplied DEF ProcessTypeOK
<1>9. PlanOK' BY DEF PlanOK, ProcessTypeOK
<1>10. RepliesOK' /\ PlanRepliesAdjacent'
  <2>1. /\ conversation # <<>>
        /\ conversation[Len(conversation)] = [role |-> "user", id |-> m]
    BY DEF PlanOK
  <2> QED BY <2>1, SaidReplies
<1> QED BY <1>3, <1>5, <1>7, <1>8, <1>9, <1>10

\* The end of any other stream, with the popped message gone from the hand.
LEMMA ProcessReply ==
  ASSUME ProcessInv, NEW o \in Owner, NEW m \in Owner, NEW next \in {"idle", "drain"}, ~Locked,
         Reply(o, m, next), hand' = [hand EXCEPT ![o] = {}],
         \/ stage[o] = "input" /\ m = o /\ o \in Prompt
         \/ stage[o] = "resume" /\ m = o /\ o = Pending /\ next = "idle" /\ m \notin answered
         \/ stage[o] = "queued" /\ o \in Prompt /\ \E h \in hand[o] : m = h.id
  PROVE  ProcessInv'
<1> USE HeldMessages DEF ProcessInv
<1>1. /\ conversation' = Said("assistant", m) /\ busy' = FALSE
      /\ stage' = [stage EXCEPT ![o] = next] /\ answered' = answered \union {m}
      /\ UNCHANGED <<planMode, saved, planStore, modes, origin, abandoned>>
      /\ UNCHANGED <<process, viewer, exitWhenDone, message_queue>>
  BY DEF Reply, modes
<1> USE <1>1
<1>2. conversation' \in Seq(Entry) BY LogsSaid
<1>3. ProcessTypeOK'
  <2>1. stage' \in [Owner -> Stage] /\ hand' \in [Owner -> SUBSET Message(Prompt)]
    BY DEF ProcessTypeOK, Stage
  <2> QED BY <1>2, <2>1 DEF ProcessTypeOK
<1>4. /\ m \notin answered /\ m \notin abandoned
      /\ m \in Prompt => origin[m] \in {"main", "stray", "queue"}
      /\ m # Pending => m \in Prompt
  <2>1. m \in Prompt => m \notin answered /\ origin[m] \in {"main", "stray", "queue"}
    BY DEF StagesOK, PlacesOK, Unsettled
  <2>2. m # Pending => m \in Prompt BY DEF Owner
  <2>3. \A n \in abandoned : n \in Prompt /\ origin[n] = "queue" BY DEF PlacesOK, ProcessTypeOK
  <2>4. m \in Prompt => m \notin abandoned BY <2>3 DEF StagesOK, PlacesOK, Unsettled
  <2> QED BY <2>1, <2>2, <2>3, <2>4
<1>5. StagesOK'
  <2>1. /\ \A p \in Owner : stage'[p] = IF p = o THEN next ELSE stage[p]
        /\ \A p \in Owner : hand'[p] = IF p = o THEN {} ELSE hand[p]
    BY DEF ProcessTypeOK
  <2>2. stage'[Pending] \in {"idle", "pending", "resume"} BY <2>1 DEF StagesOK
  <2>3. stage'[Pending] # "idle" => Pending \notin answered'
    <3>1. CASE o = Pending BY <2>1, <3>1 DEF StagesOK
    <3>2. CASE o # Pending
      <4>1. m # Pending /\ stage'[Pending] = stage[Pending] BY <2>1, <3>2
      <4> QED BY <4>1 DEF StagesOK
    <3> QED BY <3>1, <3>2
  <2>4. m \in Prompt => m = o \/ stage[m] \notin {"input", "planWait", "plan"}
    BY DEF StagesOK, PlacesOK, Unsettled
  <2>5. \A n \in Prompt :
          /\ n # m => (n \in answered' <=> n \in answered)
          /\ n = m => origin[n] # "new" /\ stage'[n] \notin {"input", "planWait", "plan"}
    BY <1>4, <2>1, <2>4
  <2>6. \A n \in Prompt :
         /\ stage'[n] \notin {"pending", "resume"}
         /\ stage'[n] \in {"input", "drain", "held", "queued"} => origin[n] \in {"main", "stray"}
         /\ stage'[n] \in {"planWait", "plan"} => origin[n] = "plan"
    BY <2>1 DEF StagesOK
  <2>7. \A n \in Prompt :
         /\ stage'[n] \in {"input", "planWait", "plan"} => n \notin answered'
         /\ n \in answered' => origin[n] # "new"
    BY <2>1, <2>5 DEF StagesOK
  <2>8. \A p \in Owner : stage'[p] \notin {"held", "queued"} => hand'[p] = {}
    BY <2>1 DEF StagesOK
  <2> HIDE DEF ProcessInv
  <2> QED BY <2>2, <2>3, <2>6, <2>7, <2>8 DEF StagesOK
<1>6. \A p \in Owner : hand'[p] = IF p = o THEN {} ELSE hand[p] BY DEF ProcessTypeOK
<1>7. \A n \in Prompt : Unsettled(n)' <=> Unsettled(n) /\ n # m BY DEF Unsettled
<1>8. PlacesOK'
  <2>1. CASE stage[o] = "queued" /\ \E h \in hand[o] : m = h.id
    <3>1. PICK h \in hand[o] : m = h.id BY <2>1
    <3>2. hand[o] = {h} /\ Unsettled(m) BY <3>1 DEF PlacesOK
    <3>3. /\ \A e \in Elements(message_queue) : e.id # m
          /\ \A p \in Owner : \A g \in hand[p] : g.id = m => p = o
      BY <3>1 DEF PlacesOK
    <3>4. \A p \in Owner : \A g \in hand'[p] : g \in hand[p] /\ g.id # m BY <1>6, <3>3
    <3>5. \A n \in abandoned : n # m BY <1>4
    <3>6. \A n \in Prompt : Unsettled(n)' =>
            \/ \E e \in Elements(message_queue) : e.id = n
            \/ \E p \in Owner : \E g \in hand'[p] : g.id = n
      <4> SUFFICES ASSUME NEW n \in Prompt, Unsettled(n), n # m
                   PROVE  \/ \E e \in Elements(message_queue) : e.id = n
                          \/ \E p \in Owner : \E g \in hand'[p] : g.id = n
        BY <1>7
      <4>1. CASE \E e \in Elements(message_queue) : e.id = n BY <4>1
      <4>2. ASSUME NEW p \in Owner, NEW g \in hand[p], g.id = n
            PROVE  \E g2 \in hand'[p] : g2.id = n
        <5>1. p # o BY <3>1, <3>2, <4>2
        <5> QED BY <1>6, <4>2, <5>1
      <4> QED BY <4>1, <4>2 DEF PlacesOK
    <3> QED BY <1>6, <1>7, <3>3, <3>4, <3>5, <3>6 DEF PlacesOK
  <2>2. CASE stage[o] # "queued"
    <3>1. m \in Prompt => ~Unsettled(m) BY <2>2 DEF StagesOK, Unsettled
    <3>2. hand[o] = {} BY <2>2 DEF StagesOK
    <3>3. \A n \in Prompt : Unsettled(n)' <=> Unsettled(n) BY <1>7, <3>1
    <3>4. \A p \in Owner : hand'[p] = hand[p] BY <1>6, <3>2
    <3>5. \A n \in abandoned : n # m BY <1>4
    <3> QED BY <3>3, <3>4, <3>5 DEF PlacesOK
  <2> QED BY <2>1, <2>2
<1>9. CountsOK'
  <2>1. stage' \in [Owner -> Stage] BY <1>3 DEF ProcessTypeOK
  <2>2. \A p \in Owner : stage'[p] # stage[p] => stage'[p] \notin {"planWait", "held"}
    BY DEF ProcessTypeOK
  <2> QED BY <1>4, <1>6, <2>1, <2>2, CountsReplied
<1>10. PlanOK' BY DEF PlanOK, Locked, ProcessTypeOK
<1>11. RepliesOK' /\ PlanRepliesAdjacent' BY <1>4, SaidReplies
<1> QED BY <1>3, <1>5, <1>8, <1>9, <1>10, <1>11

LEMMA ProcessReplies ==
  ASSUME ProcessInv,
         PendingReply \/ \E m \in Prompt : InputReply(m) \/ QueueReply(m)
  PROVE  ProcessInv'
<1> USE HeldMessages DEF ProcessInv, Alive
<1>1. hand \in [Owner -> SUBSET Message(Prompt)] BY DEF ProcessTypeOK
<1>2. \A o \in Owner : hand[o] = {} => hand = [hand EXCEPT ![o] = {}] BY <1>1
<1>3. CASE PendingReply
  <2>1. /\ stage[Pending] = "resume" /\ Reply(Pending, Pending, "idle") /\ ~Locked
        /\ hand' = hand
    BY <1>3 DEF PendingReply
  <2>2. hand[Pending] = {} /\ Pending \notin answered /\ Pending \in Owner
    BY <2>1 DEF StagesOK
  <2>3. hand' = [hand EXCEPT ![Pending] = {}] BY <1>2, <2>1, <2>2
  <2> HIDE DEF ProcessInv
  <2> QED BY <2>1, <2>2, <2>3, ProcessReply
<1>4. ASSUME NEW m \in Prompt, InputReply(m) PROVE ProcessInv'
  <2>1. PICK next \in {"idle", "drain"} : Reply(m, m, next) BY <1>4 DEF InputReply
  <2>2. stage[m] = "input" /\ ~Locked /\ hand' = hand /\ m \in Owner
    BY <1>4 DEF InputReply
  <2>3. hand[m] = {} BY <2>2 DEF StagesOK
  <2>4. hand' = [hand EXCEPT ![m] = {}] BY <1>2, <2>2, <2>3
  <2> HIDE DEF ProcessInv
  <2> QED BY <2>1, <2>2, <2>4, ProcessReply
<1>5. ASSUME NEW m \in Prompt, QueueReply(m) PROVE ProcessInv'
  <2>1. PICK h \in hand[m] : Reply(m, h.id, "drain") BY <1>5 DEF QueueReply
  <2>2. /\ stage[m] = "queued" /\ ~Locked /\ hand' = [hand EXCEPT ![m] = {}]
        /\ h.id \in Owner /\ m \in Owner
    BY <1>5 DEF QueueReply
  <2> HIDE DEF ProcessInv
  <2> QED BY <2>1, <2>2, ProcessReply
<1> QED BY <1>3, <1>4, <1>5
--------------------------------------------------------------------------------
(* Steps of the queue. *)

LEMMA ProcessQueueMessage ==
  ASSUME ProcessInv, NEW v \in Viewer, NEW m \in Prompt, QueueMessage(v, m)
  PROVE  ProcessInv'
<1> USE HeldMessages DEF ProcessInv
<1> DEFINE new == [id |-> m, prio |-> 1, retry |-> 0, at |-> 0]
<1>1. /\ origin[m] = "new" /\ origin' = [origin EXCEPT ![m] = "queue"]
      /\ message_queue' = Inserted(message_queue, new) /\ ~Full(message_queue) /\ ~Locked
      /\ UNCHANGED <<planMode, saved, planStore, conversation, answered, abandoned>>
      /\ UNCHANGED <<process, viewer, busy, exitWhenDone, stage, hand>> /\ UNCHANGED context
  BY DEF QueueMessage, Sends, Alive, context, modes, flags
<1>2. new \in Message(Prompt) /\ new.id = m /\ new.retry = 0 BY DEF Message, Priority
<1> HIDE DEF new
<1>3. \A e \in Elements(message_queue) : e.id # m BY <1>1 DEF PlacesOK, Unsettled
<1>4. /\ message_queue \in Seq(Message(Prompt)) /\ DistinctIds(message_queue)
      /\ Len(message_queue) \in Nat /\ Len(message_queue) <= MaxSize
  BY LenProperties DEF ProcessTypeOK, PlacesOK
<1>5. /\ message_queue' \in Seq(Message(Prompt)) /\ Len(message_queue') = Len(message_queue) + 1
      /\ DistinctIds(message_queue')
      /\ Elements(message_queue') = Elements(message_queue) \union {new}
  BY <1>1, <1>2, <1>3, <1>4, InsertedDistinct
<1>6. Len(message_queue') <= MaxSize BY <1>1, <1>4, <1>5, QueueLimits DEF Full
<1> USE <1>1
<1>7. ProcessTypeOK' BY <1>5, <1>6 DEF ProcessTypeOK
<1>8. m \notin answered /\ m \notin abandoned /\ stage[m] = "idle" /\ hand[m] = {}
  BY NewPrompt
<1>9. StagesOK' BY <1>8 DEF StagesOK, ProcessTypeOK
<1>10. \A n \in Prompt : Unsettled(n)' <=> Unsettled(n) \/ n = m
  BY <1>8 DEF Unsettled, ProcessTypeOK
<1>11. \A o \in Owner : \A h \in hand[o] : h.id # m BY DEF PlacesOK, Unsettled
<1>12. PlacesOK'
  <2>1. new.retry <= MaxRetries BY <1>2, QueueLimits
  <2>2. \A e \in Elements(message_queue') : Unsettled(e.id)' /\ e.retry <= MaxRetries
    BY <1>2, <1>5, <1>10, <2>1 DEF PlacesOK
  <2>3. \A o \in Owner : \A h \in hand[o] :
          /\ Unsettled(h.id)' /\ hand[o] = {h} /\ h.retry <= MaxRetries
          /\ \A p \in Owner : \A g \in hand[p] : g.id = h.id => o = p
    BY <1>10 DEF PlacesOK
  <2>4. \A o \in Owner : \A h \in hand[o] : \A e \in Elements(message_queue') : e.id # h.id
    BY <1>2, <1>5, <1>11 DEF PlacesOK
  <2>5. \A n \in abandoned : origin'[n] = "queue" /\ n \notin answered
    BY <1>8 DEF PlacesOK, ProcessTypeOK
  <2>6. \A n \in Prompt : Unsettled(n)' =>
          \/ \E e \in Elements(message_queue') : e.id = n
          \/ \E o \in Owner : \E h \in hand[o] : h.id = n
    BY <1>2, <1>5, <1>10 DEF PlacesOK
  <2> HIDE DEF ProcessInv
  <2> QED BY <1>5, <2>2, <2>3, <2>4, <2>5, <2>6 DEF PlacesOK
<1>13. CountsOK'
  <2> SUFFICES ASSUME NEW c \in Logs PROVE Counted(c)' BY DEF CountsOK, Logs
  <2>1. Counted(c) BY DEF CountsOK
  <2>2. Times(c, "user", m) = 0 BY <2>1 DEF Counted
  <2>3. MaxRetries \in Nat BY QueueLimits
  <2> HIDE DEF ProcessInv
  <2> QED BY <1>2, <1>5, <2>1, <2>2, <2>3 DEF Counted, ProcessTypeOK
<1>14. PlanOK' BY DEF PlanOK
<1>15. RepliesOK' /\ PlanRepliesAdjacent' BY <1>8, KeptReplies DEF ProcessTypeOK
<1> QED BY <1>7, <1>9, <1>12, <1>13, <1>14, <1>15

LEMMA ProcessQueuePop ==
  ASSUME ProcessInv, NEW o \in Prompt, QueuePop(o), message_queue # <<>>
  PROVE  ProcessInv'
<1> USE HeldMessages DEF ProcessInv
<1> DEFINE top == Head(message_queue)
<1>1. /\ stage[o] = "drain" /\ stage' = [stage EXCEPT ![o] = "held"] /\ ~Locked
      /\ hand' = [hand EXCEPT ![o] = {top}] /\ message_queue' = Tail(message_queue)
      /\ UNCHANGED <<planMode, saved, planStore, conversation, origin, answered, abandoned>>
      /\ UNCHANGED <<process, viewer, busy, exitWhenDone>> /\ UNCHANGED context
  BY DEF QueuePop, Alive, context, modes, flags, history
<1>2. /\ message_queue \in Seq(Message(Prompt)) /\ DistinctIds(message_queue)
      /\ Len(message_queue) \in Nat /\ Len(message_queue) <= MaxSize
  BY LenProperties DEF ProcessTypeOK, PlacesOK
<1>3. /\ message_queue' \in Seq(Message(Prompt)) /\ Len(message_queue') = Len(message_queue) - 1
      /\ top \in Message(Prompt) /\ DistinctIds(message_queue')
      /\ Elements(message_queue) = Elements(message_queue') \union {top}
      /\ \A e \in Elements(message_queue') : e.id # top.id
  BY <1>1, <1>2, TailDistinct
<1> HIDE DEF top
<1>4. top.id \in Prompt /\ top.retry \in Nat BY <1>3 DEF Message
<1> USE <1>1
<1>5. ProcessTypeOK'
  <2>1. Len(message_queue') <= MaxSize BY <1>2, <1>3, QueueLimits
  <2> QED BY <1>3, <2>1 DEF ProcessTypeOK, Stage
<1>6. hand[o] = {} BY DEF StagesOK
<1>7. StagesOK' BY DEF StagesOK, ProcessTypeOK
<1>8. \A p \in Owner : hand'[p] = IF p = o THEN {top} ELSE hand[p] BY DEF ProcessTypeOK
<1>9. \A n \in Prompt : Unsettled(n)' <=> Unsettled(n) BY DEF Unsettled
<1>10. PlacesOK'
  <2>1. Unsettled(top.id) /\ top.retry <= MaxRetries BY <1>3 DEF PlacesOK
  <2>2. \A p \in Owner : \A h \in hand[p] : h.id # top.id BY <1>3 DEF PlacesOK
  <2>3. \A p \in Owner : \A h \in hand'[p] :
          /\ Unsettled(h.id)' /\ hand'[p] = {h} /\ h.retry <= MaxRetries
          /\ \A e \in Elements(message_queue') : e.id # h.id
          /\ \A p2 \in Owner : \A g \in hand'[p2] : g.id = h.id => p = p2
    BY <1>3, <1>4, <1>8, <1>9, <2>1, <2>2 DEF PlacesOK
  <2>4. \A n \in Prompt : Unsettled(n)' =>
          \/ \E e \in Elements(message_queue') : e.id = n
          \/ \E p \in Owner : \E h \in hand'[p] : h.id = n
    <3> SUFFICES ASSUME NEW n \in Prompt, Unsettled(n)
                 PROVE  \/ \E e \in Elements(message_queue') : e.id = n
                        \/ \E p \in Owner : \E h \in hand'[p] : h.id = n
      BY <1>9
    <3>1. CASE n = top.id BY <1>8, <3>1
    <3>2. CASE n # top.id /\ \E e \in Elements(message_queue) : e.id = n BY <1>3, <3>2
    <3>3. ASSUME NEW p \in Owner, NEW h \in hand[p], h.id = n
          PROVE  \E h2 \in hand'[p] : h2.id = n
      BY <1>6, <1>8, <3>3
    <3> QED BY <3>1, <3>2, <3>3 DEF PlacesOK
  <2> QED BY <1>3, <1>4, <1>9, <2>3, <2>4 DEF PlacesOK
<1>11. CountsOK'
  <2> SUFFICES ASSUME NEW c \in Logs PROVE Counted(c)' BY DEF CountsOK, Logs
  <2>1. Counted(c) BY DEF CountsOK
  <2>2. Times(c, "user", top.id) <= top.retry BY <1>3, <2>1 DEF Counted
  <2>3. Times(c, "user", top.id) \in Nat
    <3>1. c \in Seq(Entry) BY DEF Logs, ProcessTypeOK
    <3> QED BY <3>1, TimesNat
  <2>4. Times(c, "user", top.id) <= top.retry + 1 BY <1>4, <2>2, <2>3
  <2> HIDE DEF ProcessInv
  <2> QED BY <1>3, <1>8, <2>1, <2>2, <2>4 DEF Counted, ProcessTypeOK
<1>12. PlanOK' BY DEF PlanOK, ProcessTypeOK
<1>13. RepliesOK' /\ PlanRepliesAdjacent' BY KeptReplies
<1> QED BY <1>5, <1>7, <1>10, <1>11, <1>12, <1>13

LEMMA ProcessQueueStart ==
  ASSUME ProcessInv, NEW o \in Prompt, QueueStart(o)
  PROVE  ProcessInv'
<1> USE HeldMessages DEF ProcessInv
<1>1. PICK h \in hand[o] : conversation' = Said("user", h.id) BY DEF QueueStart
<1> DEFINE m == h.id
<1>2. /\ stage[o] = "held" /\ stage' = [stage EXCEPT ![o] = "queued"] /\ ~Locked /\ busy' = TRUE
      /\ conversation' = Said("user", m)
      /\ UNCHANGED <<planMode, saved, planStore, origin, answered, abandoned>>
      /\ UNCHANGED <<process, viewer, exitWhenDone, message_queue, hand>> /\ UNCHANGED modes
      /\ hand[o] = {h} /\ m \in Owner /\ m \in Prompt /\ h.retry \in Nat
  BY <1>1 DEF QueueStart, Alive, modes, history, PlacesOK
<1>3. /\ origin[m] = "queue" /\ m \notin answered
      /\ \A e \in Elements(message_queue) : e.id # m
      /\ \A p \in Owner : \A g \in hand[p] : g.id = m => p = o
  BY <1>1 DEF PlacesOK, Unsettled
<1> HIDE DEF m
<1> USE <1>2
<1>4. conversation' \in Seq(Entry) BY LogsSaid
<1>5. ProcessTypeOK' BY <1>4 DEF ProcessTypeOK, Stage
<1>6. StagesOK' BY DEF StagesOK, ProcessTypeOK
<1>7. PlacesOK' BY DEF PlacesOK, Unsettled
<1>8. CountsOK'
  <2> SUFFICES ASSUME NEW d \in Logs' PROVE Counted(d)' BY DEF CountsOK
  <2>1. PICK c \in Logs :
          \A role, n : /\ Times(c, role, n) \in Nat /\ Times(d, role, n) \in Nat
                       /\ Times(d, role, n) <= Times(c, role, n) + 1
                       /\ role # "user" \/ n # m => Times(d, role, n) <= Times(c, role, n)
    BY LogsSaid
  <2>2. Counted(c) BY DEF CountsOK
  <2>3. Times(c, "user", m) <= h.retry BY <2>2 DEF Counted, m
  <2>4. Times(d, "user", m) <= h.retry + 1 BY <2>1, <2>3
  <2>5. MaxRetries \in Nat /\ h.retry <= MaxRetries BY QueueLimits DEF PlacesOK
  <2>6. Times(d, "user", m) <= MaxRetries + 1 BY <2>1, <2>4, <2>5
  <2>7. \A n \in Prompt :
          /\ Times(d, "assistant", n) <= IF n \in answered' THEN 1 ELSE 0
          /\ origin'[n] = "new" \/ stage'[n] = "planWait" => Times(d, "user", n) = 0
          /\ origin'[n] \in {"main", "stray", "plan"} => Times(d, "user", n) <= 1
          /\ origin'[n] = "queue" => Times(d, "user", n) <= MaxRetries + 1
    <3>1. stage[m] # "planWait" BY <1>3 DEF StagesOK
    <3> HIDE DEF ProcessInv
    <3> QED BY <1>3, <2>1, <2>2, <2>5, <2>6, <3>1 DEF Counted, ProcessTypeOK
  <2>8. \A e \in Elements(message_queue') : Times(d, "user", e.id) <= e.retry
    <3>1. \A e \in Elements(message_queue) :
            /\ e.id \in Prompt /\ e.retry \in Nat
            /\ Times(d, "user", e.id) <= Times(c, "user", e.id)
            /\ Times(d, "user", e.id) \in Nat /\ Times(c, "user", e.id) \in Nat
      BY <1>3, <2>1
    <3>2. \A e \in Elements(message_queue) : Times(c, "user", e.id) <= e.retry
      BY <2>2 DEF Counted
    <3> HIDE DEF ProcessInv
    <3> QED BY <3>1, <3>2
  <2>9. ASSUME NEW p \in Owner, NEW g \in hand'[p]
        PROVE  /\ Times(d, "user", g.id) <= g.retry + 1
               /\ stage'[p] = "held" => Times(d, "user", g.id) <= g.retry
    <3>1. CASE p = o BY <2>4, <2>9, <3>1 DEF ProcessTypeOK, m
    <3>2. CASE p # o
      <4>1. g.id # m BY <1>3, <2>9, <3>2
      <4>2. stage'[p] = stage[p] /\ g \in hand[p] BY <2>9, <3>2 DEF ProcessTypeOK
      <4>3. /\ Times(c, "user", g.id) <= g.retry + 1
            /\ stage[p] = "held" => Times(c, "user", g.id) <= g.retry
        BY <2>2, <4>2 DEF Counted
      <4>4. Times(d, "user", g.id) <= Times(c, "user", g.id) BY <2>1, <4>1
      <4>5. Times(d, "user", g.id) \in Nat /\ Times(c, "user", g.id) \in Nat /\ g.retry \in Nat
        BY <2>1, <4>2
      <4> QED BY <4>2, <4>3, <4>4, <4>5
    <3> QED BY <3>1, <3>2
  <2> QED BY <2>7, <2>8, <2>9 DEF Counted
<1>9. PlanOK' BY DEF PlanOK, Locked, ProcessTypeOK
<1>10. RepliesOK' /\ PlanRepliesAdjacent' BY SaidReplies
<1> QED BY <1>5, <1>6, <1>7, <1>8, <1>9, <1>10

\* The message of a failed reply goes back into the queue with one more retry, or
\* is given up.
LEMMA ProcessQueueFail ==
  ASSUME ProcessInv, NEW o \in Prompt, QueueFail(o)
  PROVE  ProcessInv'
<1> USE HeldMessages DEF ProcessInv
<1>1. PICK h \in hand[o] :
        \/ /\ ~RetriesExhausted(Retried(h)) /\ ~Full(message_queue)
           /\ message_queue' = Inserted(message_queue, Retried(h))
           /\ UNCHANGED abandoned
        \/ /\ abandoned' = abandoned \union {h.id}
           /\ UNCHANGED message_queue
  BY DEF QueueFail
<1> DEFINE m == h.id
           again == Retried(h)
<1>2. /\ stage[o] = "queued" /\ stage' = [stage EXCEPT ![o] = "idle"] /\ ~Locked
      /\ busy' = FALSE /\ hand' = [hand EXCEPT ![o] = {}]
      /\ UNCHANGED <<planMode, saved, planStore, conversation, origin, answered>>
      /\ UNCHANGED <<process, viewer, exitWhenDone>> /\ UNCHANGED context
  BY DEF QueueFail, Alive, context, modes
<1>3. /\ hand[o] = {h} /\ m \in Prompt /\ h \in Message(Prompt) /\ h.retry \in Nat
      /\ Unsettled(m) /\ \A e \in Elements(message_queue) : e.id # m
      /\ \A p \in Owner : \A g \in hand[p] : g.id = m => p = o
  BY <1>1 DEF PlacesOK
<1>4. again \in Message(Prompt) /\ again.id = m /\ again.retry = h.retry + 1
  BY <1>3 DEF Retried, Message
<1>5. \A p \in Owner : hand'[p] = IF p = o THEN {} ELSE hand[p] BY <1>2 DEF ProcessTypeOK
<1>6. /\ message_queue \in Seq(Message(Prompt)) /\ DistinctIds(message_queue)
      /\ Len(message_queue) \in Nat /\ Len(message_queue) <= MaxSize
  BY LenProperties DEF ProcessTypeOK, PlacesOK
<1>7. \/ /\ again.retry <= MaxRetries /\ abandoned' = abandoned
         /\ message_queue' \in Seq(Message(Prompt)) /\ Len(message_queue') <= MaxSize
         /\ DistinctIds(message_queue')
         /\ Elements(message_queue') = Elements(message_queue) \union {again}
      \/ abandoned' = abandoned \union {m} /\ message_queue' = message_queue
  <2>1. CASE /\ ~RetriesExhausted(again) /\ ~Full(message_queue)
             /\ message_queue' = Inserted(message_queue, again) /\ UNCHANGED abandoned
    <3>1. /\ message_queue' \in Seq(Message(Prompt)) /\ DistinctIds(message_queue')
          /\ Len(message_queue') = Len(message_queue) + 1
          /\ Elements(message_queue') = Elements(message_queue) \union {again}
      <4> HIDE DEF again
      <4> QED BY <1>3, <1>4, <1>6, <2>1, InsertedDistinct
    <3>2. Len(message_queue') <= MaxSize BY <1>6, <2>1, <3>1, QueueLimits DEF Full
    <3>3. again.retry <= MaxRetries
      <4> HIDE DEF again
      <4> QED BY <1>3, <1>4, <2>1, QueueLimits DEF RetriesExhausted
    <3> QED BY <2>1, <3>1, <3>2, <3>3
  <2> QED BY <1>1, <2>1
<1> HIDE DEF m, again
<1> USE <1>2
<1>8. ProcessTypeOK' BY <1>3, <1>6, <1>7 DEF ProcessTypeOK, Stage
<1>9. StagesOK' BY <1>5 DEF StagesOK, ProcessTypeOK
<1>10. \A p \in Owner : \A g \in hand'[p] : g \in hand[p] /\ p # o /\ g.id # m
  BY <1>3, <1>5
<1>11. \A n \in Prompt : n # m => (Unsettled(n)' <=> Unsettled(n)) BY <1>7 DEF Unsettled
<1>12. \A n \in Prompt : Unsettled(n) /\ n # m =>
         \/ \E e \in Elements(message_queue) : e.id = n
         \/ \E p \in Owner : \E g \in hand'[p] : g.id = n
  <2> SUFFICES ASSUME NEW n \in Prompt, Unsettled(n), n # m
               PROVE  \/ \E e \in Elements(message_queue) : e.id = n
                      \/ \E p \in Owner : \E g \in hand'[p] : g.id = n
    OBVIOUS
  <2>1. ASSUME NEW p \in Owner, NEW g \in hand[p], g.id = n PROVE \E g2 \in hand'[p] : g2.id = n
    <3>1. p # o BY <1>3, <2>1 DEF m
    <3> QED BY <1>5, <2>1, <3>1
  <2> QED BY <2>1 DEF PlacesOK
<1>13. PlacesOK'
  <2>1. CASE /\ again.retry <= MaxRetries /\ abandoned' = abandoned
             /\ DistinctIds(message_queue')
             /\ Elements(message_queue') = Elements(message_queue) \union {again}
    <3>1. Unsettled(m)' BY <1>3, <2>1 DEF Unsettled, m
    <3> QED BY <1>3, <1>4, <1>5, <1>10, <1>11, <1>12, <2>1, <3>1 DEF PlacesOK
  <2>2. CASE abandoned' = abandoned \union {m} /\ message_queue' = message_queue
    <3>1. ~Unsettled(m)' /\ origin[m] = "queue" /\ m \notin answered
      BY <1>3, <2>2 DEF Unsettled, m
    <3>2. \A e \in Elements(message_queue) : e.id # m BY <1>3 DEF m
    <3> QED BY <1>5, <1>10, <1>11, <1>12, <2>2, <3>1, <3>2 DEF PlacesOK
  <2> QED BY <1>7, <2>1, <2>2
<1>14. CountsOK'
  <2> SUFFICES ASSUME NEW c \in Logs PROVE Counted(c)' BY DEF CountsOK, Logs
  <2>1. Counted(c) BY DEF CountsOK
  <2>2. Times(c, "user", again.id) <= again.retry BY <1>1, <1>4, <2>1 DEF Counted, m
  <2>3. \A e \in Elements(message_queue') : e \in Elements(message_queue) \/ e = again
    BY <1>7
  <2>4. \A e \in Elements(message_queue') : Times(c, "user", e.id) <= e.retry
    BY <2>1, <2>2, <2>3 DEF Counted
  <2> HIDE DEF ProcessInv
  <2> QED BY <1>10, <2>1, <2>4 DEF Counted, ProcessTypeOK
<1>15. PlanOK' BY DEF PlanOK, ProcessTypeOK
<1>16. RepliesOK' /\ PlanRepliesAdjacent' BY KeptReplies
<1> QED BY <1>8, <1>9, <1>13, <1>14, <1>15, <1>16
--------------------------------------------------------------------------------
(* An agent that was just spawned satisfies the invariant. *)
LEMMA ProcessStarts == ASSUME ProcessInit PROVE ProcessInv
<1> USE DEF ProcessInit
<1>1. PICK hasPending \in BOOLEAN :
        /\ stage = [o \in Owner |-> IF hasPending /\ o = Pending THEN "pending" ELSE "idle"]
        /\ conversation = IF hasPending THEN <<[role |-> "user", id |-> Pending]>> ELSE <<>>
  BY AgentModes
<1>2. /\ conversation = <<>> \/ conversation = <<[role |-> "user", id |-> Pending]>>
      /\ conversation \in Seq(Entry)
      /\ \A x \in Elements(conversation) : x = [role |-> "user", id |-> Pending]
  <2>1. [role |-> "user", id |-> Pending] \in Entry BY DEF Entry, Owner
  <2> DEFINE x == [role |-> "user", id |-> Pending]
  <2> HIDE DEF x
  <2>2. conversation = <<>> \/ conversation = <<x>> BY <1>1 DEF x
  <2>3. x \in Entry BY <2>1 DEF x
  <2>4. conversation \in Seq(Entry) BY <2>2, <2>3
  <2>5. \A y \in Elements(conversation) : y = x BY <2>2 DEF Elements
  <2> QED BY <2>2, <2>4, <2>5 DEF x
<1>3. ProcessTypeOK
  <2>1. message_queue \in Seq(Message(Prompt)) /\ Len(message_queue) <= MaxSize
    BY QueueLimits, EmptySeq
  <2>2. stage \in [Owner -> Stage] BY <1>1 DEF Stage
  <2>3. saved \in Seq(Entry) /\ planStore \in Seq(Entry) BY EmptySeq
  <2> QED BY <1>2, <2>1, <2>2, <2>3 DEF ProcessTypeOK
<1>4. StagesOK BY <1>1, AgentModes DEF StagesOK, Owner
<1>5. PlacesOK BY DEF PlacesOK, DistinctIds, Elements, Unsettled
<1>6. CountsOK
  <2>1. \A role : \A m \in Prompt : Times(conversation, role, m) = 0
    <3> SUFFICES ASSUME NEW role, NEW m \in Prompt PROVE Times(conversation, role, m) = 0
      OBVIOUS
    <3>1. \A i \in DOMAIN conversation : conversation[i] # [role |-> role, id |-> m]
      <4> SUFFICES ASSUME NEW i \in DOMAIN conversation PROVE conversation[i].id # m OBVIOUS
      <4>1. conversation[i] = [role |-> "user", id |-> Pending] BY <1>2 DEF Elements
      <4> QED BY <4>1, AgentModes
    <3>2. {i \in DOMAIN conversation : conversation[i] = [role |-> role, id |-> m]} = {}
      BY <3>1
    <3> QED BY <3>2, FS_EmptySet DEF Times
  <2>2. \A c \in Logs, m \in Prompt : Times(c, "user", m) = 0 /\ Times(c, "assistant", m) = 0
    BY <2>1, TimesEmpty DEF Logs
  <2> QED BY <2>2, QueueLimits DEF CountsOK, Counted, Elements
<1>7. PlanOK BY <1>1 DEF PlanOK
<1>8. \A c \in Logs : \A x \in Elements(c) : x = [role |-> "user", id |-> Pending]
  BY <1>2 DEF Logs, Elements
<1>9. RepliesOK BY <1>8 DEF RepliesOK
<1>10. PlanRepliesAdjacent
  <2>1. \A c \in {conversation, saved, planStore} : \A i \in DOMAIN c : c[i].role # "assistant"
    BY <1>8 DEF Logs, Elements
  <2> QED BY <2>1 DEF PlanRepliesAdjacent
<1> QED BY <1>3, <1>4, <1>5, <1>6, <1>7, <1>9, <1>10 DEF ProcessInv

LEMMA ProcessSteps == ProcessInv /\ [ProcessNext]_processVars => ProcessInv'
<1> SUFFICES ASSUME ProcessInv, ProcessNext \/ UNCHANGED processVars PROVE ProcessInv'
  OBVIOUS
<1>1. ASSUME NEW v \in Viewer, FromViewer(v) PROVE ProcessInv'
  <2>1. ASSUME NEW m \in Prompt, UserInput(v, m) \/ QueueMessage(v, m) \/ PlanModeUserInput(v, m)
        PROVE  ProcessInv'
    BY <2>1, ProcessUserInput, ProcessQueueMessage, ProcessPlanInput
  <2>2. CASE \/ Attach(v) \/ Leave(v) \/ Cancel(v) \/ Detach(v) \/ Exit(v)
             \/ ParentExiting(v) \/ ParentShutdown(v)
    BY <2>2, ProcessQuiet
  <2>3. CASE ClearHistory(v) \/ EnterPlanMode(v) \/ ExitPlanMode(v)
    BY <2>3, ProcessModes
  <2> QED BY <1>1, <2>1, <2>2, <2>3 DEF FromViewer
<1>2. ASSUME NEW m \in Prompt, TaskStep(m) PROVE ProcessInv'
  <2>1. CASE PlanStart(m) BY <2>1, ProcessStageMoves, ProcessPlanStart
  <2>2. CASE PlanEnd(m)
    <3>1. CASE conversation' = Said("assistant", m) /\ answered' = answered \union {m}
      BY <2>2, <3>1, ProcessPlanReply
    <3>2. CASE UNCHANGED conversation
      BY <2>2, <3>2, ProcessStageMoves
    <3> QED BY <2>2, <3>1, <3>2 DEF PlanEnd
  <2>3. CASE InputReply(m) \/ QueueReply(m) BY <2>3, ProcessReplies
  <2>4. CASE InputFail(m) BY <2>4, ProcessStageMoves
  <2>5. CASE QueuePop(m) BY <2>5, ProcessStageMoves, ProcessQueuePop
  <2>6. CASE QueueStart(m) BY <2>6, ProcessQueueStart
  <2>7. CASE QueueFail(m) BY <2>7, ProcessQueueFail
  <2> QED BY <1>2, <2>1, <2>2, <2>3, <2>4, <2>5, <2>6, <2>7 DEF TaskStep
<1>3. CASE PendingStep BY <1>3, ProcessStageMoves, ProcessReplies DEF PendingStep
<1>4. CASE ExitCheck \/ Terminate \/ UNCHANGED processVars BY <1>4, ProcessQuiet
<1> QED BY <1>1, <1>2, <1>3, <1>4 DEF ProcessNext

LEMMA ProcessInvariance == ProcessSpec => []ProcessInv
BY ProcessStarts, ProcessSteps, PTL DEF ProcessSpec

(***************************************************************************)
(* The fields of AgentState keep their types and the queue its capacity,   *)
(* whichever viewers and tasks interleave (process.rs, message_queue.rs).  *)
(***************************************************************************)
THEOREM AgentProcessTyped == ProcessSpec => []ProcessTypeOK
<1>1. ProcessInv => ProcessTypeOK BY DEF ProcessInv
<1> QED BY <1>1, ProcessInvariance, PTL

(***************************************************************************)
(* Several queue loops over one queue neither lose nor double a message:   *)
(* it waits, is in one hand, answered or abandoned (process.rs:1563-1687). *)
(***************************************************************************)
THEOREM AgentProcessQueuedOnce == ProcessSpec => []QueuedInOnePlace
<1>1. ASSUME ProcessInv PROVE QueuedInOnePlace
  <2> USE <1>1 DEF ProcessInv
  <2> DEFINE holders(m) == {o \in Owner : \E h \in hand[o] : h.id = m}
             places(m) == {i \in DOMAIN message_queue : message_queue[i].id = m}
  <2> SUFFICES ASSUME NEW m \in Prompt, origin[m] = "queue"
               PROVE  1 = Cardinality(places(m)) + Cardinality(holders(m))
                          + Cardinality({m} \intersect answered)
                          + Cardinality({m} \intersect abandoned)
    BY DEF QueuedInOnePlace
  <2> DEFINE C(S) == Cardinality(S)
             a == {m} \intersect answered
             g == {m} \intersect abandoned
  <2>1. C({}) = 0 /\ \A x : C({x}) = 1 BY FS_EmptySet, FS_Singleton
  <2>2. /\ m \in answered => a = {m}
        /\ m \notin answered => a = {}
        /\ m \in abandoned => g = {m}
        /\ m \notin abandoned => g = {}
    OBVIOUS
  <2>3. CASE ~Unsettled(m)
    <3>1. places(m) = {} BY <2>3 DEF PlacesOK, Elements
    <3>2. holders(m) = {} BY <2>3 DEF PlacesOK
    <3>3. ~(m \in answered /\ m \in abandoned) /\ (m \in answered \/ m \in abandoned)
      BY <2>3 DEF PlacesOK, Unsettled
    <3> HIDE <1>1 DEF places, holders, a, g, C, ProcessInv
    <3>4. C(places(m)) = 0 /\ C(holders(m)) = 0 BY <2>1, <3>1, <3>2
    <3>5. (C(a) = 1 /\ C(g) = 0) \/ (C(a) = 0 /\ C(g) = 1) BY <2>1, <2>2, <3>3
    <3>6. 1 = C(places(m)) + C(holders(m)) + C(a) + C(g) BY <3>4, <3>5
    <3> QED BY <3>6 DEF C, a, g
  <2>4. CASE Unsettled(m) /\ \E e \in Elements(message_queue) : e.id = m
    <3>1. PICK i \in DOMAIN message_queue : message_queue[i].id = m BY <2>4 DEF Elements
    <3>2. places(m) = {i} BY <3>1 DEF PlacesOK, DistinctIds
    <3>3. holders(m) = {} BY <2>4 DEF PlacesOK
    <3>4. m \notin answered /\ m \notin abandoned BY <2>4 DEF Unsettled
    <3> HIDE <1>1 DEF places, holders, a, g, C, ProcessInv
    <3>5. C(places(m)) = 1 /\ C(holders(m)) = 0 BY <2>1, <3>2, <3>3
    <3>6. C(a) = 0 /\ C(g) = 0 BY <2>1, <2>2, <3>4
    <3>7. 1 = C(places(m)) + C(holders(m)) + C(a) + C(g) BY <3>5, <3>6
    <3> QED BY <3>7 DEF C, a, g
  <2>5. CASE Unsettled(m) /\ ~\E e \in Elements(message_queue) : e.id = m
    <3>1. places(m) = {} BY <2>5 DEF Elements
    <3>2. PICK o \in Owner : \E h \in hand[o] : h.id = m BY <2>5 DEF PlacesOK
    <3>3. holders(m) = {o} BY <3>2 DEF PlacesOK
    <3>4. m \notin answered /\ m \notin abandoned BY <2>5 DEF Unsettled
    <3> HIDE <1>1 DEF places, holders, a, g, C, ProcessInv
    <3>5. C(places(m)) = 0 /\ C(holders(m)) = 1 BY <2>1, <3>1, <3>3
    <3>6. C(a) = 0 /\ C(g) = 0 BY <2>1, <2>2, <3>4
    <3>7. 1 = C(places(m)) + C(holders(m)) + C(a) + C(g) BY <3>5, <3>6
    <3> QED BY <3>7 DEF C, a, g
  <2> QED BY <2>3, <2>4, <2>5
<1> QED BY <1>1, ProcessInvariance, PTL

(***************************************************************************)
(* A message is sent to the provider at most max_retries + 1 times in one  *)
(* conversation, and has one reply there (process.rs:1605, 1659-1687).     *)
(***************************************************************************)
THEOREM AgentProcessPrompts == ProcessSpec => []PromptsBounded
<1>1. ASSUME ProcessInv PROVE PromptsBounded
  <2> USE <1>1 DEF ProcessInv
  <2> SUFFICES ASSUME NEW m \in Prompt
               PROVE  /\ Times(conversation, "user", m) <= MaxRetries + 1
                      /\ Times(conversation, "assistant", m) <= 1
    BY DEF PromptsBounded, Times
  <2>1. Counted(conversation) BY DEF CountsOK, Logs
  <2>2. origin[m] \in {"new", "main", "stray", "plan", "queue"} BY DEF ProcessTypeOK
  <2>3. /\ Times(conversation, "user", m) \in Nat /\ Times(conversation, "assistant", m) \in Nat
        /\ MaxRetries \in Nat
    BY TimesNat, QueueLimits DEF ProcessTypeOK
  <2> QED BY <2>1, <2>2, <2>3 DEF Counted
<1> QED BY <1>1, ProcessInvariance, PTL

(***************************************************************************)
(* Nothing comes between a plan input and its reply, in any conversation   *)
(* (the write lock of process_plan_mode_input, plan_mode.rs:152-266).      *)
(***************************************************************************)
THEOREM AgentProcessPlanReplies == ProcessSpec => []PlanRepliesAdjacent
<1>1. ProcessInv => PlanRepliesAdjacent BY DEF ProcessInv
<1> QED BY <1>1, ProcessInvariance, PTL

\* Without ClearHistory no step takes an entry out of the main conversation, and an
\* input becomes a prompt of it by being put there.
LEMMA MainGrows ==
  ASSUME "ClearHistory" \notin Commands, ProcessInv, ProcessNext
  PROVE  /\ Elements(Main) \subseteq Elements(Main')
         /\ \A m \in Prompt : origin'[m] = "main" /\ origin[m] # "main" =>
              [role |-> "user", id |-> m] \in Elements(Main')
<1> USE HeldMessages DEF ProcessInv, Main
<1> DEFINE Grows == Elements(Main) \subseteq Elements(Main')
           Enters == \A m \in Prompt : origin'[m] = "main" /\ origin[m] # "main" =>
                       [role |-> "user", id |-> m] \in Elements(Main')
<1>1. ASSUME NEW r \in {"user", "assistant"}, NEW o \in Owner,
             conversation' = Said(r, o), UNCHANGED <<planMode, saved>>
      PROVE  Grows /\ (~planMode => [role |-> r, id |-> o] \in Elements(Main'))
  <2>1. conversation \in Seq(Entry) /\ [role |-> r, id |-> o] \in Entry
    BY DEF ProcessTypeOK, Entry
  <2>2. Elements(conversation') = Elements(conversation) \union {[role |-> r, id |-> o]}
    BY <1>1, <2>1, AppendElements DEF Said
  <2> QED BY <1>1, <2>2
<1>2. ASSUME UNCHANGED <<conversation, planMode, saved>> PROVE Grows
  BY <1>2
<1>3. ASSUME UNCHANGED origin PROVE Enters BY <1>3
<1>4. ASSUME NEW v \in Viewer, FromViewer(v) PROVE Grows /\ Enters
  <2>1. CASE \/ Attach(v) \/ Leave(v) \/ Cancel(v) \/ Detach(v) \/ Exit(v)
             \/ ParentExiting(v) \/ ParentShutdown(v)
    <3>1. UNCHANGED <<conversation, planMode, saved, origin>>
      BY <2>1 DEF Attach, Leave, Cancel, Detach, Exit, ParentExiting, ParentShutdown,
                  context, modes, history
    <3> QED BY <1>2, <1>3, <3>1
  <2>2. CASE ClearHistory(v) BY <2>2 DEF ClearHistory, Sends
  <2>3. CASE EnterPlanMode(v)
    <3>1. UNCHANGED origin BY <2>3 DEF EnterPlanMode, history
    <3>2. ~planMode /\ (planMode' \/ UNCHANGED planMode) /\ saved' = conversation
          /\ (planMode' \/ conversation' = conversation)
      BY <2>3 DEF EnterPlanMode
    <3>3. Grows BY <3>2
    <3> QED BY <1>3, <3>1, <3>3
  <2>4. CASE ExitPlanMode(v)
    <3>1. /\ UNCHANGED origin /\ planMode
          /\ \/ ~planMode' /\ conversation' = saved
             \/ UNCHANGED <<conversation, planMode, saved>>
      BY <2>4 DEF ExitPlanMode, history, context, modes
    <3>2. CASE ~planMode' /\ conversation' = saved BY <3>1, <3>2, <1>3
    <3>3. CASE UNCHANGED <<conversation, planMode, saved>> BY <3>1, <3>3, <1>3
    <3> QED BY <3>1, <3>2, <3>3
  <2>5. ASSUME NEW m \in Prompt, UserInput(v, m) PROVE Grows /\ Enters
    <3>1. /\ conversation' = Said("user", m) /\ UNCHANGED <<planMode, saved>>
          /\ origin' = [origin EXCEPT ![m] = IF planMode THEN "stray" ELSE "main"]
          /\ m \in Owner
      BY <2>5 DEF UserInput, modes
    <3>2. \A n \in Prompt : origin'[n] = "main" /\ origin[n] # "main" => n = m /\ ~planMode
      BY <3>1 DEF ProcessTypeOK
    <3>3. Grows /\ (~planMode => [role |-> "user", id |-> m] \in Elements(Main'))
      BY <1>1, <3>1
    <3> QED BY <3>2, <3>3
  <2>6. ASSUME NEW m \in Prompt, QueueMessage(v, m) \/ PlanModeUserInput(v, m)
        PROVE  Grows /\ Enters
    <3>1. /\ UNCHANGED <<conversation, planMode, saved>>
          /\ \E k \in {"queue", "plan"} : origin' = [origin EXCEPT ![m] = k]
      BY <2>6 DEF QueueMessage, PlanModeUserInput, context, modes
    <3>2. Enters BY <3>1 DEF ProcessTypeOK
    <3> QED BY <1>2, <3>1, <3>2
  <2> QED BY <1>4, <2>1, <2>2, <2>3, <2>4, <2>5, <2>6 DEF FromViewer
<1>5. ASSUME \/ PendingStep \/ ExitCheck \/ Terminate \/ \E m \in Prompt : TaskStep(m)
      PROVE  Grows /\ Enters
  <2>1. UNCHANGED <<origin, planMode, saved>>
    BY <1>5 DEF PendingStep, PendingBegin, PendingReply, PendingFail, ExitCheck, Terminate,
                TaskStep, PlanStart, PlanEnd, InputReply, InputFail, QueuePop, QueueStart,
                QueueReply, QueueFail, Reply, context, modes, history
  <2>2. \/ UNCHANGED conversation
        \/ \E r \in {"user", "assistant"}, o \in Owner : conversation' = Said(r, o)
    BY <1>5 DEF PendingStep, PendingBegin, PendingReply, PendingFail, ExitCheck, Terminate,
                TaskStep, PlanStart, PlanEnd, InputReply, InputFail, QueuePop, QueueStart,
                QueueReply, QueueFail, Reply, context
  <2> QED BY <1>1, <1>2, <1>3, <2>1, <2>2
<1> QED BY <1>4, <1>5 DEF ProcessNext

(***************************************************************************)
(* As long as no viewer clears the history, every input given to the main  *)
(* conversation is in it, however often plan mode is entered, again or in  *)
(* vain, and left (plan_mode.rs:36, 131; ClearHistory, process.rs:610, is  *)
(* meant to drop them).                                                    *)
(***************************************************************************)
THEOREM AgentProcessMainKept ==
  ASSUME "ClearHistory" \notin Commands
  PROVE  ProcessSpec => []MainKeepsPrompts
<1>1. MainKeepsPrompts <=>
        \A m \in Prompt : origin[m] = "main" => [role |-> "user", id |-> m] \in Elements(Main)
  BY DEF MainKeepsPrompts, Elements
<1>2. ProcessInit => MainKeepsPrompts BY DEF ProcessInit, MainKeepsPrompts
<1>3. ASSUME ProcessInv, MainKeepsPrompts, [ProcessNext]_processVars
      PROVE  MainKeepsPrompts'
  <2>1. CASE ProcessNext
    <3>1. \A m \in Prompt : origin'[m] = "main" => [role |-> "user", id |-> m] \in Elements(Main')
      BY <1>1, <1>3, <2>1, MainGrows
    <3> QED BY <3>1 DEF MainKeepsPrompts, Elements
  <2>2. CASE UNCHANGED processVars
    BY <1>3, <2>2 DEF processVars, context, modes, history, MainKeepsPrompts, Main
  <2> QED BY <1>3, <2>1, <2>2
<1> QED BY <1>2, <1>3, ProcessInvariance, PTL DEF ProcessSpec
================================================================================
