--------------------------- MODULE CoreElection_proofs ---------------------------
(***************************************************************************)
(* Proofs about CoreElection, for every number of tabs and calls.          *)
(***************************************************************************)
EXTENDS CoreElection, FiniteSetTheorems, SequenceTheorems, TLAPS

--------------------------------------------------------------------------------
(* What travels: a message about a call is between the router and the tab   *)
(* the call is made in.                                                     *)
CallsOf(t) == {c \in Call : owner[c] = t}
ToRouter(t) == {Msg("rpc", c) : c \in CallsOf(t)} \union {Msg("attachCore", n) : n \in Core}
               \union {Msg("teardownCore", 0), Msg("disconnect", 0)}
Notes == {Spawn, Ready, Freed}
ToTab(t) == {Msg("answer", c) : c \in CallsOf(t)} \union {Msg("coreDisconnected", c) : c \in CallsOf(t)}
            \union Notes

RouterBox(f) == DOMAIN f = Tab /\ \A t \in Tab : f[t] \in Seq(ToRouter(t))
TabBox(f)    == DOMAIN f = Tab /\ \A t \in Tab : f[t] \in Seq(ToTab(t))

\* A port belongs to a tab that has connected.
PortsOpened == \A t \in Connected : tab[t] # "none"

CoreInv == /\ TypeOK /\ RouterBox(toRouter) /\ TabBox(toTab) /\ PortsOpened
           /\ NothingLeftOfALostCore /\ CoreOrElection

--------------------------------------------------------------------------------
(* Sequences. *)

(* PORTS.delete removes the one port it is given. *)
LEMMA Deleted ==
  ASSUME NEW s \in Seq(Tab), IsInjective(s), NEW t \in ToSet(s)
  PROVE  /\ RemoveFirst(s, t) \in Seq(Tab) /\ IsInjective(RemoveFirst(s, t))
         /\ ToSet(RemoveFirst(s, t)) = ToSet(s) \ {t}
<1>1. PICK i \in 1..Len(s) : s[i] = t BY DEF ToSet
<1>2. {k \in 1..Len(s) : s[k] = t} = {i} BY <1>1 DEF IsInjective
<1>3. Min({i}) = i BY <1>1 DEF Min
<1>4. SelectInSeq(s, LAMBDA v : v = t) = i BY <1>2, <1>3 DEF SelectInSeq
<1>5. RemoveFirst(s, t) = SubSeq(s, 1, i - 1) \o SubSeq(s, i + 1, Len(s))
  BY <1>1, <1>4 DEF RemoveFirst, RemoveAt
<1> DEFINE a == SubSeq(s, 1, i - 1)
           b == SubSeq(s, i + 1, Len(s))
           r == a \o b
<1>6. a \in Seq(Tab) /\ Len(a) = i - 1 /\ \A k \in 1..(i - 1) : a[k] = s[k]
  <2>1. a = [k \in 1..(i - 1) |-> s[k]] BY <1>1
  <2>2. \A k \in 1..(i - 1) : s[k] \in Tab BY <1>1
  <2> QED BY <1>1, <2>1, <2>2
<1>7. b \in Seq(Tab) /\ Len(b) = Len(s) - i /\ \A k \in 1..(Len(s) - i) : b[k] = s[i + k]
  <2>1. b = [k \in 1..(Len(s) - i) |-> s[i + k]] BY <1>1
  <2>2. \A k \in 1..(Len(s) - i) : s[i + k] \in Tab BY <1>1
  <2> QED BY <1>1, <2>1, <2>2
<1> HIDE DEF a, b
<1>8. r \in Seq(Tab) /\ Len(r) = Len(s) - 1
  <2>1. r \in Seq(Tab) /\ Len(r) = Len(a) + Len(b) BY <1>6, <1>7, ConcatProperties
  <2>2. Len(s) \in Nat OBVIOUS
  <2> QED BY <1>1, <1>6, <1>7, <2>1, <2>2
<1>9. \A k \in 1..Len(r) : r[k] = IF k < i THEN s[k] ELSE s[k + 1]
  <2> TAKE k \in 1..Len(r)
  <2>1. CASE k < i BY <2>1, <1>1, <1>6, <1>7
  <2>2. CASE k >= i
    <3>1. r[k] = b[k - (i - 1)] BY <2>2, <1>1, <1>6, <1>7, <1>8
    <3>2. k - (i - 1) \in 1..(Len(s) - i) BY <2>2, <1>1, <1>8
    <3>3. b[k - (i - 1)] = s[i + (k - (i - 1))] BY <1>7, <3>2
    <3> QED BY <2>2, <1>1, <3>1, <3>2, <3>3
  <2> QED BY <1>1, <2>1, <2>2
<1> HIDE DEF r
<1>10. IsInjective(r) 
  <2> SUFFICES ASSUME NEW k \in 1..Len(r), NEW n \in 1..Len(r), r[k] = r[n] PROVE k = n
    BY <1>8 DEF IsInjective
  <2>1. \A x, y \in 1..Len(s) : s[x] = s[y] => x = y BY DEF IsInjective
  <2>2. k + 1 \in 1..Len(s) /\ n + 1 \in 1..Len(s) /\ k \in 1..Len(s) /\ n \in 1..Len(s) BY <1>8
  <2> QED BY <1>1, <1>9, <2>1, <2>2
<1>11. \A k \in 1..Len(r) : r[k] \in ToSet(s) \ {t}
  <2> TAKE k \in 1..Len(r)
  <2>1. \A x, y \in 1..Len(s) : s[x] = s[y] => x = y BY DEF IsInjective
  <2>2. k + 1 \in 1..Len(s) /\ k \in 1..Len(s) BY <1>8
  <2>3. r[k] # t BY <1>1, <1>9, <2>1, <2>2
  <2>4. r[k] \in ToSet(s) BY <1>9, <2>2 DEF ToSet
  <2> QED BY <2>3, <2>4
<1>12. ASSUME NEW k \in 1..Len(s), s[k] # t PROVE \E n \in 1..Len(r) : r[n] = s[k]
  <2>1. CASE k < i
    <3>1. k \in 1..Len(r) BY <2>1, <1>1, <1>8
    <3> QED BY <2>1, <3>1, <1>9
  <2>2. CASE k > i
    <3>1. k - 1 \in 1..Len(r) /\ ~(k - 1 < i) BY <2>2, <1>1, <1>8
    <3>2. r[k - 1] = s[(k - 1) + 1] BY <3>1, <1>9
    <3> QED BY <3>1, <3>2
  <2> QED BY <1>12, <1>1, <2>1, <2>2
<1>13. ToSet(r) = ToSet(s) \ {t}
  <2>1. DOMAIN r = 1..Len(r) BY <1>8
  <2>2. ToSet(r) = {r[n] : n \in 1..Len(r)} BY <2>1 DEF ToSet
  <2>3. ToSet(s) = {s[n] : n \in 1..Len(s)} BY DEF ToSet
  <2>4. ASSUME NEW x \in ToSet(s) \ {t} PROVE x \in ToSet(r)
    <3>1. PICK n \in 1..Len(s) : s[n] = x BY <2>3
    <3> QED BY <1>12, <2>2, <3>1
  <2> QED BY <1>11, <2>2, <2>4
<1> QED BY <1>5, <1>8, <1>10, <1>13 DEF r, a, b

(* A finite set can be listed. *)
LEMMA Listed == ASSUME NEW S, IsFiniteSet(S) PROVE SetToSeq(S) \in Seq(S)
<1>1. Cardinality(S) \in Nat /\ ExistsBijection(1..Cardinality(S), S) BY FS_CardinalityType
<1>2. \E f \in [1..Cardinality(S) -> S] : IsInjective(f)
  BY <1>1 DEF ExistsBijection, Bijection, Injection
<1>3. SetToSeq(S) \in [1..Cardinality(S) -> S] BY <1>2 DEF SetToSeq
<1> QED BY <1>1, <1>3

(* The messages about a set of calls of one tab. *)
LEMMA ListedCalls ==
  ASSUME NEW t \in Tab, NEW S \in SUBSET CallsOf(t), NEW kind
  PROVE  SetToSeq({Msg(kind, c) : c \in S}) \in Seq({Msg(kind, c) : c \in CallsOf(t)})
<1> DEFINE M == {Msg(kind, c) : c \in S}
<1>1. IsFiniteSet(S) BY Bounds, FS_Subset DEF CallsOf
<1> DEFINE f == [c \in S |-> Msg(kind, c)]
<1>2. IsFiniteSet(M)
  <2>1. f \in Surjection(S, M) BY DEF Surjection
  <2> QED BY <1>1, <2>1, FS_Surjection
<1>3. SetToSeq(M) \in Seq(M) BY <1>2, Listed
<1> QED BY <1>3

--------------------------------------------------------------------------------
(* Channels. *)

(* A tab posts a message of its own. *)
LEMMA PostsBox ==
  ASSUME RouterBox(toRouter), NEW t \in Tab, NEW m \in ToRouter(t), Posts(t, m)
  PROVE  RouterBox(toRouter')
<1>1. Append(toRouter[t], m) \in Seq(ToRouter(t)) BY AppendProperties DEF RouterBox
<1> QED BY <1>1 DEF RouterBox, Posts

(* The router takes the first message of a port. *)
LEMMA HandlesBox ==
  ASSUME RouterBox(toRouter), NEW t \in Tab, NEW kind, Handles(t, kind)
  PROVE  RouterBox(toRouter') /\ Head(toRouter[t]) \in ToRouter(t)
<1>1. toRouter[t] \in Seq(ToRouter(t)) /\ toRouter[t] # <<>> BY DEF RouterBox, Handles
<1>2. Tail(toRouter[t]) \in Seq(ToRouter(t)) /\ Head(toRouter[t]) \in ToRouter(t) BY <1>1
<1> QED BY <1>2 DEF RouterBox, Handles

(* A tab takes the first message of the router. *)
LEMMA TakesBox ==
  ASSUME TabBox(toTab), NEW t \in Tab, NEW kind, Takes(t, kind)
  PROVE  TabBox(toTab') /\ Head(toTab[t]) \in ToTab(t)
<1>1. toTab[t] \in Seq(ToTab(t)) /\ toTab[t] # <<>> BY DEF TabBox, Takes
<1>2. Tail(toTab[t]) \in Seq(ToTab(t)) /\ Head(toTab[t]) \in ToTab(t) BY <1>1
<1> QED BY <1>2 DEF TabBox, Takes

(* The router posts a note to some of the tabs. *)
LEMMA PostedBox ==
  ASSUME NEW f, TabBox(f), NEW to, NEW msgs \in Seq(Notes)
  PROVE  TabBox(Posted(f, to, msgs))
<1>1. ASSUME NEW t \in Tab PROVE f[t] \o msgs \in Seq(ToTab(t))
  <2>1. msgs \in Seq(ToTab(t)) BY DEF ToTab
  <2>2. f[t] \in Seq(ToTab(t)) BY DEF TabBox
  <2> QED BY <2>1, <2>2, ConcatProperties
<1> QED BY <1>1 DEF TabBox, Posted

(* The router answers, or rejects, some of the calls. *)
LEMMA RepliesBox ==
  ASSUME NEW f, TabBox(f), NEW calls \in SUBSET Call, NEW to,
         NEW kind \in {"answer", "coreDisconnected"}
  PROVE  TabBox(Replies(f, calls, to, kind))
<1> DEFINE msgs(t) == SetToSeq({Msg(kind, c) : c \in {d \in calls : owner[d] = t}})
<1>1. ASSUME NEW t \in Tab PROVE f[t] \o msgs(t) \in Seq(ToTab(t))
  <2>1. {d \in calls : owner[d] = t} \in SUBSET CallsOf(t) BY DEF CallsOf
  <2>2. msgs(t) \in Seq({Msg(kind, c) : c \in CallsOf(t)}) BY <2>1, ListedCalls
  <2>3. {Msg(kind, c) : c \in CallsOf(t)} \subseteq ToTab(t) BY DEF ToTab
  <2>4. msgs(t) \in Seq(ToTab(t)) BY <2>2, <2>3
  <2>5. f[t] \in Seq(ToTab(t)) BY DEF TabBox
  <2> QED BY <2>4, <2>5, ConcatProperties
<1> QED BY <1>1 DEF TabBox, Replies

(* A tab is asked to spawn the core. *)
LEMMA ElectBox ==
  ASSUME NEW f, TabBox(f), NEW t, Elect(t, f) PROVE TabBox(toTab')
<1>1. <<Spawn>> \in Seq(Notes) BY DEF Notes
<1> QED BY <1>1, PostedBox DEF Elect

(* Losing the core rejects its calls and tells the tabs. *)
LEMMA LoseCoreBox ==
  ASSUME TabBox(toTab), NEW q, NEW rpcs \in SUBSET (Call \X Core), NEW reelect \in BOOLEAN,
         LoseCore(q, rpcs, reelect)
  PROVE  TabBox(toTab')
<1> DEFINE rejected == Replies(toTab, Asked(rpcs), ToSet(q), "coreDisconnected")
           note     == IF loaded THEN <<Freed>> ELSE NoNote
           told     == Posted(rejected, ToSet(q), note)
<1>1. Asked(rpcs) \in SUBSET Call BY DEF Asked
<1>2. note \in Seq(Notes)
  <2>1. <<Freed>> \in Seq(Notes) BY DEF Notes
  <2>2. NoNote \in Seq(Notes) BY DEF NoNote
  <2> QED BY <2>1, <2>2
<1>3. TabBox(rejected) BY <1>1, RepliesBox
<1>4. TabBox(told) BY <1>2, <1>3, PostedBox
<1>5. IF reelect THEN Elect(Next1(q), told) ELSE election' = NoTab /\ toTab' = told BY DEF LoseCore
<1> HIDE DEF told
<1> QED BY <1>4, <1>5, ElectBox

(* A tab makes calls of its own once more. *)
LEMMA RepostBox ==
  ASSUME RouterBox(toRouter), NEW t \in Tab, NEW calls \in SUBSET CallsOf(t), Repost(t, calls)
  PROVE  RouterBox(toRouter')
<1> DEFINE msgs == SetToSeq({Msg("rpc", c) : c \in calls})
<1>1. msgs \in Seq({Msg("rpc", c) : c \in CallsOf(t)}) BY ListedCalls
<1>2. msgs \in Seq(ToRouter(t)) BY <1>1 DEF ToRouter
<1>3. toRouter[t] \in Seq(ToRouter(t)) BY DEF RouterBox
<1>4. toRouter[t] \o msgs \in Seq(ToRouter(t)) BY <1>2, <1>3, ConcatProperties
<1> QED BY <1>4 DEF RouterBox, Repost

(* What a handler knows of the message it takes. *)
LEMMA Received ==
  ASSUME NEW t \in Tab
  PROVE  /\ \A m \in ToRouter(t) : /\ m.kind = "rpc" => m.arg \in CallsOf(t)
                                   /\ m.kind = "attachCore" => m.arg \in Core
         /\ \A m \in ToTab(t) : m.kind \in {"answer", "coreDisconnected"} => m.arg \in CallsOf(t)
BY DEF ToRouter, ToTab, Notes, Msg, Spawn, Ready, Freed

--------------------------------------------------------------------------------
(* Every step keeps the channels. *)
LEMMA BoxStep == ASSUME CoreInv, Next PROVE RouterBox(toRouter') /\ TabBox(toTab')
<1> DEFINE Goal == RouterBox(toRouter') /\ TabBox(toTab')
<1>a. RouterBox(toRouter) /\ TabBox(toTab) BY DEF CoreInv
<1>b. pending \in SUBSET (Call \X Core) /\ ports \in Seq(Tab) BY DEF CoreInv, TypeOK
<1>c. <<Spawn>> \in Seq(Notes) /\ <<Ready>> \in Seq(Notes) BY DEF Notes
<1>d. <<Freed>> \in Seq(Notes) /\ NoNote \in Seq(Notes) BY DEF Notes, NoNote
<1>1. ASSUME NEW t \in Tab, Connect(t) PROVE Goal
  <2>1. <<Spawn>> \in Seq(ToTab(t)) BY <1>c DEF ToTab
  <2>2. toTab' = toTab \/ toTab' = [toTab EXCEPT ![t] = <<Spawn>>] BY <1>1 DEF Connect
  <2> QED BY <1>1, <1>a, <2>1, <2>2 DEF Connect, TabBox, RouterBox
<1>2. ASSUME NEW t \in Tab, Receive(t) PROVE Goal
  <2>1. CASE SpawnCore(t)
    <3>1. TabBox(toTab') BY <1>a, <2>1, TakesBox DEF SpawnCore
    <3>2. CASE worker[t] # NoCore BY <1>a, <2>1, <3>1, <3>2 DEF SpawnCore
    <3>3. CASE worker[t] = NoCore
      <4>1. cores' \in Core BY <2>1, <3>3 DEF SpawnCore, CoreInv, TypeOK, Core, NoCore
      <4>2. Msg("attachCore", cores') \in ToRouter(t) BY <4>1 DEF ToRouter
      <4> QED BY <1>a, <2>1, <3>1, <3>3, <4>2, PostsBox DEF SpawnCore
    <3> QED BY <3>2, <3>3
  <2>2. CASE CoreReady(t)
    <3>1. TabBox(toTab') BY <1>a, <2>2, TakesBox DEF CoreReady
    <3>2. Mine(t, "waiting") \in SUBSET CallsOf(t) BY DEF Mine, CallsOf
    <3> QED BY <1>a, <2>2, <3>1, <3>2, RepostBox DEF CoreReady
  <2>3. CASE ModelFreed(t)
    <3>1. TabBox(toTab') BY <1>a, <2>3, TakesBox DEF ModelFreed
    <3> QED BY <1>a, <2>3, <3>1 DEF ModelFreed
  <2>4. CASE CoreDisconnected(t)
    <3>1. TabBox(toTab') /\ Head(toTab[t]) \in ToTab(t) BY <1>a, <2>4, TakesBox DEF CoreDisconnected
    <3>2. Head(toTab[t]).kind = "coreDisconnected" BY <2>4 DEF CoreDisconnected, Takes
    <3>3. {Head(toTab[t]).arg} \in SUBSET CallsOf(t) BY <3>1, <3>2, Received
    <3>4. Repost(t, {Head(toTab[t]).arg}) \/ UNCHANGED toRouter BY <2>4 DEF CoreDisconnected
    <3> QED BY <1>a, <3>1, <3>3, <3>4, RepostBox
  <2>5. CASE Answered(t)
    <3>1. TabBox(toTab') BY <1>a, <2>5, TakesBox DEF Answered
    <3> QED BY <1>a, <2>5, <3>1 DEF Answered
  <2> QED BY <1>2, <2>1, <2>2, <2>3, <2>4, <2>5 DEF Receive
<1>3. ASSUME NEW t \in Tab, Teardown(t) PROVE Goal
  <2>1. Msg("teardownCore", 0) \in ToRouter(t) BY DEF ToRouter
  <2> QED BY <1>3, <1>a, <2>1, PostsBox DEF Teardown
<1>4. ASSUME NEW t \in Tab, Leaves(t) PROVE TabBox(toTab')
  BY <1>4, <1>a DEF Leaves, TabBox
<1>5. ASSUME NEW t \in Tab, PageHide(t) PROVE Goal
  <2>1. Msg("disconnect", 0) \in ToRouter(t) BY DEF ToRouter
  <2> QED BY <1>4, <1>5, <1>a, <2>1, PostsBox DEF PageHide
<1>6. ASSUME NEW t \in Tab, Kill(t) PROVE Goal BY <1>4, <1>6, <1>a DEF Kill
<1>7. ASSUME NEW q, NEW rpcs \in SUBSET pending, NEW reelect \in BOOLEAN, LoseCore(q, rpcs, reelect)
      PROVE  TabBox(toTab')
  BY <1>7, <1>a, <1>b, LoseCoreBox
<1>8. ASSUME NEW t \in Tab, DisconnectPort(t) PROVE TabBox(toTab')
  <2> DEFINE rest == RemoveFirst(ports, t)
             others == {p \in pending : owner[p[1]] # t}
  <2>1. \/ LoseCore(rest, others, TRUE) \/ Elect(Next1(rest), toTab) \/ UNCHANGED toTab
    BY <1>8 DEF DisconnectPort
  <2>2. others \in SUBSET pending OBVIOUS
  <2> HIDE DEF rest, others
  <2>3. CASE LoseCore(rest, others, TRUE) BY <2>2, <2>3, <1>7
  <2>4. CASE Elect(Next1(rest), toTab) BY <2>4, <1>a, ElectBox
  <2> QED BY <1>a, <2>1, <2>3, <2>4
<1>9. ASSUME NEW t \in Tab, Handle(t) PROVE Goal
  <2>1. CASE OnAttach(t)
    <3>1. toTab' = toTab \/ toTab' = Posted(toTab, Connected, <<Ready>>) BY <2>1 DEF OnAttach
    <3>2. TabBox(toTab') BY <3>1, <1>a, <1>c, PostedBox
    <3> QED BY <2>1, <3>2, <1>a, HandlesBox DEF OnAttach
  <2>2. CASE OnRpc(t)
    <3> DEFINE c == Head(toRouter[t]).arg
               asked == IF election = NoTab THEN Posted(toTab, {t}, <<Spawn>>) ELSE toTab
    <3>1. RouterBox(toRouter') /\ Head(toRouter[t]) \in ToRouter(t) BY <1>a, <2>2, HandlesBox DEF OnRpc
    <3>2. Head(toRouter[t]).kind = "rpc" BY <2>2 DEF OnRpc, Handles
    <3>3. {c} \in SUBSET Call BY <3>1, <3>2, Received DEF CallsOf
    <3>4. TabBox(asked) BY <1>a, <1>c, PostedBox
    <3>5. toTab' = toTab \/ toTab' = Replies(asked, {c}, Connected, "coreDisconnected") BY <2>2 DEF OnRpc
    <3> HIDE DEF asked, c
    <3> QED BY <1>a, <3>1, <3>3, <3>4, <3>5, RepliesBox
  <2>3. CASE OnTeardown(t)
    <3>1. LoseCore(ports, pending, FALSE) \/ UNCHANGED toTab BY <2>3 DEF OnTeardown
    <3>2. TabBox(toTab') BY <1>a, <1>7, <3>1
    <3> QED BY <1>a, <2>3, <3>2, HandlesBox DEF OnTeardown
  <2>4. CASE OnDisconnect(t) BY <1>a, <1>8, <2>4, HandlesBox DEF OnDisconnect
  <2> QED BY <1>9, <2>1, <2>2, <2>3, <2>4 DEF Handle
<1>10. ASSUME NEW t \in Tab, Reap(t) PROVE Goal BY <1>10, <1>a, <1>8 DEF Reap
<1>11. ASSUME NEW c \in Call, Rpc(c) PROVE Goal
  <2>1. owner[c] \in Tab BY OwnerIsATab
  <2>2. Msg("rpc", c) \in ToRouter(owner[c]) BY DEF ToRouter, CallsOf
  <2> QED BY <1>11, <1>a, <2>1, <2>2, PostsBox DEF Rpc
<1>12. ASSUME NEW c \in Call, NEW did \in {"loaded", "freed", "neither"}, CoreDone(c, did) PROVE Goal
  <2> DEFINE note == IF did = "freed" THEN <<Freed>> ELSE NoNote
             told == Posted(toTab, Connected, note)
  <2>1. TabBox(told)
    <3>1. note \in Seq(Notes) BY <1>d
    <3> HIDE DEF note
    <3> QED BY <3>1, <1>a, PostedBox
  <2>2. toTab' = Replies(told, {c}, Connected, "answer") BY <1>12 DEF CoreDone
  <2> HIDE DEF told
  <2>3. TabBox(toTab') BY <2>1, <2>2, RepliesBox
  <2> QED BY <1>12, <1>a, <2>3 DEF CoreDone
<1>13. ASSUME NEW p \in pings, Pong(p) PROVE Goal
  <2>1. toTab' = Posted(toTab, {p[1]} \intersect Connected, <<Ready>>) BY <1>13 DEF Pong
  <2>2. TabBox(toTab') BY <2>1, <1>a, <1>c, PostedBox
  <2> QED BY <1>13, <1>a, <2>2 DEF Pong
<1>14. ASSUME NEW p \in pings, PingFails(p) PROVE Goal
  <2>1. LoseCore(ports, pending, TRUE) \/ Elect(p[1], toTab) \/ UNCHANGED toTab BY <1>14 DEF PingFails
  <2>2. TabBox(toTab') BY <2>1, <1>a, <1>7, ElectBox
  <2> QED BY <1>14, <1>a, <2>2 DEF PingFails
<1>15. ASSUME NEW n \in doomed, Shutdown(n) PROVE Goal BY <1>15, <1>a DEF Shutdown
<1>16. ASSUME ElectionTimeout PROVE Goal
  BY <1>16, <1>a, ElectBox DEF ElectionTimeout
<1> QED BY <1>1, <1>2, <1>3, <1>5, <1>6, <1>9, <1>10, <1>11, <1>12, <1>13, <1>14, <1>15, <1>16 DEF Next

--------------------------------------------------------------------------------
(* Every step keeps the types and the ports. *)

\* What an election or the loss of the core does to the types.
Elected == election' \in Tab \union {NoTab}

LEMMA FirstPort ==
  ASSUME NEW q \in Seq(Tab)
  PROVE  /\ Next1(q) \in Tab \union {NoTab}
         /\ q # <<>> => Next1(q) \in ToSet(q)
BY DEF Next1, ToSet

LEMMA LoseCoreType ==
  ASSUME NEW q \in Seq(Tab), NEW rpcs, NEW reelect \in BOOLEAN, LoseCore(q, rpcs, reelect)
  PROVE  /\ corePort' = NoCore /\ coreHost' = NoTab /\ loaded' = FALSE /\ pending' = {}
         /\ torn' \in BOOLEAN /\ Elected
BY FirstPort DEF LoseCore, Elect, Elected

LEMMA DisconnectType ==
  ASSUME TypeOK, NEW t \in Connected, DisconnectPort(t)
  PROVE  /\ ports' \in Seq(Tab) /\ IsInjective(ports') /\ ToSet(ports') = Connected \ {t}
         /\ corePort' \in Nat /\ coreHost' \in Tab \union {NoTab} /\ Elected
         /\ loaded' \in BOOLEAN /\ torn' \in BOOLEAN /\ pending' \in SUBSET pending
<1> DEFINE rest == RemoveFirst(ports, t)
           others == {p \in pending : owner[p[1]] # t}
<1>1. rest \in Seq(Tab) /\ IsInjective(rest) /\ ToSet(rest) = Connected \ {t}
  BY Deleted DEF TypeOK, Connected
<1>2. ports' = rest BY DEF DisconnectPort
<1>3. CASE LoseCore(rest, others, TRUE)
  <2> HIDE DEF rest, others
  <2>1. /\ corePort' = NoCore /\ coreHost' = NoTab /\ loaded' = FALSE /\ pending' = {}
        /\ torn' \in BOOLEAN /\ Elected
    BY <1>1, <1>3, LoseCoreType
  <2> QED BY <1>1, <1>2, <2>1 DEF NoCore
<1>4. CASE ~LoseCore(rest, others, TRUE)
  <2>1. pending' = others /\ UNCHANGED <<corePort, coreHost, loaded, torn>> BY <1>4 DEF DisconnectPort
  <2>2. election' = election \/ election' = Next1(rest) BY <1>4 DEF DisconnectPort, Elect
  <2>3. Next1(rest) \in Tab \union {NoTab} BY <1>1, FirstPort
  <2> HIDE DEF rest
  <2> QED BY <1>1, <1>2, <2>1, <2>2, <2>3 DEF TypeOK, Elected
<1> QED BY <1>3, <1>4

LEMMA TypeStep == ASSUME CoreInv, Next PROVE TypeOK' /\ PortsOpened'
<1> DEFINE Goal == TypeOK' /\ PortsOpened'
<1> USE DEF CoreInv, PortsOpened, router, tabs, workers
<1>a. TypeOK /\ PortsOpened OBVIOUS
<1>b. OwnerIsATab /\ NoTabIsNone BY OwnerIsATab, NoTabIsNone
<1>1. ASSUME NEW t \in Tab, Connect(t) PROVE Goal
  <2>1. t \notin Connected BY <1>1 DEF Connect
  <2>2. ports' \in Seq(Tab) /\ IsInjective(ports') /\ ToSet(ports') = Connected \union {t}
    <3>1. \A i \in 1..Len(ports) : ports[i] # t BY <2>1 DEF Connected, ToSet, TypeOK
    <3>2. /\ ports' \in Seq(Tab) /\ Len(ports') = Len(ports) + 1
          /\ \A i \in 1..Len(ports) : ports'[i] = ports[i]
          /\ ports'[Len(ports) + 1] = t
      BY <1>1 DEF Connect, TypeOK
    <3>3. IsInjective(ports')
      <4>1. \A x, y \in 1..Len(ports) : ports[x] = ports[y] => x = y BY DEF IsInjective, TypeOK
      <4>2. DOMAIN ports' = 1..(Len(ports) + 1) BY <3>2
      <4>3. Len(ports) \in Nat BY DEF TypeOK
      <4>4. ASSUME NEW x \in 1..(Len(ports) + 1), NEW y \in 1..(Len(ports) + 1), ports'[x] = ports'[y]
            PROVE  x = y
        <5>1. CASE x = Len(ports) + 1 BY <3>1, <3>2, <4>3, <4>4, <5>1
        <5>2. CASE y = Len(ports) + 1 BY <3>1, <3>2, <4>3, <4>4, <5>2
        <5>3. CASE x # Len(ports) + 1 /\ y # Len(ports) + 1
          <6>1. x \in 1..Len(ports) /\ y \in 1..Len(ports) BY <4>3, <5>3
          <6> QED BY <3>2, <4>1, <4>4, <6>1
        <5> QED BY <5>1, <5>2, <5>3
      <4> QED BY <4>2, <4>4 DEF IsInjective
    <3>4. ToSet(ports') = {ports'[i] : i \in 1..(Len(ports) + 1)} BY <3>2 DEF ToSet
    <3>5. Connected = {ports[i] : i \in 1..Len(ports)} BY DEF Connected, ToSet, TypeOK
    <3>6. Len(ports) \in Nat BY DEF TypeOK
    <3>7. ToSet(ports') = Connected \union {t}
      <4>1. ASSUME NEW x \in ToSet(ports') PROVE x \in Connected \union {t} BY <3>2, <3>4, <3>5, <3>6, <4>1
      <4>2. ASSUME NEW x \in Connected \union {t} PROVE x \in ToSet(ports')
        <5>1. CASE x = t BY <3>2, <3>4, <3>6, <5>1
        <5>2. CASE x \in Connected
          <6>1. PICK i \in 1..Len(ports) : ports[i] = x BY <3>5, <5>2
          <6> QED BY <3>2, <3>4, <3>6, <6>1
        <5> QED BY <4>2, <5>1, <5>2
      <4> QED BY <4>1, <4>2
    <3> QED BY <3>2, <3>3, <3>7
  <2>3. pings' \subseteq Tab \X Core
    <3>1. corePort # NoCore => corePort \in Core BY DEF TypeOK, Core
    <3> QED BY <1>1, <3>1 DEF Connect, TypeOK
  <2>4. election' \in Tab \union {NoTab} /\ torn' \in BOOLEAN BY <1>1 DEF Connect, TypeOK
  <2>5. TypeOK' BY <1>1, <2>2, <2>3, <2>4 DEF Connect, TypeOK
  <2>6. tab' = [tab EXCEPT ![t] = "open"] BY <1>1 DEF Connect
  <2>7. PortsOpened' BY <2>2, <2>6 DEF Connected, TypeOK
  <2> QED BY <2>5, <2>7
<1>2. ASSUME NEW t \in Tab, Receive(t) PROVE Goal
  <2>0. UNCHANGED <<ports, corePort, coreHost, election, loaded, pending, pings, torn, tab, doomed, model>>
    BY <1>2 DEF Receive, SpawnCore, CoreReady, ModelFreed, CoreDisconnected, Answered
  <2>1. worker' \in [Tab -> Nat] /\ cores' \in Nat /\ up' \subseteq Core
    <3>1. CASE SpawnCore(t) BY <3>1 DEF SpawnCore, TypeOK, Core, NoCore
    <3>2. CASE ~SpawnCore(t)
      <4>1. UNCHANGED <<worker, cores, up>>
        BY <1>2, <3>2 DEF Receive, CoreReady, ModelFreed, CoreDisconnected, Answered
      <4> QED BY <4>1 DEF TypeOK
    <3> QED BY <3>1, <3>2
  <2>2. ready' \in [Tab -> BOOLEAN]
    BY <1>2 DEF Receive, SpawnCore, CoreReady, ModelFreed, CoreDisconnected, Answered, TypeOK
  <2>3. phase' \in [Call -> {"idle", "sent", "again", "waiting", "orphaned", "gone"}]
    <3>1. CASE CoreReady(t) \/ ModelFreed(t) BY <3>1 DEF CoreReady, ModelFreed, Become, TypeOK
    <3>2. CASE CoreDisconnected(t) BY <3>2 DEF CoreDisconnected, TypeOK
    <3>3. CASE Answered(t) \/ SpawnCore(t) BY <3>3 DEF Answered, SpawnCore, TypeOK
    <3> QED BY <1>2, <3>1, <3>2, <3>3 DEF Receive
  <2> QED BY <2>0, <2>1, <2>2, <2>3 DEF TypeOK, Connected
<1>3. ASSUME NEW t \in Tab, Teardown(t) PROVE Goal
  <2>1. doomed' \subseteq Core BY <1>3 DEF Teardown, TypeOK, Core
  <2> QED BY <1>3, <2>1 DEF Teardown, TypeOK, Connected, NoCore
<1>4. ASSUME NEW t \in Tab, Leaves(t)
      PROVE  /\ tab' \in [Tab -> {"none", "open", "gone"}] /\ worker' \in [Tab -> Nat]
             /\ phase' \in [Call -> {"idle", "sent", "again", "waiting", "orphaned", "gone"}]
             /\ ready' \in [Tab -> BOOLEAN] /\ \A u \in Tab : tab'[u] = "none" => tab[u] = "none"
  BY <1>4 DEF Leaves, TypeOK, NoCore
<1>5. ASSUME NEW t \in Tab, PageHide(t) PROVE Goal
  <2>1. doomed' \subseteq Core BY <1>5 DEF PageHide, TypeOK, Core
  <2>2. Connected \subseteq Tab BY DEF Connected, ToSet, TypeOK
  <2>3. Leaves(t) /\ UNCHANGED <<router, cores, up, model>> BY <1>5 DEF PageHide
  <2> QED BY <1>4, <2>1, <2>2, <2>3 DEF TypeOK, Connected
<1>6. ASSUME NEW t \in Tab, Kill(t) PROVE Goal
  <2>1. Connected \subseteq Tab BY DEF Connected, ToSet, TypeOK
  <2>2. /\ Leaves(t) /\ UNCHANGED <<router, cores, doomed>>
        /\ up' \subseteq up /\ model' \subseteq model BY <1>6 DEF Kill
  <2> QED BY <1>4, <2>1, <2>2 DEF TypeOK, Connected
<1>8. ASSUME NEW t \in Connected, DisconnectPort(t), UNCHANGED <<pings, tabs, workers>> PROVE Goal
  <2>1. TypeOK' BY <1>8, DisconnectType DEF TypeOK, Elected
  <2>2. Connected' = Connected \ {t} BY <1>8, DisconnectType DEF Connected
  <2> QED BY <1>8, <2>1, <2>2
<1>9. ASSUME NEW t \in Tab, Handle(t) PROVE Goal
  <2>1. CASE OnAttach(t)
    <3>1. Head(toRouter[t]) \in ToRouter(t) BY <2>1, HandlesBox DEF OnAttach
    <3>2. Head(toRouter[t]).arg \in Core BY <2>1, <3>1, Received DEF OnAttach, Handles
    <3> QED BY <2>1, <3>2 DEF OnAttach, TypeOK, Connected, Core
  <2>2. CASE OnRpc(t)
    <3> DEFINE c == Head(toRouter[t]).arg
    <3>1. Head(toRouter[t]) \in ToRouter(t) BY <2>2, HandlesBox DEF OnRpc
    <3>2. c \in Call BY <2>2, <3>1, Received DEF OnRpc, Handles, CallsOf
    <3>3. corePort # NoCore => corePort \in Core BY DEF TypeOK, Core
    <3>4. pending' \subseteq Call \X Core BY <2>2, <3>2, <3>3 DEF OnRpc, TypeOK
    <3>5. election' \in Tab \union {NoTab} /\ torn' \in BOOLEAN BY <2>2 DEF OnRpc, TypeOK
    <3>6. UNCHANGED <<ports, corePort, coreHost, loaded, pings, tabs, workers>> BY <2>2 DEF OnRpc
    <3> QED BY <3>4, <3>5, <3>6 DEF TypeOK, Connected
  <2>3. CASE OnTeardown(t)
    <3>1. UNCHANGED <<ports, pings, tabs, workers>> BY <2>3 DEF OnTeardown
    <3>2. \/ UNCHANGED <<corePort, coreHost, election, loaded, pending, torn>>
          \/ LoseCore(ports, pending, FALSE)
      BY <2>3 DEF OnTeardown
    <3>3. CASE LoseCore(ports, pending, FALSE)
      <4>1. ports \in Seq(Tab) BY DEF TypeOK
      <4>2. /\ corePort' = NoCore /\ coreHost' = NoTab /\ loaded' = FALSE /\ pending' = {}
            /\ torn' \in BOOLEAN /\ election' \in Tab \union {NoTab}
        BY <3>3, <4>1, LoseCoreType DEF Elected
      <4> QED BY <3>1, <4>2 DEF TypeOK, Connected, NoCore
    <3>4. CASE UNCHANGED <<corePort, coreHost, election, loaded, pending, torn>>
      BY <3>1, <3>4 DEF TypeOK, Connected
    <3> QED BY <3>2, <3>3, <3>4
  <2>4. CASE OnDisconnect(t) BY <1>8, <2>4 DEF OnDisconnect, Handles
  <2> QED BY <1>9, <2>1, <2>2, <2>3, <2>4 DEF Handle
<1>10. ASSUME NEW t \in Tab, Reap(t) PROVE Goal BY <1>10, <1>8 DEF Reap
<1>11. ASSUME NEW c \in Call, Rpc(c) PROVE Goal BY <1>11 DEF Rpc, TypeOK, Connected
<1>12. ASSUME NEW c \in Call, NEW did \in {"loaded", "freed", "neither"}, CoreDone(c, did) PROVE Goal
  <2>1. corePort \in Core BY <1>12 DEF CoreDone, TypeOK
  <2>2. model' \subseteq Core /\ loaded' \in BOOLEAN BY <1>12, <2>1 DEF CoreDone, TypeOK
  <2>3. pending' \subseteq pending
        /\ UNCHANGED <<ports, corePort, coreHost, election, pings, torn, tabs, cores, up, doomed>>
    BY <1>12 DEF CoreDone
  <2> QED BY <2>2, <2>3 DEF TypeOK, Connected
<1>13. ASSUME NEW p \in pings, Pong(p) PROVE Goal BY <1>13 DEF Pong, TypeOK, Connected
<1>14. ASSUME NEW p \in pings, PingFails(p) PROVE Goal
  <2>1. pings' \subseteq pings /\ UNCHANGED <<ports, tabs, workers>> BY <1>14 DEF PingFails
  <2>2. p[1] \in Tab BY DEF TypeOK
  <2>3. CASE LoseCore(ports, pending, TRUE)
    <3>1. ports \in Seq(Tab) BY DEF TypeOK
    <3>2. /\ corePort' = NoCore /\ coreHost' = NoTab /\ loaded' = FALSE /\ pending' = {}
          /\ torn' \in BOOLEAN /\ election' \in Tab \union {NoTab}
      BY <2>3, <3>1, LoseCoreType DEF Elected
    <3> QED BY <2>1, <3>2 DEF TypeOK, Connected, NoCore
  <2>4. CASE ~LoseCore(ports, pending, TRUE)
    <3>1. /\ UNCHANGED <<corePort, coreHost, loaded, pending>>
          /\ election' \in {election, p[1]} /\ torn' \in {torn, FALSE}
      BY <1>14, <2>4 DEF PingFails, Elect
    <3>2. election' \in Tab \union {NoTab} /\ torn' \in BOOLEAN BY <2>2, <3>1 DEF TypeOK
    <3> QED BY <2>1, <3>1, <3>2 DEF TypeOK, Connected
  <2> QED BY <2>3, <2>4
<1>15. ASSUME NEW n \in doomed, Shutdown(n) PROVE Goal BY <1>15 DEF Shutdown, TypeOK, Connected
<1>16. ASSUME ElectionTimeout PROVE Goal
  <2>1. Next1(ports) \in Tab \union {NoTab} BY FirstPort DEF TypeOK
  <2> QED BY <1>16, <2>1 DEF ElectionTimeout, Elect, TypeOK, Connected
<1> QED BY <1>1, <1>2, <1>3, <1>5, <1>6, <1>9, <1>10, <1>11, <1>12, <1>13, <1>14, <1>15, <1>16 DEF Next

--------------------------------------------------------------------------------
(* Every step leaves nothing of a lost core, and an election in its place. *)

LEMMA LoseCoreLost ==
  ASSUME TypeOK', NEW q \in Seq(Tab), ports' = q, NEW rpcs, NEW reelect \in BOOLEAN, LoseCore(q, rpcs, reelect)
  PROVE  NothingLeftOfALostCore' /\ CoreOrElection'
<1>1. /\ corePort' = NoCore /\ coreHost' = NoTab /\ loaded' = FALSE /\ pending' = {}
  BY LoseCoreType
<1>2. NothingLeftOfALostCore' BY <1>1 DEF NothingLeftOfALostCore
<1>3. CASE reelect
  <2>1. election' = Next1(q) BY <1>3 DEF LoseCore, Elect
  <2>2. q # <<>> => Next1(q) \in Tab BY DEF Next1
  <2> QED BY <1>2, <2>1, <2>2, NoTabIsNone DEF CoreOrElection
<1>4. CASE ~reelect BY <1>2, <1>4 DEF LoseCore, CoreOrElection
<1> QED BY <1>3, <1>4

LEMMA LostStep == ASSUME CoreInv, TypeOK', Next PROVE NothingLeftOfALostCore' /\ CoreOrElection'
<1> DEFINE Goal == NothingLeftOfALostCore' /\ CoreOrElection'
<1> USE DEF CoreInv, router, tabs, workers
<1>a. /\ \A p \in pending : p[1] \in Call /\ p[2] = corePort /\ owner[p[1]] \in Connected
      /\ corePort = NoCore => pending = {}
  BY DEF TypeOK, NothingLeftOfALostCore, Core
<1>b. ASSUME UNCHANGED <<ports, corePort, coreHost, election, loaded, pending, torn>> PROVE Goal
  BY <1>b DEF NothingLeftOfALostCore, CoreOrElection, Connected
<1>1. ASSUME NEW t \in Tab, Connect(t) PROVE Goal
  <2>1. Connected \subseteq Connected'
    <3>1. /\ Len(ports') = Len(ports) + 1 /\ \A i \in 1..Len(ports) : ports'[i] = ports[i]
          /\ ports' \in Seq(Tab) /\ ports \in Seq(Tab)
      BY <1>1 DEF Connect, TypeOK
    <3>2. \A i \in DOMAIN ports : i \in DOMAIN ports' /\ ports'[i] = ports[i] BY <3>1
    <3> QED BY <3>2 DEF Connected, ToSet
  <2>2. UNCHANGED <<corePort, coreHost, loaded, pending>> BY <1>1 DEF Connect
  <2>3. CASE corePort # NoCore
    <3>1. election' = election BY <1>1, <2>3 DEF Connect
    <3> QED BY <2>1, <2>2, <2>3, <3>1 DEF NothingLeftOfALostCore, CoreOrElection
  <2>4. CASE corePort = NoCore
    <3>1. election' # NoTab BY <1>1, <2>4, NoTabIsNone DEF Connect
    <3> QED BY <1>a, <2>2, <2>4, <3>1 DEF NothingLeftOfALostCore, CoreOrElection
  <2> QED BY <2>3, <2>4
<1>2. ASSUME NEW t \in Tab, Receive(t) PROVE Goal
  BY <1>2, <1>b DEF Receive, SpawnCore, CoreReady, ModelFreed, CoreDisconnected, Answered
<1>3. ASSUME NEW t \in Tab, Teardown(t) PROVE Goal BY <1>3, <1>b DEF Teardown
<1>5. ASSUME NEW t \in Tab, PageHide(t) PROVE Goal BY <1>5, <1>b DEF PageHide
<1>6. ASSUME NEW t \in Tab, Kill(t) PROVE Goal BY <1>6, <1>b DEF Kill
<1>8. ASSUME NEW t \in Connected, DisconnectPort(t) PROVE Goal
  <2> DEFINE rest == RemoveFirst(ports, t)
             others == {p \in pending : owner[p[1]] # t}
  <2>1. rest \in Seq(Tab) /\ ToSet(rest) = Connected \ {t} BY Deleted DEF TypeOK, Connected
  <2>2. ports' = rest /\ Connected' = Connected \ {t} BY <1>8, <2>1 DEF DisconnectPort, Connected
  <2>3. CASE coreHost = t
    <3>1. LoseCore(rest, others, TRUE) BY <1>8, <2>3 DEF DisconnectPort
    <3> HIDE DEF rest, others
    <3> QED BY <2>1, <2>2, <3>1, LoseCoreLost
  <2>4. CASE coreHost # t
    <3>1. pending' = others /\ UNCHANGED <<corePort, coreHost, loaded, torn>>
      BY <1>8, <2>4 DEF DisconnectPort
    <3>2. election' = IF election = t THEN Next1(rest) ELSE election
      BY <1>8, <2>4 DEF DisconnectPort, Elect
    <3>3. t # NoTab BY NoTabIsNone DEF TypeOK, Connected, ToSet
    <3>4. corePort # NoCore => election' = NoTab BY <3>2, <3>3 DEF NothingLeftOfALostCore
    <3>5. NothingLeftOfALostCore' BY <1>a, <2>2, <2>4, <3>1, <3>4 DEF NothingLeftOfALostCore
    <3>6. CASE election = t
      <4>1. rest # <<>> => Next1(rest) \in Tab BY <2>1 DEF Next1
      <4> QED BY <2>2, <3>2, <3>5, <3>6, <4>1, NoTabIsNone DEF CoreOrElection
    <3>7. CASE election # t
      <4>1. ports # <<>> BY DEF Connected, ToSet
      <4> QED BY <3>1, <3>2, <3>5, <3>7, <4>1 DEF CoreOrElection
    <3> QED BY <3>6, <3>7
  <2> QED BY <2>3, <2>4
<1>9. ASSUME NEW t \in Tab, Handle(t) PROVE Goal
  <2>1. CASE OnAttach(t)
    <3>1. Head(toRouter[t]) \in ToRouter(t) /\ t \in Connected BY <2>1, HandlesBox DEF OnAttach, Handles
    <3>2. Head(toRouter[t]).arg \in Core BY <2>1, <3>1, Received DEF OnAttach, Handles
    <3>3. CASE corePort # NoCore
      BY <2>1, <3>3 DEF OnAttach, NothingLeftOfALostCore, CoreOrElection, Connected
    <3>4. CASE corePort = NoCore
      <4>1. corePort' # NoCore BY <2>1, <3>2, <3>4 DEF OnAttach, Core
      <4>2. pending' = {} /\ coreHost' = t /\ election' = NoTab /\ ports' = ports
        BY <1>a, <2>1, <3>4 DEF OnAttach
      <4> QED BY <3>1, <4>1, <4>2 DEF NothingLeftOfALostCore, CoreOrElection, Connected
    <3> QED BY <3>3, <3>4
  <2>2. CASE OnRpc(t)
    <3> DEFINE c == Head(toRouter[t]).arg
    <3>1. Head(toRouter[t]) \in ToRouter(t) /\ t \in Connected BY <2>2, HandlesBox DEF OnRpc, Handles
    <3>2. owner[c] \in Connected BY <2>2, <3>1, Received DEF OnRpc, Handles, CallsOf
    <3>3. UNCHANGED <<ports, corePort, coreHost, loaded>> BY <2>2 DEF OnRpc
    <3>4. CASE corePort # NoCore
      <4>1. pending' = pending \union {<<c, corePort>>} /\ election' = election
        BY <2>2, <3>4 DEF OnRpc
      <4> HIDE DEF c
      <4> QED BY <1>a, <3>2, <3>3, <3>4, <4>1 DEF NothingLeftOfALostCore, CoreOrElection, Connected
    <3>5. CASE corePort = NoCore
      <4>1. election' # NoTab /\ pending' = pending BY <2>2, <3>5, NoTabIsNone DEF OnRpc
      <4> QED BY <1>a, <3>3, <3>5, <4>1 DEF NothingLeftOfALostCore, CoreOrElection, Connected
    <3> QED BY <3>4, <3>5
  <2>3. CASE OnTeardown(t)
    <3>1. ports' = ports /\ ports \in Seq(Tab) BY <2>3 DEF OnTeardown, TypeOK
    <3>2. CASE coreHost = t
      <4>1. LoseCore(ports, pending, FALSE) BY <2>3, <3>2 DEF OnTeardown
      <4> QED BY <3>1, <4>1, LoseCoreLost
    <3>3. CASE coreHost # t BY <1>b, <2>3, <3>1, <3>3 DEF OnTeardown
    <3> QED BY <3>2, <3>3
  <2>4. CASE OnDisconnect(t) BY <1>8, <2>4 DEF OnDisconnect, Handles
  <2> QED BY <1>9, <2>1, <2>2, <2>3, <2>4 DEF Handle
<1>10. ASSUME NEW t \in Tab, Reap(t) PROVE Goal BY <1>10, <1>8 DEF Reap
<1>11. ASSUME NEW c \in Call, Rpc(c) PROVE Goal BY <1>11, <1>b DEF Rpc
<1>12. ASSUME NEW c \in Call, NEW did \in {"loaded", "freed", "neither"}, CoreDone(c, did) PROVE Goal
  <2>1. corePort # NoCore BY <1>12, <1>a DEF CoreDone
  <2>2. pending' \subseteq pending /\ UNCHANGED <<ports, corePort, coreHost, election>>
    BY <1>12 DEF CoreDone
  <2> QED BY <1>a, <2>1, <2>2 DEF NothingLeftOfALostCore, CoreOrElection, Connected
<1>13. ASSUME NEW p \in pings, Pong(p) PROVE Goal BY <1>13, <1>b DEF Pong
<1>14. ASSUME NEW p \in pings, PingFails(p) PROVE Goal
  <2>1. ports' = ports /\ ports \in Seq(Tab) BY <1>14 DEF PingFails, TypeOK
  <2>2. CASE corePort # NoCore
    <3>1. LoseCore(ports, pending, TRUE) BY <1>14, <2>2 DEF PingFails
    <3> QED BY <2>1, <3>1, LoseCoreLost
  <2>3. CASE corePort = NoCore
    <3>1. p[1] \in Tab BY DEF TypeOK
    <3>2. election' # NoTab BY <1>14, <2>3, <3>1, NoTabIsNone DEF PingFails, Elect
    <3>3. UNCHANGED <<corePort, coreHost, loaded, pending>> BY <1>14, <2>3 DEF PingFails
    <3> QED BY <1>a, <2>1, <2>3, <3>2, <3>3 DEF NothingLeftOfALostCore, CoreOrElection
  <2> QED BY <2>2, <2>3
<1>15. ASSUME NEW n \in doomed, Shutdown(n) PROVE Goal BY <1>15, <1>b DEF Shutdown
<1>16. ASSUME ElectionTimeout PROVE Goal
  <2>1. corePort = NoCore BY <1>16 DEF ElectionTimeout, NothingLeftOfALostCore
  <2>2. election' = Next1(ports) /\ UNCHANGED <<ports, corePort, coreHost, loaded, pending>>
    BY <1>16 DEF ElectionTimeout, Elect
  <2>3. ports # <<>> => Next1(ports) \in Tab BY DEF Next1, TypeOK
  <2> QED BY <1>a, <2>1, <2>2, <2>3, NoTabIsNone DEF NothingLeftOfALostCore, CoreOrElection
<1> QED BY <1>1, <1>2, <1>3, <1>5, <1>6, <1>9, <1>10, <1>11, <1>12, <1>13, <1>14, <1>15, <1>16 DEF Next

--------------------------------------------------------------------------------
(* Nothing has happened initially. *)
LEMMA CoreInit == ASSUME Init PROVE CoreInv
<1> USE DEF Init
<1>1. ports \in Seq(Tab) /\ IsInjective(ports) /\ Connected = {} BY DEF IsInjective, Connected, ToSet
<1>2. TypeOK BY <1>1 DEF TypeOK, NoCore
<1>3. RouterBox(toRouter) /\ TabBox(toTab) BY DEF RouterBox, TabBox
<1>4. PortsOpened BY <1>1 DEF PortsOpened
<1>5. NothingLeftOfALostCore BY DEF NothingLeftOfALostCore
<1>6. CoreOrElection BY DEF CoreOrElection
<1> QED BY <1>2, <1>3, <1>4, <1>5, <1>6 DEF CoreInv

(* A stuttering step disturbs nothing. *)
LEMMA CoreStutter == ASSUME CoreInv, UNCHANGED vars PROVE CoreInv'
BY DEF CoreInv, TypeOK, RouterBox, TabBox, PortsOpened, NothingLeftOfALostCore, CoreOrElection, Connected,
       vars, router, tabs, workers

(* The inductive invariant. *)
LEMMA CoreSafe == Spec => []CoreInv
<1>1. Init => CoreInv BY CoreInit
<1>2. CoreInv /\ [Next]_vars => CoreInv'
  <2>1. ASSUME CoreInv, Next PROVE CoreInv'
    <3>1. TypeOK' /\ PortsOpened' BY <2>1, TypeStep
    <3>2. RouterBox(toRouter') /\ TabBox(toTab') BY <2>1, BoxStep
    <3>3. NothingLeftOfALostCore' /\ CoreOrElection' BY <2>1, <3>1, LostStep
    <3> QED BY <3>1, <3>2, <3>3 DEF CoreInv
  <2> QED BY <2>1, CoreStutter
<1> QED BY <1>1, <1>2, PTL DEF Spec

--------------------------------------------------------------------------------
(***************************************************************************)
(* The router's and the tabs' variables keep their types: one port per tab *)
(* (PORTS, inference-worker.ts:30).                                        *)
(***************************************************************************)
THEOREM ElectionTypes == Spec => []TypeOK
<1>1. CoreInv => TypeOK BY DEF CoreInv
<1> QED BY <1>1, CoreSafe, PTL

(***************************************************************************)
(* Losing the core, by whatever road, leaves no call, host or loaded model *)
(* of it behind (loseCore, inference-worker.ts:289).                       *)
(***************************************************************************)
THEOREM LostCoreIsForgotten == Spec => []NothingLeftOfALostCore
<1>1. CoreInv => NothingLeftOfALostCore BY DEF CoreInv
<1> QED BY <1>1, CoreSafe, PTL

(***************************************************************************)
(* While a tab is connected there is a core, an election, or a teardown on *)
(* purpose behind it (electHost and disconnectPort).                       *)
(***************************************************************************)
THEOREM AlwaysAnElection == Spec => []CoreOrElection
<1>1. CoreInv => CoreOrElection BY DEF CoreInv
<1> QED BY <1>1, CoreSafe, PTL
================================================================================
