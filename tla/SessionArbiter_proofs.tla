-------------------------- MODULE SessionArbiter_proofs --------------------------
(***************************************************************************)
(* Proofs about SessionArbiter, for every number of tabs and calls.        *)
(***************************************************************************)
EXTENDS SessionArbiter, Lists_proofs, FiniteSetTheorems, SequenceTheorems, TLAPS

--------------------------------------------------------------------------------
(* What travels: a message about a call is between the router and the tab   *)
(* the call is made in.                                                     *)
CallsOf(t) == {c \in Call : owner[c] = t}
ToRouter == [t \in Tab |-> [kind: {"acquire", "cancel", "rpc", "release"}, call: CallsOf(t)]
                             \union {Msg("disconnect", NoCall)}]
ToTab == [t \in Tab |-> [kind: DOMAIN Settled, call: CallsOf(t)]]
Box(f, M) == DOMAIN f = Tab /\ \A t \in Tab : f[t] \in Seq(M[t])

\* A message about c is on its way; and it is there once.
Has(f, c, kind)  == Msg(kind, c) \in ToSet(f[owner[c]])
Once(f, c, kind) == \A i, j \in DOMAIN f[owner[c]] :
                      f[owner[c]][i] = Msg(kind, c) /\ f[owner[c]][j] = Msg(kind, c) => i = j
Queued(c) == c \in ToSet(queue)

\* A tab that is gone receives nothing, and its calls are gone with it.
TabsOK == /\ \A c \in Call : phase[c] = "gone" <=> tab[owner[c]] = "closed"
          /\ \A t \in Tab : tab[t] = "closed" => toTab[t] = <<>>

\* A call to acquireSession is in one place: on its way, in the queue, granted
\* or rejected; and it is granted only once.
Asking(c) == \/ Has(toRouter, c, "acquire") \/ Queued(c)
             \/ Has(toTab, c, "granted") \/ Has(toTab, c, "aborted")
AskOK(c) ==
  /\ Asking(c) => phase[c] \in {"asked", "aborting", "abandoned", "gone"}
  /\ Has(toRouter, c, "acquire") => /\ ~Queued(c) /\ ~Has(toTab, c, "granted")
                                    /\ ~Has(toTab, c, "aborted") /\ active # c
  /\ Queued(c) => ~Has(toTab, c, "granted") /\ ~Has(toTab, c, "aborted") /\ active # c
  /\ Has(toTab, c, "aborted") => ~Has(toTab, c, "granted") /\ active # c
  /\ Once(toRouter, c, "acquire") /\ Once(toTab, c, "granted") /\ Once(toTab, c, "aborted")

\* So is a call into the core; it is refused only if its session is over.
Computing(c) == \/ Has(toRouter, c, "rpc") \/ c \in pending
                \/ Has(toTab, c, "ok") \/ Has(toTab, c, "refused")
ComputeOK(c) ==
  /\ Computing(c) => phase[c] \in {"calling", "gone"}
  /\ Has(toRouter, c, "rpc") => /\ c \notin pending /\ ~Has(toTab, c, "ok")
                                /\ ~Has(toTab, c, "refused")
  /\ c \in pending => ~Has(toTab, c, "ok") /\ ~Has(toTab, c, "refused")
  /\ Has(toTab, c, "ok") => ~Has(toTab, c, "refused")
  /\ Has(toTab, c, "refused") => active # c
  /\ Once(toRouter, c, "rpc") /\ Once(toTab, c, "ok") /\ Once(toTab, c, "refused")

\* A release is sent by a tab that has stopped using the session.
Over == {"releasing", "done", "gone"}
ReleaseOK(c) ==
  /\ Has(toRouter, c, "release") => phase[c] \in Over
  /\ Has(toTab, c, "released") => phase[c] \in Over /\ active # c
  /\ phase[c] \in {"idle", "refused", "done"} => active # c

\* What a tab believes, or is about to hear, is what the router knows; and back.
HoldOK(c) ==
  owner[c] \in ports =>
    /\ Believes(c) \/ Has(toTab, c, "granted") => active = c
    /\ active = c /\ phase[c] \in {"asked", "aborting"} => Has(toTab, c, "granted")

CallOK(c) == AskOK(c) /\ ComputeOK(c) /\ ReleaseOK(c) /\ HoldOK(c)

SessionInv == /\ TypeOK /\ Box(toRouter, ToRouter) /\ Box(toTab, ToTab) /\ TabsOK
              /\ \A c \in Call : CallOK(c)

--------------------------------------------------------------------------------
(* Sequences. *)

LEMMA Appended ==
  ASSUME NEW M, NEW s \in Seq(M), NEW m \in M
  PROVE  /\ Append(s, m) \in Seq(M) /\ ToSet(Append(s, m)) = ToSet(s) \union {m}
         /\ \A x : /\ \A i, j \in DOMAIN s : s[i] = x /\ s[j] = x => i = j
                   /\ x = m => x \notin ToSet(s)
              => \A i, j \in DOMAIN Append(s, m) :
                   Append(s, m)[i] = x /\ Append(s, m)[j] = x => i = j
<1> DEFINE a == Append(s, m)
<1>1. /\ a \in Seq(M) /\ Len(a) = Len(s) + 1 /\ a[Len(s) + 1] = m
      /\ \A i \in 1..Len(s) : a[i] = s[i]
  BY AppendProperties
<1>2. DOMAIN a = 1..(Len(s) + 1) /\ DOMAIN s = 1..Len(s) /\ Len(s) \in Nat
  BY <1>1, LenProperties
<1> HIDE DEF a
<1>3. ToSet(a) = ToSet(s) \union {m}
  <2>1. ToSet(a) = {a[i] : i \in 1..(Len(s) + 1)} /\ ToSet(s) = {s[i] : i \in 1..Len(s)}
    BY <1>2 DEF ToSet
  <2>2. \A i \in 1..(Len(s) + 1) : i \in 1..Len(s) \/ i = Len(s) + 1
    BY <1>2
  <2>3. \A i \in 1..Len(s) : i \in 1..(Len(s) + 1)
    BY <1>2
  <2>4. Len(s) + 1 \in 1..(Len(s) + 1)
    BY <1>2
  <2> QED BY <2>1, <2>2, <2>3, <2>4, <1>1
<1>4. ASSUME NEW x, \A i, j \in DOMAIN s : s[i] = x /\ s[j] = x => i = j,
             x = m => x \notin ToSet(s),
             NEW i \in DOMAIN a, NEW j \in DOMAIN a, a[i] = x, a[j] = x
      PROVE  i = j
  <2>1. CASE x = m
    <3>1. \A k \in 1..Len(s) : s[k] # x
      BY <1>4, <2>1, <1>2 DEF ToSet
    <3> QED BY <3>1, <1>1, <1>2, <1>4
  <2>2. CASE x # m
    BY <2>2, <1>1, <1>2, <1>4
  <2> QED BY <2>1, <2>2
<1> QED BY <1>1, <1>3, <1>4 DEF a

LEMMA Shortened ==
  ASSUME NEW M, NEW s \in Seq(M), s # <<>>
  PROVE  /\ Tail(s) \in Seq(M) /\ Head(s) \in ToSet(s) /\ Head(s) \in M
         /\ ToSet(s) = ToSet(Tail(s)) \union {Head(s)}
         /\ \A x : (\A i, j \in DOMAIN s : s[i] = x /\ s[j] = x => i = j)
              => /\ \A i, j \in DOMAIN Tail(s) : Tail(s)[i] = x /\ Tail(s)[j] = x => i = j
                 /\ x = Head(s) => x \notin ToSet(Tail(s))
<1> DEFINE a == Tail(s)
<1>1. /\ Len(s) \in Nat \ {0} /\ a \in Seq(M) /\ Len(a) = Len(s) - 1 /\ Head(s) = s[1]
      /\ \A i \in 1..Len(a) : a[i] = s[i + 1]
  BY HeadTailProperties, LenProperties, EmptySeq
<1>2. DOMAIN a = 1..(Len(s) - 1) /\ DOMAIN s = 1..Len(s) /\ s[1] \in M
  BY <1>1, LenProperties, ElementOfSeq
<1> HIDE DEF a
<1>3. ToSet(a) = {a[i] : i \in 1..(Len(s) - 1)} /\ ToSet(s) = {s[i] : i \in 1..Len(s)}
  BY <1>2 DEF ToSet
<1>4. ToSet(s) = ToSet(a) \union {s[1]}
  <2>1. \A i \in 1..Len(s) : i = 1 \/ (i - 1 \in 1..(Len(s) - 1) /\ s[i] = a[i - 1])
    BY <1>1
  <2>2. \A i \in 1..(Len(s) - 1) : i + 1 \in 1..Len(s) /\ a[i] = s[i + 1]
    BY <1>1
  <2>3. 1 \in 1..Len(s)
    BY <1>1
  <2> QED BY <2>1, <2>2, <2>3, <1>3
<1>5. ASSUME NEW x, \A i, j \in DOMAIN s : s[i] = x /\ s[j] = x => i = j
      PROVE  /\ \A i, j \in DOMAIN a : a[i] = x /\ a[j] = x => i = j
             /\ x = s[1] => x \notin ToSet(a)
  <2>1. \A i \in 1..(Len(s) - 1) : i + 1 \in DOMAIN s /\ i + 1 # 1 /\ a[i] = s[i + 1]
    BY <1>1, <1>2
  <2>2. 1 \in DOMAIN s
    BY <1>1, <1>2
  <2>3. ASSUME NEW i \in DOMAIN a, NEW j \in DOMAIN a, a[i] = x, a[j] = x PROVE i = j
    <3>1. i + 1 \in DOMAIN s /\ j + 1 \in DOMAIN s /\ s[i + 1] = x /\ s[j + 1] = x
      BY <2>1, <2>3, <1>2
    <3>2. i + 1 = j + 1
      BY <3>1, <1>5
    <3> QED BY <3>2, <1>1, <1>2
  <2>4. x = s[1] => x \notin ToSet(a)
    BY <2>1, <2>2, <1>3, <1>5
  <2> QED BY <2>3, <2>4
<1> QED BY <1>1, <1>2, <1>4, <1>5 DEF a

(* The waiters that stay keep their places: nobody is added or doubled. *)
LEMMA Kept ==
  ASSUME NEW q \in Seq(Call), IsInjective(q), NEW S
  PROVE  /\ Without(q, S) \in Seq(Call) /\ IsInjective(Without(q, S))
         /\ ToSet(Without(q, S)) \subseteq ToSet(q) \ S
<1> DEFINE w == Without(q, S)
<1>1. w \in Seq(Call) BY WithoutPlaces
<1>2. PICK at \in [DOMAIN w -> DOMAIN q] :
        /\ \A n \in DOMAIN w : w[n] = q[at[n]] /\ q[at[n]] \notin S
        /\ \A n, m \in DOMAIN w : n < m => at[n] < at[m]
  BY WithoutPlaces
<1> HIDE DEF w
<1>3. DOMAIN w = 1..Len(w) /\ DOMAIN q = 1..Len(q) BY <1>1, LenProperties
<1>4. ToSet(w) \subseteq ToSet(q) \ S BY <1>2 DEF ToSet
<1>5. IsInjective(w)
  <2> SUFFICES ASSUME NEW a \in DOMAIN w, NEW b \in DOMAIN w, w[a] = w[b] PROVE a = b
    BY DEF IsInjective
  <2>1. at[a] = at[b] /\ at[a] \in 1..Len(q) BY <1>2, <1>3 DEF IsInjective
  <2>2. ~(a < b) /\ ~(b < a) BY <1>2, <2>1
  <2> QED BY <1>3, <2>2
<1> QED BY <1>1, <1>4, <1>5 DEF w

--------------------------------------------------------------------------------
(* Channels. *)

LEMMA MessagesDiffer ==
  \A k, l, c, d : Msg(k, c) = Msg(l, d) <=> k = l /\ c = d
BY DEF Msg

LEMMA Posted ==
  ASSUME NEW M, NEW f, Box(f, M), NEW t \in Tab, NEW m \in M[t]
  PROVE  /\ Box(Post(f, t, m), M)
         /\ \A u \in Tab : u # t => Post(f, t, m)[u] = f[u]
         /\ \A c \in Call : \A k :
              /\ Has(Post(f, t, m), c, k) <=> Has(f, c, k) \/ (owner[c] = t /\ m = Msg(k, c))
              /\ Once(f, c, k) /\ (owner[c] = t /\ m = Msg(k, c) => ~Has(f, c, k))
                   => Once(Post(f, t, m), c, k)
<1> DEFINE g == Post(f, t, m)
<1>1. DOMAIN g = Tab /\ g[t] = Append(f[t], m) /\ \A u \in Tab \ {t} : g[u] = f[u]
  BY DEF Post, Box
<1>2. f[t] \in Seq(M[t])
  BY DEF Box
<1>3. /\ Append(f[t], m) \in Seq(M[t]) /\ ToSet(Append(f[t], m)) = ToSet(f[t]) \union {m}
      /\ \A x : /\ \A i, j \in DOMAIN f[t] : f[t][i] = x /\ f[t][j] = x => i = j
                /\ x = m => x \notin ToSet(f[t])
           => \A i, j \in DOMAIN Append(f[t], m) :
                Append(f[t], m)[i] = x /\ Append(f[t], m)[j] = x => i = j
  BY <1>2, Appended
<1> HIDE DEF g
<1>4. Box(g, M)
  BY <1>1, <1>3 DEF Box
<1>5. ASSUME NEW c \in Call, NEW k
      PROVE  /\ Has(g, c, k) <=> Has(f, c, k) \/ (owner[c] = t /\ m = Msg(k, c))
             /\ Once(f, c, k) /\ (owner[c] = t /\ m = Msg(k, c) => ~Has(f, c, k)) => Once(g, c, k)
  <2>1. owner[c] \in Tab
    BY OwnerIsATab
  <2>2. CASE owner[c] # t
    BY <2>1, <2>2, <1>1 DEF Has, Once
  <2>3. CASE owner[c] = t
    BY <2>3, <1>1, <1>3 DEF Has, Once
  <2> QED BY <2>2, <2>3
<1> QED BY <1>1, <1>4, <1>5 DEF g

\* A channel without its first message.
Taken(f, t) == [f EXCEPT ![t] = Tail(@)]

LEMMA Received ==
  ASSUME NEW M, NEW f, Box(f, M), NEW t \in Tab, f[t] # <<>>
  PROVE  /\ Box(Taken(f, t), M) /\ Head(f[t]) \in M[t] /\ \A u \in Tab : u # t => Taken(f, t)[u] = f[u]
         /\ \A c \in Call : \A k :
              /\ Has(f, c, k) <=> Has(Taken(f, t), c, k) \/ (owner[c] = t /\ Head(f[t]) = Msg(k, c))
              /\ Once(f, c, k) => Once(Taken(f, t), c, k)
              /\ Once(f, c, k) /\ owner[c] = t /\ Head(f[t]) = Msg(k, c) => ~Has(Taken(f, t), c, k)
<1> DEFINE g == Taken(f, t)
<1>1. DOMAIN g = Tab /\ g[t] = Tail(f[t]) /\ \A u \in Tab \ {t} : g[u] = f[u]
  BY DEF Box, Taken
<1> HIDE DEF g
<1>2. f[t] \in Seq(M[t])
  BY DEF Box
<1>3. /\ Tail(f[t]) \in Seq(M[t]) /\ Head(f[t]) \in ToSet(f[t]) /\ Head(f[t]) \in M[t]
      /\ ToSet(f[t]) = ToSet(Tail(f[t])) \union {Head(f[t])}
      /\ \A x : (\A i, j \in DOMAIN f[t] : f[t][i] = x /\ f[t][j] = x => i = j)
           => /\ \A i, j \in DOMAIN Tail(f[t]) : Tail(f[t])[i] = x /\ Tail(f[t])[j] = x => i = j
              /\ x = Head(f[t]) => x \notin ToSet(Tail(f[t]))
  BY <1>2, Shortened
<1>4. Box(g, M)
  BY <1>1, <1>3 DEF Box
<1>5. ASSUME NEW c \in Call, NEW k
      PROVE  /\ Has(f, c, k) <=> Has(g, c, k) \/ (owner[c] = t /\ Head(f[t]) = Msg(k, c))
             /\ Once(f, c, k) => Once(g, c, k)
             /\ Once(f, c, k) /\ owner[c] = t /\ Head(f[t]) = Msg(k, c) => ~Has(g, c, k)
  <2>1. owner[c] \in Tab
    BY OwnerIsATab
  <2>2. CASE owner[c] # t
    BY <2>1, <2>2, <1>1 DEF Has, Once
  <2>3. CASE owner[c] = t
    <3> DEFINE x == Msg(k, c)
    <3>1. /\ Has(f, c, k) <=> x \in ToSet(f[t])
          /\ Has(g, c, k) <=> x \in ToSet(Tail(f[t]))
          /\ Once(f, c, k) <=> \A i, j \in DOMAIN f[t] : f[t][i] = x /\ f[t][j] = x => i = j
          /\ Once(g, c, k) <=> \A i, j \in DOMAIN Tail(f[t]) :
                                 Tail(f[t])[i] = x /\ Tail(f[t])[j] = x => i = j
      BY <2>3, <1>1 DEF Has, Once
    <3> HIDE DEF x
    <3>2. Has(f, c, k) <=> Has(g, c, k) \/ Head(f[t]) = x
      BY <3>1, <1>3
    <3>3. Once(f, c, k) => Once(g, c, k) /\ (Head(f[t]) = x => ~Has(g, c, k))
      BY <3>1, <1>3
    <3> QED BY <2>3, <3>2, <3>3 DEF x
  <2> QED BY <2>2, <2>3
<1> QED BY <1>1, <1>3, <1>4, <1>5 DEF g

(* A reply reaches the tab of its call if that is there to hear it. *)
Hears(c, open) == owner[c] \in open /\ tab[owner[c]] = "open"

LEMMA Replied ==
  ASSUME NEW f, Box(f, ToTab), NEW kind \in DOMAIN Settled, NEW c \in Call \union {NoCall},
         NEW open
  PROVE  /\ Box(Reply(f, kind, c, open), ToTab)
         /\ \A t \in Tab : tab[t] # "open" => Reply(f, kind, c, open)[t] = f[t]
         /\ \A d \in Call : \A k :
              LET it == d = c /\ k = kind /\ Hears(c, open) IN
              /\ Has(Reply(f, kind, c, open), d, k) <=> Has(f, d, k) \/ it
              /\ Once(f, d, k) /\ (it => ~Has(f, d, k)) => Once(Reply(f, kind, c, open), d, k)
<1> DEFINE g == Reply(f, kind, c, open)
           m == Msg(kind, c)
<1>0. CASE c = NoCall
  <2>1. g = f
    BY <1>0 DEF Reply
  <2>2. \A d \in Call : d # c
    BY <1>0, NoCallIsNone
  <2> HIDE DEF g
  <2> QED BY <2>1, <2>2 DEF g
<1> SUFFICES ASSUME c \in Call
             PROVE  /\ Box(g, ToTab)
                    /\ \A t \in Tab : tab[t] # "open" => g[t] = f[t]
                    /\ \A d \in Call : \A k :
                         LET it == d = c /\ k = kind /\ Hears(c, open) IN
                         /\ Has(g, d, k) <=> Has(f, d, k) \/ it
                         /\ Once(f, d, k) /\ (it => ~Has(f, d, k)) => Once(g, d, k)
  BY <1>0
<1>1. owner[c] \in Tab /\ c # NoCall /\ m \in ToTab[owner[c]]
  BY OwnerIsATab, NoCallIsNone DEF ToTab, CallsOf, Msg
<1>2. \A d \in Call : \A k : m = Msg(k, d) <=> d = c /\ k = kind
  BY MessagesDiffer
<1> HIDE DEF m
<1>3. CASE Hears(c, open)
  <2>1. g = Post(f, owner[c], m)
    BY <1>1, <1>3 DEF Reply, Hears, m
  <2>2. tab[owner[c]] = "open"
    BY <1>3 DEF Hears
  <2> HIDE DEF g
  <2>3. Box(g, ToTab) /\ \A t \in Tab : t # owner[c] => g[t] = f[t]
    BY <2>1, <1>1, Posted
  <2>4. \A d \in Call : \A k :
          /\ Has(g, d, k) <=> Has(f, d, k) \/ (owner[d] = owner[c] /\ m = Msg(k, d))
          /\ Once(f, d, k) /\ (owner[d] = owner[c] /\ m = Msg(k, d) => ~Has(f, d, k)) => Once(g, d, k)
    BY <2>1, <1>1, Posted
  <2> QED BY <2>2, <2>3, <2>4, <1>2, <1>3 DEF g
<1>4. CASE ~Hears(c, open)
  <2>1. g = f
    BY <1>4 DEF Reply, Hears
  <2> HIDE DEF g
  <2> QED BY <2>1, <1>4 DEF g
<1> QED BY <1>3, <1>4

--------------------------------------------------------------------------------
(* The tab's side. *)

LEMMA InitSession == Init => SessionInv
<1> SUFFICES ASSUME Init PROVE SessionInv
  OBVIOUS
<1>1. TypeOK
  BY EmptySeq DEF Init, TypeOK, Phase, IsInjective
<1>2. Box(toRouter, ToRouter) /\ Box(toTab, ToTab)
  BY EmptySeq DEF Init, Box
<1>3. TabsOK
  BY OwnerIsATab DEF Init, TabsOK
<1>4. ASSUME NEW c \in Call PROVE CallOK(c)
  <2>1. owner[c] \in Tab /\ c # NoCall
    BY OwnerIsATab, NoCallIsNone
  <2>2. toRouter[owner[c]] = <<>> /\ toTab[owner[c]] = <<>> /\ queue = <<>>
    BY <2>1 DEF Init
  <2>3. ToSet(<<>>) = {} /\ DOMAIN <<>> = {}
    BY EmptySeq DEF ToSet
  <2>4. /\ ~Queued(c)
        /\ \A k : ~Has(toRouter, c, k) /\ ~Has(toTab, c, k) /\ Once(toRouter, c, k) /\ Once(toTab, c, k)
    BY <2>2, <2>3 DEF Queued, Has, Once
  <2>5. active # c /\ c \notin pending /\ phase[c] = "idle"
    BY <2>1 DEF Init
  <2> QED BY <2>4, <2>5 DEF CallOK, AskOK, Asking, ComputeOK, Computing, ReleaseOK, HoldOK, Believes
<1> QED BY <1>1, <1>2, <1>3, <1>4 DEF SessionInv

(* What every step of WorkerClient that posts something does. *)
LEMMA TabPosts ==
  ASSUME SessionInv, NEW c \in Call, Open(c), NEW kinds, NEW to,
         phase' = [phase EXCEPT ![c] = to], Box(toRouter', ToRouter),
         \A d \in Call : \A k :
           /\ Has(toRouter', d, k) <=> Has(toRouter, d, k) \/ (d = c /\ k \in kinds)
           /\ Once(toRouter, d, k) /\ (d = c /\ k \in kinds => ~Has(toRouter, d, k))
                => Once(toRouter', d, k),
         UNCHANGED <<router, core, tab, toTab>>,
         \/ phase[c] = "idle" /\ to \in {"asked", "abandoned"} /\ kinds \subseteq {"acquire", "cancel"}
         \/ phase[c] = "asked" /\ to = "aborting" /\ kinds = {"cancel"}
         \/ phase[c] = "holding" /\ to = "calling" /\ kinds = {"rpc"}
         \/ phase[c] \in {"holding", "called"} /\ to = "releasing" /\ kinds = {"release"}
  PROVE  SessionInv'
<1>1. UNCHANGED <<ports, active, queue, pending, running, tab, toTab>>
  BY DEF router, core
<1>2. phase \in [Call -> Phase] /\ phase'[c] = to /\ \A d \in Call : d # c => phase'[d] = phase[d]
  BY DEF SessionInv, TypeOK
<1>3. TypeOK'
  BY <1>1, <1>2 DEF SessionInv, TypeOK, Phase
<1>4. TabsOK'
  BY <1>1, <1>2 DEF SessionInv, TabsOK, Open
<1>5. ASSUME NEW d \in Call PROVE CallOK(d)'
  <2>1. CallOK(d)
    BY DEF SessionInv
  <2>2. CASE d # c
    BY <2>1, <2>2, <1>1, <1>2
    DEF CallOK, AskOK, Asking, ComputeOK, Computing, ReleaseOK, HoldOK, Believes, Queued
  <2>3. CASE d = c
    <3>1. AskOK(d)'
      BY <2>1, <2>3, <1>1, <1>2 DEF CallOK, AskOK, Asking, ReleaseOK, Queued
    <3>2. ComputeOK(d)'
      BY <2>1, <2>3, <1>1, <1>2 DEF CallOK, ComputeOK, Computing
    <3>3. ReleaseOK(d)'
      BY <2>1, <2>3, <1>1, <1>2 DEF CallOK, ReleaseOK, Over
    <3>4. HoldOK(d)'
      BY <2>1, <2>3, <1>1, <1>2 DEF CallOK, HoldOK, ReleaseOK, AskOK, Asking, Believes
    <3> QED BY <3>1, <3>2, <3>3, <3>4 DEF CallOK
  <2> QED BY <2>2, <2>3
<1> QED BY <1>1, <1>3, <1>4, <1>5 DEF SessionInv

LEMMA TabSends ==
  ASSUME SessionInv, NEW c \in Call, Open(c), NEW to, NEW k, Posts(owner[c], Msg(k, c)),
         phase' = [phase EXCEPT ![c] = to], UNCHANGED <<router, core, tab, toTab>>,
         \/ phase[c] = "idle" /\ to = "asked" /\ k = "acquire"
         \/ phase[c] = "asked" /\ to = "aborting" /\ k = "cancel"
         \/ phase[c] = "holding" /\ to = "calling" /\ k = "rpc"
         \/ phase[c] \in {"holding", "called"} /\ to = "releasing" /\ k = "release"
  PROVE  SessionInv'
<1>1. owner[c] \in Tab /\ Msg(k, c) \in ToRouter[owner[c]]
  BY OwnerIsATab DEF ToRouter, CallsOf, Msg
<1>2. toRouter' = Post(toRouter, owner[c], Msg(k, c)) /\ Box(toRouter, ToRouter)
  BY DEF Posts, SessionInv
<1>3. /\ Box(toRouter', ToRouter)
      /\ \A d \in Call : \A l :
           /\ Has(toRouter', d, l)
                <=> Has(toRouter, d, l) \/ (owner[d] = owner[c] /\ Msg(k, c) = Msg(l, d))
           /\ Once(toRouter, d, l)
                /\ (owner[d] = owner[c] /\ Msg(k, c) = Msg(l, d) => ~Has(toRouter, d, l))
                => Once(toRouter', d, l)
  BY <1>1, <1>2, Posted
<1> DEFINE kinds == {k}
<1>4. \A d \in Call : \A l :
        /\ Has(toRouter', d, l) <=> Has(toRouter, d, l) \/ (d = c /\ l \in kinds)
        /\ Once(toRouter, d, l) /\ (d = c /\ l \in kinds => ~Has(toRouter, d, l))
             => Once(toRouter', d, l)
  BY <1>3, MessagesDiffer
<1>5. \/ phase[c] = "idle" /\ to \in {"asked", "abandoned"} /\ kinds \subseteq {"acquire", "cancel"}
      \/ phase[c] = "asked" /\ to = "aborting" /\ kinds = {"cancel"}
      \/ phase[c] = "holding" /\ to = "calling" /\ kinds = {"rpc"}
      \/ phase[c] \in {"holding", "called"} /\ to = "releasing" /\ kinds = {"release"}
  OBVIOUS
<1> HIDE DEF kinds
<1> QED BY <1>3, <1>4, <1>5, TabPosts

LEMMA AcquireInv == ASSUME SessionInv, NEW c \in Call, Acquire(c) PROVE SessionInv'
<1>1. /\ Open(c) /\ phase[c] = "idle" /\ phase' = [phase EXCEPT ![c] = "asked"]
      /\ Posts(owner[c], Msg("acquire", c)) /\ UNCHANGED <<router, core, tab, toTab>>
  BY DEF Acquire, Becomes
<1> QED BY <1>1, TabSends

LEMMA AbortInv == ASSUME SessionInv, NEW c \in Call, Abort(c) PROVE SessionInv'
<1>1. /\ Open(c) /\ phase[c] = "asked" /\ phase' = [phase EXCEPT ![c] = "aborting"]
      /\ Posts(owner[c], Msg("cancel", c)) /\ UNCHANGED <<router, core, tab, toTab>>
  BY DEF Abort, Becomes
<1> QED BY <1>1, TabSends

LEMMA RpcInv == ASSUME SessionInv, NEW c \in Call, Rpc(c) PROVE SessionInv'
<1>1. /\ Open(c) /\ phase[c] = "holding" /\ phase' = [phase EXCEPT ![c] = "calling"]
      /\ Posts(owner[c], Msg("rpc", c)) /\ UNCHANGED <<router, core, tab, toTab>>
  BY DEF Rpc, Becomes
<1> QED BY <1>1, TabSends

LEMMA ReleaseInv == ASSUME SessionInv, NEW c \in Call, Release(c) PROVE SessionInv'
<1>1. /\ Open(c) /\ phase[c] \in {"holding", "called"}
      /\ phase' = [phase EXCEPT ![c] = "releasing"]
      /\ Posts(owner[c], Msg("release", c)) /\ UNCHANGED <<router, core, tab, toTab>>
  BY DEF Release, Becomes
<1> QED BY <1>1, TabSends

LEMMA AcquireAbortedInv == ASSUME SessionInv, NEW c \in Call, AcquireAborted(c) PROVE SessionInv'
<1> DEFINE t == owner[c]
           f == Post(toRouter, t, Msg("acquire", c))
<1>1. /\ t \in Tab /\ Msg("acquire", c) \in ToRouter[t] /\ Msg("cancel", c) \in ToRouter[t]
      /\ Box(toRouter, ToRouter) /\ toRouter' = Post(f, t, Msg("cancel", c))
  BY OwnerIsATab DEF ToRouter, CallsOf, Msg, SessionInv, AcquireAborted
<1>2. /\ Box(f, ToRouter)
      /\ \A d \in Call : \A k :
           /\ Has(f, d, k) <=> Has(toRouter, d, k) \/ (owner[d] = t /\ Msg("acquire", c) = Msg(k, d))
           /\ Once(toRouter, d, k) /\ (owner[d] = t /\ Msg("acquire", c) = Msg(k, d) => ~Has(toRouter, d, k))
                => Once(f, d, k)
  BY <1>1, Posted
<1> HIDE DEF f
<1>3. /\ Box(toRouter', ToRouter)
      /\ \A d \in Call : \A k :
           /\ Has(toRouter', d, k) <=> Has(f, d, k) \/ (owner[d] = t /\ Msg("cancel", c) = Msg(k, d))
           /\ Once(f, d, k) /\ (owner[d] = t /\ Msg("cancel", c) = Msg(k, d) => ~Has(f, d, k))
                => Once(toRouter', d, k)
  BY <1>1, <1>2, Posted
<1> DEFINE kinds == {"acquire", "cancel"}
<1>4. \A d \in Call : \A k :
        /\ Has(toRouter', d, k) <=> Has(toRouter, d, k) \/ (d = c /\ k \in kinds)
        /\ Once(toRouter, d, k) /\ (d = c /\ k \in kinds => ~Has(toRouter, d, k))
             => Once(toRouter', d, k)
  BY <1>2, <1>3, MessagesDiffer
<1> QED BY <1>3, <1>4, TabPosts DEF AcquireAborted, Becomes

LEMMA ReceiveInv == ASSUME SessionInv, NEW t \in Tab, Receive(t) PROVE SessionInv'
<1> DEFINE m == Head(toTab[t])
<1>1. /\ tab[t] = "open" /\ toTab[t] # <<>> /\ toTab' = [toTab EXCEPT ![t] = Tail(@)]
      /\ phase' = [phase EXCEPT ![m.call] = IF @ \in Waiting THEN Settled[m.kind] ELSE @]
      /\ UNCHANGED <<ports, active, queue, pending, running, tab, toRouter>>
  BY DEF Receive, router, core
<1>2. /\ Box(toTab', ToTab) /\ m \in ToTab[t]
      /\ \A u \in Tab : u # t => toTab'[u] = toTab[u]
      /\ \A c \in Call : \A k :
           /\ Has(toTab, c, k) <=> Has(toTab', c, k) \/ (owner[c] = t /\ m = Msg(k, c))
           /\ Once(toTab, c, k) => Once(toTab', c, k)
           /\ Once(toTab, c, k) /\ owner[c] = t /\ m = Msg(k, c) => ~Has(toTab', c, k)
  <2>1. Box(toTab, ToTab) /\ toTab[t] # <<>> /\ toTab' = Taken(toTab, t)
    BY <1>1 DEF SessionInv, Taken
  <2> QED BY <2>1, Received
<1>3. m.call \in Call /\ owner[m.call] = t /\ m.kind \in DOMAIN Settled /\ m = Msg(m.kind, m.call)
  BY <1>2 DEF ToTab, CallsOf, Msg
<1> DEFINE h == m.call
           kind == m.kind
<1>4. h \in Call /\ owner[h] = t /\ kind \in DOMAIN Settled
      /\ \A c \in Call : \A k : (owner[c] = t /\ m = Msg(k, c)) <=> (c = h /\ k = kind)
  BY <1>3, MessagesDiffer
<1>5. phase' = [phase EXCEPT ![h] = IF @ \in Waiting THEN Settled[kind] ELSE @]
  BY <1>1
<1> HIDE DEF m, h, kind
<1>6. /\ \A c \in Call : \A k : Has(toTab, c, k) <=> Has(toTab', c, k) \/ (c = h /\ k = kind)
      /\ \A c \in Call : \A k : Once(toTab, c, k) => Once(toTab', c, k)
      /\ Once(toTab, h, kind) => ~Has(toTab', h, kind)
      /\ Has(toTab, h, kind)
  BY <1>2, <1>4
<1>7. /\ phase \in [Call -> Phase] /\ \A c \in Call : c # h => phase'[c] = phase[c]
      /\ phase'[h] = IF phase[h] \in Waiting THEN Settled[kind] ELSE phase[h]
  BY <1>4, <1>5 DEF SessionInv, TypeOK
<1>8. phase[h] # "gone" /\ phase'[h] # "gone" /\ phase'[h] \in Phase
  <2>1. phase[h] # "gone"
    BY <1>1, <1>4 DEF SessionInv, TabsOK
  <2> QED BY <2>1, <1>4, <1>7 DEF Settled, Phase
<1>9. TypeOK'
  BY <1>1, <1>4, <1>5, <1>7, <1>8 DEF SessionInv, TypeOK
<1>10. TabsOK'
  BY <1>1, <1>2, <1>7, <1>8 DEF SessionInv, TabsOK
<1>11. ASSUME NEW c \in Call PROVE CallOK(c)'
  <2>1. CallOK(c)
    BY DEF SessionInv
  <2>2. CASE c # h
    BY <2>1, <2>2, <1>1, <1>6, <1>7
    DEF CallOK, AskOK, Asking, ComputeOK, Computing, ReleaseOK, HoldOK, Believes, Queued
  <2>3. CASE c = h
    <3>1. AskOK(c)'
      BY <2>1, <2>3, <1>1, <1>4, <1>6, <1>7
      DEF CallOK, AskOK, Asking, ComputeOK, Computing, ReleaseOK, Over, Queued, Waiting, Settled
    <3>2. ComputeOK(c)'
      BY <2>1, <2>3, <1>1, <1>4, <1>6, <1>7
      DEF CallOK, AskOK, Asking, ComputeOK, Computing, ReleaseOK, Over, Waiting, Settled
    <3> DEFINE now == phase'[c]
    <3>3. /\ kind = "granted" => now = "holding" \/ now = "abandoned"
          /\ kind = "aborted" => (now = "done" \/ now = "abandoned") /\ active # c
          /\ kind = "ok" => now = "called"
          /\ kind = "refused" => now = "refused" /\ active # c
          /\ kind = "released" => now = "done" /\ active # c
      BY <2>1, <2>3, <1>6, <1>7, <1>8
      DEF CallOK, AskOK, Asking, ComputeOK, Computing, ReleaseOK, Over, Waiting, Settled
    <3>4. kind \in {"granted", "aborted", "ok", "refused", "released"}
      BY <1>4 DEF Settled
    <3>5. ReleaseOK(c)'
      BY <2>1, <2>3, <3>3, <3>4, <1>1, <1>6, <1>8
      DEF CallOK, AskOK, Asking, ComputeOK, Computing, ReleaseOK, Over
    <3>6. HoldOK(c)'
      BY <2>1, <2>3, <3>3, <3>4, <1>1, <1>6, <1>8
      DEF CallOK, AskOK, Asking, ComputeOK, Computing, HoldOK, Believes
    <3> QED BY <3>1, <3>2, <3>5, <3>6 DEF CallOK
  <2> QED BY <2>2, <2>3
<1> QED BY <1>1, <1>2, <1>9, <1>10, <1>11 DEF SessionInv

(* A tab goes away; what else it posts says nothing of a call. *)
LEMMA LeavesInv ==
  ASSUME SessionInv, NEW t \in Tab, PageHide(t) \/ Kill(t)
  PROVE  SessionInv'
<1>1. /\ tab[t] = "open" /\ tab' = [tab EXCEPT ![t] = "closed"]
      /\ phase' = [c \in Call |-> IF owner[c] = t THEN "gone" ELSE phase[c]]
      /\ toTab' = [toTab EXCEPT ![t] = <<>>]
      /\ UNCHANGED <<ports, active, queue, pending, running>>
  BY DEF PageHide, Kill, Leaves, router, core
<1>2. Box(toRouter, ToRouter) /\ Box(toTab, ToTab) /\ phase \in [Call -> Phase]
  BY DEF SessionInv, TypeOK
<1>3. /\ Box(toRouter', ToRouter)
      /\ \A c \in Call : \A k : /\ Has(toRouter', c, k) <=> Has(toRouter, c, k)
                                /\ Once(toRouter, c, k) => Once(toRouter', c, k)
  <2>1. CASE UNCHANGED toRouter
    BY <2>1, <1>2
  <2>2. CASE Posts(t, Msg("disconnect", NoCall))
    <3>1. toRouter' = Post(toRouter, t, Msg("disconnect", NoCall))
          /\ Msg("disconnect", NoCall) \in ToRouter[t]
      BY <2>2 DEF Posts, ToRouter
    <3>2. \A c \in Call : \A k : Msg("disconnect", NoCall) # Msg(k, c)
      BY MessagesDiffer, NoCallIsNone
    <3> QED BY <3>1, <3>2, <1>2, Posted
  <2> QED BY <2>1, <2>2 DEF PageHide, Kill
<1>4. /\ Box(toTab', ToTab) /\ toTab'[t] = <<>>
      /\ \A u \in Tab : u # t => toTab'[u] = toTab[u] /\ tab'[u] = tab[u]
      /\ tab'[t] = "closed"
  BY <1>1, <1>2, EmptySeq DEF Box, SessionInv, TypeOK
<1>5. TypeOK'
  BY <1>1, <1>2 DEF SessionInv, TypeOK, Phase
<1>6. TabsOK'
  BY <1>1, <1>4, OwnerIsATab DEF SessionInv, TabsOK
<1>7. ASSUME NEW c \in Call PROVE CallOK(c)'
  <2>1. CallOK(c) /\ owner[c] \in Tab
    BY OwnerIsATab DEF SessionInv
  <2>2. CASE owner[c] # t
    <3>1. /\ phase'[c] = phase[c]
          /\ \A k : (Has(toTab', c, k) <=> Has(toTab, c, k)) /\ (Once(toTab, c, k) => Once(toTab', c, k))
      BY <2>1, <2>2, <1>1, <1>4 DEF Has, Once
    <3> QED BY <2>1, <3>1, <1>1, <1>3
        DEF CallOK, AskOK, Asking, ComputeOK, Computing, ReleaseOK, HoldOK, Believes, Queued
  <2>3. CASE owner[c] = t
    <3>1. phase'[c] = "gone" /\ \A k : ~Has(toTab', c, k) /\ Once(toTab', c, k)
      BY <2>3, <1>1, <1>4, EmptySeq DEF Has, Once, ToSet
    <3> QED BY <2>1, <3>1, <1>1, <1>3
        DEF CallOK, AskOK, Asking, ComputeOK, Computing, ReleaseOK, Over, HoldOK, Believes, Queued
  <2> QED BY <2>2, <2>3
<1> QED BY <1>1, <1>3, <1>4, <1>5, <1>6, <1>7 DEF SessionInv

--------------------------------------------------------------------------------
(* The router's side. *)

(* A handler takes one message off its port. *)
LEMMA Handled ==
  ASSUME SessionInv, NEW t \in Tab, NEW kind, Takes(t, kind)
  PROVE  /\ Box(toRouter', ToRouter)
         /\ \A c \in Call : \A k : /\ Has(toRouter', c, k) => Has(toRouter, c, k)
                                   /\ Once(toRouter, c, k) => Once(toRouter', c, k)
         /\ kind # "disconnect" =>
              LET h == Head(toRouter[t]).call IN
              /\ h \in Call /\ owner[h] = t /\ Has(toRouter, h, kind)
              /\ Once(toRouter, h, kind) => ~Has(toRouter', h, kind)
<1>1. /\ Box(toRouter, ToRouter) /\ toRouter[t] # <<>> /\ toRouter' = Taken(toRouter, t)
      /\ Head(toRouter[t]).kind = kind
  BY DEF SessionInv, Takes, Taken
<1> DEFINE m == Head(toRouter[t])
<1>2. /\ Box(toRouter', ToRouter) /\ m \in ToRouter[t]
      /\ \A c \in Call : \A k :
           /\ Has(toRouter, c, k) <=> Has(toRouter', c, k) \/ (owner[c] = t /\ m = Msg(k, c))
           /\ Once(toRouter, c, k) => Once(toRouter', c, k)
           /\ Once(toRouter, c, k) /\ owner[c] = t /\ m = Msg(k, c) => ~Has(toRouter', c, k)
  BY <1>1, Received
<1>3. ASSUME kind # "disconnect"
      PROVE  m.call \in Call /\ owner[m.call] = t /\ m = Msg(kind, m.call)
  BY <1>1, <1>2, <1>3 DEF ToRouter, CallsOf, Msg
<1> HIDE DEF m
<1> QED BY <1>2, <1>3 DEF m

(* Nothing is on its way to a call whose tab is gone. *)
LEMMA GoneSilent ==
  ASSUME SessionInv, NEW c \in Call, phase[c] = "gone"
  PROVE  \A k : ~Has(toTab, c, k)
<1>1. owner[c] \in Tab /\ toTab[owner[c]] = <<>>
  BY OwnerIsATab DEF SessionInv, TabsOK
<1> QED BY <1>1, EmptySeq DEF Has, ToSet

(* Nothing was said yet to a call that has not been served. *)
LEMMA Unserved ==
  ASSUME SessionInv, NEW c \in Call, Has(toRouter, c, "acquire") \/ Queued(c)
  PROVE  /\ phase[c] \in {"asked", "aborting", "abandoned", "gone"} /\ active # c
         /\ \A k \in DOMAIN Settled : ~Has(toTab, c, k)
<1>1. CallOK(c)
  BY DEF SessionInv
<1>2. phase[c] \in {"asked", "aborting", "abandoned", "gone"} /\ active # c
  BY <1>1 DEF CallOK, AskOK, Asking
<1>3. ~Has(toTab, c, "granted") /\ ~Has(toTab, c, "aborted")
  BY <1>1 DEF CallOK, AskOK
<1>4. ASSUME phase[c] # "gone"
      PROVE  ~Has(toTab, c, "ok") /\ ~Has(toTab, c, "refused") /\ ~Has(toTab, c, "released")
  BY <1>1, <1>2, <1>4 DEF CallOK, ComputeOK, Computing, ReleaseOK, Over
<1> QED BY <1>2, <1>3, <1>4, GoneSilent DEF Settled

LEMMA WakesNext ==
  ASSUME SessionInv
  PROVE  LET w == Woken(queue) IN
         /\ w \in Call \union {NoCall}
         /\ Rest(queue) \in Seq(Call) /\ IsInjective(Rest(queue))
         /\ ToSet(Rest(queue)) \subseteq ToSet(queue)
         /\ w # NoCall => Queued(w) /\ w \notin ToSet(Rest(queue))
<1>1. queue \in Seq(Call) /\ IsInjective(queue)
  BY DEF SessionInv, TypeOK
<1>2. CASE queue = <<>>
  BY <1>1, <1>2 DEF Woken, Rest
<1>3. CASE queue # <<>>
  <2> DEFINE r == Tail(queue)
  <2>1. /\ r \in Seq(Call) /\ Head(queue) \in ToSet(queue) /\ Head(queue) \in Call
        /\ ToSet(queue) = ToSet(r) \union {Head(queue)}
        /\ \A x : (\A i, j \in DOMAIN queue : queue[i] = x /\ queue[j] = x => i = j)
             => /\ \A i, j \in DOMAIN r : r[i] = x /\ r[j] = x => i = j
                /\ x = Head(queue) => x \notin ToSet(r)
    BY <1>1, <1>3, Shortened
  <2>2. Woken(queue) = Head(queue) /\ Rest(queue) = r
    BY <1>3 DEF Woken, Rest
  <2> HIDE DEF r
  <2>3. \A x : \A i, j \in DOMAIN queue : queue[i] = x /\ queue[j] = x => i = j
    BY <1>1 DEF IsInjective
  <2>4. IsInjective(r) /\ Head(queue) \notin ToSet(r)
    BY <2>1, <2>3 DEF IsInjective
  <2> QED BY <2>1, <2>2, <2>4 DEF Queued
<1> QED BY <1>2, <1>3

(* The session goes to a call that waited for it, and what the router says of it. *)
LEMMA GrantedOK ==
  ASSUME SessionInv, NEW c \in Call, Has(toRouter, c, "acquire") \/ Queued(c),
         active' = c, c \notin ToSet(queue'), ~Has(toRouter', c, "acquire"),
         ports' \subseteq ports, pending' \subseteq pending, UNCHANGED <<tab, phase>>,
         \A k : /\ Has(toRouter', c, k) => Has(toRouter, c, k)
                /\ Once(toRouter, c, k) => Once(toRouter', c, k)
                /\ Has(toTab', c, k) <=> Has(toTab, c, k) \/ (k = "granted" /\ Hears(c, ports'))
                /\ Once(toTab, c, k) /\ (k = "granted" => ~Has(toTab, c, k)) => Once(toTab', c, k)
  PROVE  CallOK(c)'
<1>1. CallOK(c) /\ owner[c] \in Tab
  BY OwnerIsATab DEF SessionInv
<1>2. /\ phase[c] \in {"asked", "aborting", "abandoned", "gone"} /\ active # c
      /\ \A k \in DOMAIN Settled : ~Has(toTab, c, k)
  BY Unserved
<1>3. /\ ~Has(toTab, c, "granted") /\ ~Has(toTab, c, "aborted") /\ ~Has(toTab, c, "ok")
      /\ ~Has(toTab, c, "refused") /\ ~Has(toTab, c, "released")
  BY <1>2 DEF Settled
<1>4. /\ ~Has(toTab', c, "aborted") /\ ~Has(toTab', c, "ok")
      /\ ~Has(toTab', c, "refused") /\ ~Has(toTab', c, "released")
  BY <1>3
<1>5. phase[c] \in {"asked", "aborting"} /\ owner[c] \in ports' => Has(toTab', c, "granted")
  <2>1. phase[c] \in {"asked", "aborting"} => tab[owner[c]] = "open"
    BY <1>1 DEF SessionInv, TabsOK, TypeOK
  <2> QED BY <2>1 DEF Hears
<1>6. AskOK(c)'
  BY <1>1, <1>2, <1>3, <1>4 DEF CallOK, AskOK, Asking, Queued
<1>7. ComputeOK(c)'
  BY <1>1, <1>3, <1>4 DEF CallOK, ComputeOK, Computing
<1>8. ReleaseOK(c)'
  BY <1>1, <1>2, <1>4 DEF CallOK, ReleaseOK
<1>9. HoldOK(c)'
  BY <1>2, <1>5 DEF HoldOK, Believes
<1> QED BY <1>6, <1>7, <1>8, <1>9 DEF CallOK

(* A call that the step is not about. *)
LEMMA OtherCall ==
  ASSUME SessionInv, NEW d \in Call,
         d \in ToSet(queue') => d \in ToSet(queue),
         ports' \subseteq ports, d \in pending' => d \in pending, UNCHANGED <<tab, phase>>,
         active' = active \/ (active' # d /\ (owner[d] \in ports' => active # d)),
         \A k : /\ Has(toRouter', d, k) => Has(toRouter, d, k)
                /\ Once(toRouter, d, k) => Once(toRouter', d, k)
                /\ Has(toTab', d, k) <=> Has(toTab, d, k)
                /\ Once(toTab, d, k) => Once(toTab', d, k)
  PROVE  CallOK(d)'
<1>1. CallOK(d)
  BY DEF SessionInv
<1>2. active' # d \/ active' = active
  OBVIOUS
<1>3. AskOK(d)'
  BY <1>1, <1>2 DEF CallOK, AskOK, Asking, Queued
<1>4. ComputeOK(d)'
  BY <1>1, <1>2 DEF CallOK, ComputeOK, Computing
<1>5. ReleaseOK(d)'
  BY <1>1, <1>2 DEF CallOK, ReleaseOK
<1>6. HoldOK(d)'
  BY <1>1 DEF CallOK, HoldOK, Believes
<1> QED BY <1>3, <1>4, <1>5, <1>6 DEF CallOK

LEMMA OnAcquireInv == ASSUME SessionInv, NEW t \in Tab, OnAcquire(t) PROVE SessionInv'
<1> DEFINE c == Head(toRouter[t]).call
<1>1. /\ Takes(t, "acquire") /\ UNCHANGED <<ports, pending, running, tab, phase>>
      /\ \/ active = NoCall /\ active' = c /\ queue' = queue /\ toTab' = Reply(toTab, "granted", c, ports)
         \/ active # NoCall /\ active' = active /\ queue' = Append(queue, c) /\ toTab' = toTab
  BY DEF OnAcquire, core
<1>2. /\ c \in Call /\ owner[c] = t /\ Has(toRouter, c, "acquire")
      /\ Once(toRouter, c, "acquire") => ~Has(toRouter', c, "acquire")
      /\ Box(toRouter', ToRouter)
      /\ \A d \in Call : \A k : /\ Has(toRouter', d, k) => Has(toRouter, d, k)
                                /\ Once(toRouter, d, k) => Once(toRouter', d, k)
  BY <1>1, Handled
<1> HIDE DEF c
<1>3. CallOK(c) /\ ~Has(toRouter', c, "acquire") /\ ~Queued(c) /\ c # NoCall
  BY <1>2, NoCallIsNone DEF SessionInv, CallOK, AskOK
<1>4. /\ queue \in Seq(Call) /\ IsInjective(queue) /\ Box(toTab, ToTab) /\ TabsOK
  BY DEF SessionInv, TypeOK
<1>5. CASE active = NoCall /\ active' = c /\ queue' = queue /\ toTab' = Reply(toTab, "granted", c, ports)
  <2>1. /\ Box(toTab', ToTab)
        /\ \A u \in Tab : tab[u] # "open" => toTab'[u] = toTab[u]
        /\ \A d \in Call : \A k :
             LET it == d = c /\ k = "granted" /\ Hears(c, ports) IN
             /\ Has(toTab', d, k) <=> Has(toTab, d, k) \/ it
             /\ Once(toTab, d, k) /\ (it => ~Has(toTab, d, k)) => Once(toTab', d, k)
    <3>1. "granted" \in DOMAIN Settled /\ c \in Call \union {NoCall} /\ Box(toTab, ToTab)
      BY <1>2, <1>4 DEF Settled
    <3>2. toTab' = Reply(toTab, "granted", c, ports)
      BY <1>5
    <3> QED BY <3>1, <3>2, Replied
  <2>2. TypeOK' /\ TabsOK'
    BY <2>1, <1>1, <1>2, <1>5 DEF SessionInv, TypeOK, TabsOK
  <2>3. ASSUME NEW d \in Call, d = c PROVE CallOK(d)'
    <3>1. Has(toRouter, d, "acquire") \/ Queued(d)
      BY <2>3, <1>2
    <3>2. /\ active' = d /\ d \notin ToSet(queue') /\ ~Has(toRouter', d, "acquire")
          /\ ports' = ports /\ pending' = pending /\ UNCHANGED <<tab, phase>>
      BY <2>3, <1>1, <1>3, <1>5 DEF Queued
    <3>3. \A k : /\ Has(toTab', d, k) <=> Has(toTab, d, k) \/ (k = "granted" /\ Hears(d, ports'))
                 /\ Once(toTab, d, k) /\ (k = "granted" => ~Has(toTab, d, k)) => Once(toTab', d, k)
      BY <2>1, <2>3, <3>2
    <3> QED BY <3>1, <3>2, <3>3, <1>2, GrantedOK
  <2>4. ASSUME NEW d \in Call, d # c PROVE CallOK(d)'
    <3>1. active # d /\ active' # d /\ ports' = ports /\ pending' = pending /\ queue' = queue
          /\ UNCHANGED <<tab, phase>>
      BY <2>4, <1>1, <1>5, NoCallIsNone
    <3> QED BY <3>1, <2>1, <2>4, <1>2, OtherCall
  <2> QED BY <2>1, <2>2, <2>3, <2>4, <1>2 DEF SessionInv
<1>6. CASE active # NoCall /\ active' = active /\ queue' = Append(queue, c) /\ toTab' = toTab
  <2>1. /\ queue' \in Seq(Call) /\ ToSet(queue') = ToSet(queue) \union {c}
        /\ \A x : /\ \A i, j \in DOMAIN queue : queue[i] = x /\ queue[j] = x => i = j
                  /\ x = c => x \notin ToSet(queue)
             => \A i, j \in DOMAIN queue' : queue'[i] = x /\ queue'[j] = x => i = j
    BY <1>2, <1>4, <1>6, Appended
  <2>2. IsInjective(queue')
    <3>1. \A x : \A i, j \in DOMAIN queue : queue[i] = x /\ queue[j] = x => i = j
      BY <1>4 DEF IsInjective
    <3> QED BY <3>1, <2>1, <1>3 DEF IsInjective, Queued
  <2>3. TypeOK' /\ TabsOK'
    BY <2>1, <2>2, <1>1, <1>6 DEF SessionInv, TypeOK, TabsOK
  <2>4. ASSUME NEW d \in Call, d = c PROVE CallOK(d)'
    <3>0. CallOK(d) /\ ~Has(toRouter', d, "acquire") /\ Has(toRouter, d, "acquire")
      BY <2>4, <1>2, <1>3
    <3>1. AskOK(d)'
      BY <3>0, <2>1, <1>1, <1>2, <1>6 DEF CallOK, AskOK, Asking, Queued
    <3>2. ComputeOK(d)'
      BY <3>0, <1>1, <1>2, <1>6 DEF CallOK, ComputeOK, Computing
    <3>3. ReleaseOK(d)'
      BY <3>0, <1>1, <1>2, <1>6 DEF CallOK, ReleaseOK
    <3>4. HoldOK(d)'
      BY <3>0, <1>1, <1>6 DEF CallOK, HoldOK, Believes
    <3> QED BY <3>1, <3>2, <3>3, <3>4 DEF CallOK
  <2>5. ASSUME NEW d \in Call, d # c PROVE CallOK(d)'
    <3>1. /\ active' = active /\ ports' = ports /\ pending' = pending /\ toTab' = toTab
          /\ UNCHANGED <<tab, phase>> /\ (d \in ToSet(queue') => d \in ToSet(queue))
      BY <2>1, <2>5, <1>1, <1>6
    <3> QED BY <3>1, <1>2, OtherCall
  <2> QED BY <2>3, <2>4, <2>5, <1>2, <1>4, <1>6 DEF SessionInv
<1> QED BY <1>1, <1>5, <1>6

LEMMA OnCancelInv == ASSUME SessionInv, NEW t \in Tab, OnCancel(t) PROVE SessionInv'
<1> DEFINE c == Head(toRouter[t]).call
<1>1. /\ Takes(t, "cancel") /\ UNCHANGED <<ports, active, pending, running, tab, phase>>
      /\ \/ /\ Contains(queue, c) /\ queue' = Without(queue, {c})
            /\ toTab' = Reply(toTab, "aborted", c, ports)
         \/ UNCHANGED <<queue, toTab>>
  BY DEF OnCancel, core
<1>2. /\ c \in Call /\ Box(toRouter', ToRouter)
      /\ \A d \in Call : \A k : /\ Has(toRouter', d, k) => Has(toRouter, d, k)
                                /\ Once(toRouter, d, k) => Once(toRouter', d, k)
  BY <1>1, Handled
<1> HIDE DEF c
<1>3. queue \in Seq(Call) /\ IsInjective(queue) /\ Box(toTab, ToTab) /\ TabsOK
  BY DEF SessionInv, TypeOK
<1>4. CASE UNCHANGED <<queue, toTab>>
  <2>1. TypeOK' /\ TabsOK'
    BY <1>1, <1>4 DEF SessionInv, TypeOK, TabsOK
  <2>2. ASSUME NEW d \in Call PROVE CallOK(d)'
    BY <1>1, <1>2, <1>4, OtherCall
  <2> QED BY <2>1, <2>2, <1>2, <1>3, <1>4 DEF SessionInv
<1>5. CASE /\ Contains(queue, c) /\ queue' = Without(queue, {c})
           /\ toTab' = Reply(toTab, "aborted", c, ports)
  <2>1. /\ Box(toTab', ToTab)
        /\ \A u \in Tab : tab[u] # "open" => toTab'[u] = toTab[u]
        /\ \A d \in Call : \A k :
             LET it == d = c /\ k = "aborted" /\ Hears(c, ports) IN
             /\ Has(toTab', d, k) <=> Has(toTab, d, k) \/ it
             /\ Once(toTab, d, k) /\ (it => ~Has(toTab, d, k)) => Once(toTab', d, k)
    BY <1>2, <1>3, <1>5, Replied DEF Settled
  <2>2. queue' \in Seq(Call) /\ IsInjective(queue') /\ ToSet(queue') \subseteq ToSet(queue) \ {c}
    BY <1>3, <1>5, Kept
  <2>3. TypeOK' /\ TabsOK'
    BY <2>1, <2>2, <1>1 DEF SessionInv, TypeOK, TabsOK
  <2>4. Queued(c)
    BY <1>3, <1>5, LenProperties DEF Contains, Queued, ToSet
  <2>5. ASSUME NEW d \in Call, d = c PROVE CallOK(d)'
    <3>1. CallOK(d) /\ ~Has(toTab, d, "aborted") /\ ~Has(toTab, d, "granted") /\ active # d
      BY <2>4, <2>5, <1>2 DEF SessionInv, CallOK, AskOK
    <3>2. /\ phase[d] \in {"asked", "aborting", "abandoned", "gone"} /\ ~Has(toRouter', d, "acquire")
          /\ d \notin ToSet(queue')
      BY <3>1, <2>2, <2>4, <2>5, <1>2 DEF CallOK, AskOK, Asking
    <3>3. /\ \A k : k # "aborted" => (Has(toTab', d, k) <=> Has(toTab, d, k))
          /\ \A k : Once(toTab, d, k) /\ (k = "aborted" => ~Has(toTab, d, k)) => Once(toTab', d, k)
      BY <2>1
    <3>4. AskOK(d)'
      BY <3>1, <3>2, <3>3, <1>1, <1>2 DEF CallOK, AskOK, Asking, Queued
    <3>5. ComputeOK(d)'
      BY <3>1, <3>3, <1>1, <1>2 DEF CallOK, ComputeOK, Computing
    <3>6. ReleaseOK(d)'
      BY <3>1, <3>3, <1>1, <1>2 DEF CallOK, ReleaseOK
    <3>7. HoldOK(d)'
      BY <3>1, <3>3, <1>1 DEF CallOK, HoldOK, Believes
    <3> QED BY <3>4, <3>5, <3>6, <3>7 DEF CallOK
  <2>6. ASSUME NEW d \in Call, d # c PROVE CallOK(d)'
    <3>1. /\ active' = active /\ ports' = ports /\ pending' = pending
          /\ UNCHANGED <<tab, phase>> /\ (d \in ToSet(queue') => d \in ToSet(queue))
      BY <2>2, <1>1
    <3> QED BY <3>1, <2>1, <2>6, <1>2, OtherCall
  <2> QED BY <2>1, <2>3, <2>5, <2>6, <1>2 DEF SessionInv
<1> QED BY <1>1, <1>4, <1>5

LEMMA OnReleaseInv == ASSUME SessionInv, NEW t \in Tab, OnRelease(t) PROVE SessionInv'
<1> DEFINE c == Head(toRouter[t]).call
           w == Woken(queue)
           f == Reply(toTab, "released", c, ports)
<1>1. /\ Takes(t, "release") /\ UNCHANGED <<ports, pending, running, tab, phase>>
      /\ \/ active = c /\ active' = w /\ queue' = Rest(queue) /\ toTab' = Reply(f, "granted", w, ports)
         \/ active # c /\ UNCHANGED <<active, queue>> /\ toTab' = f
  BY DEF OnRelease, core
<1>2. /\ c \in Call /\ Has(toRouter, c, "release")
      /\ Box(toRouter', ToRouter)
      /\ \A d \in Call : \A k : /\ Has(toRouter', d, k) => Has(toRouter, d, k)
                                /\ Once(toRouter, d, k) => Once(toRouter', d, k)
  BY <1>1, Handled
<1> HIDE DEF c
<1>3. queue \in Seq(Call) /\ IsInjective(queue) /\ Box(toTab, ToTab) /\ TabsOK
  BY DEF SessionInv, TypeOK
<1>4. /\ Box(f, ToTab)
      /\ \A u \in Tab : tab[u] # "open" => f[u] = toTab[u]
      /\ \A d \in Call : \A k :
           LET it == d = c /\ k = "released" /\ Hears(c, ports) IN
           /\ Has(f, d, k) <=> Has(toTab, d, k) \/ it
           /\ Once(toTab, d, k) /\ (it => ~Has(toTab, d, k)) => Once(f, d, k)
  <2>1. "released" \in DOMAIN Settled /\ c \in Call \union {NoCall}
    BY <1>2 DEF Settled
  <2> QED BY <2>1, <1>3, Replied
<1> HIDE DEF f
<1>5. /\ w \in Call \union {NoCall}
      /\ Rest(queue) \in Seq(Call) /\ IsInjective(Rest(queue))
      /\ ToSet(Rest(queue)) \subseteq ToSet(queue)
      /\ w # NoCall => Queued(w) /\ w \notin ToSet(Rest(queue))
  BY WakesNext
<1> HIDE DEF w
<1>6. phase[c] \in Over
  BY <1>2 DEF SessionInv, CallOK, ReleaseOK
\* What the caller is told, however the release went.
<1>7. ASSUME NEW d \in Call, d = c, active' # c,
             d \in ToSet(queue') => d \in ToSet(queue),
             \A k : /\ Has(toTab', d, k) => Has(toTab, d, k) \/ k = "released"
                    /\ k # "released" /\ Once(toTab, d, k) => Once(toTab', d, k)
      PROVE  CallOK(d)'
  <2>1. CallOK(d) /\ phase[d] \in Over
    BY <1>6, <1>7 DEF SessionInv
  <2>2. phase[d] = "gone" => \A k : ~Has(toTab, d, k)
    BY GoneSilent
  <2>3. AskOK(d)'
    BY <2>1, <1>1, <1>2, <1>7 DEF CallOK, AskOK, Asking, Queued
  <2>4. ComputeOK(d)'
    BY <2>1, <1>1, <1>2, <1>7 DEF CallOK, ComputeOK, Computing
  <2>5. ReleaseOK(d)'
    BY <2>1, <1>1, <1>2, <1>7 DEF CallOK, ReleaseOK
  <2>6. HoldOK(d)'
    BY <2>1, <2>2, <1>1, <1>7 DEF CallOK, HoldOK, AskOK, Asking, Believes, Over
  <2> QED BY <2>3, <2>4, <2>5, <2>6 DEF CallOK
<1>8. CASE active # c /\ UNCHANGED <<active, queue>> /\ toTab' = f
  <2>1. TypeOK' /\ TabsOK'
    BY <1>1, <1>3, <1>4, <1>8 DEF SessionInv, TypeOK, TabsOK
  <2>2. ASSUME NEW d \in Call, d = c PROVE CallOK(d)'
    BY <2>2, <1>4, <1>7, <1>8
  <2>3. ASSUME NEW d \in Call, d # c PROVE CallOK(d)'
    <3>1. /\ active' = active /\ ports' = ports /\ pending' = pending
          /\ UNCHANGED <<tab, phase>> /\ queue' = queue
          /\ \A k : /\ Has(toTab', d, k) <=> Has(toTab, d, k)
                    /\ Once(toTab, d, k) => Once(toTab', d, k)
      BY <2>3, <1>1, <1>4, <1>8
    <3> QED BY <3>1, <1>2, OtherCall
  <2> QED BY <2>1, <2>2, <2>3, <1>2, <1>4, <1>8 DEF SessionInv
<1>9. CASE active = c /\ active' = w /\ queue' = Rest(queue) /\ toTab' = Reply(f, "granted", w, ports)
  <2>1. /\ Box(toTab', ToTab)
        /\ \A u \in Tab : tab[u] # "open" => toTab'[u] = f[u]
        /\ \A d \in Call : \A k :
             LET it == d = w /\ k = "granted" /\ Hears(w, ports) IN
             /\ Has(toTab', d, k) <=> Has(f, d, k) \/ it
             /\ Once(f, d, k) /\ (it => ~Has(f, d, k)) => Once(toTab', d, k)
    <3>1. "granted" \in DOMAIN Settled
      BY DEF Settled
    <3>2. Box(f, ToTab) /\ w \in Call \union {NoCall} /\ toTab' = Reply(f, "granted", w, ports)
      BY <1>4, <1>5, <1>9
    <3> QED BY <3>1, <3>2, Replied
  <2>2. TypeOK' /\ TabsOK'
    BY <2>1, <1>1, <1>3, <1>4, <1>5, <1>9 DEF SessionInv, TypeOK, TabsOK
  <2>3. w # c
    <3>1. w # NoCall => active # w
      BY <1>5, Unserved
    <3> QED BY <3>1, <1>2, <1>9, NoCallIsNone
  <2>4. ASSUME NEW d \in Call, d = c PROVE CallOK(d)'
    <3>1. /\ active' # c /\ (d \in ToSet(queue') => d \in ToSet(queue))
          /\ \A k : /\ Has(toTab', d, k) => Has(toTab, d, k) \/ k = "released"
                    /\ k # "released" /\ Once(toTab, d, k) => Once(toTab', d, k)
      BY <2>1, <2>3, <2>4, <1>4, <1>5, <1>9
    <3> QED BY <3>1, <2>4, <1>7
  <2>5. ASSUME NEW d \in Call, d = w PROVE CallOK(d)'
    <3>1. Queued(d) /\ active' = d /\ d \notin ToSet(queue')
      BY <2>5, <1>5, <1>9, NoCallIsNone
    <3>2. ~Has(toRouter', d, "acquire")
      BY <3>1, <1>2 DEF SessionInv, CallOK, AskOK
    <3>3. \A k : /\ Has(toTab', d, k) <=> Has(toTab, d, k) \/ (k = "granted" /\ Hears(d, ports'))
                 /\ Once(toTab, d, k) /\ (k = "granted" => ~Has(toTab, d, k)) => Once(toTab', d, k)
      BY <2>1, <2>3, <2>5, <1>1, <1>4
    <3>4. ports' = ports /\ pending' = pending /\ UNCHANGED <<tab, phase>>
      BY <1>1
    <3> QED BY <3>1, <3>2, <3>3, <3>4, <1>2, GrantedOK
  <2>6. ASSUME NEW d \in Call, d # c, d # w PROVE CallOK(d)'
    <3>1. /\ active # d /\ active' # d /\ ports' = ports /\ pending' = pending
          /\ UNCHANGED <<tab, phase>> /\ (d \in ToSet(queue') => d \in ToSet(queue))
          /\ \A k : /\ Has(toTab', d, k) <=> Has(toTab, d, k)
                    /\ Once(toTab, d, k) => Once(toTab', d, k)
      BY <2>1, <2>6, <1>1, <1>4, <1>5, <1>9
    <3> QED BY <3>1, <1>2, OtherCall
  <2> QED BY <2>1, <2>2, <2>4, <2>5, <2>6, <1>2 DEF SessionInv
<1> QED BY <1>1, <1>8, <1>9

LEMMA OnRpcInv == ASSUME SessionInv, NEW t \in Tab, OnRpc(t) PROVE SessionInv'
<1> DEFINE c == Head(toRouter[t]).call
<1>1. /\ Takes(t, "rpc") /\ UNCHANGED <<ports, active, queue, tab, phase>>
      /\ \/ /\ active = c /\ toTab' = toTab
            /\ pending' = pending \union {c} /\ running' = running \union {c}
         \/ /\ active # c /\ toTab' = Reply(toTab, "refused", c, ports)
            /\ UNCHANGED <<pending, running>>
  BY DEF OnRpc, router, core
<1>2. /\ c \in Call /\ Has(toRouter, c, "rpc")
      /\ Once(toRouter, c, "rpc") => ~Has(toRouter', c, "rpc")
      /\ Box(toRouter', ToRouter)
      /\ \A d \in Call : \A k : /\ Has(toRouter', d, k) => Has(toRouter, d, k)
                                /\ Once(toRouter, d, k) => Once(toRouter', d, k)
  BY <1>1, Handled
<1> HIDE DEF c
<1>3. Box(toTab, ToTab) /\ TabsOK
  BY DEF SessionInv
<1>4. /\ CallOK(c) /\ ~Has(toRouter', c, "rpc") /\ phase[c] \in {"calling", "gone"}
      /\ c \notin pending /\ ~Has(toTab, c, "ok") /\ ~Has(toTab, c, "refused")
  BY <1>2 DEF SessionInv, CallOK, ComputeOK, Computing
<1>5. CASE active = c /\ toTab' = toTab /\ pending' = pending \union {c} /\ running' = running \union {c}
  <2>1. TypeOK' /\ TabsOK'
    BY <1>1, <1>2, <1>5 DEF SessionInv, TypeOK, TabsOK
  <2>2. ASSUME NEW d \in Call, d = c PROVE CallOK(d)'
    <3>1. CallOK(d)
      BY DEF SessionInv
    <3>2. AskOK(d)' /\ ReleaseOK(d)' /\ HoldOK(d)'
      BY <3>1, <1>1, <1>2, <1>5 DEF CallOK, AskOK, Asking, Queued, ReleaseOK, HoldOK, Believes
    <3>3. ComputeOK(d)'
      BY <3>1, <2>2, <1>1, <1>2, <1>4, <1>5 DEF CallOK, ComputeOK, Computing
    <3> QED BY <3>2, <3>3 DEF CallOK
  <2>3. ASSUME NEW d \in Call, d # c PROVE CallOK(d)'
    <3>1. /\ active' = active /\ ports' = ports /\ (d \in pending' => d \in pending)
          /\ UNCHANGED <<tab, phase>> /\ queue' = queue /\ toTab' = toTab
      BY <2>3, <1>1, <1>5
    <3> QED BY <3>1, <1>2, OtherCall
  <2> QED BY <2>1, <2>2, <2>3, <1>2, <1>3, <1>5 DEF SessionInv
<1>6. CASE active # c /\ toTab' = Reply(toTab, "refused", c, ports) /\ UNCHANGED <<pending, running>>
  <2>1. /\ Box(toTab', ToTab)
        /\ \A u \in Tab : tab[u] # "open" => toTab'[u] = toTab[u]
        /\ \A d \in Call : \A k :
             LET it == d = c /\ k = "refused" /\ Hears(c, ports) IN
             /\ Has(toTab', d, k) <=> Has(toTab, d, k) \/ it
             /\ Once(toTab, d, k) /\ (it => ~Has(toTab, d, k)) => Once(toTab', d, k)
    <3>1. "refused" \in DOMAIN Settled /\ c \in Call \union {NoCall}
      BY <1>2 DEF Settled
    <3> QED BY <3>1, <1>3, <1>6, Replied
  <2>2. TypeOK' /\ TabsOK'
    BY <2>1, <1>1, <1>6 DEF SessionInv, TypeOK, TabsOK
  <2>3. ASSUME NEW d \in Call, d = c PROVE CallOK(d)'
    <3>1. CallOK(d)
      BY DEF SessionInv
    <3>2. /\ \A k : k # "refused" => (Has(toTab', d, k) <=> Has(toTab, d, k))
          /\ \A k : Once(toTab, d, k) /\ (k = "refused" => ~Has(toTab, d, k)) => Once(toTab', d, k)
      BY <2>1
    <3>3. AskOK(d)' /\ ReleaseOK(d)' /\ HoldOK(d)'
      BY <3>1, <3>2, <1>1, <1>2 DEF CallOK, AskOK, Asking, Queued, ReleaseOK, HoldOK, Believes
    <3>4. ComputeOK(d)'
      BY <3>1, <3>2, <2>3, <1>1, <1>2, <1>4, <1>6 DEF CallOK, ComputeOK, Computing
    <3> QED BY <3>3, <3>4 DEF CallOK
  <2>4. ASSUME NEW d \in Call, d # c PROVE CallOK(d)'
    <3>1. /\ active' = active /\ ports' = ports /\ pending' = pending
          /\ UNCHANGED <<tab, phase>> /\ queue' = queue
          /\ \A k : /\ Has(toTab', d, k) <=> Has(toTab, d, k)
                    /\ Once(toTab, d, k) => Once(toTab', d, k)
      BY <2>1, <2>4, <1>1, <1>6
    <3> QED BY <3>1, <1>2, OtherCall
  <2> QED BY <2>1, <2>2, <2>3, <2>4, <1>2 DEF SessionInv
<1> QED BY <1>1, <1>5, <1>6

LEMMA CoreDoneInv == ASSUME SessionInv, NEW c \in Call, CoreDone(c) PROVE SessionInv'
<1>1. /\ pending' = pending \ {c} /\ running' = running \ {c}
      /\ UNCHANGED <<ports, active, queue, tab, phase, toRouter>>
      /\ \/ c \in pending /\ toTab' = Reply(toTab, "ok", c, ports)
         \/ c \notin pending /\ toTab' = toTab
  BY DEF CoreDone, router
<1>2. Box(toRouter, ToRouter) /\ Box(toTab, ToTab) /\ TabsOK
  BY DEF SessionInv
<1>3. CASE c \notin pending /\ toTab' = toTab
  <2>1. TypeOK' /\ TabsOK'
    BY <1>1, <1>3 DEF SessionInv, TypeOK, TabsOK
  <2>2. ASSUME NEW d \in Call PROVE CallOK(d)'
    <3>1. /\ active' = active /\ ports' = ports /\ (d \in pending' => d \in pending)
          /\ UNCHANGED <<tab, phase>> /\ queue' = queue /\ toTab' = toTab /\ toRouter' = toRouter
      BY <1>1, <1>3
    <3> QED BY <3>1, OtherCall
  <2> QED BY <2>1, <2>2, <1>1, <1>2, <1>3 DEF SessionInv
<1>4. CASE c \in pending /\ toTab' = Reply(toTab, "ok", c, ports)
  <2>1. /\ Box(toTab', ToTab)
        /\ \A u \in Tab : tab[u] # "open" => toTab'[u] = toTab[u]
        /\ \A d \in Call : \A k :
             LET it == d = c /\ k = "ok" /\ Hears(c, ports) IN
             /\ Has(toTab', d, k) <=> Has(toTab, d, k) \/ it
             /\ Once(toTab, d, k) /\ (it => ~Has(toTab, d, k)) => Once(toTab', d, k)
    <3>1. "ok" \in DOMAIN Settled /\ c \in Call \union {NoCall}
      BY DEF Settled
    <3> QED BY <3>1, <1>2, <1>4, Replied
  <2>2. TypeOK' /\ TabsOK'
    BY <2>1, <1>1 DEF SessionInv, TypeOK, TabsOK
  <2>3. ASSUME NEW d \in Call, d = c PROVE CallOK(d)'
    <3>1. CallOK(d) /\ d \in pending /\ d \notin pending'
      BY <2>3, <1>1, <1>4 DEF SessionInv
    <3>2. /\ \A k : k # "ok" => (Has(toTab', d, k) <=> Has(toTab, d, k))
          /\ \A k : Once(toTab, d, k) /\ (k = "ok" => ~Has(toTab, d, k)) => Once(toTab', d, k)
      BY <2>1
    <3>3. AskOK(d)' /\ ReleaseOK(d)' /\ HoldOK(d)'
      BY <3>1, <3>2, <1>1 DEF CallOK, AskOK, Asking, Queued, ReleaseOK, HoldOK, Believes
    <3>4. ComputeOK(d)'
      BY <3>1, <3>2, <1>1 DEF CallOK, ComputeOK, Computing
    <3> QED BY <3>3, <3>4 DEF CallOK
  <2>4. ASSUME NEW d \in Call, d # c PROVE CallOK(d)'
    <3>1. /\ active' = active /\ ports' = ports /\ (d \in pending' => d \in pending)
          /\ UNCHANGED <<tab, phase>> /\ queue' = queue /\ toRouter' = toRouter
          /\ \A k : /\ Has(toTab', d, k) <=> Has(toTab, d, k)
                    /\ Once(toTab, d, k) => Once(toTab', d, k)
      BY <2>1, <2>4, <1>1
    <3> QED BY <3>1, OtherCall
  <2> QED BY <2>1, <2>2, <2>3, <2>4, <1>1, <1>2 DEF SessionInv
<1> QED BY <1>1, <1>3, <1>4

(* disconnectPort, for a port that said goodbye or was reaped. *)
LEMMA DisconnectInv ==
  ASSUME SessionInv, NEW t \in Tab, DisconnectPort(t), UNCHANGED <<running, tab, phase>>,
         Box(toRouter', ToRouter),
         \A d \in Call : \A k : /\ Has(toRouter', d, k) => Has(toRouter, d, k)
                                /\ Once(toRouter, d, k) => Once(toRouter', d, k)
  PROVE  SessionInv'
<1> DEFINE w == Woken(queue)
           mine == {c \in Call : owner[c] = t}
<1>1. /\ ports' = ports \ {t} /\ pending' \subseteq pending
      /\ \/ /\ active # NoCall /\ owner[active] = t /\ active' = w
            /\ queue' = Without(Rest(queue), mine) /\ toTab' = Reply(toTab, "granted", w, ports \ {t})
         \/ active' = active /\ queue' = Without(queue, mine) /\ toTab' = toTab
  BY DEF DisconnectPort, Others
<1>2. /\ queue \in Seq(Call) /\ IsInjective(queue) /\ Box(toTab, ToTab) /\ TabsOK
      /\ pending \subseteq running /\ active \in Call \union {NoCall}
  BY DEF SessionInv, TypeOK
<1>3. /\ w \in Call \union {NoCall}
      /\ Rest(queue) \in Seq(Call) /\ IsInjective(Rest(queue))
      /\ ToSet(Rest(queue)) \subseteq ToSet(queue)
      /\ w # NoCall => Queued(w) /\ w \notin ToSet(Rest(queue))
  BY WakesNext
<1> HIDE DEF w, mine
<1>4. CASE active' = active /\ queue' = Without(queue, mine) /\ toTab' = toTab
  <2>1. queue' \in Seq(Call) /\ IsInjective(queue') /\ ToSet(queue') \subseteq ToSet(queue)
    BY <1>2, <1>4, Kept
  <2>2. TypeOK' /\ TabsOK'
    BY <2>1, <1>1, <1>4 DEF SessionInv, TypeOK, TabsOK
  <2>3. ASSUME NEW d \in Call PROVE CallOK(d)'
    <3>1. /\ active' = active /\ ports' \subseteq ports /\ (d \in pending' => d \in pending)
          /\ UNCHANGED <<tab, phase>> /\ toTab' = toTab /\ (d \in ToSet(queue') => d \in ToSet(queue))
      BY <2>1, <1>1, <1>4
    <3> QED BY <3>1, OtherCall
  <2> QED BY <2>2, <2>3, <1>2, <1>4 DEF SessionInv
<1>5. CASE /\ active # NoCall /\ owner[active] = t /\ active' = w
           /\ queue' = Without(Rest(queue), mine) /\ toTab' = Reply(toTab, "granted", w, ports \ {t})
  <2>1. queue' \in Seq(Call) /\ IsInjective(queue') /\ ToSet(queue') \subseteq ToSet(Rest(queue))
    BY <1>3, <1>5, Kept
  <2>2. /\ Box(toTab', ToTab)
        /\ \A u \in Tab : tab[u] # "open" => toTab'[u] = toTab[u]
        /\ \A d \in Call : \A k :
             LET it == d = w /\ k = "granted" /\ Hears(w, ports \ {t}) IN
             /\ Has(toTab', d, k) <=> Has(toTab, d, k) \/ it
             /\ Once(toTab, d, k) /\ (it => ~Has(toTab, d, k)) => Once(toTab', d, k)
    <3>1. "granted" \in DOMAIN Settled
      BY DEF Settled
    <3>2. toTab' = Reply(toTab, "granted", w, ports \ {t})
      BY <1>5
    <3> QED BY <3>1, <3>2, <1>2, <1>3, Replied
  <2>3. TypeOK' /\ TabsOK'
    BY <2>1, <2>2, <1>1, <1>3, <1>5 DEF SessionInv, TypeOK, TabsOK
  <2>4. ASSUME NEW d \in Call, d = w PROVE CallOK(d)'
    <3>1. Queued(d) /\ active' = d /\ d \notin ToSet(queue')
      BY <2>1, <2>4, <1>3, <1>5, NoCallIsNone
    <3>2. ~Has(toRouter', d, "acquire")
      BY <3>1 DEF SessionInv, CallOK, AskOK
    <3>3. \A k : /\ Has(toTab', d, k) <=> Has(toTab, d, k) \/ (k = "granted" /\ Hears(d, ports'))
                 /\ Once(toTab, d, k) /\ (k = "granted" => ~Has(toTab, d, k)) => Once(toTab', d, k)
      BY <2>2, <2>4, <1>1
    <3>4. ports' \subseteq ports /\ pending' \subseteq pending /\ UNCHANGED <<tab, phase>>
      BY <1>1
    <3> QED BY <3>1, <3>2, <3>3, <3>4, GrantedOK
  <2>5. ASSUME NEW d \in Call, d # w PROVE CallOK(d)'
    <3>1. /\ active' # d /\ ports' \subseteq ports /\ (d \in pending' => d \in pending)
          /\ UNCHANGED <<tab, phase>> /\ (d \in ToSet(queue') => d \in ToSet(queue))
          /\ \A k : /\ Has(toTab', d, k) <=> Has(toTab, d, k)
                    /\ Once(toTab, d, k) => Once(toTab', d, k)
      BY <2>1, <2>2, <2>5, <1>1, <1>3, <1>5
    <3>2. active = d => owner[d] \notin ports'
      BY <1>1, <1>5
    <3>3. CASE active # d
      BY <3>1, <3>3, OtherCall
    <3>4. CASE active = d
      <4>1. CallOK(d)
        BY DEF SessionInv
      <4>2. AskOK(d)' /\ ComputeOK(d)' /\ ReleaseOK(d)'
        BY <4>1, <3>1 DEF CallOK, AskOK, Asking, Queued, ComputeOK, Computing, ReleaseOK
      <4>3. HoldOK(d)'
        BY <3>2, <3>4 DEF HoldOK
      <4> QED BY <4>2, <4>3 DEF CallOK
    <3> QED BY <3>3, <3>4
  <2> QED BY <2>2, <2>3, <2>4, <2>5 DEF SessionInv
<1> QED BY <1>1, <1>4, <1>5

LEMMA OnDisconnectInv == ASSUME SessionInv, NEW t \in Tab, OnDisconnect(t) PROVE SessionInv'
<1>1. Takes(t, "disconnect") /\ DisconnectPort(t) /\ UNCHANGED <<running, tab, phase>>
  BY DEF OnDisconnect
<1> QED BY <1>1, Handled, DisconnectInv

LEMMA ReapInv == ASSUME SessionInv, NEW t \in Tab, Reap(t) PROVE SessionInv'
<1>1. DisconnectPort(t) /\ UNCHANGED <<running, tab, phase, toRouter>> /\ Box(toRouter, ToRouter)
  BY DEF Reap, SessionInv
<1>2. /\ Box(toRouter', ToRouter)
      /\ \A d \in Call : \A k : /\ Has(toRouter', d, k) => Has(toRouter, d, k)
                                /\ Once(toRouter, d, k) => Once(toRouter', d, k)
  BY <1>1
<1> QED BY <1>1, <1>2, DisconnectInv

LEMMA StutterInv == ASSUME SessionInv, UNCHANGED vars PROVE SessionInv'
<1>1. /\ UNCHANGED <<ports, active, queue, pending, running, tab, phase, toRouter, toTab>>
  BY DEF vars, router, core, channels
<1>2. TypeOK' /\ TabsOK' /\ Box(toRouter, ToRouter)' /\ Box(toTab, ToTab)'
  BY <1>1 DEF SessionInv, TypeOK, TabsOK
<1>3. ASSUME NEW d \in Call PROVE CallOK(d)'
  BY <1>1, OtherCall
<1> QED BY <1>2, <1>3 DEF SessionInv

LEMMA SessionInvariance == Spec => []SessionInv
<1>1. SessionInv /\ [Next]_vars => SessionInv'
  <2> SUFFICES ASSUME SessionInv, [Next]_vars PROVE SessionInv'
    OBVIOUS
  <2>1. ASSUME NEW t \in Tab, Receive(t) \/ PageHide(t) \/ Kill(t) \/ Handle(t) \/ Reap(t)
        PROVE  SessionInv'
    BY <2>1, ReceiveInv, LeavesInv, OnAcquireInv, OnReleaseInv, OnCancelInv, OnRpcInv,
       OnDisconnectInv, ReapInv DEF Handle
  <2>2. ASSUME NEW c \in Call,
               Acquire(c) \/ Abort(c) \/ AcquireAborted(c) \/ Rpc(c) \/ Release(c) \/ CoreDone(c)
        PROVE  SessionInv'
    BY <2>2, AcquireInv, AbortInv, AcquireAbortedInv, RpcInv, ReleaseInv, CoreDoneInv
  <2> QED BY <2>1, <2>2, StutterInv DEF Next
<1> QED BY <1>1, InitSession, PTL DEF Spec

\* The router's tables and the tabs' calls are what the code declares them to be,
\* and a waiter is in the queue once.
THEOREM SessionTypes == Spec => []TypeOK
<1>1. SessionInv => TypeOK
  BY DEF SessionInv
<1> QED BY <1>1, SessionInvariance, PTL

\* Two calls never both believe that they hold the session, however grants,
\* releases, aborts and disconnects cross.
THEOREM SessionExclusive == Spec => []Exclusive
<1>1. SessionInv => Exclusive
  <2> SUFFICES ASSUME SessionInv, NEW c \in Call, NEW d \in Call, Believes(c), Believes(d),
                      owner[c] \in ports, owner[d] \in ports
               PROVE  c = d
    BY DEF Exclusive
  <2> QED BY DEF SessionInv, CallOK, HoldOK
<1> QED BY <1>1, SessionInvariance, PTL

\* A session that was granted is in use, on its way there or on its way back, but
\* for the two ways of losing it that the code has.
THEOREM SessionLostOnlyTwoWays == Spec => []LostOnlyTwoWays
<1>1. SessionInv => LostOnlyTwoWays
  <2> SUFFICES ASSUME SessionInv, active # NoCall, tab[owner[active]] # "closed",
                      owner[active] \in ports, phase[active] # "abandoned"
               PROVE  InUse(active)
    BY DEF LostOnlyTwoWays
  <2>1. active \in Call /\ phase[active] \in Phase /\ phase[active] # "gone"
    BY DEF SessionInv, TypeOK, TabsOK
  <2>2. phase[active] \notin {"idle", "refused", "done"}
    BY <2>1 DEF SessionInv, CallOK, ReleaseOK
  <2>3. phase[active] \in {"asked", "aborting"} => Has(toTab, active, "granted")
    BY <2>1 DEF SessionInv, CallOK, HoldOK
  <2> QED BY <2>1, <2>2, <2>3 DEF InUse, Believes, Phase, Has, ToSet
<1> QED BY <1>1, SessionInvariance, PTL

--------------------------------------------------------------------------------
(* The router and the tabs implement SessionLine.                           *)

\* Who is told has a port, and while the session is free nobody waits for it.
LineInv == /\ active = NoCall => queue = <<>>
           /\ Told => owner[active] \in ports

LEMMA ArbiterLists ==
  \A q, S : Arbiter!Without(q, S) = Without(q, S)
BY DEF Without, Arbiter!Without, Cardinality, Arbiter!Cardinality

LEMMA LeavesTheLine ==
  ASSUME NEW S \in SUBSET Call, Line' = Without(Line, S), Holding' = Holding \ S,
         Joined \subseteq Joined'
  PROVE  Arbiter!Next
<1>1. Arbiter!Leave(S) BY ArbiterLists DEF Arbiter!Leave
<1> QED BY <1>1 DEF Arbiter!Next

\* Who stands where: a call that was told is not in the queue, nobody in the line
\* holds the session, and whoever holds it is the one the router says.
LEMMA Places ==
  ASSUME SessionInv
  PROVE  /\ queue \in Seq(Call) /\ IsInjective(queue) /\ ToSet(queue) \subseteq Call
         /\ Line \in Seq(Call)
         /\ Told => active \in Call /\ phase[active] \in {"asked", "aborting", "abandoned"}
         /\ ToSet(Line) = ToSet(queue) \union (IF Told THEN {active} ELSE {})
         /\ \A c \in ToSet(queue) : active # c /\ phase[c] \in {"asked", "aborting", "abandoned", "gone"}
         /\ \A c \in ToSet(Line) : c \notin Holding
         /\ \A c \in Holding : active = c
<1>1. queue \in Seq(Call) /\ IsInjective(queue) /\ active \in Call \union {NoCall}
  BY DEF SessionInv, TypeOK
<1>2. ToSet(queue) \subseteq Call
  BY <1>1, LenProperties, ElementOfSeq DEF ToSet
<1>3. Told => active \in Call /\ Has(toTab, active, "granted")
  BY <1>1 DEF Told, Has
<1>4. Told => phase[active] \in {"asked", "aborting", "abandoned"}
  <2> SUFFICES ASSUME Told PROVE phase[active] \in {"asked", "aborting", "abandoned"}
    OBVIOUS
  <2>1. phase[active] \in {"asked", "aborting", "abandoned", "gone"}
    BY <1>3 DEF SessionInv, CallOK, AskOK, Asking
  <2> QED BY <2>1, <1>3, GoneSilent
<1>5. /\ Line \in Seq(Call)
      /\ ToSet(Line) = ToSet(queue) \union (IF Told THEN {active} ELSE {})
  <2>1. CASE Told BY <2>1, <1>1, <1>3, InFront DEF Line
  <2>2. CASE ~Told BY <2>2, <1>1 DEF Line
  <2> QED BY <2>1, <2>2
<1>6. \A c \in ToSet(queue) : active # c /\ phase[c] \in {"asked", "aborting", "abandoned", "gone"}
  BY <1>2, Unserved DEF Queued
<1>7. \A c \in ToSet(Line) : c \notin Holding
  BY <1>4, <1>5, <1>6 DEF Holding, Believes
<1>8. \A c \in Holding : active = c
  BY DEF SessionInv, CallOK, HoldOK, Holding
<1> QED BY <1>1, <1>2, <1>3, <1>4, <1>5, <1>6, <1>7, <1>8

\* A step that nobody in the line or with the session notices.
LEMMA LineStays ==
  ASSUME LineInv, ports' = ports, active' = active, queue' = queue, Told' <=> Told,
         Holding' = Holding, Joined' = Joined
  PROVE  LineInv' /\ UNCHANGED Arbiter!vars
<1>1. LineInv' BY DEF LineInv
<1>2. Line' = Line BY DEF Line
<1> QED BY <1>1, <1>2 DEF Arbiter!vars

\* A message taken off a port changes what has joined only if it is an acquire.
LEMMA JoinsByAcquire ==
  ASSUME SessionInv, NEW t \in Tab, NEW kind, Takes(t, kind), phase' = phase
  PROVE  /\ kind # "acquire" => Joined' = Joined
         /\ kind = "acquire" =>
              LET c == Head(toRouter[t]).call IN
              /\ c \in Call /\ owner[c] = t /\ c \notin Joined /\ Joined' = Joined \union {c}
              /\ phase[c] \in {"asked", "aborting", "abandoned", "gone"}
              /\ ~Queued(c) /\ active # c /\ ~Has(toTab, c, "granted")
<1> DEFINE m == Head(toRouter[t])
<1>1. /\ Box(toRouter, ToRouter) /\ toRouter[t] # <<>> /\ toRouter' = Taken(toRouter, t)
      /\ m.kind = kind
  BY DEF SessionInv, Takes, Taken
<1>2. /\ m \in ToRouter[t]
      /\ \A c \in Call : \A k :
           /\ Has(toRouter, c, k) <=> Has(toRouter', c, k) \/ (owner[c] = t /\ m = Msg(k, c))
           /\ Once(toRouter, c, k) /\ owner[c] = t /\ m = Msg(k, c) => ~Has(toRouter', c, k)
  BY <1>1, Received
<1> HIDE DEF m
<1>3. /\ Joined = {c \in Call : phase[c] # "idle" /\ ~Has(toRouter, c, "acquire")}
      /\ Joined' = {c \in Call : phase[c] # "idle" /\ ~Has(toRouter', c, "acquire")}
  BY DEF Joined, Has
<1>4. CASE kind # "acquire"
  <2>1. \A c \in Call : m # Msg("acquire", c) BY <1>1, <1>4 DEF Msg
  <2> QED BY <2>1, <1>2, <1>3, <1>4
<1>5. CASE kind = "acquire"
  <2>1. m.call \in Call /\ owner[m.call] = t /\ m = Msg("acquire", m.call)
    BY <1>1, <1>2, <1>5 DEF ToRouter, CallsOf, Msg
  <2>2. Has(toRouter, m.call, "acquire") BY <2>1, <1>2
  <2>3. CallOK(m.call) BY <2>1 DEF SessionInv
  <2>4. /\ phase[m.call] \in {"asked", "aborting", "abandoned", "gone"}
        /\ ~Queued(m.call) /\ active # m.call /\ ~Has(toTab, m.call, "granted")
        /\ Once(toRouter, m.call, "acquire")
    BY <2>2, <2>3 DEF CallOK, AskOK, Asking
  <2>5. ~Has(toRouter', m.call, "acquire") BY <2>1, <2>4, <1>2
  <2>6. \A c \in Call \ {m.call} : m # Msg("acquire", c) BY <2>1, MessagesDiffer
  <2>7. Joined' = Joined \union {m.call} BY <2>1, <2>4, <2>5, <2>6, <1>2, <1>3
  <2>8. m.call \notin Joined BY <2>2, <1>3
  <2> QED BY <2>1, <2>4, <2>7, <2>8, <1>5 DEF m
<1> QED BY <1>4, <1>5

LEMMA TabSendsLine ==
  ASSUME SessionInv, LineInv, NEW c \in Call,
         Acquire(c) \/ Abort(c) \/ AcquireAborted(c) \/ Rpc(c)
  PROVE  LineInv' /\ UNCHANGED Arbiter!vars
<1>1. /\ UNCHANGED <<ports, active, queue, tab, toTab>>
      /\ \E to : /\ phase' = [phase EXCEPT ![c] = to]
                 /\ \/ phase[c] = "idle" /\ to \in {"asked", "abandoned"}
                    \/ phase[c] = "asked" /\ to = "aborting"
                    \/ phase[c] = "holding" /\ to = "calling"
  BY DEF Acquire, Abort, AcquireAborted, Rpc, Becomes, router
<1>2. PICK to : /\ phase' = [phase EXCEPT ![c] = to]
                /\ \/ phase[c] = "idle" /\ to \in {"asked", "abandoned"}
                   \/ phase[c] = "asked" /\ to = "aborting"
                   \/ phase[c] = "holding" /\ to = "calling"
  BY <1>1
<1>3. /\ owner[c] \in Tab /\ Box(toRouter, ToRouter) /\ phase \in [Call -> Phase]
      /\ Msg("acquire", c) \in ToRouter[owner[c]] /\ Msg("cancel", c) \in ToRouter[owner[c]]
      /\ Msg("rpc", c) \in ToRouter[owner[c]]
  BY OwnerIsATab DEF SessionInv, TypeOK, ToRouter, CallsOf, Msg
<1>4. \A d \in Call : /\ d # c => (Has(toRouter', d, "acquire") <=> Has(toRouter, d, "acquire"))
                      /\ Has(toRouter, d, "acquire") => Has(toRouter', d, "acquire")
  <2>1. CASE AcquireAborted(c)
    <3> DEFINE f == Post(toRouter, owner[c], Msg("acquire", c))
    <3>1. toRouter' = Post(f, owner[c], Msg("cancel", c)) BY <2>1 DEF AcquireAborted
    <3>2. /\ Box(f, ToRouter)
          /\ \A d \in Call : \A k : Has(f, d, k) <=>
               Has(toRouter, d, k) \/ (owner[d] = owner[c] /\ Msg("acquire", c) = Msg(k, d))
      BY <1>3, Posted
    <3> HIDE DEF f
    <3>3. \A d \in Call : \A k : Has(toRouter', d, k) <=>
            Has(f, d, k) \/ (owner[d] = owner[c] /\ Msg("cancel", c) = Msg(k, d))
      BY <3>1, <3>2, <1>3, Posted
    <3> QED BY <3>2, <3>3, MessagesDiffer
  <2>2. ASSUME NEW k \in {"acquire", "cancel", "rpc"}, Posts(owner[c], Msg(k, c))
        PROVE  \A d \in Call :
                 /\ d # c => (Has(toRouter', d, "acquire") <=> Has(toRouter, d, "acquire"))
                 /\ Has(toRouter, d, "acquire") => Has(toRouter', d, "acquire")
    <3>1. Msg(k, c) \in ToRouter[owner[c]] /\ toRouter' = Post(toRouter, owner[c], Msg(k, c))
      BY <2>2, <1>3 DEF Posts
    <3>2. \A d \in Call : \A l : Has(toRouter', d, l) <=>
            Has(toRouter, d, l) \/ (owner[d] = owner[c] /\ Msg(k, c) = Msg(l, d))
      BY <3>1, <1>3, Posted
    <3> QED BY <3>2, MessagesDiffer
  <2> QED BY <2>1, <2>2 DEF Acquire, Abort, Rpc
<1>5. phase[c] = "idle" => Has(toRouter', c, "acquire")
  <2> SUFFICES ASSUME phase[c] = "idle" PROVE Has(toRouter', c, "acquire")
    OBVIOUS
  <2>1. Acquire(c) \/ AcquireAborted(c) BY DEF Abort, Rpc, Becomes
  <2>2. CASE Acquire(c)
    <3>1. toRouter' = Post(toRouter, owner[c], Msg("acquire", c)) BY <2>2 DEF Acquire, Posts
    <3> QED BY <3>1, <1>3, Posted
  <2>3. CASE AcquireAborted(c)
    <3> DEFINE f == Post(toRouter, owner[c], Msg("acquire", c))
    <3>1. toRouter' = Post(f, owner[c], Msg("cancel", c)) BY <2>3 DEF AcquireAborted
    <3>2. Box(f, ToRouter) /\ Has(f, c, "acquire") BY <1>3, Posted
    <3> HIDE DEF f
    <3> QED BY <3>1, <3>2, <1>3, Posted
  <2> QED BY <2>1, <2>2, <2>3
<1>6. Joined' = Joined
  <2>1. /\ Joined = {d \in Call : phase[d] # "idle" /\ ~Has(toRouter, d, "acquire")}
        /\ Joined' = {d \in Call : phase'[d] # "idle" /\ ~Has(toRouter', d, "acquire")}
    BY DEF Joined, Has
  <2>2. ASSUME NEW d \in Call
        PROVE  phase'[d] # "idle" /\ ~Has(toRouter', d, "acquire")
                 <=> phase[d] # "idle" /\ ~Has(toRouter, d, "acquire")
    <3>1. CASE d # c BY <3>1, <1>2, <1>3, <1>4
    <3>2. CASE d = c /\ phase[c] = "idle" BY <3>2, <1>5
    <3>3. CASE d = c /\ phase[c] \in {"asked", "holding"}
      <4>1. phase'[c] # "idle" BY <3>3, <1>2, <1>3
      <4>2. Has(toRouter', c, "acquire") <=> Has(toRouter, c, "acquire")
        <5>1. Posts(owner[c], Msg("cancel", c)) \/ Posts(owner[c], Msg("rpc", c))
          BY <3>3 DEF Acquire, Abort, AcquireAborted, Rpc, Becomes
        <5>2. PICK k \in {"cancel", "rpc"} : toRouter' = Post(toRouter, owner[c], Msg(k, c))
          BY <5>1 DEF Posts
        <5>3. Msg(k, c) \in ToRouter[owner[c]] BY <1>3
        <5>4. Has(toRouter', c, "acquire") <=>
                Has(toRouter, c, "acquire") \/ (owner[c] = owner[c] /\ Msg(k, c) = Msg("acquire", c))
          BY <5>2, <5>3, <1>3, Posted
        <5> QED BY <5>4, MessagesDiffer
      <4> QED BY <3>3, <4>1, <4>2
    <3> QED BY <3>1, <3>2, <3>3, <1>2
  <2> QED BY <2>1, <2>2
<1>7. Holding' = Holding
  <2>1. \A d \in Call : Believes(d)' <=> Believes(d) BY <1>2, <1>3 DEF Believes
  <2> QED BY <2>1, <1>1 DEF Holding
<1>8. Told' <=> Told BY <1>1 DEF Told
<1> QED BY <1>1, <1>6, <1>7, <1>8, LineStays

LEMMA ReleaseLine ==
  ASSUME SessionInv, LineInv, NEW c \in Call, Release(c)
  PROVE  LineInv' /\ Arbiter!Next
<1>1. /\ UNCHANGED <<ports, active, queue, tab, toTab>> /\ phase[c] \in {"holding", "called"}
      /\ phase' = [phase EXCEPT ![c] = "releasing"]
      /\ toRouter' = Post(toRouter, owner[c], Msg("release", c))
  BY DEF Release, Becomes, Posts, router
<1>2. /\ owner[c] \in Tab /\ Box(toRouter, ToRouter) /\ phase \in [Call -> Phase]
      /\ Msg("release", c) \in ToRouter[owner[c]]
  BY OwnerIsATab DEF SessionInv, TypeOK, ToRouter, CallsOf, Msg
<1>3. \A d \in Call : Has(toRouter', d, "acquire") <=> Has(toRouter, d, "acquire")
  <2>1. \A d \in Call : Has(toRouter', d, "acquire") <=> Has(toRouter, d, "acquire")
                          \/ (owner[d] = owner[c] /\ Msg("release", c) = Msg("acquire", d))
    BY <1>1, <1>2, Posted
  <2> QED BY <2>1, MessagesDiffer
<1>4. Joined' = Joined
  <2>1. /\ Joined = {d \in Call : phase[d] # "idle" /\ ~Has(toRouter, d, "acquire")}
        /\ Joined' = {d \in Call : phase'[d] # "idle" /\ ~Has(toRouter', d, "acquire")}
    BY DEF Joined, Has
  <2>2. \A d \in Call : phase'[d] # "idle" <=> phase[d] # "idle" BY <1>1, <1>2
  <2> QED BY <2>1, <2>2, <1>3
<1>5. Holding' = Holding \ {c}
  <2>1. \A d \in Call : Believes(d)' <=> Believes(d) /\ d # c BY <1>1, <1>2 DEF Believes
  <2> QED BY <2>1, <1>1 DEF Holding
<1>6. (Told' <=> Told) /\ Line' = Line /\ LineInv' BY <1>1 DEF Told, Line, LineInv
<1>7. c \notin ToSet(Line) /\ Line \in Seq(Call)
  <2>1. \A d \in ToSet(Line) : phase[d] \in {"asked", "aborting", "abandoned", "gone"} BY Places
  <2> QED BY <2>1, <1>1, Places
<1>8. Without(Line, {c}) = Line BY <1>7, WithoutNone
<1> QED BY <1>4, <1>5, <1>6, <1>8, LeavesTheLine

\* The head of the line hears that it has the session; or a call hears what changes
\* neither the line nor who holds the session.
LEMMA ReceiveLine ==
  ASSUME SessionInv, LineInv, NEW t \in Tab, Receive(t)
  PROVE  LineInv' /\ (Arbiter!Next \/ UNCHANGED Arbiter!vars)
<1> DEFINE h == Head(toTab[t]).call
           kind == Head(toTab[t]).kind
<1>1. /\ tab[t] = "open" /\ UNCHANGED <<ports, active, queue, tab, toRouter>>
      /\ phase' = [phase EXCEPT ![h] = IF @ \in Waiting THEN Settled[kind] ELSE @]
  BY DEF Receive, router, core
<1>2. /\ h \in Call /\ owner[h] = t /\ kind \in DOMAIN Settled
      /\ \A c \in Call : \A k : Has(toTab, c, k) <=> Has(toTab', c, k) \/ (c = h /\ k = kind)
      /\ Once(toTab, h, kind) => ~Has(toTab', h, kind)
  <2> DEFINE m == Head(toTab[t])
  <2>1. Box(toTab, ToTab) /\ toTab[t] # <<>> /\ toTab' = Taken(toTab, t)
    BY DEF SessionInv, Receive, Taken
  <2>2. /\ m \in ToTab[t]
        /\ \A c \in Call : \A k :
             /\ Has(toTab, c, k) <=> Has(toTab', c, k) \/ (owner[c] = t /\ m = Msg(k, c))
             /\ Once(toTab, c, k) /\ owner[c] = t /\ m = Msg(k, c) => ~Has(toTab', c, k)
    BY <2>1, Received
  <2>3. m.call \in Call /\ owner[m.call] = t /\ m.kind \in DOMAIN Settled /\ m = Msg(m.kind, m.call)
    BY <2>2 DEF ToTab, CallsOf, Msg
  <2>4. \A c \in Call : \A k : (owner[c] = t /\ m = Msg(k, c)) <=> (c = m.call /\ k = m.kind)
    BY <2>3, MessagesDiffer
  <2> HIDE DEF m
  <2>5. /\ \A c \in Call : \A k : Has(toTab, c, k) <=> Has(toTab', c, k) \/ (c = m.call /\ k = m.kind)
        /\ Once(toTab, m.call, m.kind) => ~Has(toTab', m.call, m.kind)
    BY <2>2, <2>3, <2>4
  <2> QED BY <2>3, <2>5 DEF m
<1> HIDE DEF h, kind
<1>3. /\ \A c \in Call : c # h => phase'[c] = phase[c]
      /\ phase'[h] = IF phase[h] \in Waiting THEN Settled[kind] ELSE phase[h]
      /\ phase[h] # "gone"
  BY <1>1, <1>2 DEF SessionInv, TypeOK, TabsOK
<1>4. CallOK(h) /\ Has(toTab, h, kind) /\ kind \in {"granted", "aborted", "ok", "refused", "released"}
  BY <1>2 DEF SessionInv, Settled
<1>5. Joined' = Joined
  <2>1. \A c \in Call : phase'[c] # "idle" <=> phase[c] # "idle"
    BY <1>2, <1>3, <1>4 DEF Waiting, Settled
  <2> QED BY <2>1, <1>1 DEF Joined
<1>6. /\ Told <=> active # NoCall /\ Has(toTab, active, "granted")
      /\ Told' <=> active # NoCall /\ Has(toTab', active, "granted")
  BY <1>1 DEF Told, Has
<1>7. active \in Call \union {NoCall} BY DEF SessionInv, TypeOK
<1>8. CASE kind = "granted" /\ t \in ports
  <2>1. active = h /\ Told /\ ~Told' /\ phase[h] \in {"asked", "aborting", "abandoned"}
    <3>1. active = h BY <1>2, <1>4, <1>8 DEF CallOK, HoldOK
    <3>2. Told BY <3>1, <1>2, <1>4, <1>6, <1>8, NoCallIsNone
    <3>3. ~Told' BY <3>1, <1>2, <1>4, <1>6, <1>8 DEF CallOK, AskOK
    <3> QED BY <3>1, <3>2, <3>3, Places
  <2>2. /\ queue \in Seq(Call) /\ h \notin ToSet(queue) /\ h \in ToSet(Line)
        /\ Line = <<h>> \o queue /\ Line' = queue
    <3>1. Line = <<h>> \o queue /\ Line' = queue BY <2>1, <1>1 DEF Line
    <3> QED BY <3>1, <2>1, Places
  <2>3. Head(Line) = h /\ Tail(Line) = queue /\ Line # <<>> BY <2>2, <1>2, InFront
  <2>4. LineInv' BY <2>1, <1>1 DEF LineInv
  <2>5. CASE phase[h] \in {"asked", "aborting"}
    <3>1. Holding = {}
      <4>1. h \notin Holding BY <2>2, Places
      <4> QED BY <4>1, <2>1, Places
    <3>2. phase'[h] = "holding" BY <2>5, <1>3, <1>8 DEF Waiting, Settled
    <3>3. Holding' = {h}
      <4>1. \A c \in Call : c \in Holding' <=> c = h \/ c \in Holding
        BY <3>2, <1>1, <1>2, <1>3, <1>8 DEF Holding, Believes
      <4>2. Holding' \subseteq Call BY DEF Holding
      <4> QED BY <4>1, <4>2, <3>1, <1>2
    <3>4. Arbiter!Take BY <3>1, <3>3, <2>2, <2>3, <1>5 DEF Arbiter!Take
    <3> QED BY <3>4, <2>4 DEF Arbiter!Next
  <2>6. CASE phase[h] = "abandoned"
    <3>1. \A c \in Call : Believes(c)' <=> Believes(c)
      BY <2>6, <1>3 DEF Waiting, Believes
    <3>2. Holding' = Holding BY <3>1, <1>1 DEF Holding
    <3>3. Without(Line, {h}) = queue
      <4>1. Without(Line, {h}) = Without(queue, {h}) BY <2>2, <1>2, WithoutPrepended
      <4>2. Without(queue, {h}) = queue BY <2>2, WithoutNone
      <4> QED BY <4>1, <4>2
    <3>4. Holding' = Holding \ {h} BY <3>2, <2>2, Places
    <3> QED BY <3>3, <3>4, <2>2, <2>4, <1>2, <1>5, LeavesTheLine
  <2> QED BY <2>1, <2>5, <2>6
<1>9. CASE ~(kind = "granted" /\ t \in ports)
  <2>1. Told' <=> Told
    <3>1. kind = "granted" => ~(Told /\ active = h) BY <1>2, <1>9 DEF LineInv
    <3>2. kind = "granted" => active # h
      BY <3>1, <1>2, <1>4, <1>6, NoCallIsNone
    <3> QED BY <3>2, <1>2, <1>6, <1>7
  <2>2. \A c \in Call : Believes(c)' /\ owner[c] \in ports <=> Believes(c) /\ owner[c] \in ports
    <3>1. ASSUME NEW c \in Call, c = h, owner[c] \in ports PROVE Believes(c)' <=> Believes(c)
      <4>1. kind # "granted" BY <3>1, <1>2, <1>9
      <4>2. kind = "refused" => ~Believes(c) /\ ~Believes(c)'
        BY <3>1, <1>3, <1>4 DEF CallOK, ComputeOK, Computing, HoldOK, Believes, Waiting, Settled
      <4>3. kind = "aborted" => ~Believes(c) /\ ~Believes(c)'
        BY <3>1, <1>3, <1>4 DEF CallOK, AskOK, Asking, Believes, Waiting, Settled
      <4>4. kind = "ok" => Believes(c) /\ Believes(c)'
        BY <3>1, <1>3, <1>4 DEF CallOK, ComputeOK, Computing, Believes, Waiting, Settled
      <4>5. kind = "released" => ~Believes(c) /\ ~Believes(c)'
        BY <3>1, <1>3, <1>4 DEF CallOK, ReleaseOK, Over, Believes, Waiting, Settled
      <4> QED BY <4>1, <4>2, <4>3, <4>4, <4>5, <1>4
    <3> QED BY <3>1, <1>3 DEF Believes
  <2>3. Holding' = Holding BY <2>2, <1>1 DEF Holding
  <2> QED BY <2>1, <2>3, <1>1, <1>5, LineStays
<1> QED BY <1>8, <1>9

\* A tab that goes away takes its calls with it, but for those that still wait: they
\* leave when the router hears of it.
LEMMA LeavesLine ==
  ASSUME SessionInv, LineInv, NEW t \in Tab, PageHide(t) \/ Kill(t)
  PROVE  LineInv' /\ Arbiter!Next
<1> DEFINE S == {c \in CallsOf(t) : ~Queued(c)}
<1>1. /\ phase' = [c \in Call |-> IF owner[c] = t THEN "gone" ELSE phase[c]]
      /\ toTab' = [toTab EXCEPT ![t] = <<>>]
      /\ UNCHANGED <<ports, active, queue>>
  BY DEF PageHide, Kill, Leaves, router, core
<1>2. /\ Box(toRouter, ToRouter) /\ Box(toTab, ToTab) /\ phase \in [Call -> Phase]
      /\ active \in Call \union {NoCall}
  BY DEF SessionInv, TypeOK
<1>3. \A c \in Call : Has(toRouter', c, "acquire") => Has(toRouter, c, "acquire")
  <2>1. CASE Posts(t, Msg("disconnect", NoCall))
    <3>1. toRouter' = Post(toRouter, t, Msg("disconnect", NoCall))
          /\ Msg("disconnect", NoCall) \in ToRouter[t]
      BY <2>1 DEF Posts, ToRouter
    <3>2. \A c \in Call : \A k : Msg("disconnect", NoCall) # Msg(k, c)
      BY MessagesDiffer, NoCallIsNone
    <3> QED BY <3>1, <3>2, <1>2, Posted
  <2>2. CASE UNCHANGED toRouter BY <2>2 DEF Has
  <2> QED BY <2>1, <2>2 DEF PageHide, Kill
<1>4. Joined \subseteq Joined'
  <2>1. /\ Joined = {c \in Call : phase[c] # "idle" /\ ~Has(toRouter, c, "acquire")}
        /\ Joined' = {c \in Call : phase'[c] # "idle" /\ ~Has(toRouter', c, "acquire")}
    BY DEF Joined, Has
  <2>2. \A c \in Call : phase[c] # "idle" => phase'[c] # "idle" BY <1>1
  <2> QED BY <2>1, <2>2, <1>3
<1>5. Holding' = Holding \ S
  <2>1. \A c \in Holding : ~Queued(c) BY Places DEF Queued, Holding, Believes
  <2>2. \A c \in Call : Believes(c)' <=> Believes(c) /\ owner[c] # t BY <1>1 DEF Believes
  <2> QED BY <2>1, <2>2, <1>1 DEF Holding, CallsOf
<1>6. /\ active \in Call /\ owner[active] = t => ~Told'
      /\ ~(active \in Call /\ owner[active] = t) => (Told' <=> Told)
  <2>1. /\ toTab'[t] = <<>> /\ \A u \in Tab : u # t => toTab'[u] = toTab[u]
        /\ active \in Call => owner[active] \in Tab
    BY <1>1, <1>2, OwnerIsATab DEF Box
  <2>2. \A m : m \notin ToSet(<<>>) BY EmptySeq DEF ToSet
  <2> QED BY <2>1, <2>2, <1>1, <1>2 DEF Told
<1>7. LineInv' BY <1>1, <1>2, <1>6 DEF LineInv, Told
<1>8. Line' = Without(Line, S)
  <2>1. queue \in Seq(Call) /\ ToSet(queue) \intersect S = {} BY Places DEF Queued
  <2>2. Without(queue, S) = queue BY <2>1, WithoutNone
  <2>3. CASE Told /\ owner[active] = t
    <3>1. active \in S BY <2>3, Places DEF Queued, CallsOf
    <3>2. Without(Line, S) = Without(queue, S)
      BY <3>1, <2>1, <2>3, Places, WithoutPrepended DEF Line
    <3> QED BY <3>2, <2>2, <2>3, <1>1, <1>6, Places DEF Line
  <2>4. CASE ~(Told /\ owner[active] = t)
    <3>1. Line' = Line
      <4>1. Told' <=> Told BY <2>4, <1>6
      <4> QED BY <4>1, <1>1 DEF Line
    <3>2. ToSet(Line) \intersect S = {} /\ Line \in Seq(Call)
      BY <2>1, <2>4, Places DEF CallsOf
    <3> QED BY <3>1, <3>2, WithoutNone
  <2> QED BY <2>3, <2>4
<1>9. S \in SUBSET Call BY DEF CallsOf
<1> HIDE DEF S
<1> QED BY <1>4, <1>5, <1>7, <1>8, <1>9, LeavesTheLine

\* Whom the router reaches, it has told.
LEMMA ToldBy ==
  ASSUME UNCHANGED <<tab, phase>>
  PROVE  /\ Told <=> active # NoCall /\ Has(toTab, active, "granted")
         /\ Told' <=> active' # NoCall /\ Has(toTab', active', "granted")
         /\ ports' = ports => Holding' = Holding
BY DEF Told, Has, Holding, Believes

\* Whoever asks goes to the end of the line, unless it is given the session and is
\* not there to hear of it.
LEMMA OnAcquireLine ==
  ASSUME SessionInv, LineInv, NEW t \in Tab, OnAcquire(t)
  PROVE  LineInv' /\ Arbiter!Next
<1> DEFINE c == Head(toRouter[t]).call
<1>1. /\ Takes(t, "acquire") /\ UNCHANGED <<ports, tab, phase>> /\ t \in ports
      /\ \/ active = NoCall /\ active' = c /\ queue' = queue /\ toTab' = Reply(toTab, "granted", c, ports)
         \/ active # NoCall /\ active' = active /\ queue' = Append(queue, c) /\ toTab' = toTab
  BY DEF OnAcquire, Takes
<1>2. /\ c \in Call /\ owner[c] = t /\ c \notin Joined /\ Joined' = Joined \union {c}
      /\ active # c /\ ~Has(toTab, c, "granted")
  BY <1>1, JoinsByAcquire
<1> HIDE DEF c
<1>3. /\ Told <=> active # NoCall /\ Has(toTab, active, "granted")
      /\ Told' <=> active' # NoCall /\ Has(toTab', active', "granted")
      /\ Holding' = Holding
  BY <1>1, ToldBy
<1>4. CASE active = NoCall /\ active' = c /\ queue' = queue /\ toTab' = Reply(toTab, "granted", c, ports)
  <2>1. Line = <<>> /\ queue = <<>> BY <1>3, <1>4 DEF LineInv, Line
  <2>2. Told' <=> Hears(c, ports)
    <3>1. "granted" \in DOMAIN Settled /\ Box(toTab, ToTab) BY DEF Settled, SessionInv
    <3>2. Has(toTab', c, "granted") <=> Has(toTab, c, "granted") \/ Hears(c, ports)
      BY <3>1, <1>2, <1>4, Replied
    <3> QED BY <3>2, <1>2, <1>3, <1>4, NoCallIsNone
  <2>3. LineInv' BY <2>2, <1>1, <1>2, <1>4, NoCallIsNone DEF LineInv
  <2>4. CASE Told'
    <3>1. Line' = <<c>> \o queue BY <2>4, <1>4 DEF Line
    <3>2. Line' = Append(Line, c) BY <3>1, <2>1
    <3>3. Arbiter!Join(c) BY <3>2, <1>2, <1>3 DEF Arbiter!Join
    <3> QED BY <3>3, <2>3, <1>2 DEF Arbiter!Next
  <2>5. CASE ~Told'
    <3>1. Line' = <<>> BY <2>1, <2>5, <1>4 DEF Line
    <3>2. Line' = Without(Line, {c}) BY <3>1, <2>1, WithoutNothing
    <3>3. Holding' = Holding \ {c} BY <1>2, <1>3, Places
    <3> QED BY <3>2, <3>3, <2>3, <1>2, LeavesTheLine
  <2> QED BY <2>4, <2>5
<1>5. CASE active # NoCall /\ active' = active /\ queue' = Append(queue, c) /\ toTab' = toTab
  <2>1. Told' <=> Told BY <1>3, <1>5
  <2>2. LineInv' BY <2>1, <1>1, <1>5 DEF LineInv
  <2>3. Line' = Append(Line, c)
    <3>1. CASE Told
      <4>1. queue \in Seq(Call) /\ active \in Call BY <3>1, Places
      <4>2. Append(<<active>> \o queue, c) = <<active>> \o Append(queue, c) BY <4>1, <1>2, InFront
      <4> QED BY <3>1, <4>2, <2>1, <1>5 DEF Line
    <3>2. CASE ~Told BY <3>2, <2>1, <1>5 DEF Line
    <3> QED BY <3>1, <3>2
  <2>4. Arbiter!Join(c) BY <2>3, <1>2, <1>3 DEF Arbiter!Join
  <2> QED BY <2>2, <2>4, <1>2 DEF Arbiter!Next
<1> QED BY <1>1, <1>4, <1>5

\* A call that is given up leaves the line, wherever it stands.
LEMMA OnCancelLine ==
  ASSUME SessionInv, LineInv, NEW t \in Tab, OnCancel(t)
  PROVE  LineInv' /\ (Arbiter!Next \/ UNCHANGED Arbiter!vars)
<1> DEFINE c == Head(toRouter[t]).call
<1>1. /\ Takes(t, "cancel") /\ UNCHANGED <<ports, active, tab, phase>>
      /\ \/ /\ Contains(queue, c) /\ queue' = Without(queue, {c})
            /\ toTab' = Reply(toTab, "aborted", c, ports)
         \/ UNCHANGED <<queue, toTab>>
  BY DEF OnCancel
<1>2. c \in Call BY <1>1, Handled
<1>3. Joined' = Joined BY <1>1, JoinsByAcquire
<1>4. /\ Told <=> active # NoCall /\ Has(toTab, active, "granted")
      /\ Told' <=> active # NoCall /\ Has(toTab', active, "granted")
      /\ Holding' = Holding
  BY <1>1, ToldBy
<1>5. active \in Call \union {NoCall} BY DEF SessionInv, TypeOK
<1> HIDE DEF c
<1>6. CASE Contains(queue, c) /\ queue' = Without(queue, {c}) /\ toTab' = Reply(toTab, "aborted", c, ports)
  <2>1. queue \in Seq(Call) /\ c \in ToSet(queue) BY <1>6, Places DEF Contains, ToSet
  <2>2. active # c /\ phase[c] \in {"asked", "aborting", "abandoned", "gone"} BY <2>1, Places
  <2>3. Told' <=> Told
    <3>1. "aborted" \in DOMAIN Settled /\ Box(toTab, ToTab) BY DEF Settled, SessionInv
    <3>2. \A d \in Call : Has(toTab', d, "granted") <=> Has(toTab, d, "granted")
      BY <3>1, <1>2, <1>6, Replied
    <3> QED BY <3>2, <1>4, <1>5
  <2>4. queue = <<>> => queue' = <<>> BY <1>6, WithoutNothing
  <2>5. LineInv' BY <2>3, <2>4, <1>1 DEF LineInv
  <2>6. Line' = Without(Line, {c})
    <3>1. CASE Told
      <4>1. active \in Call BY <3>1, Places
      <4>2. Without(<<active>> \o queue, {c}) = <<active>> \o Without(queue, {c})
        BY <4>1, <2>1, <2>2, WithoutPrepended
      <4> QED BY <3>1, <4>2, <2>3, <1>1, <1>6 DEF Line
    <3>2. CASE ~Told BY <3>2, <2>3, <1>6 DEF Line
    <3> QED BY <3>1, <3>2
  <2>7. Holding' = Holding \ {c} BY <2>2, <1>4, Places
  <2> QED BY <2>5, <2>6, <2>7, <1>2, <1>3, LeavesTheLine
<1>7. CASE UNCHANGED <<queue, toTab>>
  <2>1. Told' <=> Told BY <1>4, <1>7
  <2> QED BY <2>1, <1>1, <1>3, <1>4, <1>7, LineStays
<1> QED BY <1>1, <1>6, <1>7

\* The core's answers and refusals are no business of the line.
LEMMA AnswersLine ==
  ASSUME SessionInv, LineInv, NEW c \in Call \union {NoCall}, NEW kind \in DOMAIN Settled \ {"granted"},
         UNCHANGED <<ports, active, queue, tab, phase>>, Joined' = Joined,
         toTab' = toTab \/ toTab' = Reply(toTab, kind, c, ports)
  PROVE  LineInv' /\ UNCHANGED Arbiter!vars
<1>1. Box(toTab, ToTab) /\ active \in Call \union {NoCall} BY DEF SessionInv, TypeOK
<1>2. \A d \in Call : Has(toTab', d, "granted") <=> Has(toTab, d, "granted")
  <2>1. CASE toTab' = toTab BY <2>1 DEF Has
  <2>2. CASE toTab' = Reply(toTab, kind, c, ports) BY <2>2, <1>1, Replied
  <2> QED BY <2>1, <2>2
<1>3. Told' <=> Told BY <1>1, <1>2, ToldBy
<1> QED BY <1>3, LineStays, ToldBy

LEMMA OnRpcLine ==
  ASSUME SessionInv, LineInv, NEW t \in Tab, OnRpc(t)
  PROVE  LineInv' /\ UNCHANGED Arbiter!vars
<1> DEFINE c == Head(toRouter[t]).call
<1>1. /\ Takes(t, "rpc") /\ UNCHANGED <<ports, active, queue, tab, phase>>
      /\ toTab' = toTab \/ toTab' = Reply(toTab, "refused", c, ports)
  BY DEF OnRpc, router
<1>2. c \in Call BY <1>1, Handled
<1>3. Joined' = Joined BY <1>1, JoinsByAcquire
<1> HIDE DEF c
<1>4. "refused" \in DOMAIN Settled \ {"granted"} BY DEF Settled
<1> QED BY <1>1, <1>2, <1>3, <1>4, AnswersLine

LEMMA CoreDoneLine ==
  ASSUME SessionInv, LineInv, NEW c \in Call, CoreDone(c)
  PROVE  LineInv' /\ UNCHANGED Arbiter!vars
<1>1. /\ UNCHANGED <<ports, active, queue, tab, phase, toRouter>>
      /\ toTab' = toTab \/ toTab' = Reply(toTab, "ok", c, ports)
  BY DEF CoreDone, router
<1>2. Joined' = Joined BY <1>1 DEF Joined
<1>3. "ok" \in DOMAIN Settled \ {"granted"} BY DEF Settled
<1> QED BY <1>1, <1>2, <1>3, AnswersLine

\* The head of the line is told when the session is given back; it leaves the line if
\* it is not there to hear of it.
LEMMA OnReleaseLine ==
  ASSUME SessionInv, LineInv, NEW t \in Tab, OnRelease(t)
  PROVE  LineInv' /\ (Arbiter!Next \/ UNCHANGED Arbiter!vars)
<1> DEFINE c == Head(toRouter[t]).call
           w == Woken(queue)
           f == Reply(toTab, "released", c, ports)
<1>1. /\ Takes(t, "release") /\ UNCHANGED <<ports, tab, phase>>
      /\ \/ active = c /\ active' = w /\ queue' = Rest(queue) /\ toTab' = Reply(f, "granted", w, ports)
         \/ active # c /\ UNCHANGED <<active, queue>> /\ toTab' = f
  BY DEF OnRelease
<1>2. c \in Call /\ Has(toRouter, c, "release") BY <1>1, Handled
<1>3. Joined' = Joined BY <1>1, JoinsByAcquire
<1>4. /\ "released" \in DOMAIN Settled \ {"granted"} /\ "granted" \in DOMAIN Settled
      /\ Box(toTab, ToTab)
  BY DEF Settled, SessionInv
<1>5. Box(f, ToTab) /\ \A d \in Call : Has(f, d, "granted") <=> Has(toTab, d, "granted")
  BY <1>2, <1>4, Replied
<1> HIDE DEF c
<1>6. CASE active # c /\ UNCHANGED <<active, queue>> /\ toTab' = f
  BY <1>1, <1>2, <1>3, <1>4, <1>6, AnswersLine
<1> HIDE DEF f
<1>7. CASE active = c /\ active' = w /\ queue' = Rest(queue) /\ toTab' = Reply(f, "granted", w, ports)
  <2>1. /\ Told <=> active # NoCall /\ Has(toTab, active, "granted")
        /\ Told' <=> active' # NoCall /\ Has(toTab', active', "granted")
        /\ Holding' = Holding
    BY <1>1, ToldBy
  <2>2. ~Told /\ Line = queue
    <3>1. phase[c] \in Over BY <1>2 DEF SessionInv, CallOK, ReleaseOK
    <3>2. ~Told BY <3>1, <1>7, Places DEF Over
    <3> QED BY <3>2 DEF Line
  <2>3. CASE queue = <<>>
    <3>1. active' = NoCall /\ queue' = <<>> BY <2>3, <1>7 DEF Woken, Rest
    <3>2. ~Told' /\ Line' = Line BY <3>1, <2>1, <2>2, <2>3 DEF Line
    <3> QED BY <3>1, <3>2, <2>1, <1>3 DEF LineInv, Arbiter!vars
  <2>4. CASE queue # <<>>
    <3>1. w = Head(queue) /\ queue' = Tail(queue) BY <2>4, <1>7 DEF Woken, Rest
    <3>2. /\ queue \in Seq(Call) /\ IsInjective(queue) /\ w \in Call
          /\ queue = <<w>> \o Tail(queue) /\ w \in ToSet(queue)
      <4>1. queue \in Seq(Call) /\ IsInjective(queue) BY Places
      <4>2. queue = <<Head(queue)>> \o Tail(queue) /\ Head(queue) \in Call BY <4>1, <2>4, HeadInFront
      <4>3. Head(queue) \in ToSet(queue) BY <4>1, <2>4, Shortened
      <4> QED BY <3>1, <4>1, <4>2, <4>3
    <3>3. ~Has(toTab, w, "granted") /\ w \notin Holding
      <4>1. ~Has(toTab, w, "granted") BY <3>2, <1>4, Unserved DEF Queued
      <4>2. w \in ToSet(Line) BY <3>2, <2>2
      <4> QED BY <4>1, <4>2, Places
    <3> HIDE DEF w
    <3>4. Told' <=> Hears(w, ports)
      <4>1. Has(toTab', w, "granted") <=> Has(f, w, "granted") \/ Hears(w, ports)
        BY <3>2, <1>4, <1>5, <1>7, Replied
      <4> QED BY <4>1, <3>2, <3>3, <2>1, <1>5, <1>7, NoCallIsNone
    <3>5. LineInv' BY <3>2, <3>4, <1>1, <1>7, NoCallIsNone DEF LineInv, Hears
    <3>6. CASE Told'
      <4>1. Line' = Line BY <3>1, <3>2, <3>6, <2>2, <1>7 DEF Line
      <4> QED BY <4>1, <3>5, <2>1, <1>3 DEF Arbiter!vars
    <3>7. CASE ~Told'
      <4>1. Line' = Tail(queue) BY <3>1, <3>7 DEF Line
      <4>2. \A i, k \in DOMAIN queue : i < k => queue[i] # queue[k]
        BY <3>2, LenProperties DEF IsInjective
      <4>3. Line' = Without(Line, {w}) BY <4>1, <4>2, <3>1, <3>2, <2>2, <2>4, WithoutFirst
      <4>4. Holding' = Holding \ {w} BY <3>3, <2>1
      <4> QED BY <4>3, <4>4, <3>2, <3>5, <1>3, LeavesTheLine
    <3> QED BY <3>6, <3>7
  <2> QED BY <2>3, <2>4
<1> QED BY <1>1, <1>6, <1>7

\* A port that goes away takes its calls out of the line and takes the session from
\* the one that holds it; the head of the line is told next.
LEMMA DisconnectLine ==
  ASSUME SessionInv, LineInv, NEW t \in Tab, DisconnectPort(t), UNCHANGED <<tab, phase>>,
         Joined' = Joined
  PROVE  LineInv' /\ Arbiter!Next
<1> DEFINE w == Woken(queue)
           mine == CallsOf(t)
<1>1. /\ ports' = ports \ {t}
      /\ \/ /\ active \in mine /\ active' = w
            /\ queue' = Without(Rest(queue), mine) /\ toTab' = Reply(toTab, "granted", w, ports \ {t})
         \/ active \notin mine /\ active' = active /\ queue' = Without(queue, mine) /\ toTab' = toTab
  BY NoCallIsNone DEF DisconnectPort, Others, CallsOf, SessionInv, TypeOK
<1>2. queue \in Seq(Call) /\ IsInjective(queue) /\ active \in Call \union {NoCall} /\ Box(toTab, ToTab)
  BY DEF SessionInv, TypeOK
<1>3. Holding' = Holding \ mine BY <1>1 DEF Holding, Believes, CallsOf
<1>4. /\ Told <=> active # NoCall /\ Has(toTab, active, "granted")
      /\ Told' <=> active' # NoCall /\ Has(toTab', active', "granted")
  BY ToldBy
<1>5. mine \subseteq Call /\ \A c \in Call : c \in mine <=> owner[c] = t BY DEF CallsOf
<1> HIDE DEF mine, w
<1>6. CASE active \notin mine /\ active' = active /\ queue' = Without(queue, mine) /\ toTab' = toTab
  <2>1. Told' <=> Told BY <1>4, <1>6
  <2>2. queue = <<>> => queue' = <<>> BY <1>6, WithoutNothing
  <2>3. LineInv'
    <3>1. Told => owner[active] \in ports' BY <1>1, <1>5, <1>6, Places DEF LineInv
    <3> QED BY <3>1, <2>1, <2>2, <1>6 DEF LineInv
  <2>4. Line' = Without(Line, mine)
    <3>1. CASE Told
      <4>1. active \in Call BY <3>1, Places
      <4>2. Without(<<active>> \o queue, mine) = <<active>> \o Without(queue, mine)
        BY <4>1, <1>2, <1>6, WithoutPrepended
      <4> QED BY <3>1, <4>2, <2>1, <1>6 DEF Line
    <3>2. CASE ~Told BY <3>2, <2>1, <1>6 DEF Line
    <3> QED BY <3>1, <3>2
  <2> QED BY <2>3, <2>4, <1>3, <1>5, LeavesTheLine
<1>7. CASE /\ active \in mine /\ active' = w
           /\ queue' = Without(Rest(queue), mine) /\ toTab' = Reply(toTab, "granted", w, ports \ {t})
  <2>1. ASSUME NEW S, mine \subseteq S PROVE Without(Line, S) = Without(queue, S)
    <3>1. active \in S /\ active \in Call BY <2>1, <1>5, <1>7
    <3>2. Without(<<active>> \o queue, S) = Without(queue, S) BY <3>1, <1>2, WithoutPrepended
    <3> QED BY <3>2 DEF Line
  <2>2. CASE queue = <<>>
    <3>1. active' = NoCall /\ queue' = <<>>
      BY <2>2, <1>7, WithoutNothing DEF w, Woken, Rest
    <3>2. Line' = <<>> /\ LineInv' BY <3>1, <1>4 DEF Line, LineInv
    <3>3. Without(Line, mine) = <<>> BY <2>1, <2>2, WithoutNothing
    <3> QED BY <3>2, <3>3, <1>3, <1>5, LeavesTheLine
  <2>3. CASE queue # <<>>
    <3> DEFINE r == Tail(queue)
               S == mine \union (IF Told' THEN {} ELSE {w})
    <3>1. w = Head(queue) /\ queue' = Without(r, mine) BY <2>3, <1>7 DEF w, Woken, Rest
    <3>2. /\ w \in Call /\ r \in Seq(Call) /\ queue = <<w>> \o r
          /\ w \in ToSet(queue) /\ w \notin ToSet(r)
      <4>1. queue = <<Head(queue)>> \o Tail(queue) /\ Head(queue) \in Call /\ Tail(queue) \in Seq(Call)
        BY <1>2, <2>3, HeadInFront
      <4>2. Head(queue) \in ToSet(queue) BY <1>2, <2>3, Shortened
      <4>3. w \notin ToSet(Rest(queue))
        BY <3>1, <4>1, NoCallIsNone, WakesNext DEF w
      <4>4. Rest(queue) = r BY <2>3 DEF Rest
      <4> QED BY <3>1, <4>1, <4>2, <4>3, <4>4
    <3>3. ~Has(toTab, w, "granted") /\ w \notin Holding
      <4>1. "granted" \in DOMAIN Settled BY DEF Settled
      <4>2. ~Has(toTab, w, "granted") BY <3>2, <4>1, Unserved DEF Queued
      <4>3. w \in ToSet(Line) BY <3>2, Places
      <4> QED BY <4>2, <4>3, Places
    <3> HIDE DEF r
    <3>4. Told' <=> Hears(w, ports')
      <4>1. "granted" \in DOMAIN Settled BY DEF Settled
      <4>2. Has(toTab', w, "granted") <=> Has(toTab, w, "granted") \/ Hears(w, ports')
        BY <4>1, <3>2, <1>1, <1>2, <1>7, Replied
      <4> QED BY <4>2, <3>2, <3>3, <1>4, <1>7, NoCallIsNone
    <3>5. LineInv' BY <3>2, <3>4, <1>7, NoCallIsNone DEF LineInv, Hears
    <3>6. Line' = Without(queue, S)
      <4>1. CASE Told'
        <5>1. w \notin S /\ S = mine BY <4>1, <3>2, <3>4, <1>1, <1>5 DEF Hears
        <5>2. Without(queue, S) = <<w>> \o Without(r, S) BY <5>1, <3>2, WithoutPrepended
        <5> QED BY <5>1, <5>2, <4>1, <3>1, <1>7 DEF Line
      <4>2. CASE ~Told'
        <5>1. w \in S /\ ToSet(r) \intersect S = ToSet(r) \intersect mine BY <4>2, <3>2
        <5>2. Without(queue, S) = Without(r, S) BY <5>1, <3>2, WithoutPrepended
        <5>3. Without(r, S) = Without(r, mine) BY <5>1, <3>2, WithoutSame
        <5> QED BY <5>2, <5>3, <4>2, <3>1 DEF Line
      <4> QED BY <4>1, <4>2
    <3>7. Holding' = Holding \ S /\ S \in SUBSET Call /\ mine \subseteq S BY <3>2, <3>3, <1>3, <1>5
    <3> HIDE DEF S
    <3> QED BY <3>5, <3>6, <3>7, <2>1, LeavesTheLine
  <2> QED BY <2>2, <2>3
<1> QED BY <1>1, <1>6, <1>7

LEMMA OnDisconnectLine ==
  ASSUME SessionInv, LineInv, NEW t \in Tab, OnDisconnect(t) \/ Reap(t)
  PROVE  LineInv' /\ Arbiter!Next
<1>1. DisconnectPort(t) /\ UNCHANGED <<tab, phase>> BY DEF OnDisconnect, Reap
<1>2. Joined' = Joined
  <2>1. CASE Takes(t, "disconnect") BY <2>1, <1>1, JoinsByAcquire
  <2>2. CASE UNCHANGED toRouter BY <2>2, <1>1 DEF Joined
  <2> QED BY <2>1, <2>2 DEF OnDisconnect, Reap
<1> QED BY <1>1, <1>2, DisconnectLine

\* Line by line: a step of the tabs and the router is one of the line, or none.
LEMMA StepLine ==
  ASSUME SessionInv, LineInv, [Next]_vars
  PROVE  LineInv' /\ [Arbiter!Next]_Arbiter!vars
<1>1. ASSUME NEW t \in Tab, Receive(t) \/ PageHide(t) \/ Kill(t) \/ Handle(t) \/ Reap(t)
      PROVE  LineInv' /\ (Arbiter!Next \/ UNCHANGED Arbiter!vars)
  BY <1>1, ReceiveLine, LeavesLine, OnAcquireLine, OnReleaseLine, OnCancelLine, OnRpcLine,
     OnDisconnectLine DEF Handle
<1>2. ASSUME NEW c \in Call,
             Acquire(c) \/ Abort(c) \/ AcquireAborted(c) \/ Rpc(c) \/ Release(c) \/ CoreDone(c)
      PROVE  LineInv' /\ (Arbiter!Next \/ UNCHANGED Arbiter!vars)
  BY <1>2, TabSendsLine, ReleaseLine, CoreDoneLine
<1>3. CASE UNCHANGED vars
  <2>1. /\ UNCHANGED <<ports, active, queue, tab, phase, toRouter, toTab>>
    BY <1>3 DEF vars, router, core, channels
  <2>2. Told' <=> Told BY <2>1 DEF Told
  <2>3. Holding' = Holding BY <2>1 DEF Holding, Believes
  <2>4. Joined' = Joined BY <2>1 DEF Joined
  <2> QED BY <2>1, <2>2, <2>3, <2>4, LineStays
<1> QED BY <1>1, <1>2, <1>3 DEF Next

\* The session goes to the calls in the order in which they reached the router, to
\* one at a time and once to each, whatever is given up, rejected or closed
\* meanwhile: the tabs and the SharedWorker together implement SessionLine.
THEOREM SessionFirstComeFirstServed == Spec => FirstComeFirstServed
<1>1. Init => SessionInv /\ LineInv /\ Arbiter!Init
  <2> SUFFICES ASSUME Init PROVE SessionInv /\ LineInv /\ Arbiter!Init
    OBVIOUS
  <2>1. ~Told /\ Line = <<>> BY DEF Init, Told, Line
  <2>2. Holding = {} /\ Joined = {} BY DEF Init, Holding, Believes, Joined
  <2> QED BY <2>1, <2>2, InitSession DEF Init, LineInv, Arbiter!Init
<1>2. SessionInv /\ LineInv /\ [Next]_vars => LineInv' /\ [Arbiter!Next]_Arbiter!vars
  BY StepLine
<1> QED BY <1>1, <1>2, SessionInvariance, PTL DEF Spec, FirstComeFirstServed, Arbiter!Spec
================================================================================
