------------------------------ MODULE Lists_proofs ------------------------------
(***************************************************************************)
(* What Without, by which the web application and the native one take      *)
(* entries out of their queues, does to every list.                        *)
(***************************************************************************)
EXTENDS Lists, SequencesExt, FiniteSetTheorems, SequenceTheorems, TLAPS

\* The list w is what is left of q without S: at gives the old place of each entry.
PlacesKept(w, q, S, at) ==
  /\ at \in [DOMAIN w -> DOMAIN q]
  /\ \A n \in DOMAIN w : w[n] = q[at[n]] /\ q[at[n]] \notin S
  /\ \A n, m \in DOMAIN w : n < m => at[n] < at[m]
  /\ \A i \in DOMAIN q : q[i] \notin S => \E n \in DOMAIN w : at[n] = i

\* Where the entries are that stay, and the how manieth of them one is.
KeptIn(q, S)  == {i \in DOMAIN q : q[i] \notin S}
Rank(q, S, i) == Cardinality({j \in KeptIn(q, S) : j <= i})

\* Without puts each entry that stays where its rank says.
LEMMA Ranks ==
  ASSUME NEW T, NEW q \in Seq(T), NEW S
  PROVE  LET size == Cardinality(KeptIn(q, S)) IN
         /\ IsFiniteSet(KeptIn(q, S)) /\ size \in Nat
         /\ \A i \in KeptIn(q, S) : i \in 1..Len(q) /\ Rank(q, S, i) \in 1..size
         /\ \A i, k \in KeptIn(q, S) : i < k => Rank(q, S, i) < Rank(q, S, k)
         /\ \A i, k \in KeptIn(q, S) : Rank(q, S, i) = Rank(q, S, k) => i = k
         /\ \A n \in 1..size : \E i \in KeptIn(q, S) : Rank(q, S, i) = n
<1> DEFINE kept == KeptIn(q, S)
           upto(i) == {j \in kept : j <= i}
           rank(i) == Cardinality(upto(i))
           size == Cardinality(kept)
<1>1. DOMAIN q = 1..Len(q) /\ Len(q) \in Nat /\ kept \subseteq Int /\ kept \subseteq DOMAIN q
  BY LenProperties DEF KeptIn
<1>2. IsFiniteSet(kept) /\ size \in Nat
  <2>1. IsFiniteSet(DOMAIN q) /\ kept \subseteq DOMAIN q
    BY <1>1, FS_Interval
  <2>2. IsFiniteSet(kept)
    BY <2>1, FS_Subset
  <2> QED BY <2>2, FS_CardinalityType
<1>3. \A i \in kept : IsFiniteSet(upto(i)) /\ rank(i) \in 1..size
  <2> TAKE i \in kept
  <2>1. upto(i) \subseteq kept /\ i \in upto(i)
    BY <1>1
  <2>2. IsFiniteSet(upto(i)) /\ rank(i) <= size /\ rank(i) \in Nat
    BY <1>2, <2>1, FS_Subset, FS_CardinalityType
  <2>3. rank(i) # 0
    BY <2>1, <2>2, FS_EmptySet
  <2> QED BY <1>2, <2>2, <2>3
<1>4. \A i, k \in kept : i < k => rank(i) < rank(k)
  <2> SUFFICES ASSUME NEW i \in kept, NEW k \in kept, i < k PROVE rank(i) < rank(k)
    OBVIOUS
  <2>1. upto(i) \subseteq upto(k) /\ k \in upto(k) /\ k \notin upto(i)
    BY <1>1
  <2>2. rank(i) <= rank(k) /\ rank(i) # rank(k)
    BY <2>1, <1>3, FS_Subset
  <2>3. rank(i) \in 1..size /\ rank(k) \in 1..size
    BY <1>3
  <2> HIDE DEF rank, size, kept, upto
  <2> QED BY <2>2, <2>3, <1>2
<1>5. \A i, k \in kept : i < k \/ k < i \/ i = k
  BY <1>1
<1> DEFINE f == [i \in kept |-> rank(i)]
           R == {f[i] : i \in kept}
<1>6. \A i, k \in kept : rank(i) = rank(k) => i = k
  <2> SUFFICES ASSUME NEW i \in kept, NEW k \in kept, rank(i) = rank(k) PROVE i = k
    OBVIOUS
  <2> HIDE DEF kept, upto, rank
  <2>1. ~(rank(i) < rank(k)) /\ ~(rank(k) < rank(i))
    BY <1>2, <1>3
  <2> QED BY <2>1, <1>4, <1>5
<1> HIDE DEF kept, upto, size
<1>7. R = 1..size
  <2>1. R \subseteq 1..size
    BY <1>3
  <2>2. f \in Bijection(kept, R)
    BY <1>6 DEF Bijection, Injection, Surjection, IsInjective
  <2>3. IsFiniteSet(R) /\ Cardinality(R) = size
    <3>1. ExistsBijection(kept, R)
      BY <2>2 DEF ExistsBijection
    <3> QED BY <3>1, <1>2, FS_Bijection DEF size
  <2>4. IsFiniteSet(1..size) /\ Cardinality(1..size) = size
    BY <1>2, FS_Interval
  <2> QED BY <2>1, <2>3, <2>4, FS_Subset
<1>8. \A n \in 1..size : \E i \in kept : rank(i) = n
  BY <1>7
<1> HIDE DEF f, R
<1>9. \A i \in kept : rank(i) = Rank(q, S, i) /\ i \in 1..Len(q)
  BY <1>1 DEF rank, upto, kept, KeptIn, Rank
<1> HIDE DEF rank
<1>10. /\ IsFiniteSet(kept) /\ size \in Nat
       /\ \A i \in kept : i \in 1..Len(q) /\ Rank(q, S, i) \in 1..size
       /\ \A i, k \in kept : i < k => Rank(q, S, i) < Rank(q, S, k)
       /\ \A i, k \in kept : Rank(q, S, i) = Rank(q, S, k) => i = k
       /\ \A n \in 1..size : \E i \in kept : Rank(q, S, i) = n
  BY <1>2, <1>3, <1>4, <1>6, <1>8, <1>9
<1> QED BY <1>10 DEF kept, size

\* The entries outside S stay, in their order, and nothing else does.
LEMMA WithoutKeeps ==
  ASSUME NEW T, NEW q \in Seq(T), NEW S
  PROVE  Without(q, S) \in Seq(T) /\ \E at : PlacesKept(Without(q, S), q, S, at)
<1> DEFINE kept == KeptIn(q, S)
           rank(i) == Rank(q, S, i)
           size == Cardinality(kept)
           Nth(m) == CHOOSE i \in kept : rank(i) = m
<1>1. DOMAIN q = 1..Len(q) /\ Len(q) \in Nat
  BY LenProperties
<1>2. /\ IsFiniteSet(kept) /\ size \in Nat
      /\ \A i \in kept : i \in 1..Len(q) /\ rank(i) \in 1..size
      /\ \A i, k \in kept : i < k => rank(i) < rank(k)
      /\ \A i, k \in kept : rank(i) = rank(k) => i = k
      /\ \A n \in 1..size : \E i \in kept : rank(i) = n
  BY Ranks
<1>3. \A i, k \in kept : i < k \/ k < i \/ i = k
  BY <1>1, <1>2
<1>4. \A m \in 1..size : Nth(m) \in kept /\ rank(Nth(m)) = m
  <2> TAKE m \in 1..size
  <2>1. \E i \in kept : rank(i) = m
    BY <1>2
  <2> HIDE DEF rank
  <2> QED BY <2>1
<1>5. Without(q, S) = [m \in 1..size |-> q[Nth(m)]]
  BY DEF Without, KeptIn, Rank
<1>6. \A i \in kept : i \in DOMAIN q /\ q[i] \in T /\ q[i] \notin S
  BY <1>1, ElementOfSeq DEF KeptIn
<1>7. \A i \in DOMAIN q : q[i] \notin S => i \in kept
  BY DEF KeptIn
<1> HIDE DEF kept, size, rank, Nth
<1> DEFINE w == Without(q, S)
<1>8. w \in Seq(T) /\ DOMAIN w = 1..size
  <2>1. w \in [1..size -> T]
    BY <1>4, <1>5, <1>6
  <2> QED BY <2>1, <1>2
<1> DEFINE at == [m \in 1..size |-> Nth(m)]
<1>9. at \in [DOMAIN w -> DOMAIN q]
  BY <1>4, <1>6, <1>8
<1>10. \A m \in DOMAIN w : w[m] = q[at[m]] /\ q[at[m]] \notin S
  BY <1>4, <1>5, <1>6, <1>8
<1>11. \A n, m \in DOMAIN w : n < m => at[n] < at[m]
  <2> SUFFICES ASSUME NEW n \in 1..size, NEW m \in 1..size, n < m PROVE Nth(n) < Nth(m)
    BY <1>8
  <2>1. Nth(n) \in kept /\ Nth(m) \in kept /\ rank(Nth(n)) = n /\ rank(Nth(m)) = m
    BY <1>4
  <2>2. Nth(n) # Nth(m) /\ ~(rank(Nth(m)) < rank(Nth(n)))
    BY <2>1, <1>2
  <2> QED BY <2>1, <2>2, <1>2, <1>3
<1>12. \A i \in DOMAIN q : q[i] \notin S => \E m \in DOMAIN w : at[m] = i
  <2> SUFFICES ASSUME NEW i \in kept PROVE \E m \in 1..size : Nth(m) = i
    BY <1>7, <1>8
  <2>1. rank(i) \in 1..size
    BY <1>2
  <2>2. Nth(rank(i)) \in kept /\ rank(Nth(rank(i))) = rank(i)
    BY <2>1, <1>4
  <2> QED BY <2>1, <2>2, <1>2
<1> HIDE DEF w, at
<1>13. PlacesKept(w, q, S, at) BY <1>9, <1>10, <1>11, <1>12 DEF PlacesKept
<1> QED BY <1>8, <1>13 DEF w

LEMMA WithoutPlaces ==
  ASSUME NEW T, NEW q \in Seq(T), NEW S
  PROVE  /\ Without(q, S) \in Seq(T)
         /\ \E at \in [DOMAIN Without(q, S) -> DOMAIN q] :
              /\ \A n \in DOMAIN Without(q, S) :
                   Without(q, S)[n] = q[at[n]] /\ q[at[n]] \notin S
              /\ \A n, m \in DOMAIN Without(q, S) : n < m => at[n] < at[m]
              /\ \A i \in DOMAIN q : q[i] \notin S => \E n \in DOMAIN Without(q, S) : at[n] = i
<1>1. PICK at : PlacesKept(Without(q, S), q, S, at) BY WithoutKeeps
<1>2. Without(q, S) \in Seq(T) BY WithoutKeeps
<1> DEFINE w == Without(q, S)
<1> HIDE DEF w
<1>3. PlacesKept(w, q, S, at) BY <1>1 DEF w
<1>4. \E f \in [DOMAIN w -> DOMAIN q] :
        /\ \A n \in DOMAIN w : w[n] = q[f[n]] /\ q[f[n]] \notin S
        /\ \A n, m \in DOMAIN w : n < m => f[n] < f[m]
        /\ \A i \in DOMAIN q : q[i] \notin S => \E n \in DOMAIN w : f[n] = i
  <2>1. at \in [DOMAIN w -> DOMAIN q] BY <1>3 DEF PlacesKept
  <2> WITNESS at \in [DOMAIN w -> DOMAIN q]
  <2> QED BY <1>3 DEF PlacesKept
<1> QED BY <1>2, <1>4 DEF w

\* What is in the list afterwards.
LEMMA WithoutEntries ==
  ASSUME NEW T, NEW q \in Seq(T), NEW S
  PROVE  /\ Without(q, S) \in Seq(T)
         /\ \A n \in DOMAIN Without(q, S) :
              Without(q, S)[n] \notin S /\ \E i \in DOMAIN q : Without(q, S)[n] = q[i]
         /\ \A i \in DOMAIN q :
              q[i] \notin S => \E n \in DOMAIN Without(q, S) : Without(q, S)[n] = q[i]
<1>1. Without(q, S) \in Seq(T) BY WithoutPlaces
<1> DEFINE w == Without(q, S)
<1>2. PICK at \in [DOMAIN w -> DOMAIN q] :
        /\ \A n \in DOMAIN w : w[n] = q[at[n]] /\ q[at[n]] \notin S
        /\ \A i \in DOMAIN q : q[i] \notin S => \E n \in DOMAIN w : at[n] = i
  BY WithoutPlaces
<1> HIDE DEF w
<1>3. \A n \in DOMAIN w : at[n] \in DOMAIN q OBVIOUS
<1> QED BY <1>1, <1>2, <1>3 DEF w

\* A head that stays is still the head.
LEMMA WithoutHead ==
  ASSUME NEW T, NEW q \in Seq(T), NEW S, q # <<>>, Head(q) \notin S
  PROVE  Without(q, S) # <<>> /\ Head(Without(q, S)) = Head(q)
<1> DEFINE w == Without(q, S)
<1>1. w \in Seq(T) BY WithoutPlaces
<1>2. PICK at \in [DOMAIN w -> DOMAIN q] :
        /\ \A n \in DOMAIN w : w[n] = q[at[n]] /\ q[at[n]] \notin S
        /\ \A n, m \in DOMAIN w : n < m => at[n] < at[m]
        /\ \A i \in DOMAIN q : q[i] \notin S => \E n \in DOMAIN w : at[n] = i
  BY WithoutPlaces
<1> HIDE DEF w
<1>3. DOMAIN q = 1..Len(q) /\ Len(q) \in Nat \ {0} /\ q[1] = Head(q) BY LenProperties, EmptySeq
<1>4. DOMAIN w = 1..Len(w) /\ Len(w) \in Nat BY <1>1, LenProperties
<1>5. PICK n \in DOMAIN w : at[n] = 1 BY <1>2, <1>3
<1>6. n = 1
  <2> SUFFICES ASSUME n # 1 PROVE FALSE OBVIOUS
  <2>1. 1 \in DOMAIN w /\ 1 < n BY <1>4, <1>5
  <2>2. at[1] < 1 /\ at[1] \in 1..Len(q) BY <1>2, <1>3, <1>5, <2>1
  <2> QED BY <2>2, <1>3
<1>7. w # <<>> /\ Head(w) = w[1] BY <1>1, <1>4, <1>5
<1> QED BY <1>2, <1>3, <1>5, <1>6, <1>7 DEF w

\* The list s is part of the list t, in its order.
Sublist(s, t) ==
  \E at \in [DOMAIN s -> DOMAIN t] :
    /\ \A n \in DOMAIN s : s[n] = t[at[n]]
    /\ \A n, m \in DOMAIN s : n < m => at[n] < at[m]

LEMMA WithoutSet ==
  ASSUME NEW T, NEW q \in Seq(T), NEW S
  PROVE  /\ Without(q, S) \in Seq(T)
         /\ Sublist(Without(q, S), q)
         /\ ToSet(Without(q, S)) = ToSet(q) \ S
<1> DEFINE w == Without(q, S)
<1>1. w \in Seq(T) /\ \E at : PlacesKept(w, q, S, at) BY WithoutKeeps
<1> HIDE DEF w
<1>2. PICK at : PlacesKept(w, q, S, at) BY <1>1
<1>3. Sublist(w, q) BY <1>2 DEF Sublist, PlacesKept
<1>4. ToSet(w) = ToSet(q) \ S
  <2>1. ASSUME NEW x \in ToSet(w) PROVE x \in ToSet(q) \ S BY <1>2 DEF ToSet, PlacesKept
  <2>2. ASSUME NEW x \in ToSet(q) \ S PROVE x \in ToSet(w)
    <3>1. PICK i \in DOMAIN q : x = q[i] BY DEF ToSet
    <3>2. PICK n \in DOMAIN w : at[n] = i BY <1>2, <3>1 DEF PlacesKept
    <3> QED BY <1>2, <3>1, <3>2 DEF ToSet, PlacesKept
  <2> QED BY <2>1, <2>2
<1> QED BY <1>1, <1>3, <1>4 DEF w

LEMMA SublistSelf ==
  ASSUME NEW s
  PROVE  Sublist(s, s)
<1> DEFINE at == [n \in DOMAIN s |-> n]
<1>1. at \in [DOMAIN s -> DOMAIN s] OBVIOUS
<1>2. /\ \A n \in DOMAIN s : s[n] = s[at[n]]
      /\ \A n, m \in DOMAIN s : n < m => at[n] < at[m]
  OBVIOUS
<1> HIDE DEF at
<1> QED BY <1>1, <1>2 DEF Sublist

LEMMA TailSublist ==
  ASSUME NEW T, NEW q \in Seq(T), q # <<>>
  PROVE  /\ Tail(q) \in Seq(T) /\ Sublist(Tail(q), q)
         /\ Len(Tail(q)) = Len(q) - 1 /\ \A n \in 1..(Len(q) - 1) : Tail(q)[n] = q[n + 1]
         /\ Head(q) = q[1] /\ Len(q) \in Nat \ {0} /\ DOMAIN q = 1..Len(q)
         /\ ToSet(q) = {Head(q)} \union ToSet(Tail(q))
<1>1. DOMAIN q = 1..Len(q) /\ Len(q) \in Nat \ {0} /\ q[1] = Head(q) BY LenProperties, EmptySeq
<1>2. /\ Tail(q) \in Seq(T) /\ Len(Tail(q)) = Len(q) - 1
      /\ \A n \in 1..(Len(q) - 1) : Tail(q)[n] = q[n + 1]
  OBVIOUS
<1> DEFINE t == Tail(q)
           at == [n \in DOMAIN t |-> n + 1]
<1>3. DOMAIN t = 1..(Len(q) - 1) BY <1>2
<1> HIDE DEF t
<1>4. at \in [DOMAIN t -> DOMAIN q] BY <1>1, <1>3
<1>5. /\ \A n \in DOMAIN t : t[n] = q[at[n]]
      /\ \A n, m \in DOMAIN t : n < m => at[n] < at[m]
  BY <1>2, <1>3 DEF t
<1>6. Sublist(t, q) 
  <2> HIDE DEF at
  <2> QED BY <1>4, <1>5 DEF Sublist
<1>7. ToSet(q) = {Head(q)} \union ToSet(t)
  <2>1. ASSUME NEW x \in ToSet(q) PROVE x = Head(q) \/ x \in ToSet(t)
    <3>1. PICK i \in DOMAIN q : x = q[i] BY DEF ToSet
    <3>2. CASE i = 1 BY <1>1, <3>1, <3>2
    <3>3. CASE i # 1
      <4>1. i - 1 \in DOMAIN t /\ at[i - 1] = i BY <1>1, <1>3, <3>3
      <4> QED BY <1>5, <3>1, <4>1 DEF ToSet
    <3> QED BY <3>2, <3>3
  <2>2. Head(q) \in ToSet(q) BY <1>1 DEF ToSet
  <2>3. ToSet(t) \subseteq ToSet(q) BY <1>4, <1>5 DEF ToSet
  <2> QED BY <2>1, <2>2, <2>3
<1> QED BY <1>1, <1>2, <1>6, <1>7 DEF t

\* Where nothing occurs twice, taking the head out leaves the tail.
LEMMA WithoutFirst ==
  ASSUME NEW T, NEW q \in Seq(T), q # <<>>,
         \A i, k \in DOMAIN q : i < k => q[i] # q[k]
  PROVE  Without(q, {Head(q)}) = Tail(q)
<1> DEFINE kept == {i \in DOMAIN q : q[i] \notin {Head(q)}}
           L == Len(q)
           upto(i) == {j \in kept : j <= i}
           Nth(n) == CHOOSE i \in kept : Cardinality(upto(i)) = n
<1>1. DOMAIN q = 1..L /\ L \in Nat \ {0} /\ q[1] = Head(q) BY LenProperties, EmptySeq
<1>2. kept = 2..L
  <2>1. \A i \in 2..L : q[i] # q[1] BY <1>1
  <2> QED BY <1>1, <2>1
<1>3. Cardinality(kept) = L - 1
  <2>1. 2 \in Int /\ L \in Int BY <1>1
  <2>2. Cardinality(2..L) = IF 2 > L THEN 0 ELSE L - 2 + 1 BY <2>1, FS_Interval
  <2>3. IF 2 > L THEN L = 1 ELSE L - 2 + 1 = L - 1 BY <1>1
  <2>4. Cardinality(2..L) = L - 1 BY <2>2, <2>3
  <2> QED BY <1>2, <2>4
<1>4. Without(q, {Head(q)}) = [n \in 1..Cardinality(kept) |-> q[Nth(n)]] BY DEF Without
<1> HIDE DEF kept, L
<1>5. \A i \in kept : Cardinality(upto(i)) = i - 1
  <2> TAKE i \in kept
  <2>1. upto(i) = 2..i /\ i \in Int /\ i >= 2 BY <1>1, <1>2
  <2>2. 2 \in Int BY <2>1
  <2>3. Cardinality(2..i) = IF 2 > i THEN 0 ELSE i - 2 + 1 BY <2>1, <2>2, FS_Interval
  <2>4. Cardinality(2..i) = i - 1 BY <2>1, <2>3
  <2> QED BY <2>1, <2>4
<1>6. \A n \in 1..(L - 1) : Nth(n) = n + 1
  <2> TAKE n \in 1..(L - 1)
  <2>1. n + 1 \in kept /\ n \in Int BY <1>1, <1>2
  <2>2. Cardinality(upto(n + 1)) = n BY <1>5, <2>1
  <2>3. \A i \in kept : i \in Int BY <1>2
  <2> HIDE DEF upto
  <2>4. Nth(n) \in kept /\ Cardinality(upto(Nth(n))) = n BY <2>1, <2>2
  <2>5. Nth(n) - 1 = n BY <1>5, <2>4
  <2>6. Nth(n) \in Int BY <2>3, <2>4
  <2> HIDE DEF Nth
  <2> QED BY <2>1, <2>5, <2>6
<1> HIDE DEF Nth
<1>7. Without(q, {Head(q)}) = [n \in 1..(L - 1) |-> q[n + 1]] BY <1>3, <1>4, <1>6
<1>8. Tail(q) = [n \in 1..(L - 1) |-> q[n + 1]]
  <2>1. /\ Tail(q) \in Seq(T) /\ Len(Tail(q)) = L - 1
        /\ \A n \in 1..(L - 1) : Tail(q)[n] = q[n + 1]
    BY TailSublist DEF L
  <2>2. Tail(q) \in [1..(L - 1) -> T] BY <2>1, LenProperties
  <2> QED BY <2>1, <2>2
<1> QED BY <1>7, <1>8

LEMMA WithoutNothing == ASSUME NEW S PROVE Without(<<>>, S) = <<>>
<1> DEFINE w == Without(<<>>, S)
<1>1. <<>> \in Seq({}) OBVIOUS
<1>2. w \in Seq({}) BY <1>1, WithoutPlaces
<1> HIDE DEF w
<1>3. w = <<>> BY <1>2
<1> QED BY <1>3 DEF w
\* An entry that stays goes where its rank says.
LEMMA WithoutRanked ==
  ASSUME NEW T, NEW q \in Seq(T), NEW S
  PROVE  /\ DOMAIN Without(q, S) = 1..Cardinality(KeptIn(q, S))
         /\ \A i \in KeptIn(q, S) : Without(q, S)[Rank(q, S, i)] = q[i]
<1> DEFINE kept == KeptIn(q, S)
           rank(i) == Rank(q, S, i)
           size == Cardinality(kept)
           Nth(m) == CHOOSE i \in kept : rank(i) = m
<1>1. /\ \A i \in kept : rank(i) \in 1..size
      /\ \A i, k \in kept : rank(i) = rank(k) => i = k
  BY Ranks
<1>2. Without(q, S) = [m \in 1..size |-> q[Nth(m)]]
  BY DEF Without, KeptIn, Rank
<1> HIDE DEF kept, size, rank
<1>3. \A i \in kept : Nth(rank(i)) = i
  BY <1>1
<1> HIDE DEF Nth
<1>4. \A i \in kept : [m \in 1..size |-> q[Nth(m)]][rank(i)] = q[i]
  BY <1>1, <1>3
<1> QED BY <1>2, <1>4 DEF kept, size, rank

\* Only the entries count that are there.
LEMMA WithoutSame ==
  ASSUME NEW T, NEW q \in Seq(T), NEW S, NEW R, ToSet(q) \intersect S = ToSet(q) \intersect R
  PROVE  Without(q, S) = Without(q, R)
<1> DEFINE Nth(k, n) == CHOOSE i \in k : Cardinality({j \in k : j <= i}) = n
           Picked(k) == [n \in 1..Cardinality(k) |-> q[Nth(k, n)]]
<1>1. KeptIn(q, S) = KeptIn(q, R)
  BY DEF KeptIn, ToSet
<1>2. Without(q, S) = Picked(KeptIn(q, S)) /\ Without(q, R) = Picked(KeptIn(q, R))
  BY DEF Without, KeptIn
<1> HIDE DEF Picked
<1> QED BY <1>1, <1>2

LEMMA WithoutNone ==
  ASSUME NEW T, NEW q \in Seq(T), NEW S, ToSet(q) \intersect S = {}
  PROVE  Without(q, S) = q
<1> DEFINE w == Without(q, S)
<1>1. KeptIn(q, S) = 1..Len(q) /\ Len(q) \in Nat /\ q \in [1..Len(q) -> T]
  BY LenProperties DEF KeptIn, ToSet
<1>2. Cardinality(1..Len(q)) = Len(q) BY <1>1, FS_Interval
<1>3. \A i \in 1..Len(q) : Rank(q, S, i) = i
  <2> TAKE i \in 1..Len(q)
  <2>1. {j \in KeptIn(q, S) : j <= i} = 1..i BY <1>1
  <2>2. Cardinality(1..i) = i BY <1>1, FS_Interval
  <2> QED BY <2>1, <2>2 DEF Rank
<1>4. DOMAIN w = 1..Len(q) /\ \A i \in 1..Len(q) : w[i] = q[i]
  BY <1>1, <1>2, <1>3, WithoutRanked
<1>5. w \in Seq(T) BY WithoutPlaces
<1> HIDE DEF w
<1>6. w \in [1..Len(q) -> T] BY <1>4, <1>5, LenProperties
<1>7. w = q BY <1>1, <1>4, <1>6
<1> QED BY <1>7 DEF w

\* Moving places by one leaves their number.
LEMMA MovedOn ==
  ASSUME NEW A \in SUBSET (Nat \ {0}), IsFiniteSet(A), NEW B, B = {} \/ B = {1}
  PROVE  Cardinality({j + 1 : j \in A} \union B) = Cardinality(A) + Cardinality(B)
<1> DEFINE C == {j + 1 : j \in A}
           f == [j \in A |-> j + 1]
<1>1. f \in Bijection(A, C)
  <2>1. f \in [A -> C] OBVIOUS
  <2>2. IsInjective(f)
    <3>1. \A a, b \in A : a \in Int /\ b \in Int /\ (a + 1 = b + 1 => a = b) OBVIOUS
    <3> QED BY <3>1 DEF IsInjective
  <2>3. \A c \in C : \E a \in A : f[a] = c OBVIOUS
  <2> HIDE DEF f, C
  <2> QED BY <2>1, <2>2, <2>3 DEF Bijection, Injection, Surjection
<1>2. ExistsBijection(A, C) BY <1>1 DEF ExistsBijection
<1>3. 1 \notin C OBVIOUS
<1> HIDE DEF C
<1>4. IsFiniteSet(C) /\ Cardinality(C) = Cardinality(A) BY <1>2, FS_Bijection
<1>5. CASE B = {}
  <2>1. C \union B = C /\ Cardinality(B) = 0 BY <1>5, FS_EmptySet
  <2>2. Cardinality(A) \in Nat BY FS_CardinalityType
  <2> QED BY <1>4, <2>1, <2>2 DEF C
<1>6. CASE B = {1}
  <2>1. Cardinality(C \union {1}) = Cardinality(C) + 1 BY <1>3, <1>4, FS_AddElement
  <2>2. Cardinality({1}) = 1 BY FS_Singleton
  <2> QED BY <1>4, <1>6, <2>1, <2>2 DEF C
<1> QED BY <1>5, <1>6

\* A list that has one entry more in front.
LEMMA WithoutPrepended ==
  ASSUME NEW T, NEW q \in Seq(T), NEW c \in T, NEW S
  PROVE  Without(<<c>> \o q, S) = IF c \in S THEN Without(q, S) ELSE <<c>> \o Without(q, S)
<1> DEFINE p == <<c>> \o q
           L == Len(q)
           more == IF c \in S THEN 0 ELSE 1
           v == Without(p, S)
           w == Without(q, S)
           u == <<c>> \o w
<1>1. /\ p \in Seq(T) /\ L \in Nat /\ DOMAIN q = 1..L /\ DOMAIN p = 1..(L + 1)
      /\ p[1] = c /\ \A i \in 1..L : p[i + 1] = q[i]
  <2>1. <<c>> \in Seq(T) /\ Len(<<c>>) = 1 /\ <<c>>[1] = c OBVIOUS
  <2>2. /\ p \in Seq(T) /\ Len(p) = 1 + L
        /\ \A i \in 1..Len(p) : p[i] = IF i <= 1 THEN <<c>>[i] ELSE q[i - 1]
    BY <2>1, ConcatProperties
  <2>3. L \in Nat /\ DOMAIN q = 1..L /\ DOMAIN p = 1..Len(p) BY <2>2, LenProperties
  <2> HIDE DEF p, L
  <2>4. DOMAIN p = 1..(L + 1) BY <2>2, <2>3
  <2>5. p[1] = c
    <3>1. 1 \in 1..Len(p) /\ 1 <= 1 BY <2>2, <2>3
    <3> QED BY <3>1, <2>1, <2>2
  <2>6. ASSUME NEW i \in 1..L PROVE p[i + 1] = q[i]
    <3>1. i + 1 \in 1..Len(p) /\ ~(i + 1 <= 1) /\ (i + 1) - 1 = i BY <2>2, <2>3
    <3> QED BY <3>1, <2>2
  <2> QED BY <2>2, <2>3, <2>4, <2>5, <2>6
<1> HIDE DEF p, L
<1>2. /\ IsFiniteSet(KeptIn(q, S)) /\ Cardinality(KeptIn(q, S)) \in Nat
      /\ \A i \in KeptIn(q, S) : i \in 1..L /\ Rank(q, S, i) \in 1..Cardinality(KeptIn(q, S))
      /\ \A n \in 1..Cardinality(KeptIn(q, S)) : \E i \in KeptIn(q, S) : Rank(q, S, i) = n
  BY Ranks DEF L
<1> DEFINE first == IF c \in S THEN {} ELSE {1}
<1>3. Cardinality(first) = more /\ (first = {} \/ first = {1})
  BY FS_EmptySet, FS_Singleton
<1>4. KeptIn(p, S) = {i + 1 : i \in KeptIn(q, S)} \union first
  <2>1. \A i \in 1..(L + 1) : i = 1 \/ (i - 1 \in 1..L /\ i = (i - 1) + 1 /\ p[i] = q[i - 1])
    BY <1>1
  <2>2. \A i \in 1..L : i + 1 \in 1..(L + 1) /\ p[i + 1] = q[i] BY <1>1
  <2>3. 1 \in 1..(L + 1) BY <1>1
  <2>4. KeptIn(p, S) = {i \in 1..(L + 1) : p[i] \notin S} BY <1>1 DEF KeptIn
  <2>5. KeptIn(q, S) = {i \in 1..L : q[i] \notin S} BY <1>1 DEF KeptIn
  <2>6. ASSUME NEW i \in KeptIn(p, S) PROVE i \in {k + 1 : k \in KeptIn(q, S)} \union first
    <3>1. CASE i = 1 BY <3>1, <2>4, <1>1
    <3>2. CASE i # 1
      <4>1. i - 1 \in KeptIn(q, S) /\ i = (i - 1) + 1 BY <3>2, <2>1, <2>4, <2>5
      <4> QED BY <4>1
    <3> QED BY <3>1, <3>2
  <2>7. ASSUME NEW k \in KeptIn(q, S) PROVE k + 1 \in KeptIn(p, S) BY <2>2, <2>4, <2>5
  <2>8. first \subseteq KeptIn(p, S) BY <2>3, <2>4, <1>1
  <2> HIDE DEF first
  <2> QED BY <2>6, <2>7, <2>8
<1> HIDE DEF first, more
<1>5. \A i \in KeptIn(q, S) : i \in Nat \ {0} BY <1>1, <1>2
<1>6. Cardinality(KeptIn(p, S)) = Cardinality(KeptIn(q, S)) + more
  <2>1. KeptIn(q, S) \in SUBSET (Nat \ {0}) BY <1>5
  <2>2. Cardinality({i + 1 : i \in KeptIn(q, S)} \union first)
          = Cardinality(KeptIn(q, S)) + Cardinality(first)
    BY <2>1, <1>2, <1>3, MovedOn
  <2> QED BY <2>2, <1>3, <1>4
<1>7. \A i \in KeptIn(q, S) : i + 1 \in KeptIn(p, S) /\ Rank(p, S, i + 1) = Rank(q, S, i) + more
  <2> TAKE i \in KeptIn(q, S)
  <2> DEFINE A == {j \in KeptIn(q, S) : j <= i}
  <2>1. A \in SUBSET (Nat \ {0}) /\ IsFiniteSet(A) BY <1>2, <1>5, FS_Subset
  <2>2. {j \in KeptIn(p, S) : j <= i + 1} = {j + 1 : j \in A} \union first
    <3>1. \A j \in Nat : j + 1 <= i + 1 <=> j <= i BY <1>5
    <3>2. \A j \in first : j <= i + 1 BY <1>3, <1>5
    <3> QED BY <1>4, <1>5, <3>1, <3>2
  <2>3. Cardinality({j + 1 : j \in A} \union first) = Cardinality(A) + Cardinality(first)
    BY <2>1, <1>3, MovedOn
  <2>4. i + 1 \in KeptIn(p, S) BY <1>4
  <2> QED BY <2>2, <2>3, <2>4, <1>3 DEF Rank
<1>8. /\ DOMAIN v = 1..Cardinality(KeptIn(p, S)) /\ DOMAIN w = 1..Cardinality(KeptIn(q, S))
      /\ \A i \in KeptIn(p, S) : v[Rank(p, S, i)] = p[i]
      /\ \A i \in KeptIn(q, S) : w[Rank(q, S, i)] = q[i]
      /\ v \in Seq(T) /\ w \in Seq(T)
  BY <1>1, WithoutRanked, WithoutPlaces
<1> HIDE DEF v, w
<1> DEFINE N == Cardinality(KeptIn(q, S))
<1>9. \A n \in 1..N : v[n + more] = w[n]
  <2> TAKE n \in 1..N
  <2>1. PICK i \in KeptIn(q, S) : Rank(q, S, i) = n BY <1>2
  <2>2. w[n] = q[i] /\ v[n + more] = p[i + 1] BY <2>1, <1>7, <1>8
  <2> QED BY <2>2, <1>1, <1>2
<1>10. DOMAIN v = 1..(N + more) /\ DOMAIN w = 1..N /\ N \in Nat BY <1>2, <1>6, <1>8
<1> HIDE DEF N
<1>11. v \in [1..(N + more) -> T] /\ w \in [1..N -> T] BY <1>8, <1>10, LenProperties
<1>12. CASE c \in S
  <2>1. more = 0 BY <1>12 DEF more
  <2>2. v = w BY <2>1, <1>9, <1>10, <1>11
  <2> QED BY <2>2, <1>12 DEF v, w, p
<1>13. CASE c \notin S
  <2>1. more = 1 /\ first = {1} BY <1>13 DEF more, first
  <2>2. 1 \in KeptIn(p, S) BY <2>1, <1>4
  <2>3. Rank(p, S, 1) = 1
    <3>1. {j \in KeptIn(p, S) : j <= 1} = {1}
      <4>1. \A j \in KeptIn(q, S) : ~(j + 1 <= 1) BY <1>5
      <4> QED BY <2>1, <1>4, <4>1
    <3>2. Cardinality({1}) = 1 BY FS_Singleton
    <3> QED BY <3>1, <3>2 DEF Rank
  <2>4. v[1] = c BY <2>2, <2>3, <1>1, <1>8
  <2>5. /\ u \in Seq(T) /\ Len(u) = N + 1
        /\ \A i \in 1..(N + 1) : u[i] = IF i <= 1 THEN c ELSE w[i - 1]
    <3>1. <<c>> \in Seq(T) /\ Len(<<c>>) = 1 /\ <<c>>[1] = c OBVIOUS
    <3>2. Len(w) = N BY <1>8, <1>10, LenProperties
    <3>3. /\ u \in Seq(T) /\ Len(u) = 1 + N
          /\ \A i \in 1..Len(u) : u[i] = IF i <= 1 THEN <<c>>[i] ELSE w[i - 1]
      BY <3>1, <3>2, <1>8, ConcatProperties
    <3> HIDE DEF u
    <3> QED BY <3>1, <3>3, <1>10
  <2> HIDE DEF u
  <2>6. u \in [1..(N + 1) -> T] BY <2>5, LenProperties
  <2>7. \A i \in 1..(N + 1) : u[i] = v[i]
    <3> TAKE i \in 1..(N + 1)
    <3>1. CASE i = 1 BY <3>1, <2>4, <2>5
    <3>2. CASE i # 1
      <4>1. i - 1 \in 1..N /\ (i - 1) + 1 = i BY <3>2, <1>10
      <4>2. v[(i - 1) + 1] = w[i - 1] BY <4>1, <2>1, <1>9
      <4> QED BY <4>1, <4>2, <2>5, <1>10
    <3> QED BY <3>1, <3>2
  <2>8. v \in [1..(N + 1) -> T] BY <2>1, <1>11
  <2>9. u = v
    <3>1. u = [i \in 1..(N + 1) |-> u[i]] /\ v = [i \in 1..(N + 1) |-> v[i]] BY <2>6, <2>8
    <3>2. [i \in 1..(N + 1) |-> u[i]] = [i \in 1..(N + 1) |-> v[i]] BY <2>7
    <3> QED BY <3>1, <3>2
  <2> QED BY <2>9, <1>13 DEF u, v, w, p
<1> QED BY <1>12, <1>13

\* A list that has one entry more in front, and one without its first.
LEMMA InFront ==
  ASSUME NEW T, NEW q \in Seq(T), NEW c \in T
  PROVE  LET p == <<c>> \o q IN
         /\ p \in Seq(T) /\ p # <<>> /\ Head(p) = c /\ Tail(p) = q
         /\ ToSet(p) = {c} \union ToSet(q)
         /\ \A d \in T : Append(p, d) = <<c>> \o Append(q, d)
<1> DEFINE p == <<c>> \o q
<1>1. /\ p \in Seq(T) /\ Len(p) = Len(q) + 1 /\ Len(q) \in Nat
      /\ \A i \in 1..(Len(q) + 1) : p[i] = IF i = 1 THEN c ELSE q[i - 1]
  <2>1. <<c>> \in Seq(T) /\ Len(<<c>>) = 1 /\ <<c>>[1] = c OBVIOUS
  <2>2. /\ p \in Seq(T) /\ Len(p) = 1 + Len(q)
        /\ \A i \in 1..(1 + Len(q)) : p[i] = IF i <= 1 THEN <<c>>[i] ELSE q[i - 1]
    BY <2>1, ConcatProperties
  <2>3. Len(q) \in Nat BY LenProperties
  <2> HIDE DEF p
  <2> QED BY <2>1, <2>2, <2>3
<1>2. \A d \in T : Append(p, d) = <<c>> \o Append(q, d)
  <2> TAKE d \in T
  <2>1. <<c>> \in Seq(T) /\ <<d>> \in Seq(T) OBVIOUS
  <2>2. Append(p, d) = p \o <<d>> /\ Append(q, d) = q \o <<d>>
    <3> HIDE DEF p
    <3> QED BY <1>1, AppendIsConcat
  <2>3. (<<c>> \o q) \o <<d>> = <<c>> \o (q \o <<d>>) BY <2>1, ConcatAssociative
  <2> QED BY <2>2, <2>3
<1> HIDE DEF p
<1>3. p # <<>> BY <1>1, EmptySeq
<1>4. Head(p) = c BY <1>1, <1>3
<1>5. Tail(p) = q
  <2>1. /\ Tail(p) \in Seq(T) /\ Len(Tail(p)) = Len(q)
        /\ \A i \in 1..Len(q) : Tail(p)[i] = p[i + 1]
    BY <1>1, <1>3, HeadTailProperties
  <2>2. \A i \in 1..Len(q) : p[i + 1] = q[i] BY <1>1
  <2> QED BY <2>1, <2>2, SeqEqual
<1>6. ToSet(p) = {c} \union ToSet(q)
  <2>1. ToSet(p) = {Head(p)} \union ToSet(Tail(p)) BY <1>1, <1>3, TailSublist
  <2> QED BY <2>1, <1>4, <1>5
<1> QED BY <1>1, <1>2, <1>3, <1>4, <1>5, <1>6 DEF p

LEMMA HeadInFront ==
  ASSUME NEW T, NEW q \in Seq(T), q # <<>>
  PROVE  q = <<Head(q)>> \o Tail(q) /\ Head(q) \in T /\ Tail(q) \in Seq(T)
<1> DEFINE p == <<Head(q)>> \o Tail(q)
<1>1. Head(q) \in T /\ Tail(q) \in Seq(T) /\ Len(Tail(q)) = Len(q) - 1 /\ Len(q) \in Nat \ {0}
  BY HeadTailProperties, LenProperties, EmptySeq
<1>2. p \in Seq(T) /\ p # <<>> /\ Head(p) = Head(q) /\ Tail(p) = Tail(q) BY <1>1, InFront
<1> HIDE DEF p
<1>3. Len(p) = Len(q) /\ p[1] = q[1] /\ \A i \in 1..(Len(q) - 1) : p[i + 1] = q[i + 1]
  <2>1. /\ Len(Tail(p)) = Len(p) - 1 /\ \A i \in 1..(Len(p) - 1) : Tail(p)[i] = p[i + 1]
        /\ Len(p) \in Nat \ {0}
    BY <1>2, HeadTailProperties, LenProperties, EmptySeq
  <2>2. \A i \in 1..(Len(q) - 1) : Tail(q)[i] = q[i + 1] BY <1>1, HeadTailProperties
  <2>3. Len(p) = Len(q)
    <3>1. Len(Tail(p)) = Len(q) - 1 /\ Len(Tail(p)) = Len(p) - 1 BY <2>1, <1>1, <1>2
    <3>2. Len(p) \in Nat /\ Len(q) \in Nat BY <2>1, <1>1
    <3> QED BY <3>1, <3>2
  <2>4. p[1] = Head(p) /\ q[1] = Head(q) BY <1>2
  <2> QED BY <2>1, <2>2, <2>3, <2>4, <1>2
<1>4. \A i \in 1..Len(q) : p[i] = q[i]
  <2> TAKE i \in 1..Len(q)
  <2>1. i = 1 \/ (i - 1 \in 1..(Len(q) - 1) /\ i = (i - 1) + 1) BY <1>1
  <2> QED BY <2>1, <1>3
<1>5. p = q BY <1>2, <1>3, <1>4, SeqEqual
<1> QED BY <1>1, <1>5 DEF p
================================================================================
