---------------------------- MODULE NativeApp_proofs ----------------------------
(***************************************************************************)
(* Proofs about the native application: EngineHandle, for every set of     *)
(* calls and every max_new, and GenerationQueue, for any jobs, any         *)
(* conversations and any number of restarts.                               *)
(***************************************************************************)
EXTENDS EngineHandle, GenerationQueue, Lists_proofs

-----------------------------------------------------------------------------
(* EngineHandle: its inductive invariant. *)

\* A call waits in the channel once, unanswered, and nothing reached it yet.
ChannelOK ==
  /\ \A i \in 1..Len(channel) :
       /\ kind[channel[i]] # "none" /\ result[channel[i]] = "none"
       /\ channel[i] \notin current /\ channel[i] \notin reached
  /\ \A i, j \in 1..Len(channel) : i # j => channel[i] # channel[j]
  /\ \A c \in Call : kind[c] = "none" => result[c] = "none"

\* While a generation runs the flag is up exactly if a cancel reached it.
FlagOK ==
  /\ \A c \in current : kind[c] = "generate" /\ result[c] = "none" /\ (cancel <=> c \in reached)
  /\ \A c \in reached : c \in asked /\ kind[c] # "none"

\* Only a call that was reached is late, and the piece under way is its first.
LateOK ==
  /\ \A c \in Call : late[c] \in {0, 1} /\ (c \notin reached => late[c] = 0)
  /\ worker = "emit" => produced < MaxNew /\ \A c \in current : late[c] = 0

EngineInv == TypeOK /\ ChannelOK /\ FlagOK /\ LateOK /\ CutOnlyIfAsked
-----------------------------------------------------------------------------
(* A stuttering step disturbs nothing. *)
LEMMA EngineStutter == ASSUME EngineInv, UNCHANGED vars PROVE EngineInv'
  BY DEF EngineInv, TypeOK, Running, ChannelOK, FlagOK, LateOK, CutOnlyIfAsked,
         vars, commands, decoding, engine, history

(* An engine that was just created satisfies the invariant. *)
LEMMA EngineInit == ASSUME Init PROVE EngineInv
<1> USE DEF Init
<1>1. TypeOK
  <2>1. 0 \in 0..MaxNew /\ channel \in Seq(Call) /\ late \in [Call -> Nat] BY EngineLimits
  <2>2. kind \in [Call -> Kind \union {"none"}] /\ result \in [Call -> Result \union {"none"}]
    OBVIOUS
  <2> QED BY <2>1, <2>2 DEF TypeOK, Running
<1>2. ChannelOK /\ FlagOK BY DEF ChannelOK, FlagOK
<1>3. LateOK /\ CutOnlyIfAsked BY DEF LateOK, CutOnlyIfAsked
<1> QED BY <1>1, <1>2, <1>3 DEF EngineInv

(* What Send and the two cancels do to the channel, the calls and the flag. *)
LEMMA EngineCallers ==
  ASSUME EngineInv,
         Cancel \/ Free \/ (\E c \in Call, k \in Kind : Send(c, k))
  PROVE  EngineInv'
<1> USE DEF EngineInv
<1>1. ASSUME NEW c \in Call, NEW k \in Kind, Send(c, k) PROVE EngineInv'
  <2> USE <1>1 DEF Send, decoding, engine, history
  <2>1. TypeOK' BY DEF TypeOK, Running
  <2>2. /\ Len(channel') = Len(channel) + 1 /\ channel'[Len(channel')] = c
        /\ \A i \in 1..Len(channel) : channel'[i] = channel[i]
    BY DEF TypeOK
  <2>3. c \notin current /\ c \notin reached /\ result[c] = "none"
    BY DEF FlagOK, ChannelOK
  <2>4. ChannelOK'
    <3>1. c \notin {channel[i] : i \in 1..Len(channel)} BY DEF ChannelOK
    <3>2. Len(channel) \in Nat BY DEF TypeOK
    <3> QED BY <2>1, <2>2, <2>3, <3>1, <3>2 DEF ChannelOK, TypeOK, Kind
  <2>5. FlagOK' BY DEF FlagOK, TypeOK, Kind
  <2>6. LateOK' BY DEF LateOK
  <2>7. CutOnlyIfAsked' BY DEF CutOnlyIfAsked
  <2> QED BY <2>1, <2>4, <2>5, <2>6, <2>7
<1>2. ASSUME Cancel \/ Free PROVE EngineInv'
  <2>1. /\ RaiseFlag /\ UNCHANGED <<channel, kind, worker, current, produced, result, late>>
        /\ UNCHANGED <<model, trainer>> /\ closing' \in BOOLEAN
    BY <1>2 DEF Cancel, Free, commands, decoding, engine, TypeOK
  <2> USE <2>1 DEF RaiseFlag
  <2>2. TypeOK' BY DEF TypeOK, Running, InFlight
  <2>3. ChannelOK' BY DEF ChannelOK
  <2>4. FlagOK' BY DEF FlagOK, InFlight, TypeOK
  <2>5. LateOK' BY DEF LateOK
  <2>6. CutOnlyIfAsked' BY DEF CutOnlyIfAsked
  <2> QED BY <2>2, <2>3, <2>4, <2>5, <2>6
<1> QED BY <1>1, <1>2

(* The command at the head of the channel is a call nobody has answered. *)
LEMMA EngineHead ==
  ASSUME EngineInv, NEW k, Takes(k)
  PROVE  /\ Head(channel) \in Call /\ channel' \in Seq(Call)
         /\ kind[Head(channel)] = k /\ result[Head(channel)] = "none"
         /\ Head(channel) \notin current /\ Head(channel) \notin reached
         /\ Len(channel') = Len(channel) - 1 /\ Len(channel) \in Nat \ {0}
         /\ \A i \in 1..Len(channel') : channel'[i] = channel[i + 1] /\ channel'[i] # Head(channel)
         /\ current = {}
<1> USE DEF Takes, EngineInv
<1>1. /\ channel \in Seq(Call) /\ channel # <<>> /\ current = {} BY DEF TypeOK, Running
<1>2. /\ Len(channel) \in Nat \ {0} /\ Head(channel) = channel[1] /\ 1 \in 1..Len(channel)
      /\ Head(channel) \in Call /\ channel' \in Seq(Call)
      /\ Len(channel') = Len(channel) - 1
      /\ \A i \in 1..Len(channel') : channel'[i] = channel[i + 1]
  BY <1>1
<1>3. \A i \in 1..Len(channel') : channel'[i] # Head(channel)
  <2>1. \A i \in 1..Len(channel') : i + 1 \in 1..Len(channel) /\ i + 1 # 1 BY <1>2
  <2> QED BY <2>1, <1>2 DEF ChannelOK
<1> QED BY <1>1, <1>2, <1>3 DEF ChannelOK

(* What is left in the channel once its head is taken and answered, or started. *)
LEMMA EngineTail ==
  ASSUME EngineInv, NEW k, k # "none", Takes(k), UNCHANGED reached,
         \/ UNCHANGED current /\ \E r \in Result : Returns(Head(channel), r)
         \/ UNCHANGED result /\ current' = {Head(channel)}
  PROVE  ChannelOK'
<1>1. PICK h \in Call : h = Head(channel) /\ kind[h] = k BY EngineHead
<1>2. \A i \in 1..Len(channel') : i + 1 \in 1..Len(channel) /\ channel'[i] = channel[i + 1]
  BY EngineHead
<1>3. \A i \in 1..Len(channel') : channel'[i] # h /\ channel'[i] \in Call BY <1>1, EngineHead
<1>4. kind' = kind BY DEF Takes
<1>5. result \in [Call -> Result \union {"none"}] /\ current = {} BY EngineHead DEF EngineInv, TypeOK
<1>6. \A c \in Call : c # h => result'[c] = result[c] BY <1>1, <1>5 DEF Returns
<1>7. \A c \in current' : c = h BY <1>1, <1>5
<1>8. \A i \in 1..Len(channel') :
        /\ kind'[channel'[i]] # "none" /\ result'[channel'[i]] = "none"
        /\ channel'[i] \notin current' /\ channel'[i] \notin reached'
  BY <1>2, <1>3, <1>4, <1>6, <1>7 DEF EngineInv, ChannelOK
<1>9. \A i, j \in 1..Len(channel') : i # j => channel'[i] # channel'[j]
  <2> SUFFICES ASSUME NEW i \in 1..Len(channel'), NEW j \in 1..Len(channel'), i # j
               PROVE  channel'[i] # channel'[j]
    OBVIOUS
  <2>1. i + 1 # j + 1 BY EngineHead
  <2> QED BY <2>1, <1>2 DEF EngineInv, ChannelOK
<1>10. \A c \in Call : kind'[c] = "none" => result'[c] = "none"
  BY <1>1, <1>4, <1>6 DEF EngineInv, ChannelOK
<1> QED BY <1>8, <1>9, <1>10 DEF ChannelOK

(* Taking a command keeps the invariant. *)
LEMMA EngineTakes ==
  ASSUME EngineInv, TakeLoad \/ TakeTrain \/ TakePlain \/ TakeGenerate
  PROVE  EngineInv'
<1> DEFINE h == Head(channel)
<1>1. ASSUME TakeLoad \/ TakeTrain \/ TakePlain \/ (TakeGenerate /\ Refuse) PROVE EngineInv'
  <2>1. PICK k \in Kind : Takes(k)
    BY <1>1 DEF TakeLoad, TakeTrain, TakePlain, TakeGenerate, Kind
  <2>2. PICK r \in Result : Returns(h, r) /\ r # "cut"
    BY <1>1 DEF TakeLoad, TakeTrain, TakePlain, Refuse, Result
  <2>3. /\ UNCHANGED <<closing, kind, worker, current, produced, cancel, asked, reached, late>>
        /\ model' \in BOOLEAN /\ trainer' \in BOOLEAN
    BY <1>1, <2>1
    DEF TakeLoad, TakeTrain, TakePlain, TakeGenerate, Refuse, Takes, decoding, engine, history,
        EngineInv, TypeOK
  <2>4. h \in Call /\ channel' \in Seq(Call) /\ current = {} BY <2>1, EngineHead
  <2>5. TypeOK' BY <2>2, <2>3, <2>4 DEF EngineInv, TypeOK, Running, Returns
  <2>6. ChannelOK' BY <2>1, <2>2, <2>3, EngineTail DEF Kind
  <2>7. FlagOK' BY <2>3, <2>4 DEF EngineInv, FlagOK
  <2>8. LateOK' BY <2>3 DEF EngineInv, LateOK
  <2>9. CutOnlyIfAsked' BY <2>2, <2>3, <2>4 DEF EngineInv, TypeOK, CutOnlyIfAsked, Returns
  <2> QED BY <2>5, <2>6, <2>7, <2>8, <2>9 DEF EngineInv
<1>2. ASSUME TakeGenerate, Start(FALSE) PROVE EngineInv'
  <2>1. Takes("generate") BY <1>2 DEF TakeGenerate
  <2>2. /\ UNCHANGED <<closing, kind, model, trainer, result, asked, reached, late>>
        /\ current' = {h} /\ worker' = "prefill" /\ produced' = 0 /\ cancel' = FALSE
    BY <1>2, <2>1 DEF TakeGenerate, Start, Takes, engine, history
  <2>3. /\ h \in Call /\ channel' \in Seq(Call) /\ h \notin reached
        /\ kind[h] = "generate" /\ result[h] = "none"
    BY <2>1, EngineHead
  <2>4. produced' \in 0..MaxNew BY <2>2, EngineLimits
  <2>5. TypeOK' BY <2>2, <2>3, <2>4 DEF EngineInv, TypeOK, Running
  <2>6. ChannelOK' BY <2>1, <2>2, EngineTail
  <2>7. FlagOK' BY <2>2, <2>3 DEF EngineInv, FlagOK
  <2>8. LateOK' BY <2>2 DEF EngineInv, LateOK
  <2>9. CutOnlyIfAsked' BY <2>2 DEF EngineInv, CutOnlyIfAsked
  <2> QED BY <2>5, <2>6, <2>7, <2>8, <2>9 DEF EngineInv
<1> QED BY <1>1, <1>2 DEF TakeGenerate

(* The end of a generation keeps the invariant, if only a raised flag cuts it. *)
LEMMA EngineEnds ==
  ASSUME EngineInv, NEW r \in Result, Ends(r), r = "cut" => cancel
  PROVE  EngineInv'
<1>1. PICK c \in current : Returns(c, r) BY DEF Ends
<1>2. /\ UNCHANGED <<channel, closing, kind, cancel, model, trainer, asked, reached, late>>
      /\ current' = {} /\ worker' = "idle" /\ produced' = 0
  BY DEF Ends, commands, engine, history
<1>3. c \in Call /\ kind[c] = "generate" /\ (cancel => c \in asked)
  BY DEF EngineInv, TypeOK, FlagOK
<1>4. TypeOK'
  <2>1. produced' \in 0..MaxNew BY <1>2, EngineLimits
  <2> QED BY <1>1, <1>2, <1>3, <2>1 DEF EngineInv, TypeOK, Running, Returns
<1>5. ChannelOK' BY <1>1, <1>2, <1>3 DEF EngineInv, TypeOK, ChannelOK, Returns
<1>6. FlagOK' BY <1>2 DEF EngineInv, FlagOK
<1>7. LateOK' BY <1>2 DEF EngineInv, LateOK
<1>8. CutOnlyIfAsked' BY <1>1, <1>2, <1>3 DEF EngineInv, TypeOK, CutOnlyIfAsked, Returns
<1> QED BY <1>4, <1>5, <1>6, <1>7, <1>8 DEF EngineInv

(* A round of the decode loop, the prefill and the end of the worker keep the invariant. *)
LEMMA EngineRounds ==
  ASSUME EngineInv, Prefilled \/ Polled \/ Emit \/ Shutdown
  PROVE  EngineInv'
<1>1. /\ UNCHANGED <<channel, closing, kind, current, cancel, model, trainer, result, asked, reached>>
      /\ worker' \in {"poll", "emit", "gone"} /\ (worker' = "gone" <=> worker = "idle")
      /\ (worker' # "gone" => Running)
  BY DEF Prefilled, Polled, Emit, Shutdown, Running, commands, decoding, engine, history
<1>2. produced' \in 0..MaxNew
  <2>1. CASE worker = "emit"
    <3>1. produced' = produced + 1 BY <2>1 DEF Prefilled, Polled, Emit, Shutdown
    <3>2. produced \in 0..MaxNew /\ produced < MaxNew BY <2>1 DEF EngineInv, TypeOK, LateOK
    <3>3. MaxNew \in Nat BY EngineLimits
    <3> QED BY <3>1, <3>2, <3>3
  <2>2. CASE worker # "emit"
    BY <2>2 DEF Prefilled, Polled, Emit, Shutdown, EngineInv, TypeOK
  <2> QED BY <2>1, <2>2
<1>3. late' \in [Call -> Nat]
  <2>1. late \in [Call -> Nat] BY DEF EngineInv, TypeOK
  <2>2. CASE Emit BY <2>1, <2>2 DEF Emit
  <2>3. CASE Prefilled \/ Polled \/ Shutdown
    BY <2>1, <2>3 DEF Prefilled, Polled, Shutdown, history
  <2> QED BY <2>2, <2>3
<1>4. TypeOK' BY <1>1, <1>2, <1>3 DEF EngineInv, TypeOK, Running
<1>5. ChannelOK' /\ FlagOK' /\ CutOnlyIfAsked'
  BY <1>1 DEF EngineInv, ChannelOK, FlagOK, CutOnlyIfAsked
<1>6. LateOK'
  <2>1. CASE Polled
    <3>1. \A c \in current : c \notin reached BY <2>1 DEF Polled, EngineInv, FlagOK
    <3> QED BY <2>1, <3>1 DEF Polled, EngineInv, TypeOK, LateOK, history
  <2>2. CASE Emit BY <1>1, <2>2 DEF Emit, EngineInv, TypeOK, LateOK
  <2>3. CASE Prefilled \/ Shutdown
    BY <1>1, <2>3 DEF Prefilled, Shutdown, EngineInv, LateOK, history
  <2> QED BY <2>1, <2>2, <2>3
<1> QED BY <1>4, <1>5, <1>6 DEF EngineInv

(* Every step keeps the invariant. *)
LEMMA EngineNext == ASSUME EngineInv, Next PROVE EngineInv'
<1>1. CASE TakeLoad \/ TakeTrain \/ TakePlain \/ TakeGenerate BY <1>1, EngineTakes
<1>2. CASE Prefilled \/ Polled \/ Emit \/ Shutdown BY <1>2, EngineRounds
<1>3. CASE GenerateFails BY <1>3, EngineEnds DEF GenerateFails, Result
<1>4. CASE Cut BY <1>4, EngineEnds DEF Cut, Result
<1>5. CASE Ended BY <1>5, EngineEnds DEF Ended, Result
<1>6. CASE Cancel \/ Free \/ (\E c \in Call, k \in Kind : Send(c, k)) BY <1>6, EngineCallers
<1> QED BY <1>1, <1>2, <1>3, <1>4, <1>5, <1>6 DEF Next, Worker
-----------------------------------------------------------------------------
(* The engine handle keeps its inductive invariant. *)
THEOREM EngineInvariant == Spec => []EngineInv
<1>1. Init => EngineInv BY EngineInit
<1>2. EngineInv /\ [Next]_vars => EngineInv' BY EngineNext, EngineStutter
<1> QED BY <1>1, <1>2, PTL DEF Spec

(* State types, and a call for exactly the generation that runs (worker, lib.rs:226-540). *)
THEOREM EngineTyped == Spec => []TypeOK
<1>1. EngineInv => TypeOK BY DEF EngineInv
<1> QED BY <1>1, EngineInvariant, PTL

(* The flag left by a cancel or a free never shortens a generation that was not in flight   *)
(* when it was raised (the store of false at lib.rs:328 and 401).                           *)
THEOREM EngineCutOnlyIfAsked == Spec => []CutOnlyIfAsked
<1>1. EngineInv => CutOnlyIfAsked BY DEF EngineInv
<1> QED BY <1>1, EngineInvariant, PTL

(* A generation that was running when rl_cancel was called delivers at most one more piece  *)
(* (decode_loop, lib.rs:543-565).                                                           *)
THEOREM EngineAtMostOneLate == Spec => []AtMostOneLate
<1>1. EngineInv => AtMostOneLate
  <2> SUFFICES ASSUME EngineInv, NEW c \in Call PROVE late[c] <= 1 BY DEF AtMostOneLate
  <2>1. late[c] \in {0, 1} BY DEF EngineInv, LateOK
  <2> QED BY <2>1
<1> QED BY <1>1, EngineInvariant, PTL
--------------------------------------------------------------------------------
(* GenerationQueue: its inductive invariant. *)

One(s) == s = {} \/ \E x \in s : s = {x}

\* What goes on in which phase of the app, and what excludes what.
PhaseOK ==
  /\ app # "up" => /\ running = {} /\ sending = {} /\ removing = <<>> /\ deleting = {}
                   /\ ~ready
  /\ app = "down" => jobs = <<>>
  /\ restore # <<>> => app = "restoring"
  /\ One(running) /\ One(sending) /\ One(deleting) /\ (sending = {} <=> sendAt = "none")
  /\ stage = "closing" \/ sendAt = "saved" => removing = <<>> /\ deleting = {}
  /\ ~(stage = "closing" /\ sendAt = "saved")

\* A job belongs to one conversation, and with the conversation its row goes.
ConvsOK ==
  /\ \A j \in Job : One(conv[j]) /\ conv[j] \subseteq convs \union deleted
  /\ \A j \in accepted \union sending \union Range(rows) : conv[j] # {}
  /\ \A j \in Range(rows) : conv[j] \subseteq convs
  /\ accepted \intersect sending = {}

\* What is queued anywhere was enqueued and has not left the queue; what is in
\* memory is in the manifest, too.
ListedOK ==
  /\ Range(jobs) \subseteq Range(manifest)
  /\ Range(manifest) \union Range(restore) \subseteq accepted \ settled
  /\ settled \union running \subseteq accepted
  /\ Range(removing) \subseteq accepted \intersect given_up

\* No row r of job j comes before one of job i.
Ahead(r, i, j) == \A x, y \in DOMAIN r : r[x] = i /\ r[y] = j => x < y

Follows(r, q) == \A a, b \in DOMAIN q : a < b => Ahead(r, q[a], q[b])

Distinct(r) == \A x, y \in DOMAIN r : r[x] = r[y] => x = y

\* Every queue is in the order of the rows.
OrderOK ==
  /\ Distinct(rows) /\ Follows(rows, jobs) /\ Follows(rows, manifest) /\ Follows(rows, restore)
  /\ \A i \in Range(jobs), j \in Range(restore) : Ahead(rows, i, j)
  /\ \A i \in accepted, j \in sending : Ahead(rows, i, j)

\* The running job is the head of the queue, unless Delete has taken it out.
RunningOK ==
  /\ \A j \in running \intersect Range(jobs) : j = Head(jobs)
  /\ ready /\ running = {} => jobs = <<>>
  /\ running \intersect settled \subseteq given_up
  /\ \A j \in running \intersect Range(rows) : j \in Range(jobs) \/ conv[j] = deleting
  /\ \A j \in Range(removing) : IF deleting = {} THEN j \notin running ELSE conv[j] = deleting
  /\ deleting # {} => \A j \in Range(jobs) : conv[j] = deleting => j \in given_up

\* Jobs that have to run with what they were sent with.
Attached == WithMedia \ (ended \union given_up)

MediaOK ==
  /\ \A j \in Attached \intersect (Range(manifest) \union Range(restore)) :
       conv[j] \subseteq convs => j \in media
  /\ Attached \intersect (Range(jobs) \union running) \subseteq held
  /\ sendAt = "saved" => sending \intersect WithMedia \subseteq media

\* A job that left the queue has its answer, or was given up.
AnswersOK ==
  /\ stage = "closing" => running \intersect Range(rows) \subseteq answered
  /\ settled \intersect Range(rows) \subseteq answered \union given_up

SurvivesOK ==
  \A j \in accepted \ settled : conv[j] \subseteq convs /\ ~hurt =>
    /\ app = "down" => j \in Range(manifest)
    /\ app = "restoring" => j \in Range(jobs) \union Range(restore)
    /\ app = "up" => j \in Range(jobs)

AppInv == AppTypeOK /\ PhaseOK /\ ConvsOK /\ ListedOK /\ OrderOK /\ RunningOK /\ MediaOK
            /\ AnswersOK /\ SurvivesOK
--------------------------------------------------------------------------------
(* What the steps do to the entries of a list and to their order. *)

LEMMA AppendedRange ==
  ASSUME NEW T, NEW q \in Seq(T), NEW j \in T
  PROVE  /\ Append(q, j) \in Seq(T) /\ Append(q, j) # <<>>
         /\ Range(Append(q, j)) = Range(q) \union {j}
         /\ q # <<>> => Head(Append(q, j)) = Head(q)
         /\ q = <<>> => Head(Append(q, j)) = j
<1> DEFINE w == Append(q, j)
<1>1. /\ w \in Seq(T) /\ Len(q) \in Nat /\ DOMAIN q = 1..Len(q)
      /\ Len(w) = Len(q) + 1 /\ \A i \in 1..Len(q) : w[i] = q[i]
      /\ w[Len(q) + 1] = j
  BY AppendProperties, LenProperties
<1>2. DOMAIN w = 1..(Len(q) + 1) BY <1>1, LenProperties
<1>3. w # <<>> /\ Head(w) = w[1] BY <1>1
<1> HIDE DEF w
<1>4. Range(w) = Range(q) \union {j}
  <2>1. \A i \in 1..(Len(q) + 1) : i \in 1..Len(q) \/ i = Len(q) + 1 BY <1>1
  <2>2. Range(w) \subseteq Range(q) \union {j} BY <1>1, <1>2, <2>1 DEF Range
  <2>3. 1..Len(q) \subseteq 1..(Len(q) + 1) /\ Len(q) + 1 \in 1..(Len(q) + 1) BY <1>1
  <2>4. Range(q) \union {j} \subseteq Range(w) BY <1>1, <1>2, <2>3 DEF Range
  <2> QED BY <2>2, <2>4
<1>5. q # <<>> => Head(w) = Head(q)
  <2> SUFFICES ASSUME q # <<>> PROVE Head(w) = Head(q) OBVIOUS
  <2>1. 1 \in 1..Len(q) /\ Head(q) = q[1] BY <1>1, EmptySeq
  <2> QED BY <1>1, <1>3, <2>1
<1>6. q = <<>> => Head(w) = j BY <1>1, <1>3
<1> QED BY <1>1, <1>3, <1>4, <1>5, <1>6 DEF w

LEMMA TailRange ==
  ASSUME NEW T, NEW q \in Seq(T), q # <<>>
  PROVE  /\ Tail(q) \in Seq(T) /\ Head(q) \in T
         /\ Range(q) = Range(Tail(q)) \union {Head(q)}
<1> DEFINE t == Tail(q)
<1>1. /\ Len(q) \in Nat \ {0} /\ DOMAIN q = 1..Len(q) /\ Head(q) = q[1] /\ q[1] \in T
      /\ t \in Seq(T) /\ Len(t) = Len(q) - 1 /\ \A i \in 1..Len(t) : t[i] = q[i + 1]
  <2>1. Len(q) \in Nat \ {0} /\ DOMAIN q = 1..Len(q) BY LenProperties, EmptySeq
  <2>2. t \in Seq(T) /\ Len(t) = Len(q) - 1 /\ \A i \in 1..Len(t) : t[i] = q[i + 1]
    BY HeadTailProperties
  <2>3. Head(q) = q[1] /\ q[1] \in T BY <2>1, ElementOfSeq
  <2> QED BY <2>1, <2>2, <2>3
<1>2. DOMAIN t = 1..Len(t) BY <1>1, LenProperties
<1> HIDE DEF t
<1>3. \A i \in 1..Len(t) : i + 1 \in 1..Len(q) BY <1>1
<1>4. \A i \in 1..Len(q) : i = 1 \/ (i - 1 \in 1..Len(t) /\ t[i - 1] = q[i]) BY <1>1
<1>5. 1 \in 1..Len(q) BY <1>1
<1>6. Range(t) \union {q[1]} \subseteq Range(q) BY <1>1, <1>2, <1>3, <1>5 DEF Range
<1>7. Range(q) \subseteq Range(t) \union {q[1]}
  <2> SUFFICES ASSUME NEW i \in 1..Len(q), i # 1 PROVE q[i] \in Range(t)
    BY <1>1 DEF Range
  <2> QED BY <1>2, <1>4 DEF Range
<1> QED BY <1>1, <1>6, <1>7 DEF t

LEMMA WithoutRange ==
  ASSUME NEW T, NEW q \in Seq(T), NEW S
  PROVE  /\ Without(q, S) \in Seq(T) /\ Range(Without(q, S)) = Range(q) \ S
<1>1. Range(Without(q, S)) \subseteq Range(q) \ S BY WithoutEntries DEF Range
<1>2. Range(q) \ S \subseteq Range(Without(q, S)) BY WithoutEntries DEF Range
<1> QED BY <1>1, <1>2, WithoutPlaces

LEMMA EmptyRange ==
  /\ Range(<<>>) = {}
  /\ \A T : \A q \in Seq(T) : q # <<>> => Head(q) \in Range(q)
<1>1. Range(<<>>) = {} BY DEF Range
<1>2. ASSUME NEW T, NEW q \in Seq(T), q # <<>> PROVE Head(q) \in Range(q) BY <1>2, TailRange
<1> QED BY <1>1, <1>2

\* An entry that is ahead of none in the list goes to its end.
LEMMA FollowsAppended ==
  ASSUME NEW T, NEW r, NEW q \in Seq(T), NEW j \in T, Follows(r, q),
         \A i \in Range(q) : Ahead(r, i, j)
  PROVE  Follows(r, Append(q, j))
<1> DEFINE w == Append(q, j)
<1>1. /\ w \in Seq(T) /\ Len(q) \in Nat /\ DOMAIN q = 1..Len(q)
      /\ Len(w) = Len(q) + 1 /\ \A i \in 1..Len(q) : w[i] = q[i]
      /\ w[Len(q) + 1] = j
  BY AppendProperties, LenProperties
<1>2. DOMAIN w = 1..(Len(q) + 1) BY <1>1, LenProperties
<1> HIDE DEF w
<1> SUFFICES ASSUME NEW a \in 1..(Len(q) + 1), NEW b \in 1..(Len(q) + 1), a < b
             PROVE  Ahead(r, w[a], w[b])
  BY <1>2 DEF Follows, w
<1>3. a \in 1..Len(q) /\ w[a] = q[a] /\ w[a] \in Range(q) BY <1>1 DEF Range
<1>4. CASE b = Len(q) + 1 BY <1>1, <1>3, <1>4
<1>5. CASE b # Len(q) + 1
  <2>1. b \in 1..Len(q) /\ w[b] = q[b] BY <1>1, <1>5
  <2> QED BY <1>1, <1>3, <2>1 DEF Follows
<1> QED BY <1>4, <1>5

LEMMA FollowsTail ==
  ASSUME NEW T, NEW r, NEW q \in Seq(T), q # <<>>, Follows(r, q)
  PROVE  Follows(r, Tail(q)) /\ \A j \in Range(Tail(q)) : Ahead(r, Head(q), j)
<1> DEFINE t == Tail(q)
<1>1. /\ Len(q) \in Nat \ {0} /\ DOMAIN q = 1..Len(q) /\ Head(q) = q[1]
      /\ t \in Seq(T) /\ Len(t) = Len(q) - 1 /\ \A i \in 1..Len(t) : t[i] = q[i + 1]
  <2>1. Len(q) \in Nat \ {0} /\ DOMAIN q = 1..Len(q) BY LenProperties, EmptySeq
  <2>2. t \in Seq(T) /\ Len(t) = Len(q) - 1 /\ \A i \in 1..Len(t) : t[i] = q[i + 1]
    BY HeadTailProperties
  <2> QED BY <2>1, <2>2
<1>2. DOMAIN t = 1..Len(t) BY <1>1, LenProperties
<1> HIDE DEF t
<1>3. \A i \in 1..Len(t) : i + 1 \in 1..Len(q) /\ 1 < i + 1 BY <1>1
<1>4. 1 \in 1..Len(q) BY <1>1
<1>5. \A i \in 1..Len(t) : Ahead(r, q[1], t[i]) BY <1>1, <1>3, <1>4 DEF Follows
<1>6. \A a, b \in 1..Len(t) : a < b => a + 1 < b + 1 BY <1>1
<1>7. Follows(r, t) BY <1>1, <1>2, <1>3, <1>6 DEF Follows
<1> QED BY <1>1, <1>2, <1>5, <1>7 DEF t, Range

LEMMA FollowsWithout ==
  ASSUME NEW T, NEW r, NEW q \in Seq(T), NEW S, Follows(r, q)
  PROVE  Follows(r, Without(q, S))
<1> DEFINE w == Without(q, S)
<1>1. PICK at \in [DOMAIN w -> DOMAIN q] :
        /\ \A n \in DOMAIN w : w[n] = q[at[n]] /\ q[at[n]] \notin S
        /\ \A n, m \in DOMAIN w : n < m => at[n] < at[m]
  BY WithoutPlaces
<1> HIDE DEF w
<1>2. Follows(r, w)
  <2> SUFFICES ASSUME NEW n \in DOMAIN w, NEW m \in DOMAIN w, n < m
               PROVE  Ahead(r, w[n], w[m])
    BY DEF Follows
  <2>1. at[n] \in DOMAIN q /\ at[m] \in DOMAIN q /\ at[n] < at[m] BY <1>1
  <2> QED BY <1>1, <2>1 DEF Follows
<1> QED BY <1>2 DEF w

\* Rows that go leave the others in their order.
LEMMA FewerRows ==
  ASSUME NEW T, NEW r \in Seq(T), NEW S
  PROVE  /\ \A i, j : Ahead(r, i, j) => Ahead(Without(r, S), i, j)
         /\ \A q : Follows(r, q) => Follows(Without(r, S), q)
         /\ Distinct(r) => Distinct(Without(r, S))
<1> DEFINE w == Without(r, S)
<1>1. w \in Seq(T) BY WithoutPlaces
<1>2. PICK at \in [DOMAIN w -> DOMAIN r] :
        /\ \A n \in DOMAIN w : w[n] = r[at[n]] /\ r[at[n]] \notin S
        /\ \A n, m \in DOMAIN w : n < m => at[n] < at[m]
  BY WithoutPlaces
<1> HIDE DEF w
<1>3. DOMAIN w = 1..Len(w) /\ DOMAIN r = 1..Len(r) BY <1>1, LenProperties
<1>4. \A n, m \in DOMAIN w : n < m \/ m < n \/ n = m BY <1>3
<1>5. \A n \in DOMAIN w : at[n] \in Int BY <1>3
<1>6. \A n, m \in DOMAIN w : at[n] < at[m] => n < m
  <2> SUFFICES ASSUME NEW n \in DOMAIN w, NEW m \in DOMAIN w, at[n] < at[m] PROVE n < m
    OBVIOUS
  <2>1. at[n] \in Int /\ at[m] \in Int /\ n \in Int /\ m \in Int BY <1>3, <1>5
  <2>2. ~(at[m] < at[n]) /\ at[n] # at[m] BY <2>1
  <2> QED BY <1>2, <1>4, <2>2
<1>7. ASSUME NEW i, NEW j, Ahead(r, i, j) PROVE Ahead(w, i, j)
  <2> SUFFICES ASSUME NEW x \in DOMAIN w, NEW y \in DOMAIN w, w[x] = i, w[y] = j PROVE x < y
    BY DEF Ahead
  <2>1. at[x] \in DOMAIN r /\ at[y] \in DOMAIN r /\ r[at[x]] = i /\ r[at[y]] = j BY <1>2
  <2> QED BY <2>1, <1>6, <1>7 DEF Ahead
<1>8. ASSUME Distinct(r) PROVE Distinct(w)
  <2> SUFFICES ASSUME NEW x \in DOMAIN w, NEW y \in DOMAIN w, w[x] = w[y] PROVE x = y
    BY DEF Distinct
  <2>1. at[x] = at[y] /\ at[x] \in Int BY <1>2, <1>5, <1>8 DEF Distinct
  <2>2. ~(x < y) /\ ~(y < x) BY <1>2, <2>1
  <2> QED BY <1>4, <2>2
<1>9. \A q : Follows(r, q) => Follows(w, q) BY <1>7 DEF Follows
<1> QED BY <1>7, <1>8, <1>9 DEF w

\* A new row comes after all others.
LEMMA MoreRows ==
  ASSUME NEW T, NEW r \in Seq(T), NEW j \in T, j \notin Range(r)
  PROVE  /\ Distinct(r) => Distinct(Append(r, j))
         /\ \A i, k : i # j /\ k # j /\ Ahead(r, i, k) => Ahead(Append(r, j), i, k)
         /\ \A i : i # j => Ahead(Append(r, j), i, j)
<1> DEFINE w == Append(r, j)
<1>1. /\ Len(r) \in Nat /\ DOMAIN r = 1..Len(r) /\ w \in Seq(T)
      /\ Len(w) = Len(r) + 1 /\ \A i \in 1..Len(r) : w[i] = r[i] /\ r[i] # j
      /\ w[Len(r) + 1] = j
  BY AppendProperties, LenProperties DEF Range
<1>2. DOMAIN w = 1..(Len(r) + 1) BY <1>1, LenProperties
<1> HIDE DEF w
<1>3. \A x \in DOMAIN w : (x \in DOMAIN r /\ w[x] = r[x] /\ w[x] # j) \/ (x = Len(r) + 1 /\ w[x] = j)
  BY <1>1, <1>2
<1>4. Distinct(r) => Distinct(w) BY <1>3 DEF Distinct
<1>5. \A i, k : i # j /\ k # j /\ Ahead(r, i, k) => Ahead(w, i, k) BY <1>3 DEF Ahead
<1>6. \A x \in DOMAIN r : x < Len(r) + 1 BY <1>1
<1>7. \A i : i # j => Ahead(w, i, j) BY <1>3, <1>6 DEF Ahead
<1> QED BY <1>4, <1>5, <1>7 DEF w
--------------------------------------------------------------------------------
(* Steps that leave the queue alone. *)

LEMMA AppStarts == ASSUME AppInit PROVE AppInv
<1> USE DEF AppInit
<1>1. AppTypeOK
  <2>1. Cardinality(running) <= 1 BY FS_EmptySet
  <2>2. crashes \in 0..MaxCrashes BY QueueInputs
  <2>3. <<>> \in Seq(Job) BY EmptySeq
  <2>4. conv \in [Job -> SUBSET Conv] /\ \A s \in {accepted, settled, given_up, ended} : s \subseteq Job
    OBVIOUS
  <2> QED BY <2>1, <2>2, <2>3, <2>4 DEF AppTypeOK
<1>2. PhaseOK BY DEF PhaseOK, One
<1>3. ConvsOK /\ ListedOK BY EmptyRange DEF ConvsOK, ListedOK, One
<1>4. OrderOK BY EmptyRange DEF OrderOK, Distinct, Follows
<1>5. RunningOK /\ MediaOK /\ AnswersOK /\ SurvivesOK
  BY EmptyRange DEF RunningOK, MediaOK, AnswersOK, SurvivesOK
<1> QED BY <1>1, <1>2, <1>3, <1>4, <1>5 DEF AppInv

LEMMA AppStutters == ASSUME AppInv, UNCHANGED appVars PROVE AppInv'
<1> USE DEF AppInv, appVars, database, memory, pump, send, removal, past
<1>1. AppTypeOK' BY DEF AppTypeOK
<1>2. PhaseOK' BY DEF PhaseOK
<1>3. ConvsOK' BY DEF ConvsOK
<1>4. ListedOK' BY DEF ListedOK
<1>5. OrderOK' BY DEF OrderOK
<1>6. RunningOK' BY DEF RunningOK
<1>7. MediaOK' BY DEF MediaOK, Attached
<1>8. AnswersOK' BY DEF AnswersOK
<1>9. SurvivesOK' BY DEF SurvivesOK
<1> QED BY <1>1, <1>2, <1>3, <1>4, <1>5, <1>6, <1>7, <1>8, <1>9

LEMMA AppFlush == ASSUME AppInv, Flush PROVE AppInv'
<1> USE DEF AppInv
<1>0. /\ stage = "gen" /\ answered' = answered \ running
      /\ UNCHANGED <<app, ready, convs, deleted, conv, rows, manifest, media, jobs, held>>
      /\ UNCHANGED <<running, stage, sending, sendAt, removing, deleting, restore, crashes>>
      /\ UNCHANGED <<accepted, settled, given_up, ended, hurt>>
  BY DEF Flush, memory, pump, send, removal, past
<1>1. AppTypeOK' BY <1>0 DEF AppTypeOK
<1>2. PhaseOK' BY <1>0 DEF PhaseOK
<1>3. ConvsOK' BY <1>0 DEF ConvsOK
<1>4. ListedOK' BY <1>0 DEF ListedOK
<1>5. OrderOK' BY <1>0 DEF OrderOK
<1>6. RunningOK' BY <1>0 DEF RunningOK
<1>7. MediaOK' BY <1>0 DEF MediaOK, Attached
<1>8. AnswersOK' BY <1>0 DEF AnswersOK, RunningOK
<1>9. SurvivesOK' BY <1>0 DEF SurvivesOK
<1> QED BY <1>1, <1>2, <1>3, <1>4, <1>5, <1>6, <1>7, <1>8, <1>9

LEMMA AppFinish == ASSUME AppInv, Finish PROVE AppInv'
<1> USE DEF AppInv
<1>0. /\ stage = "gen" /\ stage' = "closing" /\ UIFree
      /\ answered' = answered \union (running \intersect Range(rows))
      /\ ended' = ended \union running /\ media' = media \ running
      /\ UNCHANGED <<app, ready, convs, deleted, conv, rows, manifest, jobs, held>>
      /\ UNCHANGED <<running, sending, sendAt, removing, deleting, restore, crashes>>
      /\ UNCHANGED <<accepted, settled, given_up, hurt>>
  BY DEF Finish, memory, pump, send, removal, past
<1>1. AppTypeOK' BY <1>0 DEF AppTypeOK
<1>2. PhaseOK' BY <1>0 DEF PhaseOK, UIFree
<1>3. ConvsOK' BY <1>0 DEF ConvsOK
<1>4. ListedOK' BY <1>0 DEF ListedOK
<1>5. OrderOK' BY <1>0 DEF OrderOK
<1>6. RunningOK' BY <1>0 DEF RunningOK
<1>7. MediaOK'
  <2>1. sendAt # "saved" BY <1>0 DEF UIFree
  <2> QED BY <1>0, <2>1 DEF MediaOK, Attached
<1>8. AnswersOK' BY <1>0 DEF AnswersOK
<1>9. SurvivesOK' BY <1>0 DEF SurvivesOK
<1> QED BY <1>1, <1>2, <1>3, <1>4, <1>5, <1>6, <1>7, <1>8, <1>9

LEMMA AppSaveMedia == ASSUME AppInv, SaveJobMedia PROVE AppInv'
<1> USE DEF AppInv
<1>0. /\ UIFree /\ sendAt = "rag" /\ sendAt' = "saved"
      /\ media' = media \union (sending \intersect WithMedia)
      /\ UNCHANGED <<app, ready, convs, deleted, conv, rows, answered, manifest, jobs, held>>
      /\ UNCHANGED <<running, stage, sending, removing, deleting, restore, crashes>>
      /\ UNCHANGED <<accepted, settled, given_up, ended, hurt>>
  BY DEF SaveJobMedia, database, memory, pump, removal, past
<1>1. AppTypeOK' BY <1>0 DEF AppTypeOK
<1>2. PhaseOK' BY <1>0 DEF PhaseOK, UIFree
<1>3. ConvsOK' BY <1>0 DEF ConvsOK
<1>4. ListedOK' BY <1>0 DEF ListedOK
<1>5. OrderOK' BY <1>0 DEF OrderOK
<1>6. RunningOK' BY <1>0 DEF RunningOK
<1>7. MediaOK' BY <1>0 DEF MediaOK, Attached
<1>8. AnswersOK' BY <1>0 DEF AnswersOK
<1>9. SurvivesOK' BY <1>0 DEF SurvivesOK
<1> QED BY <1>1, <1>2, <1>3, <1>4, <1>5, <1>6, <1>7, <1>8, <1>9

LEMMA AppRestarts == ASSUME AppInv, Restart \/ Restored PROVE AppInv'
<1> USE DEF AppInv
<1>0. /\ \/ app = "down" /\ app' = "restoring" /\ restore' = manifest
         \/ app = "restoring" /\ restore = <<>> /\ app' = "up" /\ UNCHANGED restore
      /\ UNCHANGED <<ready, convs, deleted, conv, rows, answered, manifest, media, jobs, held>>
      /\ UNCHANGED <<running, stage, sending, sendAt, removing, deleting, crashes>>
      /\ UNCHANGED <<accepted, settled, given_up, ended, hurt>>
  BY DEF Restart, Restored, Load, database, memory, pump, send, removal, past
<1>1. AppTypeOK' BY <1>0 DEF AppTypeOK
<1>2. PhaseOK' BY <1>0 DEF PhaseOK
<1>3. ConvsOK' BY <1>0 DEF ConvsOK
<1>4. ListedOK' BY <1>0 DEF ListedOK
<1>5. OrderOK'
  <2>1. app = "down" => Range(jobs) = {} BY EmptyRange DEF PhaseOK
  <2> QED BY <1>0, <2>1 DEF OrderOK
<1>6. RunningOK' BY <1>0 DEF RunningOK
<1>7. MediaOK' BY <1>0 DEF MediaOK, Attached
<1>8. AnswersOK' BY <1>0 DEF AnswersOK
<1>9. SurvivesOK' BY <1>0, EmptyRange DEF SurvivesOK
<1> QED BY <1>1, <1>2, <1>3, <1>4, <1>5, <1>6, <1>7, <1>8, <1>9

\* A crash keeps what is on disk, or loses the manifest, too.
LEMMA AppCrash == ASSUME AppInv, Crash PROVE AppInv'
<1> USE DEF AppInv
<1>0. /\ app # "down" /\ crashes < MaxCrashes /\ crashes' = crashes + 1
      /\ app' = "down" /\ ready' = FALSE /\ jobs' = <<>> /\ held' = {} /\ running' = {}
      /\ stage' = "none" /\ sending' = {} /\ sendAt' = "none" /\ removing' = <<>>
      /\ deleting' = {} /\ restore' = <<>>
      /\ \/ UNCHANGED manifest /\ hurt' = (hurt \/ restore # <<>>)
         \/ manifest' = <<>> /\ hurt' = TRUE
      /\ UNCHANGED <<convs, deleted, conv, rows, answered, media>>
      /\ UNCHANGED <<accepted, settled, given_up, ended>>
  BY DEF Crash, database
<1>r. Range(<<>>) = {} BY EmptyRange
<1>1. AppTypeOK'
  <2>1. Cardinality({}) <= 1 BY FS_EmptySet
  <2>2. crashes' \in 0..MaxCrashes BY <1>0, QueueInputs DEF AppTypeOK
  <2>3. <<>> \in Seq(Job) BY EmptySeq
  <2>4. manifest' \in Seq(Job) BY <1>0, <2>3 DEF AppTypeOK
  <2>5. hurt' \in BOOLEAN BY <1>0 DEF AppTypeOK
  <2>6. \A s \in {accepted, settled, given_up, ended}' : s \subseteq Job BY <1>0 DEF AppTypeOK
  <2>7. /\ convs' \subseteq Conv /\ deleted' \subseteq Conv /\ conv' \in [Job -> SUBSET Conv]
        /\ rows' \in Seq(Job) /\ answered' \subseteq Job /\ media' \subseteq WithMedia
    BY <1>0 DEF AppTypeOK
  <2> HIDE DEF AppInv
  <2> QED BY <1>0, <2>1, <2>2, <2>3, <2>4, <2>5, <2>6, <2>7 DEF AppTypeOK
<1>2. PhaseOK' BY <1>0 DEF PhaseOK, One
<1>3. ConvsOK' BY <1>0 DEF ConvsOK
<1>4. ListedOK' BY <1>0, <1>r DEF ListedOK
<1>5. OrderOK'
  <2>1. Follows(rows, <<>>) BY DEF Follows
  <2> QED BY <1>0, <1>r, <2>1 DEF OrderOK
<1>6. RunningOK' BY <1>0, <1>r DEF RunningOK
<1>7. MediaOK' BY <1>0, <1>r DEF MediaOK, Attached
<1>8. AnswersOK' BY <1>0 DEF AnswersOK
<1>9. SurvivesOK'
  <2>1. restore = <<>> => Range(restore) = {} BY <1>r
  <2>2. app \in {"restoring", "up"} BY <1>0 DEF AppTypeOK
  <2> QED BY <1>0, <2>1, <2>2 DEF SurvivesOK, ListedOK
<1> QED BY <1>1, <1>2, <1>3, <1>4, <1>5, <1>6, <1>7, <1>8, <1>9
--------------------------------------------------------------------------------
(* Steps of the pump and of SendAsync. *)

\* What a kick leaves of the type invariant, and whom it starts.
LEMMA KickStarts ==
  ASSUME AppTypeOK, PhaseOK, NEW q \in Seq(Job), Kick(q)
  PROVE  /\ running' \subseteq Job /\ Cardinality(running') <= 1 /\ One(running')
         /\ stage' \in {"none", "gen", "closing"} /\ (running' = {} <=> stage' = "none")
         /\ \/ running' = running /\ stage' = stage /\ (running # {} \/ q = <<>>)
            \/ running = {} /\ q # <<>> /\ running' = {Head(q)} /\ stage' = "gen"
<1>1. CASE running # {} \/ q = <<>>
  BY <1>1 DEF Kick, pump, AppTypeOK, PhaseOK, One
<1>2. CASE ~(running # {} \/ q = <<>>)
  <2>1. running' = {Head(q)} /\ stage' = "gen" BY <1>2 DEF Kick
  <2>2. Head(q) \in Job /\ Cardinality({Head(q)}) = 1 BY <1>2, TailRange, FS_Singleton
  <2> QED BY <1>2, <2>1, <2>2 DEF One
<1> QED BY <1>1, <1>2

LEMMA AppPumpNext == ASSUME AppInv, PumpNext PROVE AppInv'
<1> USE DEF AppInv
<1> DEFINE left == Without(jobs, running)
<1>0. /\ stage = "closing" /\ jobs' = left /\ manifest' = left
      /\ settled' = settled \union running
      /\ \/ left = <<>> /\ running' = {} /\ stage' = "none"
         \/ left # <<>> /\ running' = {Head(left)} /\ stage' = "gen"
      /\ UNCHANGED <<app, ready, convs, deleted, conv, rows, answered, media, held>>
      /\ UNCHANGED <<sending, sendAt, removing, deleting, restore, crashes>>
      /\ UNCHANGED <<accepted, given_up, ended, hurt>>
  BY DEF PumpNext, Advances, Queued, database, send, removal
<1>a. /\ jobs \in Seq(Job) /\ left \in Seq(Job) /\ Range(left) = Range(jobs) \ running
      /\ left # <<>> => Head(left) \in Range(left) /\ Head(left) \in Job
      /\ left = <<>> => Range(left) = {}
  BY WithoutRange, EmptyRange, TailRange DEF AppTypeOK
<1> HIDE DEF left
<1>b. /\ running # {} /\ app = "up" /\ removing = <<>> /\ deleting = {} /\ sendAt # "saved"
      /\ restore = <<>> /\ Range(removing) = {} /\ Range(restore) = {}
  BY <1>0, EmptyRange DEF PhaseOK, AppTypeOK
<1>c. One(running') /\ Cardinality(running') <= 1 /\ running' \subseteq Range(left)
  <2>1. Cardinality({}) = 0 /\ Cardinality({Head(left)}) = 1 BY FS_EmptySet, FS_Singleton
  <2>2. Cardinality(running') <= 1 BY <1>0, <2>1
  <2>3. One(running') /\ running' \subseteq Range(left) BY <1>0, <1>a DEF One
  <2> QED BY <2>2, <2>3
<1>1. AppTypeOK'
  <2>1. running' \subseteq Job /\ (running' = {} <=> stage' = "none") BY <1>0, <1>a
  <2> QED BY <1>0, <1>a, <1>c, <2>1 DEF AppTypeOK
<1>2. PhaseOK' BY <1>0, <1>b, <1>c DEF PhaseOK
<1>3. ConvsOK' BY <1>0 DEF ConvsOK
<1>4. ListedOK' BY <1>0, <1>a, <1>b, <1>c DEF ListedOK
<1>5. OrderOK'
  <2>1. Follows(rows, left) BY <1>a, FollowsWithout DEF OrderOK, left
  <2> QED BY <1>0, <1>a, <1>b, <2>1 DEF OrderOK
<1>6. RunningOK'
  <2>1. \A j \in running' : j = Head(left) /\ j \in Range(left) BY <1>0, <1>c
  <2>2. Range(left) \intersect settled' = {} BY <1>0, <1>a DEF ListedOK
  <2> QED BY <1>0, <1>b, <2>1, <2>2 DEF RunningOK
<1>7. MediaOK' BY <1>0, <1>a, <1>b, <1>c DEF MediaOK, Attached, ListedOK
<1>8. AnswersOK' BY <1>0 DEF AnswersOK
<1>9. SurvivesOK' BY <1>0, <1>a, <1>b DEF SurvivesOK
<1> QED BY <1>1, <1>2, <1>3, <1>4, <1>5, <1>6, <1>7, <1>8, <1>9

LEMMA AppLoadModel == ASSUME AppInv, LoadModel PROVE AppInv'
<1> USE DEF AppInv
<1>0. /\ UIFree /\ running = {} /\ ready' = TRUE /\ manifest' = jobs /\ Kick(jobs)
      /\ UNCHANGED <<app, convs, deleted, conv, rows, answered, media, jobs, held>>
      /\ UNCHANGED <<sending, sendAt, removing, deleting, restore, crashes>>
      /\ UNCHANGED <<accepted, settled, given_up, ended, hurt>>
  BY DEF LoadModel, database, memory, send, removal, past
<1>a. jobs \in Seq(Job) BY DEF AppTypeOK
<1>b. /\ running' \subseteq Job /\ Cardinality(running') <= 1 /\ One(running')
      /\ stage' \in {"none", "gen", "closing"} /\ (running' = {} <=> stage' = "none")
      /\ \/ running' = {} /\ stage' = stage /\ jobs = <<>>
         \/ jobs # <<>> /\ running' = {Head(jobs)} /\ stage' = "gen"
  BY <1>0, <1>a, KickStarts
<1>c. /\ app = "up" /\ removing = <<>> /\ deleting = {} /\ sendAt # "saved"
      /\ stage # "closing" /\ restore = <<>> /\ Range(removing) = {} /\ Range(restore) = {}
  BY <1>0, EmptyRange DEF UIFree, PhaseOK
<1>d. \A j \in running' : j = Head(jobs) /\ j \in Range(jobs) BY <1>a, <1>b, EmptyRange
<1>1. AppTypeOK' BY <1>0, <1>b DEF AppTypeOK
<1>2. PhaseOK' BY <1>0, <1>b, <1>c DEF PhaseOK
<1>3. ConvsOK' BY <1>0 DEF ConvsOK
<1>4. ListedOK' BY <1>0, <1>d DEF ListedOK
<1>5. OrderOK' BY <1>0 DEF OrderOK
<1>6. RunningOK'
  <2>1. Range(jobs) \intersect settled = {} BY DEF ListedOK
  <2> QED BY <1>0, <1>b, <1>c, <1>d, <2>1 DEF RunningOK
<1>7. MediaOK' BY <1>0, <1>c, <1>d DEF MediaOK, Attached, ListedOK
<1>8. AnswersOK' BY <1>0, <1>b, <1>c DEF AnswersOK
<1>9. SurvivesOK' BY <1>0, <1>c DEF SurvivesOK
<1> QED BY <1>1, <1>2, <1>3, <1>4, <1>5, <1>6, <1>7, <1>8, <1>9

LEMMA AppSendBegin ==
  ASSUME AppInv, NEW j \in Job, NEW c \in Conv, SendBegin(j, c)
  PROVE  AppInv'
<1> USE DEF AppInv
<1>0. /\ UIFree /\ sending = {} /\ conv[j] = {} /\ c \notin deleted
      /\ conv' = [conv EXCEPT ![j] = {c}] /\ convs' = convs \union {c}
      /\ rows' = Append(rows, j) /\ sending' = {j} /\ sendAt' = "rag"
      /\ UNCHANGED <<app, ready, deleted, answered, manifest, media, jobs, held>>
      /\ UNCHANGED <<running, stage, removing, deleting, restore, crashes>>
      /\ UNCHANGED <<accepted, settled, given_up, ended, hurt>>
  BY DEF SendBegin, memory, pump, removal, past
<1>a. /\ rows' \in Seq(Job) /\ Range(rows') = Range(rows) \union {j}
  BY <1>0, AppendedRange DEF AppTypeOK
<1>b. /\ app = "up" /\ removing = <<>> /\ deleting = {} /\ Range(removing) = {}
  BY <1>0, EmptyRange DEF UIFree
<1>c. j \notin accepted /\ j \notin Range(rows) BY <1>0 DEF ConvsOK
<1>d. /\ j \notin Range(jobs) /\ j \notin Range(manifest) /\ j \notin Range(restore)
      /\ j \notin running /\ j \notin settled
  BY <1>c DEF ListedOK
<1>e. conv \in [Job -> SUBSET Conv] /\ convs \subseteq Conv BY DEF AppTypeOK
<1>f. conv'[j] = {c} /\ \A i \in Job : i # j => conv'[i] = conv[i] BY <1>0, <1>e
<1>g. \A i \in Job : conv[i] # {} => (conv[i] \subseteq convs' <=> conv[i] \subseteq convs)
  <2> SUFFICES ASSUME NEW i \in Job, conv[i] # {}, conv[i] \subseteq convs'
               PROVE  conv[i] \subseteq convs
    BY <1>0
  <2>1. PICK d : conv[i] = {d} BY DEF ConvsOK, One
  <2>2. d \in convs \union deleted BY <2>1 DEF ConvsOK
  <2> QED BY <1>0, <2>1, <2>2
<1>t. accepted \subseteq Job /\ Range(rows) \subseteq Job
  <2>1. Range(rows) \subseteq Job BY ElementOfSeq DEF AppTypeOK, Range
  <2> QED BY <2>1 DEF AppTypeOK
<1>1. AppTypeOK'
  <2>1. conv' \in [Job -> SUBSET Conv] BY <1>0, <1>e
  <2>2. convs' \subseteq Conv /\ sending' \subseteq Job BY <1>0, <1>e
  <2> HIDE DEF AppInv
  <2>3. AppTypeOK BY DEF AppInv
  <2> QED BY <1>0, <1>a, <2>1, <2>2, <2>3 DEF AppTypeOK
<1>2. PhaseOK' BY <1>0, <1>b DEF PhaseOK, One, UIFree
<1>3. ConvsOK'
  <2>1. \A i \in Job : One(conv'[i]) /\ conv'[i] \subseteq convs' \union deleted
    BY <1>0, <1>f DEF ConvsOK, One
  <2>2. \A i \in accepted \union {j} \union Range(rows') : conv'[i] # {}
    BY <1>a, <1>f, <1>t DEF ConvsOK
  <2>3. \A i \in Range(rows') : conv'[i] \subseteq convs' BY <1>0, <1>a, <1>f, <1>t DEF ConvsOK
  <2> QED BY <1>0, <1>c, <2>1, <2>2, <2>3 DEF ConvsOK
<1>4. ListedOK' BY <1>0 DEF ListedOK
<1>5. OrderOK'
  <2>1. rows \in Seq(Job) BY DEF AppTypeOK
  <2>2. /\ Distinct(rows) => Distinct(rows')
        /\ \A i, k : i # j /\ k # j /\ Ahead(rows, i, k) => Ahead(rows', i, k)
        /\ \A i : i # j => Ahead(rows', i, j)
    BY <1>0, <1>c, <2>1, MoreRows
  <2>3. ASSUME NEW q, j \notin Range(q), Follows(rows, q) PROVE Follows(rows', q)
    BY <2>2, <2>3 DEF Follows, Range
  <2>4. \A i \in Range(jobs), k \in Range(restore) : Ahead(rows', i, k)
    BY <1>d, <2>2 DEF OrderOK
  <2>5. \A i \in accepted, k \in sending' : Ahead(rows', i, k) BY <1>0, <1>c, <2>2
  <2>6. Follows(rows', jobs) /\ Follows(rows', manifest) /\ Follows(rows', restore)
    BY <1>d, <2>3 DEF OrderOK
  <2> QED BY <1>0, <2>2, <2>4, <2>5, <2>6 DEF OrderOK
<1>6. RunningOK'
  <2>1. \A i \in running \intersect Range(rows') : i \in Range(jobs)
    <3>1. \A i \in running \intersect Range(rows) : conv[i] # {} BY DEF ConvsOK
    <3> QED BY <1>a, <1>b, <1>d, <3>1 DEF RunningOK
  <2> QED BY <1>0, <1>b, <2>1 DEF RunningOK
<1>7. MediaOK'
  <2>1. \A i \in Range(manifest) \union Range(restore) :
          i \in Job /\ conv[i] # {} /\ i # j /\ conv'[i] = conv[i]
    BY <1>d, <1>f, <1>t DEF ListedOK, ConvsOK
  <2> QED BY <1>0, <1>g, <2>1 DEF MediaOK, Attached
<1>8. AnswersOK' BY <1>0, <1>a, <1>d DEF AnswersOK
<1>9. SurvivesOK'
  <2>1. \A i \in accepted : i \in Job /\ conv[i] # {} /\ conv'[i] = conv[i]
    BY <1>c, <1>f, <1>t DEF ConvsOK
  <2> QED BY <1>0, <1>g, <2>1 DEF SurvivesOK
<1> QED BY <1>1, <1>2, <1>3, <1>4, <1>5, <1>6, <1>7, <1>8, <1>9

LEMMA AppEnqueue == ASSUME AppInv, Enqueue PROVE AppInv'
<1> USE DEF AppInv
<1>s. PICK s \in sending : sending = {s} /\ jobs' = Append(jobs, s)
  BY DEF Enqueue, Enqueues, PhaseOK, One
<1>0. /\ sendAt = "saved" /\ sending' = {} /\ sendAt' = "none"
      /\ held' = held \union ({s} \intersect WithMedia)
      /\ manifest' = jobs' /\ accepted' = accepted \union {s} /\ Kick(jobs')
      /\ UNCHANGED <<app, ready, convs, deleted, conv, rows, answered, media>>
      /\ UNCHANGED <<removing, deleting, restore, crashes, settled, given_up, ended, hurt>>
  BY <1>s DEF Enqueue, Enqueues, database, removal
<1>a. /\ jobs \in Seq(Job) /\ s \in Job /\ jobs' \in Seq(Job) /\ jobs' # <<>>
      /\ Range(jobs') = Range(jobs) \union {s} /\ Head(jobs') \in Range(jobs')
      /\ jobs # <<>> => Head(jobs') = Head(jobs)
  BY <1>s, AppendedRange, EmptyRange DEF AppTypeOK
<1>b. /\ app = "up" /\ removing = <<>> /\ deleting = {} /\ stage # "closing"
      /\ restore = <<>> /\ Range(removing) = {} /\ Range(restore) = {}
  BY <1>s, <1>0, EmptyRange DEF PhaseOK, AppTypeOK
<1>c. /\ running' \subseteq Job /\ Cardinality(running') <= 1 /\ One(running')
      /\ stage' \in {"none", "gen", "closing"} /\ (running' = {} <=> stage' = "none")
      /\ \/ running' = running /\ stage' = stage /\ running # {}
         \/ running = {} /\ running' = {Head(jobs')} /\ stage' = "gen"
  BY <1>0, <1>a, KickStarts
<1>d. s \notin accepted /\ s \notin settled /\ s \notin running /\ s \notin Range(jobs)
  BY <1>s DEF ConvsOK, ListedOK
<1>1. AppTypeOK'
  <2>1. held' \subseteq WithMedia /\ accepted' \subseteq Job BY <1>0, <1>a DEF AppTypeOK
  <2>2. sending' \subseteq Job /\ sendAt' \in {"none", "rag", "saved"} BY <1>0
  <2>3. AppTypeOK OBVIOUS
  <2> HIDE DEF AppInv
  <2> QED BY <1>0, <1>a, <1>c, <2>1, <2>2, <2>3 DEF AppTypeOK
<1>2. PhaseOK' BY <1>0, <1>b, <1>c DEF PhaseOK, One
<1>3. ConvsOK' BY <1>s, <1>0 DEF ConvsOK
<1>4. ListedOK'
  <2>1. Range(jobs') \subseteq accepted' \ settled BY <1>0, <1>a, <1>d DEF ListedOK
  <2>2. running' \subseteq accepted' BY <1>0, <1>a, <1>c, <2>1 DEF ListedOK
  <2> QED BY <1>0, <1>b, <2>1, <2>2 DEF ListedOK
<1>5. OrderOK'
  <2>1. \A i \in Range(jobs) : Ahead(rows, i, s) BY <1>s DEF OrderOK, ListedOK
  <2>2. Follows(rows, jobs') BY <1>s, <1>a, <2>1, FollowsAppended DEF OrderOK
  <2> QED BY <1>0, <1>b, <2>2 DEF OrderOK
<1>6. RunningOK'
  <2>1. Range(jobs') \intersect settled = {} BY <1>a, <1>d DEF ListedOK
  <2>2. CASE running' = running /\ running # {}
    <3>1. \A j \in running \intersect Range(jobs) : j = Head(jobs')
      <4> SUFFICES ASSUME NEW j \in running \intersect Range(jobs) PROVE j = Head(jobs')
        OBVIOUS
      <4>1. jobs # <<>> BY EmptyRange
      <4> QED BY <1>a, <4>1 DEF RunningOK
    <3>2. \A j \in running \intersect Range(jobs') : j = Head(jobs')
      BY <1>a, <1>d, <3>1
    <3> QED BY <1>0, <1>a, <1>b, <2>2, <3>2 DEF RunningOK
  <2>3. CASE running' = {Head(jobs')}
    BY <1>0, <1>a, <1>b, <2>1, <2>3 DEF RunningOK
  <2> QED BY <1>c, <2>2, <2>3
<1>7. MediaOK'
  <2>1. s \in WithMedia => s \in media BY <1>s, <1>0 DEF MediaOK
  <2>2. \A j \in Attached \intersect Range(jobs) :
          j \in held /\ (conv[j] \subseteq convs => j \in media)
    BY DEF MediaOK, ListedOK
  <2>3. \A j \in Attached \intersect running' : j \in held'
    BY <1>0, <1>a, <1>c, <2>2 DEF MediaOK, Attached
  <2>4. Attached' = Attached BY <1>0 DEF Attached
  <2>5. \A j \in Attached \intersect Range(jobs') :
          j \in held' /\ (conv[j] \subseteq convs => j \in media)
    BY <1>0, <1>a, <2>1, <2>2 DEF Attached
  <2> QED BY <1>0, <1>b, <2>3, <2>4, <2>5 DEF MediaOK
<1>8. AnswersOK' BY <1>0, <1>b, <1>c DEF AnswersOK
<1>9. SurvivesOK' BY <1>0, <1>a, <1>b DEF SurvivesOK
<1> QED BY <1>1, <1>2, <1>3, <1>4, <1>5, <1>6, <1>7, <1>8, <1>9
--------------------------------------------------------------------------------
(* Stop, DeleteConversation and the constructor. *)

\* What Stop and Delete are to remove.
LEMMA JobsOf ==
  ASSUME AppInv, NEW c
  PROVE  /\ Of(c) \in Seq(Job) /\ Range(Of(c)) \subseteq Range(jobs)
         /\ \A j \in Range(jobs) : j \in Range(Of(c)) <=> conv[j] = {c}
<1>1. jobs \in Seq(Job) BY DEF AppInv, AppTypeOK
<1>2. Range(jobs) \subseteq Job BY <1>1, ElementOfSeq DEF Range
<1>3. /\ Of(c) \in Seq(Job)
      /\ Range(Of(c)) = Range(jobs) \ {j \in Job : conv[j] # {c}}
  BY <1>1, WithoutRange DEF Of
<1> QED BY <1>2, <1>3

LEMMA AppStops ==
  ASSUME AppInv, \E c \in Conv : Stop(c) \/ Delete(c)
  PROVE  AppInv'
<1> USE DEF AppInv
<1>s. PICK c \in Conv : Stop(c) \/ Delete(c) OBVIOUS
<1>0. /\ UIFree /\ removing' = Of(c) /\ given_up' = given_up \union Range(removing')
      /\ \/ (\A j \in running : conv[j] # {c}) /\ deleting' = deleting
         \/ deleting' = {c}
      /\ UNCHANGED <<app, ready, convs, deleted, conv, rows, answered, manifest, media, jobs>>
      /\ UNCHANGED <<held, running, stage, sending, sendAt, restore, crashes>>
      /\ UNCHANGED <<accepted, settled, ended, hurt>>
  BY <1>s DEF Stop, Delete, database, memory, pump, send
<1>a. /\ removing' \in Seq(Job) /\ Range(removing') \subseteq Range(jobs)
      /\ \A j \in Range(jobs) : j \in Range(removing') <=> conv[j] = {c}
      /\ Range(jobs) \subseteq accepted /\ accepted \subseteq Job
  BY <1>0, JobsOf DEF ListedOK, AppTypeOK
<1>b. app = "up" /\ deleting = {} /\ stage # "closing" /\ sendAt # "saved" BY <1>0 DEF UIFree
<1>1. AppTypeOK'
  <2>1. given_up' \subseteq Job /\ deleting' \subseteq Conv BY <1>0, <1>a, <1>b DEF AppTypeOK
  <2>2. AppTypeOK OBVIOUS
  <2> HIDE DEF AppInv
  <2> QED BY <1>0, <1>a, <2>1, <2>2 DEF AppTypeOK
<1>2. PhaseOK' BY <1>0, <1>b DEF PhaseOK, One
<1>3. ConvsOK' BY <1>0 DEF ConvsOK
<1>4. ListedOK' BY <1>0, <1>a DEF ListedOK
<1>5. OrderOK' BY <1>0 DEF OrderOK
<1>6. RunningOK'
  <2>1. \A j \in running \intersect Range(rows) : j \in Range(jobs)
    <3>1. \A j \in Range(rows) : conv[j] # {} BY DEF ConvsOK
    <3> QED BY <1>b, <3>1 DEF RunningOK
  <2>2. \A j \in Range(removing') : IF deleting' = {} THEN j \notin running ELSE conv[j] = deleting'
    BY <1>0, <1>a, <1>b
  <2>3. deleting' # {} => \A j \in Range(jobs) : conv[j] = deleting' => j \in given_up'
    BY <1>0, <1>a, <1>b
  <2> QED BY <1>0, <2>1, <2>2, <2>3 DEF RunningOK
<1>7. MediaOK' BY <1>0 DEF MediaOK, Attached
<1>8. AnswersOK' BY <1>0 DEF AnswersOK
<1>9. SurvivesOK' BY <1>0 DEF SurvivesOK
<1> QED BY <1>1, <1>2, <1>3, <1>4, <1>5, <1>6, <1>7, <1>8, <1>9

LEMMA AppRemoves == ASSUME AppInv, RemoveMedia \/ RemoveJob PROVE AppInv'
<1> USE DEF AppInv
<1> DEFINE h == Head(removing)
           left == Without(jobs, {h})
<1>a. /\ removing # <<>> /\ h \in Range(removing) /\ h \in accepted /\ h \in given_up
      /\ jobs \in Seq(Job) /\ removing \in Seq(Job)
  BY EmptyRange DEF RemoveMedia, RemoveJob, AppTypeOK, ListedOK
<1>b. app = "up" /\ stage # "closing" /\ sendAt # "saved" /\ restore = <<>>
  BY <1>a DEF PhaseOK, AppTypeOK
<1>c. UNCHANGED <<app, ready, convs, deleted, conv, rows, answered, held, running, stage>>
  BY DEF RemoveMedia, RemoveJob, database, memory, pump
<1>d. /\ UNCHANGED <<sending, sendAt, deleting, restore, crashes>>
      /\ UNCHANGED <<accepted, given_up, ended, hurt>>
  BY DEF RemoveMedia, RemoveJob, send, removal, past
<1>e. CASE RemoveMedia
  <2>0. /\ media' = media \ {h}
        /\ UNCHANGED <<manifest, jobs, removing, settled>>
    BY <1>e DEF RemoveMedia, memory, removal, past
  <2> HIDE DEF h, left
  <2>1. AppTypeOK' BY <1>c, <1>d, <2>0 DEF AppTypeOK
  <2>2. PhaseOK' BY <1>c, <1>d, <2>0 DEF PhaseOK
  <2>3. ConvsOK' BY <1>c, <1>d, <2>0 DEF ConvsOK
  <2>4. ListedOK' BY <1>c, <1>d, <2>0 DEF ListedOK
  <2>5. OrderOK' BY <1>c, <1>d, <2>0 DEF OrderOK
  <2>6. RunningOK' BY <1>c, <1>d, <2>0 DEF RunningOK
  <2>7. MediaOK' BY <1>a, <1>b, <1>c, <1>d, <2>0 DEF MediaOK, Attached
  <2>8. AnswersOK' BY <1>c, <1>d, <2>0 DEF AnswersOK
  <2>9. SurvivesOK' BY <1>c, <1>d, <2>0 DEF SurvivesOK
  <2> QED BY <2>1, <2>2, <2>3, <2>4, <2>5, <2>6, <2>7, <2>8, <2>9
<1>f. CASE RemoveJob
  <2>0. /\ removing' = Tail(removing) /\ jobs' = left /\ manifest' = left
        /\ settled' = settled \union {h} /\ UNCHANGED media
    BY <1>f DEF RemoveJob, Queued
  <2>a. left \in Seq(Job) /\ Range(left) = Range(jobs) \ {h} BY <1>a, WithoutRange
  <2>b. removing' \in Seq(Job) /\ Range(removing') \subseteq Range(removing)
    BY <1>a, <2>0, TailRange
  <2>c. Range(restore) = {} BY <1>b, EmptyRange
  <2>d. Follows(rows, left) BY <1>a, FollowsWithout DEF OrderOK
  <2>e. \A j \in running \intersect Range(left) : j = Head(left)
    <3> SUFFICES ASSUME NEW j \in running \intersect Range(left) PROVE j = Head(left)
      OBVIOUS
    <3>1. j \in Range(jobs) /\ j # h BY <2>a
    <3>2. jobs # <<>> /\ j = Head(jobs) BY <3>1, EmptyRange DEF RunningOK
    <3> QED BY <1>a, <3>1, <3>2, WithoutHead
  <2>f. jobs = <<>> => left = <<>>
    <3> SUFFICES ASSUME jobs = <<>>, left # <<>> PROVE FALSE OBVIOUS
    <3>1. Range(left) = {} /\ Head(left) \in Range(left) BY <2>a, EmptyRange
    <3> QED BY <3>1
  <2> HIDE DEF h, left
  <2>1. AppTypeOK'
    <3>1. settled' \subseteq Job BY <1>a, <2>0 DEF AppTypeOK
    <3> QED BY <1>c, <1>d, <2>0, <2>a, <2>b, <3>1 DEF AppTypeOK
  <2>2. PhaseOK' BY <1>b, <1>c, <1>d, <2>0 DEF PhaseOK
  <2>3. ConvsOK' BY <1>c, <1>d, <2>0 DEF ConvsOK
  <2>4. ListedOK' BY <1>a, <1>c, <1>d, <2>0, <2>a, <2>b, <2>c DEF ListedOK
  <2>5. OrderOK' BY <1>b, <1>c, <1>d, <2>0, <2>a, <2>c, <2>d DEF OrderOK
  <2>6. RunningOK'
    <3>1. running \intersect settled' \subseteq given_up BY <1>a, <2>0 DEF RunningOK
    <3>2. \A j \in running \intersect Range(rows) : j \in Range(left) \/ conv[j] = deleting
      BY <1>a, <2>a DEF RunningOK
    <3>3. \A j \in Range(removing') : IF deleting = {} THEN j \notin running ELSE conv[j] = deleting
      BY <2>b DEF RunningOK
    <3>4. deleting # {} => \A j \in Range(left) : conv[j] = deleting => j \in given_up
      BY <2>a DEF RunningOK
    <3>5. ready /\ running = {} => left = <<>> BY <2>f DEF RunningOK
    <3> HIDE DEF AppInv
    <3> QED BY <1>c, <1>d, <2>0, <2>e, <3>1, <3>2, <3>3, <3>4, <3>5 DEF RunningOK
  <2>7. MediaOK' BY <1>b, <1>c, <1>d, <2>0, <2>a, <2>c DEF MediaOK, Attached, ListedOK
  <2>8. AnswersOK' BY <1>a, <1>c, <1>d, <2>0 DEF AnswersOK
  <2>9. SurvivesOK' BY <1>b, <1>c, <1>d, <2>0, <2>a DEF SurvivesOK
  <2> QED BY <2>1, <2>2, <2>3, <2>4, <2>5, <2>6, <2>7, <2>8, <2>9
<1> QED BY <1>e, <1>f

LEMMA AppDeleteRows == ASSUME AppInv, DeleteRows PROVE AppInv'
<1> USE DEF AppInv
<1> DEFINE gone == {j \in Job : conv[j] = deleting}
<1>0. /\ deleting # {} /\ removing = <<>> /\ deleting' = {}
      /\ convs' = convs \ deleting /\ deleted' = deleted \union deleting
      /\ rows' = Without(rows, gone)
      /\ UNCHANGED <<app, ready, conv, answered, manifest, media, jobs, held, running>>
      /\ UNCHANGED <<stage, sending, sendAt, removing, restore, crashes>>
      /\ UNCHANGED <<accepted, settled, given_up, ended, hurt>>
  BY DEF DeleteRows, memory, pump, send, past
<1>a. /\ rows \in Seq(Job) /\ rows' \in Seq(Job) /\ Range(rows') = Range(rows) \ gone
      /\ Range(rows) \subseteq Job
  <2>1. rows \in Seq(Job) BY DEF AppTypeOK
  <2>2. Range(rows) \subseteq Job BY <2>1, ElementOfSeq DEF Range
  <2> QED BY <1>0, <2>1, <2>2, WithoutRange
<1>b. Range(removing) = {} BY <1>0, EmptyRange
<1>1. AppTypeOK'
  <2>1. convs' \subseteq Conv /\ deleted' \subseteq Conv BY <1>0 DEF AppTypeOK
  <2>2. AppTypeOK OBVIOUS
  <2> HIDE DEF AppInv
  <2> QED BY <1>0, <1>a, <2>1, <2>2 DEF AppTypeOK
<1>2. PhaseOK' BY <1>0 DEF PhaseOK, One
<1>3. ConvsOK'
  <2>1. \A j \in Job : One(conv[j]) /\ conv[j] \subseteq convs' \union deleted'
    BY <1>0 DEF ConvsOK
  <2>2. \A j \in Range(rows') : conv[j] \subseteq convs'
    <3> SUFFICES ASSUME NEW j \in Range(rows') PROVE conv[j] \subseteq convs' OBVIOUS
    <3>1. j \in Job /\ j \in Range(rows) /\ conv[j] # deleting BY <1>a
    <3>2. One(conv[j]) /\ conv[j] # {} /\ conv[j] \subseteq convs BY <3>1 DEF ConvsOK
    <3>3. One(deleting) BY DEF PhaseOK
    <3> QED BY <1>0, <3>1, <3>2, <3>3 DEF One
  <2> QED BY <1>0, <1>a, <2>1, <2>2 DEF ConvsOK
<1>4. ListedOK' BY <1>0 DEF ListedOK
<1>5. OrderOK'
  <2>1. /\ \A i, j : Ahead(rows, i, j) => Ahead(rows', i, j)
        /\ \A q : Follows(rows, q) => Follows(rows', q)
        /\ Distinct(rows) => Distinct(rows')
    BY <1>0, <1>a, FewerRows
  <2> QED BY <1>0, <2>1 DEF OrderOK
<1>6. RunningOK'
  <2>1. \A j \in running \intersect Range(rows') : j \in Range(jobs)
    BY <1>a DEF RunningOK
  <2> QED BY <1>0, <1>b, <2>1 DEF RunningOK
<1>7. MediaOK' BY <1>0 DEF MediaOK, Attached
<1>8. AnswersOK' BY <1>0, <1>a DEF AnswersOK
<1>9. SurvivesOK' BY <1>0 DEF SurvivesOK
<1> QED BY <1>1, <1>2, <1>3, <1>4, <1>5, <1>6, <1>7, <1>8, <1>9

LEMMA AppRestoreNext == ASSUME AppInv, RestoreNext PROVE AppInv'
<1> USE DEF AppInv
<1> DEFINE h == Head(restore)
<1>0. /\ restore # <<>> /\ restore' = Tail(restore)
      /\ UNCHANGED <<app, ready, convs, deleted, conv, rows, answered, running, stage>>
      /\ UNCHANGED <<sending, sendAt, removing, deleting, crashes>>
      /\ UNCHANGED <<accepted, settled, given_up, ended, hurt>>
  BY DEF RestoreNext, database, pump, send, removal, past
<1>s. \/ /\ conv[h] \subseteq convs /\ jobs' = Append(jobs, h) /\ manifest' = jobs'
         /\ held' = held \union ({h} \intersect media) /\ UNCHANGED media
      \/ /\ ~(conv[h] \subseteq convs) /\ media' = media \ {h}
         /\ UNCHANGED <<jobs, held, manifest>>
  BY DEF RestoreNext
<1>a. /\ restore \in Seq(Job) /\ restore' \in Seq(Job) /\ h \in Job
      /\ Range(restore) = Range(restore') \union {h} /\ jobs \in Seq(Job)
      /\ Follows(rows, restore') /\ \A j \in Range(restore') : Ahead(rows, h, j)
  BY <1>0, TailRange, FollowsTail DEF AppTypeOK, OrderOK
<1>b. /\ app = "restoring" /\ running = {} /\ sending = {} /\ removing = <<>> /\ deleting = {}
      /\ ~ready /\ sendAt = "none" /\ stage = "none" /\ Range(removing) = {}
  BY <1>0, EmptyRange DEF PhaseOK, AppTypeOK
<1>c. h \in accepted /\ h \notin settled BY <1>a DEF ListedOK
<1>d. /\ jobs' \in Seq(Job)
      /\ jobs' = jobs \/ (conv[h] \subseteq convs /\ Range(jobs') = Range(jobs) \union {h})
  <2>1. Append(jobs, h) \in Seq(Job) /\ Range(Append(jobs, h)) = Range(jobs) \union {h}
    BY <1>a, AppendedRange
  <2> HIDE DEF h
  <2> QED BY <1>a, <1>s, <2>1
<1> HIDE DEF h
<1>1. AppTypeOK'
  <2>1. manifest' \in Seq(Job) /\ media' \subseteq WithMedia /\ held' \subseteq WithMedia
    BY <1>s, <1>d DEF AppTypeOK
  <2>2. AppTypeOK OBVIOUS
  <2> HIDE DEF AppInv
  <2> QED BY <1>0, <1>a, <1>d, <2>1, <2>2 DEF AppTypeOK
<1>2. PhaseOK' BY <1>0, <1>b DEF PhaseOK
<1>3. ConvsOK' BY <1>0 DEF ConvsOK
<1>4. ListedOK' BY <1>0, <1>a, <1>c, <1>d, <1>s DEF ListedOK
<1>5. OrderOK'
  <2>1. \A i \in Range(jobs) : Ahead(rows, i, h) BY <1>a DEF OrderOK
  <2>2. Follows(rows, jobs') /\ Follows(rows, manifest')
    <3>1. Follows(rows, Append(jobs, h)) BY <1>a, <2>1, FollowsAppended DEF OrderOK
    <3> QED BY <1>s, <3>1 DEF OrderOK
  <2>3. \A i \in Range(jobs'), j \in Range(restore') : Ahead(rows, i, j)
    BY <1>a, <1>d DEF OrderOK
  <2> QED BY <1>0, <1>a, <1>b, <2>2, <2>3 DEF OrderOK
<1>6. RunningOK' BY <1>0, <1>b DEF RunningOK
<1>7. MediaOK'
  <2>1. Attached' = Attached /\ running' = {} BY <1>0, <1>b DEF Attached
  <2>2. \A j \in Attached \intersect (Range(manifest') \union Range(restore')) :
          conv[j] \subseteq convs => j \in media'
    BY <1>a, <1>d, <1>s DEF MediaOK, ListedOK
  <2>3. Attached \intersect Range(jobs') \subseteq held'
    BY <1>a, <1>d, <1>s DEF MediaOK
  <2> QED BY <1>0, <1>b, <2>1, <2>2, <2>3 DEF MediaOK
<1>8. AnswersOK' BY <1>0, <1>b DEF AnswersOK
<1>9. SurvivesOK' BY <1>0, <1>a, <1>b, <1>d, <1>s DEF SurvivesOK
<1> QED BY <1>1, <1>2, <1>3, <1>4, <1>5, <1>6, <1>7, <1>8, <1>9
--------------------------------------------------------------------------------
LEMMA AppSteps == AppInv /\ [AppNext]_appVars => AppInv'
<1> SUFFICES ASSUME AppInv, AppNext \/ UNCHANGED appVars PROVE AppInv'
  OBVIOUS
<1>1. CASE Continues
  BY <1>1, AppFinish, AppPumpNext, AppSaveMedia, AppEnqueue, AppRemoves, AppDeleteRows,
     AppRestoreNext, AppRestarts
  DEF Continues
<1>2. CASE User
  BY <1>2, AppLoadModel, AppStops, AppSendBegin DEF User
<1> QED BY <1>1, <1>2, AppFlush, AppCrash, AppRestarts, AppStutters DEF AppNext

LEMMA AppInvariance == AppSpec => []AppInv
BY AppStarts, AppSteps, PTL DEF AppSpec

(***************************************************************************)
(* One generation runs at a time, for any number of jobs, conversations    *)
(* and crashes (GenerationQueue.cs:60), and the fields keep their types.   *)
(***************************************************************************)
THEOREM GenerationQueueTyped == AppSpec => []AppTypeOK
<1>1. AppInv => AppTypeOK BY DEF AppInv
<1> QED BY <1>1, AppInvariance, PTL

(***************************************************************************)
(* No order of sends, stops, deletes, crashes and restarts leaves a job    *)
(* waiting for a kick that does not come (GenerationQueue.Kick).           *)
(***************************************************************************)
THEOREM GenerationQueueAtWork == AppSpec => []PumpNeverIdles
<1>1. AppInv => PumpNeverIdles BY DEF AppInv, RunningOK, PumpNeverIdles
<1> QED BY <1>1, AppInvariance, PTL

(***************************************************************************)
(* A job sent with an attachment has its pixels or samples when it runs,   *)
(* whichever restart it comes from (QueueStore.cs:10).                     *)
(***************************************************************************)
THEOREM GenerationQueueMediaKept == AppSpec => []RunsWithMedia
<1>1. AppInv => RunsWithMedia BY DEF AppInv, MediaOK, Attached, RunsWithMedia
<1> QED BY <1>1, AppInvariance, PTL

(***************************************************************************)
(* "queued work survives an app restart" (QueueStore.cs:10), for jobs that *)
(* no crash in a restore or in a write of the manifest has hit.            *)
(***************************************************************************)
THEOREM GenerationQueueWorkSurvives == AppSpec => []QueuedWorkSurvives
<1>1. ASSUME AppInv PROVE QueuedWorkSurvives
  <2>1. app \in {"down", "restoring", "up"} BY <1>1 DEF AppInv, AppTypeOK
  <2> QED BY <1>1, <2>1 DEF AppInv, SurvivesOK, QueuedWorkSurvives
<1> QED BY <1>1, AppInvariance, PTL

(***************************************************************************)
(* The history a generation is given holds the final answer of every       *)
(* earlier turn of its conversation (ChatViewModel.cs:576): an earlier     *)
(* turn that is still queued would be ahead of the running job, which is   *)
(* the head of the queue, and one that left it was answered or given up.   *)
(***************************************************************************)
THEOREM GenerationQueueTurnsAnswered == AppSpec => []EarlierTurnsAnswered
<1>1. ASSUME AppInv PROVE EarlierTurnsAnswered
  <2> USE <1>1 DEF AppInv
  <2>1. rows \in Seq(Job) /\ Len(rows) \in Nat /\ DOMAIN rows = 1..Len(rows) /\ jobs \in Seq(Job)
    BY LenProperties DEF AppTypeOK
  <2> SUFFICES ASSUME NEW k \in 1..Len(rows), rows[k] \in running, ~hurt,
                      NEW i \in 1..(k - 1), conv[rows[i]] = conv[rows[k]],
                      rows[i] \in accepted \ given_up, rows[i] \notin answered
               PROVE  FALSE
    BY DEF EarlierTurnsAnswered
  <2>2. i \in 1..Len(rows) /\ i < k /\ ~(k < i) /\ i # k BY <2>1
  <2>3. rows[i] \in Range(rows) /\ rows[k] \in Range(rows) BY <2>1, <2>2 DEF Range
  <2>4. rows[i] \notin settled BY <2>3 DEF AnswersOK
  <2>5. app = "up" BY DEF PhaseOK, AppTypeOK
  <2>6. rows[i] \in Range(jobs) BY <2>3, <2>4, <2>5 DEF SurvivesOK, ConvsOK
  <2>7. rows[k] \in Range(jobs)
    <3> SUFFICES ASSUME rows[k] \notin Range(jobs) PROVE FALSE OBVIOUS
    <3>1. conv[rows[i]] = deleting /\ deleting # {} BY <2>3 DEF RunningOK, ConvsOK
    <3> QED BY <2>6, <3>1 DEF RunningOK
  <2>8. rows[k] = Head(jobs) BY <2>7 DEF RunningOK
  <2>9. PICK a \in DOMAIN jobs : jobs[a] = rows[i] BY <2>6 DEF Range
  <2>10. DOMAIN jobs = 1..Len(jobs) /\ Len(jobs) \in Nat BY <2>1, LenProperties
  <2>11. 1 \in DOMAIN jobs /\ jobs[1] = rows[k] BY <2>1, <2>8, <2>9, <2>10
  <2>12. CASE a = 1
    <3>1. rows[i] = rows[k] BY <2>9, <2>11, <2>12
    <3> QED BY <2>1, <2>2, <3>1 DEF OrderOK, Distinct
  <2>13. CASE a # 1
    <3>1. 1 < a BY <2>9, <2>10, <2>13
    <3>2. Ahead(rows, rows[k], rows[i]) BY <2>9, <2>11, <3>1 DEF OrderOK, Follows
    <3> QED BY <2>1, <2>2, <3>2 DEF Ahead
  <2> QED BY <2>12, <2>13
<1> QED BY <1>1, AppInvariance, PTL
================================================================================
