---------------------------- MODULE ChatEngine_proofs ----------------------------
(***************************************************************************)
(* Proofs about ChatEngine, for any set of messages, conversations and     *)
(* lengths of reply: the two activities of a page exclude each other, a    *)
(* Stop reaches the generation it was meant for, the variables keep their  *)
(* types, the pump is at work exactly while there is a queue, what waits   *)
(* survives the page, a reply is stored as it was shown, and a job starts  *)
(* behind finished priors.                                                 *)
(***************************************************************************)
EXTENDS ChatEngine, Lists_proofs, FiniteSetTheorems, SequenceTheorems, TLAPS

(* Each activity has its record, and the pump a job while it is on. *)
GenOK ==
  /\ DOMAIN gen = Activity
  /\ \A g \in Activity : gen[g] = [at |-> gen[g].at, job |-> gen[g].job, shown |-> gen[g].shown,
                                   pending |-> gen[g].pending, resumes |-> gen[g].resumes]

(* cancelRef is up while the pump's job runs only because that job was stopped. *)
CancelIsMeant ==
  gen["pump"].at # "off" /\ cancel => stops = gen["pump"].job

PageInv == GenOK /\ SteppingHolds /\ CancelIsMeant /\ StopHitsItsJob

(* A job that starts, or starts over, waits for the session. *)
LEMMA Asks ==
  ASSUME GenOK, SteppingHolds, NEW g \in Activity, NEW j, NEW n, NEW r,
         gen' = [gen EXCEPT ![g] = Gen("asks", j, n, 0, r)],
         session' = session
  PROVE  /\ GenOK' /\ SteppingHolds'
         /\ gen'[g].at = "asks" /\ gen'[g].job = j
         /\ \A h \in Activity \ {g} : gen'[h] = gen[h]
<1>1. /\ DOMAIN gen' = Activity /\ gen'[g] = Gen("asks", j, n, 0, r)
      /\ \A h \in Activity \ {g} : gen'[h] = gen[h]
  BY DEF GenOK
<1>2. GenOK' BY <1>1 DEF GenOK, Gen
<1>3. SteppingHolds' BY <1>1 DEF SteppingHolds, Inside, Activity, Gen
<1> QED BY <1>1, <1>2, <1>3 DEF Gen

(* A generation that goes on, shows a piece or hangs stays that of its job. *)
LEMMA GoesOn ==
  ASSUME GenOK, NEW g \in Activity, NEW x,
         gen' = [gen EXCEPT ![g].at = x]
  PROVE  /\ GenOK' /\ gen'[g].at = x /\ gen'[g].job = gen[g].job
         /\ \A h \in Activity \ {g} : gen'[h] = gen[h]
<1>1. DOMAIN gen' = Activity /\ \A h \in Activity \ {g} : gen'[h] = gen[h]
  BY DEF GenOK
<1>2. /\ gen'[g] = [at |-> gen'[g].at, job |-> gen'[g].job, shown |-> gen'[g].shown,
                    pending |-> gen'[g].pending, resumes |-> gen'[g].resumes]
      /\ gen'[g].at = x /\ gen'[g].job = gen[g].job
  BY DEF GenOK
<1>3. GenOK' BY <1>1, <1>2 DEF GenOK
<1> QED BY <1>1, <1>2, <1>3

LEMMA ShowsMore ==
  ASSUME GenOK, NEW g \in Activity, NEW x, NEW n, NEW p, Shows(g, x, n, p)
  PROVE  /\ GenOK' /\ gen'[g].at = x /\ gen'[g].job = gen[g].job
         /\ \A h \in Activity \ {g} : gen'[h] = gen[h]
<1>1. /\ DOMAIN gen' = Activity /\ \A h \in Activity \ {g} : gen'[h] = gen[h]
      /\ gen'[g] = Gen(x, gen[g].job, n, p, gen[g].resumes)
  BY DEF GenOK, Shows
<1>2. GenOK' BY <1>1 DEF GenOK, Gen
<1> QED BY <1>1, <1>2 DEF Gen

LEMMA TurnsOff ==
  ASSUME GenOK, NEW g \in Activity, gen' = [gen EXCEPT ![g] = Off]
  PROVE  /\ GenOK' /\ gen'[g].at = "off" /\ \A h \in Activity \ {g} : gen'[h] = gen[h]
BY DEF GenOK, Off, Gen

(* What SteppingHolds asks of a step that concerns one activity. *)
LEMMA Stepping ==
  ASSUME SteppingHolds, NEW g \in Activity, \A h \in Activity \ {g} : gen'[h] = gen[h],
         \/ gen'[g].at \in Inside => session' = g,
         \/ session' = session
         \/ session = None
         \/ session = g
  PROVE  SteppingHolds'
<1>1. ASSUME NEW h \in Activity, gen'[h].at \in Inside PROVE session' = h
  <2>1. CASE h = g BY <2>1, <1>1
  <2>2. CASE h # g
    <3>1. session = h /\ h # None BY <2>2, <1>1, Bounds DEF SteppingHolds, Activity
    <3> QED BY <2>2, <3>1
  <2> QED BY <2>1, <2>2
<1> QED BY <1>1 DEF SteppingHolds, Activity

(* The two rules about a Stop, where nothing but the boot's generation moves. *)
LEMMA StopsUntouched ==
  ASSUME CancelIsMeant, StopHitsItsJob, gen'["pump"] = gen["pump"], UNCHANGED <<cancel, stops>>
  PROVE  CancelIsMeant' /\ StopHitsItsJob'
BY DEF CancelIsMeant, StopHitsItsJob

LEMMA Unmoved ==
  ASSUME PageInv, UNCHANGED <<gen, session, cancel, stops>>
  PROVE  PageInv'
BY DEF PageInv, GenOK, SteppingHolds, CancelIsMeant, StopHitsItsJob

(* A job starts: the flag of an earlier Stop is gone before it can be read. *)
LEMMA Starts ==
  ASSUME PageInv, NEW j, Start(j), session' = session
  PROVE  PageInv'
<1>1. gen' = [gen EXCEPT !["pump"] = Gen("asks", j, 0, 0, FALSE)] BY DEF Start
<1>2. GenOK' /\ SteppingHolds' /\ gen'["pump"].at = "asks"
  <2>1. "pump" \in Activity BY DEF Activity
  <2>2. GenOK /\ SteppingHolds BY DEF PageInv
  <2> QED BY <1>1, <2>1, <2>2, Asks
<1>3. CancelIsMeant' /\ StopHitsItsJob' BY <1>2 DEF Start, CancelIsMeant, StopHitsItsJob
<1> QED BY <1>2, <1>3 DEF PageInv

LEMMA Kicks ==
  ASSUME PageInv, NEW q, NEW st, Kick(q, st), session' = session
  PROVE  PageInv'
<1>1. CASE Start(Head(q)) BY <1>1, Starts
<1>2. CASE UNCHANGED <<gen, active, cancel, stops>> BY <1>2, Unmoved
<1> QED BY <1>1, <1>2 DEF Kick

(* A Stop raises the flag for the job that runs, and for no other. *)
LEMMA TearsDown ==
  ASSUME PageInv, NEW c, TearDown(c), UNCHANGED <<gen, session>>
  PROVE  PageInv'
<1>1. CASE UNCHANGED <<cancel, stops>> BY <1>1, Unmoved
<1>2. ASSUME NEW n \in DOMAIN queue, queue[n] \in Running, cancel' = TRUE, stops' = queue[n]
      PROVE  PageInv'
  <2>1. stops' = gen["pump"].job BY <1>2 DEF Running
  <2>2. CancelIsMeant' /\ StopHitsItsJob' BY <2>1 DEF CancelIsMeant, StopHitsItsJob
  <2>3. GenOK' /\ SteppingHolds' BY DEF PageInv, GenOK, SteppingHolds
  <2> QED BY <2>2, <2>3 DEF PageInv
<1> QED BY <1>1, <1>2 DEF TearDown

(* A step of either activity. *)
LEMMA GenerateStep ==
  ASSUME PageInv, NEW g \in Activity, Generates(g)
  PROVE  PageInv'
<1> USE DEF shared, stored, history, PageInv
<1>0. GenOK /\ SteppingHolds /\ CancelIsMeant /\ StopHitsItsJob OBVIOUS
<1>1. CASE AcquireResumed(g)
  <2>1. /\ GenOK' /\ gen'[g].at = "loop" /\ gen'[g].job = gen[g].job
        /\ \A h \in Activity \ {g} : gen'[h] = gen[h]
    BY <1>0, <1>1, GoesOn DEF AcquireResumed, Goes
  <2>2. session = None /\ session' = g /\ UNCHANGED <<cancel, stops>> /\ gen[g].at = "asks"
    BY <1>1 DEF AcquireResumed, MayAcquire
  <2>3. SteppingHolds' BY <1>0, <2>1, <2>2, Stepping
  <2>4. CancelIsMeant' /\ StopHitsItsJob'
    BY <1>0, <2>1, <2>2 DEF CancelIsMeant, StopHitsItsJob, Activity
  <2> QED BY <2>1, <2>3, <2>4
<1>2. CASE Bail(g)
  <2>1. session' = session /\ UNCHANGED <<cancel, stops>> /\ gen[g].at = "asks"
    BY <1>2 DEF Bail, MayAcquire
  <2>2. CASE g = "pump"
    <3>1. /\ GenOK' /\ gen'[g].at = "over" /\ gen'[g].job = gen[g].job
          /\ \A h \in Activity \ {g} : gen'[h] = gen[h]
      BY <1>0, <1>2, <2>2, GoesOn DEF Bail, Goes
    <3>2. SteppingHolds' BY <1>0, <2>1, <3>1, Stepping DEF Inside
    <3>3. CancelIsMeant' /\ StopHitsItsJob'
      BY <1>0, <2>1, <2>2, <3>1 DEF CancelIsMeant, StopHitsItsJob
    <3> QED BY <3>1, <3>2, <3>3
  <2>3. CASE g = "boot"
    <3>1. GenOK' /\ gen'[g].at = "off" /\ \A h \in Activity \ {g} : gen'[h] = gen[h]
      BY <1>0, <1>2, <2>3, TurnsOff DEF Bail
    <3>2. SteppingHolds' BY <1>0, <2>1, <3>1, Stepping DEF Inside
    <3>3. CancelIsMeant' /\ StopHitsItsJob'
      BY <1>0, <2>1, <2>3, <3>1, StopsUntouched DEF Activity
    <3> QED BY <3>1, <3>2, <3>3
  <2> QED BY <2>2, <2>3 DEF Activity
<1>3. ASSUME NEW x \in {"loop", "step", "failed"}, gen[g].at \in {"loop", "step"},
             gen'[g].at = x, gen'[g].job = gen[g].job,
             \A h \in Activity \ {g} : gen'[h] = gen[h],
             GenOK', UNCHANGED <<session, cancel, stops>>
      PROVE  PageInv'
  <2>1. session = g BY <1>0, <1>3 DEF SteppingHolds, Inside, Activity
  <2>2. SteppingHolds' BY <1>0, <1>3, <2>1, Stepping
  <2>3. CancelIsMeant' /\ StopHitsItsJob'
    BY <1>0, <1>3 DEF CancelIsMeant, StopHitsItsJob, Activity
  <2> QED BY <1>3, <2>2, <2>3
<1>4. CASE Emit(g)
  <2>1. \E n, p : Shows(g, "step", n, p) BY <1>4 DEF Emit
  <2>2. /\ GenOK' /\ gen'[g].at = "step" /\ gen'[g].job = gen[g].job
        /\ \A h \in Activity \ {g} : gen'[h] = gen[h]
    BY <1>0, <2>1, ShowsMore
  <2>3. gen[g].at = "loop" /\ UNCHANGED <<session, cancel, stops>> BY <1>4 DEF Emit
  <2> QED BY <1>3, <2>2, <2>3
<1>5. CASE StepDone(g)
  <2>1. /\ GenOK' /\ gen'[g].at = "loop" /\ gen'[g].job = gen[g].job
        /\ \A h \in Activity \ {g} : gen'[h] = gen[h]
    BY <1>0, <1>5, GoesOn DEF StepDone, Goes
  <2>2. gen[g].at = "step" /\ UNCHANGED <<session, cancel, stops>> BY <1>5 DEF StepDone
  <2> QED BY <1>3, <2>1, <2>2
<1>6. CASE Fails(g)
  <2>1. /\ GenOK' /\ gen'[g].at = "failed" /\ gen'[g].job = gen[g].job
        /\ \A h \in Activity \ {g} : gen'[h] = gen[h]
    BY <1>0, <1>6, GoesOn DEF Fails, Goes
  <2>2. gen[g].at \in {"loop", "step"} /\ UNCHANGED <<session, cancel, stops>> BY <1>6 DEF Fails
  <2> QED BY <1>3, <2>1, <2>2
<1>7. CASE Finish(g)
  <2> DEFINE x == IF cancel THEN "halted" ELSE "done"
  <2>1. gen' = [gen EXCEPT ![g].at = x] BY <1>7 DEF Finish, Goes
  <2> HIDE DEF x
  <2>2. /\ GenOK' /\ gen'[g].at = x /\ gen'[g].job = gen[g].job
        /\ \A h \in Activity \ {g} : gen'[h] = gen[h]
    BY <1>0, <2>1, GoesOn
  <2>3. gen[g].at = "loop" /\ UNCHANGED <<session, cancel, stops>> BY <1>7 DEF Finish
  <2>4. session = g BY <1>0, <2>3 DEF SteppingHolds, Inside, Activity
  <2>5. SteppingHolds' BY <1>0, <2>2, <2>3, <2>4, Stepping
  <2>6. CASE g = "pump"
    <3>1. x = "halted" => cancel BY DEF x
    <3>2. x # "off" /\ gen[g].at # "off" BY <2>3 DEF x
    <3>3. CancelIsMeant' /\ StopHitsItsJob'
      BY <1>0, <2>2, <2>3, <2>6, <3>1, <3>2 DEF CancelIsMeant, StopHitsItsJob
    <3> QED BY <2>2, <2>5, <3>3
  <2>7. CASE g = "boot"
    <3>1. CancelIsMeant' /\ StopHitsItsJob'
      BY <1>0, <2>2, <2>3, <2>7, StopsUntouched DEF Activity
    <3> QED BY <2>2, <2>5, <3>1
  <2> QED BY <2>6, <2>7 DEF Activity
<1>8. CASE Ends(g)
  <2>1. /\ gen[g].at \in Ended /\ session' = None /\ UNCHANGED <<cancel, stops>> BY <1>8 DEF Ends
  <2>2. session = g BY <1>0, <2>1 DEF SteppingHolds, Inside, Ended, Activity
  <2>3. CASE g = "pump"
    <3>1. /\ GenOK' /\ gen'[g].at = "over" /\ gen'[g].job = gen[g].job
          /\ \A h \in Activity \ {g} : gen'[h] = gen[h]
      BY <1>0, <1>8, <2>3, GoesOn DEF Ends, Goes
    <3>2. SteppingHolds' BY <1>0, <2>2, <3>1, Stepping DEF Inside
    <3>3. CancelIsMeant' /\ StopHitsItsJob'
      BY <1>0, <2>1, <2>3, <3>1 DEF CancelIsMeant, StopHitsItsJob, Ended
    <3> QED BY <3>1, <3>2, <3>3
  <2>4. CASE g = "boot"
    <3>1. GenOK' /\ gen'[g].at = "off" /\ \A h \in Activity \ {g} : gen'[h] = gen[h]
      BY <1>0, <1>8, <2>4, TurnsOff DEF Ends
    <3>2. SteppingHolds' BY <1>0, <2>2, <3>1, Stepping DEF Inside
    <3>3. CancelIsMeant' /\ StopHitsItsJob'
      BY <1>0, <2>1, <2>4, <3>1, StopsUntouched DEF Activity
    <3> QED BY <3>1, <3>2, <3>3
  <2> QED BY <2>3, <2>4 DEF Activity
<1> QED BY <1>1, <1>2, <1>4, <1>5, <1>6, <1>7, <1>8 DEF Generates

LEMMA PageInit == Init => PageInv
BY Bounds DEF Init, PageInv, GenOK, SteppingHolds, CancelIsMeant, StopHitsItsJob, Off, Gen, Inside, Activity

LEMMA PageStep == ASSUME PageInv, Next PROVE PageInv'
<1> USE DEF shared, stored, history
<1>0. /\ GenOK /\ SteppingHolds /\ CancelIsMeant /\ StopHitsItsJob
      /\ "pump" \in Activity /\ "boot" \in Activity
  BY DEF PageInv, Activity
<1>1. CASE AcquireFresh
  <2>1. /\ GenOK' /\ gen'["pump"].at = "loop" /\ gen'["pump"].job = gen["pump"].job
        /\ \A h \in Activity \ {"pump"} : gen'[h] = gen[h]
    BY <1>0, <1>1, GoesOn DEF AcquireFresh, Goes
  <2>2. /\ session = None /\ session' = "pump" /\ UNCHANGED <<cancel, stops>>
        /\ gen["pump"].at = "asks"
    BY <1>1 DEF AcquireFresh, MayAcquire
  <2>3. SteppingHolds' BY <1>0, <2>1, <2>2, Stepping
  <2>4. CancelIsMeant' /\ StopHitsItsJob' BY <1>0, <2>1, <2>2 DEF CancelIsMeant, StopHitsItsJob
  <2> QED BY <2>1, <2>3, <2>4 DEF PageInv
<1>2. CASE Recover
  <2>1. gen' = [gen EXCEPT !["pump"] = Gen("asks", inflight.job, inflight.upto, 0, TRUE)]
    BY <1>2 DEF Recover, Resumed
  <2>2. session' = session /\ cancel' = FALSE BY <1>2 DEF Recover
  <2>3. GenOK' /\ SteppingHolds' /\ gen'["pump"].at = "asks" BY <1>0, <2>1, <2>2, Asks
  <2>4. CancelIsMeant' /\ StopHitsItsJob' BY <2>2, <2>3 DEF CancelIsMeant, StopHitsItsJob
  <2> QED BY <2>3, <2>4 DEF PageInv
<1>3. CASE PumpAdvance
  <2>1. session' = session BY <1>3 DEF PumpAdvance
  <2>2. CASE Start(Head(queue')) BY <2>1, <2>2, Starts
  <2>3. CASE gen' = [gen EXCEPT !["pump"] = Off]
    <3>1. GenOK' /\ gen'["pump"].at = "off" /\ \A h \in Activity \ {"pump"} : gen'[h] = gen[h]
      BY <1>0, <2>3, TurnsOff
    <3>2. SteppingHolds' BY <1>0, <2>1, <3>1, Stepping DEF Inside
    <3>3. CancelIsMeant' /\ StopHitsItsJob' BY <3>1 DEF CancelIsMeant, StopHitsItsJob
    <3> QED BY <3>1, <3>2, <3>3 DEF PageInv
  <2> QED BY <1>3, <2>2, <2>3 DEF PumpAdvance
<1>4. ASSUME NEW g \in Activity, Generates(g) PROVE PageInv' BY <1>4, GenerateStep
<1>5. CASE Hangs
  <2>1. /\ GenOK' /\ gen'["pump"].at = "hung" /\ gen'["pump"].job = gen["pump"].job
        /\ \A h \in Activity \ {"pump"} : gen'[h] = gen[h]
    BY <1>0, <1>5, ShowsMore DEF Hangs
  <2>2. gen["pump"].at = "step" /\ UNCHANGED <<cancel, stops>> BY <1>5 DEF Hangs
  <2>3. session = "pump" BY <1>0, <2>2 DEF SteppingHolds, Inside
  <2>4. SteppingHolds' BY <1>0, <2>1, <2>3, Stepping DEF Inside
  <2>5. CancelIsMeant' /\ StopHitsItsJob' BY <1>0, <2>1, <2>2 DEF CancelIsMeant, StopHitsItsJob
  <2> QED BY <2>1, <2>4, <2>5 DEF PageInv
<1>6. ASSUME NEW j \in Job, SendBegin(j) \/ SendFails(j) PROVE PageInv'
  BY <1>6, Unmoved DEF SendBegin, SendFails
<1>7. ASSUME NEW j \in Job, Enqueue(j) PROVE PageInv'
  <2>1. session' = session BY <1>7 DEF Enqueue
  <2> QED BY <1>7, <2>1, Kicks DEF Enqueue
<1>8. ASSUME NEW c \in Conv, Stop(c) \/ Delete(c) PROVE PageInv'
  <2>1. TearDown(c) /\ UNCHANGED <<gen, session>> BY <1>8 DEF Stop, Delete
  <2> QED BY <2>1, TearsDown
<1>9. CASE Hide \/ Written \/ SiblingEnds BY <1>9, Unmoved DEF Hide, Written, SiblingEnds
<1>10. CASE Kill
  <2>1. gen' = [g \in DOMAIN gen |-> Off] BY <1>10 DEF Kill
  <2>2. \A g \in Activity : gen'[g] = Off BY <1>0, <2>1 DEF GenOK
  <2>3. DOMAIN gen' = Activity BY <1>0, <2>1 DEF GenOK
  <2> QED BY <1>0, <2>2, <2>3
     DEF PageInv, GenOK, SteppingHolds, CancelIsMeant, StopHitsItsJob, Off, Gen, Inside, Activity
<1>11. CASE Boot
  <2>1. session' = session /\ UNCHANGED <<cancel, stops>> BY <1>11 DEF Boot
  <2>2. CASE Resumed("boot", saved)
    <3>1. gen' = [gen EXCEPT !["boot"] = Gen("asks", saved.job, saved.upto, 0, TRUE)]
      BY <2>2 DEF Resumed
    <3>2. /\ GenOK' /\ SteppingHolds' /\ \A h \in Activity \ {"boot"} : gen'[h] = gen[h]
      BY <1>0, <2>1, <3>1, Asks
    <3>3. CancelIsMeant' /\ StopHitsItsJob' BY <1>0, <2>1, <3>2, StopsUntouched
    <3> QED BY <3>2, <3>3 DEF PageInv
  <2>3. CASE UNCHANGED gen BY <2>1, <2>3, Unmoved
  <2> QED BY <1>11, <2>2, <2>3 DEF Boot
<1>12. CASE Restore
  <2>1. session' = session BY <1>12 DEF Restore
  <2>2. (\E q, st : Kick(q, st)) \/ UNCHANGED <<gen, cancel, stops>> BY <1>12 DEF Restore
  <2> QED BY <2>1, <2>2, Kicks, Unmoved
<1> QED BY <1>0, <1>1, <1>2, <1>3, <1>4, <1>5, <1>6, <1>7, <1>8, <1>9, <1>10, <1>11, <1>12
        DEF Next, Works

LEMMA PageSafe == Spec => []PageInv
<1>1. PageInv /\ UNCHANGED vars => PageInv'
  BY Unmoved DEF vars, shared, history
<1> QED BY <1>1, PageInit, PageStep, PTL DEF Spec

(* withSession, runJob and resumeInflightGeneration (useChatEngine.ts): a generation
   holds the session from its first step to its last, and gives it back when it hangs. *)
THEOREM SteppingIsExclusive == Spec => []SteppingHolds
<1>1. PageInv => SteppingHolds BY DEF PageInv
<1> QED BY <1>1, PageSafe, PTL

(* runJob resets cancelRef where a job starts, and stopping raises it only for the
   job that runs: no job of the pump is halted by another job's Stop. *)
THEOREM StopIsMeant == Spec => []StopHitsItsJob
<1>1. PageInv => StopHitsItsJob BY DEF PageInv
<1> QED BY <1>1, PageSafe, PTL
--------------------------------------------------------------------------------
(* The queue and its pump. *)

LEMMA Rest ==
  ASSUME NEW q \in Seq(Job), NEW S
  PROVE  /\ Without(q, S) \in Seq(Job)
         /\ q # <<>> /\ Head(q) \notin S => Without(q, S) # <<>> /\ Head(Without(q, S)) = Head(q)
BY WithoutPlaces, WithoutHead
(* What the entry being tracked, the pump and the page have to do with each other. *)
Tracked ==
  /\ gen["boot"].at \notin {"hung", "over"}
  /\ gen["boot"].at # "off" =>
       /\ inflight # None
       /\ gen["pump"].at = "off" \/ (gen["pump"].at = "asks" /\ ~gen["pump"].resumes)
  /\ \/ gen["pump"].at \in Inside \union {"hung"}
     \/ gen["pump"].at = "asks" /\ gen["pump"].resumes
     => inflight # None /\ inflight.job = gen["pump"].job

(* A page that is gone has nothing in memory, and nobody is sending in it. *)
GoneIsEmpty ==
  page = "gone" =>
    /\ queue = <<>> /\ loaded = <<>>
    /\ \A g \in Activity : gen[g].at = "off"
    /\ \A j \in Job : status[j] # "sending"

QueueInv == TypeOK /\ Tracked /\ GoneIsEmpty /\ PumpNeverIdles

LEMMA Picked ==
  ASSUME NEW q \in Seq(Job), q # <<>>
  PROVE  Head(q) \in Job /\ Tail(q) \in Seq(Job)
OBVIOUS

LEMMA WritesTyped ==
  ASSUME ListTypes, NEW Q, Q \subseteq Seq(Job), Commit(Q)
  PROVE  manifest' \subseteq Seq(Job)
BY DEF ListTypes, Commit

(* What a step of activity g leaves as it is while g is on. *)
Onward(g, x) ==
  /\ GenTypes' /\ gen'[g].at = x /\ gen'[g].job = gen[g].job /\ gen'[g].resumes = gen[g].resumes
  /\ \A h \in Activity \ {g} : gen'[h] = gen[h]

LEMMA GoesTyped ==
  ASSUME GenTypes, NEW g \in Activity, gen[g].at # "off", NEW x \in At \ {"off"},
         gen' = [gen EXCEPT ![g].at = x]
  PROVE  Onward(g, x)
<1>1. DOMAIN gen' = Activity /\ \A h \in Activity \ {g} : gen'[h] = gen[h]
  BY DEF GenTypes
<1>2. /\ gen'[g].at = x /\ gen'[g].job = gen[g].job /\ gen'[g].resumes = gen[g].resumes
      /\ gen'[g] \in [at : At, job : Job \union {None}, shown : 0..MaxTokens, pending : Nat,
                      resumes : BOOLEAN]
  BY DEF GenTypes
<1>3. gen[g].job # None BY DEF GenTypes
<1>4. GenTypes' BY <1>1, <1>2, <1>3 DEF GenTypes
<1> QED BY <1>1, <1>2, <1>4 DEF Onward

LEMMA ShowsTyped ==
  ASSUME GenTypes, NEW g \in Activity, gen[g].at # "off", NEW x \in At \ {"off"},
         NEW n \in 0..MaxTokens, NEW p \in Nat, Shows(g, x, n, p)
  PROVE  Onward(g, x)
<1>1. /\ DOMAIN gen' = Activity /\ \A h \in Activity \ {g} : gen'[h] = gen[h]
      /\ gen'[g] = Gen(x, gen[g].job, n, p, gen[g].resumes)
  BY DEF GenTypes, Shows
<1>2. gen[g].job \in Job /\ gen[g].job # None /\ gen[g].resumes \in BOOLEAN BY DEF GenTypes
<1>3. /\ gen'[g].at = x /\ gen'[g].job = gen[g].job /\ gen'[g].resumes = gen[g].resumes
      /\ gen'[g] \in [at : At, job : Job \union {None}, shown : 0..MaxTokens, pending : Nat,
                      resumes : BOOLEAN]
  BY <1>1, <1>2 DEF Gen
<1>4. GenTypes' BY <1>1, <1>2, <1>3 DEF GenTypes
<1> QED BY <1>1, <1>3, <1>4 DEF Onward

LEMMA AsksTyped ==
  ASSUME GenTypes, NEW g \in Activity, NEW j \in Job, NEW n \in 0..MaxTokens, NEW r \in BOOLEAN,
         gen' = [gen EXCEPT ![g] = Gen("asks", j, n, 0, r)]
  PROVE  /\ GenTypes' /\ gen'[g].at = "asks" /\ gen'[g].job = j /\ gen'[g].resumes = r
         /\ \A h \in Activity \ {g} : gen'[h] = gen[h]
<1>1. /\ DOMAIN gen' = Activity /\ \A h \in Activity \ {g} : gen'[h] = gen[h]
      /\ gen'[g] = Gen("asks", j, n, 0, r)
  BY DEF GenTypes
<1>2. /\ gen'[g].at = "asks" /\ gen'[g].job = j /\ gen'[g].resumes = r
      /\ gen'[g] \in [at : At, job : Job \union {None}, shown : 0..MaxTokens, pending : Nat,
                      resumes : BOOLEAN]
  BY <1>1 DEF Gen, At
<1>3. j # None BY Bounds
<1>4. GenTypes' BY <1>1, <1>2, <1>3 DEF GenTypes
<1> QED BY <1>1, <1>2, <1>4

LEMMA OffTyped ==
  ASSUME GenTypes, NEW g \in Activity, gen' = [gen EXCEPT ![g] = Off]
  PROVE  /\ GenTypes' /\ gen'[g].at = "off" /\ \A h \in Activity \ {g} : gen'[h] = gen[h]
<1>1. /\ DOMAIN gen' = Activity /\ \A h \in Activity \ {g} : gen'[h] = gen[h]
      /\ gen'[g] = Off
  BY DEF GenTypes
<1>2. /\ gen'[g].at = "off" /\ gen'[g].job = None
      /\ gen'[g] \in [at : At, job : Job \union {None}, shown : 0..MaxTokens, pending : Nat,
                      resumes : BOOLEAN]
  BY <1>1, Bounds DEF Off, Gen, At
<1>4. GenTypes' BY <1>1, <1>2 DEF GenTypes
<1> QED BY <1>1, <1>2, <1>4

(* kickPump: an idle pump gets the head of the queue, a busy one keeps its own. *)
LEMMA KickKeeps ==
  ASSUME QueueInv, page = "up", NEW q \in Seq(Job), q # <<>>,
         queue # <<>> => Head(q) = Head(queue),
         NEW st \in [Job -> Status], Kick(q, st),
         UNCHANGED <<page, kills, convOf, before, hurt, session, inflight, saved, convs, row>>,
         chained' \subseteq Job, loaded' \in Seq(Job)
  PROVE  QueueInv'
<1> USE DEF QueueInv
<1>1. Head(q) \in Job /\ Tail(q) \in Seq(Job) BY Picked
<1>2. ListTypes /\ GenTypes /\ JobTypes /\ PageTypes /\ RowTypes /\ Tracked /\ PumpNeverIdles
  BY DEF TypeOK
<1>3. queue' = q BY DEF Kick
<1>4. RowTypes' BY <1>2 DEF RowTypes
<1>5. GoneIsEmpty' BY DEF GoneIsEmpty
<1>6. CASE /\ gen["pump"].at # "off" /\ status' = st /\ Commit({Waiting(q)})
           /\ UNCHANGED <<gen, active, cancel, stops>>
  <2>1. {Waiting(q)} \subseteq Seq(Job) BY Rest DEF Waiting
  <2>2. ListTypes' BY <1>2, <1>3, <1>6, <2>1, WritesTyped DEF ListTypes
  <2>3. JobTypes' /\ GenTypes' /\ PageTypes' BY <1>2, <1>6 DEF JobTypes, GenTypes, PageTypes
  <2>4. Tracked' BY <1>2, <1>6 DEF Tracked
  <2>5. PumpNeverIdles' BY <1>2, <1>3, <1>6 DEF PumpNeverIdles
  <2> QED BY <1>4, <1>5, <2>2, <2>3, <2>4, <2>5 DEF TypeOK
<1>7. CASE /\ gen["pump"].at = "off"
           /\ status' = [st EXCEPT ![Head(q)] = "running"] /\ Commit({q, Tail(q)})
           /\ Start(Head(q))
  <2>1. ListTypes' BY <1>1, <1>2, <1>3, <1>7, WritesTyped DEF ListTypes
  <2>2. gen' = [gen EXCEPT !["pump"] = Gen("asks", Head(q), 0, 0, FALSE)] BY <1>7 DEF Start
  <2>3. /\ GenTypes' /\ gen'["pump"].at = "asks" /\ gen'["pump"].job = Head(q)
        /\ gen'["pump"].resumes = FALSE /\ gen'["boot"] = gen["boot"]
    <3>1. "pump" \in Activity /\ "boot" \in Activity \ {"pump"} /\ 0 \in 0..MaxTokens
      BY Bounds DEF Activity
    <3> QED BY <1>1, <1>2, <2>2, <3>1, AsksTyped
  <2>4. JobTypes' /\ PageTypes' BY <1>1, <1>2, <1>7 DEF JobTypes, PageTypes, Start, Status
  <2>5. Tracked' BY <1>2, <2>3 DEF Tracked, Inside
  <2>6. PumpNeverIdles' BY <1>3, <2>3 DEF PumpNeverIdles
  <2> QED BY <1>4, <1>5, <2>1, <2>3, <2>4, <2>5, <2>6 DEF TypeOK
<1> QED BY <1>6, <1>7 DEF Kick
(* A step of an activity that stays on: the queue's rules are kept if what is tracked is. *)
LEMMA OnwardKeeps ==
  ASSUME QueueInv, NEW g \in Activity, NEW x, x # "off", Onward(g, x), gen[g].at # "off",
         UNCHANGED <<page, kills, convOf, queue, loaded, manifest, chained, before, stops, hurt>>,
         status' \in [Job -> Status], PageTypes', RowTypes', Tracked'
  PROVE  QueueInv'
<1>1. JobTypes' /\ ListTypes' BY DEF QueueInv, TypeOK, JobTypes, ListTypes
<1>2. GenTypes' BY DEF Onward
<1>3. page # "gone" BY DEF QueueInv, GoneIsEmpty
<1>4. GoneIsEmpty' BY <1>3 DEF GoneIsEmpty
<1>5. PumpNeverIdles'
  <2>1. CASE g = "pump" BY <2>1 DEF QueueInv, PumpNeverIdles, Onward
  <2>2. CASE g # "pump"
    <3>1. gen'["pump"] = gen["pump"] BY <2>2 DEF Onward, Activity
    <3> QED BY <3>1 DEF QueueInv, PumpNeverIdles
  <2> QED BY <2>1, <2>2
<1> QED BY <1>1, <1>2, <1>4, <1>5 DEF QueueInv, TypeOK

(* The end of the generation resumed at boot. *)
LEMMA BootOver ==
  ASSUME QueueInv, gen["boot"].at # "off", gen' = [gen EXCEPT !["boot"] = Off],
         UNCHANGED <<page, kills, convOf, queue, loaded, manifest, chained, before, stops, hurt>>,
         status' \in [Job -> Status], PageTypes', RowTypes'
  PROVE  QueueInv'
<1> "boot" \in Activity /\ "pump" \in Activity \ {"boot"} BY DEF Activity
<1>1. JobTypes' /\ ListTypes' BY DEF QueueInv, TypeOK, JobTypes, ListTypes
<1>2. GenTypes' /\ gen'["boot"].at = "off" /\ gen'["pump"] = gen["pump"]
  BY OffTyped DEF QueueInv, TypeOK
<1>3. page # "gone" BY DEF QueueInv, GoneIsEmpty
<1>4. GoneIsEmpty' BY <1>3 DEF GoneIsEmpty
<1>5. PumpNeverIdles' BY <1>2 DEF QueueInv, PumpNeverIdles
<1>6. Tracked' BY <1>2 DEF QueueInv, Tracked, Inside
<1> QED BY <1>1, <1>2, <1>4, <1>5, <1>6 DEF QueueInv, TypeOK

LEMMA RowKeeps ==
  ASSUME RowTypes, UNCHANGED convs, NEW g, NEW m, NEW n \in 0..MaxTokens,
         row' = row \/ row' = Appended(g, m, n)
  PROVE  RowTypes'
BY DEF RowTypes, Appended

(* While the pump's generation has the session, none is resumed, and back. *)
LEMMA OneAtWork ==
  ASSUME QueueInv, SteppingHolds
  PROVE  /\ gen["pump"].at \in Inside \union {"hung", "over"} => gen["boot"].at = "off"
         /\ gen["pump"].at = "asks" /\ gen["pump"].resumes => gen["boot"].at = "off"
         /\ session = None /\ gen["boot"].at # "asks" => gen["boot"].at = "off"
         /\ gen["pump"].at # "off" => gen["pump"].job \in Job
         /\ gen["boot"].at # "off" => gen["boot"].job \in Job
<1>1. gen["boot"].at \in At /\ gen["pump"].at \in At
  BY DEF QueueInv, TypeOK, GenTypes, Activity
<1>2. gen["boot"].at \notin {"hung", "over"} BY DEF QueueInv, Tracked
<1>3. gen["boot"].at \in {"off", "asks"} \union Inside BY <1>1, <1>2 DEF At, Inside
<1>4. gen["boot"].at \in Inside => session # None BY Bounds DEF SteppingHolds
<1>5. /\ gen["pump"].at # "off" => gen["pump"].job \in Job
      /\ gen["boot"].at # "off" => gen["boot"].job \in Job
  BY DEF QueueInv, TypeOK, GenTypes, Activity
<1> QED BY <1>3, <1>4, <1>5 DEF QueueInv, Tracked, Inside

LEMMA GeneratesKeeps ==
  ASSUME QueueInv, SteppingHolds, NEW g \in Activity, Generates(g)
  PROVE  QueueInv'
<1> USE DEF shared, stored, history
<1>0. /\ JobTypes /\ GenTypes /\ PageTypes /\ RowTypes /\ Tracked /\ status \in [Job -> Status]
  BY DEF QueueInv, TypeOK, JobTypes
<1>1. /\ gen[g].shown \in 0..MaxTokens /\ gen[g].pending \in Nat /\ gen[g].resumes \in BOOLEAN
      /\ gen[g].at # "off" => gen[g].job \in Job
  BY <1>0 DEF GenTypes
<1>2. CASE AcquireResumed(g)
  <2>1. gen[g].at = "asks" /\ gen[g].resumes BY <1>2 DEF AcquireResumed, MayAcquire
  <2>2. gen' = [gen EXCEPT ![g].at = "loop"] BY <1>2 DEF AcquireResumed, Goes
  <2>3. Onward(g, "loop")
    <3>1. "loop" \in At \ {"off"} BY DEF At
    <3> QED BY <1>0, <2>1, <2>2, <3>1, GoesTyped
  <2>4. PageTypes' BY <1>0, <1>2 DEF PageTypes, AcquireResumed
  <2>5. RowTypes' BY <1>0, <1>2 DEF RowTypes, AcquireResumed
  <2>6. Tracked'
    <3>1. inflight' = inflight BY <1>2 DEF AcquireResumed
    <3>2. CASE g = "pump" BY <1>0, <2>1, <2>3, <3>1, <3>2, OneAtWork DEF Tracked, Onward, Activity
    <3>3. CASE g = "boot" BY <1>0, <2>1, <2>3, <3>1, <3>3 DEF Tracked, Onward, Activity
    <3> QED BY <3>2, <3>3 DEF Activity
  <2> QED BY <1>0, <1>2, <2>1, <2>3, <2>4, <2>5, <2>6, OnwardKeeps DEF AcquireResumed
<1>3. CASE Bail(g)
  <2>1. gen[g].at = "asks" /\ gen[g].resumes BY <1>3 DEF Bail, MayAcquire
  <2>2. status' \in [Job -> Status] BY <1>0, <1>1, <1>3, <2>1 DEF Bail, Status
  <2>3. PageTypes' BY <1>0, <1>3 DEF PageTypes, Bail, Entry
  <2>4. RowTypes' BY <1>0, <1>3 DEF RowTypes, Bail
  <2>5. CASE g = "pump"
    <3>1. gen' = [gen EXCEPT !["pump"].at = "over"] BY <1>3, <2>5 DEF Bail, Goes
    <3>2. Onward("pump", "over")
      <4>1. "over" \in At \ {"off"} BY DEF At
      <4> QED BY <1>0, <2>1, <2>5, <3>1, <4>1, GoesTyped
    <3>3. Tracked' BY <1>0, <2>1, <2>5, <3>2, OneAtWork DEF Tracked, Onward, Activity, Inside
    <3> QED BY <1>3, <2>1, <2>2, <2>3, <2>4, <2>5, <3>2, <3>3, OnwardKeeps DEF Bail
  <2>6. CASE g = "boot"
    <3>1. gen' = [gen EXCEPT !["boot"] = Off] BY <1>3, <2>6 DEF Bail
    <3> QED BY <1>3, <2>1, <2>2, <2>3, <2>4, <2>6, <3>1, BootOver DEF Bail
  <2> QED BY <2>5, <2>6 DEF Activity
<1>4. CASE Emit(g)
  <2> DEFINE n == gen[g].shown + 1
  <2>1. gen[g].at = "loop" /\ n \in 0..MaxTokens BY <1>1, <1>4, Bounds DEF Emit
  <2>2. PICK p \in Nat : Shows(g, "step", n, p) BY <1>1, <1>4 DEF Emit
  <2>3. Onward(g, "step")
    <3>1. "step" \in At \ {"off"} BY DEF At
    <3> QED BY <1>0, <2>1, <2>2, <3>1, ShowsTyped
  <2>4. PageTypes' BY <1>0, <1>4 DEF PageTypes, Emit
  <2>5. RowTypes'
    <3>1. UNCHANGED convs /\ (row' = row \/ \E m : row' = Appended(g, m, n)) BY <1>4 DEF Emit
    <3> QED BY <1>0, <2>1, <3>1, RowKeeps
  <2>6. Tracked' BY <1>0, <1>4, <2>1, <2>3, OneAtWork DEF Emit, Tracked, Onward, Activity, Inside
  <2> QED BY <1>0, <1>4, <2>1, <2>3, <2>4, <2>5, <2>6, OnwardKeeps DEF Emit
<1>5. CASE StepDone(g)
  <2>1. gen[g].at = "step" /\ gen' = [gen EXCEPT ![g].at = "loop"] BY <1>5 DEF StepDone, Goes
  <2>2. Onward(g, "loop")
    <3>1. "loop" \in At \ {"off"} BY DEF At
    <3> QED BY <1>0, <2>1, <3>1, GoesTyped
  <2>3. inflight # None BY <1>0, <2>1 DEF Tracked, Activity, Inside
  <2>4. inflight \in [job : Job, upto : 0..MaxTokens] BY <1>0, <2>3 DEF PageTypes, Entry
  <2>5. /\ inflight' \in [job : Job, upto : 0..MaxTokens] /\ inflight'.job = inflight.job
        /\ UNCHANGED <<session, cancel, active, saved, row, convs>>
    BY <1>1, <1>5, <2>4 DEF StepDone
  <2>6. inflight' # None
    <3>1. inflight' \in [job : Job, upto : Nat] BY <2>5, Bounds
    <3> QED BY <3>1, Bounds
  <2>7. PageTypes' BY <1>0, <2>5 DEF PageTypes, Entry
  <2>8. RowTypes' BY <1>0, <2>5 DEF RowTypes
  <2>9. Tracked' BY <1>0, <2>1, <2>2, <2>5, <2>6, OneAtWork DEF Tracked, Onward, Activity, Inside
  <2> QED BY <1>0, <1>5, <2>1, <2>2, <2>7, <2>8, <2>9, OnwardKeeps DEF StepDone
<1>6. CASE Fails(g)
  <2>1. gen[g].at \in {"loop", "step"} /\ gen' = [gen EXCEPT ![g].at = "failed"]
    BY <1>6 DEF Fails, Goes
  <2>2. Onward(g, "failed")
    <3>1. "failed" \in At \ {"off"} BY DEF At
    <3> QED BY <1>0, <2>1, <3>1, GoesTyped
  <2>3. PageTypes' BY <1>0, <1>6 DEF PageTypes, Fails
  <2>4. RowTypes' BY <1>0, <1>6 DEF RowTypes, Fails
  <2>5. Tracked' BY <1>0, <1>6, <2>1, <2>2, OneAtWork DEF Fails, Tracked, Onward, Activity, Inside
  <2> QED BY <1>0, <1>6, <2>1, <2>2, <2>3, <2>4, <2>5, OnwardKeeps DEF Fails
<1>7. CASE Finish(g)
  <2> DEFINE x == IF cancel THEN "halted" ELSE "done"
  <2>1. gen[g].at = "loop" /\ gen' = [gen EXCEPT ![g].at = x] BY <1>7 DEF Finish, Goes
  <2>2. x \in {"halted", "done"} OBVIOUS
  <2> HIDE DEF x
  <2>3. Onward(g, x)
    <3>1. x \in At \ {"off"} BY <2>2 DEF At
    <3> QED BY <1>0, <2>1, <3>1, GoesTyped
  <2>4. PageTypes' BY <1>0, <1>7 DEF PageTypes, Finish
  <2>5. RowTypes'
    <3>1. UNCHANGED convs /\ \E m : row' = Appended(g, m, gen[g].shown) BY <1>7 DEF Finish, Flushed
    <3> QED BY <1>0, <1>1, <3>1, RowKeeps
  <2>6. Tracked'
    BY <1>0, <1>7, <2>1, <2>2, <2>3, OneAtWork DEF Finish, Tracked, Onward, Activity, Inside
  <2> QED BY <1>0, <1>7, <2>1, <2>2, <2>3, <2>4, <2>5, <2>6, OnwardKeeps DEF Finish
<1>8. CASE Ends(g)
  <2>1. gen[g].at \in Ended /\ gen[g].at # "off" BY <1>8 DEF Ends, Ended
  <2>2. status' \in [Job -> Status] BY <1>0, <1>1, <1>8, <2>1 DEF Ends, Status
  <2>3. PageTypes' BY <1>0, <1>8 DEF PageTypes, Ends, Entry
  <2>4. RowTypes' BY <1>0, <1>8 DEF RowTypes, Ends
  <2>5. CASE g = "pump"
    <3>1. gen' = [gen EXCEPT !["pump"].at = "over"] BY <1>8, <2>5 DEF Ends, Goes
    <3>2. Onward("pump", "over")
      <4>1. "over" \in At \ {"off"} BY DEF At
      <4> QED BY <1>0, <2>1, <2>5, <3>1, <4>1, GoesTyped
    <3>3. Tracked' BY <1>0, <2>1, <2>5, <3>2, OneAtWork DEF Tracked, Onward, Activity, Inside, Ended
    <3> QED BY <1>8, <2>1, <2>2, <2>3, <2>4, <2>5, <3>2, <3>3, OnwardKeeps DEF Ends
  <2>6. CASE g = "boot"
    <3>1. gen' = [gen EXCEPT !["boot"] = Off] BY <1>8, <2>6 DEF Ends
    <3> QED BY <1>8, <2>1, <2>2, <2>3, <2>4, <2>6, <3>1, BootOver DEF Ends
  <2> QED BY <2>5, <2>6 DEF Activity
<1> QED BY <1>2, <1>3, <1>4, <1>5, <1>6, <1>7, <1>8 DEF Generates
LEMMA WorksKeeps ==
  ASSUME QueueInv, SteppingHolds, AcquireFresh \/ Recover \/ PumpAdvance \/ Hangs
  PROVE  QueueInv'
<1> USE DEF shared, stored, history
<1> "pump" \in Activity /\ "boot" \in Activity \ {"pump"} BY DEF Activity
<1>0. /\ JobTypes /\ ListTypes /\ GenTypes /\ PageTypes /\ RowTypes /\ Tracked
      /\ status \in [Job -> Status]
  BY DEF QueueInv, TypeOK, JobTypes
<1>1. /\ gen["pump"].shown \in 0..MaxTokens
      /\ gen["pump"].at # "off" => gen["pump"].job \in Job
  BY <1>0 DEF GenTypes
<1>2. CASE AcquireFresh
  <2>1. /\ gen["pump"].at = "asks" /\ gen["boot"].at # "asks" /\ session = None
        /\ gen' = [gen EXCEPT !["pump"].at = "loop"]
        /\ inflight' = [job |-> gen["pump"].job, upto |-> 0]
    BY <1>2 DEF AcquireFresh, MayAcquire, Goes
  <2>2. Onward("pump", "loop")
    <3>1. "loop" \in At \ {"off"} BY DEF At
    <3> QED BY <1>0, <2>1, <3>1, GoesTyped
  <2>3. /\ inflight' \in [job : Job, upto : 0..MaxTokens] /\ inflight' \in [job : Job, upto : Nat]
        /\ inflight'.job = gen["pump"].job
    BY <1>1, <2>1, Bounds
  <2>4. inflight' # None BY <2>3, Bounds
  <2>5. PageTypes' BY <1>0, <1>2, <2>3 DEF PageTypes, AcquireFresh, Entry, Activity
  <2>6. RowTypes' BY <1>0, <1>2 DEF RowTypes, AcquireFresh
  <2>7. Tracked' BY <2>1, <2>2, <2>3, <2>4, OneAtWork DEF Tracked, Onward
  <2> QED BY <1>0, <1>2, <2>1, <2>2, <2>5, <2>6, <2>7, OnwardKeeps DEF AcquireFresh
<1>3. CASE Hangs
  <2>1. /\ gen["pump"].at = "step" /\ Shows("pump", "hung", gen["pump"].shown, 0)
        /\ saved' = inflight /\ session' = None
    BY <1>3 DEF Hangs
  <2>2. Onward("pump", "hung")
    <3>1. "hung" \in At \ {"off"} BY DEF At
    <3> QED BY <1>0, <1>1, <2>1, <3>1, ShowsTyped
  <2>3. PageTypes' BY <1>0, <1>3 DEF PageTypes, Hangs
  <2>4. RowTypes' BY <1>0, <1>3 DEF RowTypes, Hangs
  <2>5. Tracked' BY <1>0, <1>3, <2>1, <2>2, OneAtWork DEF Hangs, Tracked, Onward, Inside
  <2> QED BY <1>0, <1>3, <2>1, <2>2, <2>3, <2>4, <2>5, OnwardKeeps DEF Hangs
<1>4. CASE Recover
  <2>1. /\ gen["pump"].at = "hung" /\ cancel' = FALSE /\ stops' = None
        /\ gen' = [gen EXCEPT !["pump"] = Gen("asks", inflight.job, inflight.upto, 0, TRUE)]
    BY <1>4 DEF Recover, Resumed
  <2>2. inflight # None /\ inflight.job = gen["pump"].job BY <1>0, <2>1 DEF Tracked
  <2>3. inflight.job \in Job /\ inflight.upto \in 0..MaxTokens BY <1>0, <2>2 DEF PageTypes, Entry
  <2>4. /\ GenTypes' /\ gen'["pump"].at = "asks" /\ gen'["pump"].job = inflight.job
        /\ gen'["boot"] = gen["boot"]
    BY <1>0, <2>1, <2>3, AsksTyped
  <2>5. JobTypes' BY <1>0, <1>4, <2>1 DEF JobTypes, Recover
  <2>6. ListTypes' BY <1>0, <1>4 DEF ListTypes, Recover
  <2>7. PageTypes' BY <1>0, <1>4, <2>1 DEF PageTypes, Recover
  <2>8. RowTypes' BY <1>0, <1>4 DEF RowTypes, Recover
  <2>9. Tracked' BY <1>4, <2>1, <2>2, <2>4, OneAtWork DEF Tracked, Recover
  <2>10. PumpNeverIdles' BY <1>4, <2>1, <2>2, <2>4 DEF QueueInv, PumpNeverIdles, Recover
  <2>11. page' # "gone" BY <1>4, <2>1 DEF QueueInv, GoneIsEmpty, Recover
  <2> QED BY <2>4, <2>5, <2>6, <2>7, <2>8, <2>9, <2>10, <2>11 DEF QueueInv, TypeOK, GoneIsEmpty
<1>5. CASE PumpAdvance
  <2>1. gen["pump"].at = "over" /\ gen["boot"].at = "off" BY <1>5, OneAtWork DEF PumpAdvance
  <2>2. queue' \in Seq(Job) BY <1>0, <1>5, Rest DEF PumpAdvance, ListTypes
  <2>3. page' # "gone" BY <1>5, <2>1 DEF QueueInv, GoneIsEmpty, PumpAdvance
  <2>4. RowTypes' BY <1>0, <1>5 DEF RowTypes, PumpAdvance
  <2>5. /\ chained' \subseteq Job /\ before' \in [Job -> SUBSET Job]
        /\ UNCHANGED <<page, kills, convOf, hurt, loaded, session, inflight, saved>>
    BY <1>0, <1>1, <1>5, <2>1 DEF ListTypes, JobTypes, PumpAdvance, Leaves
  <2>6. CASE /\ queue' = <<>> /\ Commit({<<>>})
             /\ gen' = [gen EXCEPT !["pump"] = Off] /\ active' = FALSE
             /\ UNCHANGED <<status, cancel, stops>>
    <3>1. GenTypes' /\ gen'["pump"].at = "off" /\ gen'["boot"] = gen["boot"]
      BY <1>0, <2>6, OffTyped
    <3>2. {<<>>} \subseteq Seq(Job) OBVIOUS
    <3>3. ListTypes' BY <1>0, <2>2, <2>5, <2>6, <3>2, WritesTyped DEF ListTypes
    <3>4. JobTypes' /\ PageTypes' BY <1>0, <2>5, <2>6 DEF JobTypes, PageTypes
    <3>5. Tracked' /\ PumpNeverIdles'
      BY <2>1, <2>6, <3>1 DEF Tracked, PumpNeverIdles, Inside
    <3> QED BY <2>3, <2>4, <3>1, <3>3, <3>4, <3>5 DEF QueueInv, TypeOK, GoneIsEmpty
  <2>7. CASE /\ queue' # <<>> /\ Commit({queue', Tail(queue')})
             /\ status' = [status EXCEPT ![Head(queue')] = "running"]
             /\ Start(Head(queue'))
    <3>0. Head(queue') \in Job /\ Tail(queue') \in Seq(Job) BY <2>2, <2>7, Picked
    <3>1. gen' = [gen EXCEPT !["pump"] = Gen("asks", Head(queue'), 0, 0, FALSE)]
      BY <2>7 DEF Start
    <3>2. /\ GenTypes' /\ gen'["pump"].at = "asks" /\ gen'["pump"].job = Head(queue')
          /\ gen'["pump"].resumes = FALSE /\ gen'["boot"] = gen["boot"]
      <4>1. 0 \in 0..MaxTokens BY Bounds
      <4> QED BY <1>0, <3>0, <3>1, <4>1, AsksTyped
    <3>3. ListTypes' BY <1>0, <2>2, <2>5, <2>7, <3>0, WritesTyped DEF ListTypes
    <3>4. JobTypes' /\ PageTypes'
      BY <1>0, <2>5, <2>7, <3>0 DEF JobTypes, PageTypes, Start, Status
    <3>5. Tracked' /\ PumpNeverIdles'
      BY <2>1, <2>7, <3>2 DEF Tracked, PumpNeverIdles, Inside
    <3> QED BY <2>3, <2>4, <3>2, <3>3, <3>4, <3>5 DEF QueueInv, TypeOK, GoneIsEmpty
  <2> QED BY <1>5, <2>6, <2>7 DEF PumpAdvance
<1> QED BY <1>2, <1>3, <1>4, <1>5

(* What is dropped from the queue is never its head, which runs. *)
LEMMA TearDownKeeps ==
  ASSUME QueueInv, page = "up", NEW c, TearDown(c),
         UNCHANGED <<page, kills, convOf, chained, loaded, gen, session, inflight, active, saved, before, hurt>>,
         RowTypes'
  PROVE  QueueInv'
<1>0. JobTypes /\ ListTypes /\ GenTypes /\ PageTypes /\ Tracked /\ PumpNeverIdles
  BY DEF QueueInv, TypeOK
<1>1. GenTypes' /\ Tracked' BY <1>0 DEF GenTypes, Tracked
<1>2. GoneIsEmpty' BY DEF GoneIsEmpty
<1>3. CASE UNCHANGED <<status, queue, cancel, manifest, stops>>
  <2>1. JobTypes' /\ ListTypes' /\ PageTypes' /\ PumpNeverIdles'
    BY <1>0, <1>3 DEF JobTypes, ListTypes, PageTypes, PumpNeverIdles
  <2> QED BY <1>1, <1>2, <2>1 DEF QueueInv, TypeOK
<1>4. ASSUME NEW n \in DOMAIN queue, cancel' = TRUE, stops' = queue[n],
             UNCHANGED <<status, queue, manifest>>
      PROVE  QueueInv'
  <2>1. queue[n] \in Job BY <1>0, ElementOfSeq DEF ListTypes
  <2>2. JobTypes' /\ ListTypes' /\ PageTypes' /\ PumpNeverIdles'
    BY <1>0, <1>4, <2>1 DEF JobTypes, ListTypes, PageTypes, PumpNeverIdles
  <2> QED BY <1>1, <1>2, <2>2 DEF QueueInv, TypeOK
<1>5. ASSUME NEW n \in DOMAIN queue, queue[n] \notin Running,
             status' = [status EXCEPT ![queue[n]] = "over"],
             queue' = Without(queue, {queue[n]}), Commit({Waiting(queue')}),
             UNCHANGED <<cancel, stops>>
      PROVE  QueueInv'
  <2>1. queue[n] \in Job /\ queue # <<>> /\ queue \in Seq(Job)
    BY <1>0, ElementOfSeq DEF ListTypes
  <2>2. gen["pump"].at # "off" /\ Head(queue) = gen["pump"].job /\ Head(queue) \in Job
    BY <1>0, <2>1, Picked DEF PumpNeverIdles
  <2>3. Head(queue) \notin {queue[n]} BY <1>5, <2>2, Bounds DEF Running
  <2>4. queue' \in Seq(Job) /\ queue' # <<>> /\ Head(queue') = Head(queue)
    BY <1>5, <2>1, <2>3, Rest
  <2>5. {Waiting(queue')} \subseteq Seq(Job) BY <2>4, Rest DEF Waiting
  <2>6. ListTypes' BY <1>0, <1>5, <2>4, <2>5, WritesTyped DEF ListTypes
  <2>7. JobTypes' /\ PageTypes' BY <1>0, <1>5, <2>1 DEF JobTypes, PageTypes, Status
  <2>8. PumpNeverIdles' BY <2>2, <2>4 DEF PumpNeverIdles
  <2> QED BY <1>1, <1>2, <2>6, <2>7, <2>8 DEF QueueInv, TypeOK
<1> QED BY <1>3, <1>4, <1>5 DEF TearDown

LEMMA Longer ==
  ASSUME NEW q \in Seq(Job), NEW j \in Job
  PROVE  /\ Append(q, j) \in Seq(Job) /\ Append(q, j) # <<>>
         /\ q # <<>> => Head(Append(q, j)) = Head(q)
<1> DEFINE r == Append(q, j)
<1>1. r \in Seq(Job) /\ Len(r) = Len(q) + 1 /\ Len(q) \in Nat OBVIOUS
<1>2. r # <<>> BY <1>1
<1>3. ASSUME q # <<>> PROVE Head(r) = Head(q)
  <2>1. Len(q) >= 1 BY <1>3
  <2>2. r[1] = q[1] BY <2>1
  <2> QED BY <1>1, <1>2, <1>3, <2>2
<1> QED BY <1>1, <1>2, <1>3

LEMMA UserKeeps ==
  ASSUME QueueInv,
         \/ \E j \in Job : SendBegin(j) \/ SendFails(j) \/ Enqueue(j)
         \/ \E c \in Conv : Stop(c) \/ Delete(c)
  PROVE  QueueInv'
<1> USE DEF shared, stored, history
<1>0. JobTypes /\ ListTypes /\ GenTypes /\ PageTypes /\ RowTypes /\ Tracked /\ PumpNeverIdles
  BY DEF QueueInv, TypeOK
<1>1. ASSUME NEW j \in Job, SendBegin(j) PROVE QueueInv'
  <2>1. Of(convOf[j]) \subseteq Job
    <3>1. ToSet(queue) \subseteq Job BY <1>0, ElementOfSeq DEF ListTypes, ToSet
    <3> QED BY <3>1 DEF Of
  <2>2. JobTypes' BY <1>0, <1>1, <2>1 DEF JobTypes, SendBegin, Status
  <2>3. ListTypes' BY <1>0, <1>1 DEF ListTypes, SendBegin
  <2>4. GenTypes' /\ PageTypes' /\ RowTypes'
    BY <1>0, <1>1 DEF GenTypes, PageTypes, RowTypes, SendBegin
  <2>5. Tracked' /\ PumpNeverIdles' BY <1>0, <1>1 DEF Tracked, PumpNeverIdles, SendBegin
  <2>6. GoneIsEmpty' BY <1>1 DEF GoneIsEmpty, SendBegin
  <2> QED BY <2>2, <2>3, <2>4, <2>5, <2>6 DEF QueueInv, TypeOK
<1>2. ASSUME NEW j \in Job, SendFails(j) PROVE QueueInv'
  <2>2. JobTypes' BY <1>0, <1>2 DEF JobTypes, SendFails, Status
  <2>3. ListTypes' BY <1>0, <1>2 DEF ListTypes, SendFails
  <2>4. GenTypes' /\ PageTypes' /\ RowTypes'
    BY <1>0, <1>2 DEF GenTypes, PageTypes, RowTypes, SendFails
  <2>5. Tracked' /\ PumpNeverIdles' BY <1>0, <1>2 DEF Tracked, PumpNeverIdles, SendFails
  <2>6. GoneIsEmpty' BY <1>2 DEF QueueInv, GoneIsEmpty, SendFails
  <2> QED BY <2>2, <2>3, <2>4, <2>5, <2>6 DEF QueueInv, TypeOK
<1>3. ASSUME NEW j \in Job, Enqueue(j) PROVE QueueInv'
  <2> DEFINE q == Append(queue, j)
             st == [status EXCEPT ![j] = "queued"]
  <2>1. page = "up" BY <1>0, <1>3 DEF QueueInv, GoneIsEmpty, Enqueue, JobTypes
  <2>2. q \in Seq(Job) /\ q # <<>> /\ (queue # <<>> => Head(q) = Head(queue))
    <3>1. queue \in Seq(Job) BY <1>0 DEF ListTypes
    <3> QED BY <3>1, Longer
  <2>3. st \in [Job -> Status] BY <1>0 DEF JobTypes, Status
  <2>4. Kick(q, st) BY <1>3 DEF Enqueue
  <2>5. /\ UNCHANGED <<page, kills, convOf, before, hurt, loaded, session, inflight, saved, convs, row>>
        /\ chained' \subseteq Job /\ loaded' \in Seq(Job)
    BY <1>0, <1>3 DEF Enqueue, ListTypes
  <2> HIDE DEF q, st
  <2> QED BY <2>1, <2>2, <2>3, <2>4, <2>5, KickKeeps
<1>4. ASSUME NEW c \in Conv, Stop(c) PROVE QueueInv'
  <2>1. page = "up" /\ TearDown(c) /\ RowTypes' BY <1>0, <1>4 DEF Stop, RowTypes
  <2> QED BY <1>4, <2>1, TearDownKeeps DEF Stop
<1>5. ASSUME NEW c \in Conv, Delete(c) PROVE QueueInv'
  <2>1. page = "up" /\ TearDown(c) BY <1>5 DEF Delete
  <2>2. RowTypes' BY <1>0, <1>5, Bounds DEF Delete, RowTypes
  <2> QED BY <1>5, <2>1, <2>2, TearDownKeeps DEF Delete
<1> QED BY <1>1, <1>2, <1>3, <1>4, <1>5
LEMMA Joined ==
  ASSUME NEW q \in Seq(Job), NEW r \in Seq(Job)
  PROVE  /\ q \o r \in Seq(Job)
         /\ r # <<>> => q \o r # <<>>
         /\ q # <<>> => Head(q \o r) = Head(q)
<1> DEFINE s == q \o r
<1>1. /\ s \in Seq(Job) /\ Len(s) = Len(q) + Len(r) /\ Len(q) \in Nat /\ Len(r) \in Nat
  OBVIOUS
<1>2. r # <<>> \/ q # <<>> => s # <<>>
  <2>1. r # <<>> \/ q # <<>> => Len(s) > 0 BY <1>1
  <2> QED BY <1>1, <2>1
<1>3. ASSUME q # <<>> PROVE Head(s) = Head(q)
  <2>1. Len(q) >= 1 BY <1>3
  <2>2. s[1] = q[1] BY <2>1
  <2> QED BY <1>1, <1>2, <1>3, <2>2
<1> QED BY <1>1, <1>2, <1>3

LEMMA StorageKeeps ==
  ASSUME QueueInv, Hide \/ Written \/ SiblingEnds
  PROVE  QueueInv'
<1> USE DEF shared, stored, history
<1>0. JobTypes /\ ListTypes /\ GenTypes /\ PageTypes /\ RowTypes /\ Tracked /\ PumpNeverIdles
  BY DEF QueueInv, TypeOK
<1>1. UNCHANGED <<page, kills, convOf, status, queue, chained, loaded, gen, cancel, inflight,
                  active, session, convs, row, before, stops, hurt>>
  BY DEF Hide, Written, SiblingEnds
<1>2. manifest' \subseteq Seq(Job)
  <2>1. Waiting(queue) \in Seq(Job) BY <1>0, Rest DEF Waiting, ListTypes
  <2> QED BY <1>0, <2>1 DEF ListTypes, Hide, Written, SiblingEnds
<1>3. saved' \in Entry BY <1>0 DEF PageTypes, Entry, Hide, Written, SiblingEnds
<1>4. JobTypes' /\ ListTypes' /\ GenTypes' /\ PageTypes' /\ RowTypes'
  BY <1>0, <1>1, <1>2, <1>3 DEF JobTypes, ListTypes, GenTypes, PageTypes, RowTypes
<1>5. Tracked' /\ PumpNeverIdles' /\ GoneIsEmpty'
  BY <1>0, <1>1 DEF Tracked, PumpNeverIdles, GoneIsEmpty, QueueInv
<1> QED BY <1>4, <1>5 DEF QueueInv, TypeOK

LEMMA KillKeeps ==
  ASSUME QueueInv, Kill
  PROVE  QueueInv'
<1>0. JobTypes /\ ListTypes /\ GenTypes /\ PageTypes /\ RowTypes
  BY DEF QueueInv, TypeOK
<1>1. /\ page' = "gone" /\ kills' = kills + 1 /\ kills < MaxKills
      /\ queue' = <<>> /\ loaded' = <<>> /\ gen' = [g \in DOMAIN gen |-> Off]
      /\ session' = None /\ cancel' = FALSE /\ stops' = None /\ inflight' = None /\ active' = FALSE
      /\ chained' = {} /\ UNCHANGED <<convOf, convs, saved, before>>
  BY DEF Kill
<1>2. GenTypes' /\ \A g \in Activity : gen'[g].at = "off" /\ gen'[g].resumes = FALSE
  <2>1. DOMAIN gen' = Activity /\ \A g \in Activity : gen'[g] = Off BY <1>0, <1>1 DEF GenTypes
  <2>2. /\ Off \in [at : At, job : Job \union {None}, shown : 0..MaxTokens, pending : Nat,
                    resumes : BOOLEAN]
        /\ Off.at = "off" /\ Off.job = None /\ Off.resumes = FALSE
    BY Bounds DEF Off, Gen, At
  <2> QED BY <2>1, <2>2 DEF GenTypes
<1>3. PICK m \in manifest : \E Left, A :
        /\ manifest' = {m} /\ hurt' = hurt \union A
        /\ A \in {{}, SymDiff({j \in Job : status[j] = "queued"}, ToSet(m))}
        /\ status' = [j \in Job |-> Left[j]]
        /\ \A j \in Job : /\ Left[j] \in {status[j], "over"}
                         /\ Left[j] # "sending"
  <2>1. PICK m \in manifest :
          LET waits == {j \in Job : status[j] = "queued"}
              astray == IF Cardinality(manifest) = 1 /\ loaded = <<>> THEN {}
                        ELSE SymDiff(waits, ToSet(m))
              Left(j) == CASE status[j] = "sending" -> "over"
                           [] j \in waits \intersect astray -> "over"
                           [] status[j] = "running" /\ (saved = None \/ saved.job # j) -> "over"
                           [] OTHER -> status[j] IN
          /\ manifest' = {m} /\ hurt' = hurt \union astray
          /\ status' = [j \in Job |-> Left(j)]
    BY DEF Kill
  <2> DEFINE waits == {j \in Job : status[j] = "queued"}
             astray == IF Cardinality(manifest) = 1 /\ loaded = <<>> THEN {}
                       ELSE SymDiff(waits, ToSet(m))
             Left(j) == CASE status[j] = "sending" -> "over"
                          [] j \in waits \intersect astray -> "over"
                          [] status[j] = "running" /\ (saved = None \/ saved.job # j) -> "over"
                          [] OTHER -> status[j]
             L == [j \in Job |-> Left(j)]
  <2>2. manifest' = {m} /\ hurt' = hurt \union astray /\ status' = L BY <2>1
  <2>3. astray \in {{}, SymDiff(waits, ToSet(m))} OBVIOUS
  <2> HIDE DEF astray
  <2>4. \A j \in Job : Left(j) \in {status[j], "over"} /\ Left(j) # "sending" OBVIOUS
  <2> HIDE DEF Left
  <2>5. /\ status' = [j \in Job |-> L[j]]
        /\ \A j \in Job : L[j] \in {status[j], "over"} /\ L[j] # "sending"
    BY <2>2, <2>4
  <2> HIDE DEF L
  <2> QED BY <2>2, <2>3, <2>5
<1>4. /\ status' \in [Job -> Status] /\ \A j \in Job : status'[j] # "sending"
      /\ manifest' \subseteq Seq(Job) /\ hurt' \subseteq Job
  <2>1. PICK Left, A :
        /\ manifest' = {m} /\ hurt' = hurt \union A
        /\ A \in {{}, SymDiff({j \in Job : status[j] = "queued"}, ToSet(m))}
        /\ status' = [j \in Job |-> Left[j]]
        /\ \A j \in Job : /\ Left[j] \in {status[j], "over"}
                         /\ Left[j] # "sending"
    BY <1>3
  <2>2. m \in Seq(Job) BY <1>0, <1>3 DEF ListTypes
  <2>3. ToSet(m) \subseteq Job BY <2>2, ElementOfSeq DEF ToSet
  <2>4. A \subseteq Job BY <2>1, <2>3 DEF SymDiff
  <2> QED BY <1>0, <2>1, <2>2, <2>4 DEF JobTypes, Status
<1>5. RowTypes'
  <2>1. PICK keep \in 0..MaxTokens :
          row' = [j \in Job |-> IF session # None /\ j = gen[session].job /\ row[j] # Torn
                                    /\ keep < row[j] THEN keep ELSE row[j]]
    BY DEF Kill
  <2> QED BY <1>0, <1>1, <2>1 DEF RowTypes
<1>6. JobTypes' BY <1>0, <1>1, <1>4, Bounds DEF JobTypes
<1>7. ListTypes' BY <1>1, <1>4 DEF ListTypes
<1>8. PageTypes' BY <1>0, <1>1 DEF PageTypes, Entry
<1>9. Tracked' /\ PumpNeverIdles' /\ GoneIsEmpty'
  BY <1>1, <1>2, <1>4 DEF Tracked, PumpNeverIdles, GoneIsEmpty, Inside, Activity
<1> QED BY <1>2, <1>5, <1>6, <1>7, <1>8, <1>9 DEF QueueInv, TypeOK

LEMMA BootKeeps ==
  ASSUME QueueInv, Boot
  PROVE  QueueInv'
<1> "boot" \in Activity /\ "pump" \in Activity \ {"boot"} BY DEF Activity
<1>0. JobTypes /\ ListTypes /\ GenTypes /\ PageTypes /\ RowTypes /\ Tracked /\ PumpNeverIdles
  BY DEF QueueInv, TypeOK
<1>1. gen["pump"].at = "off" /\ gen["boot"].at = "off" /\ queue = <<>>
  BY DEF QueueInv, GoneIsEmpty, Boot
<1>2. /\ page' = "up" /\ loaded' \in manifest
      /\ UNCHANGED <<kills, convOf, queue, chained, session, cancel, convs, row, manifest, before,
                     stops, hurt>>
  BY DEF Boot
<1>3. ListTypes' /\ RowTypes' BY <1>0, <1>2 DEF ListTypes, RowTypes
<1>4. GoneIsEmpty' BY <1>2 DEF GoneIsEmpty
<1>5. CASE /\ saved # None /\ Resumed("boot", saved) /\ inflight' = saved /\ active' = TRUE
           /\ UNCHANGED <<status, saved>>
  <2>1. saved.job \in Job /\ saved.upto \in 0..MaxTokens BY <1>0, <1>5 DEF PageTypes, Entry
  <2>2. gen' = [gen EXCEPT !["boot"] = Gen("asks", saved.job, saved.upto, 0, TRUE)]
    BY <1>5 DEF Resumed
  <2>3. GenTypes' /\ gen'["boot"].at = "asks" /\ gen'["pump"] = gen["pump"]
    BY <1>0, <2>1, <2>2, AsksTyped
  <2>4. JobTypes' /\ PageTypes' BY <1>0, <1>2, <1>5 DEF JobTypes, PageTypes
  <2>5. Tracked' /\ PumpNeverIdles'
    BY <1>1, <1>2, <1>5, <2>3 DEF Tracked, PumpNeverIdles, Inside
  <2> QED BY <1>3, <1>4, <2>3, <2>4, <2>5 DEF QueueInv, TypeOK
<1>6. CASE /\ saved' = None
           /\ status' = [j \in Job |-> IF status[j] = "running" THEN "over" ELSE status[j]]
           /\ UNCHANGED <<gen, inflight, active>>
  <2>1. JobTypes' /\ PageTypes' /\ GenTypes'
    BY <1>0, <1>2, <1>6 DEF JobTypes, PageTypes, GenTypes, Status, Entry
  <2>2. Tracked' /\ PumpNeverIdles' BY <1>0, <1>2, <1>6 DEF Tracked, PumpNeverIdles
  <2> QED BY <1>3, <1>4, <2>1, <2>2 DEF QueueInv, TypeOK
<1> QED BY <1>5, <1>6 DEF Boot

LEMMA RestoreKeeps ==
  ASSUME QueueInv, Restore
  PROVE  QueueInv'
<1>0. JobTypes /\ ListTypes /\ GenTypes /\ PageTypes /\ RowTypes /\ Tracked /\ PumpNeverIdles
  BY DEF QueueInv, TypeOK
<1> DEFINE valid == Without(loaded, {j \in Job : convOf[j] \notin convs})
           st == [j \in Job |-> IF j \in ToSet(valid) THEN "queued"
                                ELSE IF j \in ToSet(loaded) /\ status[j] = "queued" THEN "over"
                                ELSE status[j]]
<1>1. /\ page = "up" /\ loaded' = <<>> /\ chained' = chained \union ToSet(valid)
      /\ \/ /\ valid = <<>> /\ status' = st
            /\ UNCHANGED <<queue, gen, active, cancel, manifest, stops>>
         \/ valid # <<>> /\ Kick(queue \o valid, st)
      /\ UNCHANGED <<page, kills, convOf, session, inflight, convs, row, saved, before, hurt>>
  BY DEF Restore
<1>2. valid \in Seq(Job) BY <1>0, Rest DEF ListTypes
<1>3. st \in [Job -> Status] BY <1>0 DEF JobTypes, Status
<1> HIDE DEF valid, st
<1>4. chained' \subseteq Job
  <2>1. ToSet(valid) \subseteq Job BY <1>2, ElementOfSeq DEF ToSet
  <2> QED BY <1>0, <1>1, <2>1 DEF ListTypes
<1>5. GoneIsEmpty' BY <1>1 DEF GoneIsEmpty
<1>6. CASE /\ status' = st /\ UNCHANGED <<queue, gen, active, cancel, manifest, stops>>
  <2>1. JobTypes' /\ ListTypes' /\ GenTypes' /\ PageTypes' /\ RowTypes'
    BY <1>0, <1>1, <1>3, <1>4, <1>6 DEF JobTypes, ListTypes, GenTypes, PageTypes, RowTypes
  <2>2. Tracked' /\ PumpNeverIdles' BY <1>0, <1>1, <1>6 DEF Tracked, PumpNeverIdles
  <2> QED BY <1>5, <2>1, <2>2 DEF QueueInv, TypeOK
<1>7. CASE valid # <<>> /\ Kick(queue \o valid, st)
  <2>1. queue \in Seq(Job) BY <1>0 DEF ListTypes
  <2> DEFINE q == queue \o valid
  <2>2. q \in Seq(Job) /\ q # <<>> /\ (queue # <<>> => Head(q) = Head(queue))
    BY <1>2, <1>7, <2>1, Joined
  <2>3. Kick(q, st) BY <1>7
  <2>4. loaded' \in Seq(Job) BY <1>1
  <2> HIDE DEF q
  <2> QED BY <1>1, <1>3, <1>4, <2>2, <2>3, <2>4, KickKeeps
<1> QED BY <1>1, <1>6, <1>7
LEMMA QueueInit == Init => QueueInv
<1> SUFFICES ASSUME Init PROVE QueueInv
  OBVIOUS
<1> USE Bounds, Jobs DEF Init
<1>1. JobTypes BY DEF JobTypes, Status
<1>2. ListTypes
  <2>1. <<>> \in Seq(Job) OBVIOUS
  <2> QED BY <2>1 DEF ListTypes
<1>3. GenTypes /\ \A g \in Activity : gen[g].at = "off" /\ gen[g].resumes = FALSE
  <2>1. DOMAIN gen = Activity /\ \A g \in Activity : gen[g] = Off BY DEF Activity
  <2>2. /\ Off \in [at : At, job : Job \union {None}, shown : 0..MaxTokens, pending : Nat,
                    resumes : BOOLEAN]
        /\ Off.at = "off" /\ Off.job = None /\ Off.resumes = FALSE
    BY DEF Off, Gen, At
  <2> QED BY <2>1, <2>2 DEF GenTypes
<1>4. PageTypes BY DEF PageTypes, Entry
<1>5. RowTypes BY DEF RowTypes
<1>6. Tracked /\ PumpNeverIdles /\ GoneIsEmpty
  BY <1>3 DEF Tracked, PumpNeverIdles, GoneIsEmpty, Inside, Activity
<1> QED BY <1>1, <1>2, <1>3, <1>4, <1>5, <1>6 DEF QueueInv, TypeOK

LEMMA QueueStep == ASSUME QueueInv, PageInv, [Next]_vars PROVE QueueInv'
<1>1. SteppingHolds BY DEF PageInv
<1>2. CASE AcquireFresh \/ Recover \/ PumpAdvance \/ Hangs BY <1>1, <1>2, WorksKeeps
<1>3. CASE Generates("pump") \/ Generates("boot") BY <1>1, <1>3, GeneratesKeeps DEF Activity
<1>4. CASE \/ \E j \in Job : SendBegin(j) \/ SendFails(j) \/ Enqueue(j)
           \/ \E c \in Conv : Stop(c) \/ Delete(c)
  BY <1>4, UserKeeps
<1>5. CASE Hide \/ Written \/ SiblingEnds BY <1>5, StorageKeeps
<1>6. CASE Kill BY <1>6, KillKeeps
<1>7. CASE Boot BY <1>7, BootKeeps
<1>8. CASE Restore BY <1>8, RestoreKeeps
<1>9. CASE UNCHANGED vars
  <2> USE DEF vars, shared, stored, history
  <2>1. JobTypes' /\ ListTypes' /\ GenTypes' /\ PageTypes' /\ RowTypes'
    BY <1>9 DEF QueueInv, TypeOK, JobTypes, ListTypes, GenTypes, PageTypes, RowTypes
  <2>2. Tracked' /\ PumpNeverIdles' /\ GoneIsEmpty'
    BY <1>9 DEF QueueInv, Tracked, PumpNeverIdles, GoneIsEmpty
  <2> QED BY <2>1, <2>2 DEF QueueInv, TypeOK
<1> QED BY <1>2, <1>3, <1>4, <1>5, <1>6, <1>7, <1>8, <1>9 DEF Next, Works

LEMMA QueueSafe == Spec => []QueueInv
BY PageSafe, QueueInit, QueueStep, PTL DEF Spec

(* The state of the hook and what it leaves in storage (useChatEngine.ts): whatever is
   queued, read back, tracked or saved is a message, and a generation that is on has one. *)
THEOREM ChatTypes == Spec => []TypeOK
<1>1. QueueInv => TypeOK BY DEF QueueInv
<1> QED BY <1>1, QueueSafe, PTL

(* kickPump and its callers: there is a queue exactly while the pump is on, and the
   pump's job is the head of it, across hangs, deletions and what a reload restores. *)
THEOREM PumpAtWork == Spec => []PumpNeverIdles
<1>1. QueueInv => PumpNeverIdles BY DEF QueueInv
<1> QED BY <1>1, QueueSafe, PTL
--------------------------------------------------------------------------------
(* What is queued, what is saved and what is in the rows. *)

Live(j) == convOf[j] \in convs

(* A list of jobs has each once, and behind those it was sent behind. *)
Tidy(s, b) == \A p, q \in DOMAIN s : p < q => s[p] # s[q] /\ s[q] \notin b[s[p]]

AllLists == {queue, loaded} \union manifest
Entered == {j \in Job : status[j] \notin {"none", "sending"}}
ListsOK ==
  /\ \A s \in AllLists : Tidy(s, before) /\ ToSet(s) \subseteq Entered
  /\ ToSet(queue) \intersect ToSet(loaded) = {}
  /\ \A j \in ToSet(queue) : before[j] \intersect ToSet(loaded) = {}

(* The jobs that wait are those the pump has not come to and those not restored yet; a
   page that is gone has them in its manifest. *)
Behind == ToSet(queue) \ {gen["pump"].job}
PlacesOK ==
  /\ page = "up" =>
       /\ \A j \in Job : status[j] = "queued" => j \in Behind \union ToSet(loaded)
       /\ \A j \in Behind \ hurt : status[j] = "queued"
       /\ \A j \in ToSet(loaded) \ hurt : Live(j) => status[j] = "queued"
  /\ page = "gone" =>
       \A m \in manifest :
         /\ \A j \in Job : status[j] = "queued" => j \in ToSet(m)
         /\ \A j \in ToSet(m) \ hurt : Live(j) => status[j] = "queued"

(* The last write of the manifest is of what waits now; but for a page that has sent
   nothing since it read jobs of deleted conversations only. *)
WritesOK ==
  /\ IsFiniteSet(manifest)
  /\ page = "gone" => \E m : manifest = {m}
  /\ page = "up" =>
       \/ Waiting(queue) \in manifest
       \/ queue = <<>> /\ loaded # <<>> /\ manifest = {loaded}
       \/ queue = <<>> /\ \E m : manifest = {m} /\ \A j \in ToSet(m) : ~Live(j)

(* A generation that is on, tracked or saved is one of a running job; the resumed one is
   not in the queue. *)
On(g) == gen[g].at \notin {"off", "over"}
EntriesOK ==
  /\ saved # None /\ saved.job \notin hurt => status[saved.job] = "running"
  /\ inflight # None => \E g \in Activity : On(g) /\ inflight.job = gen[g].job
  /\ \A g \in Activity : On(g) /\ gen[g].job \notin hurt => status[gen[g].job] = "running"
  /\ gen["pump"].at = "over" => status[gen["pump"].job] = "over"
  /\ gen["boot"].at # "off" /\ gen["boot"].job \notin hurt => gen["boot"].job \notin ToSet(queue)
  /\ page = "gone" => \A j \in Job : status[j] = "running" => saved = None \/ saved.job = j

(* The row of a job that has not started is empty, and the row of the pump's fresh
   generation holds what was shown but for what is pending. *)
Stored(g) == IF g.at \in {"done", "halted"} THEN g.shown ELSE g.shown - g.pending
FreshStored ==
  LET g == gen["pump"] IN
  ~g.resumes /\ g.at \in {"asks", "loop", "step", "done", "halted"} =>
    /\ g.pending <= g.shown
    /\ g.job \notin hurt /\ Live(g.job) => row[g.job] = Stored(g)
RowsOK ==
  /\ \A j \in Job \ hurt : Live(j) /\ status[j] \in {"none", "sending", "queued"} => row[j] = 0
  /\ gen["boot"].at # "off" => gen["boot"].resumes
  /\ FreshStored

(* The jobs a job was sent behind are over, resumed, or ahead of it. *)
Coming == {j \in Job : status[j] = "sending"} \union Behind
Ahead(j, S) == \A k \in before[j] : status[k] = "over" \/ k = gen["boot"].job \/ k \in S
Comes(j) ==
  /\ Ahead(j, ToSet(queue))
  /\ before[j] # {} => j \in chained
  /\ before[j] \intersect ToSet(loaded) = {}
BeforeOK ==
  \A j \in Job : \A k \in before[j] :
    status[j] # "none" /\ k # j /\ convOf[k] = convOf[j] /\ k \in Entered
PriorsOK ==
  /\ BeforeOK
  /\ page = "up" =>
       /\ \A j \in Coming : Comes(j)
       /\ \A j \in ToSet(loaded) : Ahead(j, ToSet(queue) \union ToSet(loaded))

ChatInv == ListsOK /\ PlacesOK /\ WritesOK /\ EntriesOK /\ RowsOK /\ PriorsOK

LEMMA SublistTidy ==
  ASSUME NEW t, NEW s, NEW b, Sublist(s, t), Tidy(t, b)
  PROVE  Tidy(s, b) /\ ToSet(s) \subseteq ToSet(t)
<1>1. PICK at \in [DOMAIN s -> DOMAIN t] :
        /\ \A n \in DOMAIN s : s[n] = t[at[n]]
        /\ \A n, m \in DOMAIN s : n < m => at[n] < at[m]
  BY DEF Sublist
<1>2. Tidy(s, b) BY <1>1 DEF Tidy
<1>3. ToSet(s) \subseteq ToSet(t) BY <1>1 DEF ToSet
<1> QED BY <1>2, <1>3

(* Lists that are kept or shortened stay in order. *)
LEMMA ListsKept ==
  ASSUME ListsOK, before' = before, Entered \subseteq Entered',
         \A s \in AllLists' : \E t \in AllLists : Sublist(s, t),
         ToSet(queue') \subseteq ToSet(queue), ToSet(loaded') \subseteq ToSet(loaded)
  PROVE  ListsOK'
<1>1. ASSUME NEW s \in AllLists'
      PROVE  Tidy(s, before') /\ ToSet(s) \subseteq Entered'
  <2>1. PICK t \in AllLists : Sublist(s, t) OBVIOUS
  <2>2. Tidy(t, before) /\ ToSet(t) \subseteq Entered BY DEF ListsOK
  <2>3. Tidy(s, before) /\ ToSet(s) \subseteq ToSet(t) BY <2>1, <2>2, SublistTidy
  <2> QED BY <2>2, <2>3
<1>2. /\ ToSet(queue') \intersect ToSet(loaded') = {}
      /\ \A j \in ToSet(queue') : before'[j] \intersect ToSet(loaded') = {}
  BY DEF ListsOK
<1> QED BY <1>1, <1>2 DEF ListsOK

(* A generation that goes on, or ends, leaves the queue and what waits as they are. *)
LEMMA PhaseKeeps ==
  ASSUME QueueInv, ChatInv, page = "up",
         UNCHANGED <<page, convOf, queue, chained, loaded, convs, manifest, before, hurt>>,
         gen'["pump"].job = gen["pump"].job,
         \/ status' = status /\ gen'["boot"].job = gen["boot"].job
         \/ \E g \in Activity :
              /\ On(g) /\ status' = [status EXCEPT ![gen[g].job] = "over"]
              /\ g # "boot" => gen'["boot"].job = gen["boot"].job
  PROVE  ListsOK' /\ PlacesOK' /\ WritesOK' /\ PriorsOK'
<1>0. /\ status \in [Job -> Status] /\ \A g \in Activity : On(g) => gen[g].job \in Job
      /\ ListsOK /\ PlacesOK /\ WritesOK /\ PriorsOK /\ EntriesOK
  BY DEF QueueInv, TypeOK, JobTypes, GenTypes, ChatInv, On
<1>1. /\ \A j \in Job : status'[j] # status[j] => status'[j] = "over"
      /\ \A j \in Job : j = gen["boot"].job => j = gen'["boot"].job \/ status'[j] = "over"
  BY <1>0
<1>2. Entered \subseteq Entered' BY <1>1 DEF Entered
<1>3. ListsOK'
  <2>1. AllLists' = AllLists BY DEF AllLists
  <2>2. \A s \in AllLists' : \E t \in AllLists : Sublist(s, t) BY <2>1, SublistSelf
  <2> QED BY <1>0, <1>2, <2>2, ListsKept
<1>4. Behind' = Behind BY DEF Behind
<1>5. ASSUME NEW j \in Job \ hurt, status[j] = "queued" PROVE status'[j] = "queued"
  <2>1. CASE status' = status BY <1>5, <2>1
  <2>2. ASSUME NEW g \in Activity, On(g), status' = [status EXCEPT ![gen[g].job] = "over"]
        PROVE  status'[j] = "queued"
    <3>1. j # gen[g].job BY <1>0, <1>5, <2>2 DEF EntriesOK
    <3> QED BY <1>0, <1>5, <2>2, <3>1
  <2> QED BY <2>1, <2>2
<1>6. PlacesOK'
  <2>1. ASSUME NEW j \in Job, status'[j] = "queued" PROVE j \in Behind \union ToSet(loaded)
    BY <1>0, <1>1, <2>1 DEF PlacesOK
  <2>2. ASSUME NEW j \in Behind \ hurt PROVE status'[j] = "queued"
    <3>1. j \in Job BY <1>0 DEF ListsOK, AllLists, Entered, Behind
    <3>2. status[j] = "queued" BY <1>0, <2>2 DEF PlacesOK
    <3> QED BY <1>5, <2>2, <3>1, <3>2
  <2>3. ASSUME NEW j \in ToSet(loaded) \ hurt, Live(j) PROVE status'[j] = "queued"
    <3>1. j \in Job BY <1>0 DEF ListsOK, AllLists, Entered
    <3>2. status[j] = "queued" BY <1>0, <2>3 DEF PlacesOK
    <3> QED BY <1>5, <2>3, <3>1, <3>2
  <2> QED BY <1>4, <2>1, <2>2, <2>3 DEF PlacesOK, Live
<1>7. WritesOK'
  <2>1. Waiting(queue)' = Waiting(queue) BY DEF Waiting, Running
  <2> QED BY <1>0, <2>1 DEF WritesOK, Live
<1>8. PriorsOK'
  <2>0. Coming' \subseteq Coming
    <3>1. \A j \in Job : status'[j] = "sending" => status[j] = "sending" BY <1>1
    <3> QED BY <1>4, <3>1 DEF Coming
  <2>1. ASSUME NEW j \in Job, NEW S, Ahead(j, S) PROVE \A k \in before[j] :
          status'[k] = "over" \/ k = gen'["boot"].job \/ k \in S
    <3> TAKE k \in before[j]
    <3>1. k \in Job BY DEF QueueInv, TypeOK, JobTypes
    <3>2. status[k] = "over" => status'[k] = "over" BY <1>1, <3>1
    <3>3. k = gen["boot"].job => status'[k] = "over" \/ k = gen'["boot"].job BY <1>1, <3>1
    <3> QED BY <2>1, <3>2, <3>3 DEF Ahead
  <2>2. Coming \subseteq Job /\ ToSet(loaded) \subseteq Job
    BY <1>0 DEF ListsOK, AllLists, Entered, Behind, Coming
  <2>3. ASSUME NEW j \in Coming' PROVE Comes(j)'
    <3>1. j \in Coming /\ j \in Job BY <2>0, <2>2, <2>3
    <3>2. Comes(j) BY <1>0, <3>1 DEF PriorsOK
    <3>3. \A k \in before[j] : status'[k] = "over" \/ k = gen'["boot"].job \/ k \in ToSet(queue)
      BY <2>1, <3>1, <3>2 DEF Comes
    <3> QED BY <3>2, <3>3 DEF Comes, Ahead
  <2>4. ASSUME NEW j \in ToSet(loaded) PROVE Ahead(j, ToSet(queue) \union ToSet(loaded))'
    <3> DEFINE S == ToSet(queue) \union ToSet(loaded)
    <3>1. Ahead(j, S) BY <1>0 DEF PriorsOK
    <3> HIDE DEF S
    <3>2. \A k \in before[j] : status'[k] = "over" \/ k = gen'["boot"].job \/ k \in S
      BY <2>1, <2>2, <3>1
    <3> QED BY <3>2 DEF Ahead, S
  <2>5. BeforeOK'
    <3>1. \A j \in Job : status[j] # "none" => status'[j] # "none" BY <1>1
    <3> QED BY <1>0, <1>2, <3>1 DEF PriorsOK, BeforeOK
  <2> QED BY <2>3, <2>4, <2>5 DEF PriorsOK
<1> QED BY <1>3, <1>6, <1>7, <1>8

(* What is tracked and saved is of a running job, as long as both generations are of theirs. *)
LEMMA PhaseEntries ==
  ASSUME QueueInv, ChatInv, page = "up", UNCHANGED <<page, status, queue, hurt>>,
         \A g \in Activity : /\ gen'[g].job = gen[g].job
                            /\ (gen'[g].at = gen[g].at \/ (On(g) /\ On(g)')),
         saved' = saved \/ saved' = inflight,
         \/ inflight' = inflight
         \/ \E g \in Activity : (On(g)' /\ inflight'.job = gen[g].job)
  PROVE  EntriesOK'
<1>0. EntriesOK /\ "pump" \in Activity /\ "boot" \in Activity BY DEF ChatInv, Activity
<1>1. \A g \in Activity : On(g)' <=> On(g) BY DEF On
<1>2. saved' # None /\ saved'.job \notin hurt => status[saved'.job] = "running"
  <2>1. CASE saved' = saved BY <1>0, <2>1 DEF EntriesOK
  <2>2. CASE saved' = inflight BY <1>0, <2>2 DEF EntriesOK
  <2> QED BY <2>1, <2>2
<1>3. inflight' # None => \E g \in Activity : On(g)' /\ inflight'.job = gen'[g].job
  <2>1. CASE inflight' = inflight
    <3>1. inflight # None => \E g \in Activity : On(g) /\ inflight.job = gen[g].job
      BY <1>0 DEF EntriesOK
    <3> QED BY <1>1, <2>1, <3>1
  <2>2. CASE \E g \in Activity : On(g)' /\ inflight'.job = gen[g].job BY <2>2
  <2> QED BY <2>1, <2>2
<1>4. \A g \in Activity : On(g)' /\ gen'[g].job \notin hurt => status[gen'[g].job] = "running"
  BY <1>0, <1>1 DEF EntriesOK
<1>5. gen'["pump"].at = "over" => status[gen'["pump"].job] = "over"
  BY <1>0 DEF EntriesOK, On
<1>6. /\ gen'["boot"].at # "off" /\ gen'["boot"].job \notin hurt
      => gen'["boot"].job \notin ToSet(queue)
  BY <1>0 DEF EntriesOK, On
<1> QED BY <1>2, <1>3, <1>4, <1>5, <1>6 DEF EntriesOK

(* What the pump works at is the head of a queue of a page that is up. *)
LEMMA PumpIsQueued ==
  ASSUME QueueInv
  PROVE  /\ gen["pump"].at # "off" => /\ queue # <<>> /\ gen["pump"].job \in ToSet(queue)
                                     /\ gen["pump"].job = Head(queue) /\ page = "up"
         /\ gen["boot"].at # "off" => page = "up"
         /\ \A g \in Activity : gen[g].at # "off" => gen[g].job \in Job
         /\ \A g \in Activity : gen[g].at = "off" => gen[g].job = None
<1>0. queue \in Seq(Job) /\ page \in {"up", "gone"} /\ PumpNeverIdles /\ GoneIsEmpty /\ GenTypes
  BY DEF QueueInv, TypeOK, ListTypes, JobTypes
<1>1. ASSUME gen["pump"].at # "off" PROVE gen["pump"].job \in ToSet(queue)
  <2>1. queue # <<>> /\ Head(queue) = gen["pump"].job BY <1>0, <1>1 DEF PumpNeverIdles
  <2>2. 1 \in DOMAIN queue /\ queue[1] = Head(queue) BY <1>0, <2>1, TailSublist
  <2> QED BY <2>1, <2>2 DEF ToSet
<1>2. gen["pump"].at # "off" \/ gen["boot"].at # "off" => page = "up"
  BY <1>0 DEF GoneIsEmpty, Activity
<1>3. \A g \in Activity : gen[g].at # "off" => gen[g].job \in Job
  BY <1>0 DEF GenTypes
<1>4. \A g \in Activity : gen[g].at = "off" => gen[g].job = None
  BY <1>0 DEF GenTypes
<1> QED BY <1>0, <1>1, <1>2, <1>3, <1>4 DEF PumpNeverIdles

(* A generation changes only the row of its job. *)
LEMMA PhaseRows ==
  ASSUME QueueInv, ChatInv, UNCHANGED <<convOf, convs, hurt>>, NEW g \in Activity, On(g),
         \A j \in Job : status'[j] # status[j] => status'[j] = "over",
         \A h \in Activity \ {g} : gen'[h] = gen[h],
         gen'["boot"].at # "off" => gen'["boot"].resumes,
         g = "pump" => FreshStored',
         NEW a, NEW b, row' = row \/ row' = Appended(g, a, b)
  PROVE  RowsOK'
<1>0. RowsOK /\ EntriesOK /\ gen[g].job \in Job /\ row \in [Job -> 0..MaxTokens \union {Torn}]
  BY DEF QueueInv, TypeOK, GenTypes, RowTypes, On, ChatInv
<1>1. \A j \in Job \ {gen[g].job} : row'[j] = row[j] BY <1>0 DEF Appended
<1>2. ASSUME NEW j \in Job \ hurt, Live(j), status'[j] \in {"none", "sending", "queued"}
      PROVE  row'[j] = 0
  <2>1. status[j] = status'[j] BY <1>2
  <2>2. row[j] = 0 BY <1>0, <1>2, <2>1 DEF RowsOK
  <2>3. j # gen[g].job BY <1>0, <1>2, <2>1 DEF EntriesOK
  <2> QED BY <1>1, <2>2, <2>3
<1>3. FreshStored'
  <2>1. CASE g = "pump" BY <2>1
  <2>2. CASE g = "boot"
    <3>1. gen'["pump"] = gen["pump"] BY <2>2 DEF Activity
    <3>2. FreshStored BY <1>0 DEF RowsOK, FreshStored
    <3>3. ASSUME gen["pump"].at \in {"asks", "loop", "step", "done", "halted"},
                 gen["pump"].job \notin hurt
          PROVE  row'[gen["pump"].job] = row[gen["pump"].job]
      <4>1. gen["pump"].job \in Job /\ gen["pump"].job \in ToSet(queue)
        BY <3>3, PumpIsQueued DEF Activity
      <4>2. gen["pump"].job # gen["boot"].job BY <1>0, <2>2, <3>3, <4>1 DEF EntriesOK, On
      <4> QED BY <1>1, <2>2, <4>1, <4>2
    <3> QED BY <3>1, <3>2, <3>3 DEF FreshStored, Live, Stored
  <2> QED BY <2>1, <2>2 DEF Activity
<1> QED BY <1>2, <1>3 DEF RowsOK, FreshStored, Live

LEMMA GoesFields ==
  ASSUME QueueInv, NEW g \in Activity, NEW x, gen' = [gen EXCEPT ![g].at = x]
  PROVE  /\ gen'[g].at = x /\ gen'[g].job = gen[g].job /\ gen'[g].resumes = gen[g].resumes
         /\ gen'[g].shown = gen[g].shown /\ gen'[g].pending = gen[g].pending
         /\ \A h \in Activity \ {g} : gen'[h] = gen[h]
BY DEF QueueInv, TypeOK, GenTypes

LEMMA ShowsFields ==
  ASSUME QueueInv, NEW g \in Activity, NEW x, NEW n, NEW p, Shows(g, x, n, p)
  PROVE  /\ gen'[g].at = x /\ gen'[g].job = gen[g].job /\ gen'[g].resumes = gen[g].resumes
         /\ gen'[g].shown = n /\ gen'[g].pending = p
         /\ \A h \in Activity \ {g} : gen'[h] = gen[h]
BY DEF QueueInv, TypeOK, GenTypes, Shows, Gen

(* What is pending is appended to a row that has everything before it. *)
LEMMA AppendsNext ==
  ASSUME QueueInv, NEW j \in Job, gen["pump"].job = j, Live(j), NEW n \in Nat, NEW m \in Nat,
         m <= n, row[j] = m, row' = Appended("pump", m + 1, n)
  PROVE  row'[j] = n
<1>1. row \in [Job -> 0..MaxTokens \union {Torn}] BY DEF QueueInv, TypeOK, RowTypes
<1>2. CASE m = n BY <1>2 DEF Appended, Live
<1>3. CASE m # n
  <2>1. ~(m + 1 > n) /\ m = (m + 1) - 1 BY <1>3
  <2>2. row' = [row EXCEPT ![j] = n] BY <1>1, <2>1 DEF Appended, Live
  <2> QED BY <1>1, <2>2
<1> QED BY <1>2, <1>3

(* A step of a generation that is not its last. *)
LEMMA GoesOnChat ==
  ASSUME QueueInv, ChatInv, NEW g \in Activity, On(g), On(g)',
         UNCHANGED <<page, status, convOf, queue, chained, loaded, convs, manifest, before, hurt>>,
         gen'[g].job = gen[g].job, gen'[g].resumes = gen[g].resumes \/ gen'[g].resumes = TRUE,
         \A h \in Activity \ {g} : gen'[h] = gen[h],
         saved' = saved \/ saved' = inflight,
         \/ inflight' = inflight
         \/ inflight'.job = gen[g].job
         \/ inflight # None /\ inflight'.job = inflight.job,
         g = "pump" => FreshStored',
         NEW a, NEW b, row' = row \/ row' = Appended(g, a, b)
  PROVE  ChatInv'
<1>0. page = "up"
  <2>1. gen[g].at # "off" BY DEF On
  <2> QED BY <2>1, PumpIsQueued DEF Activity
<1>1. \A h \in Activity : gen'[h].job = gen[h].job OBVIOUS
<1>2. ListsOK' /\ PlacesOK' /\ WritesOK' /\ PriorsOK'
  <2>1. gen'["pump"].job = gen["pump"].job /\ gen'["boot"].job = gen["boot"].job
    BY <1>1 DEF Activity
  <2> QED BY <1>0, <2>1, PhaseKeeps
<1>3. EntriesOK'
  <2>1. \A h \in Activity : /\ gen'[h].job = gen[h].job
                           /\ (gen'[h].at = gen[h].at \/ (On(h) /\ On(h)'))
    BY <1>1
  <2>2. \/ inflight' = inflight
        \/ \E h \in Activity : (On(h)' /\ inflight'.job = gen[h].job)
    <3>1. CASE inflight' = inflight BY <3>1
    <3>2. CASE inflight'.job = gen[g].job BY <3>2
    <3>3. CASE inflight # None /\ inflight'.job = inflight.job
      <4>1. PICK h \in Activity : On(h) /\ inflight.job = gen[h].job
        BY <3>3 DEF ChatInv, EntriesOK
      <4>2. On(h)' BY <4>1 DEF On
      <4> QED BY <3>3, <4>1, <4>2
    <3> QED BY <3>1, <3>2, <3>3
  <2> QED BY <1>0, <2>1, <2>2, PhaseEntries
<1>4. RowsOK'
  <2>1. gen'["boot"].at # "off" => gen'["boot"].resumes
    <3>1. gen["boot"].at # "off" => gen["boot"].resumes BY DEF ChatInv, RowsOK
    <3>2. CASE g = "boot" BY <3>1, <3>2 DEF On
    <3>3. CASE g # "boot" BY <3>1, <3>3 DEF Activity
    <3> QED BY <3>2, <3>3
  <2>2. \A j \in Job : status'[j] # status[j] => status'[j] = "over" OBVIOUS
  <2> QED BY <2>1, <2>2, PhaseRows
<1> QED BY <1>2, <1>3, <1>4 DEF ChatInv

(* A step of the loop, of either generation: the pump's row grows as it is shown. *)
LEMMA LoopChat ==
  ASSUME QueueInv, ChatInv, NEW g \in Activity, Emit(g) \/ StepDone(g) \/ Fails(g) \/ Finish(g)
  PROVE  ChatInv'
<1> USE DEF shared, stored, history
<1>0. /\ gen[g].at \in {"loop", "step"} /\ On(g)
      /\ UNCHANGED <<page, status, convOf, queue, chained, loaded, convs, manifest, before, hurt,
                     saved>>
  BY DEF Emit, StepDone, Fails, Finish, On
<1>1. /\ gen[g].shown \in Nat /\ gen[g].pending \in Nat /\ gen[g].resumes \in BOOLEAN
      /\ gen[g].job \in Job
  BY <1>0, Bounds DEF QueueInv, TypeOK, GenTypes
<1>2. g = "pump" /\ ~gen[g].resumes =>
        /\ gen[g].pending <= gen[g].shown
        /\ gen[g].job \notin hurt /\ Live(gen[g].job) =>
             row[gen[g].job] = gen[g].shown - gen[g].pending
  BY <1>0 DEF ChatInv, RowsOK, FreshStored, Stored
<1>3. CASE Emit(g)
  <2> DEFINE n == gen[g].shown + 1
             p == gen[g].pending
  <2>1. PICK q : /\ Shows(g, "step", n, q)
                 /\ \/ q = 0 /\ row' = Appended(g, n - p, n)
                    \/ q = p + 1 /\ row' = row
    BY <1>3 DEF Emit
  <2>2. /\ gen'[g].at = "step" /\ gen'[g].job = gen[g].job /\ gen'[g].resumes = gen[g].resumes
        /\ gen'[g].shown = n /\ gen'[g].pending = q /\ \A h \in Activity \ {g} : gen'[h] = gen[h]
    BY <2>1, ShowsFields
  <2>3. n \in Nat /\ p \in Nat BY <1>1
  <2>4. g = "pump" => FreshStored'
    <3>1. SUFFICES ASSUME g = "pump", ~gen[g].resumes
                   PROVE  /\ q <= n
                          /\ gen[g].job \notin hurt /\ Live(gen[g].job) =>
                               row'[gen[g].job] = n - q
      BY <1>0, <2>2 DEF FreshStored, Stored, Live
    <3>2. p <= n - 1 BY <1>1, <1>2, <3>1
    <3>3. CASE q = 0 /\ row' = Appended(g, n - p, n)
      <4> DEFINE m == n - p - 1
      <4>1. m \in Nat /\ m <= n /\ m + 1 = n - p /\ m = gen[g].shown - p BY <1>1, <2>3, <3>2
      <4>2. gen[g].job \notin hurt /\ Live(gen[g].job) => row[gen[g].job] = m
        BY <1>2, <3>1, <4>1
      <4> HIDE DEF m, n, p
      <4>3. gen[g].job \notin hurt /\ Live(gen[g].job) => row'[gen[g].job] = n
        BY <1>1, <2>3, <3>1, <3>3, <4>1, <4>2, AppendsNext
      <4> QED BY <2>3, <3>3, <4>3
    <3>4. CASE q = p + 1 /\ row' = row
      <4>1. q <= n /\ n - q = gen[g].shown - p BY <1>1, <3>2, <3>4
      <4> QED BY <1>2, <3>1, <3>4, <4>1
    <3> QED BY <2>1, <3>3, <3>4
  <2>5. On(g)' BY <2>2 DEF On
  <2>6. inflight' = inflight BY <1>3 DEF Emit
  <2> HIDE DEF n, p
  <2>7. \E a, b : row' = row \/ row' = Appended(g, a, b) BY <2>1
  <2> QED BY <1>0, <2>2, <2>4, <2>5, <2>6, <2>7, GoesOnChat
<1>4. CASE StepDone(g)
  <2>1. gen' = [gen EXCEPT ![g].at = "loop"] /\ row' = row
    BY <1>4 DEF StepDone, Goes
  <2>2. /\ gen'[g].at = "loop" /\ gen'[g].job = gen[g].job /\ gen'[g].resumes = gen[g].resumes
        /\ gen'[g].shown = gen[g].shown /\ gen'[g].pending = gen[g].pending
        /\ \A h \in Activity \ {g} : gen'[h] = gen[h]
    BY <2>1, GoesFields
  <2>3. inflight # None /\ inflight'.job = inflight.job
    <3>1. gen[g].at = "step" BY <1>4 DEF StepDone
    <3>2. /\ inflight # None /\ inflight' = [inflight EXCEPT !.upto = gen[g].shown]
          /\ inflight \in Entry
      BY <1>4, <3>1 DEF StepDone, QueueInv, Tracked, Inside, TypeOK, PageTypes, Activity
    <3>3. inflight \in [job : Job, upto : 0..MaxTokens] BY <3>2 DEF Entry
    <3> QED BY <3>2, <3>3
  <2>4. g = "pump" => FreshStored' BY <1>0, <1>2, <2>1, <2>2 DEF FreshStored, Stored, Live
  <2>5. On(g)' BY <2>2 DEF On
  <2>6. row' = row \/ row' = Appended(g, 0, 0) BY <2>1
  <2> QED BY <1>0, <2>2, <2>3, <2>4, <2>5, <2>6, GoesOnChat
<1>5. CASE Fails(g)
  <2>1. gen' = [gen EXCEPT ![g].at = "failed"] /\ row' = row /\ inflight' = inflight
    BY <1>5 DEF Fails, Goes
  <2>2. /\ gen'[g].at = "failed" /\ gen'[g].job = gen[g].job /\ gen'[g].resumes = gen[g].resumes
        /\ \A h \in Activity \ {g} : gen'[h] = gen[h]
    BY <2>1, GoesFields
  <2>4. g = "pump" => FreshStored' BY <2>2 DEF FreshStored
  <2>5. On(g)' BY <2>2 DEF On
  <2>6. row' = row \/ row' = Appended(g, 0, 0) BY <2>1
  <2> QED BY <1>0, <2>1, <2>2, <2>4, <2>5, <2>6, GoesOnChat
<1>6. CASE Finish(g)
  <2> DEFINE x == IF cancel THEN "halted" ELSE "done"
             n == gen[g].shown
             p == gen[g].pending
  <2>1. gen' = [gen EXCEPT ![g].at = x] /\ row' = Appended(g, n - p + 1, n) /\ inflight' = inflight
    BY <1>6 DEF Finish, Goes, Flushed
  <2>2. x \in {"done", "halted"} OBVIOUS
  <2> HIDE DEF x
  <2>3. /\ gen'[g].at = x /\ gen'[g].job = gen[g].job /\ gen'[g].resumes = gen[g].resumes
        /\ gen'[g].shown = n /\ gen'[g].pending = p
        /\ \A h \in Activity \ {g} : gen'[h] = gen[h]
    BY <2>1, GoesFields
  <2>4. g = "pump" => FreshStored'
    <3>1. SUFFICES ASSUME g = "pump", ~gen[g].resumes
                   PROVE  /\ p <= n
                          /\ gen[g].job \notin hurt /\ Live(gen[g].job) => row'[gen[g].job] = n
      BY <1>0, <2>2, <2>3 DEF FreshStored, Stored, Live
    <3> DEFINE m == n - p
    <3>2. p <= n BY <1>2, <3>1
    <3>3. m \in Nat /\ m <= n /\ n \in Nat BY <1>1, <3>2
    <3>4. gen[g].job \notin hurt /\ Live(gen[g].job) => row[gen[g].job] = m BY <1>2, <3>1
    <3>5. row' = Appended("pump", m + 1, n) BY <2>1, <3>1
    <3> HIDE DEF m, n
    <3>6. gen[g].job \notin hurt /\ Live(gen[g].job) => row'[gen[g].job] = n
      BY <1>1, <3>1, <3>3, <3>4, <3>5, AppendsNext
    <3> QED BY <3>2, <3>6
  <2>5. On(g)' BY <2>2, <2>3 DEF On
  <2>6. \E a, b : row' = row \/ row' = Appended(g, a, b) BY <2>1
  <2> QED BY <1>0, <2>1, <2>3, <2>4, <2>5, <2>6, GoesOnChat
<1> QED BY <1>3, <1>4, <1>5, <1>6

(* The session is asked for and granted, a worker hangs and its job starts over. *)
LEMMA SessionChat ==
  ASSUME QueueInv, ChatInv,
         \/ AcquireFresh \/ Hangs \/ Recover
         \/ \E g \in Activity : AcquireResumed(g)
  PROVE  ChatInv'
<1> USE DEF shared, stored, history
<1> "pump" \in Activity BY DEF Activity
<1>0. /\ FreshStored
      /\ gen["boot"].at # "off" => gen["boot"].resumes
  BY DEF ChatInv, RowsOK, FreshStored
<1>1. CASE AcquireFresh
  <2>1. gen' = [gen EXCEPT !["pump"].at = "loop"] /\ gen["pump"].at = "asks"
    BY <1>1 DEF AcquireFresh, MayAcquire, Goes
  <2>2. /\ gen'["pump"].at = "loop" /\ gen'["pump"].job = gen["pump"].job
        /\ gen'["pump"].resumes = gen["pump"].resumes
        /\ gen'["pump"].shown = gen["pump"].shown /\ gen'["pump"].pending = gen["pump"].pending
        /\ \A h \in Activity \ {"pump"} : gen'[h] = gen[h]
    BY <2>1, GoesFields
  <2>3. inflight'.job = gen["pump"].job BY <1>1 DEF AcquireFresh
  <2>4. /\ UNCHANGED <<page, status, convOf, queue, chained, loaded, convs, manifest, before, hurt,
                       saved, row>>
    BY <1>1 DEF AcquireFresh
  <2>5. FreshStored' BY <1>0, <2>1, <2>2, <2>4 DEF FreshStored, Stored, Live
  <2>6. On("pump") /\ On("pump")' BY <2>1, <2>2 DEF On
  <2>7. row' = row \/ row' = Appended("pump", 0, 0) BY <2>4
  <2> QED BY <2>2, <2>3, <2>4, <2>5, <2>6, <2>7, GoesOnChat
<1>2. CASE Hangs
  <2>1. /\ Shows("pump", "hung", gen["pump"].shown, 0) /\ gen["pump"].at = "step"
        /\ saved' = inflight /\ inflight' = inflight
        /\ UNCHANGED <<page, status, convOf, queue, chained, loaded, convs, manifest, before, hurt,
                       row>>
    BY <1>2 DEF Hangs
  <2>2. /\ gen'["pump"].at = "hung" /\ gen'["pump"].job = gen["pump"].job
        /\ gen'["pump"].resumes = gen["pump"].resumes
        /\ \A h \in Activity \ {"pump"} : gen'[h] = gen[h]
    BY <2>1, ShowsFields
  <2>3. FreshStored' BY <2>2 DEF FreshStored
  <2>4. On("pump") /\ On("pump")' BY <2>1, <2>2 DEF On
  <2>5. row' = row \/ row' = Appended("pump", 0, 0) BY <2>1
  <2> QED BY <2>1, <2>2, <2>3, <2>4, <2>5, GoesOnChat
<1>3. CASE Recover
  <2>1. /\ gen' = [gen EXCEPT !["pump"] = Gen("asks", inflight.job, inflight.upto, 0, TRUE)]
        /\ gen["pump"].at = "hung" /\ inflight' = inflight
        /\ UNCHANGED <<page, status, convOf, queue, chained, loaded, convs, manifest, before, hurt,
                       saved, row>>
    BY <1>3 DEF Recover, Resumed
  <2>2. inflight.job = gen["pump"].job BY <2>1 DEF QueueInv, Tracked
  <2>3. /\ gen'["pump"].at = "asks" /\ gen'["pump"].job = gen["pump"].job
        /\ gen'["pump"].resumes = TRUE
        /\ \A h \in Activity \ {"pump"} : gen'[h] = gen[h]
    BY <2>1, <2>2 DEF QueueInv, TypeOK, GenTypes, Gen
  <2>4. FreshStored' BY <2>3 DEF FreshStored
  <2>5. On("pump") /\ On("pump")' BY <2>1, <2>3 DEF On
  <2>6. row' = row \/ row' = Appended("pump", 0, 0) BY <2>1
  <2> QED BY <2>1, <2>3, <2>4, <2>5, <2>6, GoesOnChat
<1>4. ASSUME NEW g \in Activity, AcquireResumed(g) PROVE ChatInv'
  <2>1. /\ gen' = [gen EXCEPT ![g].at = "loop"] /\ gen[g].at = "asks" /\ gen[g].resumes
        /\ inflight' = inflight
        /\ UNCHANGED <<page, status, convOf, queue, chained, loaded, convs, manifest, before, hurt,
                       saved, row>>
    BY <1>4 DEF AcquireResumed, MayAcquire, Goes
  <2>2. /\ gen'[g].at = "loop" /\ gen'[g].job = gen[g].job /\ gen'[g].resumes = gen[g].resumes
        /\ \A h \in Activity \ {g} : gen'[h] = gen[h]
    BY <2>1, GoesFields
  <2>3. g = "pump" => FreshStored' BY <2>1, <2>2 DEF FreshStored
  <2>4. On(g) /\ On(g)' BY <2>1, <2>2 DEF On
  <2>5. row' = row \/ row' = Appended(g, 0, 0) BY <2>1
  <2> QED BY <2>1, <2>2, <2>3, <2>4, <2>5, GoesOnChat
<1> QED BY <1>1, <1>2, <1>3, <1>4

(* A generation is over: its job is, and nothing of it is tracked or saved. *)
LEMMA OverChat ==
  ASSUME QueueInv, SteppingHolds, ChatInv, NEW g \in Activity, Bail(g) \/ Ends(g)
  PROVE  ChatInv'
<1> USE DEF shared, stored, history
<1> "pump" \in Activity /\ "boot" \in Activity BY DEF Activity
<1>0. /\ EntriesOK /\ RowsOK /\ status \in [Job -> Status] /\ GenTypes
  BY DEF ChatInv, QueueInv, TypeOK, JobTypes
<1>1. /\ On(g) /\ status' = [status EXCEPT ![gen[g].job] = "over"]
      /\ UNCHANGED <<page, convOf, queue, chained, loaded, convs, manifest, before, hurt, row>>
      /\ inflight' = None
      /\ saved' = None \/ (saved' = saved /\ (saved = None \/ saved.job # gen[g].job))
      /\ g = "pump" => gen' = [gen EXCEPT ![g].at = "over"]
      /\ g # "pump" => gen' = [gen EXCEPT ![g] = Off]
  BY DEF Bail, Ends, MayAcquire, StillOurs, Ended, On, Goes
<1>2. /\ g = "pump" => gen'[g].at = "over" /\ gen'[g].job = gen[g].job
      /\ g # "pump" => gen'[g].at = "off"
      /\ \A h \in Activity \ {g} : gen'[h] = gen[h]
  BY <1>0, <1>1 DEF GenTypes, Off, Gen
<1>3. gen[g].job \in Job /\ page = "up"
  BY <1>1, PumpIsQueued DEF On, Activity
<1>4. ListsOK' /\ PlacesOK' /\ WritesOK' /\ PriorsOK'
  <2>1. gen'["pump"].job = gen["pump"].job BY <1>2 DEF Activity
  <2>2. g # "boot" => gen'["boot"].job = gen["boot"].job BY <1>2
  <2> QED BY <1>1, <1>3, <2>1, <2>2, PhaseKeeps
<1>5. RowsOK'
  <2>1. \A j \in Job : status'[j] # status[j] => status'[j] = "over" BY <1>0, <1>1, <1>3
  <2>2. gen'["boot"].at # "off" => gen'["boot"].resumes
    <3>1. CASE g = "boot" BY <1>2, <3>1
    <3>2. CASE g # "boot" BY <1>0, <1>2, <3>2 DEF RowsOK
    <3> QED BY <3>1, <3>2
  <2>3. g = "pump" => FreshStored' BY <1>2 DEF FreshStored
  <2>4. row' = row \/ row' = Appended(g, 0, 0) BY <1>1
  <2> QED BY <1>1, <1>2, <2>1, <2>2, <2>3, <2>4, PhaseRows
<1>6. EntriesOK'
  <2>1. saved' # None /\ saved'.job \notin hurt => status'[saved'.job] = "running"
    <3>1. SUFFICES ASSUME saved' # None, saved'.job \notin hurt
                   PROVE  status'[saved'.job] = "running"
      OBVIOUS
    <3>2. saved' = saved /\ saved.job # gen[g].job /\ status[saved.job] = "running"
      BY <1>0, <1>1, <3>1 DEF EntriesOK
    <3>3. saved.job \in Job BY <3>1, <3>2 DEF QueueInv, TypeOK, PageTypes, Entry
    <3> QED BY <1>0, <1>1, <3>2, <3>3
  <2>2. ASSUME NEW h \in Activity, On(h)', gen'[h].job \notin hurt
        PROVE  status'[gen'[h].job] = "running"
    <3>1. h # g BY <1>2, <2>2 DEF On
    <3>2. gen'[h] = gen[h] /\ On(h) BY <1>2, <2>2, <3>1 DEF On
    <3>3. status[gen[h].job] = "running" /\ gen[h].job \in Job /\ gen[h].job \notin hurt
      BY <1>0, <1>1, <2>2, <3>2, PumpIsQueued DEF EntriesOK, On
    <3>4. gen[h].job # gen[g].job
      <4>1. gen["pump"].job \in ToSet(queue)
        <5>1. On("pump") BY <1>1, <3>1, <3>2 DEF Activity
        <5> QED BY <5>1, PumpIsQueued DEF On
      <4>2. SUFFICES ASSUME gen[h].job = gen[g].job PROVE FALSE OBVIOUS
      <4>3. /\ gen["boot"].job = gen["pump"].job /\ gen["boot"].at # "off"
            /\ gen["boot"].job \notin hurt
        BY <1>1, <3>1, <3>2, <3>3, <4>2 DEF Activity, On
      <4> QED BY <1>0, <4>1, <4>3 DEF EntriesOK
    <3> QED BY <1>0, <1>1, <3>2, <3>3, <3>4
  <2>3. gen'["pump"].at = "over" => status'[gen'["pump"].job] = "over"
    <3>1. CASE g = "pump" BY <1>0, <1>1, <1>2, <1>3, <3>1
    <3>2. CASE g # "pump"
      <4>1. gen'["pump"] = gen["pump"] BY <1>2, <3>2
      <4>2. gen["pump"].at = "over" => status[gen["pump"].job] = "over" /\ gen["pump"].job \in Job
        BY <1>0, PumpIsQueued DEF EntriesOK
      <4> QED BY <1>0, <1>1, <1>3, <4>1, <4>2
    <3> QED BY <3>1, <3>2
  <2>4. /\ gen'["boot"].at # "off" /\ gen'["boot"].job \notin hurt
        => gen'["boot"].job \notin ToSet(queue)
    <3>1. CASE g = "boot" BY <1>2, <3>1
    <3>2. CASE g # "boot" BY <1>0, <1>2, <3>2 DEF EntriesOK
    <3> QED BY <3>1, <3>2
  <2> QED BY <1>1, <1>3, <2>1, <2>2, <2>3, <2>4 DEF EntriesOK
<1> QED BY <1>4, <1>5, <1>6 DEF ChatInv

(* Hiding, writing and another tab's end touch only what is on disk. *)
LEMMA StorageChat ==
  ASSUME QueueInv, ChatInv, Hide \/ Written \/ SiblingEnds
  PROVE  ChatInv'
<1> USE DEF shared, stored, history
<1>0. /\ ListsOK /\ PlacesOK /\ WritesOK /\ EntriesOK /\ RowsOK /\ PriorsOK
      /\ queue \in Seq(Job)
  BY DEF ChatInv, QueueInv, TypeOK, ListTypes
<1>1. /\ UNCHANGED <<page, convOf, status, queue, chained, loaded, gen, inflight, convs, row,
                     before, hurt>>
      /\ saved' \in {saved, None} \/ (saved' = inflight /\ page = "up")
      /\ manifest' = manifest \/ (manifest' = {Waiting(queue)} /\ page = "up")
  BY DEF Hide, Written, SiblingEnds
<1>2. Sublist(Waiting(queue), queue) BY <1>0, WithoutSet DEF Waiting
<1>3. ListsOK'
  <2>1. \A s \in AllLists' : \E t \in AllLists : Sublist(s, t)
    BY <1>1, <1>2, SublistSelf DEF AllLists
  <2>2. Entered' = Entered BY <1>1 DEF Entered
  <2> QED BY <1>0, <1>1, <2>1, <2>2, ListsKept
<1>4. Behind' = Behind BY <1>1 DEF Behind
<1>5. PlacesOK' BY <1>0, <1>1, <1>4 DEF PlacesOK, Live
<1>6. WritesOK'
  <2>1. Waiting(queue)' = Waiting(queue) BY <1>1 DEF Waiting, Running
  <2>2. CASE manifest' = manifest BY <1>0, <1>1, <2>1, <2>2 DEF WritesOK, Live
  <2>3. CASE manifest' = {Waiting(queue)} /\ page = "up"
    <3>1. IsFiniteSet(manifest') BY <2>3, FS_Singleton
    <3>2. Waiting(queue)' \in manifest' BY <2>1, <2>3
    <3> QED BY <1>1, <2>3, <3>1, <3>2 DEF WritesOK
  <2> QED BY <1>1, <2>2, <2>3
<1>7. EntriesOK'
  <2>1. \A g \in Activity : On(g)' <=> On(g) BY <1>1 DEF On
  <2>2. saved' # None /\ saved'.job \notin hurt => status[saved'.job] = "running"
    BY <1>0, <1>1 DEF EntriesOK
  <2> QED BY <1>0, <1>1, <2>1, <2>2 DEF EntriesOK
<1>8. RowsOK' BY <1>0, <1>1 DEF RowsOK, FreshStored, Live, Stored
<1>9. PriorsOK'
  <2>1. Coming' = Coming /\ Entered' = Entered BY <1>1, <1>4 DEF Coming, Entered
  <2> QED BY <1>0, <1>1, <2>1 DEF PriorsOK, BeforeOK, Comes, Ahead
<1> QED BY <1>3, <1>5, <1>6, <1>7, <1>8, <1>9 DEF ChatInv

(* A message that is being sent waits behind those of its conversation in the queue. *)
LEMMA SendChat ==
  ASSUME QueueInv, ChatInv, NEW j \in Job, SendBegin(j) \/ SendFails(j)
  PROVE  ChatInv'
<1> USE DEF shared, stored, history
<1>0. /\ ListsOK /\ PlacesOK /\ WritesOK /\ EntriesOK /\ RowsOK /\ PriorsOK
      /\ status \in [Job -> Status] /\ before \in [Job -> SUBSET Job]
  BY DEF ChatInv, QueueInv, TypeOK, JobTypes
<1> DEFINE x == status'[j]
<1>1. /\ UNCHANGED <<page, convOf, queue, loaded, gen, inflight, convs, row, saved, manifest, hurt>>
      /\ status' = [status EXCEPT ![j] = x]
      /\ \/ x = "sending" /\ status[j] = "none" /\ page = "up"
            /\ before' = [before EXCEPT ![j] = Of(convOf[j])]
            /\ chained \subseteq chained' /\ (Of(convOf[j]) = {} \/ j \in chained')
         \/ x = "over" /\ status[j] = "sending" /\ UNCHANGED <<before, chained>>
  <2>1. CASE SendBegin(j) BY <1>0, <2>1 DEF SendBegin, Status
  <2>2. CASE SendFails(j) BY <1>0, <2>2 DEF SendFails, Status
  <2> QED BY <2>1, <2>2
<1> HIDE DEF x
<1>2. /\ \A i \in Job \ {j} : status'[i] = status[i] /\ before'[i] = before[i]
      /\ status'[j] = x /\ j \notin Entered /\ chained \subseteq chained'
  BY <1>0, <1>1 DEF Entered
<1>3. Entered \subseteq Entered' /\ page = "up"
  <2>1. page = "up"
    <3>1. page = "gone" => status[j] # "sending" BY DEF QueueInv, GoneIsEmpty
    <3>2. page \in {"up", "gone"} BY DEF QueueInv, TypeOK, JobTypes
    <3> QED BY <1>1, <3>1, <3>2
  <2> QED BY <1>2, <2>1 DEF Entered
<1>4. \A s \in AllLists : \A i \in ToSet(s) : i \in Job \ {j} /\ i \in Entered
  BY <1>0, <1>2 DEF ListsOK, Entered
<1>5. ListsOK'
  <2>1. AllLists' = AllLists BY <1>1 DEF AllLists
  <2>2. ASSUME NEW s \in AllLists PROVE Tidy(s, before') /\ ToSet(s) \subseteq Entered'
    <3>1. \A p \in DOMAIN s : before'[s[p]] = before[s[p]] BY <1>2, <1>4 DEF ToSet
    <3>2. Tidy(s, before) BY <1>0 DEF ListsOK
    <3> QED BY <1>3, <1>4, <3>1, <3>2 DEF Tidy
  <2>3. \A i \in ToSet(queue) : before'[i] = before[i] BY <1>2, <1>4 DEF AllLists
  <2> QED BY <1>0, <1>1, <2>1, <2>2, <2>3 DEF ListsOK
<1>6. Behind' = Behind /\ Behind \subseteq Entered
  BY <1>1, <1>4 DEF Behind, AllLists
<1>7. ToSet(loaded) \subseteq Entered /\ ToSet(queue) \subseteq Entered BY <1>4 DEF AllLists
<1>8. PlacesOK'
  <2>1. \A i \in Entered : i \in Job \ {j} /\ status'[i] = status[i] BY <1>2 DEF Entered
  <2>2. \A i \in Job : status'[i] = "queued" => status[i] = "queued" BY <1>1, <1>2
  <2> QED BY <1>0, <1>1, <1>3, <1>6, <1>7, <2>1, <2>2 DEF PlacesOK, Live
<1>9. WritesOK'
  <2>1. Waiting(queue)' = Waiting(queue) BY <1>1 DEF Waiting, Running
  <2> QED BY <1>0, <1>1, <2>1 DEF WritesOK, Live
<1>10. EntriesOK'
  <2>1. \A g \in Activity : On(g)' <=> On(g) BY <1>1 DEF On
  <2>2. \A i : (status[i] = "running" /\ i \in Job) => status'[i] = "running" BY <1>1, <1>2
  <2>3. saved # None => saved.job \in Job BY DEF QueueInv, TypeOK, PageTypes, Entry
  <2>4. saved' # None /\ saved'.job \notin hurt' => status'[saved'.job] = "running"
    BY <1>0, <1>1, <2>2, <2>3 DEF EntriesOK
  <2>5. inflight' # None => \E g \in Activity : On(g)' /\ inflight'.job = gen'[g].job
    BY <1>0, <1>1, <2>1 DEF EntriesOK
  <2>6. \A g \in Activity : On(g)' /\ gen'[g].job \notin hurt' => status'[gen'[g].job] = "running"
    BY <1>0, <1>1, <2>1, <2>2, PumpIsQueued DEF EntriesOK, On
  <2>7. gen'["pump"].at = "over" => status'[gen'["pump"].job] = "over"
    BY <1>0, <1>1, <1>2, PumpIsQueued DEF EntriesOK, Activity
  <2>8. /\ gen'["boot"].at # "off" /\ gen'["boot"].job \notin hurt'
        => gen'["boot"].job \notin ToSet(queue')
    BY <1>0, <1>1 DEF EntriesOK
  <2>9. page' # "gone" BY <1>1, <1>3
  <2> QED BY <2>4, <2>5, <2>6, <2>7, <2>8, <2>9 DEF EntriesOK
<1>11. RowsOK'
  <2>1. \A i \in Job : status'[i] \in {"none", "sending", "queued"} =>
                         status[i] \in {"none", "sending", "queued"}
    BY <1>1, <1>2
  <2> QED BY <1>0, <1>1, <2>1 DEF RowsOK, FreshStored, Live, Stored
<1>12. PriorsOK'
  <2>1. Of(convOf[j]) \subseteq ToSet(queue) /\ \A k \in Of(convOf[j]) : convOf[k] = convOf[j]
    BY DEF Of
  <2>2. BeforeOK'
    <3> SUFFICES ASSUME NEW i \in Job, NEW k \in before'[i]
                 PROVE  status'[i] # "none" /\ k # i /\ convOf[k] = convOf[i] /\ k \in Entered'
      BY <1>1 DEF BeforeOK
    <3>1. CASE k \in before[i]
      <4>1. /\ status[i] # "none" /\ k # i /\ convOf[k] = convOf[i] /\ k \in Entered
        BY <1>0, <3>1 DEF PriorsOK, BeforeOK
      <4>2. status'[i] # "none" BY <1>1, <1>2, <4>1
      <4> QED BY <1>3, <4>1, <4>2
    <3>2. CASE k \notin before[i]
      <4>1. i = j /\ x = "sending" /\ k \in Of(convOf[j]) BY <1>0, <1>1, <1>2, <3>2
      <4>2. k \in Entered /\ k # j BY <1>2, <1>7, <2>1, <4>1
      <4> QED BY <1>2, <1>3, <2>1, <4>1, <4>2
    <3> QED BY <3>1, <3>2
  <2>3. \A k \in Job : status[k] = "over" => status'[k] = "over" BY <1>1, <1>2
  <2>4. ASSUME NEW i \in Job \ {j}, NEW S, Ahead(i, S)
        PROVE  \A k \in before'[i] : status'[k] = "over" \/ k = gen["boot"].job \/ k \in S
    BY <1>2, <2>3, <2>4 DEF Ahead, QueueInv, TypeOK, JobTypes
  <2>5. ASSUME NEW i \in Coming' PROVE Comes(i)'
    <3>1. CASE i = j
      <4>1. x = "sending"
        <5>1. i \in Behind \/ status'[i] = "sending" BY <1>6, <2>5 DEF Coming
        <5> QED BY <1>2, <1>6, <3>1, <5>1
      <4>2. before'[i] = Of(convOf[j]) BY <1>0, <1>1, <3>1, <4>1
      <4>3. Of(convOf[j]) \intersect ToSet(loaded) = {} BY <1>0, <2>1 DEF ListsOK
      <4>4. ToSet(queue') = ToSet(queue) /\ ToSet(loaded') = ToSet(loaded) BY <1>1
      <4> QED BY <1>1, <2>1, <3>1, <4>1, <4>2, <4>3, <4>4 DEF Comes, Ahead
    <3>2. CASE i # j
      <4>1. i \in Coming /\ i \in Job \ {j}
        <5>1. i \in Behind \/ (i \in Job /\ status'[i] = "sending") BY <1>6, <2>5 DEF Coming
        <5>2. Behind \subseteq Job BY <1>6 DEF Entered
        <5> QED BY <1>2, <3>2, <5>1, <5>2 DEF Coming
      <4>2. Comes(i) BY <1>0, <1>3, <4>1 DEF PriorsOK
      <4>3. \A k \in before'[i] : status'[k] = "over" \/ k = gen["boot"].job \/ k \in ToSet(queue)
        BY <2>4, <4>1, <4>2 DEF Comes
      <4>4. before'[i] = before[i] BY <1>2, <4>1
      <4> QED BY <1>1, <1>2, <4>2, <4>3, <4>4 DEF Comes, Ahead
    <3> QED BY <3>1, <3>2
  <2>6. ASSUME NEW i \in ToSet(loaded) PROVE Ahead(i, ToSet(queue) \union ToSet(loaded))'
    <3> DEFINE S == ToSet(queue) \union ToSet(loaded)
    <3>1. i \in Job \ {j} BY <1>4 DEF AllLists
    <3>2. Ahead(i, S) BY <1>0, <1>3 DEF PriorsOK
    <3>3. S' = S BY <1>1
    <3> HIDE DEF S
    <3>4. \A k \in before'[i] : status'[k] = "over" \/ k = gen["boot"].job \/ k \in S
      BY <2>4, <3>1, <3>2
    <3> QED BY <1>1, <3>3, <3>4 DEF Ahead, S
  <2>7. loaded' = loaded BY <1>1
  <2> QED BY <2>2, <2>5, <2>6, <2>7 DEF PriorsOK
<1> QED BY <1>5, <1>8, <1>9, <1>10, <1>11, <1>12 DEF ChatInv

LEMMA ConcatSet ==
  ASSUME NEW s \in Seq(Job), NEW t \in Seq(Job)
  PROVE  /\ s \o t \in Seq(Job) /\ ToSet(s \o t) = ToSet(s) \union ToSet(t)
         /\ \A n \in DOMAIN (s \o t) :
              \/ n \in DOMAIN s /\ (s \o t)[n] = s[n]
              \/ n > Len(s) /\ n - Len(s) \in DOMAIN t /\ (s \o t)[n] = t[n - Len(s)]
<1>1. /\ s \o t \in Seq(Job) /\ Len(s \o t) = Len(s) + Len(t)
      /\ DOMAIN (s \o t) = 1..Len(s \o t) /\ DOMAIN s = 1..Len(s) /\ DOMAIN t = 1..Len(t)
      /\ Len(s) \in Nat /\ Len(t) \in Nat
  BY ConcatProperties, LenProperties
<1>2. \A n \in 1..Len(s) : (s \o t)[n] = s[n] OBVIOUS
<1>3. \A n \in 1..Len(t) : (s \o t)[n + Len(s)] = t[n] OBVIOUS
<1>4. ASSUME NEW n \in DOMAIN (s \o t)
      PROVE  \/ n \in DOMAIN s /\ (s \o t)[n] = s[n]
             \/ n > Len(s) /\ n - Len(s) \in DOMAIN t /\ (s \o t)[n] = t[n - Len(s)]
  <2>1. CASE n <= Len(s) BY <1>1, <1>2, <2>1
  <2>2. CASE ~(n <= Len(s))
    <3>1. n - Len(s) \in 1..Len(t) /\ n = (n - Len(s)) + Len(s) BY <1>1, <2>2
    <3> QED BY <1>1, <1>3, <2>2, <3>1
  <2> QED BY <2>1, <2>2
<1>5. ToSet(s \o t) \subseteq ToSet(s) \union ToSet(t) BY <1>4 DEF ToSet
<1>6. ToSet(s) \subseteq ToSet(s \o t)
  <2>1. \A n \in DOMAIN s : n \in DOMAIN (s \o t) BY <1>1
  <2> QED BY <1>1, <1>2, <2>1 DEF ToSet
<1>7. ToSet(t) \subseteq ToSet(s \o t)
  <2>1. \A n \in DOMAIN t : n + Len(s) \in DOMAIN (s \o t) BY <1>1
  <2> QED BY <1>1, <1>3, <2>1 DEF ToSet
<1> QED BY <1>1, <1>4, <1>5, <1>6, <1>7

(* Behind a list that is in order goes one that is, of others. *)
LEMMA TidyConcat ==
  ASSUME NEW s \in Seq(Job), NEW t \in Seq(Job), NEW b, Tidy(s, b), Tidy(t, b),
         \A x \in ToSet(s), y \in ToSet(t) : x # y /\ y \notin b[x]
  PROVE  Tidy(s \o t, b)
<1> DEFINE u == s \o t
<1>1. /\ \A n \in DOMAIN u :
           \/ n \in DOMAIN s /\ u[n] = s[n]
           \/ n > Len(s) /\ n - Len(s) \in DOMAIN t /\ u[n] = t[n - Len(s)]
      /\ DOMAIN s = 1..Len(s) /\ Len(s) \in Nat /\ DOMAIN u \subseteq Int
  BY ConcatSet, LenProperties
<1> HIDE DEF u
<1>2. SUFFICES ASSUME NEW p \in DOMAIN u, NEW q \in DOMAIN u, p < q
               PROVE  u[p] # u[q] /\ u[q] \notin b[u[p]]
  BY DEF Tidy, u
<1>3. CASE q \in DOMAIN s /\ u[q] = s[q]
  <2>1. p \in DOMAIN s /\ u[p] = s[p] BY <1>1, <1>2, <1>3
  <2> QED BY <1>2, <1>3, <2>1 DEF Tidy
<1>4. CASE q - Len(s) \in DOMAIN t /\ u[q] = t[q - Len(s)]
  <2>1. CASE p \in DOMAIN s /\ u[p] = s[p] BY <1>4, <2>1 DEF ToSet
  <2>2. CASE p - Len(s) \in DOMAIN t /\ u[p] = t[p - Len(s)]
    <3>1. p - Len(s) < q - Len(s) BY <1>1, <1>2
    <3> QED BY <1>4, <2>2, <3>1 DEF Tidy
  <2> QED BY <1>1, <2>1, <2>2
<1> QED BY <1>1, <1>3, <1>4

(* The list without its first job, which the pump has taken. *)
LEMMA TakesFirst ==
  ASSUME NEW q \in Seq(Job), q # <<>>, NEW b, Tidy(q, b)
  PROVE  /\ Head(q) \in ToSet(q) /\ Head(q) \in Job
         /\ Without(q, {Head(q)} \ {None}) = Tail(q) /\ Sublist(Tail(q), q)
<1>1. Head(q) \in ToSet(q) /\ Head(q) \in Job /\ Sublist(Tail(q), q) BY TailSublist
<1>2. {Head(q)} \ {None} = {Head(q)} BY <1>1, Bounds
<1>3. \A i, k \in DOMAIN q : i < k => q[i] # q[k] BY DEF Tidy
<1> QED BY <1>1, <1>2, <1>3, WithoutFirst

(* What joins the queue: messages that were being sent or are restored, each behind what
   it was sent behind. *)
Joins(e, st) ==
  /\ Tidy(queue \o e, before)
  /\ \A j \in ToSet(e) :
       /\ j \notin ToSet(queue) /\ st[j] = "queued"
       /\ before[j] \intersect ToSet(loaded') = {}
       /\ before[j] = {} \/ j \in chained'
       /\ Ahead(j, ToSet(queue) \union ToSet(e))
  /\ \A j \in ToSet(e) \ hurt : status[j] \in {"sending", "queued"}
  /\ \A j \in Job \ ToSet(e) :
       \/ st[j] = status[j] /\ (st[j] = "queued" => j \notin ToSet(loaded) \/ loaded' = loaded)
       \/ j \in ToSet(loaded) /\ loaded' = <<>> /\ status[j] = "queued" /\ st[j] = "over"
  /\ \A j \in ToSet(e) : loaded' = <<>> \/ j \notin Entered

(* What kickPump does with the longer queue: the list it writes, the job it starts. *)
Kicked(q, st) ==
  /\ queue' = q /\ gen'["boot"] = gen["boot"]
  /\ manifest \subseteq manifest' /\ IsFiniteSet(manifest') /\ Waiting(queue)' \in manifest'
  /\ \A s \in manifest' : s \in manifest \/ Sublist(s, q)
  /\ \/ gen' = gen /\ status' = st /\ gen["pump"].at # "off"
     \/ /\ gen["pump"].at = "off" /\ queue = <<>>
        /\ gen'["pump"] = Gen("asks", Head(q), 0, 0, FALSE)
        /\ Head(q) \in ToSet(q) /\ Head(q) \in Job
        /\ status' = [st EXCEPT ![Head(q)] = "running"]

LEMMA KickWrites ==
  ASSUME QueueInv, ChatInv, NEW q \in Seq(Job), q # <<>>, Tidy(q, before), NEW st, Kick(q, st)
  PROVE  Kicked(q, st)
<1> "pump" \in Activity /\ "boot" \in Activity BY DEF Activity
<1>0. IsFiniteSet(manifest) /\ GenTypes /\ PumpNeverIdles /\ queue' = q
  BY DEF ChatInv, WritesOK, QueueInv, TypeOK, Kick
<1>1. /\ Head(q) \in ToSet(q) /\ Head(q) \in Job
      /\ Without(q, {Head(q)} \ {None}) = Tail(q) /\ Sublist(Tail(q), q)
  BY TakesFirst
<1>2. CASE gen["pump"].at # "off"
  <2>1. status' = st /\ manifest' = manifest \union {Waiting(q)} /\ gen' = gen
    BY <1>2 DEF Kick, Commit
  <2>2. Waiting(queue)' = Waiting(q) BY <1>0, <2>1 DEF Waiting, Running
  <2>3. Sublist(Waiting(q), q) BY WithoutSet DEF Waiting
  <2>4. IsFiniteSet(manifest') BY <1>0, <2>1, FS_Singleton, FS_Union
  <2> HIDE DEF Waiting
  <2> QED BY <1>0, <1>2, <2>1, <2>2, <2>3, <2>4 DEF Kicked
<1>3. CASE gen["pump"].at = "off"
  <2>1. /\ status' = [st EXCEPT ![Head(q)] = "running"]
        /\ manifest' = manifest \union {q, Tail(q)}
        /\ gen' = [gen EXCEPT !["pump"] = Gen("asks", Head(q), 0, 0, FALSE)]
    BY <1>3 DEF Kick, Commit, Start
  <2>2. gen'["pump"] = Gen("asks", Head(q), 0, 0, FALSE) /\ gen'["boot"] = gen["boot"]
    BY <1>0, <2>1 DEF GenTypes
  <2>3. Waiting(queue)' = Tail(q)
    <3>1. gen'["pump"].job = Head(q) BY <2>2 DEF Gen
    <3> QED BY <1>0, <1>1, <3>1 DEF Waiting, Running
  <2>4. IsFiniteSet(manifest')
    <3>1. IsFiniteSet({q}) /\ IsFiniteSet({Tail(q)}) BY FS_Singleton
    <3>2. IsFiniteSet({q} \union {Tail(q)}) BY <3>1, FS_Union
    <3>3. {q} \union {Tail(q)} = {q, Tail(q)} OBVIOUS
    <3> QED BY <1>0, <2>1, <3>2, <3>3, FS_Union
  <2>5. queue = <<>> BY <1>0, <1>3 DEF PumpNeverIdles
  <2>6. Sublist(q, q) BY SublistSelf
  <2> QED BY <1>0, <1>1, <1>3, <2>1, <2>2, <2>3, <2>4, <2>5, <2>6 DEF Kicked
<1> QED BY <1>2, <1>3

(* What ChainsOffFinished asks of a step. *)
OffFinished ==
  \A j \in Job : status[j] # "running" /\ status'[j] = "running" =>
    \A k \in before[j] : j \in chained' /\ (status[k] = "over" \/ k = gen["boot"].job)

LEMMA NoneStarts ==
  ASSUME \A j \in Job : status'[j] = "running" => status[j] = "running"
  PROVE  OffFinished
BY DEF OffFinished

(* The first job of a list in order was sent behind none of it. *)
LEMMA FirstOfTidy ==
  ASSUME BeforeOK, NEW q \in Seq(Job), q # <<>>, Tidy(q, before), Head(q) \in Job,
         NEW k \in before[Head(q)]
  PROVE  k \notin ToSet(q)
<1>1. Head(q) = q[1] /\ DOMAIN q = 1..Len(q) /\ Len(q) \in Nat \ {0} BY TailSublist
<1>2. SUFFICES ASSUME NEW n \in DOMAIN q, k = q[n] PROVE FALSE BY DEF ToSet
<1>3. k # Head(q) BY DEF BeforeOK
<1>4. 1 \in DOMAIN q /\ 1 < n BY <1>1, <1>2, <1>3
<1> QED BY <1>1, <1>2, <1>4 DEF Tidy

LEMMA KickChat ==
  ASSUME QueueInv, ChatInv, page = "up", NEW e \in Seq(Job), e # <<>>,
         NEW st \in [Job -> Status], Joins(e, st), Kick(queue \o e, st),
         loaded' = loaded \/ loaded' = <<>>, chained \subseteq chained',
         UNCHANGED <<page, convOf, convs, inflight, row, saved, before, hurt>>
  PROVE  ChatInv' /\ OffFinished
<1> DEFINE q == queue \o e
<1>0. /\ ListsOK /\ PlacesOK /\ WritesOK /\ EntriesOK /\ RowsOK /\ PriorsOK
      /\ status \in [Job -> Status] /\ queue \in Seq(Job) /\ "pump" \in Activity
      /\ "boot" \in Activity
  BY DEF ChatInv, QueueInv, TypeOK, JobTypes, ListTypes, Activity
<1>1. q \in Seq(Job) /\ q # <<>> /\ ToSet(q) = ToSet(queue) \union ToSet(e)
  BY <1>0, ConcatSet
<1>2. Kicked(q, st)
  <2>1. Tidy(q, before) /\ Kick(q, st) BY DEF Joins
  <2> HIDE DEF q
  <2> QED BY <1>1, <2>1, KickWrites
<1> HIDE DEF q
<1>3. /\ ToSet(e) \subseteq Job /\ ToSet(queue) \subseteq Entered /\ ToSet(loaded) \subseteq Entered
      /\ Entered \subseteq Job
      /\ \A j \in ToSet(e) : j \notin ToSet(queue) /\ st[j] = "queued"
  <2>1. ToSet(e) \subseteq Job BY DEF ToSet
  <2>2. \A s \in {queue, loaded} : ToSet(s) \subseteq Entered BY <1>0 DEF ListsOK, AllLists
  <2> QED BY <2>1, <2>2 DEF Entered, Joins
<1>4. gen["pump"].at # "off" => gen["pump"].job \in ToSet(queue) BY PumpIsQueued
<1>5. \A j \in Job :
        status'[j] = st[j] \/ (status'[j] = "running" /\ j \in ToSet(e) /\ j = gen'["pump"].job)
  <2>1. CASE status' = st BY <2>1
  <2>2. CASE /\ queue = <<>> /\ gen'["pump"].job = Head(q)
             /\ Head(q) \in ToSet(q) /\ Head(q) \in Job
             /\ status' = [st EXCEPT ![Head(q)] = "running"]
    <3>0. ToSet(queue) = {} BY <2>2 DEF ToSet
    <3>1. Head(q) \in ToSet(e) BY <1>1, <2>2, <3>0
    <3> QED BY <2>2, <3>1
  <2> QED BY <1>2, <2>1, <2>2 DEF Kicked, Gen
<1>6. \A j \in ToSet(e) : j # gen'["pump"].job => status'[j] = "queued"
  BY <1>3, <1>5
<1>7. /\ Behind' = (ToSet(queue) \union ToSet(e)) \ {gen'["pump"].job}
      /\ \A j \in ToSet(queue) : gen' = gen /\ status'[j] = st[j]
  <2>1. Behind' = ToSet(q) \ {gen'["pump"].job} BY <1>2 DEF Behind, Kicked
  <2>2. queue = <<>> => ToSet(queue) = {} BY DEF ToSet
  <2> QED BY <1>1, <1>2, <2>1, <2>2 DEF Kicked
<1>8. \A j \in Job \ ToSet(e) :
        /\ status'[j] = st[j]
        /\ \/ st[j] = status[j] /\ (st[j] = "queued" => j \notin ToSet(loaded) \/ loaded' = loaded)
           \/ j \in ToSet(loaded) /\ loaded' = <<>> /\ status[j] = "queued" /\ st[j] = "over"
  BY <1>5 DEF Joins
<1>9. Entered \subseteq Entered'
  <2>1. \A j \in ToSet(e) : status'[j] \in {"queued", "running"} BY <1>3, <1>5
  <2>2. \A j \in Entered \ ToSet(e) : status'[j] = status[j] \/ status'[j] = "over"
    BY <1>3, <1>8
  <2> QED BY <1>3, <2>1, <2>2 DEF Entered
<1>10. ListsOK'
  <2>1. ToSet(q) \subseteq Entered'
    <3>1. \A j \in ToSet(e) : status'[j] \in {"queued", "running"} BY <1>3, <1>5
    <3> QED BY <1>1, <1>3, <1>9, <3>1 DEF Entered
  <2>2. Tidy(q, before) BY DEF Joins, q
  <2>3. ASSUME NEW s, Sublist(s, q) PROVE Tidy(s, before) /\ ToSet(s) \subseteq Entered'
    BY <2>1, <2>2, <2>3, SublistTidy
  <2>4. Tidy(<<>>, before) /\ ToSet(<<>>) = {} BY DEF Tidy, ToSet
  <2>5. ASSUME NEW s \in AllLists' PROVE Tidy(s, before) /\ ToSet(s) \subseteq Entered'
    <3>1. CASE s = q BY <2>1, <2>2, <3>1
    <3>2. CASE s = loaded' BY <1>0, <1>9, <2>4, <3>2 DEF ListsOK, AllLists
    <3>3. CASE s \in manifest BY <1>0, <1>9, <3>3 DEF ListsOK, AllLists
    <3>4. CASE Sublist(s, q) BY <2>3, <3>4
    <3> QED BY <1>2, <2>5, <3>1, <3>2, <3>3, <3>4 DEF AllLists, Kicked
  <2>6. queue' = q BY <1>2 DEF Kicked
  <2>7. ASSUME NEW j \in ToSet(q)
        PROVE  j \notin ToSet(loaded') /\ before[j] \intersect ToSet(loaded') = {}
    <3>1. CASE loaded' = <<>> BY <2>4, <3>1
    <3>2. CASE loaded' = loaded /\ loaded' # <<>>
      <4>1. CASE j \in ToSet(queue) BY <1>0, <3>2, <4>1 DEF ListsOK
      <4>2. CASE j \in ToSet(e) BY <1>3, <3>2, <4>2 DEF Joins
      <4> QED BY <1>1, <2>7, <4>1, <4>2
    <3> QED BY <3>1, <3>2
  <2> QED BY <2>5, <2>6, <2>7 DEF ListsOK
<1>11. PlacesOK'
  <2>1. ASSUME NEW j \in Job, status'[j] = "queued" PROVE j \in Behind' \/ j \in ToSet(loaded')
    <3>1. CASE j \in ToSet(e)
      <4>1. j # gen'["pump"].job
        <5>1. CASE gen' = gen /\ gen["pump"].at # "off" BY <1>3, <1>4, <3>1, <5>1
        <5>2. CASE gen'["pump"].job = Head(q) /\ status' = [st EXCEPT ![Head(q)] = "running"]
          BY <2>1, <5>2
        <5> QED BY <1>2, <5>1, <5>2 DEF Kicked, Gen
      <4> QED BY <1>7, <3>1, <4>1
    <3>2. CASE j \notin ToSet(e)
      <4>1. /\ status[j] = "queued" /\ (j \notin ToSet(loaded) \/ loaded' = loaded)
        BY <1>8, <2>1, <3>2
      <4>2. j \in Behind \union ToSet(loaded) BY <1>0, <4>1 DEF PlacesOK
      <4>3. j \in Behind => j \in Behind' BY <1>7 DEF Behind
      <4> QED BY <4>1, <4>2, <4>3
    <3> QED BY <3>1, <3>2
  <2>2. ASSUME NEW j \in Behind' \ hurt PROVE status'[j] = "queued"
    <3>1. CASE j \in ToSet(e) BY <1>6, <1>7, <2>2, <3>1
    <3>2. CASE j \in ToSet(queue)
      <4>1. gen' = gen BY <1>7, <3>2
      <4>2. j \in Behind BY <1>7, <2>2, <3>2, <4>1 DEF Behind
      <4>3. status[j] = "queued" /\ j \notin ToSet(loaded) /\ j \notin ToSet(e) /\ j \in Job
        BY <1>0, <1>3, <2>2, <3>2, <4>2 DEF PlacesOK, ListsOK
      <4> QED BY <1>8, <4>3
    <3> QED BY <1>7, <2>2, <3>1, <3>2
  <2>3. ASSUME NEW j \in ToSet(loaded') \ hurt, Live(j) PROVE status'[j] = "queued"
    <3>1. loaded' = loaded /\ loaded' # <<>> BY <2>3 DEF ToSet
    <3>2. status[j] = "queued" /\ j \in Entered BY <1>0, <1>3, <2>3, <3>1 DEF PlacesOK
    <3>3. j \notin ToSet(e) BY <3>1, <3>2 DEF Joins
    <3> QED BY <1>3, <1>8, <3>1, <3>2, <3>3
  <2> QED BY <2>1, <2>2, <2>3 DEF PlacesOK, Live
<1>12. WritesOK' BY <1>2 DEF WritesOK, Kicked
<1>13. \A j \in Job \ hurt : status[j] = "running" => status'[j] = "running" /\ j \notin ToSet(e)
  <2>1. \A j \in ToSet(e) \ hurt : status[j] # "running" BY DEF Joins
  <2> QED BY <1>8, <2>1
<1>14. EntriesOK'
  <2>1. saved' # None /\ saved'.job \notin hurt => status'[saved'.job] = "running"
    <3>1. saved # None => saved.job \in Job BY DEF QueueInv, TypeOK, PageTypes, Entry
    <3> QED BY <1>0, <1>13, <3>1 DEF EntriesOK
  <2>2. inflight' # None => \E g \in Activity : On(g)' /\ inflight'.job = gen'[g].job
    <3> SUFFICES ASSUME inflight # None
                 PROVE  \E g \in Activity : On(g)' /\ inflight.job = gen'[g].job
      OBVIOUS
    <3>1. PICK g \in Activity : On(g) /\ inflight.job = gen[g].job BY <1>0 DEF EntriesOK
    <3>2. gen'[g] = gen[g] BY <1>2, <3>1 DEF Kicked, On, Activity
    <3> QED BY <3>1, <3>2 DEF On
  <2>3. ASSUME NEW g \in Activity, On(g)', gen'[g].job \notin hurt
        PROVE  status'[gen'[g].job] = "running"
    <3>1. CASE gen'[g] = gen[g]
      <4>1. On(g) /\ gen[g].job \in Job BY <2>3, <3>1, PumpIsQueued DEF On
      <4> QED BY <1>0, <1>13, <2>3, <3>1, <4>1 DEF EntriesOK
    <3>2. CASE /\ g = "pump" /\ gen'["pump"].job = Head(q) /\ Head(q) \in Job
               /\ status' = [st EXCEPT ![Head(q)] = "running"]
      BY <3>2
    <3> QED BY <1>2, <3>1, <3>2 DEF Kicked, Gen, Activity
  <2>4. gen'["pump"].at = "over" => status'[gen'["pump"].job] = "over"
    <3>1. CASE gen' = gen /\ gen["pump"].at # "off"
      <4>1. /\ gen["pump"].job \in ToSet(queue) /\ gen["pump"].job \notin ToSet(e)
            /\ gen["pump"].job \in Job /\ gen["pump"].job \notin ToSet(loaded)
        BY <1>0, <1>3, <1>4, <3>1 DEF ListsOK
      <4>2. status'[gen["pump"].job] = status[gen["pump"].job] BY <1>8, <4>1
      <4> QED BY <1>0, <3>1, <4>2 DEF EntriesOK
    <3>2. CASE gen'["pump"].at = "asks" BY <3>2
    <3> QED BY <1>2, <3>1, <3>2 DEF Kicked, Gen
  <2>5. /\ gen'["boot"].at # "off" /\ gen'["boot"].job \notin hurt
        => gen'["boot"].job \notin ToSet(queue')
    <3> SUFFICES ASSUME gen["boot"].at # "off", gen["boot"].job \notin hurt
                 PROVE  gen["boot"].job \notin ToSet(q)
      BY <1>2 DEF Kicked
    <3>1. gen["boot"].at # "over" BY DEF QueueInv, Tracked
    <3>2. status[gen["boot"].job] = "running" /\ gen["boot"].job \in Job
      BY <1>0, <3>1, PumpIsQueued DEF EntriesOK, On
    <3> QED BY <1>0, <1>1, <1>13, <3>2 DEF EntriesOK
  <2> QED BY <2>1, <2>2, <2>3, <2>4, <2>5 DEF EntriesOK
<1>15. RowsOK'
  <2>1. ASSUME NEW j \in Job \ hurt, Live(j), status'[j] \in {"none", "sending", "queued"}
        PROVE  row[j] = 0
    <3>1. CASE j \in ToSet(e) BY <1>0, <2>1, <3>1 DEF RowsOK, Joins
    <3>2. CASE j \notin ToSet(e) BY <1>0, <1>8, <2>1, <3>2 DEF RowsOK
    <3> QED BY <3>1, <3>2
  <2>2. gen'["boot"].at # "off" => gen'["boot"].resumes BY <1>0, <1>2 DEF RowsOK, Kicked
  <2>3. FreshStored'
    <3>1. CASE gen' = gen BY <1>0, <3>1 DEF RowsOK, FreshStored, Live, Stored
    <3>2. CASE /\ gen'["pump"] = Gen("asks", Head(q), 0, 0, FALSE)
               /\ Head(q) \in ToSet(q) /\ queue = <<>>
      <4>0. ToSet(queue) = {} BY <3>2 DEF ToSet
      <4>1. Head(q) \in ToSet(e) BY <1>1, <3>2, <4>0
      <4>2. Head(q) \notin hurt /\ Live(Head(q)) => row[Head(q)] = 0
        BY <1>0, <1>3, <4>1 DEF RowsOK, Joins
      <4>3. /\ gen'["pump"].at = "asks" /\ gen'["pump"].job = Head(q)
            /\ gen'["pump"].shown = 0 /\ gen'["pump"].pending = 0
        BY <3>2 DEF Gen
      <4> QED BY <4>2, <4>3 DEF FreshStored, Live, Stored
    <3> QED BY <1>2, <3>1, <3>2 DEF Kicked
  <2> QED BY <2>1, <2>2, <2>3 DEF RowsOK, FreshStored, Live
<1>16. PriorsOK'
  <2>1. ASSUME NEW j \in Job, NEW S, Ahead(j, S)
        PROVE  \A k \in before[j] :
                 status'[k] = "over" \/ k = gen'["boot"].job \/ k \in S \/ k \in ToSet(e)
    <3> TAKE k \in before[j]
    <3>1. k \in Job BY DEF QueueInv, TypeOK, JobTypes
    <3>2. status[k] = "over" /\ k \notin ToSet(e) => status'[k] = "over" BY <1>8, <3>1
    <3>3. gen'["boot"] = gen["boot"] BY <1>2 DEF Kicked
    <3> QED BY <2>1, <3>2, <3>3 DEF Ahead
  <2>2. BeforeOK'
    <3>1. ASSUME NEW j \in Job, status[j] # "none" PROVE status'[j] # "none"
      BY <1>3, <1>5, <1>8, <3>1
    <3> QED BY <1>0, <1>9, <3>1 DEF PriorsOK, BeforeOK
  <2>3. queue' = q BY <1>2 DEF Kicked
  <2>4. ASSUME NEW j \in Coming' PROVE Comes(j)'
    <3>1. CASE j \in ToSet(e)
      <4>1. Ahead(j, ToSet(queue) \union ToSet(e)) BY <3>1 DEF Joins
      <4>2. \A k \in before[j] : status'[k] = "over" \/ k = gen'["boot"].job \/ k \in ToSet(q)
        BY <1>1, <1>3, <2>1, <3>1, <4>1
      <4>3. before[j] \intersect ToSet(loaded') = {} /\ (before[j] = {} \/ j \in chained')
        BY <3>1 DEF Joins
      <4> QED BY <2>3, <4>2, <4>3 DEF Comes, Ahead
    <3>2. CASE j \notin ToSet(e)
      <4>1. j \in Coming /\ j \in Job
        <5>1. CASE j \in Behind'
          <6>1. j \in ToSet(queue) BY <1>7, <3>2, <5>1
          <6>2. j \in Behind BY <1>7, <5>1, <6>1 DEF Behind
          <6> QED BY <1>3, <6>1, <6>2 DEF Coming
        <5>2. CASE j \in Job /\ status'[j] = "sending"
          <6>1. status[j] = "sending" BY <1>8, <3>2, <5>2
          <6> QED BY <5>2, <6>1 DEF Coming
        <5> QED BY <2>4, <5>1, <5>2 DEF Coming
      <4>2. Comes(j) BY <1>0, <4>1 DEF PriorsOK
      <4>3. \A k \in before[j] : status'[k] = "over" \/ k = gen'["boot"].job \/ k \in ToSet(q)
        BY <1>1, <2>1, <4>1, <4>2 DEF Comes
      <4>4. ToSet(loaded') \subseteq ToSet(loaded) BY DEF ToSet
      <4> QED BY <2>3, <4>2, <4>3, <4>4 DEF Comes, Ahead
    <3> QED BY <3>1, <3>2
  <2>5. ASSUME NEW j \in ToSet(loaded') PROVE Ahead(j, ToSet(queue) \union ToSet(loaded))'
    <3>1. loaded' = loaded BY <2>5 DEF ToSet
    <3>2. Ahead(j, ToSet(queue) \union ToSet(loaded)) /\ j \in Job
      BY <1>0, <1>3, <2>5, <3>1 DEF PriorsOK
    <3>3. \A k \in before[j] :
            status'[k] = "over" \/ k = gen'["boot"].job \/ k \in ToSet(q) \union ToSet(loaded)
      BY <1>1, <2>1, <3>2
    <3> QED BY <2>3, <3>1, <3>3 DEF Ahead
  <2> QED BY <2>2, <2>4, <2>5 DEF PriorsOK
<1>17. OffFinished
  <2> SUFFICES ASSUME NEW j \in Job, status[j] # "running", status'[j] = "running",
                      NEW k \in before[j]
               PROVE  j \in chained' /\ (status[k] = "over" \/ k = gen["boot"].job)
    BY DEF OffFinished
  <2>1. st[j] # "running" BY <1>3, <1>8
  <2>2. queue = <<>> /\ j = Head(q) /\ j \in ToSet(q) BY <1>2, <2>1 DEF Kicked
  <2>3. ToSet(queue) = {} BY <2>2 DEF ToSet
  <2>4. j \in ToSet(e) /\ ToSet(e) = ToSet(q) BY <1>1, <2>2, <2>3
  <2>5. Ahead(j, ToSet(q)) /\ j \in chained' BY <2>3, <2>4 DEF Joins
  <2>6. k \notin ToSet(q)
    <3>1. Tidy(q, before) BY DEF Joins, q
    <3> QED BY <1>0, <1>1, <2>2, <3>1, FirstOfTidy DEF PriorsOK
  <2> QED BY <2>5, <2>6 DEF Ahead
<1> QED BY <1>10, <1>11, <1>12, <1>14, <1>15, <1>16, <1>17 DEF ChatInv

(* A message that is stored joins the queue behind what is there. *)
LEMMA EnqueueChat ==
  ASSUME QueueInv, ChatInv, NEW j \in Job, Enqueue(j)
  PROVE  ChatInv' /\ OffFinished
<1> DEFINE st == [status EXCEPT ![j] = "queued"]
           e == <<j>>
<1>0. /\ ListsOK /\ PriorsOK /\ status \in [Job -> Status] /\ queue \in Seq(Job)
      /\ status[j] = "sending" /\ j \notin Entered
  BY DEF ChatInv, QueueInv, TypeOK, JobTypes, ListTypes, Enqueue, Entered
<1>1. /\ Kick(Append(queue, j), st)
      /\ UNCHANGED <<page, convOf, chained, loaded, inflight, convs, row, saved, before, hurt>>
  BY DEF Enqueue
<1>2. page = "up" BY <1>0 DEF QueueInv, GoneIsEmpty, TypeOK, JobTypes
<1>3. e \in Seq(Job) /\ e # <<>> /\ Append(queue, j) = queue \o e /\ ToSet(e) = {j}
  BY <1>0 DEF ToSet
<1>4. st \in [Job -> Status] BY <1>0 DEF Status
<1>5. ToSet(queue) \subseteq Entered /\ ToSet(loaded) \subseteq Entered /\ Tidy(queue, before)
  BY <1>0 DEF ListsOK, AllLists
<1>6. \A i \in ToSet(queue) : i # j /\ j \notin before[i]
  <2>1. \A i \in Job : before[i] \subseteq Entered BY <1>0 DEF PriorsOK, BeforeOK
  <2> QED BY <1>0, <1>5, <2>1 DEF Entered
<1>7. Comes(j) BY <1>0, <1>2 DEF PriorsOK, Coming
<1>8. Joins(e, st)
  <2>1. Tidy(queue \o e, before)
    <3>1. Tidy(e, before) BY DEF Tidy
    <3>2. \A x \in ToSet(queue), y \in ToSet(e) : x # y /\ y \notin before[x] BY <1>3, <1>6
    <3> HIDE DEF e
    <3> QED BY <1>0, <1>3, <1>5, <3>1, <3>2, TidyConcat
  <2>2. Ahead(j, ToSet(queue) \union ToSet(e)) BY <1>7 DEF Comes, Ahead
  <2>3. \A i \in ToSet(e) :
          /\ i \notin ToSet(queue) /\ st[i] = "queued"
          /\ before[i] \intersect ToSet(loaded') = {}
          /\ before[i] = {} \/ i \in chained'
          /\ Ahead(i, ToSet(queue) \union ToSet(e))
    BY <1>0, <1>1, <1>3, <1>5, <1>7, <2>2 DEF Comes
  <2>4. /\ \A i \in ToSet(e) \ hurt : status[i] \in {"sending", "queued"}
        /\ \A i \in ToSet(e) : loaded' = <<>> \/ i \notin Entered
    BY <1>0, <1>3
  <2>5. \A i \in Job \ ToSet(e) : st[i] = status[i] BY <1>3
  <2> HIDE DEF e, st
  <2> QED BY <1>1, <2>1, <2>3, <2>4, <2>5 DEF Joins
<1> HIDE DEF e, st
<1> QED BY <1>1, <1>2, <1>3, <1>4, <1>8, KickChat

(* Nothing is left to restore: the jobs of deleted conversations are gone. *)
LEMMA RestoreNone ==
  ASSUME QueueInv, ChatInv, page = "up",
         UNCHANGED <<page, convOf, queue, gen, inflight, convs, row, manifest, saved, before,
                     hurt>>,
         loaded # <<>>, loaded' = <<>>, chained \subseteq chained',
         \A j \in ToSet(loaded) : ~Live(j),
         \A j \in Job : IF j \in ToSet(loaded) /\ status[j] = "queued" THEN status'[j] = "over"
                        ELSE status'[j] = status[j]
  PROVE  ChatInv' /\ OffFinished
<1>0. /\ ListsOK /\ PlacesOK /\ WritesOK /\ EntriesOK /\ RowsOK /\ PriorsOK
      /\ "pump" \in Activity /\ "boot" \in Activity
  BY DEF ChatInv, Activity
<1>1. ToSet(loaded') = {} BY DEF ToSet
<1>2. Entered \subseteq Entered' /\ Behind' = Behind BY DEF Entered, Behind
<1>3. /\ ToSet(queue) \intersect ToSet(loaded) = {} /\ ToSet(queue) \subseteq Entered
  BY <1>0 DEF ListsOK, AllLists
<1>4. \A j \in ToSet(queue) : status'[j] = status[j] /\ j \in Job BY <1>3 DEF Entered
<1>5. ListsOK'
  <2>1. Sublist(<<>>, queue)
    <3> DEFINE at == [n \in {} |-> n]
    <3>1. DOMAIN <<>> = {} /\ at \in [{} -> DOMAIN queue] OBVIOUS
    <3> QED BY <3>1 DEF Sublist
  <2>2. \A s \in AllLists' : \E t \in AllLists : Sublist(s, t)
    BY <2>1, SublistSelf DEF AllLists
  <2>3. ToSet(loaded') \subseteq ToSet(loaded) BY <1>1
  <2> QED BY <1>0, <1>2, <2>2, <2>3, ListsKept
<1>6. PlacesOK'
  <2>1. \A j \in Job : status'[j] = "queued" => status[j] = "queued" /\ j \notin ToSet(loaded)
    OBVIOUS
  <2>2. \A j \in Job : status'[j] = "queued" => j \in Behind BY <1>0, <2>1 DEF PlacesOK
  <2>3. \A j \in Behind \ hurt : status'[j] = "queued" BY <1>0, <1>4 DEF PlacesOK, Behind
  <2> QED BY <1>1, <1>2, <2>2, <2>3 DEF PlacesOK
<1>7. WritesOK'
  <2>1. Waiting(queue)' = Waiting(queue) BY DEF Waiting, Running
  <2> QED BY <1>0, <2>1 DEF WritesOK, Live
<1>8. EntriesOK'
  <2>1. \A j \in Job : status[j] # "queued" => status'[j] = status[j] OBVIOUS
  <2>2. saved # None => saved.job \in Job BY DEF QueueInv, TypeOK, PageTypes, Entry
  <2>3. \A g \in Activity : On(g)' <=> On(g) BY DEF On
  <2>4. saved' # None /\ saved'.job \notin hurt => status'[saved'.job] = "running"
    BY <1>0, <2>1, <2>2 DEF EntriesOK
  <2>5. \A g \in Activity : On(g)' /\ gen'[g].job \notin hurt => status'[gen'[g].job] = "running"
    BY <1>0, <2>1, <2>3, PumpIsQueued DEF EntriesOK, On
  <2>6. gen'["pump"].at = "over" => status'[gen'["pump"].job] = "over"
    BY <1>0, <1>4, PumpIsQueued DEF EntriesOK
  <2> QED BY <1>0, <2>3, <2>4, <2>5, <2>6 DEF EntriesOK
<1>9. RowsOK' BY <1>0 DEF RowsOK, FreshStored, Live, Stored
<1>10. PriorsOK'
  <2>1. Coming' \subseteq Coming BY <1>2 DEF Coming
  <2>2. ASSUME NEW j \in Coming' PROVE Comes(j)'
    <3>1. Comes(j) /\ j \in Job BY <1>0, <1>4, <2>1, <2>2 DEF PriorsOK, Coming, Behind
    <3>2. \A k \in before[j] : status[k] = "over" => status'[k] = "over"
      BY <3>1 DEF QueueInv, TypeOK, JobTypes
    <3> QED BY <1>1, <3>1, <3>2 DEF Comes, Ahead
  <2>3. BeforeOK' BY <1>0, <1>2 DEF PriorsOK, BeforeOK
  <2> QED BY <1>1, <2>2, <2>3 DEF PriorsOK
<1>11. OffFinished BY NoneStarts
<1> QED BY <1>5, <1>6, <1>7, <1>8, <1>9, <1>10, <1>11 DEF ChatInv

(* What was read back joins the queue, but for what has no conversation any more. *)
LEMMA RestoreChat ==
  ASSUME QueueInv, ChatInv, Restore
  PROVE  ChatInv' /\ OffFinished
<1> DEFINE dead == {j \in Job : convOf[j] \notin convs}
           valid == Without(loaded, dead)
           st == [j \in Job |-> IF j \in ToSet(valid) THEN "queued"
                                ELSE IF j \in ToSet(loaded) /\ status[j] = "queued" THEN "over"
                                ELSE status[j]]
<1>0. /\ ListsOK /\ PlacesOK /\ PriorsOK /\ status \in [Job -> Status]
      /\ queue \in Seq(Job) /\ loaded \in Seq(Job)
  BY DEF ChatInv, QueueInv, TypeOK, JobTypes, ListTypes
<1>1. /\ page = "up" /\ loaded # <<>> /\ loaded' = <<>> /\ chained' = chained \union ToSet(valid)
      /\ UNCHANGED <<page, convOf, inflight, convs, row, saved, before, hurt>>
      /\ \/ valid = <<>> /\ status' = st /\ UNCHANGED <<queue, gen, manifest>>
         \/ valid # <<>> /\ Kick(queue \o valid, st)
  BY DEF Restore
<1>2. valid \in Seq(Job) /\ Sublist(valid, loaded) /\ ToSet(valid) = ToSet(loaded) \ dead
  BY <1>0, WithoutSet
<1>3. ToSet(loaded) \subseteq Job BY <1>0 DEF ToSet
<1>4. \A j \in ToSet(valid) : j \in Job /\ Live(j) /\ j \in ToSet(loaded)
  BY <1>2, <1>3 DEF Live
<1>5. st \in [Job -> Status] BY <1>0 DEF Status
<1> HIDE DEF valid
<1>6. /\ \A j \in ToSet(valid) : st[j] = "queued"
      /\ \A j \in Job \ ToSet(valid) : IF j \in ToSet(loaded) /\ status[j] = "queued"
                                       THEN st[j] = "over" ELSE st[j] = status[j]
  BY <1>4
<1> HIDE DEF st
<1>7. CASE valid = <<>>
  <2>1. ToSet(valid) = {} BY <1>7 DEF ToSet
  <2>2. \A j \in ToSet(loaded) : ~Live(j) BY <1>2, <2>1 DEF Live
  <2>3. status' = st /\ UNCHANGED <<queue, gen, manifest>>
    <3>1. CASE valid = <<>> /\ status' = st /\ UNCHANGED <<queue, gen, manifest>> BY <3>1
    <3>2. CASE valid # <<>> BY <1>7, <3>2
    <3> QED BY <1>1, <3>1, <3>2
  <2>4. \A j \in Job : IF j \in ToSet(loaded) /\ status[j] = "queued" THEN status'[j] = "over"
                       ELSE status'[j] = status[j]
    BY <1>6, <2>1, <2>3
  <2> HIDE DEF dead
  <2> QED BY <1>1, <2>2, <2>3, <2>4, RestoreNone
<1>8. CASE valid # <<>>
  <2>1. Kick(queue \o valid, st) BY <1>1, <1>8
  <2>2. /\ Tidy(valid, before) /\ Tidy(queue, before) /\ ToSet(queue) \subseteq Entered
        /\ \A j \in ToSet(queue) : j \notin ToSet(loaded) /\ before[j] \intersect ToSet(loaded) = {}
    <3>1. /\ Tidy(loaded, before) /\ Tidy(queue, before) /\ ToSet(queue) \subseteq Entered
          /\ \A j \in ToSet(queue) :
               j \notin ToSet(loaded) /\ before[j] \intersect ToSet(loaded) = {}
      BY <1>0 DEF ListsOK, AllLists
    <3>2. Tidy(valid, before) BY <1>2, <3>1, SublistTidy
    <3> QED BY <3>1, <3>2
  <2>3. Tidy(queue \o valid, before)
    <3>1. \A x \in ToSet(queue), y \in ToSet(valid) : x # y /\ y \notin before[x] BY <1>4, <2>2
    <3> QED BY <1>0, <1>2, <2>2, <3>1, TidyConcat
  <2>4. ASSUME NEW j \in ToSet(valid) PROVE Ahead(j, ToSet(queue) \union ToSet(valid))
    <3>1. Ahead(j, ToSet(queue) \union ToSet(loaded)) BY <1>0, <1>1, <1>4 DEF PriorsOK
    <3>2. ASSUME NEW k \in before[j], k \in ToSet(loaded) PROVE k \in ToSet(valid)
      <4>1. convOf[k] = convOf[j] BY <1>0, <1>4 DEF PriorsOK, BeforeOK
      <4> QED BY <1>2, <1>4, <3>2, <4>1 DEF Live
    <3> QED BY <3>1, <3>2 DEF Ahead
  <2>5. ToSet(loaded') = {} BY <1>1 DEF ToSet
  <2>6. \A j \in ToSet(valid) :
          /\ j \notin ToSet(queue) /\ st[j] = "queued"
          /\ before[j] \intersect ToSet(loaded') = {}
          /\ before[j] = {} \/ j \in chained'
          /\ Ahead(j, ToSet(queue) \union ToSet(valid))
    BY <1>1, <1>4, <1>6, <2>2, <2>4, <2>5
  <2>7. \A j \in ToSet(valid) \ hurt : status[j] \in {"sending", "queued"}
    BY <1>0, <1>1, <1>4 DEF PlacesOK
  <2>8. \A j \in Job \ ToSet(valid) :
          \/ st[j] = status[j] /\ (st[j] = "queued" => j \notin ToSet(loaded) \/ loaded' = loaded)
          \/ j \in ToSet(loaded) /\ loaded' = <<>> /\ status[j] = "queued" /\ st[j] = "over"
    BY <1>1, <1>6
  <2>9. Joins(valid, st) BY <1>1, <2>3, <2>6, <2>7, <2>8 DEF Joins
  <2>10. chained \subseteq chained' BY <1>1
  <2> QED BY <1>1, <1>2, <1>5, <1>8, <2>1, <2>9, <2>10, KickChat
<1> QED BY <1>7, <1>8

LEMMA TidyLess ==
  ASSUME NEW s, NEW b, NEW c, Tidy(s, b), \A x \in ToSet(s) : c[x] \subseteq b[x]
  PROVE  Tidy(s, c)
BY DEF Tidy, ToSet

(* What the pump does between two jobs: the first leaves the queue, the next one starts. *)
Advanced(p) ==
  /\ p \in Job /\ queue # <<>> /\ Head(queue) = p /\ status[p] = "over" /\ page = "up"
  /\ queue' = Tail(queue) /\ ToSet(queue) = {p} \union ToSet(queue')
  /\ p \notin ToSet(queue') /\ Sublist(queue', queue)
  /\ before' = [before EXCEPT ![p] = {}] /\ chained' = chained \ {p}
  /\ manifest \subseteq manifest' /\ IsFiniteSet(manifest') /\ Waiting(queue)' \in manifest'
  /\ \A s \in manifest' : s \in manifest \/ Sublist(s, queue)
  /\ gen'["boot"] = gen["boot"]
  /\ \/ /\ ToSet(queue') = {} /\ status' = status
        /\ gen'["pump"].at = "off" /\ gen'["pump"].job = None
     \/ /\ gen'["pump"] = Gen("asks", Head(queue'), 0, 0, FALSE)
        /\ Head(queue') \in ToSet(queue') /\ Head(queue') \in Job
        /\ status' = [status EXCEPT ![Head(queue')] = "running"]

LEMMA SublistOf ==
  ASSUME NEW s, NEW t, NEW u, Sublist(s, t), Sublist(t, u)
  PROVE  Sublist(s, u)
<1>1. PICK f \in [DOMAIN t -> DOMAIN u] :
        /\ \A n \in DOMAIN t : t[n] = u[f[n]]
        /\ \A n, m \in DOMAIN t : n < m => f[n] < f[m]
  BY DEF Sublist
<1>2. PICK h \in [DOMAIN s -> DOMAIN t] :
        /\ \A n \in DOMAIN s : s[n] = t[h[n]]
        /\ \A n, m \in DOMAIN s : n < m => h[n] < h[m]
  BY DEF Sublist
<1> DEFINE at == [n \in DOMAIN s |-> f[h[n]]]
<1>3. at \in [DOMAIN s -> DOMAIN u] BY <1>1, <1>2
<1>4. \A n \in DOMAIN s : s[n] = u[at[n]] BY <1>1, <1>2
<1>5. \A n, m \in DOMAIN s : n < m => at[n] < at[m] BY <1>1, <1>2
<1> HIDE DEF at
<1> QED BY <1>3, <1>4, <1>5 DEF Sublist

LEMMA AdvanceWrites ==
  ASSUME QueueInv, ChatInv, PumpAdvance
  PROVE  Advanced(gen["pump"].job)
<1> "pump" \in Activity /\ "boot" \in Activity BY DEF Activity
<1> DEFINE p == gen["pump"].job
           w == Tail(queue)
<1>0. /\ GenTypes /\ queue \in Seq(Job) /\ IsFiniteSet(manifest) /\ Tidy(queue, before)
      /\ status[p] = "over" /\ gen["pump"].at = "over"
  BY DEF ChatInv, WritesOK, QueueInv, TypeOK, ListTypes, PumpAdvance, EntriesOK, ListsOK, AllLists
<1>1. p \in Job /\ queue # <<>> /\ Head(queue) = p /\ page = "up" BY <1>0, PumpIsQueued
<1>2. /\ w \in Seq(Job) /\ Sublist(w, queue) /\ ToSet(queue) = {p} \union ToSet(w)
  BY <1>0, <1>1, TailSublist
<1>3. Without(queue, {p}) = w
  <2>1. \A i, k \in DOMAIN queue : i < k => queue[i] # queue[k] BY <1>0 DEF Tidy
  <2> QED BY <1>0, <1>1, <2>1, WithoutFirst
<1>4. p \notin ToSet(w)
  <2>1. ToSet(Without(queue, {p})) = ToSet(queue) \ {p} BY <1>0, WithoutSet
  <2> QED BY <1>3, <2>1
<1>5. Tidy(w, before) BY <1>0, <1>2, SublistTidy
<1> HIDE DEF w
<1>6. /\ queue' = w /\ before' = [before EXCEPT ![p] = {}] /\ chained' = chained \ {p}
      /\ \/ /\ w = <<>> /\ manifest' = manifest \union {<<>>} /\ status' = status
            /\ gen' = [gen EXCEPT !["pump"] = Off]
         \/ /\ w # <<>> /\ manifest' = manifest \union {w, Tail(w)}
            /\ status' = [status EXCEPT ![Head(w)] = "running"]
            /\ gen' = [gen EXCEPT !["pump"] = Gen("asks", Head(w), 0, 0, FALSE)]
  BY <1>3 DEF PumpAdvance, Leaves, Commit, Start
<1>7. status[p] = "over" /\ w = Tail(queue) BY <1>0 DEF w
<1>8. CASE /\ w = <<>> /\ manifest' = manifest \union {<<>>} /\ status' = status
           /\ gen' = [gen EXCEPT !["pump"] = Off]
  <2>1. gen'["pump"] = Off /\ gen'["boot"] = gen["boot"] BY <1>0, <1>8 DEF GenTypes
  <2>2. gen'["pump"].at = "off" /\ gen'["pump"].job = None BY <2>1 DEF Off, Gen
  <2>3. ToSet(w) = {} BY <1>8 DEF ToSet
  <2>4. Waiting(queue)' = <<>> BY <1>6, <1>8, WithoutNothing DEF Waiting
  <2>5. IsFiniteSet(manifest') BY <1>0, <1>8, FS_Singleton, FS_Union
  <2>6. \A s \in manifest' : s \in manifest \/ Sublist(s, queue) BY <1>2, <1>8
  <2>7. manifest \subseteq manifest' /\ <<>> \in manifest' BY <1>8
  <2> QED BY <1>1, <1>2, <1>4, <1>6, <1>8, <1>7, <2>1, <2>2, <2>3, <2>4, <2>5, <2>6, <2>7
          DEF Advanced
<1>9. CASE /\ w # <<>> /\ manifest' = manifest \union {w, Tail(w)}
           /\ status' = [status EXCEPT ![Head(w)] = "running"]
           /\ gen' = [gen EXCEPT !["pump"] = Gen("asks", Head(w), 0, 0, FALSE)]
  <2>1. /\ gen'["pump"] = Gen("asks", Head(w), 0, 0, FALSE) /\ gen'["boot"] = gen["boot"]
    BY <1>0, <1>9 DEF GenTypes
  <2>2. /\ Head(w) \in ToSet(w) /\ Head(w) \in Job
        /\ Without(w, {Head(w)} \ {None}) = Tail(w) /\ Sublist(Tail(w), w)
    BY <1>2, <1>5, <1>9, TakesFirst
  <2>3. Waiting(queue)' = Tail(w)
    <3>1. gen'["pump"].job = Head(w) BY <2>1 DEF Gen
    <3> QED BY <1>6, <2>2, <3>1 DEF Waiting, Running
  <2>4. IsFiniteSet(manifest')
    <3>1. IsFiniteSet({w}) /\ IsFiniteSet({Tail(w)}) BY FS_Singleton
    <3>2. IsFiniteSet({w} \union {Tail(w)}) BY <3>1, FS_Union
    <3>3. {w} \union {Tail(w)} = {w, Tail(w)} OBVIOUS
    <3> QED BY <1>0, <1>9, <3>2, <3>3, FS_Union
  <2>5. Sublist(Tail(w), queue) BY <1>2, <2>2, SublistOf
  <2>6. \A s \in manifest' : s \in manifest \/ Sublist(s, queue) BY <1>2, <1>9, <2>5
  <2>7. manifest \subseteq manifest' /\ Tail(w) \in manifest' BY <1>9
  <2> QED BY <1>1, <1>2, <1>4, <1>6, <1>9, <1>7, <2>1, <2>2, <2>3, <2>4, <2>6, <2>7
          DEF Advanced
<1> QED BY <1>6, <1>8, <1>9

(* The job that is over leaves, and nobody has it among its priors as one to wait for. *)
LEMMA AdvanceChat ==
  ASSUME QueueInv, ChatInv, PumpAdvance
  PROVE  ChatInv' /\ OffFinished
<1> DEFINE p == gen["pump"].job
           h == Head(queue')
<1>0. /\ ListsOK /\ PlacesOK /\ WritesOK /\ EntriesOK /\ RowsOK /\ PriorsOK
      /\ status \in [Job -> Status] /\ before \in [Job -> SUBSET Job] /\ "pump" \in Activity
      /\ "boot" \in Activity /\ gen["pump"].at = "over"
  BY DEF ChatInv, QueueInv, TypeOK, JobTypes, Activity, PumpAdvance
<1>1. Advanced(p) /\ UNCHANGED <<page, convOf, loaded, inflight, convs, row, saved, hurt>>
  BY AdvanceWrites DEF PumpAdvance
<1>2. /\ p \in Job /\ status[p] = "over" /\ page = "up" /\ page' = "up"
      /\ ToSet(queue) = {p} \union ToSet(queue') /\ p \notin ToSet(queue')
      /\ gen'["boot"] = gen["boot"] /\ Sublist(queue', queue)
      /\ chained' = chained \ {p}
  BY <1>1 DEF Advanced
<1>3. /\ ToSet(queue) \subseteq Entered /\ ToSet(loaded) \subseteq Entered /\ Entered \subseteq Job
      /\ ToSet(queue) \intersect ToSet(loaded) = {}
  <2>1. \A s \in {queue, loaded} : ToSet(s) \subseteq Entered BY <1>0 DEF ListsOK, AllLists
  <2> QED BY <1>0, <2>1 DEF ListsOK, Entered
<1>4. /\ before'[p] = {} /\ \A j \in Job \ {p} : before'[j] = before[j]
      /\ \A j \in Job : before'[j] \subseteq before[j] /\ before'[j] \subseteq Job
  BY <1>0, <1>1 DEF Advanced
<1>5. \/ status' = status /\ ToSet(queue') = {}
         /\ gen'["pump"].at = "off" /\ gen'["pump"].job = None
      \/ /\ h \in ToSet(queue') /\ h \in Job /\ status' = [status EXCEPT ![h] = "running"]
         /\ gen'["pump"] = Gen("asks", h, 0, 0, FALSE)
  BY <1>1 DEF Advanced
<1> HIDE DEF h
<1>6. /\ \A j \in Job : status'[j] = status[j] \/ (status'[j] = "running" /\ j \in ToSet(queue'))
      /\ \A j \in Job : j \in ToSet(queue') /\ j # gen'["pump"].job => status'[j] = status[j]
      /\ \A j \in Job : j = gen'["pump"].job => status'[j] = "running" \/ ToSet(queue') = {}
      /\ \A j \in Job \ ToSet(queue') : status'[j] = status[j]
  <2>1. CASE status' = status /\ ToSet(queue') = {} BY <2>1
  <2>2. CASE /\ h \in ToSet(queue') /\ h \in Job /\ status' = [status EXCEPT ![h] = "running"]
             /\ gen'["pump"].job = h
    BY <1>0, <2>2
  <2> QED BY <1>5, <2>1, <2>2 DEF Gen
<1>7. Behind' = Behind \ {gen'["pump"].job}
  <2>1. Behind = ToSet(queue') BY <1>2 DEF Behind
  <2> QED BY <2>1 DEF Behind
<1>8. Entered \subseteq Entered' BY <1>6 DEF Entered
<1>9. ListsOK'
  <2>1. ASSUME NEW s \in AllLists' PROVE Tidy(s, before') /\ ToSet(s) \subseteq Entered'
    <3>1. PICK t \in AllLists : Sublist(s, t)
      <4>1. \A r \in manifest' : r \in manifest \/ Sublist(r, queue) BY <1>1 DEF Advanced
      <4>2. s \in manifest' \/ s = queue' \/ s = loaded BY <1>1, <2>1 DEF AllLists
      <4> QED BY <1>2, <4>1, <4>2, SublistSelf DEF AllLists
    <3>2. Tidy(t, before) /\ ToSet(t) \subseteq Entered BY <1>0, <3>1 DEF ListsOK
    <3>3. Tidy(s, before) /\ ToSet(s) \subseteq ToSet(t) BY <3>1, <3>2, SublistTidy
    <3>4. \A x \in ToSet(s) : before'[x] \subseteq before[x] BY <1>3, <1>4, <3>2, <3>3
    <3>5. Tidy(s, before') BY <3>3, <3>4, TidyLess
    <3> QED BY <1>8, <3>2, <3>3, <3>5
  <2>2. ToSet(queue') \intersect ToSet(loaded') = {} BY <1>1, <1>2, <1>3
  <2>3. ASSUME NEW j \in ToSet(queue') PROVE before'[j] \intersect ToSet(loaded') = {}
    <3>1. before[j] \intersect ToSet(loaded) = {} /\ j \in Job BY <1>0, <1>2, <1>3 DEF ListsOK
    <3> QED BY <1>1, <1>4, <3>1
  <2> QED BY <2>1, <2>2, <2>3 DEF ListsOK
<1>10. PlacesOK'
  <2>1. ASSUME NEW j \in Job, status'[j] = "queued" PROVE j \in Behind' \union ToSet(loaded')
    <3>1. status[j] = "queued" BY <1>6, <2>1
    <3>2. j \in Behind \union ToSet(loaded) BY <1>0, <1>2, <3>1 DEF PlacesOK
    <3>3. j \in Behind => j \in Behind'
      <4>1. j \in Behind => j \in ToSet(queue') BY <1>2 DEF Behind
      <4>2. j \in ToSet(queue') => j # gen'["pump"].job BY <1>6, <2>1
      <4> QED BY <1>7, <4>1, <4>2
    <3> QED BY <1>1, <3>2, <3>3
  <2>2. ASSUME NEW j \in Behind' \ hurt PROVE status'[j] = "queued"
    <3>1. j \in Behind /\ j # gen'["pump"].job BY <1>7, <2>2
    <3>2. status[j] = "queued" BY <1>0, <1>2, <2>2, <3>1 DEF PlacesOK
    <3>3. j \in ToSet(queue') /\ j \in Job BY <1>2, <1>3, <3>1 DEF Behind
    <3> QED BY <1>6, <3>1, <3>2, <3>3
  <2>3. ASSUME NEW j \in ToSet(loaded) \ hurt, Live(j) PROVE status'[j] = "queued"
    <3>1. status[j] = "queued" BY <1>0, <1>2, <2>3 DEF PlacesOK
    <3>2. j \in Job \ ToSet(queue') BY <1>2, <1>3, <2>3
    <3> QED BY <1>6, <3>1, <3>2
  <2> QED BY <1>1, <1>2, <2>1, <2>2, <2>3 DEF PlacesOK, Live
<1>11. WritesOK' BY <1>1, <1>2 DEF WritesOK, Advanced
<1>12. EntriesOK'
  <2>1. \A j \in Job : status[j] = "running" => status'[j] = "running" BY <1>6
  <2>2. saved # None => saved.job \in Job BY DEF QueueInv, TypeOK, PageTypes, Entry
  <2>3. saved' # None /\ saved'.job \notin hurt => status'[saved'.job] = "running"
    BY <1>0, <1>1, <2>1, <2>2 DEF EntriesOK
  <2>4. inflight' # None => \E g \in Activity : On(g)' /\ inflight'.job = gen'[g].job
    <3>1. On("boot") => On("boot")' BY <1>2 DEF On
    <3>2. inflight # None => On("boot") /\ inflight.job = gen["boot"].job
      BY <1>0 DEF EntriesOK, On, Activity
    <3> QED BY <1>0, <1>1, <1>2, <3>1, <3>2
  <2>5. ASSUME NEW g \in Activity, On(g)', gen'[g].job \notin hurt
        PROVE  status'[gen'[g].job] = "running"
    <3>1. CASE g = "boot"
      <4>1. On("boot") /\ gen["boot"].job \in Job BY <1>0, <1>2, <2>5, <3>1, PumpIsQueued DEF On
      <4> QED BY <1>0, <1>2, <2>1, <2>5, <3>1, <4>1 DEF EntriesOK
    <3>2. CASE g = "pump"
      <4>1. gen'["pump"].at # "off" BY <2>5, <3>2 DEF On
      <4>2. h \in Job /\ status' = [status EXCEPT ![h] = "running"] /\ gen'["pump"].job = h
        BY <1>5, <4>1 DEF Gen
      <4> QED BY <1>0, <3>2, <4>2
    <3> QED BY <3>1, <3>2 DEF Activity
  <2>6. gen'["pump"].at # "over" BY <1>5 DEF Gen
  <2>7. /\ gen'["boot"].at # "off" /\ gen'["boot"].job \notin hurt
        => gen'["boot"].job \notin ToSet(queue')
    BY <1>0, <1>2 DEF EntriesOK
  <2> QED BY <1>1, <1>2, <2>3, <2>4, <2>5, <2>6, <2>7 DEF EntriesOK
<1>13. RowsOK'
  <2>1. \A j \in Job : status'[j] \in {"none", "sending", "queued"} => status'[j] = status[j]
    BY <1>6
  <2>2. gen'["boot"].at # "off" => gen'["boot"].resumes BY <1>0, <1>2 DEF RowsOK
  <2>3. FreshStored'
    <3>1. CASE gen'["pump"].at = "off" BY <3>1 DEF FreshStored
    <3>2. CASE h \in ToSet(queue') /\ gen'["pump"] = Gen("asks", h, 0, 0, FALSE)
      <4>1. h \in Behind /\ h \in Job BY <1>2, <1>3, <3>2 DEF Behind
      <4>2. h \notin hurt /\ Live(h) => row[h] = 0 BY <1>0, <1>2, <4>1 DEF RowsOK, PlacesOK
      <4>3. /\ gen'["pump"].at = "asks" /\ gen'["pump"].job = h
            /\ gen'["pump"].shown = 0 /\ gen'["pump"].pending = 0
        BY <3>2 DEF Gen
      <4> QED BY <1>1, <4>2, <4>3 DEF FreshStored, Live, Stored
    <3> QED BY <1>5, <3>1, <3>2
  <2> QED BY <1>0, <1>1, <2>1, <2>2, <2>3 DEF RowsOK, FreshStored, Live
<1>14. PriorsOK'
  <2>1. ASSUME NEW j \in Job, NEW S, Ahead(j, ToSet(queue) \union S)
        PROVE  \A k \in before'[j] :
                 status'[k] = "over" \/ k = gen'["boot"].job \/ k \in ToSet(queue') \union S
    <3> TAKE k \in before'[j]
    <3>1. k \in before[j] /\ k \in Job BY <1>4
    <3>2. status[k] = "over" \/ k = gen["boot"].job \/ k \in ToSet(queue) \union S
      BY <2>1, <3>1 DEF Ahead
    <3>3. status[k] = "over" => status'[k] = "over" \/ k \in ToSet(queue') BY <1>6, <3>1
    <3>4. k \in ToSet(queue) => k \in ToSet(queue') \/ status[k] = "over" BY <1>2
    <3> QED BY <1>2, <3>2, <3>3, <3>4
  <2>2. Coming' \subseteq Coming /\ Coming \subseteq Job
    <3>1. \A j \in Job : status'[j] = "sending" => status[j] = "sending" BY <1>6
    <3> QED BY <1>3, <1>7, <3>1 DEF Coming, Behind
  <2>3. ASSUME NEW j \in Coming' PROVE Comes(j)'
    <3>1. Comes(j) /\ j \in Job BY <1>0, <1>2, <2>2, <2>3 DEF PriorsOK
    <3>2. \A k \in before'[j] : status'[k] = "over" \/ k = gen'["boot"].job \/ k \in ToSet(queue')
      <4>1. Ahead(j, ToSet(queue) \union {}) BY <3>1 DEF Comes, Ahead
      <4>2. \A k \in before'[j] :
              status'[k] = "over" \/ k = gen'["boot"].job \/ k \in ToSet(queue') \union {}
        BY <2>1, <3>1, <4>1
      <4> QED BY <4>2
    <3>3. before'[j] # {} => j \in chained' BY <1>2, <1>4, <3>1 DEF Comes
    <3>4. before'[j] \intersect ToSet(loaded') = {} BY <1>1, <1>4, <3>1 DEF Comes
    <3> QED BY <3>2, <3>3, <3>4 DEF Comes, Ahead
  <2>4. ASSUME NEW j \in ToSet(loaded) PROVE Ahead(j, ToSet(queue) \union ToSet(loaded))'
    <3>1. Ahead(j, ToSet(queue) \union ToSet(loaded)) /\ j \in Job
      BY <1>0, <1>2, <1>3 DEF PriorsOK
    <3>2. \A k \in before'[j] :
            status'[k] = "over" \/ k = gen'["boot"].job \/ k \in ToSet(queue') \union ToSet(loaded)
      BY <2>1, <3>1
    <3> QED BY <1>1, <3>2 DEF Ahead
  <2>5. BeforeOK'
    <3>1. \A j \in Job : status[j] # "none" => status'[j] # "none" BY <1>6
    <3>2. ASSUME NEW j \in Job, NEW k \in before'[j]
          PROVE  status'[j] # "none" /\ k # j /\ convOf'[k] = convOf'[j] /\ k \in Entered'
      <4>1. k \in before[j] BY <1>4
      <4>2. status[j] # "none" /\ k # j /\ convOf[k] = convOf[j] /\ k \in Entered
        BY <1>0, <4>1 DEF PriorsOK, BeforeOK
      <4> QED BY <1>1, <1>8, <3>1, <4>2
    <3> QED BY <3>2 DEF BeforeOK
  <2> QED BY <1>1, <2>3, <2>4, <2>5 DEF PriorsOK
<1>15. OffFinished
  <2> SUFFICES ASSUME NEW j \in Job, status[j] # "running", status'[j] = "running",
                      NEW k \in before[j]
               PROVE  j \in chained' /\ (status[k] = "over" \/ k = gen["boot"].job)
    BY DEF OffFinished
  <2>1. /\ j = h /\ j \in ToSet(queue') /\ Head(queue') = h
    BY <1>0, <1>5 DEF h
  <2>2. j \in Behind BY <1>2, <2>1 DEF Behind
  <2>3. Comes(j) BY <1>0, <1>2, <2>2 DEF PriorsOK, Coming
  <2>4. j \in chained' BY <1>2, <2>1, <2>3 DEF Comes
  <2>5. k \notin ToSet(queue')
    <3>1. queue' \in Seq(Job) /\ queue' # <<>>
      <4>1. queue \in Seq(Job) /\ queue # <<>> /\ queue' = Tail(queue)
        BY <1>1 DEF QueueInv, TypeOK, ListTypes, Advanced
      <4> QED BY <2>1, <4>1 DEF ToSet
    <3>2. Tidy(queue, before) BY <1>0 DEF ListsOK, AllLists
    <3>3. Tidy(queue', before) BY <1>2, <3>2, SublistTidy
    <3> DEFINE w == queue'
    <3> HIDE DEF w
    <3>4. /\ w \in Seq(Job) /\ w # <<>> /\ Tidy(w, before) /\ Head(w) = j
      BY <2>1, <3>1, <3>3 DEF w
    <3>5. k \notin ToSet(w) BY <1>0, <3>4, FirstOfTidy DEF PriorsOK
    <3> QED BY <3>5 DEF w
  <2>6. k \in ToSet(queue) => status[k] = "over" BY <1>2, <2>5
  <2> QED BY <2>3, <2>4, <2>6 DEF Comes, Ahead
<1> QED BY <1>9, <1>10, <1>11, <1>12, <1>13, <1>14, <1>15 DEF ChatInv

(* What a Stop, or the deletion of a conversation, takes out of the queue. *)
Dropped(S) ==
  /\ S \subseteq Behind /\ queue' \in Seq(Job) /\ Sublist(queue', queue)
  /\ ToSet(queue') = ToSet(queue) \ S
  /\ \A j \in Job : status'[j] = IF j \in S THEN "over" ELSE status[j]
  /\ \/ queue' = queue /\ manifest' = manifest
     \/ manifest' = manifest \union {Waiting(queue')}

LEMMA TearsOut ==
  ASSUME QueueInv, NEW c, TearDown(c)
  PROVE  \E S : Dropped(S)
<1>0. queue \in Seq(Job) /\ status \in [Job -> Status] BY DEF QueueInv, TypeOK, ListTypes, JobTypes
<1>1. CASE UNCHANGED <<status, queue, manifest>>
  <2>1. Dropped({}) BY <1>0, <1>1, SublistSelf DEF Dropped
  <2> QED BY <2>1
<1>2. ASSUME NEW n \in DOMAIN queue, queue[n] \notin Running,
             status' = [status EXCEPT ![queue[n]] = "over"],
             queue' = Without(queue, {queue[n]}), Commit({Waiting(queue')})
      PROVE  \E S : Dropped(S)
  <2> DEFINE x == queue[n]
  <2>1. x \in ToSet(queue) /\ x \in Job /\ x # None BY <1>0, Bounds DEF ToSet
  <2>2. {x} \subseteq Behind BY <1>2, <2>1 DEF Behind, Running
  <2> HIDE DEF x
  <2>3. /\ queue' \in Seq(Job) /\ Sublist(queue', queue) /\ ToSet(queue') = ToSet(queue) \ {x}
    BY <1>0, <1>2, WithoutSet DEF x
  <2>4. \A j \in Job : status'[j] = IF j \in {x} THEN "over" ELSE status[j] BY <1>0, <1>2 DEF x
  <2>5. manifest' = manifest \union {Waiting(queue')} BY <1>2 DEF Commit
  <2>6. Dropped({x}) BY <2>2, <2>3, <2>4, <2>5 DEF Dropped
  <2> QED BY <2>6
<1> QED BY <1>1, <1>2 DEF TearDown

(* A job that waited is dropped, or none is. *)
LEMMA TearChat ==
  ASSUME QueueInv, ChatInv, page = "up", NEW c, TearDown(c),
         UNCHANGED <<page, convOf, chained, loaded, gen, inflight, saved, before, hurt>>,
         convs' \subseteq convs, \A j \in Job : Live(j)' => row'[j] = row[j]
  PROVE  ChatInv'
<1>0. /\ ListsOK /\ PlacesOK /\ WritesOK /\ EntriesOK /\ RowsOK /\ PriorsOK
      /\ queue \in Seq(Job) /\ "pump" \in Activity /\ "boot" \in Activity
  BY DEF ChatInv, QueueInv, TypeOK, ListTypes, Activity
<1>1. PICK S : Dropped(S) BY TearsOut
<1>2. /\ S \subseteq Behind /\ queue' \in Seq(Job) /\ Sublist(queue', queue)
      /\ ToSet(queue') = ToSet(queue) \ S
      /\ \A j \in Job : status'[j] = IF j \in S THEN "over" ELSE status[j]
  BY <1>1 DEF Dropped
<1>3. /\ ToSet(queue) \subseteq Entered /\ ToSet(loaded) \subseteq Entered /\ Entered \subseteq Job
      /\ ToSet(queue) \intersect ToSet(loaded) = {}
  <2>1. \A s \in {queue, loaded} : ToSet(s) \subseteq Entered BY <1>0 DEF ListsOK, AllLists
  <2> QED BY <1>0, <2>1 DEF ListsOK, Entered
<1>4. Behind' = Behind \ S /\ Waiting(queue)' = Waiting(queue') /\ gen["pump"].job \notin S
  BY <1>2 DEF Behind, Waiting, Running
<1>5. Entered \subseteq Entered' BY <1>2 DEF Entered
<1>6. \A j \in Job : Live(j)' => Live(j) BY DEF Live
<1>7. ListsOK'
  <2>1. \A s \in AllLists' : \E t \in AllLists : Sublist(s, t)
    <3>1. Sublist(Waiting(queue'), queue') BY <1>2, WithoutSet DEF Waiting
    <3>2. Sublist(Waiting(queue'), queue) BY <1>2, <3>1, SublistOf
    <3> HIDE DEF Waiting
    <3>3. \A s \in manifest' : s \in manifest \/ s = Waiting(queue') BY <1>1 DEF Dropped
    <3> QED BY <1>2, <3>2, <3>3, SublistSelf DEF AllLists
  <2> QED BY <1>0, <1>2, <1>5, <2>1, ListsKept
<1>8. \A j \in Job \ hurt : j \in S => status[j] = "queued" BY <1>0, <1>2 DEF PlacesOK
<1>9. \A j \in Job \ hurt : status[j] = "running" => status'[j] = "running" BY <1>2, <1>8
<1>10. PlacesOK'
  <2>1. \A j \in Job : status'[j] = "queued" => j \in Behind' \union ToSet(loaded)
    BY <1>0, <1>2, <1>4 DEF PlacesOK
  <2>2. \A j \in Behind' \ hurt : status'[j] = "queued"
    <3>1. Behind \subseteq Job BY <1>3 DEF Behind
    <3> QED BY <1>0, <1>2, <1>4, <3>1 DEF PlacesOK
  <2>3. \A j \in ToSet(loaded) \ hurt : Live(j)' => status'[j] = "queued"
    <3>1. \A j \in ToSet(loaded) : j \notin S /\ j \in Job BY <1>2, <1>3 DEF Behind
    <3> QED BY <1>0, <1>2, <1>6, <3>1 DEF PlacesOK
  <2> QED BY <2>1, <2>2, <2>3 DEF PlacesOK, Live
<1>11. WritesOK'
  <2>1. CASE queue' = queue /\ manifest' = manifest
    <3>1. Waiting(queue)' = Waiting(queue) BY <1>4, <2>1
    <3> HIDE DEF Waiting
    <3>2. CASE Waiting(queue) \in manifest BY <1>0, <2>1, <3>1, <3>2 DEF WritesOK
    <3>3. CASE queue = <<>> /\ loaded # <<>> /\ manifest = {loaded}
      BY <1>0, <2>1, <3>3 DEF WritesOK
    <3>4. CASE queue = <<>> /\ \E m : manifest = {m} /\ \A j \in ToSet(m) : ~Live(j)
      <4>1. PICK m : manifest = {m} /\ \A j \in ToSet(m) : ~Live(j) BY <3>4
      <4>2. \A j \in ToSet(m) : ~(convOf'[j] \in convs') BY <4>1 DEF Live
      <4>3. queue' = <<>> /\ manifest' = {m} /\ page' = "up" BY <2>1, <3>4, <4>1
      <4>4. IsFiniteSet(manifest') BY <4>3, FS_Singleton
      <4> QED BY <4>2, <4>3, <4>4 DEF WritesOK, Live
    <3> QED BY <1>0, <3>2, <3>3, <3>4 DEF WritesOK
  <2>2. CASE manifest' = manifest \union {Waiting(queue')}
    <3> HIDE DEF Waiting
    <3>1. IsFiniteSet(manifest') BY <1>0, <2>2, FS_Singleton, FS_Union DEF WritesOK
    <3> QED BY <1>4, <2>2, <3>1 DEF WritesOK
  <2> QED BY <1>1, <2>1, <2>2 DEF Dropped
<1>12. EntriesOK'
  <2>1. saved # None => saved.job \in Job BY DEF QueueInv, TypeOK, PageTypes, Entry
  <2>2. \A g \in Activity : On(g)' <=> On(g) BY DEF On
  <2>3. saved' # None /\ saved'.job \notin hurt => status'[saved'.job] = "running"
    BY <1>0, <1>9, <2>1 DEF EntriesOK
  <2>4. \A g \in Activity : On(g)' /\ gen'[g].job \notin hurt => status'[gen'[g].job] = "running"
    BY <1>0, <1>9, <2>2, PumpIsQueued DEF EntriesOK, On
  <2>5. gen'["pump"].at = "over" => status'[gen'["pump"].job] = "over"
    BY <1>0, <1>2, <1>4, PumpIsQueued DEF EntriesOK
  <2>6. /\ gen'["boot"].at # "off" /\ gen'["boot"].job \notin hurt
        => gen'["boot"].job \notin ToSet(queue')
    BY <1>0, <1>2 DEF EntriesOK
  <2> QED BY <1>0, <2>2, <2>3, <2>4, <2>5, <2>6 DEF EntriesOK
<1>13. RowsOK'
  <2>1. \A j \in Job : status'[j] \in {"none", "sending", "queued"} => status'[j] = status[j]
    BY <1>2
  <2>2. \A j \in Job \ hurt :
          Live(j)' /\ status'[j] \in {"none", "sending", "queued"} => row'[j] = 0
    BY <1>0, <1>6, <2>1 DEF RowsOK
  <2>3. FreshStored'
    <3>1. FreshStored BY <1>0 DEF RowsOK, FreshStored
    <3>2. gen["pump"].at # "off" => gen["pump"].job \in Job BY <1>0, PumpIsQueued
    <3> QED BY <1>6, <3>1, <3>2 DEF FreshStored, Live, Stored
  <2> QED BY <1>0, <2>2, <2>3 DEF RowsOK, FreshStored, Live
<1>14. PriorsOK'
  <2>1. ASSUME NEW j \in Job, NEW T, Ahead(j, ToSet(queue) \union T)
        PROVE  \A k \in before[j] :
                 status'[k] = "over" \/ k = gen["boot"].job \/ k \in ToSet(queue') \union T
    <3> TAKE k \in before[j]
    <3>1. k \in Job BY DEF QueueInv, TypeOK, JobTypes
    <3>2. status[k] = "over" => status'[k] = "over" BY <1>2, <3>1
    <3>3. k \in ToSet(queue) => k \in ToSet(queue') \/ status'[k] = "over" BY <1>2, <3>1
    <3> QED BY <2>1, <3>2, <3>3 DEF Ahead
  <2>2. Coming' \subseteq Coming /\ Coming \subseteq Job
    <3>1. \A j \in Job : status'[j] = "sending" => status[j] = "sending" BY <1>2
    <3> QED BY <1>3, <1>4, <3>1 DEF Coming, Behind
  <2>3. ASSUME NEW j \in Coming' PROVE Comes(j)'
    <3>1. Comes(j) /\ j \in Job BY <1>0, <2>2, <2>3 DEF PriorsOK
    <3>2. \A k \in before[j] : status'[k] = "over" \/ k = gen["boot"].job \/ k \in ToSet(queue')
      <4>1. Ahead(j, ToSet(queue) \union {}) BY <3>1 DEF Comes, Ahead
      <4>2. \A k \in before[j] :
              status'[k] = "over" \/ k = gen["boot"].job \/ k \in ToSet(queue') \union {}
        BY <2>1, <3>1, <4>1
      <4> QED BY <4>2
    <3> QED BY <3>1, <3>2 DEF Comes, Ahead
  <2>4. ASSUME NEW j \in ToSet(loaded) PROVE Ahead(j, ToSet(queue) \union ToSet(loaded))'
    <3>1. Ahead(j, ToSet(queue) \union ToSet(loaded)) /\ j \in Job
      BY <1>0, <1>3 DEF PriorsOK
    <3>2. \A k \in before[j] :
            status'[k] = "over" \/ k = gen["boot"].job \/ k \in ToSet(queue') \union ToSet(loaded)
      BY <2>1, <3>1
    <3> QED BY <3>2 DEF Ahead
  <2>5. BeforeOK'
    <3>1. \A j \in Job : status[j] # "none" => status'[j] # "none" BY <1>2
    <3> QED BY <1>0, <1>5, <3>1 DEF PriorsOK, BeforeOK
  <2> QED BY <2>3, <2>4, <2>5 DEF PriorsOK
<1> QED BY <1>7, <1>10, <1>11, <1>12, <1>13, <1>14 DEF ChatInv

LEMMA StopDeleteChat ==
  ASSUME QueueInv, ChatInv, NEW c, Stop(c) \/ Delete(c)
  PROVE  ChatInv'
<1>0. /\ page = "up" /\ TearDown(c)
      /\ UNCHANGED <<page, convOf, chained, loaded, gen, inflight, saved, before, hurt>>
  BY DEF Stop, Delete
<1>1. convs' \subseteq convs BY DEF Stop, Delete
<1>2. \A j \in Job : Live(j)' => row'[j] = row[j]
  <2>1. CASE Stop(c) BY <2>1 DEF Stop
  <2>2. CASE Delete(c) BY <2>2 DEF Delete, Live
  <2> QED BY <2>1, <2>2
<1> QED BY <1>0, <1>1, <1>2, TearChat

(* A page that goes leaves one manifest, of what waited, and the saved entry of the job
   that ran; a kill in the middle of a write or of the restoring may lose or bring back
   the jobs it hurts. *)
LEMMA KillChat ==
  ASSUME QueueInv, ChatInv, Kill
  PROVE  ChatInv'
<1> DEFINE waits == {j \in Job : status[j] = "queued"}
<1>0. /\ ListsOK /\ PlacesOK /\ WritesOK /\ EntriesOK /\ RowsOK /\ PriorsOK
      /\ DOMAIN gen = Activity /\ "pump" \in Activity /\ "boot" \in Activity /\ queue \in Seq(Job)
  BY DEF ChatInv, QueueInv, TypeOK, GenTypes, ListTypes, Activity
<1>1. PICK m \in manifest :
        LET astray == IF Cardinality(manifest) = 1 /\ loaded = <<>> THEN {}
                      ELSE SymDiff(waits, ToSet(m))
            Left(j) == CASE status[j] = "sending" -> "over"
                         [] j \in waits \intersect astray -> "over"
                         [] status[j] = "running" /\ (saved = None \/ saved.job # j) -> "over"
                         [] OTHER -> status[j] IN
        /\ manifest' = {m} /\ hurt' = hurt \union astray
        /\ status' = [j \in Job |-> Left(j)]
  BY DEF Kill
<1> DEFINE astray == IF Cardinality(manifest) = 1 /\ loaded = <<>> THEN {}
                     ELSE SymDiff(waits, ToSet(m))
<1>2. manifest' = {m} /\ hurt' = hurt \union astray BY <1>1
<1> DEFINE lost(j) == \/ status[j] = "sending"
                      \/ j \in waits \intersect astray
                      \/ status[j] = "running" /\ (saved = None \/ saved.job # j)
<1>3. \A j \in Job : IF lost(j) THEN status'[j] = "over" ELSE status'[j] = status[j]
  BY <1>1
<1>4. /\ page = "up" /\ page' = "gone" /\ queue' = <<>> /\ loaded' = <<>> /\ inflight' = None
      /\ UNCHANGED <<convOf, convs, saved, before>>
      /\ \A g \in Activity : gen'[g] = Off
  BY <1>0 DEF Kill
<1>5. PICK keep \in 0..MaxTokens :
        row' = [j \in Job |-> IF /\ session # None /\ j = gen[session].job
                                /\ row[j] # Torn /\ keep < row[j]
                             THEN keep ELSE row[j]]
  BY DEF Kill
<1>6. /\ gen'["pump"].at = "off" /\ gen'["boot"].at = "off"
      /\ \A g \in Activity : ~On(g)'
  BY <1>0, <1>4 DEF On, Off, Gen
<1>7. /\ \A j \in ToSet(m) : j \notin astray /\ j \notin hurt /\ Live(j) => j \in waits
      /\ \A j \in waits : j \notin astray => j \in ToSet(m)
  <2>1. CASE ~(Cardinality(manifest) = 1 /\ loaded = <<>>)
    <3>1. astray = SymDiff(waits, ToSet(m)) BY <2>1
    <3> QED BY <3>1 DEF SymDiff
  <2>2. CASE Cardinality(manifest) = 1 /\ loaded = <<>>
    <3>1. manifest = {m} BY <1>0, <2>2, FS_Singleton DEF WritesOK
    <3>2. ToSet(loaded) = {} BY <2>2 DEF ToSet
    <3>3. waits \subseteq Behind BY <1>0, <1>4, <3>2 DEF PlacesOK
    <3>4. CASE Waiting(queue) \in manifest
      <4>1. m = Waiting(queue) BY <3>1, <3>4
      <4>2. ToSet(m) = ToSet(queue) \ Running BY <1>0, <4>1, WithoutSet DEF Waiting
      <4>3. ToSet(queue) \subseteq Job /\ None \notin Job BY <1>0, Bounds DEF ToSet
      <4>4. ToSet(m) = Behind BY <4>2, <4>3 DEF Running, Behind
      <4>5. \A j \in Behind \ hurt : status[j] = "queued" /\ j \in Job
        BY <1>0, <1>4, <4>3 DEF PlacesOK, Behind
      <4> QED BY <3>3, <4>4, <4>5
    <3>5. CASE queue = <<>> /\ \E s : manifest = {s} /\ \A j \in ToSet(s) : ~Live(j)
      <4>1. Behind = {} BY <3>5 DEF Behind, ToSet
      <4>2. \A j \in ToSet(m) : ~Live(j) BY <3>1, <3>5
      <4> QED BY <3>3, <4>1, <4>2
    <3> QED BY <1>0, <1>4, <2>2, <3>4, <3>5 DEF WritesOK
  <2> QED BY <2>1, <2>2
<1> HIDE DEF astray
<1>8. Entered \subseteq Entered' BY <1>3 DEF Entered
<1>9. ToSet(<<>>) = {} /\ Tidy(<<>>, before) BY DEF ToSet, Tidy
<1>10. ListsOK'
  <2>1. Tidy(m, before) /\ ToSet(m) \subseteq Entered BY <1>0 DEF ListsOK, AllLists
  <2>2. AllLists' = {<<>>, m} BY <1>2, <1>4 DEF AllLists
  <2> QED BY <1>4, <1>8, <1>9, <2>1, <2>2 DEF ListsOK
<1>11. PlacesOK'
  <2>1. \A j \in Job : status'[j] = "queued" => j \in ToSet(m) BY <1>3, <1>7
  <2>2. ASSUME NEW j \in ToSet(m) \ hurt', Live(j) PROVE status'[j] = "queued"
    <3>1. j \in waits /\ j \notin astray BY <1>2, <1>7, <2>2
    <3> QED BY <1>3, <3>1
  <2> QED BY <1>2, <1>4, <2>1, <2>2 DEF PlacesOK, Live
<1>12. WritesOK'
  <2>1. IsFiniteSet(manifest') BY <1>2, FS_Singleton
  <2> QED BY <1>2, <1>4, <2>1 DEF WritesOK
<1>13. EntriesOK'
  <2>1. saved' # None /\ saved'.job \notin hurt' => status'[saved'.job] = "running"
    <3>1. SUFFICES ASSUME saved # None, saved.job \notin hurt PROVE status'[saved.job] = "running"
      BY <1>2, <1>4
    <3>2. saved.job \in Job BY <3>1 DEF QueueInv, TypeOK, PageTypes, Entry
    <3>3. status[saved.job] = "running" BY <1>0, <3>1 DEF EntriesOK
    <3> QED BY <1>3, <3>1, <3>2, <3>3
  <2>2. \A j \in Job : status'[j] = "running" => saved = None \/ saved.job = j BY <1>3
  <2> QED BY <1>4, <1>6, <2>1, <2>2 DEF EntriesOK
<1>14. RowsOK'
  <2>1. ASSUME NEW j \in Job \ hurt', Live(j), status'[j] \in {"none", "sending", "queued"}
        PROVE  row'[j] = 0
    <3>1. row[j] = 0 BY <1>0, <1>2, <1>3, <2>1 DEF RowsOK
    <3>2. ~(keep < 0) OBVIOUS
    <3> QED BY <1>5, <3>1, <3>2
  <2> QED BY <1>4, <1>6, <2>1 DEF RowsOK, FreshStored, Live
<1>15. PriorsOK'
  <2>1. \A j \in Job : status[j] # "none" => status'[j] # "none" BY <1>3
  <2>2. BeforeOK' BY <1>0, <1>4, <1>8, <2>1 DEF PriorsOK, BeforeOK
  <2> QED BY <1>4, <2>2 DEF PriorsOK
<1> QED BY <1>10, <1>11, <1>12, <1>13, <1>14, <1>15 DEF ChatInv

(* The next page finds what the last one left. *)
LEMMA BootChat ==
  ASSUME QueueInv, ChatInv, Boot
  PROVE  ChatInv'
<1>0. /\ ListsOK /\ PlacesOK /\ WritesOK /\ EntriesOK /\ RowsOK /\ PriorsOK /\ GenTypes
      /\ "pump" \in Activity /\ "boot" \in Activity /\ status \in [Job -> Status]
  BY DEF ChatInv, QueueInv, TypeOK, JobTypes, Activity
<1>1. /\ page = "gone" /\ page' = "up" /\ queue = <<>> /\ queue' = <<>>
      /\ UNCHANGED <<convOf, queue, chained, convs, row, manifest, before, hurt>>
      /\ \A g \in Activity : gen[g].at = "off"
      /\ \A j \in Job : status[j] # "sending"
  BY DEF Boot, QueueInv, GoneIsEmpty
<1>2. PICK m : m \in manifest /\ loaded' = m BY DEF Boot
<1>3. manifest = {m} BY <1>0, <1>1, <1>2 DEF WritesOK
<1>4. ToSet(<<>>) = {} /\ Tidy(<<>>, before) BY DEF ToSet, Tidy
<1>5. /\ gen'["pump"] = gen["pump"] /\ gen'["pump"].at = "off"
      /\ \/ /\ saved # None /\ status' = status /\ saved' = saved /\ inflight' = saved
            /\ gen'["boot"] = Gen("asks", saved.job, saved.upto, 0, TRUE)
         \/ /\ saved' = None /\ inflight' = None /\ gen'["boot"] = gen["boot"]
            /\ status' = [j \in Job |-> IF status[j] = "running" THEN "over" ELSE status[j]]
  <2>1. inflight = None BY <1>0, <1>1 DEF EntriesOK, On
  <2>2. CASE /\ saved # None /\ Resumed("boot", saved) /\ inflight' = saved
             /\ UNCHANGED <<status, saved>>
    <3>1. gen' = [gen EXCEPT !["boot"] = Gen("asks", saved.job, saved.upto, 0, TRUE)]
      BY <2>2 DEF Resumed
    <3>2. /\ gen'["boot"] = Gen("asks", saved.job, saved.upto, 0, TRUE)
          /\ gen'["pump"] = gen["pump"]
      BY <1>0, <3>1 DEF GenTypes
    <3> QED BY <1>0, <1>1, <2>2, <3>2
  <2>3. CASE /\ saved' = None /\ UNCHANGED <<gen, inflight>>
             /\ status' = [j \in Job |-> IF status[j] = "running" THEN "over" ELSE status[j]]
    BY <1>0, <1>1, <2>1, <2>3
  <2> QED BY <2>2, <2>3 DEF Boot
<1>6. \A j \in Job : \/ status'[j] = status[j]
                     \/ status[j] = "running" /\ status'[j] = "over"
  BY <1>5
<1>7. Entered \subseteq Entered' BY <1>6 DEF Entered
<1>8. Tidy(m, before) /\ ToSet(m) \subseteq Entered BY <1>0, <1>2 DEF ListsOK, AllLists
<1>9. Entered \subseteq Job /\ Behind' = {} BY <1>1, <1>4 DEF Entered, Behind
<1>10. ListsOK'
  <2>1. AllLists' = {<<>>, m} BY <1>1, <1>2, <1>3 DEF AllLists
  <2> QED BY <1>1, <1>4, <1>7, <1>8, <2>1 DEF ListsOK
<1>11. PlacesOK'
  <2>1. \A j \in Job : status'[j] = "queued" => j \in ToSet(m)
    BY <1>0, <1>1, <1>2, <1>6 DEF PlacesOK
  <2>2. ASSUME NEW j \in ToSet(m) \ hurt, Live(j) PROVE status'[j] = "queued"
    <3>1. status[j] = "queued" /\ j \in Job BY <1>0, <1>1, <1>2, <1>8, <1>9, <2>2 DEF PlacesOK
    <3> QED BY <1>6, <3>1
  <2> QED BY <1>1, <1>2, <1>9, <2>1, <2>2 DEF PlacesOK, Live
<1>12. WritesOK'
  <2>1. Waiting(queue)' = <<>> BY <1>1, WithoutNothing DEF Waiting
  <2>2. CASE m = <<>> BY <1>0, <1>1, <1>3, <2>1, <2>2 DEF WritesOK
  <2>3. CASE m # <<>> BY <1>0, <1>1, <1>2, <1>3, <2>3 DEF WritesOK
  <2> QED BY <2>2, <2>3
<1>13. EntriesOK'
  <2>1. CASE /\ saved # None /\ status' = status /\ saved' = saved /\ inflight' = saved
             /\ gen'["boot"] = Gen("asks", saved.job, saved.upto, 0, TRUE)
    <3>1. gen'["boot"].at = "asks" /\ gen'["boot"].job = saved.job /\ On("boot")' /\ ~On("pump")'
      BY <1>5, <2>1 DEF Gen, On
    <3>2. saved.job \notin hurt => status[saved.job] = "running" BY <1>0, <2>1 DEF EntriesOK
    <3>3. \A g \in Activity : On(g)' => g = "boot" BY <3>1 DEF Activity
    <3>4. inflight' # None => \E g \in Activity : On(g)' /\ inflight'.job = gen'[g].job
      BY <1>0, <2>1, <3>1
    <3> QED BY <1>1, <1>4, <1>5, <2>1, <3>1, <3>2, <3>3, <3>4 DEF EntriesOK
  <2>2. CASE saved' = None /\ inflight' = None /\ gen'["boot"] = gen["boot"]
    <3>1. gen'["boot"].at = "off" /\ \A g \in Activity : ~On(g)'
      BY <1>0, <1>1, <1>5, <2>2 DEF On, Activity
    <3> QED BY <1>1, <1>5, <2>2, <3>1 DEF EntriesOK
  <2> QED BY <1>5, <2>1, <2>2
<1>14. RowsOK'
  <2>1. \A j \in Job : status'[j] \in {"none", "sending", "queued"} => status'[j] = status[j]
    BY <1>6
  <2>2. gen'["boot"].at # "off" => gen'["boot"].resumes BY <1>0, <1>1, <1>5 DEF Gen
  <2> QED BY <1>0, <1>1, <1>5, <2>1, <2>2 DEF RowsOK, FreshStored, Live
<1>15. PriorsOK'
  <2>1. \A j \in Job : status[j] # "none" => status'[j] # "none" BY <1>6
  <2>2. BeforeOK' BY <1>0, <1>1, <1>7, <2>1 DEF PriorsOK, BeforeOK
  <2>3. Coming' = {} BY <1>1, <1>6, <1>9 DEF Coming
  <2>4. ASSUME NEW j \in ToSet(m), NEW k \in before[j]
        PROVE  status'[k] = "over" \/ k = gen'["boot"].job \/ k \in ToSet(m)
    <3>1. k \in Entered /\ k \in Job BY <1>0, <1>8, <1>9 DEF PriorsOK, BeforeOK
    <3>2. CASE status[k] = "over" BY <1>6, <3>1, <3>2
    <3>3. CASE status[k] = "queued" BY <1>0, <1>1, <1>2, <3>1, <3>3 DEF PlacesOK
    <3>4. CASE status[k] = "running"
      <4>1. saved = None \/ saved.job = k BY <1>0, <1>1, <3>1, <3>4 DEF EntriesOK
      <4> QED BY <1>5, <3>1, <3>4, <4>1 DEF Gen
    <3> QED BY <1>0, <3>1, <3>2, <3>3, <3>4 DEF Entered, Status
  <2>5. \A j \in ToSet(loaded') : Ahead(j, ToSet(queue) \union ToSet(loaded))'
    BY <1>1, <1>2, <2>4 DEF Ahead
  <2> QED BY <2>2, <2>3, <2>5 DEF PriorsOK
<1> QED BY <1>10, <1>11, <1>12, <1>13, <1>14, <1>15 DEF ChatInv

LEMMA ChatInit == Init => ChatInv
<1> SUFFICES ASSUME Init PROVE ChatInv OBVIOUS
<1>1. /\ page = "up" /\ status = [j \in Job |-> "none"] /\ queue = <<>> /\ loaded = <<>>
      /\ \A g \in Activity : gen[g] = Off
      /\ inflight = None /\ saved = None /\ manifest = {<<>>} /\ row = [j \in Job |-> 0]
      /\ before = [j \in Job |-> {}]
  BY DEF Init, Activity
<1>2. /\ \A g \in Activity : ~On(g) /\ gen[g].at = "off"
      /\ "pump" \in Activity /\ "boot" \in Activity
  BY <1>1 DEF On, Off, Gen, Activity
<1>3. ToSet(<<>>) = {} /\ Tidy(<<>>, before) BY DEF ToSet, Tidy
<1>4. Waiting(queue) = <<>> BY <1>1, WithoutNothing DEF Waiting
<1>5. ListsOK BY <1>1, <1>3 DEF ListsOK, AllLists
<1>6. PlacesOK BY <1>1, <1>3 DEF PlacesOK, Behind
<1>7. WritesOK BY <1>1, <1>4, FS_Singleton DEF WritesOK
<1>8. EntriesOK BY <1>1, <1>2 DEF EntriesOK
<1>9. RowsOK BY <1>1, <1>2 DEF RowsOK, FreshStored
<1>10. PriorsOK BY <1>1, <1>3 DEF PriorsOK, BeforeOK, Coming, Behind
<1> QED BY <1>5, <1>6, <1>7, <1>8, <1>9, <1>10 DEF ChatInv

LEMMA ChatStutters == ASSUME ChatInv, UNCHANGED vars PROVE ChatInv'
<1> USE DEF vars, shared, stored, history, ChatInv
<1>1. Behind' = Behind /\ Entered' = Entered /\ AllLists' = AllLists /\ Coming' = Coming
  BY DEF Behind, Entered, AllLists, Coming
<1>2. ListsOK' BY <1>1 DEF ListsOK
<1>3. PlacesOK' BY <1>1 DEF PlacesOK, Live
<1>4. WritesOK'
  <2>1. Waiting(queue)' = Waiting(queue) BY DEF Waiting, Running
  <2> QED BY <2>1 DEF WritesOK, Live
<1>5. EntriesOK' BY DEF EntriesOK, On
<1>6. RowsOK' BY DEF RowsOK, FreshStored, Live, Stored
<1>7. PriorsOK' BY <1>1 DEF PriorsOK, BeforeOK, Comes, Ahead
<1> QED BY <1>2, <1>3, <1>4, <1>5, <1>6, <1>7

LEMMA ChatStep == ASSUME QueueInv, SteppingHolds, ChatInv, Next PROVE ChatInv'
<1> USE DEF Next, Works, Generates
<1> "pump" \in Activity /\ "boot" \in Activity BY DEF Activity
<1>1. CASE AcquireFresh \/ Hangs \/ Recover \/ AcquireResumed("pump") \/ AcquireResumed("boot")
  BY <1>1, SessionChat
<1>2. CASE PumpAdvance BY <1>2, AdvanceChat
<1>3. ASSUME NEW g \in Activity, Emit(g) \/ StepDone(g) \/ Fails(g) \/ Finish(g) PROVE ChatInv'
  BY <1>3, LoopChat
<1>4. ASSUME NEW g \in Activity, Bail(g) \/ Ends(g) PROVE ChatInv' BY <1>4, OverChat
<1>5. ASSUME NEW j \in Job, SendBegin(j) \/ SendFails(j) PROVE ChatInv' BY <1>5, SendChat
<1>6. ASSUME NEW j \in Job, Enqueue(j) PROVE ChatInv' BY <1>6, EnqueueChat
<1>7. ASSUME NEW c \in Conv, Stop(c) \/ Delete(c) PROVE ChatInv' BY <1>7, StopDeleteChat
<1>8. CASE Hide \/ Written \/ SiblingEnds BY <1>8, StorageChat
<1>9. CASE Kill BY <1>9, KillChat
<1>10. CASE Boot BY <1>10, BootChat
<1>11. CASE Restore BY <1>11, RestoreChat
<1> QED BY <1>1, <1>2, <1>3, <1>4, <1>5, <1>6, <1>7, <1>8, <1>9, <1>10, <1>11

(* No other step starts a job. *)
LEMMA StartsOff == ASSUME QueueInv, ChatInv, Next PROVE OffFinished
<1> USE DEF Next, Works, Generates, shared, stored, history
<1> "pump" \in Activity /\ "boot" \in Activity BY DEF Activity
<1>0. status \in [Job -> Status] BY DEF QueueInv, TypeOK, JobTypes
<1>1. CASE \A j \in Job : status'[j] = status[j] \/ status'[j] \in {"over", "sending"}
  BY <1>1, NoneStarts
<1>2. CASE \E g \in Activity :
             AcquireResumed(g) \/ Emit(g) \/ StepDone(g) \/ Fails(g) \/ Finish(g)
  <2>1. status' = status
    BY <1>2 DEF AcquireResumed, Emit, StepDone, Fails, Finish
  <2> QED BY <1>1, <2>1
<1>3. ASSUME NEW g \in Activity, Bail(g) \/ Ends(g) PROVE OffFinished
  <2>1. status' = [status EXCEPT ![gen[g].job] = "over"] BY <1>3 DEF Bail, Ends
  <2>2. \A j \in Job : status'[j] = status[j] \/ status'[j] = "over" BY <1>0, <2>1
  <2> QED BY <1>1, <2>2
<1>4. CASE AcquireFresh \/ Hangs \/ Recover \/ Hide \/ Written \/ SiblingEnds
  <2>1. status' = status BY <1>4 DEF AcquireFresh, Hangs, Recover, Hide, Written, SiblingEnds
  <2> QED BY <1>1, <2>1
<1>5. ASSUME NEW j \in Job, SendBegin(j) \/ SendFails(j) PROVE OffFinished
  <2>1. \A i \in Job : status'[i] = status[i] \/ status'[i] \in {"over", "sending"}
    BY <1>0, <1>5 DEF SendBegin, SendFails
  <2> QED BY <1>1, <2>1
<1>6. ASSUME NEW c \in Conv, Stop(c) \/ Delete(c) PROVE OffFinished
  <2>1. TearDown(c) BY <1>6 DEF Stop, Delete
  <2>2. \A i \in Job : status'[i] = status[i] \/ status'[i] = "over"
    BY <2>1, TearsOut DEF Dropped
  <2> QED BY <1>1, <2>2
<1>7. CASE Kill
  <2>1. \A i \in Job : status'[i] = status[i] \/ status'[i] = "over" BY <1>7 DEF Kill
  <2> QED BY <1>1, <2>1
<1>8. CASE Boot
  <2>1. \A i \in Job : status'[i] = status[i] \/ status'[i] = "over" BY <1>8 DEF Boot
  <2> QED BY <1>1, <2>1
<1>9. CASE PumpAdvance BY <1>9, AdvanceChat
<1>10. ASSUME NEW j \in Job, Enqueue(j) PROVE OffFinished BY <1>10, EnqueueChat
<1>11. CASE Restore BY <1>11, RestoreChat
<1> QED BY <1>2, <1>3, <1>4, <1>5, <1>6, <1>7, <1>8, <1>9, <1>10, <1>11

LEMMA ChatSafe == Spec => []ChatInv
<1>1. ASSUME QueueInv, PageInv, ChatInv, [Next]_vars PROVE ChatInv'
  <2>1. SteppingHolds BY <1>1 DEF PageInv
  <2> QED BY <1>1, <2>1, ChatStep, ChatStutters
<1> QED BY <1>1, ChatInit, QueueSafe, PageSafe, PTL DEF Spec

(* runJob and flushTokens (useChatEngine.ts): a reply that was generated in one go and
   ended by itself or by a Stop is in the database as it was shown. *)
THEOREM AnswerIsStored == Spec => []AnswerStored
<1>1. ASSUME QueueInv, ChatInv, NEW g \in {"pump", "boot"},
             gen[g].at \in {"done", "halted"}, ~gen[g].resumes, gen[g].job \notin hurt,
             convOf[gen[g].job] \in convs
      PROVE  row[gen[g].job] = gen[g].shown
  <2>1. RowsOK BY <1>1 DEF ChatInv
  <2>2. g = "pump" BY <1>1, <2>1 DEF RowsOK
  <2> QED BY <1>1, <2>1, <2>2 DEF RowsOK, FreshStored, Stored, Live
<1>2. QueueInv /\ ChatInv => AnswerStored BY <1>1 DEF AnswerStored
<1> QED BY <1>2, ChatSafe, QueueSafe, PTL

(* lib/queue_store.ts: "a page reload re-runs everything that was waiting": a job waits
   exactly while it is in the queue, read back, or in the manifest of a page that went. *)
THEOREM QueuedWorkIsKept == Spec => []QueuedWorkSurvives
<1>1. ASSUME QueueInv, ChatInv, NEW j \in Job \ hurt, Live(j)
      PROVE  status[j] = "queued" <=> j \in Held
  <2>1. /\ PlacesOK /\ WritesOK /\ queue \in Seq(Job) /\ page \in {"up", "gone"}
    BY <1>1 DEF ChatInv, QueueInv, TypeOK, ListTypes, JobTypes
  <2>2. CASE page = "up"
    <3>1. ToSet(Waiting(queue)) = ToSet(queue) \ Running BY <2>1, WithoutSet DEF Waiting
    <3>2. j # None BY Bounds
    <3>3. j \in ToSet(Waiting(queue)) <=> j \in Behind BY <3>1, <3>2 DEF Behind, Running
    <3>4. page # "gone" BY <2>2
    <3> QED BY <1>1, <2>1, <2>2, <3>3, <3>4 DEF PlacesOK, Held
  <2>3. CASE page = "gone"
    <3>1. PICK m : manifest = {m} BY <2>1, <2>3 DEF WritesOK
    <3>2. Held = ToSet(m) BY <2>3, <3>1 DEF Held
    <3> QED BY <1>1, <2>1, <2>3, <3>1, <3>2 DEF PlacesOK
  <2> QED BY <2>1, <2>2, <2>3
<1>2. QueueInv /\ ChatInv => QueuedWorkSurvives BY <1>1 DEF QueuedWorkSurvives, Live
<1> QED BY <1>2, ChatSafe, QueueSafe, PTL

(* kickPump and the priors of runJob (useChatEngine.ts): a job that was sent behind others
   of its conversation starts when they are over, and takes its priors from the database. *)
THEOREM PriorsAreFinished == Spec => ChainsOffFinished
<1>1. QueueInv /\ ChatInv /\ [Next]_vars =>
        [\A j \in Job : status[j] # "running" /\ status'[j] = "running" =>
           \A k \in before[j] : j \in chained' /\ (status[k] = "over" \/ k = gen["boot"].job)]_vars
  BY StartsOff DEF OffFinished
<1> QED BY <1>1, ChatSafe, QueueSafe, PTL DEF Spec, ChainsOffFinished
================================================================================
