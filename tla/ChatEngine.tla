------------------------------- MODULE ChatEngine -------------------------------
(***************************************************************************)
(* The chat of one browser tab (hooks/useChatEngine.ts, lib/queue_store.ts):*)
(* the queue of generations and the pump that runs them one at a time, the *)
(* generation interrupted by a reload and resumed by the next page, the    *)
(* recovery of one whose worker hangs, and what survives the page: the     *)
(* queue's manifest, INFLIGHT_KEY and the rows of the database.            *)
(* Everything the page does between two awaits is one step.                *)
(***************************************************************************)
EXTENDS SequencesExt, FiniteSetsExt, Integers, Lists

CONSTANTS Job, Conv,      (* messages and conversations                        *)
          Chats,          (* the conversations the messages may be sent to     *)
          MaxTokens,      (* bound: pieces of a reply                          *)
          MaxKills,       (* bound: times the page is killed                   *)
          None, Torn

ASSUME Jobs   == Chats \subseteq [Job -> Conv]
ASSUME Bounds == /\ MaxTokens \in Nat /\ MaxKills \in Nat /\ Torn \notin Nat
                 /\ None \notin Job \union {"pump", "boot"} \union [job : Job, upto : Nat]

VARIABLES page,           (* "up", from modelStatus = ready on, or "gone"      *)
          kills,          (* times the page was killed                         *)
          convOf,         (* the conversation of each message                  *)
          status,         (* what became of each message                       *)
          queue,          (* queueRef: the running job first, then the waiting *)
          chained,        (* jobs whose priors come from the database          *)
          loaded,         (* jobs read from the manifest, not in queue yet     *)
          gen,            (* two activities that generate: the pump, and the
                             resume at boot, which is not in the queue         *)
          session,        (* who holds the session                             *)
          cancel, inflight, active,   (* cancelRef, inflightRef, genActive     *)
          convs,          (* the database: the conversations and of each reply *)
          row,            (* the text, as the length of the prefix it is, or
                             Torn when pieces are missing or doubled           *)
          manifest,       (* what the manifest may hold: persistQueue is not
                             awaited, so every write under way counts          *)
          saved,          (* localStorage[INFLIGHT_KEY], of all tabs           *)
          before,         (* history: jobs of its conversation queued when
                             each job was sent                                 *)
          stops,          (* history: the job the user stopped, since
                             cancelRef was last reset                          *)
          hurt            (* history: jobs a kill during a write, or while the
                             queue was being restored, lost or brought back    *)

shared  == <<cancel, inflight, active, session>>
stored  == <<convs, row, manifest, saved>>
history == <<before, stops, hurt>>
vars == <<page, kills, convOf, status, queue, chained, loaded, gen, shared, stored, history>>

Gen(at, job, shown, pending, resumes) ==
  [at |-> at, job |-> job, shown |-> shown, pending |-> pending, resumes |-> resumes]
Off == Gen("off", None, 0, 0, FALSE)

Init ==
  /\ page = "up" /\ kills = 0 /\ convOf \in Chats /\ status = [j \in Job |-> "none"]
  /\ queue = <<>> /\ chained = {} /\ loaded = <<>>
  /\ gen = [g \in {"pump", "boot"} |-> Off] /\ session = None
  /\ cancel = FALSE /\ inflight = None /\ active = FALSE
  /\ convs = {convOf[j] : j \in Job} /\ row = [j \in Job |-> 0] /\ manifest = {<<>>} /\ saved = None
  /\ before = [j \in Job |-> {}] /\ stops = None /\ hurt = {}

Running == {gen["pump"].job} \ {None}
Waiting(q) == Without(q, Running)
Of(c) == {j \in ToSet(queue) : convOf[j] = c}

\* commitQueue starts a write of the waiting jobs, once for each list in qs.
Commit(qs) == manifest' = manifest \union qs

--------------------------------------------------------------------------------
(* The pump *)

\* Mutant: cancelRef is not reset when a job starts.
Start_KeepsCancel(j) ==
  /\ gen' = [gen EXCEPT !["pump"] = Gen("asks", j, 0, 0, FALSE)]
  /\ active' = TRUE /\ UNCHANGED cancel /\ stops' = None

\* The pump takes the first job that waits; runJob resets cancelRef, reads the
\* prior turns and asks for the session.
Start(j) ==
  /\ gen' = [gen EXCEPT !["pump"] = Gen("asks", j, 0, 0, FALSE)]
  /\ active' = TRUE /\ cancel' = FALSE /\ stops' = None

\* kickPump with the queue q: an idle pump starts its first job at once.
Kick(q, st) ==
  /\ queue' = q
  /\ \/ /\ gen["pump"].at # "off" /\ status' = st /\ Commit({Waiting(q)})
        /\ UNCHANGED <<gen, active, cancel, stops>>
     \/ /\ gen["pump"].at = "off"
        /\ status' = [st EXCEPT ![Head(q)] = "running"] /\ Commit({q, Tail(q)})
        /\ Start(Head(q))

Leaves(j) == chained' = chained \ {j} /\ before' = [before EXCEPT ![j] = {}]

\* Mutant: the pump ends with the job it was started for.
PumpAdvance_Once ==
  /\ gen["pump"].at = "over"
  /\ queue' = Without(queue, {gen["pump"].job})
  /\ Commit({queue'})
  /\ active' = FALSE /\ gen' = [gen EXCEPT !["pump"] = Off]
  /\ Leaves(gen["pump"].job)
  /\ UNCHANGED <<page, kills, convOf, status, loaded, session, cancel, inflight,
                 convs, row, saved, stops, hurt>>

\* runJob has returned, or thrown: the job leaves the queue and the next one starts.
PumpAdvance ==
  /\ gen["pump"].at = "over"
  /\ queue' = Without(queue, {gen["pump"].job})
  /\ \/ /\ queue' = <<>> /\ Commit({<<>>})
        /\ gen' = [gen EXCEPT !["pump"] = Off] /\ active' = FALSE
        /\ UNCHANGED <<status, cancel, stops>>
     \/ /\ queue' # <<>> /\ Commit({queue', Tail(queue')})
        /\ status' = [status EXCEPT ![Head(queue')] = "running"]
        /\ Start(Head(queue'))
  /\ Leaves(gen["pump"].job)
  /\ UNCHANGED <<page, kills, convOf, loaded, session, inflight, convs, row, saved, hurt>>

--------------------------------------------------------------------------------
(* A generation, the pump's or the one resumed at boot *)

Goes(g, at) == gen' = [gen EXCEPT ![g].at = at]
Shows(g, at, n, p) == gen' = [gen EXCEPT ![g] = Gen(at, @.job, n, p, @.resumes)]

\* The session is granted in the order it was asked for, and the page asks for the
\* generation it resumes first.
MayAcquire(g) ==
  /\ gen[g].at = "asks" /\ session = None
  /\ g = "pump" => gen["boot"].at # "asks"

\* A new generation is tracked from here on.
AcquireFresh ==
  LET j == gen["pump"].job IN
  /\ MayAcquire("pump") /\ ~gen["pump"].resumes
  /\ session' = "pump" /\ inflight' = [job |-> j, upto |-> 0]
  /\ Goes("pump", "loop")
  /\ UNCHANGED <<page, kills, convOf, status, queue, chained, loaded, cancel, active, stored, history>>

StillOurs(g) == saved # None /\ saved.job = gen[g].job

AcquireResumed(g) ==
  /\ MayAcquire(g) /\ gen[g].resumes /\ StillOurs(g)
  /\ session' = g /\ Goes(g, "loop")
  /\ UNCHANGED <<page, kills, convOf, status, queue, chained, loaded, cancel, inflight, active, stored, history>>

\* Another tab has cleared the entry: the resume gives up, the session goes back.
Bail(g) ==
  /\ MayAcquire(g) /\ gen[g].resumes /\ ~StillOurs(g)
  /\ inflight' = None
  /\ status' = [status EXCEPT ![gen[g].job] = "over"]
  /\ IF g = "pump" THEN Goes(g, "over") /\ UNCHANGED active
                   ELSE gen' = [gen EXCEPT ![g] = Off] /\ active' = FALSE
  /\ UNCHANGED <<page, kills, convOf, queue, chained, loaded, session, cancel, stored, history>>

\* msgAppend: the pieces first..last behind what the row holds, if it still exists.
Appended(g, first, last) ==
  LET j == gen[g].job IN
  IF convOf[j] \notin convs \/ first > last THEN row
  ELSE [row EXCEPT ![j] = IF @ = first - 1 THEN last ELSE Torn]

\* The next piece is shown; with some of them what is pending is flushed to the row.
Emit(g) ==
  LET n == gen[g].shown + 1 IN
  /\ gen[g].at = "loop" /\ ~cancel /\ n <= MaxTokens
  /\ \/ /\ row' = Appended(g, n - gen[g].pending, n)
        /\ Shows(g, "step", n, 0)
     \/ Shows(g, "step", n, gen[g].pending + 1) /\ UNCHANGED row
  /\ UNCHANGED <<page, kills, convOf, status, queue, chained, loaded, shared, convs, manifest, saved, history>>

StepDone(g) ==
  /\ gen[g].at = "step" /\ Goes(g, "loop")
  /\ inflight' = [inflight EXCEPT !.upto = gen[g].shown]
  /\ UNCHANGED <<page, kills, convOf, status, queue, chained, loaded, session, cancel, active, stored, history>>

\* Any call to the core may throw; what is pending is not flushed then.
Fails(g) ==
  /\ gen[g].at \in {"loop", "step"} /\ Goes(g, "failed")
  /\ UNCHANGED <<page, kills, convOf, status, queue, chained, loaded, shared, stored, history>>

Flushed(g) == Appended(g, gen[g].shown - gen[g].pending + 1, gen[g].shown)

\* Mutant: a cancelled reply ends with what was flushed so far.
Finish_CancelDrops(g) ==
  /\ gen[g].at = "loop"
  /\ Goes(g, IF cancel THEN "halted" ELSE "done")
  /\ row' = IF cancel THEN row ELSE Flushed(g)
  /\ UNCHANGED <<page, kills, convOf, status, queue, chained, loaded, shared, convs, manifest, saved, history>>

\* The end of the reply, the budget or a cancel: what is pending is flushed.
Finish(g) ==
  /\ gen[g].at = "loop"
  /\ Goes(g, IF cancel THEN "halted" ELSE "done")
  /\ row' = Flushed(g)
  /\ UNCHANGED <<page, kills, convOf, status, queue, chained, loaded, shared, convs, manifest, saved, history>>

Ended == {"done", "halted", "failed"}

\* The finally block of runJob and of the resume.  The end of the resumed generation
\* clears genActive, whether or not the pump is at work.
Ends(g) ==
  /\ gen[g].at \in Ended
  /\ status' = [status EXCEPT ![gen[g].job] = "over"]
  /\ inflight' = None /\ saved' = None /\ session' = None
  /\ IF g = "pump" THEN Goes(g, "over") /\ UNCHANGED active
                   ELSE gen' = [gen EXCEPT ![g] = Off] /\ active' = FALSE
  /\ UNCHANGED <<page, kills, convOf, queue, chained, loaded, cancel, convs, row, manifest, history>>

\* A step times out: the pump's job saves its entry and gives the session back; what
\* is pending is lost.
Hangs ==
  /\ gen["pump"].at = "step" /\ ~gen["pump"].resumes
  /\ Shows("pump", "hung", gen["pump"].shown, 0)
  /\ saved' = inflight /\ session' = None
  /\ UNCHANGED <<page, kills, convOf, status, queue, chained, loaded, cancel, inflight, active,
                 convs, row, manifest, history>>

Resumed(g, m) ==
  gen' = [gen EXCEPT ![g] = Gen("asks", m.job, m.upto, 0, TRUE)]

\* Mutant: the recovery goes on without asking for the session again.
Recover_Unasked ==
  /\ gen["pump"].at = "hung"
  /\ gen' = [gen EXCEPT !["pump"] = Gen("loop", @.job, inflight.upto, 0, TRUE)]
  /\ cancel' = FALSE /\ stops' = None
  /\ UNCHANGED <<page, kills, convOf, status, queue, chained, loaded, session, inflight, active,
                 stored, before, hurt>>

\* The recovery is a resume in the pump; a Stop that came since the hang is forgotten.
Recover ==
  /\ gen["pump"].at = "hung"
  /\ Resumed("pump", inflight) /\ cancel' = FALSE /\ stops' = None
  /\ UNCHANGED <<page, kills, convOf, status, queue, chained, loaded, session, inflight, active,
                 stored, before, hurt>>

--------------------------------------------------------------------------------
(* The user *)

\* Mutant: the priors are always those on screen.
SendBegin_Snapshot(j) ==
  /\ page = "up" /\ status[j] = "none" /\ convOf[j] \in convs
  /\ status' = [status EXCEPT ![j] = "sending"]
  /\ before' = [before EXCEPT ![j] = Of(convOf[j])]
  /\ UNCHANGED <<page, kills, convOf, queue, chained, loaded, gen, shared, stored, stops, hurt>>

\* onSend up to its rows in the database: it notes whether the conversation has a job.
SendBegin(j) ==
  /\ page = "up" /\ status[j] = "none" /\ convOf[j] \in convs
  /\ status' = [status EXCEPT ![j] = "sending"]
  /\ before' = [before EXCEPT ![j] = Of(convOf[j])]
  /\ chained' = IF Of(convOf[j]) # {} THEN chained \union {j} ELSE chained
  /\ UNCHANGED <<page, kills, convOf, queue, loaded, gen, shared, stored, stops, hurt>>

SendFails(j) ==
  /\ status[j] = "sending" /\ status' = [status EXCEPT ![j] = "over"]
  /\ UNCHANGED <<page, kills, convOf, queue, chained, loaded, gen, shared, stored, history>>

Enqueue(j) ==
  /\ status[j] = "sending"
  /\ Kick(Append(queue, j), [status EXCEPT ![j] = "queued"])
  /\ UNCHANGED <<page, kills, convOf, chained, loaded, session, inflight, convs, row, saved,
                 before, hurt>>

\* Mutant: a job that is dropped stays in the manifest.
TearDown_Unsaved(c) ==
  \/ /\ Of(c) = {} /\ UNCHANGED <<status, queue, cancel, manifest, stops>>
  \/ \E n \in DOMAIN queue :
       /\ convOf[queue[n]] = c /\ \A m \in 1..(n - 1) : convOf[queue[m]] # c
       /\ UNCHANGED manifest
       /\ \/ /\ queue[n] \in Running
             /\ cancel' = TRUE /\ stops' = queue[n]
             /\ UNCHANGED <<status, queue>>
          \/ /\ queue[n] \notin Running
             /\ status' = [status EXCEPT ![queue[n]] = "over"]
             /\ queue' = Without(queue, {queue[n]})
             /\ UNCHANGED <<cancel, stops>>

\* The first job of the conversation: cancelled if it runs, dropped if it waits.
TearDown(c) ==
  \/ /\ Of(c) = {} /\ UNCHANGED <<status, queue, cancel, manifest, stops>>
  \/ \E n \in DOMAIN queue :
       /\ convOf[queue[n]] = c /\ \A m \in 1..(n - 1) : convOf[queue[m]] # c
       /\ \/ /\ queue[n] \in Running
             /\ cancel' = TRUE /\ stops' = queue[n]
             /\ UNCHANGED <<status, queue, manifest>>
          \/ /\ queue[n] \notin Running
             /\ status' = [status EXCEPT ![queue[n]] = "over"]
             /\ queue' = Without(queue, {queue[n]}) /\ Commit({Waiting(queue')})
             /\ UNCHANGED <<cancel, stops>>

\* The Stop button and Escape, in the conversation on screen.
Stop(c) ==
  /\ page = "up" /\ Of(c) # {} /\ TearDown(c)
  /\ UNCHANGED <<page, kills, convOf, chained, loaded, gen, session, inflight, active, convs, row,
                 saved, before, hurt>>

\* Other jobs of a deleted conversation still run.
Delete(c) ==
  /\ page = "up" /\ c \in convs /\ convs' = convs \ {c} /\ TearDown(c)
  /\ row' = [j \in Job |-> IF convOf[j] = c THEN 0 ELSE row[j]]
  /\ UNCHANGED <<page, kills, convOf, chained, loaded, gen, session, inflight, active, saved,
                 before, hurt>>

--------------------------------------------------------------------------------
(* The page and its storage *)

\* visibilitychange: the entry of the generation goes to localStorage.
Hide ==
  /\ page = "up" /\ active /\ inflight # None /\ saved' = inflight
  /\ UNCHANGED <<page, kills, convOf, status, queue, chained, loaded, gen, shared, convs, row,
                 manifest, history>>

\* The writes under way are done, in the order they were started.
Written ==
  /\ page = "up" /\ Cardinality(manifest) > 1 /\ manifest' = {Waiting(queue)}
  /\ UNCHANGED <<page, kills, convOf, status, queue, chained, loaded, gen, shared, convs, row,
                 saved, history>>

\* A generation that ends in another tab removes the entry, whoever it belongs to.
SiblingEnds ==
  /\ saved # None /\ saved' = None
  /\ UNCHANGED <<page, kills, convOf, status, queue, chained, loaded, gen, shared, convs, row,
                 manifest, history>>

\* The page is reloaded, closed or crashes: its memory is gone, the manifest is what
\* one of the writes made it, and of the reply that was running a prefix is on disk.
Kill ==
  /\ page = "up" /\ kills < MaxKills /\ page' = "gone" /\ kills' = kills + 1
  /\ \E m \in manifest :
       LET waits == {j \in Job : status[j] = "queued"}
           astray == IF Cardinality(manifest) = 1 /\ loaded = <<>> THEN {}
                     ELSE SymDiff(waits, ToSet(m))
           Left(j) == CASE status[j] = "sending" -> "over"
                        [] j \in waits \intersect astray -> "over"
                        [] status[j] = "running" /\ (saved = None \/ saved.job # j) -> "over"
                        [] OTHER -> status[j] IN
       /\ manifest' = {m} /\ hurt' = hurt \union astray
       /\ status' = [j \in Job |-> Left(j)]
  /\ \E keep \in 0..MaxTokens :
       row' = [j \in Job |-> IF session # None /\ j = gen[session].job /\ row[j] # Torn /\ keep < row[j]
                             THEN keep ELSE row[j]]
  /\ queue' = <<>> /\ loaded' = <<>> /\ gen' = [g \in DOMAIN gen |-> Off]
  /\ session' = None /\ cancel' = FALSE /\ stops' = None /\ inflight' = None /\ active' = FALSE
  /\ UNCHANGED <<convOf, convs, saved>>
  /\ chained' = {} /\ UNCHANGED before

\* The next page, once its model is ready: it resumes the generation it finds saved,
\* or discards it (another model, attachments that were not saved), and reads the
\* manifest, before anybody can have sent a message.
Boot ==
  /\ page = "gone" /\ page' = "up"
  /\ \E m \in manifest : loaded' = m
  /\ \/ /\ saved # None /\ Resumed("boot", saved) /\ inflight' = saved /\ active' = TRUE
        /\ UNCHANGED <<status, saved>>
     \/ /\ saved' = None
        /\ status' = [j \in Job |-> IF status[j] = "running" THEN "over" ELSE status[j]]
        /\ UNCHANGED <<gen, inflight, active>>
  /\ UNCHANGED <<kills, convOf, queue, chained, session, cancel, convs, row, manifest, before, stops, hurt>>

\* The jobs whose conversation still exists join the queue, behind what was sent
\* meanwhile; their priors come from the database.
Restore ==
  LET valid == Without(loaded, {j \in Job : convOf[j] \notin convs})
      st == [j \in Job |-> IF j \in ToSet(valid) THEN "queued"
                           ELSE IF j \in ToSet(loaded) /\ status[j] = "queued" THEN "over"
                           ELSE status[j]] IN
  /\ page = "up" /\ loaded # <<>> /\ loaded' = <<>>
  /\ chained' = chained \union ToSet(valid)
  /\ \/ /\ valid = <<>> /\ status' = st
        /\ UNCHANGED <<queue, gen, active, cancel, manifest, stops>>
     \/ valid # <<>> /\ Kick(queue \o valid, st)
  /\ UNCHANGED <<page, kills, convOf, session, inflight, convs, row, saved, before, hurt>>

--------------------------------------------------------------------------------
Generates(g) ==
  \/ AcquireResumed(g) \/ Bail(g) \/ Emit(g) \/ StepDone(g)
  \/ Fails(g) \/ Finish(g) \/ Ends(g)

Works == AcquireFresh \/ Recover \/ PumpAdvance \/ Generates("pump")

Next ==
  \/ Works \/ Hangs \/ Generates("boot")
  \/ \E j \in Job : SendBegin(j) \/ SendFails(j) \/ Enqueue(j)
  \/ \E c \in Conv : Stop(c) \/ Delete(c)
  \/ Hide \/ Written \/ SiblingEnds \/ Kill \/ Boot \/ Restore

Spec == Init /\ [][Next]_vars

\* Every call to the core is answered or rejected, and a read of OPFS ends.
FairSpec == Spec /\ WF_vars(Works) /\ WF_vars(Generates("boot")) /\ WF_vars(Restore)

--------------------------------------------------------------------------------
Activity == {"pump", "boot"}
At == {"off", "asks", "loop", "step", "hung", "done", "halted", "failed", "over"}
Status == {"none", "sending", "queued", "running", "over"}
Entry == [job : Job, upto : 0..MaxTokens] \union {None}

JobTypes ==
  /\ page \in {"up", "gone"} /\ kills \in 0..MaxKills
  /\ convOf \in [Job -> Conv] /\ status \in [Job -> Status]
  /\ before \in [Job -> SUBSET Job] /\ stops \in Job \union {None} /\ hurt \subseteq Job
ListTypes ==
  queue \in Seq(Job) /\ loaded \in Seq(Job) /\ manifest \subseteq Seq(Job) /\ chained \subseteq Job
GenTypes ==
  /\ DOMAIN gen = Activity
  /\ \A g \in Activity :
       /\ gen[g] \in [at : At, job : Job \union {None}, shown : 0..MaxTokens, pending : Nat,
                      resumes : BOOLEAN]
       /\ gen[g].at = "off" <=> gen[g].job = None
PageTypes ==
  /\ session \in Activity \union {None} /\ {cancel, active} \subseteq BOOLEAN
  /\ {inflight, saved} \subseteq Entry
RowTypes == convs \subseteq Conv /\ row \in [Job -> 0..MaxTokens \union {Torn}]

\* The variables keep their types: what is queued, saved, resumed or run is a message,
\* and an activity that is on has one.
TypeOK == JobTypes /\ ListTypes /\ GenTypes /\ PageTypes /\ RowTypes

Inside == {"loop", "step", "done", "halted", "failed"}

\* The pump's generation and the one resumed at boot never step the model together:
\* each holds the session from its first step to its last, across a hang as well.
SteppingHolds == \A g \in {"pump", "boot"} : gen[g].at \in Inside => session = g

\* A job that waits has a pump that will come to it, whatever was added, dropped,
\* hung or failed while the pump was busy.
PumpNeverIdles ==
  /\ queue # <<>> => gen["pump"].at # "off" /\ Head(queue) = gen["pump"].job
  /\ gen["pump"].at # "off" => queue # <<>>

Held ==
  IF page = "gone" THEN UNION {ToSet(m) : m \in manifest}
                   ELSE ToSet(Waiting(queue)) \union ToSet(loaded)

\* "a page reload re-runs everything that was waiting" (lib/queue_store.ts): what waits
\* is in the queue, what waited when the page went is in the manifest, and nothing
\* else is; but for a kill in the middle of a write or of the restoring.
QueuedWorkSurvives ==
  \A j \in Job \ hurt : convOf[j] \in convs => (status[j] = "queued" <=> j \in Held)

\* A job that is sent behind others of its conversation reads its priors only when
\* they are over, and reads them from the database: it "sees the FINISHED prior
\* answer".  A reply that is being resumed after a reload is not in the queue.
ChainsOffFinished ==
  [][\A j \in Job : status[j] # "running" /\ status'[j] = "running" =>
       \A k \in before[j] : j \in chained' /\ (status[k] = "over" \/ k = gen["boot"].job)]_vars

\* A reply that was generated in one go is in the database as it was shown, when it
\* ended by itself or was stopped: each piece once, in order, none missing.
AnswerStored ==
  \A g \in {"pump", "boot"} : LET j == gen[g].job IN
    gen[g].at \in {"done", "halted"} /\ ~gen[g].resumes /\ j \notin hurt /\ convOf[j] \in convs
      => row[j] = gen[g].shown

\* A job of the pump is cancelled only if the user stopped it while it ran: a Stop
\* that comes between two jobs does not hit the next one.
StopHitsItsJob == gen["pump"].at = "halted" => stops = gen["pump"].job

\* Every job that waits in a page that stays comes to its turn or is dropped.
EveryJobsTurn ==
  \A j \in Job : (status[j] = "queued" /\ page = "up") ~> (status[j] # "queued" \/ page = "gone")
================================================================================
