---------------------------- MODULE GenerationQueue ----------------------------
(***************************************************************************)
(* apps/native/app: replies are generated one at a time, in the order they *)
(* were sent, from a queue that is rewritten to disk at every change and   *)
(* read back at the next start.  All of it runs on the UI thread except    *)
(* the flushes of a running generation; what the UI thread does without    *)
(* awaiting is cut into steps only where a crash in between shows.         *)
(***************************************************************************)
EXTENDS Lists, SequencesExt

CONSTANTS Job,           (* bound: the messages sent, each with its model row  *)
          Conv,          (* bound: the conversations                           *)
          WithMedia,     (* jobs sent with an image or a clip                  *)
          MaxCrashes     (* bound: ends of the app, orderly or not             *)

ASSUME QueueInputs == WithMedia \subseteq Job /\ MaxCrashes \in Nat

VARIABLES app,       (* "down", "restoring" (the constructor), "up"             *)
          ready,     (* IsModelLoaded                                           *)
          convs,     (* conversations in the database                           *)
          deleted,   (* conversations that were deleted                         *)
          conv,      (* the conversation of each job, {} before it is sent      *)
          rows,      (* model rows in the database, by row id                   *)
          answered,  (* rows that hold their final text, not none or a part     *)
          manifest,  (* queue/manifest.json; <<>> stands for an unreadable one  *)
          media,     (* jobs with sidecar files                                 *)
          jobs,      (* _jobs                                                   *)
          held,      (* jobs in memory that have their pixels or samples        *)
          running,   (* the job with status Running; _pumping iff there is one  *)
          stage,     (* of RunJobAsync: "none", "gen", "closing"                *)
          sending,   (* {} or the job of the SendAsync under way                *)
          sendAt,    (* where that is: "none", "rag", "saved"                   *)
          removing,  (* jobs Stop or Delete have still to remove                *)
          deleting,  (* {} or the conversation Delete is removing               *)
          restore,   (* loaded jobs the constructor has still to enqueue        *)
          crashes,
          accepted,  (* history: jobs that were enqueued                        *)
          settled,   (* history: jobs that left the queue                       *)
          given_up,  (* history: jobs the user stopped or deleted               *)
          ended,     (* history: jobs whose final text was written              *)
          hurt       (* history: a crash hit a restore or a manifest write      *)

database == <<convs, deleted, conv, rows, answered>>
memory   == <<jobs, held>>
pump     == <<running, stage>>
send     == <<sending, sendAt>>
removal  == <<removing, deleting>>
past     == <<accepted, settled, given_up, ended, hurt>>
appVars == <<app, ready, database, manifest, media, memory, pump, send, removal, restore,
          crashes, past>>

UIFree == app = "up" /\ stage # "closing" /\ sendAt \in {"none", "rag"} /\ deleting = {}
          /\ removing = <<>>

AppInit ==
  /\ app = "up" /\ ready = FALSE
  /\ convs = {} /\ deleted = {} /\ conv = [j \in Job |-> {}]
  /\ rows = <<>> /\ answered = {}
  /\ manifest = <<>> /\ media = {}
  /\ jobs = <<>> /\ held = {}
  /\ running = {} /\ stage = "none" /\ sending = {} /\ sendAt = "none"
  /\ removing = <<>> /\ deleting = {} /\ restore = <<>>
  /\ crashes = 0
  /\ accepted = {} /\ settled = {} /\ given_up = {} /\ ended = {} /\ hurt = FALSE
--------------------------------------------------------------------------------
(* The pump. *)

\* The jobs of q that are still queued, in order.
Queued(q, active) == Without(q, active)

\* Kick with _jobs = q: unless the pump is at work it starts the first queued job.
Kick(q) ==
  IF running # {} \/ q = <<>> THEN UNCHANGED pump
  ELSE running' = {Head(q)} /\ stage' = "gen"

\* Every 16 pieces the worker thread writes the text so far into the row.
Flush ==
  /\ stage = "gen"
  /\ answered' = answered \ running
  /\ UNCHANGED <<app, ready, convs, deleted, conv, rows, manifest, media, memory, pump, send,
                 removal, restore, crashes, past>>

\* The end of RunJobAsync, however the generation ended: text, then sidecars.
Finish ==
  /\ UIFree /\ stage = "gen"
  /\ stage' = "closing"
  /\ answered' = answered \union (running \intersect Range(rows))
  /\ ended' = ended \union running
  /\ media' = media \ running
  /\ UNCHANGED <<app, ready, convs, deleted, conv, rows, manifest, memory, running, send, removal,
                 restore, crashes, accepted, settled, given_up, hurt>>

\* Back in PumpAsync with left on the list and saved in the manifest: the next starts.
Advances(left, saved) ==
  /\ stage = "closing"
  /\ jobs' = left /\ manifest' = saved
  /\ settled' = settled \union running
  /\ IF left = <<>> THEN running' = {} /\ stage' = "none"
     ELSE running' = {Head(left)} /\ stage' = "gen"
  /\ UNCHANGED <<app, ready, database, media, held, send, removal, restore, crashes,
                 accepted, given_up, ended, hurt>>

\* Mutant: the head of the list is dropped, wherever the finished job is.
PumpNext_Head == Advances(IF jobs = <<>> THEN jobs ELSE Tail(jobs),
                          IF jobs = <<>> THEN jobs ELSE Tail(jobs))

\* The finished job leaves the list, unless Delete took it, and the manifest follows.
PumpNext == Advances(Queued(jobs, running), Queued(jobs, running))
--------------------------------------------------------------------------------
(* Commands of the user. *)

\* A load that fails changes nothing.  What follows IsModelLoaded and precedes the kick
\* only asks the engine, and throws only if its worker has died: then no job can run.
LoadModel ==
  /\ UIFree /\ ~ready /\ running = {}
  /\ ready' = TRUE
  /\ Kick(jobs)
  /\ manifest' = jobs
  /\ UNCHANGED <<app, database, media, memory, send, removal, restore, crashes, past>>

\* SendAsync up to its await: both rows are in the database.  Without knowledge
\* to look up it does not await, which is to go on before anything else happens.
SendBegin(j, c) ==
  /\ UIFree /\ ready /\ sending = {} /\ conv[j] = {} /\ c \notin deleted
  /\ conv' = [conv EXCEPT ![j] = {c}]
  /\ convs' = convs \union {c}
  /\ rows' = Append(rows, j)
  /\ sending' = {j} /\ sendAt' = "rag"
  /\ UNCHANGED <<app, ready, deleted, answered, manifest, media, memory, pump, removal, restore,
                 crashes, past>>

\* Mutant: the sidecars are left for later.
SaveJobMedia_Never ==
  /\ UIFree /\ sendAt = "rag"
  /\ sendAt' = "saved"
  /\ UNCHANGED <<app, ready, database, manifest, media, memory, pump, sending, removal, restore,
                 crashes, past>>

\* The job is made, and its sidecars are written.
SaveJobMedia ==
  /\ UIFree /\ sendAt = "rag"
  /\ sendAt' = "saved"
  /\ media' = media \union (sending \intersect WithMedia)
  /\ UNCHANGED <<app, ready, database, manifest, memory, pump, sending, removal, restore,
                 crashes, past>>

Enqueues(kicks) ==
  /\ sendAt = "saved"
  /\ sending' = {} /\ sendAt' = "none"
  /\ \E j \in sending : jobs' = Append(jobs, j)
  /\ held' = held \union (sending \intersect WithMedia)
  /\ manifest' = jobs'
  /\ accepted' = accepted \union sending
  /\ IF kicks THEN Kick(jobs') ELSE UNCHANGED pump
  /\ UNCHANGED <<app, ready, database, media, removal, restore, crashes, settled, given_up,
                 ended, hurt>>

\* Mutant: the pump is not kicked.
Enqueue_Quietly == Enqueues(FALSE)

Enqueue == Enqueues(TRUE)

\* The queued and running jobs of conversation c, in order.
Of(c) == Without(jobs, {j \in Job : conv[j] # {c}})

\* Stop, on a conversation with queued jobs only.  On the running one it cancels
\* the engine, after which the generation ends as it may end by itself.
Stop(c) ==
  /\ UIFree
  /\ \A j \in running : conv[j] # {c}
  /\ removing' = Of(c)
  /\ removing' # <<>>
  /\ given_up' = given_up \union Range(removing')
  /\ UNCHANGED <<app, ready, database, manifest, media, memory, pump, send, deleting, restore,
                 crashes, accepted, settled, ended, hurt>>

\* DeleteConversation takes the running job off the list, too.
Delete(c) ==
  /\ UIFree /\ c \in convs
  /\ removing' = Of(c)
  /\ deleting' = {c}
  /\ given_up' = given_up \union Range(removing')
  /\ UNCHANGED <<app, ready, database, manifest, media, memory, pump, send, restore,
                 crashes, accepted, settled, ended, hurt>>

RemoveMedia ==
  /\ removing # <<>> /\ Head(removing) \in media
  /\ media' = media \ {Head(removing)}
  /\ UNCHANGED <<app, ready, database, manifest, memory, pump, send, removal, restore,
                 crashes, past>>

RemoveJob ==
  /\ removing # <<>> /\ Head(removing) \notin media
  /\ removing' = Tail(removing)
  /\ jobs' = Queued(jobs, {Head(removing)}) /\ manifest' = jobs'
  /\ settled' = settled \union {Head(removing)}
  /\ UNCHANGED <<app, ready, database, media, held, pump, send, deleting, restore, crashes,
                 accepted, given_up, ended, hurt>>

DeleteRows ==
  /\ deleting # {} /\ removing = <<>>
  /\ deleting' = {}
  /\ convs' = convs \ deleting /\ deleted' = deleted \union deleting
  /\ rows' = Without(rows, {j \in Job : conv[j] = deleting})
  /\ UNCHANGED <<app, ready, conv, answered, manifest, media, memory, pump, send, removing, restore,
                 crashes, past>>
--------------------------------------------------------------------------------
(* The end of the app, and its next start. *)

\* The next thing the UI thread does, or may do, is to write the manifest.
Writing == \/ sendAt = "saved" \/ stage = "closing" \/ removing # <<>>
           \/ restore # <<>> \/ (UIFree /\ ~ready /\ jobs # <<>>)

\* A write that is cut short leaves a manifest that Load takes for an empty one.
Crash ==
  /\ app # "down" /\ crashes < MaxCrashes
  /\ crashes' = crashes + 1
  /\ app' = "down" /\ ready' = FALSE
  /\ jobs' = <<>> /\ held' = {}
  /\ running' = {} /\ stage' = "none" /\ sending' = {} /\ sendAt' = "none"
  /\ removing' = <<>> /\ deleting' = {} /\ restore' = <<>>
  /\ \/ UNCHANGED manifest /\ hurt' = (hurt \/ restore # <<>>)
     \/ Writing /\ manifest' = <<>> /\ hurt' = TRUE
  /\ UNCHANGED <<database, media, accepted, settled, given_up, ended>>

\* Mutant: the newest job is read first.
Load_Reversed == Reverse(manifest)

\* QueueStore.Load: the order of CreatedAt is that of the manifest, since jobs are
\* made and enqueued one at a time and the clock is taken to be monotonic.
Load == manifest

Restart ==
  /\ app = "down"
  /\ app' = "restoring" /\ restore' = Load
  /\ UNCHANGED <<ready, database, manifest, media, memory, pump, send, removal, crashes, past>>

\* The constructor enqueues one job without a kick, and so writes what it has so
\* far; a job without its conversation is skipped and loses its sidecars.  The
\* pixels of a restored job come from the sidecar.
RestoreNext ==
  /\ restore # <<>>
  /\ restore' = Tail(restore)
  /\ IF conv[Head(restore)] \subseteq convs
     THEN /\ jobs' = Append(jobs, Head(restore)) /\ manifest' = jobs'
          /\ held' = held \union ({Head(restore)} \intersect media)
          /\ UNCHANGED media
     ELSE media' = media \ {Head(restore)} /\ UNCHANGED <<jobs, held, manifest>>
  /\ UNCHANGED <<app, ready, database, pump, send, removal, crashes, past>>

Restored ==
  /\ app = "restoring" /\ restore = <<>>
  /\ app' = "up"
  /\ UNCHANGED <<ready, database, manifest, media, memory, pump, send, removal, restore,
                 crashes, past>>
--------------------------------------------------------------------------------
\* What goes on by itself: the engine, the continuations and the constructor.
Continues == \/ Finish \/ PumpNext \/ SaveJobMedia \/ Enqueue
             \/ RemoveMedia \/ RemoveJob \/ DeleteRows \/ RestoreNext \/ Restored

User == \/ LoadModel \/ \E c \in Conv : Stop(c) \/ Delete(c)
        \/ \E j \in Job, c \in Conv : SendBegin(j, c)

AppNext == Continues \/ Flush \/ User \/ Crash \/ Restart

AppSpec == AppInit /\ [][AppNext]_appVars

--------------------------------------------------------------------------------
\* The types, and that one generation runs at a time ("Serial FIFO generation
\* pump", GenerationQueue.cs:60), which _pumping stands for.
AppTypeOK ==
  /\ app \in {"down", "restoring", "up"} /\ ready \in BOOLEAN
  /\ convs \subseteq Conv /\ deleted \subseteq Conv /\ conv \in [Job -> SUBSET Conv]
  /\ rows \in Seq(Job) /\ answered \subseteq Job
  /\ manifest \in Seq(Job) /\ media \subseteq WithMedia
  /\ jobs \in Seq(Job) /\ held \subseteq WithMedia
  /\ running \subseteq Job /\ Cardinality(running) <= 1
  /\ stage \in {"none", "gen", "closing"} /\ (running = {} <=> stage = "none")
  /\ sending \subseteq Job /\ sendAt \in {"none", "rag", "saved"}
  /\ removing \in Seq(Job) /\ deleting \subseteq Conv /\ restore \in Seq(Job)
  /\ crashes \in 0..MaxCrashes
  /\ \A s \in {accepted, settled, given_up, ended} : s \subseteq Job
  /\ hurt \in BOOLEAN

\* The history a running job was given holds the final answer of every earlier
\* turn of its conversation ("correct for same-conv queued chaining",
\* ChatViewModel.cs:576), across restarts, but for turns given up or lost.
EarlierTurnsAnswered ==
  \A k \in 1..Len(rows) : (rows[k] \in running /\ stage = "gen" /\ ~hurt) =>
    \A i \in 1..(k - 1) :
      (conv[rows[i]] = conv[rows[k]] /\ rows[i] \in accepted \ given_up) => rows[i] \in answered

\* A job that was sent with an attachment runs with it, after a restart, too
\* (QueueStore.cs:10), unless it had been answered or given up before.
RunsWithMedia ==
  \A j \in running : j \in WithMedia \ (ended \union given_up) => j \in held

\* "queued work survives an app restart" (QueueStore.cs:10): an enqueued job is in
\* the queue, or on its way back into it, until it is answered or given up, as
\* long as no crash hits a restore or a write of the manifest.
QueuedWorkSurvives ==
  \A j \in accepted \ settled : (conv[j] \subseteq convs /\ ~hurt) =>
    CASE app = "down"      -> j \in Range(manifest)
      [] app = "restoring" -> j \in Range(jobs) \union Range(restore)
      [] OTHER             -> j \in Range(jobs)

\* Whenever the UI thread is free and a model is loaded, the pump is at work or
\* nothing is queued: no order of sends, stops, deletes and restarts leaves a
\* job waiting for a kick that does not come.
PumpNeverIdles == (UIFree /\ ready /\ running = {}) => jobs = <<>>
================================================================================
