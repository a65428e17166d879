------------------------------ MODULE AgentProcess ------------------------------
(***************************************************************************)
(* agent/process.rs and agent/plan_mode.rs: one agent, its viewers and the *)
(* tasks it spawns.  Every handler takes the write lock of AgentState for  *)
(* as long as it changes it, so a handler is one step; a reply streams     *)
(* with the lock released, except in plan mode, where it is held.          *)
(***************************************************************************)
EXTENDS MessageQueueOps, FiniteSets

CONSTANTS Prompt,         (* inputs and queued messages, each sent once        *)
          Pending,       (* the request found unanswered in the store         *)
          Viewer,        (* connections; a viewer that reconnects is another  *)
          Commands,      (* bound: what the viewers of this instance send     *)
          PendingStart   (* the values has_pending_request may start with     *)

ASSUME AgentModes == Pending \notin Prompt /\ PendingStart \subseteq BOOLEAN

VARIABLES process,        (* "up", "closing": the loop of run() broke, "gone" *)
          viewer,         (* the stage of each connection                     *)
          busy,           (* is_busy                                          *)
          exitWhenDone,   (* exit_when_done                                   *)
          conversation,   (* messages and conversation_history                *)
          planMode,       (* is_plan_mode                                     *)
          saved,          (* saved_main_context, <<>> when there is none      *)
          planStore,      (* the plan conversation in PlanModeStore           *)
          message_queue,  (* message_queue                                    *)
          stage,          (* where the task spawned for an input has got to   *)
          hand,           (* the queued message a task has popped, if any     *)
          origin,         (* history: how each message came in                *)
          answered,       (* history: replied to                              *)
          abandoned       (* history: retries exhausted or no room to retry   *)

modes   == <<planMode, saved, planStore>>
context == <<conversation, modes>>
work    == <<stage, hand, message_queue>>
flags   == <<busy, exitWhenDone>>
history == <<origin, answered, abandoned>>
processVars == <<process, viewer, flags, context, work, history>>

Owner == Prompt \union {Pending}
Entry == [role: {"user", "assistant"}, id: Owner]
Stage == {"idle", "pending", "planWait", "input", "resume", "plan",
          "drain", "held", "queued"}

\* Streaming a reply: of a UserInput, the pending request, a plan input, a queued message.
Streaming(o) == stage[o] \in {"input", "resume", "plan", "queued"}

\* Mutant: plan mode streams with the lock released, like everything else.
Locked_Never == FALSE

\* PlanModeUserInput holds the write lock while its reply streams.
Locked == \E o \in Owner : stage[o] = "plan"

Alive == process # "gone" /\ ~Locked

Said(role, id) == Append(conversation, [role |-> role, id |-> id])

ProcessInit ==
  /\ process = "up" /\ viewer = [v \in Viewer |-> "new"]
  /\ busy = FALSE /\ exitWhenDone = FALSE
  /\ planMode = FALSE /\ saved = <<>> /\ planStore = <<>>
  /\ message_queue = <<>> /\ hand = [o \in Owner |-> {}]
  /\ origin = [m \in Prompt |-> "new"] /\ answered = {} /\ abandoned = {}
  /\ \E hasPending \in PendingStart :
       /\ stage = [o \in Owner |-> IF hasPending /\ o = Pending THEN "pending" ELSE "idle"]
       /\ conversation = IF hasPending THEN <<[role |-> "user", id |-> Pending]>> ELSE <<>>
--------------------------------------------------------------------------------
\* Connections.  The initial sync reads the state, so it too waits for the lock.
Attach(v) ==
  /\ process = "up" /\ ~Locked /\ viewer[v] = "new"
  /\ viewer' = [viewer EXCEPT ![v] = "open"]
  /\ UNCHANGED <<process, flags, context, work, history>>

Close(v) == viewer' = [viewer EXCEPT ![v] = "closed"]

Leave(v) ==
  /\ process # "gone" /\ viewer[v] = "open" /\ Close(v)
  /\ UNCHANGED <<process, flags, context, work, history>>

Sends(v, command) == Alive /\ viewer[v] = "open" /\ command \in Commands

\* UserInput: one write lock to add the message and set is_busy, whoever else is
\* busy; then the reply streams in a task of its own.
UserInput(v, m) ==
  /\ Sends(v, "UserInput") /\ origin[m] = "new"
  /\ conversation' = Said("user", m)
  /\ busy' = TRUE
  /\ stage' = [stage EXCEPT ![m] = "input"]
  /\ origin' = [origin EXCEPT ![m] = IF planMode THEN "stray" ELSE "main"]
  /\ UNCHANGED <<process, viewer, exitWhenDone, modes, message_queue, hand,
                 answered, abandoned>>

\* QueueMessage: push_content, Normal priority.  A full queue refuses the message
\* and nothing changes.  Nothing wakes an idle agent.
QueueMessage(v, m) ==
  /\ Sends(v, "QueueMessage") /\ origin[m] = "new" /\ ~Full(message_queue)
  /\ message_queue' = Inserted(message_queue, [id |-> m, prio |-> 1, retry |-> 0, at |-> 0])
  /\ origin' = [origin EXCEPT ![m] = "queue"]
  /\ UNCHANGED <<process, viewer, flags, context, stage, hand, answered, abandoned>>

\* Cancel: cancellation_token is None, nothing stops the stream.
Cancel(v) ==
  /\ Sends(v, "Cancel")
  /\ busy' = FALSE
  /\ UNCHANGED <<process, viewer, exitWhenDone, context, work, origin, answered, abandoned>>

Detach(v) ==
  /\ Sends(v, "Detach")
  /\ exitWhenDone' \in BOOLEAN
  /\ UNCHANGED <<process, viewer, busy, context, work, history>>

\* Exit closes the connection; the slash command leaves it open.
Exit(v) ==
  /\ Sends(v, "Exit")
  /\ exitWhenDone' = TRUE /\ busy' = FALSE
  /\ Close(v) \/ UNCHANGED viewer
  /\ UNCHANGED <<process, context, work, history>>

\* The slash command that clears; those that push a user message are left out.
ClearHistory(v) ==
  /\ Sends(v, "ClearHistory")
  /\ conversation' = <<>>
  /\ UNCHANGED <<process, viewer, flags, modes, work, history>>

\* ParentExiting: both branches set the flag.  Shutdown returns Ok(true), which
\* the connection's loop takes as its own end.
ParentExiting(v) ==
  /\ Sends(v, "ParentExiting")
  /\ exitWhenDone' = TRUE
  /\ UNCHANGED <<process, viewer, busy, context, work, history>>

ParentShutdown(v) ==
  /\ Sends(v, "Shutdown")
  /\ Close(v)
  /\ UNCHANGED <<process, flags, context, work, history>>
--------------------------------------------------------------------------------
\* Mutant: entering plan mode a second time is not refused.
EnterPlanMode_Again(v) ==
  /\ Sends(v, "PlanMode")
  /\ saved' = conversation /\ planMode' = TRUE
  /\ conversation' = planStore
  /\ UNCHANGED <<planStore, process, viewer, flags, work, history>>

\* enter_plan_mode saves the main context, then opens the store: if that fails it
\* returns early.  A stored plan is resumed, unless it cannot be read.
EnterPlanMode(v) ==
  /\ Sends(v, "PlanMode") /\ ~planMode
  /\ saved' = conversation
  /\ \/ /\ planMode' = TRUE
        /\ conversation' \in {planStore, <<>>}
        /\ planStore' \in {planStore, conversation'}
     \/ UNCHANGED <<planMode, conversation, planStore>>
  /\ UNCHANGED <<process, viewer, flags, work, history>>

\* exit_plan_mode stores the plan (a failure is only logged), restores main; if the store
\* cannot be opened it returns early, still in plan mode.
ExitPlanMode(v) ==
  /\ Sends(v, "PlanMode") /\ planMode
  /\ \/ /\ planStore' \in {planStore, conversation}
        /\ conversation' = saved /\ saved' = <<>> /\ planMode' = FALSE
     \/ UNCHANGED context
  /\ UNCHANGED <<process, viewer, flags, work, history>>

PlanModeUserInput(v, m) ==
  /\ Sends(v, "PlanInput") /\ origin[m] = "new"
  /\ stage' = [stage EXCEPT ![m] = "planWait"]
  /\ origin' = [origin EXCEPT ![m] = "plan"]
  /\ UNCHANGED <<process, viewer, flags, context, hand, message_queue, answered, abandoned>>

\* process_plan_mode_input: refused outside plan mode, else the stream starts.
PlanStart(m) ==
  /\ Alive /\ stage[m] = "planWait"
  /\ \/ /\ planMode
        /\ conversation' = Said("user", m) /\ busy' = TRUE
        /\ stage' = [stage EXCEPT ![m] = "plan"]
     \/ /\ ~planMode
        /\ stage' = [stage EXCEPT ![m] = "idle"]
        /\ UNCHANGED <<conversation, busy>>
  /\ UNCHANGED <<process, viewer, exitWhenDone, modes, hand, message_queue, history>>

\* The reply ends; one that failed before its first text adds no message.
PlanEnd(m) ==
  /\ process # "gone" /\ stage[m] = "plan"
  /\ \/ conversation' = Said("assistant", m) /\ answered' = answered \union {m}
     \/ UNCHANGED <<conversation, answered>>
  /\ busy' = FALSE
  /\ stage' = [stage EXCEPT ![m] = "idle"]
  /\ UNCHANGED <<process, viewer, exitWhenDone, modes, hand, message_queue,
                 origin, abandoned>>
--------------------------------------------------------------------------------
\* process_pending_request, spawned by run() before the loop.
PendingBegin ==
  /\ Alive /\ stage[Pending] = "pending"
  /\ busy' = TRUE
  /\ stage' = [stage EXCEPT ![Pending] = "resume"]
  /\ UNCHANGED <<process, viewer, exitWhenDone, context, hand, message_queue, history>>

\* A stream ends well: the reply is added, is_busy cleared.
Reply(o, id, next) ==
  /\ conversation' = Said("assistant", id)
  /\ busy' = FALSE
  /\ stage' = [stage EXCEPT ![o] = next]
  /\ answered' = answered \union {id}
  /\ UNCHANGED <<process, viewer, exitWhenDone, modes, message_queue,
                 origin, abandoned>>

PendingReply == /\ Alive /\ stage[Pending] = "resume"
                /\ Reply(Pending, Pending, "idle") /\ UNCHANGED hand

\* The `?` on the stream: is_busy stays set.
PendingFail ==
  /\ Alive /\ stage[Pending] = "resume"
  /\ stage' = [stage EXCEPT ![Pending] = "idle"]
  /\ UNCHANGED <<process, viewer, flags, context, hand, message_queue, history>>

\* After a reply to a UserInput the task goes on to the queue, if there is one.
InputReply(m) ==
  /\ Alive /\ stage[m] = "input"
  /\ Reply(m, m, IF message_queue = <<>> THEN "idle" ELSE "drain") /\ UNCHANGED hand

\* Mutant: the error path forgets is_busy.
InputFail_StaysBusy(m) ==
  /\ Alive /\ stage[m] = "input"
  /\ stage' = [stage EXCEPT ![m] = "idle"]
  /\ UNCHANGED <<process, viewer, flags, context, hand, message_queue, history>>

InputFail(m) ==
  /\ Alive /\ stage[m] = "input"
  /\ busy' = FALSE
  /\ stage' = [stage EXCEPT ![m] = "idle"]
  /\ UNCHANGED <<process, viewer, exitWhenDone, context, hand, message_queue, history>>
--------------------------------------------------------------------------------
\* process_queued_messages.  Popping a message and starting on it are two write
\* locks, and is_busy is false before the second.
QueuePop(o) ==
  /\ Alive /\ stage[o] = "drain"
  /\ \/ /\ message_queue = <<>>
        /\ stage' = [stage EXCEPT ![o] = "idle"]
        /\ UNCHANGED <<message_queue, hand>>
     \/ /\ message_queue # <<>>
        /\ hand' = [hand EXCEPT ![o] = {Head(message_queue)}]
        /\ message_queue' = Tail(message_queue)
        /\ stage' = [stage EXCEPT ![o] = "held"]
  /\ UNCHANGED <<process, viewer, flags, context, history>>

QueueStart(o) ==
  /\ Alive /\ stage[o] = "held"
  /\ \E m \in hand[o] : conversation' = Said("user", m.id)
  /\ busy' = TRUE
  /\ stage' = [stage EXCEPT ![o] = "queued"]
  /\ UNCHANGED <<process, viewer, exitWhenDone, modes, hand, message_queue, history>>

QueueReply(o) ==
  /\ Alive /\ stage[o] = "queued"
  /\ \E m \in hand[o] : Reply(o, m.id, "drain")
  /\ hand' = [hand EXCEPT ![o] = {}]

\* Mutant: the failed message is not requeued.
QueueFail_Forgets(o) ==
  /\ Alive /\ stage[o] = "queued"
  /\ busy' = FALSE
  /\ stage' = [stage EXCEPT ![o] = "idle"] /\ hand' = [hand EXCEPT ![o] = {}]
  /\ UNCHANGED <<message_queue, abandoned, process, viewer, exitWhenDone, context, origin, answered>>

\* A failed message is requeued if it has retries left and there is room; the
\* loop ends either way.
QueueFail(o) ==
  /\ Alive /\ stage[o] = "queued"
  /\ \E m \in hand[o] :
       \/ /\ ~RetriesExhausted(Retried(m)) /\ ~Full(message_queue)
          /\ message_queue' = Inserted(message_queue, Retried(m))
          /\ UNCHANGED abandoned
       \/ /\ RetriesExhausted(Retried(m)) \/ Full(message_queue)
          /\ abandoned' = abandoned \union {m.id}
          /\ UNCHANGED message_queue
  /\ busy' = FALSE
  /\ stage' = [stage EXCEPT ![o] = "idle"] /\ hand' = [hand EXCEPT ![o] = {}]
  /\ UNCHANGED <<process, viewer, exitWhenDone, context, origin, answered>>
--------------------------------------------------------------------------------
\* check_exit_condition, every 500 ms.  Tasks and connections go on while run()
\* tells the children and cleans up; then the process ends with whatever runs.
ExitCheck ==
  /\ process = "up" /\ ~Locked /\ exitWhenDone /\ ~busy
  /\ process' = "closing"
  /\ UNCHANGED <<viewer, flags, context, work, history>>

Terminate ==
  /\ process = "closing" /\ process' = "gone"
  /\ UNCHANGED <<viewer, flags, context, work, history>>

FromViewer(v) ==
  \/ Attach(v) \/ Leave(v) \/ Cancel(v) \/ Detach(v) \/ Exit(v) \/ ClearHistory(v)
  \/ ParentExiting(v) \/ ParentShutdown(v) \/ EnterPlanMode(v) \/ ExitPlanMode(v)
  \/ \E m \in Prompt : UserInput(v, m) \/ QueueMessage(v, m) \/ PlanModeUserInput(v, m)

TaskStep(m) == \/ PlanStart(m) \/ PlanEnd(m) \/ InputReply(m) \/ InputFail(m)
               \/ QueuePop(m) \/ QueueStart(m) \/ QueueReply(m) \/ QueueFail(m)

PendingStep == PendingBegin \/ PendingReply \/ PendingFail

ProcessNext == \/ \E v \in Viewer : FromViewer(v)
        \/ \E m \in Prompt : TaskStep(m)
        \/ PendingStep \/ ExitCheck \/ Terminate

ProcessSpec == ProcessInit /\ [][ProcessNext]_processVars

\* Streams end (the provider answers or fails), spawned tasks get to run and the
\* lock is fair; viewers need not do anything, and only finitely many connect, so
\* the 500 ms timer, which every accepted connection restarts, does run out.
FairProcess == /\ ProcessSpec
            /\ \A m \in Prompt : WF_processVars(TaskStep(m))
            /\ WF_processVars(PendingStep) /\ WF_processVars(ExitCheck) /\ WF_processVars(Terminate)
--------------------------------------------------------------------------------
ProcessTypeOK ==
  /\ process \in {"up", "closing", "gone"}
  /\ viewer \in [Viewer -> {"new", "open", "closed"}]
  /\ busy \in BOOLEAN /\ exitWhenDone \in BOOLEAN /\ planMode \in BOOLEAN
  /\ conversation \in Seq(Entry) /\ saved \in Seq(Entry) /\ planStore \in Seq(Entry)
  /\ message_queue \in Seq(Message(Prompt)) /\ Len(message_queue) <= MaxSize
  /\ stage \in [Owner -> Stage]
  /\ hand \in [Owner -> SUBSET Message(Prompt)]
  /\ origin \in [Prompt -> {"new", "main", "stray", "plan", "queue"}]
  /\ answered \subseteq Owner /\ abandoned \subseteq Prompt

(***************************************************************************)
(* Two inputs that finish together both start process_queued_messages, and *)
(* their loops share the queue: still, a queued message is in exactly one  *)
(* place: waiting once, in one task's hand, answered, or given up after    *)
(* its retries (requeue, message_queue.rs:165).                            *)
(***************************************************************************)
QueuedInOnePlace ==
  LET holders(m) == {o \in Owner : \E h \in hand[o] : h.id = m}
      places(m) == {i \in DOMAIN message_queue : message_queue[i].id = m} IN
  \A m \in Prompt : origin[m] = "queue" =>
    1 = Cardinality(places(m)) + Cardinality(holders(m))
        + Cardinality({m} \intersect answered) + Cardinality({m} \intersect abandoned)

(***************************************************************************)
(* Every attempt at a queued message adds it to the conversation again     *)
(* (process_queued_messages, process.rs:1605), and history is resent with  *)
(* every request: a message occurs in it at most max_retries + 1 times,    *)
(* and its reply once.                                                     *)
(***************************************************************************)
PromptsBounded ==
  LET entries(role, m) == {i \in DOMAIN conversation :
                              conversation[i] = [role |-> role, id |-> m]} IN
  \A m \in Prompt : /\ Cardinality(entries("user", m)) <= MaxRetries + 1
                   /\ Cardinality(entries("assistant", m)) <= 1

\* The main conversation, wherever it is kept.
Main == IF planMode THEN saved ELSE conversation

(***************************************************************************)
(* Entering plan mode (again, or in vain when the store fails) and leaving *)
(* it never loses an input the user gave to the main conversation          *)
(* (plan_mode.rs:36, 131).  For instances without ClearHistory.            *)
(***************************************************************************)
MainKeepsPrompts ==
  \A m \in Prompt : origin[m] = "main" =>
    \E i \in DOMAIN Main : Main[i] = [role |-> "user", id |-> m]

(***************************************************************************)
(* In every conversation, nothing comes between a plan input and its       *)
(* reply: process_plan_mode_input keeps the write lock over the stream, so *)
(* neither another task's reply nor a change of mode gets in.              *)
(***************************************************************************)
PlanRepliesAdjacent ==
  \A c \in {conversation, saved, planStore} : \A i \in DOMAIN c :
    c[i].role = "assistant" /\ c[i].id \in Prompt /\ origin[c[i].id] = "plan"
      => i > 1 /\ c[i - 1] = [role |-> "user", id |-> c[i].id]

(***************************************************************************)
(* "Busy - finish current work first" (process.rs:1282): run() decides to  *)
(* exit only when no reply is streaming.                                   *)
(***************************************************************************)
ExitFinishesWork ==
  [][process = "up" /\ process' = "closing" => \A o \in Owner : ~Streaming(o)]_processVars

(***************************************************************************)
(* Once exit_when_done is set the agent exits, unless a viewer takes it    *)
(* back: "will exit after current work" (process.rs:1285), so no path may  *)
(* leave is_busy set for ever.                                             *)
(***************************************************************************)
ExitHappens == exitWhenDone ~> (process = "gone" \/ ~exitWhenDone)
================================================================================
