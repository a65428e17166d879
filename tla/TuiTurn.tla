--------------------------------- MODULE TuiTurn ---------------------------------
(***************************************************************************)
(* The terminal UI's main loop and one user: a turn of the conversation    *)
(* with its stream and its tool, the prompts a tool raises (approval, sudo *)
(* password, question), the queue of messages typed meanwhile, and the     *)
(* keys that change app.mode, plan mode among them, which puts another     *)
(* conversation in the place of the first (tui/mod.rs, tui/app with its    *)
(* message_processing, events and plan_mode, the prompt dialogs,           *)
(* tools/executor.rs).  The stream and the tools are tasks of their own:   *)
(* their steps interleave with the loop.                                   *)
(***************************************************************************)
EXTENDS Integers, Sequences

CONSTANTS MaxMessages,    (* bound: messages the user types                    *)
          MaxTools,       (* bound: tool calls the provider makes              *)
          MaxDetours,     (* bound: tool calls and ways into plan mode, in all *)
          Later           (* the prompts a running tool may raise              *)

ASSUME Bounds  == MaxMessages \in Nat /\ MaxTools \in Nat /\ MaxDetours \in Nat
ASSUME Prompts == Later \subseteq {"SudoPasswordDialog", "UserQuestion"}

VARIABLES mode,           (* app.mode                                          *)
          loop,           (* "keyed": the iteration's key has been handled, and
                             a queued message is about to be sent              *)
          typed,          (* messages typed so far; a message is its number    *)
          queue,          (* queued_messages                                   *)
          history,        (* conversation_history                              *)
          plan,           (* that of plan_mode_state                           *)
          saved,          (* that of plan_mode_saved_main, or none             *)
          noted,          (* messages in the display of plan mode only         *)
          entered,        (* how often plan mode was entered, for the bound    *)
          content,        (* streaming_content: the turns whose text it holds  *)
          stream,         (* stream_rx and the task that feeds it              *)
          spawned,        (* tool tasks spawned; a tool is its number          *)
          at,             (* where each tool is: not spawned, at the approval
                             gate, waiting for the user, running, at its end   *)
          turnOf,         (* the turn that called it                           *)
          toolRx,         (* tool_rx and pending_tool_data: a tool, or 0       *)
          gated, asked,   (* tools that asked for approval, for something else *)
          requests,       (* the channel of each kind of prompt                *)
          dialog,         (* the request each dialog holds: a tool, or 0       *)
          granted,        (* history: tools the user approved                  *)
          cancelled,      (* history: turns the user cancelled                 *)
          overwritten     (* history: messages that went with a saved context  *)

planned == <<plan, saved, noted, entered, overwritten>>
conv    == <<typed, queue, history, planned>>
prompt  == <<requests, dialog>>
gates   == <<gated, asked>>
tasks   == <<spawned, at, turnOf, toolRx, gates>>
said    == <<granted, cancelled>>
vars == <<mode, loop, conv, content, stream, tasks, prompt, said>>

\* A kind of prompt is named by the mode that shows it.
Approval == "ApprovalDialog"
Kind == {Approval} \union Later
Tool == 1..MaxTools
NoStream == [turn |-> 0, chat |-> FALSE, events |-> {}, live |-> FALSE]

Init ==
  /\ mode = "Normal" /\ loop = "poll"
  /\ typed = 0 /\ queue = <<>> /\ history = <<>> /\ content = {}
  /\ plan = <<>> /\ saved = {} /\ noted = {} /\ entered = 0 /\ overwritten = {}
  /\ stream = NoStream
  /\ spawned = 0 /\ toolRx = 0 /\ at = [i \in Tool |-> "none"]
  /\ turnOf = [i \in Tool |-> 0] /\ gated = {} /\ asked = {}
  /\ requests = [k \in Kind |-> <<>>] /\ dialog = [k \in Kind |-> 0]
  /\ granted = {} /\ cancelled = {}

--------------------------------------------------------------------------------
(* The tasks *)

MayDetour == spawned + entered < MaxDetours

\* A provider's stream: text, tool calls (a continuation has none), an end (Done,
\* an error or a closed channel).  The loop drains the channel before it acts, so
\* the set of events is what counts.
ProviderSends(e) ==
  /\ stream.live /\ e \notin stream.events
  /\ e = "text" => stream.turn \notin content
  /\ e = "call" => stream.chat /\ spawned < MaxTools /\ MayDetour
  /\ stream' = [stream EXCEPT !.events = @ \union {e}, !.live = e # "end"]
  /\ UNCHANGED <<mode, loop, conv, content, tasks, prompt, said>>

\* execute(): the tool needs no approval, or it asks for it and waits.
ToolGate(i) ==
  /\ at[i] = "gate"
  /\ \/ at' = [at EXCEPT ![i] = "run"] /\ UNCHANGED <<gated, requests>>
     \/ /\ at' = [at EXCEPT ![i] = Approval]
        /\ gated' = gated \union {i}
        /\ requests' = [requests EXCEPT ![Approval] = Append(@, i)]
  /\ UNCHANGED <<mode, loop, conv, content, stream, spawned, turnOf, toolRx, asked, dialog, said>>

\* A running tool asks the user for a password or an answer, and waits.
ToolAsks(i, k) ==
  /\ at[i] = "run" /\ i \notin asked
  /\ at' = [at EXCEPT ![i] = k] /\ asked' = asked \union {i}
  /\ requests' = [requests EXCEPT ![k] = Append(@, i)]
  /\ UNCHANGED <<mode, loop, conv, content, stream, spawned, turnOf, toolRx, gated, dialog, said>>

ToolEnds(i) ==
  /\ at[i] = "run"
  /\ \E out \in {"ok", "error"} : at' = [at EXCEPT ![i] = out]
  /\ UNCHANGED <<mode, loop, conv, content, stream, spawned, turnOf, toolRx, gates, prompt, said>>

\* Mutant: a request whose dialog is replaced counts as approved.
Told_FailOpen(i, k, yes) ==
  [at EXCEPT ![i] = IF @ = k THEN "run" ELSE @]

\* The tool's oneshot receives an answer, or its sender is dropped (a "no"): without
\* approval the tool fails; without a password or an answer it goes on.
Told(i, k, yes) ==
  [at EXCEPT ![i] = IF @ # k THEN @ ELSE IF yes \/ k # Approval THEN "run" ELSE "error"]

--------------------------------------------------------------------------------
(* A turn *)

\* process_message and call_ai_provider: a new turn, whatever is still running.
Submit(m) ==
  /\ history' = Append(history, [role |-> "user", of |-> {m}])
  /\ mode' = "Waiting" /\ content' = {}
  /\ stream' = [turn |-> m, chat |-> TRUE, events |-> {}, live |-> TRUE]

\* Mutant: the mode is left to the caller.
Finalize_KeepsMode(text) ==
  /\ history' = Append(history, [role |-> "assistant", of |-> text])
  /\ stream' = NoStream /\ content' = {} /\ UNCHANGED mode

\* finalize_stream with the text received so far: the reply is complete, and may
\* ask clarifying questions, which the next message answers.
Finalize(text) ==
  /\ history' = Append(history, [role |-> "assistant", of |-> text])
  /\ stream' = NoStream /\ content' = {}
  /\ \/ mode' = IF mode \in {"Waiting", "CancelConfirm"} THEN "Normal" ELSE mode
     \/ text # {} /\ typed < MaxMessages /\ mode' = "QuestionAnswer"

Received == IF "text" \in stream.events THEN content \union {stream.turn} ELSE content

\* The tool of the turn, in place of one that may still run.
SpawnTool(t) ==
  /\ spawned' = spawned + 1 /\ toolRx' = spawned + 1
  /\ at' = [at EXCEPT ![spawned + 1] = "gate"]
  /\ turnOf' = [turnOf EXCEPT ![spawned + 1] = t]
  /\ UNCHANGED gates

\* poll_stream_events drains the channel: a tool call (the last one counts) puts off
\* the end of the turn if both come in one batch.
PollStream ==
  /\ loop = "poll" /\ stream.events # {}
  /\ \/ /\ "call" \in stream.events
        /\ SpawnTool(stream.turn)
        /\ content' = Received
        /\ stream' = IF "end" \in stream.events THEN NoStream ELSE [stream EXCEPT !.events = {}]
        /\ UNCHANGED <<mode, history>>
     \/ /\ stream.events \intersect {"call", "end"} = {"end"}
        /\ Finalize(Received)
        /\ UNCHANGED tasks
     \/ /\ stream.events = {"text"}
        /\ content' = Received /\ stream' = [stream EXCEPT !.events = {}]
        /\ UNCHANGED <<mode, history, tasks>>
  /\ UNCHANGED <<loop, typed, queue, planned, prompt, said>>

\* A continuation replaces whatever stream there is; it makes no tool call.
Continue(t) == stream' = [turn |-> t, chat |-> FALSE, events |-> {}, live |-> TRUE]

\* poll_tool_events: a failed tool ends the turn, a result is sent to the provider,
\* whose continuation becomes the stream.
PollTool ==
  /\ loop = "poll" /\ toolRx # 0 /\ toolRx' = 0
  /\ \/ at[toolRx] = "error" /\ Finalize(content)
     \/ /\ at[toolRx] = "ok"
        /\ Continue(turnOf[toolRx])
        /\ UNCHANGED <<mode, history, content>>
  /\ UNCHANGED <<loop, typed, queue, planned, spawned, at, turnOf, gates, prompt, said>>

\* The loop shows the next request of a kind over whatever is on screen; the
\* request that dialog still held is dropped.
PollPrompt(k) ==
  /\ loop = "poll" /\ requests[k] # <<>>
  /\ at' = Told(dialog[k], k, FALSE)
  /\ dialog' = [dialog EXCEPT ![k] = Head(requests[k])]
  /\ requests' = [requests EXCEPT ![k] = Tail(@)]
  /\ mode' = k
  /\ UNCHANGED <<loop, conv, content, stream, spawned, turnOf, toolRx, gates, said>>

--------------------------------------------------------------------------------
(* The user's keys, one an iteration *)

Key == loop = "poll"

\* The iteration ends with a look at the queue, which sends its first message if
\* the mode is Normal.
Handled == loop' = IF mode' = "Normal" /\ queue' # <<>> THEN "keyed" ELSE "poll"

Sends ==
  /\ Key /\ typed < MaxMessages
  /\ typed' = typed + 1 /\ Submit(typed + 1)
  /\ UNCHANGED <<queue, planned, tasks, prompt, said>> /\ Handled

Enter == mode = "Normal" /\ Sends

\* The answer to a reply's clarifying questions, or the refusal to answer.
AnswerQuestions == mode = "QuestionAnswer" /\ Sends

\* Enter while a reply is awaited queues the message.
Enqueue ==
  /\ Key /\ mode = "Waiting" /\ typed < MaxMessages
  /\ typed' = typed + 1 /\ queue' = Append(queue, typed + 1)
  /\ UNCHANGED <<mode, history, planned, content, stream, tasks, prompt, said>> /\ Handled

\* Esc asks to cancel; n or Esc declines.
AskCancel ==
  /\ Key
  /\ \/ mode = "Waiting" /\ mode' = "CancelConfirm"
     \/ mode = "CancelConfirm" /\ mode' = "Waiting"
  /\ UNCHANGED <<conv, content, stream, tasks, prompt, said>> /\ Handled

OpenTurns == (content \union {stream.turn} \union {turnOf[i] : i \in {toolRx} \ {0}}) \ {0}

\* Mutant: the stream is dropped, the tool runs on.
Cancel_KeepsTool ==
  /\ Key /\ mode = "CancelConfirm" /\ mode' = "Normal"
  /\ stream' = NoStream /\ content' = {}
  /\ cancelled' = cancelled \union OpenTurns
  /\ UNCHANGED <<conv, tasks, prompt, granted>> /\ Handled

\* y cancels: the stream and the last tool (tool_task_handle) are aborted, their
\* channels dropped.
\* The queue stays, and so does the prompt of an aborted tool.
Cancel ==
  /\ Key /\ mode = "CancelConfirm" /\ mode' = "Normal"
  /\ stream' = NoStream /\ content' = {}
  /\ toolRx' = 0
  /\ at' = [at EXCEPT ![spawned] = IF @ \in {"ok", "error"} THEN @ ELSE "aborted"]
  /\ cancelled' = cancelled \union OpenTurns
  /\ UNCHANGED <<conv, spawned, turnOf, gates, prompt, granted>> /\ Handled

\* The user answers the dialog; Esc is a no.  Normal mode follows, although the
\* turn goes on.
AnswerPrompt(k, yes) ==
  /\ Key /\ mode = k /\ mode' = "Normal"
  /\ at' = Told(dialog[k], k, yes)
  /\ dialog' = [dialog EXCEPT ![k] = 0]
  /\ granted' = IF yes /\ k = Approval THEN granted \union {dialog[k]} ELSE granted
  /\ UNCHANGED <<conv, content, stream, spawned, turnOf, toolRx, gates, requests, cancelled>>
  /\ Handled

\* The global keys for exit, suspend and console work in every mode; closing what
\* they opened leads to Normal mode, not to the mode they hid.
OpenOverlay ==
  /\ Key /\ mode # "Overlay" /\ mode' = "Overlay"
  /\ UNCHANGED <<conv, content, stream, tasks, prompt, said>> /\ Handled

CloseOverlay ==
  /\ Key /\ mode = "Overlay" /\ mode' = "Normal"
  /\ UNCHANGED <<conv, content, stream, tasks, prompt, said>> /\ Handled

\* Where a conversation has message m as the user's, and where the queue has it.
SentIn(h, m) == {n \in DOMAIN h : h[n] = [role |-> "user", of |-> {m}]}
QueuedAt(m)  == {n \in DOMAIN queue : queue[n] = m}

Contexts == {history, plan} \union saved

\* Mutant: the main context is kept when it is saved already.
EnterPlan_KeepsFirst ==
  /\ Key /\ mode # "PlanMode" /\ mode' = "PlanMode"
  /\ MayDetour /\ entered' = entered + 1
  /\ saved' = (IF saved = {} THEN {history} ELSE saved) /\ history' = plan
  /\ UNCHANGED <<typed, queue, plan, noted, overwritten, content, stream, tasks, prompt, said>>
  /\ Handled

\* The plan mode key works in every mode but its own (/plan, in Normal mode, does the
\* same).  The conversation on screen is saved, in place of one saved before that a
\* dialog over plan mode kept from being restored; whatever runs goes on.
EnterPlan ==
  /\ Key /\ mode # "PlanMode" /\ mode' = "PlanMode"
  /\ MayDetour /\ entered' = entered + 1
  /\ saved' = {history} /\ history' = plan
  /\ overwritten' = overwritten \union
       {m \in 1..typed : /\ \E h \in saved : SentIn(h, m) # {}
                        /\ \A h \in {history, plan} : SentIn(h, m) = {}}
  /\ UNCHANGED <<typed, queue, plan, noted, content, stream, tasks, prompt, said>> /\ Handled

\* The same key, or Esc, in plan mode.
ExitPlan ==
  /\ Key /\ mode = "PlanMode" /\ mode' = "Normal"
  /\ plan' = history
  /\ IF saved = {} THEN UNCHANGED history ELSE history' \in saved
  /\ saved' = {}
  /\ UNCHANGED <<typed, queue, noted, entered, overwritten, content, stream, tasks, prompt, said>>
  /\ Handled

\* What is typed in plan mode is displayed; no provider is asked outside IPC mode.
PlanSubmit ==
  /\ Key /\ mode = "PlanMode" /\ typed < MaxMessages
  /\ typed' = typed + 1 /\ noted' = noted \union {typed + 1}
  /\ UNCHANGED <<mode, queue, history, plan, saved, entered, overwritten, content, stream,
                 tasks, prompt, said>> /\ Handled

\* A key that does nothing, or no key at all for 16 ms.
NoKey ==
  /\ Key /\ mode = "Normal" /\ queue # <<>>
  /\ UNCHANGED <<mode, conv, content, stream, tasks, prompt, said>> /\ Handled

\* The end of the iteration: process_queued_message.
EndOfIteration ==
  /\ loop = "keyed" /\ loop' = "poll"
  /\ Submit(Head(queue)) /\ queue' = Tail(queue)
  /\ UNCHANGED <<typed, planned, tasks, prompt, said>>

ToolSteps(i) == ToolGate(i) \/ ToolEnds(i) \/ \E k \in Later : ToolAsks(i, k)

Polls == PollStream \/ PollTool \/ \E k \in Kind : PollPrompt(k)

Next ==
  \/ \E e \in {"text", "call", "end"} : ProviderSends(e)
  \/ \E i \in Tool : ToolSteps(i)
  \/ Polls
  \/ Enter \/ AnswerQuestions \/ Enqueue \/ AskCancel \/ Cancel
  \/ OpenOverlay \/ CloseOverlay \/ EnterPlan \/ ExitPlan \/ PlanSubmit \/ NoKey
  \/ \E k \in Kind, yes \in BOOLEAN : AnswerPrompt(k, yes)
  \/ EndOfIteration

Spec == Init /\ [][Next]_vars

\* Whatever the user is shown instead of the conversation is left by one of these.
Leaves == \/ CloseOverlay \/ ExitPlan \/ AnswerQuestions
          \/ \E k \in Kind, yes \in BOOLEAN : AnswerPrompt(k, yes)

\* The loop polls in each iteration, although keys come in between; a reply and a tool
\* end; the user does not leave a dialog, plan mode or what is under it open for ever.
FairSpec ==
  /\ Spec
  /\ WF_vars(ProviderSends("end")) /\ WF_vars(\E i \in Tool : ToolSteps(i))
  /\ SF_vars(Polls) /\ WF_vars(NoKey \/ EndOfIteration)
  /\ WF_vars(Leaves)

--------------------------------------------------------------------------------
Messages == 1..typed
ToolAt == {"none", "gate", "run", "ok", "error", "aborted"} \union Kind

ScreenOK ==
  /\ mode \in {"Normal", "Waiting", "CancelConfirm", "QuestionAnswer", "Overlay", "PlanMode"} \union Kind
  /\ loop \in {"poll", "keyed"}

ConversationOK ==
  /\ typed \in 0..MaxMessages /\ queue \in Seq(Messages) /\ content \subseteq Messages
  /\ history \in Seq([role : {"user", "assistant"}, of : SUBSET Messages])
  /\ stream \in [turn : Messages \union {0}, chat : BOOLEAN,
                 events : SUBSET {"text", "call", "end"}, live : BOOLEAN]
  /\ cancelled \subseteq Messages
  /\ stream.live \/ stream.events # {} => stream.turn # 0
  /\ loop = "keyed" => queue # <<>>

PlansOK ==
  /\ {plan} \union saved \subseteq Seq([role : {"user", "assistant"}, of : SUBSET Messages])
  /\ noted \subseteq Messages /\ overwritten \subseteq Messages /\ entered \in 0..MaxDetours

TasksOK ==
  /\ spawned \in 0..MaxTools /\ toolRx \in 0..spawned
  /\ at \in [Tool -> ToolAt] /\ turnOf \in [Tool -> Messages \union {0}]
  /\ gated \subseteq Tool /\ asked \subseteq Tool
  /\ \A i \in Tool : at[i] = "none" <=> i > spawned
  /\ \A i \in 1..spawned : turnOf[i] # 0
  /\ "call" \in stream.events => spawned < MaxTools

PromptsOK ==
  /\ requests \in [Kind -> Seq(Tool)] /\ dialog \in [Kind -> Tool \union {0}]
  /\ granted \subseteq Tool \union {0}

\* The variables keep their types: a channel, a dialog and tool_rx name tools that
\* were spawned, an entry, a turn and the queue messages that were typed.
TypeOK == ScreenOK /\ ConversationOK /\ PlansOK /\ TasksOK /\ PromptsOK

\* Whoever is shown "waiting" waits for something: a stream or a tool is there to
\* end it, even when the reply ended while the user was asked about cancelling.
WaitingIsBusy == mode \in {"Waiting", "CancelConfirm"} => stream.turn # 0 \/ toolRx # 0

\* A tool that needs approval has run only if the user said yes to its own request,
\* whatever replaced, hid or outlived the dialog (executor.rs: "deny by default").
ApprovedByUser ==
  \A i \in gated : at[i] \in {"run", "ok"} \union Later => i \in granted

\* A tool that waits for the user has its request in the channel or in the dialog:
\* no answer is owed that nobody holds.
AskerIsHeard ==
  \A i \in Tool, k \in Kind :
    at[i] = k => dialog[k] = i \/ \E n \in DOMAIN requests[k] : requests[k][n] = i

\* The conversations that hold message m.
Holding(m) == {h \in Contexts : SentIn(h, m) # {}}

\* What was typed outside plan mode is queued once, or sent: in one conversation at
\* least, of those that plan mode swaps, and in none of them twice; whatever runs, is
\* cancelled or is shown meanwhile.  Only a second way into plan mode, past a dialog,
\* loses messages: those of the main context it overwrites, if no other has them.
\* What was typed in plan mode is neither queued nor sent.
NoMessageLost ==
  \A m \in Messages :
    \/ m \in noted \union overwritten /\ Holding(m) = {} /\ QueuedAt(m) = {}
    \/ /\ m \notin noted \union overwritten
       /\ \/ /\ QueuedAt(m) = {} /\ Holding(m) # {}
             /\ \A h \in Holding(m) : \E n \in DOMAIN h : SentIn(h, m) = {n}
          \/ Holding(m) = {} /\ \E n \in DOMAIN queue : QueuedAt(m) = {n}

NewReplies == {n \in DOMAIN history' \ DOMAIN history : history'[n].role = "assistant"}

\* A cancelled turn never adds to the conversation: neither its stream nor its
\* tool's result finds a way back.  (A swap of conversations adds to none.)
CancelledSilent ==
  [][EnterPlan \/ ExitPlan
     \/ \A n \in NewReplies : history'[n].of \intersect cancelled = {}]_vars

\* A queued message is sent in the end.
QueuedAreSent ==
  \A m \in 2..MaxMessages :
    (\E n \in DOMAIN queue : queue[n] = m) ~> ~(\E n \in DOMAIN queue : queue[n] = m)
================================================================================
