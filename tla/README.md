# Rullama in TLA+

Rullama is a local AI assistant: a Rust command-line agent (`src/apps/cli`), a native
desktop application around an inference engine (`src/apps/native`), a web application
(`src/apps/web`) and small services (`src/services`).  This directory models the parts
whose correctness depends on the order of events: what several viewers, spawned tasks,
callers, failures and restarts may do to shared state.  Each module translates the
code it names; `PROJECT.json` maps every definition to its lines.

## Inventory

| component | state | operations and interactions | hard behaviours | what makes it correct |
|---|---|---|---|---|
| message queue, `agent/message_queue.rs` | a `VecDeque` ordered by priority, a file | push, pop, requeue, clear, drain, load; used by the agent process under its lock | failing and torn saves, crash between steps, retries, a queue that fills up | stable order, nothing lost or attempted too often, the file follows the queue |
| agent process, `agent/process.rs`, `plan_mode.rs`, `state.rs` | `AgentState` behind one `RwLock`: `is_busy`, `exit_when_done`, conversation, plan mode, queue | a socket accepts viewers; each has a task; inputs spawn streaming tasks; a 500 ms poll decides to exit | tasks finishing in any order, one flag for many tasks, mode switches under a stream, error paths | no work cut off, exit happens, queued messages accounted for, plan and main conversation kept apart |
| agent pool, `agents/pool.rs`, `tools/agent_pool.rs` | a map from id to task handle | spawn, stop, await, await_all, cleanup, shutdown by concurrent tool calls | check under one lock and insert under another, handles in local variables, abort racing with completion | bounded, no agent detached, every call returns, a result delivered once |
| task agent, `agents/task_agent.rs` | iterations, checkpoint, plan, budget, file locks | execute: ask the provider, run tools, checkpoint, replan, validate; ends as completed or failed | crash between tool and checkpoint, errors leaving by `?`, timeouts | bounded iterations, no completed step repeated, status matches the end |
| session budget, `types/session_budget.rs` | three atomic counters | check_before_spawn, record_run, increment_agent_count, check_limits | check and increment are separate | counters bounded by limit and concurrency |
| agent manager, `agents/manager.rs`, `orchestrator.rs`, `worker.rs` | worker map, task queue | spawn_worker, delegate, process_queue | check then act, a dequeued task lost on error | every task answered |
| agent tree, `agent/spawn.rs`, `hibernate.rs` | session files, parent links, hibernation manifest | spawn with depth limit, signals to children, hibernate, resume | crash between two files, partial failure of a resume | depth bounded, agents come back once |
| session server, `session/` | PTY, attached clients | attach, detach, input, output | client loss | one reader of each stream |
| terminal UI, `tui/`, with its prompts, `approval/`, `ask/`, `tools/executor.rs` | `mode`, stream and tool channels, queued messages, one dialog of each kind, the conversation on screen and those plan mode keeps | a loop polls stream, tool and prompts, handles one key, sends a queued message; a stream and a tool are tasks, which ask through a channel and wait on a oneshot | events in one batch or two, cancel against completion, a prompt over a prompt, keys that change the mode under a turn | a wait has an end, nothing gated runs unapproved, no asker forgotten, no message lost, a cancelled turn stays silent |
| native engine, `native/rust-core` | worker thread, command channel, cancel flag | load, generate, encode, train, cancel, free | cancel and free overtaking queued commands | cancel stops what it was meant for |
| native queue, `GenerationQueue.cs`, `QueueStore.cs`, `InferenceClient.cs`, `ChatViewModel.cs` | list of jobs, manifest file, media files | enqueue, remove, cancel, pump, persist, restore | restart in the middle of a job, delete while running | one job at a time in order, queued work survives |
| web session and core, `inference-worker.ts`, `inference.ts`, `inference-core-worker.ts` | in a SharedWorker: ports, the session and its waiters, the core's port and host, the election, pending calls; in each tab: its worker, its promises | acquire, release, abort, forward, elect, attach, ping, tear down, disconnect, over one port for each tab | tabs that close or are killed, grants and aborts that cross, timeouts about a core that was replaced, one retry of each call | one session at a time and none lost, no call forgotten, a core comes back |
| web chat engine, `useChatEngine.ts`, `queue_store.ts` | queue of jobs, `cancelRef`, `inflightRef`; manifest in OPFS, an entry in localStorage, rows in the database | send, stop, delete, pump, flush, hang recovery, resume at boot, restore | a reload between any two awaits, manifest writes nobody awaits, one cancel flag for all jobs | one generation at a time, waiting work survives, an answer is stored as shown, a finished one is not generated again |
| development server, `services/dev-server` | watch channel, build | debounce, build, broadcast | changes during a build | the last change is built |
| web downloads and pages, tools, commands, configuration, packaging | per-call | sequential I/O | none of their own | - |

## Modules

`MessageQueueOps` is the pure part of the message queue: `InsertPosition`
(`find_insert_position`), `Inserted`, `Full`, `Retried`, `RetriesExhausted`.  It has no
variables; the two modules below build their actions from it.

`PriorityBuffer` is what a message queue promises, with no list and no position: a set from
which the consumer is always given a message no other precedes.  A crash may lose waiting
messages and a reload may bring accepted ones back.

`MessageQueue` is `message_queue.rs` with one consumer: `Push`, `Pop`, `Requeue`,
`Deliver`, `Clear` (clear and drain) each followed by `Save`, which may fail and leave the
file stale or torn, and `Crash` and `Restart` (`with_persistence` and `load`).
`ImplementsBuffer` maps the list to the set of its elements.  The field `at` of a message
and the variables `accepted`, `attempts`, `settled`, `dropped`, `stale`, `replayed` are
history: they only let properties speak of the past.

`AgentProcess` is one agent.  A handler holds the write lock for as long as it changes the
state, so it is one step; a streaming reply is two steps, its start and its end, with
everything else in between, because the lock is released.  Only a plan-mode reply keeps the
lock (`Locked`), and then no step that needs the lock is enabled.  `stage` is where
the task of each input has got to; after a reply it may enter the loop of
`process_queued_messages`, which pops (`QueuePop`) and starts (`QueueStart`) a message under
two separate locks, as the code does.  `Commands` selects what viewers send in an
instance.  A message is a model value.  What `Cancel`, `Shutdown` and the error paths do is
what the code does, not what their names say.

`AgentPool` is `pool.rs` with concurrent callers.  One step is what is done under one lock:
`CheckCapacity`, `StartTask`, `Insert` are spawn_agent; `Await`, `Join` are
await_completion; `AwaitAll`, `AwaitNext`, `JoinNext`, `AwaitedAll` are await_all;
`CleanupScan`, `CleanupSweep` are cleanup_completed.  `ids` and `joining` are the callers' local
variables, which may hold a handle that is not in the map.  An abort is a request: the task
ends later (`End`).

`EngineHandle` is the worker of `native/rust-core/src/lib.rs`: `Send` is `call`, which queues a
command and blocks; the `Take*` actions are the arms of the worker's match by what they do
to `model`, `trainer` and the flag; `Prefilled`, `Polled`, `Emit`, `Cut`, `Ended`,
`GenerateFails` are a generation.  The poll of the flag and the callback are two steps, so
that a cancel can fall between them.  `Cancel` and `Free` set the flag from outside.
`asked`, `reached` and `late` are history: whose generations were in flight, or running, when
the flag was raised, and the pieces they delivered after it.

`GenerationQueue` is the desktop application's queue, in `GenerationQueue.cs`, `QueueStore.cs` and
`ChatViewModel.cs` together, because its correctness lies in the order in which rows,
sidecars, list and manifest are written.  The UI thread does all of it but the flushes; what
it does without an await is split only where a crash in between shows (`SaveJobMedia`
and `Enqueue`; `Finish` and `PumpNext`; `RemoveMedia` and `RemoveJob`), and `UIFree` keeps the
user out until it is done.  Between `SendBegin` and `SaveJobMedia` lies the one await of
`SendAsync`, where the user is let in.  `_pumping` is `running # {}`, since the pump awaits
nothing but a generation.  `Crash` stands for any end of the application; `RestoreNext` is one
round of the constructor's loop.  That a generation ends is what `EngineHandle!CallsReturn` gives.
`accepted`, `settled`, `given_up`, `ended` and `hurt` are history.

`TaskAgent` is `TaskAgent::execute` for the agents of one session, with the counters they share.
A step is what runs between two awaits at which another agent, `stop_agent` or a crash could come:
`Register`, `Begin`, `Announce` and `Load` what `execute` does before its loop, `Iterate` the
top of the loop, `Respond`, `ProviderFails` and `CheckSession` the provider call, `NextTool`, `Lock`,
`Execute`, `Mark` one tool call and its checkpoint, `Validate` the validated completion.  A run
that leaves the loop with a verdict has its way out before it (`Closes`): `TellTask`, `TellStatus`,
`TellResult`, `LeaveHub` and `FreeLocks`, the awaits that `fail_agent`, the iteration limit and the
validated completion have in common, in the order of `Follows`, and `Forget`, the checkpoint of a completed run.
`stop_agent` is three steps: `AskToStop` takes the agent out of the pool and asks its task to end,
`ReleaseLocksOf` releases its locks, and `Abort` is the end of the task, at any later await of it,
or never if it ends first.  So a run may be cut with its task failed or completed, its status
still Working, no TaskResult, and itself still in the hub; `OneVerdict` says which of those
combinations there are.  Two awaits of the code are one step only where a cut between them leaves what a
cut before or after leaves (`set_status` writes the status and broadcasts it; the hub's
subscribers are not modelled).  A tool call is known by its id; the order within a response is left
open.  `verdicts` and `loadFailed` are history.

`TuiTurn` is the main loop of the terminal UI (`run_app`) with one user and the tasks it spawns.
An iteration polls the channels (`PollStream`, `PollTool`, `PollPrompt`), each a step of
its own since tasks run between them, then handles a key and looks at the queue
(`Handled`, `EndOfIteration`).  The loop drains a channel before it acts, so a stream is the
set of events not yet taken.  A message is its number, a tool call the number of its
task, a kind of prompt the mode that shows it; a dropped oneshot sender is a "no" (`Told`).
The plan mode key works in every mode and swaps conversations (`EnterPlan`, `ExitPlan`): `history` is the one on
screen, into which replies go, `plan` the one of `plan_mode_state`, and `saved` the main one while it
is kept aside.  A dialog, an overlay or questions over plan mode close to Normal mode with the plan's conversation still
on screen; the key then saves that one over the main one, and what only the main one held is
`overwritten`.  What is typed in plan mode itself is displayed and goes to nobody (`noted`).
`granted`, `cancelled`, `noted` and `overwritten` are history.  `MaxDetours` bounds tool calls and
ways into plan mode together, which is what a run can afford.

`SessionArbiter` is the session of the web application: the SharedWorker's `acquireSession`,
`releaseSession`, `cancelAcquire` and `disconnectPort` against `WorkerClient`, over one FIFO of
messages each way for each tab.  A handler runs to its end, so it is one step.  `Kill` is a tab
that goes without a word, `Reap` the heartbeat that notices.

`SessionLine` is what the worker promises of the session: one line of calls, in the order in which they
reach it, whose head takes the session when nobody has it (`Take`); a call may leave the line, or the
session, at any time (`Leave`) and does not come back.  `SessionArbiter` implements it
(`FirstComeFirstServed`) under this mapping: in the line are the waiters, and before them the call
that was granted the session and has not read so yet (`Told`); the session is held by a call that
believes to have it and whose port is connected; a call has joined when the router has handled its
acquire.  So a grant that is on its way when its tab aborts, closes or is reaped is not lost from
view: it is the head of the line that leaves.

`CoreElection` is the other half of the same worker: which tab hosts the core.  `Elect`, `LoseCore`
and `Next1` are `electHost`, `loseCore` and `nextElectableTab`; `SpawnCore`, `CoreReady`,
`CoreDisconnected` the tab's side; `PingFails` is `verifyCoreLive` after its timeout.  The two
halves meet only in `disconnectPort`, which each module models as far as it concerns it, so they
are checked apart.

`ChatEngine` is one tab's `useChatEngine`: `gen["pump"]` is the job of `kickPump`, `gen["boot"]` the
reply that `resumeInflightGeneration` continues after a reload.  Everything between two
awaits is one step.  A reply is its length, a row the length of the prefix it holds or `Torn`.  The
manifest is the set of contents it may have, since the writes are not awaited; the model
assumes that they take effect in the order they were started.  `Boot` reads it before anybody
can have sent a message.  Other tabs are only `SiblingEnds` and a session that may take its
time.  `before`, `stops` and `hurt` are history.

`Lists` has the one operation on lists that `SessionArbiter`, `ChatEngine` and `GenerationQueue`
share: `Without`, what is left of a list.

`MC_*` give TLC the sets, functions and symmetry of an instance; `*_proofs` hold the theorems.
`AgentMessages_proofs` (`MessageQueue`, `AgentProcess`), `Agents_proofs` (`AgentPool`, `TaskAgent`) and
`NativeApp_proofs` (`EngineHandle`, `GenerationQueue`) each extend two modules that have no variable in
common; so that they can, `AgentProcess`, `AgentPool` and `GenerationQueue` name their `Init`, `Next`,
`Spec` and type invariant after themselves (`ProcessInit`, `PoolInit`, `AppInit` and so on).

Names ending in a suffix such as `Pop_Unsaved` or `HasRoom_OffByOne` are mutants: the
definition before the underscore as a plausible bug would have it.  No specification uses
them; each is there to show that a property fails when the code is wrong in that way.

## Runs

| run | bounds | shows |
|---|---|---|
| `MessageQueue_list` | 3 messages, 2 priorities, queue of 2, 1 retry, 1 crash, saves may fail | order, a message settled is never handed out again, implements `PriorityBuffer` |
| `AgentProcess_work` | 4 messages, UserInput, QueueMessage and ClearHistory, 1 viewer, queue of 1, 1 retry | a queued message is in exactly one place; prompts and replies are not multiplied |
| `AgentProcess_modes` | 2 messages, every command but ClearHistory, fair tasks | main conversation kept, plan replies adjacent, exit happens |
| `AgentProcess_cut` (violated) | 3 messages | the agent exits under a streaming reply |
| `AgentPool_calls` | 3 agents, 2 callers, limit 1, fair | bounded map, no detached agent, calls return |
| `EngineHandle_calls` | 3 calls, 2 tokens, freed at any moment, fair worker | a flag cuts only what it was meant for, one late piece at most, every call returns |
| `GenerationQueue_restarts` | 3 jobs, 2 with attachments, 2 conversations, 2 restarts | earlier turns answered, attachments kept, nothing lost or left waiting |
| `TaskAgent_session` | 2 agents, 1 tool that wants the lock, 3 iterations, 0 or 1 token a call, limits of 2 and 1 for the agents and 1 for the session, 1 stop, 1 crash, fair | one verdict, session overshoot bounded, no completed tool run again, every run ends |
| `TuiTurn_turns` | 2 messages, 2 detours (tool calls or ways into plan mode), approvals and questions, fair | approval needed, messages queued or sent once and lost only to a second way into plan mode, a cancelled turn silent, queued messages sent |
| `SessionArbiter_tabs` | 2 tabs, 3 calls, fair | one holder, served in the order of the requests (implements `SessionLine`), session lost in two ways only, acquire returns |
| `CoreElection_hosts` | 2 tabs, 1 call at a time, 1 teardown, fair | nothing left of a lost core, calls settle, a core comes back |
| `ChatEngine_page` | 2 messages in 1 or 2 conversations, a reply of 1 piece, 1 reload, fair | one generation at a time in the session, the queue survives and drains, answers stored as shown, a stop hits its job, priors finished |

Why these bounds are enough.  The queue's hazards need a message in hand, one waiting and
one arriving: three messages, and a queue of two that is full at that moment.  One retry
distinguishes a fresh message, a retried one and an exhausted one.  Two priorities
distinguish before, equal and behind; the theorem covers all four.  Two queue loops need
two inputs and a queued message; a third input gives that message a further attempt, which
shows whether the limit is kept.  One viewer can send everything two can, since a
connection has no state the handlers read except being open.  The pool's races are between
two callers; the third agent is the one that takes the place of an agent that left the
map.  The engine's races need a model loaded, a generation that runs and one that waits: three
calls; two tokens separate the first, a middle and the end of the loop.  The application's
queue needs a running job, an earlier and a later one, in one conversation or two, and a
restart of a restarted queue.  Two agents contend for one lock and one session limit; three
iterations are a first, a repeated and a last one, and a crash before, between and after a tool
and its checkpoint needs one tool.  In the terminal UI two messages are a turn and a queued
one, two tools a replaced and a replacing one, a tool and plan mode a prompt over it, and plan mode twice
a context saved over another; the sudo prompt is the question prompt with
another name, so the run has one of them and the theorems both.  Two tabs are a holder and
a waiter, or a host and its successor; a tab opened again is another tab.  Three calls put two
waiters of one tab and one of the other in the session's queue; a call is made again once
settled, so one place for it is enough in the election.  In the chat engine a job runs and one waits, and a reload makes
one of them the resumed one; one piece is enough to be pending, flushed, torn or doubled.
`CHECK_DEADLOCK FALSE` is set where the system really stops: every message used, the
process gone, no agent left to spawn, every call answered, or the application ended for good.

`AgentProcess_cut` is the one run that is violated: "Busy - finish current work first"
(`process.rs:1282`) is not so, since replies share one `is_busy`.  Further disagreements were seen
and have no run of their own.

Agent process, queue, pool and task agent:

- The parent's `Shutdown`, "exiting immediately" (`process.rs:1290`), only ends the connection it
  came over: `handle_viewer_connection` takes `Ok(true)` as its own end (`ParentShutdown`).
- A `Detach` that carries `exit_when_done = false` takes back an `Exit` of another viewer
  (`process.rs:579`), against "Immediately exit the agent" (`docs/SESSIONS.md:80`).
- Two spawns can both pass the capacity check, so the map exceeds "Maximum number of agents
  allowed" (`pool.rs:285`), by no more than `MapBounded` says; and agents that are awaited
  have left the map and no longer count against it at all.
- `shutdown`, "stopping all agents" (`pool.rs:236`), does not reach agents that are awaited or
  not inserted yet.
- A message queued while the agent is idle waits until some later input has been answered: nothing
  wakes the queue loop, and it stops at the first failure.
- `rl_cancel` before the worker takes the generation off the channel is forgotten
  (`lib.rs:328`); "Request cancellation of an in-flight `rl_generate`" (`lib.rs:865`) holds from then on.
- A crash while the constructor re-enqueues the restored jobs, or inside a write of the
  manifest, loses queued work, against `QueueStore.cs:10`; `QueuedWorkSurvives` is therefore stated
  for every other moment (`hurt`).
- A crash after a finished job's sidecars are dropped and before the manifest forgets it makes the job
  run again without its attachment, over the finished answer (`RunsWithMedia` excepts it).
- "Messages are persisted to ensure they survive agent restarts" (`message_queue.rs:4`): `AgentState::new`
  takes a queue without a file (`state.rs:359`).
- A pending request whose stream fails returns with `is_busy` set (`process.rs:1501`): an agent told
  to "exit after current work" never exits.  `ExitHappens` is checked without that failure.
- `Cancel`, "Cancel the current streaming response" (`docs/SESSIONS.md:77`), has no token to cancel with.
- A reply that streams when plan mode is entered lands in the plan conversation, against "an isolated
  planning context" (`plan_mode.rs:4`).
- `JobDto` has no field for the orchestrator mode (`QueueStore.cs:29`): a restored job runs without it,
  against `GenerationQueue.cs:12`.
- The provider call that exceeds an agent's own limit is not recorded in the session
  (`task_agent.rs:471`), against "after every successful `call_provider`" (`session_budget.rs:141`).
- An error that leaves `execute` by `?` leaves the agent registered and `Working`; a lock that is not
  granted leaves the status `WaitingForLock`; a failed run keeps its checkpoint.
- `check_before_spawn` has no caller outside tests.
- `hibernate` writes its manifest after it has signalled every agent, and `resume_agents` deletes it
  even when some agents failed to come back (`hibernate.rs:278`).

Terminal UI:

- A turn is finalized when the end of its stream comes in a later batch than its tool call
  (`message_processing/mod.rs:952`), although "Don't finalize stream - wait for tool to complete" (`:948`).
- Answering a prompt sets Normal mode while the tool still runs, so a queued message is submitted in
  mid-turn, against "if the agent just finished responding" (`tui/mod.rs:759`); the older tool's
  end then drops the newer stream.
- "Always approve (for session)" (`dialogs.rs:928`) approves once: only tests call
  `record_session_approval`.
- A global key over a prompt leads back to Normal mode: the request stays open and unseen until
  another of its kind replaces it.
- Plan mode is "an isolated planning context separate from the main conversation" (`plan_mode.rs:4`), but the key
  works in mid-turn, and the reply of the main conversation then lands in the plan's; a dialog or an overlay over
  plan mode closes to Normal mode without `exit_plan_mode`, so that messages are submitted to the plan's conversation,
  and the next way in overwrites the saved main one (`:31`): its messages are gone.  `NoMessageLost` excepts these
  (`overwritten`) and no others.
- What is typed in plan mode outside IPC mode is shown and sent to no provider (`:307`).
- Clarifying questions and prompts replace whatever is on screen, although `finalize_stream` "preserves
  dialog modes if open" (`:1233`); a queued message replaces a typed draft.

Web application:

- A port that goes away while it holds the session and waits for it again is granted it once
  more, and a call aborted before it is posted is granted a session nobody releases: then no tab
  gets it any more (`LostOnlyTwoWays`), against "immediately release any held session"
  (`inference.ts:152`).
- A ping that times out drops the core of the moment, and its host keeps the worker and spawns no other
  when it is elected (`inference.ts:204`), against "so the new tab inherits a clean election path"
  (`inference-worker.ts:613`).  `CoreComesBack` and `RpcSettles` except that state (`KeepsDroppedCore`).
- A `coreReady` promise that is replaced leaves the calls that wait on it for good (phase
  `orphaned`); the retry of a call does not wait when the promise has resolved already.
- An election that times out elects the same first tab again (`inference-worker.ts:429`).
- After a reload a queued job reads its priors before it has the session, so it may chain off the
  partial reply that is being resumed, against "the FINISHED previous answer" (`useChatEngine.ts:942`).
- A Stop on a job that waits for the session cancels the resumed generation of another
  conversation (`:2144`), a resumed generation has no Stop of its own, and a Stop during a hang
  is forgotten (`:573`).
- The end of a resumed generation clears `genActive` under the pump, so that a hidden page saves nothing
  (`:569`).
- After a throw what was pending is missing in the row, and a resumed reply may repeat or miss
  pieces, against "always correct" (`:563`).
- Every end of a generation removes the shared entry, whichever tab's it is (`:1828`); a
  second tab runs the manifest's jobs again, against "there's no double-run" (`:2021`).
- Two quick sends put the same prompt in twice: the composer is cleared after the awaits (`:1999`).
- `clearQueue` is never called, against `queue_store.ts:21`.

## Fairness

`AgentProcess!FairProcess` has weak fairness on every spawned task, on the exit poll and on the
end of the process: tokio schedules ready tasks, tokio's `RwLock` is fair, and a provider
stream ends with an answer or an error.  No viewer has to do anything.  The poll is restarted by
every accepted connection (`tokio::select!` drops it), but an instance has finitely many
connections.  `AgentPool!FairPool` has weak fairness on a caller that is inside a call and on
the end of an agent, which `max_iterations` bounds; no call has to be made.  `EngineHandle!FairSpec` has weak fairness on the worker
thread: a command or a step of the model returns, and max_new bounds a generation.
`TaskAgent!FairSpec`: tokio polls every task, a provider answers or fails, a tool returns.
`SessionArbiter!FairSpec` and `CoreElection!FairSpec`: a browser delivers every message of an open
port and fires timers, the core answers what it was asked (its worker runs one call
after the other, and a call that hangs is the ping's business), and a tab that was granted
the session ends what it does with it; nobody has to open, close, abort or tear down anything.
`TuiTurn!FairSpec` has strong fairness on the polls, because each iteration polls every channel
although keys come in between (`tui/events.rs` ticks, so the loop is never blocked);
that a stream and a tool end is the provider's and the tool's, and that the user does not stay
for ever in a dialog, an overlay or plan mode (`Leaves`) is the user's.  `ChatEngine!FairSpec`: the pump and the
resumed generation go on, since every call to the core is answered or rejected
(`CoreElection!RpcSettles`) and the session is granted in the end (`SessionArbiter!AcquireReturns`),
and a read of OPFS ends; the user, the hang, the reload owe nothing.
`GenerationQueue` states its progress as an invariant instead, `PumpNeverIdles`: with a model
loaded there is never a job that waits with no generation running.  The message queue has
no liveness property: the code does not promise that anyone consumes it.

## Proofs

All for arbitrary sets of messages, agents and callers and arbitrary limits.

`MessageQueue` (in `AgentMessages_proofs`): `MessageQueueTypeOK`, `MessageQueueOrdered`, `MessageQueueRefinesBuffer`,
`MessageQueueFileFollows`, `MessageQueueAttempts` and `MessageQueueNeverTwice`, from the
assumptions `QueueLimits` and `QueueModes`.  The inductive invariant `IInv` adds to type and
order that every element of the queue and of the file has been accepted, that what was
accepted is older than the clock, and that a process that is down has an empty queue.  The
clock part is what makes order inductive: a newcomer, or a retry, is younger than everything
in the list, so behind its priority is where it belongs.  The lemmas go from the position
(`InsertPositionSpec`: it exists, everything before it is at least as urgent, what it
displaces is less so) to the list (`InsertedElements`, `InsertedOrdered`) to the step of the
abstract buffer (`InsertIsAdd`).  `NeverTwice` speaks of queue and hand only; it is not
inductive, because `Restart` brings back the file.  `PlaceInv` therefore says of the file too
that, unless it is behind, what is in it is unspent (not in hand, settled or dropped, once
each, with attempts left), and `FileMirrorsQueue` carries that from the queue to the file at every save.

`AgentProcess` (in `AgentMessages_proofs`): `AgentProcessTyped` (`ProcessTypeOK`), `AgentProcessQueuedOnce`
(`QueuedInOnePlace`), `AgentProcessPrompts` (`PromptsBounded`), `AgentProcessPlanReplies`
(`PlanRepliesAdjacent`) and `AgentProcessMainKept` (`MainKeepsPrompts`), from `AgentModes` and `QueueLimits`;
the last one only where no viewer sends ClearHistory, whose purpose is to drop prompts (the
run sends none either).  `ProcessInv` ties the stage of a task to where its message came
from (`StagesOK`); says that a queued message neither answered nor given up waits once or is in one
hand, and that nothing else waits or is held (`PlacesOK`); counts (`CountsOK`); and has the plan input
last in the conversation while its reply streams (`PlanOK`) and a reply only of what was answered
(`RepliesOK`).  `PromptsBounded` is not inductive: a retry adds an entry.  What is, is that a message that
waits with r retries behind it is in each conversation at most r times, and one that streams at most
r + 1 times.  The lists in which a conversation may be (the current one, the saved main one, the
stored plan) satisfy that each for itself, since entering and leaving plan mode only move them.

`AgentPool` (in `Agents_proofs`): `AgentPoolTypeOK`, `AgentPoolMapBounded`, `AgentPoolNoneDetached` and
`AgentPoolReturnedIsGone`, from `PoolSize` and `PoolUsed`.  `PoolInv` says of every handle
that it is in the map or with at most one caller (`HandlesOK`), what a caller's local
variables hold at each point of a call (`CallersOK`), and that the map together with the
callers that have passed the check stay within the bound (`RoomOK`).  `RoomOK` is needed
because `MapBounded` alone does not survive an insert: whoever inserts passed the check
earlier, with others still between check and insert.

`EngineHandle` (in `NativeApp_proofs`): `EngineTyped`, `EngineCutOnlyIfAsked` and `EngineAtMostOneLate`, from
`EngineLimits`.  `EngineInv` says that a call waits in the channel once, unanswered and
untouched by any cancel (`ChannelOK`), that during a generation the flag is up exactly
if a cancel reached that generation (`FlagOK`), and that the piece being delivered is
never one after another late one (`LateOK`).  `FlagOK` is what the store of `false` at the start of a
generation buys: without it a flag from before would be up with nobody reached.

`GenerationQueue` (in `NativeApp_proofs`): `GenerationQueueTyped` (`AppTypeOK`, one generation at a time included), `GenerationQueueAtWork`
(`PumpNeverIdles`), `GenerationQueueMediaKept` (`RunsWithMedia`), `GenerationQueueWorkSurvives`
(`QueuedWorkSurvives`) and `GenerationQueueTurnsAnswered` (`EarlierTurnsAnswered`), from `QueueInputs`.
`AppInv` says what excludes what between send, close, delete and restart (`PhaseOK`); that a job's row
is in a conversation that exists (`ConvsOK`); that what is in memory is in the manifest, and what is in
the manifest was accepted and has not left (`ListedOK`); that list, manifest and what is still to
be restored are all in the order of the rows, a job being sent behind all of them
(`OrderOK`); that the running job is the head of the list unless Delete took it out (`RunningOK`); where
the sidecars of a job still to run are (`MediaOK`); that a job left the queue answered or given
up (`AnswersOK`); and in which list an accepted job is in each phase of the application (`SurvivesOK`).
The order is what `EarlierTurnsAnswered` needs: the earlier turns of the head have rows before its
own, so none of them is in the list, so they have left it.  `RunsWithMedia` needs
`ListedOK`: sidecars are dropped only when a job leaves, and the manifest must not bring it back.

`TaskAgent` (in `Agents_proofs`): `TypesKept`, `VerdictsAgree`, `LocksReturned`, `CheckpointKept`,
`CompletedNotRepeated` and `OvershootBounded`, from `Limits` and `Names`.  Verdicts, lock and checkpoint
are inductive together with the types and with `WayOutOK`, which says at each await of the way out
what has been told by then; `OneVerdict` survives an `Abort` because each await leaves a state that it allows.  The bound on the session's tokens is not: what
every agent may still add has to be counted.  The invariant says that `used` exceeds the limit by at
most one call of each agent that has recorded beyond it and not left the loop; an
agent is counted once because its next check fails, and a finite sum over the agents
(`FiniteSetTheorems`) gives the bound.

`TuiTurn_proofs`: `TypesKept`, `WaitEnds` (`WaitingIsBusy`), `ApprovalNeeded`, `AskersHeard`
(`AskerIsHeard`), `MessagesKept` and `CancelIsFinal`, from `Bounds` and `Prompts`.  `Inv` adds to
them `GatedLeft`: a tool that is counted as gated has left the gate, so that the answer is
tied to the tool whose request the dialog holds.  `NoMessageLost` is inductive together with the types
(`PlansOK`: what is kept aside are conversations of typed messages) and with `PlanKept`: in plan mode there is one saved
conversation, and the one on screen holds every message that `plan`, which `ExitPlan` replaces by it, holds; without
it the way out could lose what the plan's held.  That a cancelled turn is silent rests on
`TurnsOK`: a turn that is open, in the stream, the text or the tool channel, is not queued and
not cancelled, and a cancelled one is not queued.  It is inductive only together with `NoMessageLost`: a message
sent from the queue was queued once, so it cannot be a turn that was cancelled, nor be sent again.
`CancelledSilent` leaves out the two steps that put another conversation on screen, whose entries are
not new.

`CoreElection_proofs`: `ElectionTypes`, `LostCoreIsForgotten` and `AlwaysAnElection`
(`CoreOrElection`).  `CoreInv` joins the types with what the two channels of a tab may hold
(`RouterBox`, `TabBox`: a core, a call or a tab in each message is one that exists), and with
`PortsOpened`: a connected tab was opened.  The two properties are proved together, since a lost core
starts the next election, which must find the old one over.

`SessionArbiter_proofs`: `SessionTypes`, `SessionExclusive` and `SessionLostOnlyTwoWays`, from
`OwnerIsATab` and `NoCallIsNone`.  Neither is inductive: grant, release, abort and the end of a
tab are on their way while the router goes on.  `SessionInv` says for each call that its acquire is in one
place only (message, queue, granted, rejected: `AskOK`), that its use of the core and its
release are where its phase says (`ComputeOK`, `ReleaseOK`), and that what the tab believes, or is about
to be told, is what the router has as `active`, and back (`HoldOK`).  `Exclusive` is then that
the router has one `active`.  `SessionFirstComeFirstServed` is the refinement of `SessionLine`, one lemma
per action (`ReceiveLine`, `OnReleaseLine`, `DisconnectLine` and so on), from `SessionInv` and two facts about the
router: nobody waits while the session is free, and who has been told and has not read it has a port
(`LineInv`).  `OnAcquire` needs the first, or a newcomer would pass a waiter.  The second tells the two
uses of a grant that is read late apart: read by a connected tab, it is the head of the line taking
the session; read by a tab that the timer dropped, the session has moved on already and the line does
not notice.  `disconnectPort` wakes the next waiter before it takes its own waiters out, so its step is
a `Leave` of several calls at once, the woken one included if nobody hears of it.

`ChatEngine_proofs`: `SteppingIsExclusive` (`SteppingHolds`), `StopIsMeant` (`StopHitsItsJob`), `ChatTypes`
(`TypeOK`), `PumpAtWork` (`PumpNeverIdles`), `QueuedWorkIsKept` (`QueuedWorkSurvives`), `AnswerIsStored`
(`AnswerStored`) and `PriorsAreFinished` (`ChainsOffFinished`), from `Jobs` and `Bounds`, in three invariants.  `PageInv`
adds `CancelIsMeant` to the first two: `cancelRef` is up while the pump has a job only because that job was stopped,
which holds because a job that starts, and a recovery, resets it; without it nothing excludes a flag left
over from another job.  `QueueInv` has the types and the pump's rule together, since a step takes the head of the
list, and two facts beside them: `Tracked`, that the entry being tracked is the one of the pump's
generation while it is in the model or hangs, and that a resumed reply and a pump past its request exclude each
other (so that a recovery resumes the job at the head of the queue, and a step has an entry to
advance); and `GoneIsEmpty`, that a page that is gone has nothing in memory, so that the resume at boot
meets no pump.

The third, `ChatInv`, is over those two.  Lists, manifest and restored jobs have each job once, behind
those it was sent behind (`ListsOK`); what is queued is behind the pump's job in the queue, among
the restored jobs, or in the manifest of a page that is gone (`PlacesOK`); the last write of the
manifest is of what waits now, or the page has sent nothing since it read it (`WritesOK`); an entry,
in memory or saved, belongs to a job that runs (`EntriesOK`); the row of a job that has not
started is empty and that of the pump's fresh job is what was shown but for what is pending
(`RowsOK`); and what a job was sent behind is over, resumed, or ahead of it (`PriorsOK`).  They are
proved together because each closes a gap of another: a resume must not meet its own job in the queue, or
a second generation would write its row; a restored list that was not behind the jobs it was sent
behind would start one early; and a kill that finds the manifest out of date would lose what `PlacesOK`
promises.  `hurt`, the jobs that a kill met in the middle of a write or of the restoring, is where the
code does lose: every part that needs it excepts those jobs and no others.

`Lists_proofs` is about `Without`: what it keeps, in which order (`WithoutKeeps`), and the subsequences it
makes.  The lemma `Rest` of the chat engine, that `Without` leaves a list of messages with the same head
unless that is taken out, and the orders of `SessionArbiter` and `GenerationQueue` rest on it.  So does
the refinement above, by way of `WithoutPrepended` (`Without` of a list with one more in front) and
`WithoutSame` (only what is in the list matters of what is taken out).

Out of the prover's reach and left to TLC is liveness: `ExitHappens`, `CallsReturn` (of the pool and of
the engine), `RunEnds`, `QueuedAreSent`, `AcquireReturns`, `CoreComesBack`, `RpcSettles` and
`EveryJobsTurn`.  `ExitFinishesWork` is false of the code and has its counterexample in `AgentProcess_cut`.
Every other property of the runs is a theorem.

## Not modelled

Within the modelled components: the tool loop inside a stream of the agent process (a reply is its end,
success or failure), slash commands over a socket except ClearHistory and exit (a skill or template pushes a user
message that nothing answers, `process.rs:653`, `:687`), SEAL preprocessing and learning, MCP servers, the switches of model and tool
mode, the file locks an agent manages for other processes (the lock manager is a library), the
broadcast of updates to viewers, the live buffers that paint a running reply, a manifest write
that throws, the media handles of the native engine, its death between the end of a load and the kick
(`ChatViewModel.cs:308`: the restored jobs then wait, but no job could run; `SettingsStore.Set` does not throw); of the task agent replans and the
hub's messages; of the terminal UI IPC mode, the MDAP path, a tool task that
panics, exit, the slash commands other than `/plan` and the session picker, of which some edit
the conversation on purpose (`/clear`, undo, a checkpoint restored, a session loaded, skills that add a
message); of the web application a post to the attached core's port that throws (`inference-worker.ts:354`; a posted call
is plain data, and a port does not throw when its other end is gone), the update handshake, cloud and diffusion jobs, tool rounds,
attachments, KV snapshots, other tabs' queues; and texts everywhere.  Whole components not modelled
are listed in `PROJECT.json` with the reason.

## Plan

1. Done: `MessageQueueOps`, `PriorityBuffer`, `MessageQueue`, `AgentProcess`, `AgentPool`,
   `EngineHandle`, `GenerationQueue`.
2. Done: `TaskAgent` with the session budget, `TuiTurn`, `SessionArbiter`, `CoreElection`, `ChatEngine`.
3. Next: `AgentTree` (spawn depth, cascade of signals, hibernate and resume), the agent manager's
   worker slots, `ViewerSync` (snapshot before subscription, broadcast lag) with an abstract
   "viewer converges" specification, the development server's loop.
4. Compositions: `EngineHandle` under `GenerationQueue` through `InferenceClient`; `ChatEngine` of two
   tabs over `SessionArbiter`.
5. Done: theorems for every safety and action property of the runs, the two refinements included.
6. Proofs still to write: the same for the modules of 3 as they come; an abstract specification of
   the desktop queue (a list of accepted jobs from which the head is answered) for
   `GenerationQueue`, as `PriorityBuffer` is for `MessageQueue` and `SessionLine` for
   `SessionArbiter`.
