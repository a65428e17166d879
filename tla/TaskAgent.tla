-------------------------------- MODULE TaskAgent --------------------------------
(***************************************************************************)
(* agents/task_agent.rs: execute(), the loop of a background task agent:   *)
(* ask the provider, run the tools it names, until the task is complete or *)
(* a limit is reached; and types/session_budget.rs, which the agents of a  *)
(* session share.  One step is what runs between two awaits at which       *)
(* another agent, the pool or a crash of the process could come in; two    *)
(* awaits are one step only when a run cut between them leaves what one    *)
(* cut before or after them leaves.  agents/pool.rs stops an agent in two  *)
(* steps of its own, and a third ends the run at one of its awaits.        *)
(* The file locks, the hub and the checkpoint store are of the framework.  *)
(***************************************************************************)
EXTENDS Integers, FiniteSets

CONSTANTS Agent, Tool,     (* the tool calls a provider may name, by id        *)
          NeedsLock,       (* those that want the write lock of the one file   *)
          MaxIterations,   (* max_iterations                                   *)
          MaxCall,         (* bound: the tokens a provider call uses           *)
          OwnLimit,        (* max_total_tokens of each agent                   *)
          SessionLimit,    (* max_total_tokens of the session                  *)
          MaxStops,        (* bound: agents stopped                            *)
          MaxCrashes       (* bound: crashes of the process                    *)

ASSUME Limits == /\ {MaxIterations, MaxCall, SessionLimit, MaxStops, MaxCrashes} \subseteq Nat
                 /\ OwnLimit \in [Agent -> Nat]
ASSUME Names  == /\ IsFiniteSet(Agent) /\ NeedsLock \subseteq Tool
                 /\ "none" \notin Agent \union Tool

VARIABLES at,          (* where each agent is                                  *)
          iterations, tokens,
          used,        (* tokens_used of the session                           *)
          spawned,     (* agents_spawned                                       *)
          taskStatus,  (* the Task's status                                    *)
          status,      (* the TaskAgentStatus                                  *)
          registered,  (* with the communication hub                           *)
          verdict,     (* how a run on its way out ends                        *)
          verdicts,    (* history: TaskResults broadcast                       *)
          stop,        (* how far stop_agent is with each agent                *)
          batch,       (* the tool calls of the response still to run          *)
          tool,        (* the tool call in hand                                *)
          holder,      (* who holds the lock of the file                       *)
          memory,      (* workflow_checkpoint: the ids completed               *)
          disk,        (* the checkpoint store, which survives a crash         *)
          loadFailed,  (* history: the store could not be read at the start    *)
          crashes

budget == <<used, spawned>>
run    == <<iterations, tokens, verdict>>
public == <<taskStatus, status, registered, verdicts>>
work   == <<batch, tool, holder>>
store  == <<memory, disk, loadFailed>>
vars == <<at, run, budget, public, work, store, stop, crashes>>

None == "none"
All(v) == [a \in Agent |-> v]
Fresh == /\ at = All("new") /\ iterations = All(0) /\ tokens = All(0)
         /\ used = 0 /\ spawned = 0
         /\ taskStatus = All("pending") /\ status = All("idle")
         /\ registered = {} /\ verdicts = All({})
         /\ verdict = All(None) /\ stop = All("no")
         /\ batch = All({}) /\ tool = All(None) /\ holder = None
         /\ memory = All({}) /\ loadFailed = All(FALSE)

Init == Fresh /\ disk = All({}) /\ crashes = 0

Moves(a, from, to) == at[a] = from /\ at' = [at EXCEPT ![a] = to]

--------------------------------------------------------------------------------
\* The agent registers with the hub; a refusal is returned as it is.
Register(a) ==
  /\ \/ Moves(a, "new", "registered") /\ registered' = registered \union {a}
     \/ Moves(a, "new", "error") /\ UNCHANGED registered
  /\ UNCHANGED <<run, budget, taskStatus, status, verdicts, work, store, stop, crashes>>

\* The task is started ...
Begin(a) ==
  /\ Moves(a, "registered", "begun")
  /\ taskStatus' = [taskStatus EXCEPT ![a] = "in_progress"]
  /\ UNCHANGED <<run, budget, status, registered, verdicts, work, store, stop, crashes>>

\* ... the agent says that it works ...
Announce(a) ==
  /\ Moves(a, "begun", "announced")
  /\ status' = [status EXCEPT ![a] = "working"]
  /\ UNCHANGED <<run, budget, taskStatus, registered, verdicts, work, store, stop, crashes>>

\* ... and is counted in the session; a checkpoint left by an earlier run of the
\* task is loaded, and a store that cannot be read is as good as empty.
Load(a) ==
  /\ Moves(a, "announced", "top")
  /\ spawned' = spawned + 1
  /\ \/ memory' = [memory EXCEPT ![a] = disk[a]] /\ UNCHANGED loadFailed
     \/ disk[a] # {} /\ loadFailed' = [loadFailed EXCEPT ![a] = TRUE] /\ UNCHANGED memory
  /\ UNCHANGED <<run, used, public, work, disk, stop, crashes>>

\* The variables of the loop, which nothing reads once the run has left it.
LeavesLoop(a) ==
  /\ iterations' = [iterations EXCEPT ![a] = 0] /\ tokens' = [tokens EXCEPT ![a] = 0]
  /\ memory' = [memory EXCEPT ![a] = {}] /\ loadFailed' = [loadFailed EXCEPT ![a] = FALSE]
InLoop == UNCHANGED <<iterations, tokens, memory, loadFailed>>

\* A run goes out with a verdict, which nobody has been told yet.
Closes(a, outcome) ==
  /\ at' = [at EXCEPT ![a] = "tellTask"] /\ verdict' = [verdict EXCEPT ![a] = outcome]
  /\ LeavesLoop(a)

\* A run stays on its way, at another place of it.
Goes(a, to) == at' = [at EXCEPT ![a] = to] /\ UNCHANGED verdict

\* The guard of a tool call is dropped with the step of the loop it belongs to.
DropGuard(a) == holder' = IF holder = a THEN None ELSE holder

\* A run is over: all its local variables, the guard among them, are dropped.
IsOver(a, how) ==
  /\ at' = [at EXCEPT ![a] = how] /\ verdict' = [verdict EXCEPT ![a] = None]
  /\ batch' = [batch EXCEPT ![a] = {}] /\ tool' = [tool EXCEPT ![a] = None]
  /\ DropGuard(a) /\ LeavesLoop(a)

OutOfIterations(a) == iterations[a] + 1 >= MaxIterations

\* The top of the loop: the clock, then the iteration limit (a message of the hub
\* only adds to the history).
Iterate(a) ==
  /\ at[a] = "top"
  /\ \/ Closes(a, "failed")                                \* timeout_secs have passed
     \/ OutOfIterations(a) /\ Closes(a, "failed")
     \/ /\ ~OutOfIterations(a) /\ Goes(a, "calling")
        /\ iterations' = [iterations EXCEPT ![a] = @ + 1]
        /\ UNCHANGED <<tokens, memory, loadFailed>>
  /\ UNCHANGED <<budget, public, work, disk, stop, crashes>>

\* Mutant: the session is told the agent's total each time.
Respond_Total(a, n) ==
  /\ at[a] = "calling"
  /\ IF tokens[a] + n > OwnLimit[a]
     THEN Closes(a, "failed") /\ UNCHANGED used
     ELSE /\ Goes(a, "recorded") /\ used' = used + tokens[a] + n
          /\ tokens' = [tokens EXCEPT ![a] = @ + n]
          /\ UNCHANGED <<iterations, memory, loadFailed>>
  /\ UNCHANGED <<spawned, public, work, disk, stop, crashes>>

\* The provider answers: the agent's own limit comes first, and a response that
\* exceeds it is not recorded in the session.
Respond(a, n) ==
  /\ at[a] = "calling"
  /\ IF tokens[a] + n > OwnLimit[a]
     THEN Closes(a, "failed") /\ UNCHANGED used
     ELSE /\ Goes(a, "recorded") /\ used' = used + n
          /\ tokens' = [tokens EXCEPT ![a] = @ + n]
          /\ UNCHANGED <<iterations, memory, loadFailed>>
  /\ UNCHANGED <<spawned, public, work, disk, stop, crashes>>

\* A provider error is returned as it is: nobody is told and nothing is undone.
ProviderFails(a) ==
  /\ at[a] = "calling" /\ IsOver(a, "error")
  /\ UNCHANGED <<budget, public, disk, stop, crashes>>

\* check_limits: a run may end exactly at the limit.
WithinSession == used <= SessionLimit

\* check_limits, then what the response says: the end of the task, or tools.
CheckSession(a) ==
  /\ at[a] = "recorded"
  /\ IF WithinSession
     THEN InLoop /\ \/ Goes(a, "validating") /\ batch' = batch
                    \/ \E tools \in SUBSET Tool \ {{}} :
                         Goes(a, "tools") /\ batch' = [batch EXCEPT ![a] = tools]
     ELSE Closes(a, "failed") /\ batch' = batch
  /\ UNCHANGED <<budget, public, tool, holder, disk, stop, crashes>>

\* Mutant: feedback goes straight to the provider.
Validate_Recalls(a) ==
  /\ at[a] = "validating"
  /\ (Goes(a, "calling") /\ InLoop) \/ Closes(a, "completed")
  /\ UNCHANGED <<budget, public, work, disk, stop, crashes>>

\* attempt_validated_completion: feedback and another iteration, or the way out.
Validate(a) ==
  /\ at[a] = "validating"
  /\ (Goes(a, "top") /\ InLoop) \/ Closes(a, "completed")
  /\ UNCHANGED <<budget, public, work, disk, stop, crashes>>

\* Mutant: a completed call is not skipped.
NextTool_NoSkip(a, i) ==
  /\ at[a] = "tools" /\ i \in batch[a]
  /\ batch' = [batch EXCEPT ![a] = @ \ {i}]
  /\ tool' = [tool EXCEPT ![a] = i] /\ at' = [at EXCEPT ![a] = "locking"]
  /\ status' = [status EXCEPT ![a] = IF i \in NeedsLock THEN "waiting" ELSE "working"]
  /\ UNCHANGED <<run, budget, taskStatus, registered, verdicts, holder, store, stop, crashes>>

\* The next call of the response; one completed in an earlier run is skipped.
\* (The order within a response is left open.)
NextTool(a, i) ==
  /\ at[a] = "tools" /\ i \in batch[a]
  /\ batch' = [batch EXCEPT ![a] = @ \ {i}]
  /\ IF i \in memory[a]
     THEN UNCHANGED <<at, tool, status>>
     ELSE /\ tool' = [tool EXCEPT ![a] = i] /\ at' = [at EXCEPT ![a] = "locking"]
          /\ status' = [status EXCEPT ![a] = IF i \in NeedsLock THEN "waiting" ELSE "working"]
  /\ UNCHANGED <<run, budget, taskStatus, registered, verdicts, holder, store, stop, crashes>>

\* acquire_lock fails at once when the file is locked: the tool call has an error for
\* its result, and the status is left as it is.
Lock(a) ==
  /\ at[a] = "locking"
  /\ IF tool[a] \in NeedsLock /\ holder # None
     THEN /\ at' = [at EXCEPT ![a] = "tools"] /\ tool' = [tool EXCEPT ![a] = None]
          /\ UNCHANGED <<status, holder>>
     ELSE /\ at' = [at EXCEPT ![a] = "executing"] /\ tool' = tool
          /\ status' = [status EXCEPT ![a] = "working"]
          /\ holder' = IF tool[a] \in NeedsLock THEN a ELSE holder
  /\ UNCHANGED <<run, budget, taskStatus, registered, verdicts, batch, store, stop, crashes>>

\* The tool has run: its result is an error (nothing is remembered), or the run ends
\* with the executor's own error, or the checkpoint is to be written.
Execute(a) ==
  /\ at[a] = "executing"
  /\ \/ /\ Goes(a, "tools") /\ tool' = [tool EXCEPT ![a] = None] /\ DropGuard(a)
        /\ InLoop /\ UNCHANGED batch
     \/ IsOver(a, "error")
     \/ Goes(a, "ran") /\ InLoop /\ UNCHANGED work
  /\ UNCHANGED <<budget, public, disk, stop, crashes>>

\* mark_step_complete: in memory only what reached the disk.
Mark(a) ==
  /\ Moves(a, "ran", "tools")
  /\ \/ /\ disk' = [disk EXCEPT ![a] = @ \union {tool[a]}]
        /\ memory' = [memory EXCEPT ![a] = @ \union {tool[a]}]
     \/ UNCHANGED <<disk, memory>>
  /\ tool' = [tool EXCEPT ![a] = None] /\ DropGuard(a)
  /\ UNCHANGED <<run, budget, public, batch, loadFailed, stop, crashes>>

\* The batch is done and the loop goes round.
BatchDone(a) ==
  /\ batch[a] = {} /\ Moves(a, "tools", "top")
  /\ UNCHANGED <<run, budget, public, work, store, stop, crashes>>

--------------------------------------------------------------------------------
\* Mutant: an agent leaves the hub before it has said how it ended.
Follows_LeavesFirst == [tellTask   |-> "tellStatus", tellStatus |-> "leaveHub",
                        tellResult |-> "freeLocks",  leaveHub   |-> "tellResult"]

\* The way out, which fail_agent, the iteration limit and the end of
\* attempt_validated_completion share, with an await at every step of it.
Follows == [tellTask   |-> "tellStatus", tellStatus |-> "tellResult",
            tellResult |-> "leaveHub",   leaveHub   |-> "freeLocks"]

TellTask(a) ==
  /\ Moves(a, "tellTask", Follows.tellTask)
  /\ taskStatus' = [taskStatus EXCEPT ![a] = verdict[a]]
  /\ UNCHANGED <<run, budget, status, registered, verdicts, work, store, stop, crashes>>

TellStatus(a) ==
  /\ Moves(a, "tellStatus", Follows.tellStatus)
  /\ status' = [status EXCEPT ![a] = verdict[a]]
  /\ UNCHANGED <<run, budget, taskStatus, registered, verdicts, work, store, stop, crashes>>

TellResult(a) ==
  /\ Moves(a, "tellResult", Follows.tellResult)
  /\ verdicts' = [verdicts EXCEPT ![a] = @ \union {verdict[a]}]
  /\ UNCHANGED <<run, budget, taskStatus, status, registered, work, store, stop, crashes>>

LeaveHub(a) ==
  /\ Moves(a, "leaveHub", Follows.leaveHub)
  /\ registered' = registered \ {a}
  /\ UNCHANGED <<run, budget, taskStatus, status, verdicts, work, store, stop, crashes>>

\* release_all_locks, after which a failed run returns.
FreeLocks(a) ==
  /\ at[a] = "freeLocks"
  /\ IF verdict[a] = "completed"
     THEN Goes(a, "forget") /\ DropGuard(a) /\ InLoop /\ UNCHANGED <<batch, tool>>
     ELSE IsOver(a, "failed")
  /\ UNCHANGED <<budget, public, disk, stop, crashes>>

\* A completed run deletes its checkpoint first; a failure to is ignored.
Forget(a) ==
  /\ at[a] = "forget" /\ IsOver(a, "completed")
  /\ disk' \in {disk, [disk EXCEPT ![a] = {}]}
  /\ UNCHANGED <<budget, public, stop, crashes>>

--------------------------------------------------------------------------------
Starting == {"registered", "begun", "announced"}
Running  == {"top", "calling", "recorded", "validating", "tools", "locking", "executing", "ran"}
Closing  == {"tellTask", "tellStatus", "tellResult", "leaveHub", "freeLocks", "forget"}
Ended    == {"completed", "failed"}
Over     == Ended \union {"error", "aborted"}

\* stop_agent and shutdown take the agent out of the pool and ask its task to end ...
\* (The stop of a run that is over changes nothing here.)
AskToStop(a) ==
  /\ stop[a] = "no" /\ at[a] \notin Over
  /\ Cardinality({b \in Agent : stop[b] # "no"}) < MaxStops
  /\ stop' = [stop EXCEPT ![a] = "asked"]
  /\ UNCHANGED <<at, run, budget, public, work, store, crashes>>

\* ... and release its locks, whether or not the task has ended.
ReleaseLocksOf(a) ==
  /\ stop[a] = "asked" /\ stop' = [stop EXCEPT ![a] = "released"]
  /\ DropGuard(a)
  /\ UNCHANGED <<at, run, budget, public, batch, tool, store, crashes>>

\* The task ends at an await that does not return at once: from here the run does
\* nothing more.  (There is no await between the record of a call and its check.)
Abort(a) ==
  /\ stop[a] # "no" /\ at[a] \notin Over \union {"recorded"}
  /\ IsOver(a, "aborted")
  /\ UNCHANGED <<budget, public, disk, stop, crashes>>

\* The process dies; the tasks are started again in a new one.
Crash ==
  /\ crashes < MaxCrashes /\ crashes' = crashes + 1
  /\ at' = All("new") /\ iterations' = All(0) /\ tokens' = All(0)
  /\ used' = 0 /\ spawned' = 0
  /\ taskStatus' = All("pending") /\ status' = All("idle")
  /\ registered' = {} /\ verdicts' = All({})
  /\ verdict' = All(None) /\ stop' = All("no")
  /\ batch' = All({}) /\ tool' = All(None) /\ holder' = None
  /\ memory' = All({}) /\ loadFailed' = All(FALSE)
  /\ UNCHANGED disk

--------------------------------------------------------------------------------
Step(a) == \/ Register(a) \/ Begin(a) \/ Announce(a) \/ Load(a)
           \/ Iterate(a) \/ (\E n \in 0 .. MaxCall : Respond(a, n))
           \/ ProviderFails(a) \/ CheckSession(a) \/ Validate(a)
           \/ (\E i \in Tool : NextTool(a, i)) \/ Lock(a) \/ Execute(a) \/ Mark(a)
           \/ BatchDone(a)
           \/ TellTask(a) \/ TellStatus(a) \/ TellResult(a) \/ LeaveHub(a)
           \/ FreeLocks(a) \/ Forget(a)

Stopped(a) == AskToStop(a) \/ ReleaseLocksOf(a) \/ Abort(a)

Next == (\E a \in Agent : Step(a) \/ Stopped(a)) \/ Crash

Spec == Init /\ [][Next]_vars

\* The runtime polls every task, a provider answers or fails, a tool returns.
FairSpec == Spec /\ \A a \in Agent : WF_vars(Step(a))
--------------------------------------------------------------------------------
\* A run's loop passes its top at most MaxIterations times, and at least once.
Passes == IF MaxIterations = 0 THEN 1 ELSE MaxIterations

TypeOK ==
  /\ at \in [Agent -> {"new"} \union Starting \union Running \union Closing \union Over]
  /\ iterations \in [Agent -> 0 .. Passes] /\ tokens \in [Agent -> Nat]
  /\ used \in Nat /\ spawned \in Nat
  /\ taskStatus \in [Agent -> {"pending", "in_progress"} \union Ended]
  /\ status \in [Agent -> {"idle", "working", "waiting"} \union Ended]
  /\ registered \subseteq Agent /\ verdicts \in [Agent -> SUBSET Ended]
  /\ verdict \in [Agent -> Ended \union {None}]
  /\ stop \in [Agent -> {"no", "asked", "released"}]
  /\ batch \in [Agent -> SUBSET Tool] /\ tool \in [Agent -> Tool \union {None}]
  /\ holder \in Agent \union {None}
  /\ memory \in [Agent -> SUBSET Tool] /\ disk \in [Agent -> SUBSET Tool]
  /\ loadFailed \in [Agent -> BOOLEAN] /\ crashes \in 0 .. MaxCrashes

(***************************************************************************)
(* How a run ended is told in one order, at every await of the way out and *)
(* for good if stop_agent cuts it there: the task says it before the       *)
(* status, the status before a TaskResult, and the agent leaves the hub    *)
(* only once its TaskResult is out; each repeats the one before it, so     *)
(* there is never a second verdict.  A run that is not over, or ended with *)
(* an error, has said nothing; one that returned has said all of it.       *)
(***************************************************************************)
OneVerdict ==
  \A a \in Agent :
    /\ status[a] \in Ended => taskStatus[a] = status[a]
    /\ \A outcome \in verdicts[a] : status[a] = outcome
    /\ taskStatus[a] # "pending" /\ a \notin registered => verdicts[a] # {}
    /\ at[a] \in Starting \union Running \union {"error"} => taskStatus[a] \notin Ended
    /\ at[a] \in Ended => verdicts[a] = {at[a]} /\ a \notin registered

(***************************************************************************)
(* The lock of a file is held only while a tool runs under it, and a tool  *)
(* that wants it runs under it: no way out of the loop, and no error, keeps*)
(* it, and it is taken from under a running tool only by a stop_agent that *)
(* did not wait for the task to end.                                       *)
(***************************************************************************)
LockedOnlyByATool ==
  \A a \in Agent :
    LET under == at[a] \in {"executing", "ran"} /\ tool[a] \in NeedsLock IN
    /\ holder = a => under
    /\ under => holder = a \/ stop[a] = "released"

(***************************************************************************)
(* The session's tokens exceed the limit by no more than one call of each  *)
(* agent, in whatever order they record and check: an agent whose check    *)
(* fails never calls again.                                                *)
(***************************************************************************)
Overshoot == used <= SessionLimit + MaxCall * Cardinality(Agent)

(***************************************************************************)
(* The checkpoint in memory is the one on disk, unless that could not be   *)
(* read: then it is a part of it.  A tool call whose completion was        *)
(* written is never run again by a run that could read the store.          *)
(***************************************************************************)
CheckpointMirrored ==
  \A a \in Agent : at[a] \in Running =>
    memory[a] \subseteq disk[a] /\ (memory[a] = disk[a] \/ loadFailed[a])

NeverRunAgain ==
  \A a \in Agent : at[a] = "executing" /\ tool[a] \in disk[a] => loadFailed[a]

(***************************************************************************)
(* A run ends: the iterations are bounded whatever the provider says, the  *)
(* tools return and validation asks.                                       *)
(***************************************************************************)
RunEnds == \A a \in Agent : at[a] \in Starting \union Running \union Closing ~> at[a] \in Over
================================================================================
