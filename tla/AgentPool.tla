------------------------------- MODULE AgentPool -------------------------------
(***************************************************************************)
(* agents/pool.rs: a map of background task agents, used by callers that   *)
(* run concurrently (the agent_* tools of tools/agent_pool.rs hold only a  *)
(* read lock on the pool).  One step is what is done under one lock of the *)
(* map.  An agent is its tokio task: TaskAgent runs until it ends.         *)
(***************************************************************************)
EXTENDS Integers, FiniteSets

CONSTANTS AgentId,     (* bound: the agents ever spawned (ids are UUIDs)      *)
          Caller,      (* concurrent users of the pool                        *)
          MaxAgents,   (* max_agents                                          *)
          MayShutdown  (* whether shutdown() is called                        *)

ASSUME PoolSize == MaxAgents \in Nat
ASSUME PoolUsed == IsFiniteSet(Caller) /\ Caller # {} /\ MayShutdown \in BOOLEAN

VARIABLES agents,     (* the keys of the map: agents whose handle it holds    *)
          task,       (* the tokio task of each agent                         *)
          doing,      (* what each caller is in the middle of                 *)
          ids,        (* the ids a caller has collected or is spawning        *)
          joining,    (* the agent whose handle a caller has and awaits       *)
          returned    (* history: results handed to a caller                  *)

poolVars == <<agents, task, doing, ids, joining, returned>>

PoolInit ==
  /\ agents = {} /\ task = [a \in AgentId |-> "none"]
  /\ doing = [c \in Caller |-> "idle"]
  /\ ids = [c \in Caller |-> {}] /\ joining = [c \in Caller |-> {}]
  /\ returned = [a \in AgentId |-> FALSE]

Proceeds(c, from, to) == doing[c] = from /\ doing' = [doing EXCEPT ![c] = to]

\* Mutant: > for >=.
HasRoom_OffByOne == Cardinality(agents) <= MaxAgents
HasRoom == Cardinality(agents) < MaxAgents

\* Bound: every spawn that passes the check finds an id.
IdLeft == Cardinality({c \in Caller : doing[c] = "cleared"})
            < Cardinality({a \in AgentId : task[a] = "none"})

\* spawn_agent: the capacity is read under the read lock, the lock dropped ...
CheckCapacity(c) ==
  /\ HasRoom /\ IdLeft
  /\ Proceeds(c, "idle", "cleared")
  /\ UNCHANGED <<agents, task, ids, joining, returned>>

\* ... the agent built and its task started ...
StartTask(c, a) ==
  /\ Proceeds(c, "cleared", "started")
  /\ task[a] = "none" /\ task' = [task EXCEPT ![a] = "running"]
  /\ ids' = [ids EXCEPT ![c] = {a}]
  /\ UNCHANGED <<agents, joining, returned>>

\* ... and then its handle inserted.
Insert(c) ==
  /\ Proceeds(c, "started", "idle")
  /\ agents' = agents \union ids[c]
  /\ ids' = [ids EXCEPT ![c] = {}]
  /\ UNCHANGED <<task, joining, returned>>

\* abort() only asks: the task goes on to its next await.
Aborted(S) == [a \in AgentId |-> IF a \in S /\ task[a] = "running" THEN "aborted" ELSE task[a]]

StopAgent(c, a) ==
  /\ doing[c] = "idle" /\ a \in agents
  /\ agents' = agents \ {a}
  /\ task' = Aborted({a})
  /\ UNCHANGED <<doing, ids, joining, returned>>

\* Mutant: the map is emptied, which detaches the tasks.
Shutdown_Detaches(c) ==
  /\ MayShutdown /\ doing[c] = "idle"
  /\ agents' = {}
  /\ UNCHANGED <<task, doing, ids, joining, returned>>

Shutdown(c) ==
  /\ MayShutdown /\ doing[c] = "idle"
  /\ agents' = {}
  /\ task' = Aborted(agents)
  /\ UNCHANGED <<doing, ids, joining, returned>>

\* await_completion takes the handle out of the map, then waits on it.
Await(c, a) ==
  /\ Proceeds(c, "idle", "await") /\ a \in agents
  /\ agents' = agents \ {a}
  /\ joining' = [joining EXCEPT ![c] = {a}]
  /\ UNCHANGED <<task, ids, returned>>

\* The join returns once the task has ended, aborted or not.
Joined(c) ==
  /\ \A a \in joining[c] : task[a] = "ended"
  /\ joining' = [joining EXCEPT ![c] = {}]
  /\ returned' = [a \in AgentId |-> returned[a] \/ a \in joining[c]]

Join(c) == Proceeds(c, "await", "idle") /\ Joined(c) /\ UNCHANGED <<agents, task, ids>>

\* await_all collects the keys, then awaits them one by one; those that have
\* gone meanwhile yield "not found".
AwaitAll(c) ==
  /\ Proceeds(c, "idle", "awaitAll")
  /\ ids' = [ids EXCEPT ![c] = agents]
  /\ UNCHANGED <<agents, task, joining, returned>>

\* Mutant: an id that has left the map is waited for.
AwaitNext_Stuck(c) ==
  /\ doing[c] = "awaitAll" /\ joining[c] = {}
  /\ \E a \in ids[c] \intersect agents :
       /\ ids' = [ids EXCEPT ![c] = @ \ {a}]
       /\ agents' = agents \ {a}
       /\ joining' = [joining EXCEPT ![c] = {a}]
  /\ UNCHANGED <<doing, task, returned>>

AwaitNext(c) ==
  /\ doing[c] = "awaitAll" /\ joining[c] = {}
  /\ \E a \in ids[c] :
       /\ ids' = [ids EXCEPT ![c] = @ \ {a}]
       /\ agents' = agents \ {a}
       /\ joining' = [joining EXCEPT ![c] = {a} \intersect agents]
  /\ UNCHANGED <<doing, task, returned>>

JoinNext(c) ==
  /\ doing[c] = "awaitAll" /\ joining[c] # {}
  /\ Joined(c)
  /\ UNCHANGED <<doing, agents, task, ids>>

AwaitedAll(c) ==
  /\ joining[c] = {} /\ ids[c] = {}
  /\ Proceeds(c, "awaitAll", "idle")
  /\ UNCHANGED <<agents, task, ids, joining, returned>>

\* cleanup_completed notes the finished agents under the read lock ...
CleanupScan(c) ==
  /\ Proceeds(c, "idle", "sweep")
  /\ ids' = [ids EXCEPT ![c] = {a \in agents : task[a] = "ended"}]
  /\ UNCHANGED <<agents, task, joining, returned>>

\* ... and takes those still in the map out under the write lock.
CleanupSweep(c) ==
  /\ Proceeds(c, "sweep", "idle")
  /\ agents' = agents \ ids[c]
  /\ returned' = [a \in AgentId |-> returned[a] \/ a \in agents \intersect ids[c]]
  /\ ids' = [ids EXCEPT ![c] = {}]
  /\ UNCHANGED <<task, joining>>

\* An agent completes or fails (max_iterations bounds it), or its abort takes effect.
End(a) ==
  /\ task[a] \in {"running", "aborted"}
  /\ task' = [task EXCEPT ![a] = "ended"]
  /\ UNCHANGED <<agents, doing, ids, joining, returned>>

CallerStep(c) == \/ \E a \in AgentId : StartTask(c, a)
                 \/ Insert(c) \/ Join(c) \/ AwaitNext(c) \/ JoinNext(c) \/ AwaitedAll(c)
                 \/ CleanupSweep(c)

Call(c) == \/ CheckCapacity(c) \/ AwaitAll(c) \/ CleanupScan(c) \/ Shutdown(c)
           \/ \E a \in AgentId : StopAgent(c, a) \/ Await(c, a)

PoolNext == (\E c \in Caller : Call(c) \/ CallerStep(c)) \/ (\E a \in AgentId : End(a))

PoolSpec == PoolInit /\ [][PoolNext]_poolVars

\* Agents end, the lock is fair and a caller in the middle of a call goes on; no
\* call need be made.
FairPool == /\ PoolSpec
            /\ \A c \in Caller : WF_poolVars(CallerStep(c))
            /\ \A a \in AgentId : WF_poolVars(End(a))
--------------------------------------------------------------------------------
PoolTypeOK ==
  /\ agents \subseteq AgentId
  /\ task \in [AgentId -> {"none", "running", "aborted", "ended"}]
  /\ doing \in [Caller -> {"idle", "cleared", "started", "await", "awaitAll", "sweep"}]
  /\ ids \in [Caller -> SUBSET AgentId] /\ joining \in [Caller -> SUBSET AgentId]
  /\ returned \in [AgentId -> BOOLEAN]
  /\ \A c \in Caller : doing[c] = "idle" => ids[c] = {} /\ joining[c] = {}

\* The agents whose handle is in a caller's local variable.
Held(c) == joining[c] \union IF doing[c] = "started" THEN ids[c] ELSE {}

Spawning == {c \in Caller : doing[c] \in {"cleared", "started"}}

(***************************************************************************)
(* The capacity check of spawn_agent is not made under the lock of the     *)
(* insert.  What it still guarantees: the map never exceeds max_agents by  *)
(* more than the other callers that may have passed the check meanwhile.   *)
(***************************************************************************)
MapBounded == Cardinality(agents) <= MaxAgents + Cardinality(Caller) - 1

(***************************************************************************)
(* Dropping a JoinHandle detaches its task.  No interleaving of spawn,     *)
(* stop, await, cleanup and shutdown detaches a running agent: it is in    *)
(* the map, told to stop, or its handle is with exactly one caller.        *)
(***************************************************************************)
NoRunningAgentDetached ==
  \A a \in AgentId : task[a] = "running" =>
    LET with == {c \in Caller : a \in Held(c)} IN
    IF a \in agents THEN with = {} ELSE Cardinality(with) = 1

(***************************************************************************)
(* A result is handed out at most once and never put back: once returned,  *)
(* the agent has ended and no caller or map holds it.                      *)
(***************************************************************************)
ReturnedIsGone ==
  \A a \in AgentId : returned[a] =>
    task[a] = "ended" /\ a \notin agents /\ \A c \in Caller : a \notin Held(c)

(***************************************************************************)
(* Every call returns: an agent that another caller stops, awaits or       *)
(* cleans up under its feet does not leave await_all waiting.              *)
(***************************************************************************)
CallsReturn == \A c \in Caller : (doing[c] # "idle") ~> (doing[c] = "idle")
================================================================================
