------------------------------ MODULE Agents_proofs ------------------------------
(***************************************************************************)
(* Proofs about background task agents: AgentPool, for every set of        *)
(* agents, every finite set of callers and every capacity, and TaskAgent,  *)
(* for every finite set of agents, every set of tool calls and every limit.*)
(***************************************************************************)
EXTENDS AgentPool, TaskAgent, FiniteSetTheorems, TLAPS

-----------------------------------------------------------------------------
(* The inductive invariant of AgentPool. *)

\* What the stage of a caller says of its local variables.
CallersOK ==
  \A c \in Caller :
    /\ doing[c] \in {"idle", "cleared", "await"} => ids[c] = {}
    /\ joining[c] # {} => doing[c] \in {"await", "awaitAll"}
    /\ doing[c] = "sweep" => \A a \in ids[c] : task[a] = "ended"

\* The map and the callers share out the handles of the started agents.
HandlesOK ==
  /\ \A a \in agents : task[a] # "none"
  /\ \A c \in Caller : \A a \in Held(c) : task[a] # "none" /\ a \notin agents
  /\ \A c, d \in Caller : c # d => Held(c) \intersect Held(d) = {}
  /\ \A a \in AgentId : task[a] = "running" =>
       a \in agents \/ \E c \in Caller : a \in Held(c)

\* A caller between check and insert counts against the capacity like an agent.
RoomOK ==
  /\ IsFiniteSet(agents)
  /\ Cardinality(agents) + Cardinality(Spawning) <= MaxAgents + Cardinality(Caller) - 1
  /\ \A c \in Caller : doing[c] = "started" => \E a \in AgentId : ids[c] = {a}

PoolInv == PoolTypeOK /\ CallersOK /\ HandlesOK /\ ReturnedIsGone /\ RoomOK
-----------------------------------------------------------------------------
(* A stuttering step disturbs nothing. *)
LEMMA PoolStutter == ASSUME PoolInv, UNCHANGED poolVars PROVE PoolInv'
  BY DEF PoolInv, PoolTypeOK, CallersOK, HandlesOK, ReturnedIsGone, RoomOK, Held, Spawning,
          poolVars

(* Nothing is held, spawned or returned initially. *)
LEMMA PoolEmpty == ASSUME PoolInit PROVE PoolInv
<1> USE DEF PoolInit
<1>1. PoolTypeOK BY DEF PoolTypeOK
<1>2. CallersOK BY DEF CallersOK
<1>3. HandlesOK BY DEF HandlesOK, Held
<1>4. ReturnedIsGone BY DEF ReturnedIsGone
<1>5. RoomOK
  <2>1. Spawning = {} BY DEF Spawning
  <2>2. Cardinality(Caller) \in Nat /\ Cardinality(Caller) # 0
    BY PoolUsed, FS_CardinalityType, FS_EmptySet
  <2>3. IsFiniteSet(agents) /\ Cardinality(agents) = 0 /\ Cardinality(Spawning) = 0
    BY <2>1, FS_EmptySet
  <2>4. \A c \in Caller : doing[c] # "started" OBVIOUS
  <2> QED BY <2>2, <2>3, <2>4, PoolSize DEF RoomOK
<1> QED BY <1>1, <1>2, <1>3, <1>4, <1>5 DEF PoolInv

(* Each step keeps the types. *)
LEMMA PoolType == ASSUME PoolInv, PoolNext PROVE PoolTypeOK'
<1> USE DEF PoolInv, PoolTypeOK, CallersOK, Proceeds
<1>1. ASSUME NEW c \in Caller, Call(c) PROVE PoolTypeOK'
  <2>1. CASE CheckCapacity(c) BY <2>1 DEF CheckCapacity
  <2>2. CASE AwaitAll(c) BY <2>2 DEF AwaitAll
  <2>3. CASE CleanupScan(c) BY <2>3 DEF CleanupScan
  <2>4. CASE Shutdown(c) BY <2>4 DEF Shutdown, Aborted
  <2>5. ASSUME NEW a \in AgentId, StopAgent(c, a) PROVE PoolTypeOK'
    BY <2>5 DEF StopAgent, Aborted
  <2>6. ASSUME NEW a \in AgentId, Await(c, a) PROVE PoolTypeOK' BY <2>6 DEF Await
  <2> QED BY <1>1, <2>1, <2>2, <2>3, <2>4, <2>5, <2>6 DEF Call
<1>2. ASSUME NEW c \in Caller, CallerStep(c) PROVE PoolTypeOK'
  <2>1. ASSUME NEW a \in AgentId, StartTask(c, a) PROVE PoolTypeOK' BY <2>1 DEF StartTask
  <2>2. CASE Insert(c) BY <2>2 DEF Insert
  <2>3. CASE Join(c) BY <2>3 DEF Join, Joined
  <2>4. CASE AwaitNext(c) BY <2>4 DEF AwaitNext
  <2>5. CASE JoinNext(c) BY <2>5 DEF JoinNext, Joined
  <2>6. CASE AwaitedAll(c) BY <2>6 DEF AwaitedAll
  <2>7. CASE CleanupSweep(c) BY <2>7 DEF CleanupSweep
  <2> QED BY <1>2, <2>1, <2>2, <2>3, <2>4, <2>5, <2>6, <2>7 DEF CallerStep
<1>3. ASSUME NEW a \in AgentId, End(a) PROVE PoolTypeOK' BY <1>3 DEF End
<1> QED BY <1>1, <1>2, <1>3 DEF PoolNext

(* Each step keeps what callers, handles and results have to do with each other. *)
LEMMA PoolHandles ==
  ASSUME PoolInv, PoolNext PROVE CallersOK' /\ HandlesOK' /\ ReturnedIsGone'
<1> DEFINE Goal == CallersOK' /\ HandlesOK' /\ ReturnedIsGone'
<1> USE DEF PoolInv, PoolTypeOK, CallersOK, HandlesOK, ReturnedIsGone, Held, Proceeds
<1>1. ASSUME NEW c \in Caller, Call(c) PROVE Goal
  <2>1. CASE CheckCapacity(c) BY <2>1 DEF CheckCapacity
  <2>2. CASE AwaitAll(c) BY <2>2 DEF AwaitAll
  <2>3. CASE CleanupScan(c) BY <2>3 DEF CleanupScan
  <2>4. CASE Shutdown(c) BY <2>4 DEF Shutdown, Aborted
  <2>5. ASSUME NEW a \in AgentId, StopAgent(c, a) PROVE Goal BY <2>5 DEF StopAgent, Aborted
  <2>6. ASSUME NEW a \in AgentId, Await(c, a) PROVE Goal BY <2>6 DEF Await
  <2> QED BY <1>1, <2>1, <2>2, <2>3, <2>4, <2>5, <2>6 DEF Call
<1>2. ASSUME NEW c \in Caller, CallerStep(c) PROVE Goal
  <2>1. ASSUME NEW a \in AgentId, StartTask(c, a) PROVE Goal BY <2>1 DEF StartTask
  <2>2. CASE Insert(c) BY <2>2 DEF Insert
  <2>3. CASE Join(c) BY <2>3 DEF Join, Joined
  <2>4. CASE AwaitNext(c) BY <2>4 DEF AwaitNext
  <2>5. CASE JoinNext(c) BY <2>5 DEF JoinNext, Joined
  <2>6. CASE AwaitedAll(c) BY <2>6 DEF AwaitedAll
  <2>7. CASE CleanupSweep(c) BY <2>7 DEF CleanupSweep
  <2> QED BY <1>2, <2>1, <2>2, <2>3, <2>4, <2>5, <2>6, <2>7 DEF CallerStep
<1>3. ASSUME NEW a \in AgentId, End(a) PROVE Goal BY <1>3 DEF End
<1> QED BY <1>1, <1>2, <1>3 DEF PoolNext

(* Removing agents, with no caller entering spawn_agent, keeps the room. *)
LEMMA RoomShrinks ==
  ASSUME RoomOK, agents' \subseteq agents, Spawning' = Spawning,
         \A c \in Caller : doing'[c] = "started" => doing[c] = "started" /\ ids'[c] = ids[c]
  PROVE  RoomOK'
<1>1. IsFiniteSet(agents') /\ Cardinality(agents') <= Cardinality(agents)
  BY FS_Subset DEF RoomOK
<1>2. IsFiniteSet(Spawning) BY PoolUsed, FS_Subset DEF Spawning
<1>3. /\ Cardinality(agents) \in Nat /\ Cardinality(agents') \in Nat
      /\ Cardinality(Spawning) \in Nat /\ Cardinality(Caller) \in Nat
  BY <1>1, <1>2, PoolUsed, FS_CardinalityType DEF RoomOK
<1>4. Cardinality(Spawning') = Cardinality(Spawning) OBVIOUS
<1>5. \A c \in Caller : doing'[c] = "started" => \E a \in AgentId : ids'[c] = {a} BY DEF RoomOK
<1> QED BY <1>1, <1>3, <1>4, <1>5, PoolSize DEF RoomOK

(* Each step keeps the room. *)
LEMMA PoolRoom == ASSUME PoolInv, PoolNext PROVE RoomOK'
<1> USE DEF PoolInv, PoolTypeOK, Proceeds
<1>1. ASSUME NEW c \in Caller, CheckCapacity(c) PROVE RoomOK'
  <2>1. agents' = agents /\ Cardinality(agents) < MaxAgents
    BY <1>1 DEF CheckCapacity, HasRoom
  <2>2. Spawning' \subseteq Caller BY DEF Spawning
  <2>3. IsFiniteSet(Spawning') /\ Cardinality(Spawning') <= Cardinality(Caller)
    BY <2>2, PoolUsed, FS_Subset
  <2>4. /\ Cardinality(agents) \in Nat /\ Cardinality(Spawning') \in Nat
        /\ Cardinality(Caller) \in Nat
    BY <2>3, PoolUsed, FS_CardinalityType DEF RoomOK
  <2>5. \A d \in Caller : doing'[d] = "started" => \E a \in AgentId : ids'[d] = {a}
    BY <1>1 DEF CheckCapacity, RoomOK
  <2> QED BY <2>1, <2>3, <2>4, <2>5, PoolSize DEF RoomOK
<1>2. ASSUME NEW c \in Caller, NEW a \in AgentId, StartTask(c, a) PROVE RoomOK'
  <2>1. agents' = agents /\ Spawning' = Spawning BY <1>2 DEF StartTask, Spawning
  <2>2. \A d \in Caller : doing'[d] = "started" => \E b \in AgentId : ids'[d] = {b}
    BY <1>2 DEF StartTask, RoomOK
  <2> QED BY <2>1, <2>2 DEF RoomOK
<1>3. ASSUME NEW c \in Caller, Insert(c) PROVE RoomOK'
  <2>1. PICK a \in AgentId : ids[c] = {a} BY <1>3 DEF Insert, RoomOK
  <2>2. agents' = agents \union {a} BY <1>3, <2>1 DEF Insert
  <2>3. /\ IsFiniteSet(agents')
        /\ Cardinality(agents') <= Cardinality(agents) + 1
        /\ Cardinality(agents) \in Nat /\ Cardinality(agents') \in Nat
    <3>1. IsFiniteSet(agents') BY <2>2, FS_AddElement DEF RoomOK
    <3>2. Cardinality(agents) \in Nat /\ Cardinality(agents') \in Nat
      BY <3>1, FS_CardinalityType DEF RoomOK
    <3>3. Cardinality(agents') = IF a \in agents THEN Cardinality(agents)
                                                 ELSE Cardinality(agents) + 1
      BY <2>2, FS_AddElement DEF RoomOK
    <3> QED BY <3>1, <3>2, <3>3
  <2>4. c \in Spawning /\ Spawning' = Spawning \ {c} BY <1>3 DEF Insert, Spawning
  <2>5. IsFiniteSet(Spawning) BY PoolUsed, FS_Subset DEF Spawning
  <2>6. /\ Cardinality(Spawning) \in Nat /\ Cardinality(Caller) \in Nat
        /\ Cardinality(Spawning') = Cardinality(Spawning) - 1
    BY <2>4, <2>5, PoolUsed, FS_CardinalityType, FS_RemoveElement
  <2>7. \A d \in Caller : doing'[d] = "started" => \E b \in AgentId : ids'[d] = {b}
    BY <1>3 DEF Insert, RoomOK
  <2> QED BY <2>3, <2>6, <2>7, PoolSize DEF RoomOK
<1>4. ASSUME NEW c \in Caller, Call(c), ~CheckCapacity(c) PROVE RoomOK'
  <2>1. CASE AwaitAll(c) BY <2>1, RoomShrinks DEF AwaitAll, Spawning
  <2>2. CASE CleanupScan(c) BY <2>2, RoomShrinks DEF CleanupScan, Spawning
  <2>3. CASE Shutdown(c) BY <2>3, RoomShrinks DEF Shutdown, Spawning
  <2>4. ASSUME NEW a \in AgentId, StopAgent(c, a) PROVE RoomOK'
    BY <2>4, RoomShrinks DEF StopAgent, Spawning
  <2>5. ASSUME NEW a \in AgentId, Await(c, a) PROVE RoomOK'
    BY <2>5, RoomShrinks DEF Await, Spawning
  <2> QED BY <1>4, <2>1, <2>2, <2>3, <2>4, <2>5 DEF Call
<1>5. ASSUME NEW c \in Caller, CallerStep(c), ~Insert(c),
             \A a \in AgentId : ~StartTask(c, a)
      PROVE  RoomOK'
  <2>1. CASE Join(c) BY <2>1, RoomShrinks DEF Join, Spawning
  <2>2. CASE AwaitNext(c) BY <2>2, RoomShrinks DEF AwaitNext, Spawning
  <2>3. CASE JoinNext(c) BY <2>3, RoomShrinks DEF JoinNext, Spawning
  <2>4. CASE AwaitedAll(c) BY <2>4, RoomShrinks DEF AwaitedAll, Spawning
  <2>5. CASE CleanupSweep(c) BY <2>5, RoomShrinks DEF CleanupSweep, Spawning
  <2> QED BY <1>5, <2>1, <2>2, <2>3, <2>4, <2>5 DEF CallerStep
<1>6. ASSUME NEW a \in AgentId, End(a) PROVE RoomOK'
  BY <1>6, RoomShrinks DEF End, Spawning
<1> QED BY <1>1, <1>2, <1>3, <1>4, <1>5, <1>6 DEF PoolNext

(* PoolInv is inductive and holds of every reachable state. *)
LEMMA PoolInvariant == PoolSpec => []PoolInv
<1>1. PoolInit => PoolInv BY PoolEmpty
<1>2. PoolInv /\ [PoolNext]_poolVars => PoolInv'
  <2>1. ASSUME PoolInv, PoolNext PROVE PoolInv'
    BY <2>1, PoolType, PoolHandles, PoolRoom DEF PoolInv
  <2> QED BY <2>1, PoolStutter
<1> QED BY <1>1, <1>2, PTL DEF PoolSpec
-----------------------------------------------------------------------------
(* Every variable keeps its type. *)
THEOREM AgentPoolTypeOK == PoolSpec => []PoolTypeOK
<1>1. PoolInv => PoolTypeOK BY DEF PoolInv
<1> QED BY <1>1, PoolInvariant, PTL

(***************************************************************************)
(* spawn_agent checks the capacity and inserts under different locks: with *)
(* n callers the map never holds more than max_agents + n - 1 agents.      *)
(***************************************************************************)
THEOREM AgentPoolMapBounded == PoolSpec => []MapBounded
<1>1. ASSUME PoolInv PROVE MapBounded
  <2>1. IsFiniteSet(Spawning) BY PoolUsed, FS_Subset DEF Spawning
  <2>2. /\ Cardinality(agents) \in Nat /\ Cardinality(Spawning) \in Nat
        /\ Cardinality(Caller) \in Nat
    BY <1>1, <2>1, PoolUsed, FS_CardinalityType DEF PoolInv, RoomOK
  <2> QED BY <1>1, <2>2, PoolSize DEF PoolInv, RoomOK, MapBounded
<1> QED BY <1>1, PoolInvariant, PTL

(***************************************************************************)
(* No interleaving of the pool's operations drops the handle of an agent   *)
(* that runs and was not told to stop.                                     *)
(***************************************************************************)
THEOREM AgentPoolNoneDetached == PoolSpec => []NoRunningAgentDetached
<1>1. ASSUME PoolInv PROVE NoRunningAgentDetached
  <2> SUFFICES ASSUME NEW a \in AgentId, task[a] = "running"
               PROVE  LET with == {c \in Caller : a \in Held(c)} IN
                      IF a \in agents THEN with = {} ELSE Cardinality(with) = 1
    BY DEF NoRunningAgentDetached
  <2>1. CASE a \in agents BY <1>1, <2>1 DEF PoolInv, HandlesOK
  <2>2. CASE a \notin agents
    <3>1. PICK c \in Caller : a \in Held(c) BY <1>1, <2>2 DEF PoolInv, HandlesOK
    <3>2. {d \in Caller : a \in Held(d)} = {c} BY <1>1, <3>1 DEF PoolInv, HandlesOK
    <3> QED BY <2>2, <3>2, FS_Singleton
  <2> QED BY <2>1, <2>2
<1> QED BY <1>1, PoolInvariant, PTL

(***************************************************************************)
(* A result is handed to one caller, once, and only of an agent that ended.*)
(***************************************************************************)
THEOREM AgentPoolReturnedIsGone == PoolSpec => []ReturnedIsGone
<1>1. PoolInv => ReturnedIsGone BY DEF PoolInv
<1> QED BY <1>1, PoolInvariant, PTL
-----------------------------------------------------------------------------
(* The inductive invariant of TaskAgent. *)

\* An agent inside the loop has iterations left, and one that has not reached it has
\* used none.
LoopOK == \A a \in Agent : /\ at[a] \in Running => iterations[a] < Passes
                           /\ at[a] = "calling" => iterations[a] < MaxIterations
                           /\ at[a] \in {"new"} \union Starting => iterations[a] = 0

ToldNothing(a) == taskStatus[a] \notin Ended /\ status[a] \notin Ended /\ verdicts[a] = {}

\* Who has been told the verdict at each step of a run.
WayOutOK ==
  \A a \in Agent :
    /\ at[a] \in Closing => verdict[a] \in Ended
    /\ at[a] \in {"new", "error", "tellTask"} \union Starting \union Running => ToldNothing(a)
    /\ at[a] \in {"new", "registered"} => taskStatus[a] = "pending"
    /\ at[a] \in Closing \ {"tellTask"} => taskStatus[a] = verdict[a]
    /\ at[a] = "tellStatus" => status[a] \notin Ended
    /\ at[a] \in {"tellStatus", "tellResult"} => verdicts[a] = {}
    /\ at[a] \in Closing \ {"tellTask", "tellStatus"} => status[a] = verdict[a]
    /\ at[a] \in {"leaveHub", "freeLocks", "forget"} => verdicts[a] = {verdict[a]}
    /\ at[a] \in Starting \union Running \union (Closing \ {"freeLocks", "forget"}) => a \in registered
    /\ at[a] \in {"freeLocks", "forget"} => a \notin registered
    /\ at[a] = "forget" => verdict[a] = "completed"

\* A call in hand was not completed before; an agent that has not begun knows nothing.
CallsOK ==
  \A a \in Agent :
    /\ at[a] \in {"locking", "executing", "ran"} => tool[a] \in Tool \ memory[a]
    /\ at[a] \in {"new"} \union Starting => memory[a] = {} /\ ~loadFailed[a]

\* The agents whose recorded call has not passed a check: one that is about to check
\* and those that are on their way out.
Late == {a \in Agent : at[a] \in {"recorded"} \union Closing \union Over}

\* Each of them accounts for one call beyond the limit.
SpendOK == used <= SessionLimit + MaxCall * Cardinality(Late)

TaskInv == /\ TypeOK /\ LoopOK /\ WayOutOK /\ OneVerdict /\ LockedOnlyByATool
           /\ CallsOK /\ CheckpointMirrored
-----------------------------------------------------------------------------
(* The loop is entered at least once. *)
LEMMA SomePasses == Passes \in Nat /\ 0 < Passes
BY Limits DEF Passes

(* A stuttering step disturbs nothing. *)
LEMMA TaskStutter == ASSUME TaskInv, UNCHANGED vars PROVE TaskInv'
  BY DEF TaskInv, TypeOK, LoopOK, WayOutOK, ToldNothing, OneVerdict, LockedOnlyByATool, CallsOK,
         CheckpointMirrored, vars, public, run, budget, work, store

(* Nothing has begun initially. *)
LEMMA TaskInit == ASSUME Init PROVE TaskInv
<1> USE Limits, Names DEF Init, Fresh, All, Starting, Running, Closing, Over, Ended, None, Passes
<1>1. TypeOK BY DEF TypeOK
<1>2. LoopOK BY DEF LoopOK
<1>3. WayOutOK /\ OneVerdict BY DEF WayOutOK, ToldNothing, OneVerdict
<1>4. LockedOnlyByATool BY DEF LockedOnlyByATool
<1>5. CallsOK BY DEF CallsOK
<1>6. CheckpointMirrored BY DEF CheckpointMirrored
<1> QED BY <1>1, <1>2, <1>3, <1>4, <1>5, <1>6 DEF TaskInv

(* Each step keeps the types and the room in the loop. *)
LEMMA TaskType == ASSUME TaskInv, Next PROVE (TypeOK /\ LoopOK)'
<1> USE Limits, Names, SomePasses
    DEF TaskInv, TypeOK, LoopOK, CallsOK, public, run, budget, work, store, Moves,
        Starting, Running, Closing, Over, Ended, None
<1>1. ASSUME NEW a \in Agent, Step(a) PROVE (TypeOK /\ LoopOK)'
  <2>1. CASE Register(a) BY <2>1 DEF Register
  <2>2. CASE Begin(a) BY <2>2 DEF Begin
  <2>3. CASE Announce(a) BY <2>3 DEF Announce
  <2>4. CASE Load(a)
    <3>1. memory' \in [Agent -> SUBSET Tool]
      <4>1. CASE memory' = [memory EXCEPT ![a] = disk[a]] BY <4>1
      <4>2. CASE memory' = memory BY <4>2
      <4> QED BY <2>4, <4>1, <4>2 DEF Load
    <3>2. loadFailed' \in [Agent -> BOOLEAN]
      <4>1. CASE loadFailed' = [loadFailed EXCEPT ![a] = TRUE] BY <4>1
      <4>2. CASE loadFailed' = loadFailed BY <4>2
      <4> QED BY <2>4, <4>1, <4>2 DEF Load
    <3>3. TypeOK' BY <2>4, <3>1, <3>2 DEF Load
    <3>4. LoopOK' BY <2>4 DEF Load
    <3> QED BY <3>3, <3>4
  <2>5. CASE Iterate(a)
    <3>1. /\ iterations[a] \in 0 .. Passes /\ iterations[a] < Passes
          /\ iterations[a] + 1 \in 0 .. Passes
      BY <2>5 DEF Iterate
    <3>2. CASE Closes(a, "failed") BY <2>5, <3>2 DEF Iterate, Closes, LeavesLoop
    <3>3. CASE /\ ~OutOfIterations(a) /\ Goes(a, "calling")
               /\ iterations' = [iterations EXCEPT ![a] = @ + 1]
               /\ UNCHANGED <<tokens, memory, loadFailed>>
      <4>1. TypeOK' BY <2>5, <3>1, <3>3 DEF Iterate, Goes
      <4>2. LoopOK' BY <2>5, <3>1, <3>3 DEF Iterate, Goes, OutOfIterations, Passes
      <4> QED BY <4>1, <4>2
    <3> QED BY <2>5, <3>2, <3>3 DEF Iterate
  <2>6. CASE ProviderFails(a) BY <2>6 DEF ProviderFails, IsOver, LeavesLoop, DropGuard
  <2>7. CASE CheckSession(a)
    <3>1. CASE WithinSession BY <2>7, <3>1 DEF CheckSession, Goes, InLoop
    <3>2. CASE ~WithinSession
      <4>1. /\ Closes(a, "failed") /\ batch' = batch
            /\ UNCHANGED <<budget, public, tool, holder, disk, stop, crashes>>
        BY <2>7, <3>2 DEF CheckSession
      <4> QED BY <4>1 DEF Closes, LeavesLoop
    <3> QED BY <3>1, <3>2
  <2>8. CASE Validate(a)
    <3>1. CASE Goes(a, "top") /\ InLoop BY <2>8, <3>1 DEF Validate, Goes, InLoop
    <3>2. CASE Closes(a, "completed") BY <2>8, <3>2 DEF Validate, Closes, LeavesLoop
    <3> QED BY <2>8, <3>1, <3>2 DEF Validate
  <2>9. CASE Lock(a) BY <2>9 DEF Lock
  <2>10. CASE Execute(a)
    <3>1. CASE /\ Goes(a, "tools") /\ tool' = [tool EXCEPT ![a] = None] /\ DropGuard(a)
               /\ InLoop /\ UNCHANGED batch
      BY <2>10, <3>1 DEF Execute, Goes, InLoop, DropGuard
    <3>2. CASE IsOver(a, "error") BY <2>10, <3>2 DEF Execute, IsOver, LeavesLoop, DropGuard
    <3>3. CASE Goes(a, "ran") /\ InLoop /\ UNCHANGED work BY <2>10, <3>3 DEF Execute, Goes, InLoop
    <3> QED BY <2>10, <3>1, <3>2, <3>3 DEF Execute
  <2>11. CASE Mark(a) BY <2>11 DEF Mark, DropGuard
  <2>12. CASE BatchDone(a) BY <2>12 DEF BatchDone
  <2>13. CASE TellTask(a)
    BY <2>13 DEF TellTask, Follows, WayOutOK
  <2>14. CASE TellStatus(a)
    BY <2>14 DEF TellStatus, Follows, WayOutOK
  <2>15. CASE TellResult(a)
    BY <2>15 DEF TellResult, Follows, WayOutOK
  <2>16. CASE LeaveHub(a) BY <2>16 DEF LeaveHub, Follows
  <2>17. CASE FreeLocks(a)
    <3>1. CASE verdict[a] = "completed" BY <2>17, <3>1 DEF FreeLocks, Goes, InLoop, DropGuard
    <3>2. CASE verdict[a] # "completed"
      <4>1. IsOver(a, "failed") /\ UNCHANGED <<budget, public, disk, stop, crashes>>
        BY <2>17, <3>2 DEF FreeLocks
      <4> QED BY <4>1 DEF IsOver, LeavesLoop, DropGuard
    <3> QED BY <3>1, <3>2
  <2>18. CASE Forget(a) BY <2>18 DEF Forget, IsOver, LeavesLoop, DropGuard
  <2>19. ASSUME NEW n \in 0 .. MaxCall, Respond(a, n) PROVE (TypeOK /\ LoopOK)'
    <3>1. CASE tokens[a] + n > OwnLimit[a]
      <4>1. Closes(a, "failed") /\ UNCHANGED <<used, spawned, public, work, disk, stop, crashes>>
        BY <2>19, <3>1 DEF Respond
      <4> QED BY <4>1 DEF Closes, LeavesLoop
    <3>2. CASE ~(tokens[a] + n > OwnLimit[a])
      <4>1. n \in Nat /\ tokens[a] \in Nat BY <2>19
      <4>2. tokens[a] + n \in Nat /\ used + n \in Nat BY <4>1
      <4> QED BY <2>19, <3>2, <4>2 DEF Respond, Goes
    <3> QED BY <3>1, <3>2
  <2>20. ASSUME NEW i \in Tool, NextTool(a, i) PROVE (TypeOK /\ LoopOK)'
    BY <2>20 DEF NextTool
  <2> QED BY <1>1, <2>1, <2>2, <2>3, <2>4, <2>5, <2>6, <2>7, <2>8, <2>9, <2>10,
             <2>11, <2>12, <2>13, <2>14, <2>15, <2>16, <2>17, <2>18, <2>19, <2>20 DEF Step
<1>2. ASSUME NEW a \in Agent, Stopped(a) PROVE (TypeOK /\ LoopOK)'
  <2>1. CASE AskToStop(a) BY <2>1 DEF AskToStop
  <2>2. CASE ReleaseLocksOf(a) BY <2>2 DEF ReleaseLocksOf, DropGuard
  <2>3. CASE Abort(a) BY <2>3 DEF Abort, IsOver, LeavesLoop, DropGuard
  <2> QED BY <1>2, <2>1, <2>2, <2>3 DEF Stopped
<1>3. CASE Crash BY <1>3 DEF Crash, All
<1> QED BY <1>1, <1>2, <1>3 DEF Next

(* Each step of the way out tells one more, in order. *)
LEMMA TaskWayOut == ASSUME TaskInv, Next PROVE WayOutOK'
<1> USE Limits, Names, SomePasses
    DEF WayOutOK, ToldNothing, OneVerdict, TaskInv, TypeOK, LoopOK, CallsOK, public, run, budget, work, store, Moves,
        Starting, Running, Closing, Over, Ended, None
<1>1. ASSUME NEW a \in Agent, Step(a) PROVE WayOutOK'
  <2>1. CASE Register(a) BY <2>1 DEF Register
  <2>2. CASE Begin(a) BY <2>2 DEF Begin
  <2>3. CASE Announce(a) BY <2>3 DEF Announce
  <2>4. CASE Load(a) BY <2>4 DEF Load
  <2>5. CASE Iterate(a) BY <2>5 DEF Iterate, Closes, LeavesLoop, Goes
  <2>6. CASE ProviderFails(a) BY <2>6 DEF ProviderFails, IsOver, LeavesLoop, DropGuard
  <2>7. CASE CheckSession(a) BY <2>7 DEF CheckSession, Closes, LeavesLoop, Goes, InLoop
  <2>8. CASE Validate(a) BY <2>8 DEF Validate, Closes, LeavesLoop, Goes, InLoop
  <2>9. CASE Lock(a) BY <2>9 DEF Lock
  <2>10. CASE Execute(a) BY <2>10 DEF Execute, IsOver, LeavesLoop, DropGuard, Goes, InLoop
  <2>11. CASE Mark(a) BY <2>11 DEF Mark, DropGuard
  <2>12. CASE BatchDone(a) BY <2>12 DEF BatchDone
  <2>13. CASE TellTask(a) BY <2>13 DEF TellTask, Follows
  <2>14. CASE TellStatus(a) BY <2>14 DEF TellStatus, Follows
  <2>15. CASE TellResult(a) BY <2>15 DEF TellResult, Follows
  <2>16. CASE LeaveHub(a) BY <2>16 DEF LeaveHub, Follows
  <2>17. CASE FreeLocks(a) BY <2>17 DEF FreeLocks, IsOver, LeavesLoop, DropGuard, Goes, InLoop
  <2>18. CASE Forget(a) BY <2>18 DEF Forget, IsOver, LeavesLoop, DropGuard
  <2>19. ASSUME NEW n \in 0 .. MaxCall, Respond(a, n) PROVE WayOutOK'
    BY <2>19 DEF Respond, Closes, LeavesLoop, Goes
  <2>20. ASSUME NEW i \in Tool, NextTool(a, i) PROVE WayOutOK'
    BY <2>20 DEF NextTool
  <2> QED BY <1>1, <2>1, <2>2, <2>3, <2>4, <2>5, <2>6, <2>7, <2>8, <2>9, <2>10,
             <2>11, <2>12, <2>13, <2>14, <2>15, <2>16, <2>17, <2>18, <2>19, <2>20 DEF Step
<1>2. ASSUME NEW a \in Agent, Stopped(a) PROVE WayOutOK'
  <2>1. CASE AskToStop(a) BY <2>1 DEF AskToStop
  <2>2. CASE ReleaseLocksOf(a) BY <2>2 DEF ReleaseLocksOf, DropGuard
  <2>3. CASE Abort(a) BY <2>3 DEF Abort, IsOver, LeavesLoop, DropGuard
  <2> QED BY <1>2, <2>1, <2>2, <2>3 DEF Stopped
<1>3. CASE Crash BY <1>3 DEF Crash, All
<1> QED BY <1>1, <1>2, <1>3 DEF Next

(* What has been told agrees, wherever the run stops. *)
LEMMA TaskVerdict == ASSUME TaskInv, Next PROVE OneVerdict'
<1> USE Names
    DEF WayOutOK, ToldNothing, OneVerdict, TaskInv, TypeOK, LoopOK, CallsOK, public, run, budget, work, store, Moves,
        Starting, Running, Closing, Over, Ended, None
<1>1. ASSUME NEW a \in Agent, Step(a) PROVE OneVerdict'
  <2>1. CASE Register(a) BY <2>1 DEF Register
  <2>2. CASE Begin(a) BY <2>2 DEF Begin
  <2>3. CASE Announce(a) BY <2>3 DEF Announce
  <2>4. CASE Load(a) BY <2>4 DEF Load
  <2>5. CASE Iterate(a) BY <2>5 DEF Iterate, Closes, LeavesLoop, Goes
  <2>6. CASE ProviderFails(a) BY <2>6 DEF ProviderFails, IsOver, LeavesLoop, DropGuard
  <2>7. CASE CheckSession(a) BY <2>7 DEF CheckSession, Closes, LeavesLoop, Goes, InLoop
  <2>8. CASE Validate(a) BY <2>8 DEF Validate, Closes, LeavesLoop, Goes, InLoop
  <2>9. CASE Lock(a) BY <2>9 DEF Lock
  <2>10. CASE Execute(a) BY <2>10 DEF Execute, IsOver, LeavesLoop, DropGuard, Goes, InLoop
  <2>11. CASE Mark(a) BY <2>11 DEF Mark, DropGuard
  <2>12. CASE BatchDone(a) BY <2>12 DEF BatchDone
  <2>13. CASE TellTask(a) BY <2>13 DEF TellTask, Follows
  <2>14. CASE TellStatus(a) BY <2>14 DEF TellStatus, Follows
  <2>15. CASE TellResult(a) BY <2>15 DEF TellResult, Follows
  <2>16. CASE LeaveHub(a) BY <2>16 DEF LeaveHub, Follows
  <2>17. CASE FreeLocks(a) BY <2>17 DEF FreeLocks, IsOver, LeavesLoop, DropGuard, Goes, InLoop
  <2>18. CASE Forget(a) BY <2>18 DEF Forget, IsOver, LeavesLoop, DropGuard
  <2>19. ASSUME NEW n \in 0 .. MaxCall, Respond(a, n) PROVE OneVerdict'
    BY <2>19 DEF Respond, Closes, LeavesLoop, Goes
  <2>20. ASSUME NEW i \in Tool, NextTool(a, i) PROVE OneVerdict'
    BY <2>20 DEF NextTool
  <2> QED BY <1>1, <2>1, <2>2, <2>3, <2>4, <2>5, <2>6, <2>7, <2>8, <2>9, <2>10,
             <2>11, <2>12, <2>13, <2>14, <2>15, <2>16, <2>17, <2>18, <2>19, <2>20 DEF Step
<1>2. ASSUME NEW a \in Agent, Stopped(a) PROVE OneVerdict'
  <2>1. CASE AskToStop(a) BY <2>1 DEF AskToStop
  <2>2. CASE ReleaseLocksOf(a) BY <2>2 DEF ReleaseLocksOf, DropGuard
  <2>3. CASE Abort(a) BY <2>3 DEF Abort, IsOver, LeavesLoop, DropGuard
  <2> QED BY <1>2, <2>1, <2>2, <2>3 DEF Stopped
<1>3. CASE Crash BY <1>3 DEF Crash, All
<1> QED BY <1>1, <1>2, <1>3 DEF Next

(* Each step that leaves a tool call drops the lock. *)
LEMMA TaskLock == ASSUME TaskInv, Next PROVE LockedOnlyByATool'
<1> USE Limits, Names, SomePasses
    DEF LockedOnlyByATool, TaskInv, TypeOK, LoopOK, CallsOK, public, run, budget, work, store, Moves,
        Starting, Running, Closing, Over, Ended, None
<1>1. ASSUME NEW a \in Agent, Step(a) PROVE LockedOnlyByATool'
  <2>1. CASE Register(a) BY <2>1 DEF Register
  <2>2. CASE Begin(a) BY <2>2 DEF Begin
  <2>3. CASE Announce(a) BY <2>3 DEF Announce
  <2>4. CASE Load(a) BY <2>4 DEF Load
  <2>5. CASE Iterate(a) BY <2>5 DEF Iterate, Closes, LeavesLoop, Goes
  <2>6. CASE ProviderFails(a) BY <2>6 DEF ProviderFails, IsOver, LeavesLoop, DropGuard
  <2>7. CASE CheckSession(a) BY <2>7 DEF CheckSession, Closes, LeavesLoop, Goes, InLoop
  <2>8. CASE Validate(a) BY <2>8 DEF Validate, Closes, LeavesLoop, Goes, InLoop
  <2>9. CASE Lock(a) BY <2>9 DEF Lock
  <2>10. CASE Execute(a) BY <2>10 DEF Execute, IsOver, LeavesLoop, DropGuard, Goes, InLoop
  <2>11. CASE Mark(a) BY <2>11 DEF Mark, DropGuard
  <2>12. CASE BatchDone(a) BY <2>12 DEF BatchDone
  <2>13. CASE TellTask(a) BY <2>13 DEF TellTask, Follows
  <2>14. CASE TellStatus(a) BY <2>14 DEF TellStatus, Follows
  <2>15. CASE TellResult(a) BY <2>15 DEF TellResult, Follows
  <2>16. CASE LeaveHub(a) BY <2>16 DEF LeaveHub, Follows
  <2>17. CASE FreeLocks(a) BY <2>17 DEF FreeLocks, IsOver, LeavesLoop, DropGuard, Goes, InLoop
  <2>18. CASE Forget(a) BY <2>18 DEF Forget, IsOver, LeavesLoop, DropGuard
  <2>19. ASSUME NEW n \in 0 .. MaxCall, Respond(a, n) PROVE LockedOnlyByATool'
    BY <2>19 DEF Respond, Closes, LeavesLoop, Goes
  <2>20. ASSUME NEW i \in Tool, NextTool(a, i) PROVE LockedOnlyByATool'
    BY <2>20 DEF NextTool
  <2> QED BY <1>1, <2>1, <2>2, <2>3, <2>4, <2>5, <2>6, <2>7, <2>8, <2>9, <2>10,
             <2>11, <2>12, <2>13, <2>14, <2>15, <2>16, <2>17, <2>18, <2>19, <2>20 DEF Step
<1>2. ASSUME NEW a \in Agent, Stopped(a) PROVE LockedOnlyByATool'
  <2>1. CASE AskToStop(a) BY <2>1 DEF AskToStop
  <2>2. CASE ReleaseLocksOf(a) BY <2>2 DEF ReleaseLocksOf, DropGuard
  <2>3. CASE Abort(a) BY <2>3 DEF Abort, IsOver, LeavesLoop, DropGuard
  <2> QED BY <1>2, <2>1, <2>2, <2>3 DEF Stopped
<1>3. CASE Crash BY <1>3 DEF Crash, All
<1> QED BY <1>1, <1>2, <1>3 DEF Next

(* A call is only taken in hand when it is not in the checkpoint. *)
LEMMA TaskCalls == ASSUME TaskInv, Next PROVE CallsOK'
<1> USE Limits, Names, SomePasses
    DEF TaskInv, TypeOK, LoopOK, CallsOK, public, run, budget, work, store, Moves,
        Starting, Running, Closing, Over, Ended, None
<1>1. ASSUME NEW a \in Agent, Step(a) PROVE CallsOK'
  <2>1. CASE Register(a) BY <2>1 DEF Register
  <2>2. CASE Begin(a) BY <2>2 DEF Begin
  <2>3. CASE Announce(a) BY <2>3 DEF Announce
  <2>4. CASE Load(a) BY <2>4 DEF Load
  <2>5. CASE Iterate(a) BY <2>5 DEF Iterate, Closes, LeavesLoop, Goes
  <2>6. CASE ProviderFails(a) BY <2>6 DEF ProviderFails, IsOver, LeavesLoop, DropGuard
  <2>7. CASE CheckSession(a) BY <2>7 DEF CheckSession, Closes, LeavesLoop, Goes, InLoop
  <2>8. CASE Validate(a) BY <2>8 DEF Validate, Closes, LeavesLoop, Goes, InLoop
  <2>9. CASE Lock(a) BY <2>9 DEF Lock
  <2>10. CASE Execute(a) BY <2>10 DEF Execute, IsOver, LeavesLoop, DropGuard, Goes, InLoop
  <2>11. CASE Mark(a) BY <2>11 DEF Mark, DropGuard
  <2>12. CASE BatchDone(a) BY <2>12 DEF BatchDone
  <2>13. CASE TellTask(a) BY <2>13 DEF TellTask, Follows
  <2>14. CASE TellStatus(a) BY <2>14 DEF TellStatus, Follows
  <2>15. CASE TellResult(a) BY <2>15 DEF TellResult, Follows
  <2>16. CASE LeaveHub(a) BY <2>16 DEF LeaveHub, Follows
  <2>17. CASE FreeLocks(a) BY <2>17 DEF FreeLocks, IsOver, LeavesLoop, DropGuard, Goes, InLoop
  <2>18. CASE Forget(a) BY <2>18 DEF Forget, IsOver, LeavesLoop, DropGuard
  <2>19. ASSUME NEW n \in 0 .. MaxCall, Respond(a, n) PROVE CallsOK'
    BY <2>19 DEF Respond, Closes, LeavesLoop, Goes
  <2>20. ASSUME NEW i \in Tool, NextTool(a, i) PROVE CallsOK'
    BY <2>20 DEF NextTool
  <2> QED BY <1>1, <2>1, <2>2, <2>3, <2>4, <2>5, <2>6, <2>7, <2>8, <2>9, <2>10,
             <2>11, <2>12, <2>13, <2>14, <2>15, <2>16, <2>17, <2>18, <2>19, <2>20 DEF Step
<1>2. ASSUME NEW a \in Agent, Stopped(a) PROVE CallsOK'
  <2>1. CASE AskToStop(a) BY <2>1 DEF AskToStop
  <2>2. CASE ReleaseLocksOf(a) BY <2>2 DEF ReleaseLocksOf, DropGuard
  <2>3. CASE Abort(a) BY <2>3 DEF Abort, IsOver, LeavesLoop, DropGuard
  <2> QED BY <1>2, <2>1, <2>2, <2>3 DEF Stopped
<1>3. CASE Crash BY <1>3 DEF Crash, All
<1> QED BY <1>1, <1>2, <1>3 DEF Next

(* The checkpoint is changed on disk and in memory together. *)
LEMMA TaskMirror == ASSUME TaskInv, Next PROVE CheckpointMirrored'
<1> USE Limits, Names, SomePasses
    DEF CheckpointMirrored, TaskInv, TypeOK, LoopOK, CallsOK, public, run, budget, work, store, Moves,
        Starting, Running, Closing, Over, Ended, None
<1>1. ASSUME NEW a \in Agent, Step(a) PROVE CheckpointMirrored'
  <2>1. CASE Register(a) BY <2>1 DEF Register
  <2>2. CASE Begin(a) BY <2>2 DEF Begin
  <2>3. CASE Announce(a) BY <2>3 DEF Announce
  <2>4. CASE Load(a) BY <2>4 DEF Load
  <2>5. CASE Iterate(a) BY <2>5 DEF Iterate, Closes, LeavesLoop, Goes
  <2>6. CASE ProviderFails(a) BY <2>6 DEF ProviderFails, IsOver, LeavesLoop, DropGuard
  <2>7. CASE CheckSession(a) BY <2>7 DEF CheckSession, Closes, LeavesLoop, Goes, InLoop
  <2>8. CASE Validate(a) BY <2>8 DEF Validate, Closes, LeavesLoop, Goes, InLoop
  <2>9. CASE Lock(a) BY <2>9 DEF Lock
  <2>10. CASE Execute(a) BY <2>10 DEF Execute, IsOver, LeavesLoop, DropGuard, Goes, InLoop
  <2>11. CASE Mark(a)
    <3>1. CASE UNCHANGED <<disk, memory>> BY <2>11, <3>1 DEF Mark
    <3>2. CASE /\ disk' = [disk EXCEPT ![a] = @ \union {tool[a]}]
               /\ memory' = [memory EXCEPT ![a] = @ \union {tool[a]}]
      <4>1. ASSUME NEW b \in Agent, at'[b] \in Running
            PROVE memory'[b] \subseteq disk'[b] /\ (memory'[b] = disk'[b] \/ loadFailed'[b])
        <5>1. at[b] \in Running BY <2>11, <4>1 DEF Mark
        <5>2. memory[b] \subseteq disk[b] /\ (memory[b] = disk[b] \/ loadFailed[b]) BY <5>1
        <5>3. loadFailed' = loadFailed BY <2>11 DEF Mark
        <5>4. CASE b = a BY <5>2, <5>3, <5>4, <3>2
        <5>5. CASE b # a BY <5>2, <5>3, <5>5, <3>2
        <5> QED BY <5>4, <5>5
      <4> QED BY <4>1
    <3> QED BY <2>11, <3>1, <3>2 DEF Mark
  <2>12. CASE BatchDone(a) BY <2>12 DEF BatchDone
  <2>13. CASE TellTask(a) BY <2>13 DEF TellTask, Follows
  <2>14. CASE TellStatus(a) BY <2>14 DEF TellStatus, Follows
  <2>15. CASE TellResult(a) BY <2>15 DEF TellResult, Follows
  <2>16. CASE LeaveHub(a) BY <2>16 DEF LeaveHub, Follows
  <2>17. CASE FreeLocks(a) BY <2>17 DEF FreeLocks, IsOver, LeavesLoop, DropGuard, Goes, InLoop
  <2>18. CASE Forget(a) BY <2>18 DEF Forget, IsOver, LeavesLoop, DropGuard
  <2>19. ASSUME NEW n \in 0 .. MaxCall, Respond(a, n) PROVE CheckpointMirrored'
    BY <2>19 DEF Respond, Closes, LeavesLoop, Goes
  <2>20. ASSUME NEW i \in Tool, NextTool(a, i) PROVE CheckpointMirrored'
    BY <2>20 DEF NextTool
  <2> QED BY <1>1, <2>1, <2>2, <2>3, <2>4, <2>5, <2>6, <2>7, <2>8, <2>9, <2>10,
             <2>11, <2>12, <2>13, <2>14, <2>15, <2>16, <2>17, <2>18, <2>19, <2>20 DEF Step
<1>2. ASSUME NEW a \in Agent, Stopped(a) PROVE CheckpointMirrored'
  <2>1. CASE AskToStop(a) BY <2>1 DEF AskToStop
  <2>2. CASE ReleaseLocksOf(a) BY <2>2 DEF ReleaseLocksOf, DropGuard
  <2>3. CASE Abort(a) BY <2>3 DEF Abort, IsOver, LeavesLoop, DropGuard
  <2> QED BY <1>2, <2>1, <2>2, <2>3 DEF Stopped
<1>3. CASE Crash BY <1>3 DEF Crash, All
<1> QED BY <1>1, <1>2, <1>3 DEF Next

-----------------------------------------------------------------------------
(* Everything together. *)
LEMMA TaskInvInductive == TaskInv /\ [Next]_vars => TaskInv'
<1>1. ASSUME TaskInv, Next PROVE TaskInv'
  BY <1>1, TaskType, TaskWayOut, TaskVerdict, TaskLock, TaskCalls, TaskMirror DEF TaskInv
<1> QED BY <1>1, TaskStutter

LEMMA TaskInvHolds == Spec => []TaskInv
BY TaskInit, TaskInvInductive, PTL DEF Spec

(* The state of every agent, the session and the store keeps its type; in particular
   the loop is entered at most MaxIterations times. *)
THEOREM TypesKept == Spec => []TypeOK
<1>1. TaskInv => TypeOK BY DEF TaskInv
<1> QED BY <1>1, TaskInvHolds, PTL

(* Whatever has been told of how a run ended agrees, and was told in order, wherever a
   stop cut it. *)
THEOREM VerdictsAgree == Spec => []OneVerdict
<1>1. TaskInv => OneVerdict BY DEF TaskInv
<1> QED BY <1>1, TaskInvHolds, PTL

(* No way out of a tool call keeps the lock of its file, and only a stop takes it away. *)
THEOREM LocksReturned == Spec => []LockedOnlyByATool
<1>1. TaskInv => LockedOnlyByATool BY DEF TaskInv
<1> QED BY <1>1, TaskInvHolds, PTL

(* The checkpoint in memory is that of the disk. *)
THEOREM CheckpointKept == Spec => []CheckpointMirrored
<1>1. TaskInv => CheckpointMirrored BY DEF TaskInv
<1> QED BY <1>1, TaskInvHolds, PTL

(* A tool call that the store knows as completed is not run again. *)
THEOREM CompletedNotRepeated == Spec => []NeverRunAgain
<1>1. TaskInv => NeverRunAgain
  BY DEF TaskInv, NeverRunAgain, CallsOK, CheckpointMirrored, Running
<1> QED BY <1>1, TaskInvHolds, PTL
-----------------------------------------------------------------------------
(* The session's tokens: an agent is late from the call it records to the check it
   passes, and one whose check fails stays late. *)

(* Late is finite, so that its cardinality is a number. *)
LEMMA LateFinite == IsFiniteSet(Late) /\ Cardinality(Late) \in Nat
BY Names, FS_Subset, FS_CardinalityType DEF Late

(* A larger set of late agents allows for as much. *)
LEMMA MoreLate ==
  ASSUME SpendOK, TypeOK, used' = used, Late \subseteq Late', IsFiniteSet(Late')
  PROVE SpendOK'
<1>1. Cardinality(Late) \in Nat /\ Cardinality(Late') \in Nat /\ Cardinality(Late) <= Cardinality(Late')
  BY LateFinite, FS_Subset, FS_CardinalityType
<1>2. MaxCall * Cardinality(Late) <= MaxCall * Cardinality(Late')
  <2>1. PICK d \in Nat : Cardinality(Late') = Cardinality(Late) + d
    <3>1. Cardinality(Late') - Cardinality(Late) \in Nat BY <1>1
    <3> QED BY <1>1, <3>1
  <2>2. MaxCall * d \in Nat /\ MaxCall * Cardinality(Late) \in Nat BY Limits, <1>1
  <2>3. MaxCall * (Cardinality(Late) + d) = MaxCall * Cardinality(Late) + MaxCall * d
    BY Limits, <1>1, <2>1
  <2> QED BY <2>1, <2>2, <2>3
<1>3. MaxCall * Cardinality(Late) \in Nat /\ MaxCall * Cardinality(Late') \in Nat BY Limits, <1>1
<1> QED BY <1>2, <1>3, Limits DEF SpendOK, TypeOK

(* Nobody is late when nobody has called. *)
LEMMA SpendInit == ASSUME Init PROVE SpendOK
<1>1. Cardinality(Late) \in Nat BY LateFinite
<1>2. MaxCall * Cardinality(Late) \in Nat BY <1>1, Limits
<1> QED BY <1>2, Limits DEF SpendOK, Init, Fresh

(* Each step keeps the allowance. *)
LEMMA SpendStep == ASSUME TaskInv, SpendOK, Next PROVE SpendOK'
<1> USE DEF TaskInv, TypeOK, Moves, budget, Starting, Running, Closing, Over, Ended
<1>0. /\ IsFiniteSet(Late) /\ Cardinality(Late) \in Nat
      /\ IsFiniteSet(Late') /\ Cardinality(Late') \in Nat
  BY Names, FS_Subset, FS_CardinalityType DEF Late
<1>1. ASSUME NEW a \in Agent, Step(a) PROVE SpendOK'
  <2>2. ASSUME NEW n \in 0 .. MaxCall, Respond(a, n) PROVE SpendOK'
    <3>1. CASE used' = used
      <4>1. Late \subseteq Late' BY <2>2 DEF Respond, Closes, Goes, Late
      <4> QED BY <1>0, <3>1, <4>1, MoreLate
    <3>2. CASE Goes(a, "recorded") /\ used' = used + n
      <4>1. at[a] = "calling" BY <2>2 DEF Respond
      <4>2. Late' = Late \union {a} /\ a \notin Late BY <3>2, <4>1 DEF Late, Goes
      <4>3. Cardinality(Late') = Cardinality(Late) + 1 BY <1>0, <4>2, FS_AddElement
      <4>4. MaxCall * (Cardinality(Late) + 1) = MaxCall * Cardinality(Late) + MaxCall
        BY <1>0, Limits
      <4>5. MaxCall * Cardinality(Late) \in Nat BY <1>0, Limits
      <4> QED BY <3>2, <4>3, <4>4, <4>5, Limits DEF SpendOK
    <3> QED BY <2>2, <3>1, <3>2 DEF Respond
  <2>3. CASE CheckSession(a)
    <3>1. CASE WithinSession
      <4>1. used' = used /\ used <= SessionLimit BY <2>3, <3>1 DEF CheckSession, WithinSession
      <4>2. MaxCall * Cardinality(Late') \in Nat BY <1>0, Limits
      <4> QED BY <4>1, <4>2, Limits DEF SpendOK
    <3>2. CASE ~WithinSession
      <4>1. used' = used /\ Late \subseteq Late' BY <2>3, <3>2 DEF CheckSession, Closes, Late
      <4> QED BY <1>0, <4>1, MoreLate
    <3> QED BY <3>1, <3>2
  <2>4. CASE \E i \in Tool : NextTool(a, i)
    <3>1. used' = used /\ Late \subseteq Late' BY <2>4 DEF NextTool, Late
    <3> QED BY <1>0, <3>1, MoreLate
  <2>5. CASE Register(a) \/ Begin(a) \/ Announce(a) \/ Load(a)
    <3>1. used' = used /\ Late \subseteq Late' BY <2>5 DEF Register, Begin, Announce, Load, Late
    <3> QED BY <1>0, <3>1, MoreLate
  <2>6. CASE Iterate(a) \/ ProviderFails(a) \/ Validate(a)
    <3>1. used' = used /\ Late \subseteq Late'
      BY <2>6 DEF Iterate, ProviderFails, Validate, Closes, Goes, IsOver, Late
    <3> QED BY <1>0, <3>1, MoreLate
  <2>7. CASE Lock(a) \/ Execute(a) \/ Mark(a) \/ BatchDone(a)
    <3>1. used' = used /\ Late \subseteq Late'
      BY <2>7 DEF Lock, Execute, Mark, BatchDone, Goes, IsOver, Late
    <3> QED BY <1>0, <3>1, MoreLate
  <2>8. CASE TellTask(a) \/ TellStatus(a) \/ TellResult(a) \/ LeaveHub(a)
    <3>1. used' = used /\ Late \subseteq Late'
      BY <2>8 DEF TellTask, TellStatus, TellResult, LeaveHub, Follows, Late
    <3> QED BY <1>0, <3>1, MoreLate
  <2>9. CASE FreeLocks(a) \/ Forget(a)
    <3>1. used' = used /\ Late \subseteq Late' BY <2>9 DEF FreeLocks, Forget, Goes, IsOver, Late
    <3> QED BY <1>0, <3>1, MoreLate
  <2> QED BY <1>1, <2>2, <2>3, <2>4, <2>5, <2>6, <2>7, <2>8, <2>9 DEF Step
<1>2. ASSUME NEW a \in Agent, Stopped(a) PROVE SpendOK'
  <2>1. used' = used /\ Late \subseteq Late'
    BY <1>2 DEF Stopped, AskToStop, ReleaseLocksOf, Abort, IsOver, Late
  <2> QED BY <1>0, <2>1, MoreLate
<1>3. CASE Crash
  <2>1. MaxCall * Cardinality(Late') \in Nat BY <1>0, Limits
  <2> QED BY <1>3, <2>1, Limits DEF Crash, SpendOK
<1> QED BY <1>1, <1>2, <1>3 DEF Next

(* The session exceeds its limit by at most one call of each agent. *)
THEOREM OvershootBounded == Spec => []Overshoot
<1>1. Init => SpendOK BY SpendInit
<1>2. TaskInv /\ SpendOK /\ [Next]_vars => SpendOK'
  <2>1. ASSUME SpendOK, UNCHANGED vars PROVE SpendOK'
    BY <2>1 DEF SpendOK, Late, vars, budget
  <2> QED BY <2>1, SpendStep
<1>3. TaskInv /\ SpendOK => Overshoot
  <2>1. ASSUME TaskInv, SpendOK PROVE Overshoot
    <3>1. /\ Late \subseteq Agent
          /\ Cardinality(Late) \in Nat /\ Cardinality(Agent) \in Nat
          /\ Cardinality(Late) <= Cardinality(Agent)
      BY Names, FS_Subset, FS_CardinalityType DEF Late
    <3>2. PICK d \in Nat : Cardinality(Agent) = Cardinality(Late) + d
      <4>1. Cardinality(Agent) - Cardinality(Late) \in Nat BY <3>1
      <4> QED BY <3>1, <4>1
    <3>3. MaxCall * (Cardinality(Late) + d) = MaxCall * Cardinality(Late) + MaxCall * d
      BY Limits, <3>1, <3>2
    <3>4. MaxCall * Cardinality(Late) \in Nat /\ MaxCall * d \in Nat BY Limits, <3>1, <3>2
    <3> QED BY <2>1, <3>2, <3>3, <3>4, Limits DEF SpendOK, Overshoot, TaskInv, TypeOK
  <2> QED BY <2>1
<1> QED BY <1>1, <1>2, <1>3, TaskInvHolds, PTL DEF Spec
================================================================================
