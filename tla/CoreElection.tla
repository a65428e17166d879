------------------------------ MODULE CoreElection ------------------------------
(***************************************************************************)
(* apps/web: which tab hosts the core, the one Dedicated Worker that holds *)
(* the model.  The SharedWorker (workers/inference-worker.ts) elects a tab *)
(* and forwards RPCs to the core; the tab (lib/inference.ts) spawns the    *)
(* core, hands its port over, and retries an RPC whose core went away.     *)
(* Messages of one channel keep their order.  The router handles what the  *)
(* core posts in the step that posts it: a port closed before would lose   *)
(* it.  Which tab may call (SessionArbiter) is left out.                   *)
(***************************************************************************)
EXTENDS Integers, SequencesExt

CONSTANTS Tab,           (* tabs; one that is opened again is another    *)
          Call,          (* places for an RPC: made, settled, made again *)
          owner,         (* the tab a call is made in                    *)
          MaxTeardowns,  (* bound on engine swaps                        *)
          NoTab

ASSUME OwnerIsATab == owner \in [Call -> Tab]
ASSUME NoTabIsNone == NoTab \notin Tab
ASSUME Bounds      == IsFiniteSet(Call) /\ MaxTeardowns \in Nat

VARIABLES ports,      (* PORTS, in the order in which the tabs connected    *)
          corePort,   (* the core attached, or NoCore                       *)
          coreHost,   (* coreHostPort                                       *)
          election,   (* electionInFlight                                   *)
          loaded,     (* loadedInfo # null                                  *)
          pending,    (* pendingChild: <<call, core it was forwarded to>>   *)
          pings,      (* verifyCoreLive under way: <<new tab, core>>        *)
          torn,       (* history: the core was torn down on purpose         *)
          tab, worker, ready, phase,   (* a tab, its coreWorker, whether its coreReady has
                                          resolved, and how far its calls got *)
          cores, up, doomed, model,    (* cores spawned so far, those alive, those told
                                          to shut down, those with a model    *)
          teardowns, toRouter, toTab

router == <<ports, corePort, coreHost, election, loaded, pending, pings, torn>>
tabs   == <<tab, worker, ready, phase>>
workers == <<cores, up, doomed, model>>
vars   == <<router, tabs, workers, teardowns, toRouter, toTab>>

NoCore == 0

Init == /\ ports = <<>> /\ corePort = NoCore /\ coreHost = NoTab /\ election = NoTab
        /\ loaded = FALSE /\ pending = {} /\ pings = {} /\ torn = FALSE
        /\ tab = [t \in Tab |-> "none"] /\ worker = [t \in Tab |-> NoCore]
        /\ ready = [t \in Tab |-> FALSE] /\ phase = [c \in Call |-> "idle"]
        /\ cores = 0 /\ up = {} /\ doomed = {} /\ model = {}
        /\ teardowns = 0
        /\ toRouter = [t \in Tab |-> <<>>] /\ toTab = [t \in Tab |-> <<>>]

--------------------------------------------------------------------------------
(* The router's messages and the steps its handlers are made of.            *)

Msg(kind, arg) == [kind |-> kind, arg |-> arg]
Spawn == Msg("pleaseSpawnCore", 0)
Ready == Msg("coreReady", 0)
Freed == Msg("modelFreed", 0)
NoNote == <<>>

\* What is in flight to the tabs after the router posts to them; a tab that is
\* gone, or whose port was dropped, gets nothing.
Posted(inboxes, to, msgs) ==
  [t \in Tab |-> IF t \in to /\ tab[t] = "open" THEN inboxes[t] \o msgs ELSE inboxes[t]]
Replies(inboxes, calls, to, kind) ==
  [t \in Tab |-> IF t \in to /\ tab[t] = "open"
                 THEN inboxes[t] \o SetToSeq({Msg(kind, c) : c \in {d \in calls : owner[d] = t}})
                 ELSE inboxes[t]]
Connected == ToSet(ports)
Asked(ps) == {p[1] : p \in ps}

\* nextElectableTab: always the first of PORTS.
Next1(q) == IF q = <<>> THEN NoTab ELSE Head(q)

\* electHost(t), once it is known that there is neither core nor election.
Elect(t, inboxes) ==
  /\ election' = t
  /\ toTab' = IF t = NoTab THEN inboxes ELSE Posted(inboxes, {t}, <<Spawn>>)

\* Mutant: the RPCs under way are dropped without a word.
LoseCore_Silent(q, rpcs, reelect) ==
  LET told == Posted(toTab, ToSet(q), IF loaded THEN <<Freed>> ELSE NoNote)
  IN  /\ corePort' = NoCore /\ coreHost' = NoTab /\ loaded' = FALSE /\ pending' = {}
      /\ torn' = ~reelect
      /\ IF reelect THEN Elect(Next1(q), told) ELSE election' = NoTab /\ toTab' = told

\* loseCore: the RPCs under way are rejected before the tabs hear that the model
\* is gone, and then the first tab is elected, unless that is not wanted.
LoseCore(q, rpcs, reelect) ==
  LET rejected == Replies(toTab, Asked(rpcs), ToSet(q), "coreDisconnected")
      told     == Posted(rejected, ToSet(q), IF loaded THEN <<Freed>> ELSE NoNote)
  IN  /\ corePort' = NoCore /\ coreHost' = NoTab /\ loaded' = FALSE /\ pending' = {}
      /\ torn' = ~reelect
      /\ IF reelect THEN Elect(Next1(q), told) ELSE election' = NoTab /\ toTab' = told

--------------------------------------------------------------------------------
(* A tab connects.                                                          *)

\* onconnect: the first tab is asked to spawn the core; a later one has the router
\* ping the core.
Connect(t) ==
  /\ tab[t] = "none" /\ tab' = [tab EXCEPT ![t] = "open"]
  /\ ports' = Append(ports, t)
  /\ IF corePort # NoCore
     THEN pings' = pings \union {<<t, corePort>>} /\ UNCHANGED <<election, toTab>>
     ELSE /\ pings' = pings
          /\ IF election = NoTab
             THEN election' = t /\ toTab' = [toTab EXCEPT ![t] = <<Spawn>>]
             ELSE UNCHANGED <<election, toTab>>
  /\ torn' = FALSE
  /\ UNCHANGED <<corePort, coreHost, loaded, pending, worker, ready, phase, workers,
                 teardowns, toRouter>>

Pong(p) ==
  /\ p \in pings /\ p[2] \in up /\ p[2] = corePort
  /\ pings' = pings \ {p}
  /\ toTab' = Posted(toTab, {p[1]} \intersect Connected, <<Ready>>)
  /\ UNCHANGED <<ports, corePort, coreHost, election, loaded, pending, torn, tabs, workers,
                 teardowns, toRouter>>

\* No pong within 800 ms: the core is dead, or busy, or no longer the one that was
\* asked.  Whichever core is attached by now is dropped.
PingFails(p) ==
  /\ p \in pings /\ pings' = pings \ {p}
  /\ IF corePort # NoCore
     THEN LoseCore(ports, pending, TRUE)
     ELSE /\ IF election = NoTab
             THEN Elect(p[1], toTab) /\ torn' = FALSE
             ELSE UNCHANGED <<election, toTab, torn>>
          /\ UNCHANGED <<corePort, coreHost, loaded, pending>>
  /\ UNCHANGED <<ports, tabs, workers, teardowns, toRouter>>

--------------------------------------------------------------------------------
(* The tab's side: WorkerClient.                                            *)

Posts(t, msg) == toRouter' = [toRouter EXCEPT ![t] = Append(@, msg)]

Rpc(c) ==
  /\ tab[owner[c]] = "open" /\ phase[c] = "idle"
  /\ phase' = [phase EXCEPT ![c] = "sent"]
  /\ Posts(owner[c], Msg("rpc", c))
  /\ UNCHANGED <<router, tab, worker, ready, workers, teardowns, toTab>>

Takes(t, kind) ==
  /\ tab[t] = "open" /\ toTab[t] # <<>> /\ Head(toTab[t]).kind = kind
  /\ toTab' = [toTab EXCEPT ![t] = Tail(@)]

\* spawnCore does nothing for a tab that has a core worker.
SpawnCore(t) ==
  /\ Takes(t, "pleaseSpawnCore")
  /\ IF worker[t] # NoCore
     THEN UNCHANGED <<worker, cores, up, toRouter>>
     ELSE /\ cores' = cores + 1 /\ up' = up \union {cores'}
          /\ worker' = [worker EXCEPT ![t] = cores']
          /\ Posts(t, Msg("attachCore", cores'))
  /\ UNCHANGED <<router, tab, ready, phase, doomed, model, teardowns>>

Mine(t, ph) == {c \in Call : owner[c] = t /\ phase[c] = ph}
Become(calls, ph) == [c \in Call |-> IF c \in calls THEN ph ELSE phase[c]]
Repost(t, calls) ==
  toRouter' = [toRouter EXCEPT ![t] = @ \o SetToSeq({Msg("rpc", c) : c \in calls})]

\* The promise resolves, and the calls that wait for it are made once more.
CoreReady(t) ==
  /\ Takes(t, "coreReady")
  /\ ready' = [ready EXCEPT ![t] = TRUE]
  /\ phase' = Become(Mine(t, "waiting"), "again") /\ Repost(t, Mine(t, "waiting"))
  /\ UNCHANGED <<router, tab, worker, workers, teardowns>>

\* A new promise; nothing resolves the old one any more.
ModelFreed(t) ==
  /\ Takes(t, "modelFreed")
  /\ ready' = [ready EXCEPT ![t] = FALSE]
  /\ phase' = Become(Mine(t, "waiting"), "orphaned")
  /\ UNCHANGED <<router, tab, worker, workers, teardowns, toRouter>>

\* rpcOnce: the first "core disconnected" waits for coreReady, which may have resolved
\* long ago; the second is the caller's.
CoreDisconnected(t) ==
  /\ Takes(t, "coreDisconnected")
  /\ LET c == Head(toTab[t]).arg IN
       \/ /\ phase[c] = "sent" /\ ready[t]
          /\ phase' = [phase EXCEPT ![c] = "again"] /\ Repost(t, {c})
       \/ /\ phase[c] = "sent" /\ ~ready[t]
          /\ phase' = [phase EXCEPT ![c] = "waiting"] /\ UNCHANGED toRouter
       \/ /\ phase[c] = "again"
          /\ phase' = [phase EXCEPT ![c] = "idle"] /\ UNCHANGED toRouter
  /\ UNCHANGED <<router, tab, worker, ready, workers, teardowns>>

Answered(t) ==
  /\ Takes(t, "answer")
  /\ phase' = [phase EXCEPT ![Head(toTab[t]).arg] = "idle"]
  /\ UNCHANGED <<router, tab, worker, ready, workers, teardowns, toRouter>>

Receive(t) == \/ SpawnCore(t) \/ CoreReady(t) \/ ModelFreed(t)
              \/ CoreDisconnected(t) \/ Answered(t)

\* teardownCore, for the engine swap.
Teardown(t) ==
  /\ tab[t] = "open" /\ teardowns < MaxTeardowns /\ teardowns' = teardowns + 1
  /\ doomed' = doomed \union ({worker[t]} \ {NoCore})
  /\ worker' = [worker EXCEPT ![t] = NoCore]
  /\ Posts(t, Msg("teardownCore", 0))
  /\ UNCHANGED <<router, tab, ready, phase, cores, up, model, toTab>>

Leaves(t) ==
  /\ tab[t] = "open" /\ tab' = [tab EXCEPT ![t] = "gone"]
  /\ worker' = [worker EXCEPT ![t] = NoCore]
  /\ phase' = [c \in Call |-> IF owner[c] = t THEN "gone" ELSE phase[c]]
  /\ ready' = [ready EXCEPT ![t] = FALSE]
  /\ toTab' = [toTab EXCEPT ![t] = <<>>]

\* onLeave: goodbye to the router, shutdown to the core.
PageHide(t) ==
  /\ Leaves(t) /\ Posts(t, Msg("disconnect", 0))
  /\ doomed' = doomed \union ({worker[t]} \ {NoCore})
  /\ UNCHANGED <<router, cores, up, model, teardowns>>

\* A tab that is killed takes its core along and tells nobody.
Kill(t) ==
  /\ Leaves(t) /\ up' = up \ {worker[t]} /\ model' = model \ {worker[t]}
  /\ UNCHANGED <<router, cores, doomed, teardowns, toRouter>>

--------------------------------------------------------------------------------
(* The core.                                                                *)

\* An RPC may load a model, free it, or do neither; the tabs hear of it first.
\* Bound: a model is freed once the tabs have read of the one before.
CoreDone(c, did) ==
  /\ corePort \in up /\ <<c, corePort>> \in pending
  /\ did = "freed" => corePort \in model /\ \A t \in Tab : ~Contains(toTab[t], Freed)
  /\ pending' = pending \ {<<c, corePort>>}
  /\ model' = CASE did = "loaded" -> model \union {corePort}
                [] did = "freed"  -> model \ {corePort}
                [] OTHER          -> model
  /\ loaded' = CASE did = "loaded" -> TRUE [] did = "freed" -> FALSE [] OTHER -> loaded
  /\ toTab' = Replies(Posted(toTab, Connected, IF did = "freed" THEN <<Freed>> ELSE NoNote),
                      {c}, Connected, "answer")
  /\ UNCHANGED <<ports, corePort, coreHost, election, pings, torn, tabs, cores, up, doomed,
                 teardowns, toRouter>>

\* The shutdown message: every handle is released and the worker closes.
Shutdown(n) ==
  /\ n \in doomed /\ doomed' = doomed \ {n} /\ up' = up \ {n} /\ model' = model \ {n}
  /\ UNCHANGED <<router, tabs, cores, teardowns, toRouter, toTab>>

--------------------------------------------------------------------------------
(* The router's handlers.                                                   *)

Handles(t, kind) ==
  /\ t \in Connected /\ toRouter[t] # <<>> /\ Head(toRouter[t]).kind = kind
  /\ toRouter' = [toRouter EXCEPT ![t] = Tail(@)]

\* attachCore: the first to attach is the host, elected or not.
OnAttach(t) ==
  /\ Handles(t, "attachCore")
  /\ IF corePort # NoCore
     THEN UNCHANGED <<corePort, coreHost, election, toTab>>
     ELSE /\ corePort' = Head(toRouter[t]).arg /\ coreHost' = t /\ election' = NoTab
          /\ toTab' = Posted(toTab, Connected, <<Ready>>)
  /\ torn' = FALSE
  /\ UNCHANGED <<ports, loaded, pending, pings, tabs, workers, teardowns>>

\* forwardToCore; without a core the tab that asks is elected, and told to retry.  The
\* post to an attached port does not throw, so its catch, which loses the core, is left out.
OnRpc(t) ==
  /\ Handles(t, "rpc")
  /\ LET c == Head(toRouter[t]).arg
         asked == IF election = NoTab THEN Posted(toTab, {t}, <<Spawn>>) ELSE toTab
     IN  IF corePort # NoCore
         THEN pending' = pending \union {<<c, corePort>>} /\ UNCHANGED <<election, torn, toTab>>
         ELSE /\ election' = IF election = NoTab THEN t ELSE election
              /\ toTab' = Replies(asked, {c}, Connected, "coreDisconnected")
              /\ torn' = FALSE /\ pending' = pending
  /\ UNCHANGED <<ports, corePort, coreHost, loaded, pings, tabs, workers, teardowns>>

OnTeardown(t) ==
  /\ Handles(t, "teardownCore")
  /\ IF coreHost = t
     THEN LoseCore(ports, pending, FALSE)
     ELSE UNCHANGED <<corePort, coreHost, election, loaded, pending, torn, toTab>>
  /\ UNCHANGED <<ports, pings, tabs, workers, teardowns>>

\* Mutant: dropPendingForPort is not called.
DisconnectPort_KeepsPending(t) ==
  LET rest == RemoveFirst(ports, t)
  IN  /\ ports' = rest
      /\ IF coreHost = t
         THEN LoseCore(rest, pending, TRUE)
         ELSE /\ UNCHANGED <<pending, corePort, coreHost, loaded, torn>>
              /\ IF election = t THEN Elect(Next1(rest), toTab)
                                 ELSE UNCHANGED <<election, toTab>>

\* Mutant: the election of the port is given up, and none is started.
DisconnectPort_NoElection(t) ==
  LET rest == RemoveFirst(ports, t)
      others == {p \in pending : owner[p[1]] # t}
  IN  /\ ports' = rest
      /\ IF coreHost = t
         THEN LoseCore(rest, others, TRUE)
         ELSE /\ pending' = others /\ UNCHANGED <<corePort, coreHost, loaded, torn, toTab>>
              /\ election' = IF election = t THEN NoTab ELSE election

\* disconnectPort: its RPCs are forgotten; the core it hosts is lost; an election
\* of it starts again.
DisconnectPort(t) ==
  LET rest == RemoveFirst(ports, t)
      others == {p \in pending : owner[p[1]] # t}
  IN  /\ ports' = rest
      /\ IF coreHost = t
         THEN LoseCore(rest, others, TRUE)
         ELSE /\ pending' = others /\ UNCHANGED <<corePort, coreHost, loaded, torn>>
              /\ IF election = t THEN Elect(Next1(rest), toTab)
                                 ELSE UNCHANGED <<election, toTab>>

OnDisconnect(t) ==
  /\ Handles(t, "disconnect") /\ DisconnectPort(t)
  /\ UNCHANGED <<pings, tabs, workers, teardowns>>

\* The heartbeat timer: a port silent for five minutes; bound: its tab is gone
\* (SessionArbiter has tabs that were only frozen).
Reap(t) ==
  /\ tab[t] = "gone" /\ t \in Connected /\ toRouter[t] = <<>> /\ DisconnectPort(t)
  /\ UNCHANGED <<pings, tabs, workers, teardowns, toRouter>>

\* The timer finds the election older than fifteen seconds and starts another;
\* bound: the tab it elects has no such request waiting.
ElectionTimeout ==
  /\ election # NoTab
  /\ Next1(ports) # NoTab => ~Contains(toTab[Next1(ports)], Spawn)
  /\ Elect(Next1(ports), toTab)
  /\ UNCHANGED <<ports, corePort, coreHost, loaded, pending, pings, torn, tabs, workers,
                 teardowns, toRouter>>

--------------------------------------------------------------------------------
Handle(t) == OnAttach(t) \/ OnRpc(t) \/ OnTeardown(t) \/ OnDisconnect(t)

Next == \/ \E t \in Tab : \/ Connect(t) \/ Receive(t) \/ Teardown(t) \/ PageHide(t)
                          \/ Kill(t) \/ Handle(t) \/ Reap(t)
        \/ \E c \in Call : Rpc(c) \/ \E did \in {"loaded", "freed", "neither"} : CoreDone(c, did)
        \/ \E p \in pings : Pong(p) \/ PingFails(p)
        \/ \E n \in doomed : Shutdown(n)
        \/ ElectionTimeout

Spec == Init /\ [][Next]_vars

\* Tabs and router handle their messages, the core answers, the timers go off;
\* nobody need connect, leave, call or tear down.
FairSpec ==
  /\ Spec
  /\ \A t \in Tab : /\ WF_vars(Handle(t)) /\ WF_vars(Receive(t))
                   /\ WF_vars(Reap(t))
                   /\ WF_vars(\E p \in pings : p[1] = t /\ (Pong(p) \/ PingFails(p)))
  /\ \A c \in Call : WF_vars(\E did \in {"loaded", "freed", "neither"} : CoreDone(c, did))
  /\ WF_vars(ElectionTimeout)
--------------------------------------------------------------------------------
Core == Nat \ {NoCore}

TypeOK ==
  /\ ports \in Seq(Tab) /\ IsInjective(ports) /\ corePort \in Nat
  /\ {coreHost, election} \subseteq Tab \union {NoTab} /\ {loaded, torn} \subseteq BOOLEAN
  /\ pending \subseteq Call \X Core /\ pings \subseteq Tab \X Core
  /\ tab \in [Tab -> {"none", "open", "gone"}] /\ worker \in [Tab -> Nat]
  /\ ready \in [Tab -> BOOLEAN]
  /\ phase \in [Call -> {"idle", "sent", "again", "waiting", "orphaned", "gone"}]
  /\ cores \in Nat /\ up \union doomed \union model \subseteq Core

(***************************************************************************)
(* Losing the core, by whatever road, leaves nothing of it behind: an RPC  *)
(* under way was forwarded to the core that is attached and was made by a  *)
(* connected tab; the host is connected; and no election runs beside it.   *)
(***************************************************************************)
NothingLeftOfALostCore ==
  /\ \A p \in pending : p[2] = corePort /\ owner[p[1]] \in Connected
  /\ corePort # NoCore => coreHost \in Connected /\ election = NoTab
  /\ corePort = NoCore => coreHost = NoTab /\ ~loaded

(***************************************************************************)
(* While a tab is connected there is a core or an election is on its way,  *)
(* unless the core was torn down on purpose: no handler drops both.        *)
(***************************************************************************)
CoreOrElection == ports # <<>> /\ corePort = NoCore /\ election = NoTab => torn

\* A tab that keeps a core worker the router has dropped, or never took: it does
\* not spawn another when it is elected.
KeepsDroppedCore ==
  \E t \in Connected : /\ worker[t] \notin {NoCore, corePort}
                       /\ ~Contains(toRouter[t], Msg("attachCore", worker[t]))

(***************************************************************************)
(* A connected tab gets a core, however tabs come and go and die, unless   *)
(* the core was torn down or a tab keeps a core that was dropped.          *)
(***************************************************************************)
CoreComesBack ==
  (ports # <<>> /\ corePort = NoCore) ~>
    (ports = <<>> \/ corePort # NoCore \/ torn \/ KeepsDroppedCore)

(***************************************************************************)
(* An RPC is answered or fails while its tab is connected, unless it waits *)
(* for a promise that was replaced, or the core does not come back.        *)
(***************************************************************************)
RpcSettles ==
  \A c \in Call : phase[c] = "sent" ~>
    \/ phase[c] \in {"idle", "gone", "orphaned"} \/ owner[c] \notin Connected
    \/ torn \/ KeepsDroppedCore
================================================================================
