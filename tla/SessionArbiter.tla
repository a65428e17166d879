----------------------------- MODULE SessionArbiter -----------------------------
(***************************************************************************)
(* apps/web: the inference session that the tabs of one origin share.  The *)
(* SharedWorker (workers/inference-worker.ts) grants it first come first   *)
(* served; WorkerClient (lib/inference.ts) is a tab's end of the port.     *)
(* A message handler runs to its end, so it is one step; messages of one   *)
(* port keep their order, those of two ports do not.  A session id is      *)
(* never reused, so it is identified with the call it was granted to.      *)
(***************************************************************************)
EXTENDS SequencesExt, Lists

CONSTANTS Tab,    (* tabs, connected from the start; one opened again is another *)
          Call,   (* bound: the acquireSession calls ever made              *)
          owner,  (* the tab a call is made in                              *)
          NoCall

ASSUME OwnerIsATab  == owner \in [Call -> Tab]
ASSUME NoCallIsNone == NoCall \notin Call

VARIABLES ports,      (* PORTS of the router                                  *)
          active,     (* the session held, or NoCall                          *)
          queue,      (* the waiters                                          *)
          pending,    (* pendingChild: calls whose RPC the core has to answer *)
          running,    (* calls whose RPC the core is executing                *)
          tab,        (* what has become of each tab                          *)
          phase,      (* how far each call has got, as its tab sees it        *)
          toRouter,   (* messages a tab has posted                            *)
          toTab       (* messages the router has posted                       *)

router   == <<ports, active, queue>>
core     == <<pending, running>>
channels == <<toRouter, toTab>>
vars == <<router, core, tab, phase, channels>>

Init == /\ ports = Tab /\ active = NoCall /\ queue = <<>>
        /\ pending = {} /\ running = {}
        /\ tab = [t \in Tab |-> "open"]
        /\ phase = [c \in Call |-> "idle"]
        /\ toRouter = [t \in Tab |-> <<>>] /\ toTab = [t \in Tab |-> <<>>]

--------------------------------------------------------------------------------
(* The tab's side: WorkerClient.                                            *)

Msg(kind, c) == [kind |-> kind, call |-> c]
Post(channel, t, m) == [channel EXCEPT ![t] = Append(@, m)]
Posts(t, m) == toRouter' = Post(toRouter, t, m)
Becomes(c, from, to) == phase[c] \in from /\ phase' = [phase EXCEPT ![c] = to]
Open(c) == tab[owner[c]] = "open"

Acquire(c) ==
  /\ Open(c) /\ Becomes(c, {"idle"}, "asked")
  /\ Posts(owner[c], Msg("acquire", c))
  /\ UNCHANGED <<router, core, tab, toTab>>

\* The signal given to acquireSession fires while the call waits.
Abort(c) ==
  /\ Open(c) /\ Becomes(c, {"asked"}, "aborting")
  /\ Posts(owner[c], Msg("cancel", c))
  /\ UNCHANGED <<router, core, tab, toTab>>

\* A signal that had fired before: the call is posted, cancelled and rejected at once.
AcquireAborted(c) ==
  /\ Open(c) /\ Becomes(c, {"idle"}, "abandoned")
  /\ toRouter' = Post(Post(toRouter, owner[c], Msg("acquire", c)), owner[c], Msg("cancel", c))
  /\ UNCHANGED <<router, core, tab, toTab>>

\* A session-scoped RPC (load, step, ...); bound: one per session.
Rpc(c) ==
  /\ Open(c) /\ Becomes(c, {"holding"}, "calling")
  /\ Posts(owner[c], Msg("rpc", c))
  /\ UNCHANGED <<router, core, tab, toTab>>

\* withSession's finally, or the caller's.
Release(c) ==
  /\ Open(c) /\ Becomes(c, {"holding", "called"}, "releasing")
  /\ Posts(owner[c], Msg("release", c))
  /\ UNCHANGED <<router, core, tab, toTab>>

\* A reply settles the promise of the call it names, if that still waits.
Settled == [granted |-> "holding", aborted |-> "done", ok |-> "called",
            refused |-> "refused", released |-> "done"]
Waiting == {"asked", "aborting", "calling", "releasing"}
Receive(t) ==
  /\ tab[t] = "open" /\ toTab[t] # <<>>
  /\ LET m == Head(toTab[t]) IN
       phase' = [phase EXCEPT ![m.call] = IF @ \in Waiting THEN Settled[m.kind] ELSE @]
  /\ toTab' = [toTab EXCEPT ![t] = Tail(@)]
  /\ UNCHANGED <<router, core, tab, toRouter>>

\* A tab goes away, with what its calls knew and the messages not yet received.
Leaves(t) ==
  /\ tab[t] = "open" /\ tab' = [tab EXCEPT ![t] = "closed"]
  /\ phase' = [c \in Call |-> IF owner[c] = t THEN "gone" ELSE phase[c]]
  /\ toTab' = [toTab EXCEPT ![t] = <<>>]

\* pagehide says goodbye (onLeave); a tab that is killed does not.
PageHide(t) ==
  /\ Leaves(t) /\ Posts(t, Msg("disconnect", NoCall))
  /\ UNCHANGED <<router, core>>

Kill(t) == Leaves(t) /\ UNCHANGED <<router, core, toRouter>>

--------------------------------------------------------------------------------
(* The router's side.                                                       *)

Takes(t, kind) ==
  /\ t \in ports /\ toRouter[t] # <<>> /\ Head(toRouter[t]).kind = kind
  /\ toRouter' = [toRouter EXCEPT ![t] = Tail(@)]

\* A channel to the tabs after a reply to a call, if there is one; a closed port
\* loses it.
Reply(channel, kind, c, open) ==
  IF c # NoCall /\ owner[c] \in open /\ tab[owner[c]] = "open"
  THEN Post(channel, owner[c], Msg(kind, c)) ELSE channel

\* wakeNext, once the session is free.
Woken(q) == IF q = <<>> THEN NoCall ELSE Head(q)
Rest(q)  == IF q = <<>> THEN <<>> ELSE Tail(q)

\* Mutant: whether anybody waits is asked, not whether the session is held.
OnAcquire_QueueEmpty(t) ==
  /\ Takes(t, "acquire")
  /\ LET c == Head(toRouter[t]).call IN
       IF queue = <<>>
       THEN active' = c /\ queue' = queue /\ toTab' = Reply(toTab, "granted", c, ports)
       ELSE active' = active /\ queue' = Append(queue, c) /\ toTab' = toTab
  /\ UNCHANGED <<ports, core, tab, phase>>

\* Mutant: the newcomer is put in front of those who wait.
OnAcquire_Front(t) ==
  /\ Takes(t, "acquire")
  /\ LET c == Head(toRouter[t]).call IN
       IF active = NoCall
       THEN active' = c /\ queue' = queue /\ toTab' = Reply(toTab, "granted", c, ports)
       ELSE active' = active /\ queue' = <<c>> \o queue /\ toTab' = toTab
  /\ UNCHANGED <<ports, core, tab, phase>>

OnAcquire(t) ==
  /\ Takes(t, "acquire")
  /\ LET c == Head(toRouter[t]).call IN
       IF active = NoCall
       THEN active' = c /\ queue' = queue /\ toTab' = Reply(toTab, "granted", c, ports)
       ELSE active' = active /\ queue' = Append(queue, c) /\ toTab' = toTab
  /\ UNCHANGED <<ports, core, tab, phase>>

\* Mutant: releaseSession does not wake the next waiter.
OnRelease_Sleeps(t) ==
  /\ Takes(t, "release")
  /\ LET c == Head(toRouter[t]).call IN
       /\ active' = IF active = c THEN NoCall ELSE active
       /\ toTab' = Reply(toTab, "released", c, ports)
  /\ UNCHANGED <<ports, queue, core, tab, phase>>

OnRelease(t) ==
  /\ Takes(t, "release")
  /\ LET c == Head(toRouter[t]).call IN
       IF active = c
       THEN /\ active' = Woken(queue) /\ queue' = Rest(queue)
            /\ toTab' = Reply(Reply(toTab, "released", c, ports), "granted", Woken(queue), ports)
       ELSE /\ UNCHANGED <<active, queue>>
            /\ toTab' = Reply(toTab, "released", c, ports)
  /\ UNCHANGED <<ports, core, tab, phase>>

\* Mutant: the waiter is answered and left in the queue.
OnCancel_Stays(t) ==
  /\ Takes(t, "cancel")
  /\ LET c == Head(toRouter[t]).call IN
       toTab' = IF Contains(queue, c) THEN Reply(toTab, "aborted", c, ports) ELSE toTab
  /\ UNCHANGED <<router, core, tab, phase>>

\* cancelAcquire: the waiter, if it still waits, leaves the queue and is rejected.
OnCancel(t) ==
  /\ Takes(t, "cancel")
  /\ LET c == Head(toRouter[t]).call IN
       IF Contains(queue, c)
       THEN queue' = Without(queue, {c}) /\ toTab' = Reply(toTab, "aborted", c, ports)
       ELSE UNCHANGED <<queue, toTab>>
  /\ UNCHANGED <<ports, active, core, tab, phase>>

\* checkSession, then forwardToCore; the core starts on it (its handlers are async).
OnRpc(t) ==
  /\ Takes(t, "rpc")
  /\ LET c == Head(toRouter[t]).call IN
       IF active = c
       THEN pending' = pending \union {c} /\ running' = running \union {c} /\ toTab' = toTab
       ELSE toTab' = Reply(toTab, "refused", c, ports) /\ UNCHANGED core
  /\ UNCHANGED <<router, tab, phase>>

\* The core answers; a reply that nobody waits for is dropped.
CoreDone(c) ==
  /\ c \in running
  /\ running' = running \ {c} /\ pending' = pending \ {c}
  /\ toTab' = IF c \in pending THEN Reply(toTab, "ok", c, ports) ELSE toTab
  /\ UNCHANGED <<router, tab, phase, toRouter>>

Others(t, q) == Without(q, {c \in Call : owner[c] = t})

\* disconnectPort: the session goes to the next waiter before the port's own
\* waiters are taken out of the queue.
DisconnectPort(t) ==
  /\ ports' = ports \ {t}
  /\ IF active # NoCall /\ owner[active] = t
     THEN /\ active' = Woken(queue) /\ queue' = Others(t, Rest(queue))
          /\ toTab' = Reply(toTab, "granted", Woken(queue), ports \ {t})
     ELSE active' = active /\ queue' = Others(t, queue) /\ toTab' = toTab
  /\ pending' = {c \in pending : owner[c] # t}

OnDisconnect(t) ==
  /\ Takes(t, "disconnect")
  /\ DisconnectPort(t)
  /\ UNCHANGED <<running, tab, phase>>

\* The heartbeat timer drops a port that has been silent for five minutes: its
\* tab is gone, or frozen and none the wiser.
Reap(t) ==
  /\ t \in ports /\ toRouter[t] = <<>>
  /\ DisconnectPort(t)
  /\ UNCHANGED <<running, tab, phase, toRouter>>

--------------------------------------------------------------------------------
Handle(t) == OnAcquire(t) \/ OnRelease(t) \/ OnCancel(t) \/ OnRpc(t) \/ OnDisconnect(t)

Next == \/ \E t \in Tab : \/ Receive(t) \/ PageHide(t) \/ Kill(t)
                          \/ Handle(t) \/ Reap(t)
        \/ \E c \in Call : \/ Acquire(c) \/ Abort(c) \/ AcquireAborted(c) \/ Rpc(c)
                           \/ Release(c) \/ CoreDone(c)

Spec == Init /\ [][Next]_vars

\* Messages are handled, the core answers, a session is used and released, and
\* the timer drops the tabs that went silent; nobody need close a tab or abort.
FairSpec == /\ Spec
            /\ \A t \in Tab : /\ WF_vars(Handle(t)) /\ WF_vars(Receive(t))
                              /\ WF_vars(tab[t] # "open" /\ Reap(t))
            /\ \A c \in Call : WF_vars(Release(c)) /\ WF_vars(CoreDone(c))
--------------------------------------------------------------------------------
Phase == {"idle", "asked", "aborting", "abandoned", "holding", "calling", "called",
          "releasing", "refused", "done", "gone"}

TypeOK ==
  /\ ports \subseteq Tab /\ active \in Call \union {NoCall}
  /\ queue \in Seq(Call) /\ IsInjective(queue)
  /\ pending \subseteq running /\ running \subseteq Call
  /\ tab \in [Tab -> {"open", "closed"}]
  /\ phase \in [Call -> Phase]

\* The calls that a tab believes to hold the session for.
Believes(c) == phase[c] \in {"holding", "calling", "called"}

(***************************************************************************)
(* Two tabs never both believe that the session is theirs, nor two calls   *)
(* of one tab, though grants and releases cross on the way; a tab that the *)
(* timer has dropped is beyond the router's reach and may go on believing. *)
(***************************************************************************)
Exclusive ==
  \A c, d \in Call : Believes(c) /\ Believes(d) /\ {owner[c], owner[d]} \subseteq ports
                       => c = d

(***************************************************************************)
(* Together the tabs and the router are one line: the session goes to the  *)
(* calls in the order in which they reached the router (inference-worker.ts*)
(* :4), whatever is given up, rejected or closed in between, once to each  *)
(* call, and only after the one before has given it back or gone.  In the  *)
(* line are a call whose grant its tab has not taken yet and the waiters.  *)
(***************************************************************************)
Told     == active # NoCall /\ Msg("granted", active) \in ToSet(toTab[owner[active]])
Line     == IF Told THEN <<active>> \o queue ELSE queue
Holding  == {c \in Call : Believes(c) /\ owner[c] \in ports}
Joined   == {c \in Call : phase[c] # "idle"
                            /\ Msg("acquire", c) \notin ToSet(toRouter[owner[c]])}
Arbiter  == INSTANCE SessionLine WITH line <- Line, holding <- Holding, joined <- Joined
FirstComeFirstServed == Arbiter!Spec

\* A session somebody can still give back.
InUse(c) ==
  \/ Believes(c) \/ phase[c] = "releasing"
  \/ phase[c] \in {"asked", "aborting"}
       /\ \E i \in DOMAIN toTab[owner[c]] : toTab[owner[c]][i] = Msg("granted", c)

(***************************************************************************)
(* A granted session is held, on its way to its tab or on its way back: it *)
(* is lost in two ways only.  A port that goes away while it holds the     *)
(* session and waits for it again is granted it once more, and a call that *)
(* is aborted before it is posted is granted a session nobody releases.    *)
(***************************************************************************)
LostOnlyTwoWays ==
  active # NoCall => \/ InUse(active)
                     \/ tab[owner[active]] = "closed" \/ owner[active] \notin ports
                     \/ phase[active] = "abandoned"

Lost == active # NoCall /\ (owner[active] \notin ports \/ phase[active] = "abandoned")

(***************************************************************************)
(* acquireSession returns for every tab that stays connected, whatever the *)
(* other tabs do (close, crash, abort), unless the session was lost.       *)
(***************************************************************************)
AcquireReturns ==
  \A c \in Call : phase[c] \in {"asked", "aborting"}
                    ~> (phase[c] \notin {"asked", "aborting"} \/ owner[c] \notin ports
                          \/ tab[owner[c]] # "open" \/ Lost)
================================================================================
