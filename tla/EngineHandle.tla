------------------------------ MODULE EngineHandle ------------------------------
(***************************************************************************)
(* native/rust-core: one engine handle.  Callers on any thread send a      *)
(* command over a FIFO channel and block for the reply; the worker thread  *)
(* takes the commands one by one.  rl_cancel bypasses the channel: it sets *)
(* a flag that the decode loop polls.  rl_model_free ends the worker.      *)
(***************************************************************************)
EXTENDS Integers, Sequences

CONSTANTS Call,       (* bound: the calls made on the handle                  *)
          MaxNew,     (* max_new, the same for every generation               *)
          MayFree     (* whether rl_model_free is called                      *)

ASSUME EngineLimits == MaxNew \in Nat /\ MayFree \in BOOLEAN

VARIABLES channel,    (* calls whose command has not been taken, in order     *)
          closing,    (* Shutdown is the last command of the channel          *)
          worker,     (* "idle", "prefill", "poll", "emit", "gone"            *)
          current,    (* {} or the call whose generation runs                 *)
          produced,   (* tokens it has delivered                              *)
          cancel,     (* the shared AtomicBool                                *)
          model,      (* a Model is loaded                                    *)
          trainer,    (* a TrainingSession exists                             *)
          kind,       (* the command of each call, "none" before it is made   *)
          result,     (* what each call returned, "none" while it has not     *)
          asked,      (* history: generations in flight at some cancel        *)
          reached,    (* history: generations running at some cancel          *)
          late        (* history: pieces each of those delivered after it     *)

commands == <<channel, closing, kind>>
decoding == <<worker, current, produced>>
engine   == <<model, trainer>>
history  == <<asked, reached, late>>
vars == <<commands, decoding, cancel, engine, result, history>>

\* "plain" stands for every command that leaves model and trainer where they are.
Kind   == {"load", "generate", "train", "plain"}

\* A cut generation and one that ended both return the tokens produced.
Result == {"ok", "refused", "failed", "ended", "cut"}

InFlight == {c \in Call : kind[c] # "none" /\ result[c] = "none"}

Init == /\ channel = <<>> /\ closing = FALSE /\ kind = [c \in Call |-> "none"]
        /\ worker = "idle" /\ current = {} /\ produced = 0
        /\ cancel = FALSE /\ model = FALSE /\ trainer = FALSE
        /\ result = [c \in Call |-> "none"]
        /\ asked = {} /\ reached = {} /\ late = [c \in Call |-> 0]
--------------------------------------------------------------------------------
\* call(): the command goes to the end of the channel and the caller blocks.
Send(c, k) ==
  /\ ~closing /\ kind[c] = "none"
  /\ kind' = [kind EXCEPT ![c] = k]
  /\ channel' = Append(channel, c)
  /\ UNCHANGED <<closing, decoding, cancel, engine, result, history>>

RaiseFlag ==
  /\ cancel' = TRUE
  /\ asked' = asked \union {c \in InFlight : kind[c] = "generate"}
  /\ reached' = reached \union current

\* rl_cancel.
Cancel ==
  /\ ~closing
  /\ RaiseFlag
  /\ UNCHANGED <<commands, decoding, engine, result, late>>

\* rl_model_free sets the flag, queues Shutdown behind what is there, and joins.
Free ==
  /\ MayFree /\ ~closing
  /\ closing' = TRUE
  /\ RaiseFlag
  /\ UNCHANGED <<channel, kind, decoding, engine, result, late>>
--------------------------------------------------------------------------------
\* The idle worker takes the first command, of kind k.
Takes(k) ==
  /\ worker = "idle" /\ channel # <<>> /\ kind[Head(channel)] = k
  /\ channel' = Tail(channel)
  /\ UNCHANGED <<closing, kind>>

Returns(c, r) == result' = [result EXCEPT ![c] = r]

\* A load that fails leaves the model there was.
TakeLoad ==
  /\ Takes("load")
  /\ \/ model' = TRUE /\ Returns(Head(channel), "ok")
     \/ UNCHANGED model /\ Returns(Head(channel), "failed")
  /\ UNCHANGED <<decoding, cancel, trainer, history>>

\* TrainerBegin consumes the model, even if no session comes of it.
TakeTrain ==
  /\ Takes("train")
  /\ \/ ~model /\ Returns(Head(channel), "refused") /\ UNCHANGED trainer
     \/ model /\ Returns(Head(channel), "ok") /\ trainer' = TRUE
     \/ model /\ Returns(Head(channel), "failed") /\ UNCHANGED trainer
  /\ model' = FALSE
  /\ UNCHANGED <<decoding, cancel, history>>

TakePlain ==
  /\ Takes("plain")
  /\ \E r \in {"ok", "refused", "failed"} : Returns(Head(channel), r)
  /\ UNCHANGED <<decoding, cancel, engine, history>>

\* Generate and GenerateSpliced: without a model the flag is left alone.
Refuse == ~model /\ Returns(Head(channel), "refused") /\ UNCHANGED <<decoding, cancel>>

Start(flag) == /\ model /\ current' = {Head(channel)} /\ worker' = "prefill" /\ produced' = 0
               /\ cancel' = flag
               /\ UNCHANGED result

\* Mutant: the flag of an earlier cancel is left standing.
TakeGenerate_KeepsFlag ==
  Takes("generate") /\ (Refuse \/ Start(cancel)) /\ UNCHANGED <<engine, history>>

\* A generation clears the flag when it is taken.
TakeGenerate ==
  Takes("generate") /\ (Refuse \/ Start(FALSE)) /\ UNCHANGED <<engine, history>>

\* The prompt is fed without a look at the flag.
Prefilled ==
  /\ worker = "prefill" /\ worker' = "poll"
  /\ UNCHANGED <<commands, current, produced, cancel, engine, result, history>>

Ends(r) ==
  /\ \E c \in current : Returns(c, r)
  /\ worker' = "idle" /\ current' = {} /\ produced' = 0
  /\ UNCHANGED <<commands, cancel, engine, history>>

\* An empty prompt, bad dimensions, or a step of the model that fails.
GenerateFails == (worker = "prefill" \/ (worker = "poll" /\ produced > 0)) /\ Ends("failed")

\* Mutant: the flag is polled before the first token only.
Polled_Once ==
  /\ worker = "poll" /\ produced < MaxNew /\ (produced = 0 => ~cancel)
  /\ worker' = "emit"
  /\ UNCHANGED <<commands, current, produced, cancel, engine, result, history>>

\* The head of decode_loop: the flag is down and the token is not the last.
Polled ==
  /\ worker = "poll" /\ produced < MaxNew /\ ~cancel
  /\ worker' = "emit"
  /\ UNCHANGED <<commands, current, produced, cancel, engine, result, history>>

Cut   == worker = "poll" /\ produced < MaxNew /\ cancel /\ Ends("cut")
Ended == worker = "poll" /\ (produced = MaxNew \/ ~cancel) /\ Ends("ended")

\* The callback, which may run after a cancel that the poll did not see.
Emit ==
  /\ worker = "emit" /\ worker' = "poll"
  /\ produced' = produced + 1
  /\ late' = [c \in Call |-> IF c \in current \intersect reached THEN late[c] + 1 ELSE late[c]]
  /\ UNCHANGED <<commands, current, cancel, engine, result, asked, reached>>

\* Mutant: Shutdown overtakes the commands in the channel, whose callers wait on.
Shutdown_Overtakes ==
  /\ worker = "idle" /\ closing
  /\ worker' = "gone"
  /\ UNCHANGED <<commands, current, produced, cancel, engine, result, history>>

\* Shutdown: the loop breaks and the receiver is dropped.
Shutdown ==
  /\ worker = "idle" /\ closing /\ channel = <<>>
  /\ worker' = "gone"
  /\ UNCHANGED <<commands, current, produced, cancel, engine, result, history>>

Worker == \/ TakeLoad \/ TakeTrain \/ TakePlain \/ TakeGenerate
          \/ Prefilled \/ GenerateFails \/ Polled \/ Cut \/ Ended \/ Emit \/ Shutdown

Next == Worker \/ Cancel \/ Free \/ \E c \in Call, k \in Kind : Send(c, k)

Spec == Init /\ [][Next]_vars

\* The worker thread runs whenever it has something to do.
FairSpec == Spec /\ WF_vars(Worker)
--------------------------------------------------------------------------------
Running == worker \in {"prefill", "poll", "emit"}

\* The types, and that a generation has a call exactly while it runs: the
\* reply of Generate is sent by the worker that took the command (lib.rs:318-342).
TypeOK ==
  /\ channel \in Seq(Call) /\ closing \in BOOLEAN
  /\ kind \in [Call -> Kind \union {"none"}]
  /\ worker \in {"idle", "prefill", "poll", "emit", "gone"}
  /\ current \subseteq Call /\ produced \in 0..MaxNew
  /\ cancel \in BOOLEAN /\ model \in BOOLEAN /\ trainer \in BOOLEAN
  /\ result \in [Call -> Result \union {"none"}]
  /\ asked \subseteq Call /\ reached \subseteq Call /\ late \in [Call -> Nat]
  /\ Running <=> (current # {})

\* A flag that nobody's generation was meant by cuts nobody's: a cancel (or a
\* free) made while no generation was in flight does not shorten a later one.
CutOnlyIfAsked == \A c \in Call : result[c] = "cut" => c \in asked

\* "sets a shared flag the decode loop polls" (lib.rs:865): after a cancel made
\* while a generation runs, prefill included, at most the piece already under
\* way is delivered, whatever is taken from the channel before and after.
AtMostOneLate == \A c \in Call : late[c] <= 1

\* Every call returns, also those in the channel when the handle is freed:
\* the callers block in recv for as long as it takes (lib.rs:631).
CallsReturn == \A c \in Call : (kind[c] # "none") ~> (result[c] # "none")
================================================================================
