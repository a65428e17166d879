------------------------------- MODULE TuiTurn_proofs -------------------------------
(***************************************************************************)
(* What TuiTurn keeps for any number of messages, tool calls and kinds of  *)
(* prompt.                                                                 *)
(***************************************************************************)
EXTENDS TuiTurn, SequenceTheorems, TLAPS

Entry(M) == [role : {"user", "assistant"}, of : SUBSET M]

(* What is well-typed stays so when another message is typed. *)
LEMMA Wider ==
  ASSUME NEW n \in Nat, NEW m \in Nat, n <= m
  PROVE /\ 1..n \subseteq 1..m
        /\ Seq(1..n) \subseteq Seq(1..m)
        /\ Seq(Entry(1..n)) \subseteq Seq(Entry(1..m))
<1>1. 1..n \subseteq 1..m OBVIOUS
<1>2. Entry(1..n) \subseteq Entry(1..m) BY <1>1 DEF Entry
<1>3. Seq(1..n) \subseteq Seq(1..m) BY <1>1, SeqMonotonic
<1> HIDE DEF Entry
<1>4. Seq(Entry(1..n)) \subseteq Seq(Entry(1..m)) BY <1>2, SeqMonotonic
<1> QED BY <1>1, <1>3, <1>4

(* A new entry of a message or of messages typed keeps the history well-typed. *)
LEMMA NewEntry ==
  ASSUME NEW M, NEW h \in Seq(Entry(M)), NEW of \in SUBSET M, NEW r \in {"user", "assistant"}
  PROVE Append(h, [role |-> r, of |-> of]) \in Seq(Entry(M))
<1>1. [role |-> r, of |-> of] \in Entry(M) BY DEF Entry
<1> HIDE DEF Entry
<1> QED BY <1>1, AppendProperties

(* The modes are those of the screen. *)
LEMMA ScreenStep == ASSUME TypeOK, Next PROVE ScreenOK'
<1> USE Prompts DEF TypeOK, ScreenOK, ConversationOK, Kind, conv, planned, prompt, tasks, gates, said
<1>1. ASSUME NEW e \in {"text", "call", "end"}, ProviderSends(e) PROVE ScreenOK'
  BY <1>1 DEF ProviderSends
<1>2. ASSUME NEW i \in Tool, ToolSteps(i) PROVE ScreenOK'
  BY <1>2 DEF ToolSteps, ToolGate, ToolEnds, ToolAsks
<1>3. CASE PollStream BY <1>3 DEF PollStream, Finalize, SpawnTool
<1>4. CASE PollTool BY <1>4 DEF PollTool, Continue, Finalize
<1>5. ASSUME NEW k \in Kind, PollPrompt(k) PROVE ScreenOK' BY <1>5 DEF PollPrompt
<1>6. CASE Enter \/ AnswerQuestions
  BY <1>6 DEF Enter, AnswerQuestions, Sends, Submit, Key, Handled
<1>7. CASE Enqueue BY <1>7 DEF Enqueue, Key, Handled
<1>8. CASE AskCancel BY <1>8 DEF AskCancel, Key, Handled
<1>9. CASE Cancel BY <1>9 DEF Cancel, Key, Handled
<1>10. CASE OpenOverlay BY <1>10 DEF OpenOverlay, Key, Handled
<1>11. CASE CloseOverlay BY <1>11 DEF CloseOverlay, Key, Handled
<1>12. CASE NoKey BY <1>12 DEF NoKey, Key, Handled
<1>13. ASSUME NEW k \in Kind, NEW yes \in BOOLEAN, AnswerPrompt(k, yes) PROVE ScreenOK'
  BY <1>13 DEF AnswerPrompt, Key, Handled
<1>14. CASE EndOfIteration BY <1>14 DEF EndOfIteration, Submit
<1>15. CASE EnterPlan \/ ExitPlan \/ PlanSubmit
  BY <1>15 DEF EnterPlan, ExitPlan, PlanSubmit, Key, Handled
<1> QED BY <1>1, <1>2, <1>3, <1>4, <1>5, <1>6, <1>7, <1>8, <1>9, <1>10, <1>11, <1>12, <1>13, <1>14,
          <1>15 DEF Next, Polls

(* What finalize_stream leaves of a turn. *)
LEMMA Finalized ==
  ASSUME TypeOK, NEW text \in SUBSET Messages, Finalize(text)
  PROVE /\ history' \in Seq(Entry(Messages)) /\ content' = {} /\ stream' = NoStream
        /\ mode' \notin {"Waiting", "CancelConfirm"}
<1>1. history' \in Seq(Entry(Messages))
  BY NewEntry DEF TypeOK, ConversationOK, Finalize, Entry
<1>2. mode' \notin {"Waiting", "CancelConfirm"} BY DEF Finalize
<1> QED BY <1>1, <1>2 DEF Finalize

(* What a submission makes of the conversation. *)
LEMMA Submitted ==
  ASSUME NEW M, history \in Seq(Entry(M)), NEW m \in M, Submit(m)
  PROVE /\ history' \in Seq(Entry(M)) /\ content' = {} /\ mode' = "Waiting"
        /\ stream' = [turn |-> m, chat |-> TRUE, events |-> {}, live |-> TRUE]
BY NewEntry DEF Submit

(* Messages, turns and replies name messages that were typed. *)
LEMMA ConversationStep == ASSUME TypeOK, Next PROVE ConversationOK'
<1> USE Bounds DEF TypeOK, ConversationOK, Messages, conv, planned, prompt, tasks, gates, said
<1>a. typed \in Nat /\ Received \in SUBSET Messages /\ OpenTurns \in SUBSET Messages
  <2>1. "text" \in stream.events => stream.turn \in Messages OBVIOUS
  <2>2. toolRx # 0 => turnOf[toolRx] \in Messages BY DEF TasksOK, Tool
  <2>3. Received \in SUBSET Messages
    <3>1. CASE "text" \in stream.events BY <3>1, <2>1 DEF Received
    <3>2. CASE "text" \notin stream.events BY <3>2 DEF Received
    <3> QED BY <3>1, <3>2
  <2>4. OpenTurns \in SUBSET Messages BY <2>2 DEF OpenTurns
  <2> QED BY <2>3, <2>4
<1>1. ASSUME NEW e \in {"text", "call", "end"}, ProviderSends(e) PROVE ConversationOK'
  BY <1>1 DEF ProviderSends
<1>2. ASSUME NEW i \in Tool, ToolSteps(i) PROVE ConversationOK'
  BY <1>2 DEF ToolSteps, ToolGate, ToolEnds, ToolAsks
<1>3. CASE PollStream
  <2>1. CASE Finalize(Received)
    <3>1. history' \in Seq(Entry(Messages)) /\ content' = {} /\ stream' = NoStream
      BY <2>1, <1>a, Finalized
    <3> QED BY <1>3, <3>1 DEF PollStream, NoStream, Entry
  <2>2. CASE ~Finalize(Received)
    <3>1. /\ history' = history /\ content' = Received
          /\ stream' \in {NoStream, [stream EXCEPT !.events = {}]}
      BY <1>3, <2>2 DEF PollStream
    <3>2. /\ typed' = typed /\ queue' = queue /\ cancelled' = cancelled /\ loop' # "keyed"
      BY <1>3 DEF PollStream
    <3>3. CASE stream' = NoStream BY <3>1, <3>2, <3>3, <1>a DEF NoStream
    <3>4. CASE stream' = [stream EXCEPT !.events = {}]
      <4>1. stream.turn # 0 BY <1>3 DEF PollStream
      <4>2. stream' = [turn |-> stream.turn, chat |-> stream.chat, events |-> {}, live |-> stream.live]
        BY <3>4
      <4> QED BY <3>1, <3>2, <4>1, <4>2, <1>a
    <3> QED BY <3>1, <3>3, <3>4
  <2> QED BY <2>1, <2>2
<1>4. CASE PollTool
  <2>1. CASE Finalize(content)
    <3>1. history' \in Seq(Entry(Messages)) /\ content' = {} /\ stream' = NoStream
      BY <2>1, Finalized
    <3> QED BY <1>4, <3>1 DEF PollTool, Continue, NoStream, Entry
  <2>2. CASE ~Finalize(content)
    <3>1. turnOf[toolRx] \in Messages BY <1>4 DEF PollTool, Continue, TasksOK, Tool
    <3>2. /\ stream' = [turn |-> turnOf[toolRx], chat |-> FALSE, events |-> {}, live |-> TRUE]
          /\ history' = history /\ content' = content
      BY <1>4, <2>2 DEF PollTool, Continue
    <3>3. typed' = typed /\ queue' = queue /\ cancelled' = cancelled /\ loop' = loop
      BY <1>4 DEF PollTool, Continue
    <3> QED BY <3>1, <3>2, <3>3
  <2> QED BY <2>1, <2>2
<1>5. ASSUME NEW k \in Kind, PollPrompt(k) PROVE ConversationOK' BY <1>5 DEF PollPrompt
<1>6. CASE Enter \/ AnswerQuestions
  <2>1. /\ typed' = typed + 1 /\ typed' \in 0..MaxMessages /\ typed + 1 \in 1..(typed + 1)
    BY <1>6, <1>a DEF Enter, AnswerQuestions, Sends
  <2>0. history \in Seq(Entry(1..typed)) BY DEF Entry
  <2>2. /\ 1..typed \subseteq 1..(typed + 1) /\ queue \in Seq(1..(typed + 1))
        /\ history \in Seq(Entry(1..(typed + 1)))
    BY <1>a, <2>0, Wider
  <2>3. /\ history' \in Seq(Entry(1..(typed + 1))) /\ content' = {}
        /\ stream' = [turn |-> typed + 1, chat |-> TRUE, events |-> {}, live |-> TRUE]
    BY <1>6, <2>1, <2>2, Submitted DEF Enter, AnswerQuestions, Sends
  <2>4. queue' = queue /\ cancelled' = cancelled /\ (loop' = "keyed" => queue' # <<>>)
    BY <1>6 DEF Enter, AnswerQuestions, Sends, Handled
  <2> QED BY <2>1, <2>2, <2>3, <2>4 DEF Entry
<1>7. CASE Enqueue
  <2>1. /\ typed' = typed + 1 /\ typed' \in 0..MaxMessages /\ typed + 1 \in 1..(typed + 1)
    BY <1>7, <1>a DEF Enqueue
  <2>0. history \in Seq(Entry(1..typed)) BY DEF Entry
  <2>2. /\ 1..typed \subseteq 1..(typed + 1) /\ queue \in Seq(1..(typed + 1))
        /\ history \in Seq(Entry(1..(typed + 1)))
    BY <1>a, <2>0, Wider
  <2>3. queue' \in Seq(1..(typed + 1)) BY <1>7, <2>1, <2>2, AppendProperties DEF Enqueue
  <2>4. /\ history' = history /\ content' = content /\ stream' = stream
        /\ cancelled' = cancelled /\ (loop' = "keyed" => queue' # <<>>)
    BY <1>7 DEF Enqueue, Handled
  <2>5. stream \in [turn : 1..(typed + 1) \union {0}, chat : BOOLEAN,
                    events : SUBSET {"text", "call", "end"}, live : BOOLEAN]
    BY <2>2
  <2> QED BY <2>1, <2>2, <2>3, <2>4, <2>5 DEF Entry
<1>8. CASE AskCancel BY <1>8 DEF AskCancel, Handled
<1>9. CASE Cancel BY <1>9, <1>a DEF Cancel, Handled, NoStream
<1>10. CASE OpenOverlay BY <1>10 DEF OpenOverlay, Handled
<1>11. CASE CloseOverlay BY <1>11 DEF CloseOverlay, Handled
<1>12. CASE NoKey BY <1>12 DEF NoKey, Handled
<1>13. ASSUME NEW k \in Kind, NEW yes \in BOOLEAN, AnswerPrompt(k, yes) PROVE ConversationOK'
  BY <1>13 DEF AnswerPrompt, Handled
<1>14. CASE EndOfIteration
  <2>1. queue # <<>> BY <1>14 DEF EndOfIteration
  <2>2. Head(queue) \in Messages /\ Tail(queue) \in Seq(Messages)
    BY <2>1, HeadTailProperties
  <2>3. /\ history' \in Seq(Entry(Messages)) /\ content' = {}
        /\ stream' = [turn |-> Head(queue), chat |-> TRUE, events |-> {}, live |-> TRUE]
    BY <1>14, <2>2, Submitted DEF EndOfIteration, Entry
  <2> QED BY <1>14, <2>2, <2>3 DEF EndOfIteration, Entry
<1>15. CASE EnterPlan \/ ExitPlan \/ PlanSubmit
  <2>1. CASE EnterPlan \/ ExitPlan
    <3>1. history' \in Seq(Entry(Messages)) BY <2>1 DEF EnterPlan, ExitPlan, PlansOK, Entry
    <3> QED BY <2>1, <3>1 DEF EnterPlan, ExitPlan, Handled, Entry
  <2>2. CASE PlanSubmit
    <3>1. /\ typed' = typed + 1 /\ typed' \in 0..MaxMessages
          /\ UNCHANGED <<queue, history, content, stream, cancelled>>
          /\ (loop' = "keyed" => queue' # <<>>)
      BY <2>2, <1>a DEF PlanSubmit, Handled
    <3>2. history \in Seq(Entry(1..typed)) BY DEF Entry
    <3>3. /\ 1..typed \subseteq 1..(typed + 1) /\ queue \in Seq(1..(typed + 1))
          /\ history \in Seq(Entry(1..(typed + 1)))
      BY <1>a, <3>2, Wider
    <3>4. stream \in [turn : 1..(typed + 1) \union {0}, chat : BOOLEAN,
                      events : SUBSET {"text", "call", "end"}, live : BOOLEAN]
      BY <3>3
    <3> QED BY <3>1, <3>3, <3>4 DEF Entry
  <2> QED BY <1>15, <2>1, <2>2
<1> QED BY <1>1, <1>2, <1>3, <1>4, <1>5, <1>6, <1>7, <1>8, <1>9, <1>10, <1>11, <1>12, <1>13, <1>14,
          <1>15 DEF Next, Polls

(* Only the keys of plan mode touch what it keeps aside. *)
LEMMA Unplanned == ASSUME Next, ~(EnterPlan \/ ExitPlan \/ PlanSubmit) PROVE UNCHANGED planned
<1> USE DEF conv, planned
<1>1. ASSUME NEW e \in {"text", "call", "end"}, ProviderSends(e) PROVE UNCHANGED planned
  BY <1>1 DEF ProviderSends
<1>2. ASSUME NEW i \in Tool, ToolSteps(i) PROVE UNCHANGED planned
  BY <1>2 DEF ToolSteps, ToolGate, ToolEnds, ToolAsks
<1>3. CASE Polls BY <1>3 DEF Polls, PollStream, PollTool, PollPrompt
<1>4. CASE Enter \/ AnswerQuestions \/ Enqueue \/ AskCancel \/ Cancel
  BY <1>4 DEF Enter, AnswerQuestions, Sends, Enqueue, AskCancel, Cancel
<1>5. CASE OpenOverlay \/ CloseOverlay \/ NoKey BY <1>5 DEF OpenOverlay, CloseOverlay, NoKey
<1>6. ASSUME NEW k \in Kind, NEW yes \in BOOLEAN, AnswerPrompt(k, yes) PROVE UNCHANGED planned
  BY <1>6 DEF AnswerPrompt
<1>7. CASE EndOfIteration BY <1>7 DEF EndOfIteration
<1> QED BY <1>1, <1>2, <1>3, <1>4, <1>5, <1>6, <1>7 DEF Next

(* Messages are only added to those typed. *)
LEMMA MoreTyped ==
  ASSUME ConversationOK, Next PROVE typed \in Nat /\ typed' \in {typed, typed + 1}
<1> USE DEF conv
<1>9. typed \in Nat BY DEF ConversationOK
<1>1. ASSUME NEW e \in {"text", "call", "end"}, ProviderSends(e) PROVE typed' = typed
  BY <1>1 DEF ProviderSends
<1>2. ASSUME NEW i \in Tool, ToolSteps(i) PROVE typed' = typed
  BY <1>2 DEF ToolSteps, ToolGate, ToolEnds, ToolAsks
<1>3. CASE Polls BY <1>3, <1>9 DEF Polls, PollStream, PollTool, PollPrompt
<1>4. CASE Enter \/ AnswerQuestions \/ Enqueue \/ AskCancel \/ Cancel
  BY <1>4, <1>9 DEF Enter, AnswerQuestions, Sends, Enqueue, AskCancel, Cancel
<1>5. CASE OpenOverlay \/ CloseOverlay \/ NoKey BY <1>5, <1>9 DEF OpenOverlay, CloseOverlay, NoKey
<1>6. ASSUME NEW k \in Kind, NEW yes \in BOOLEAN, AnswerPrompt(k, yes) PROVE typed' = typed
  BY <1>6 DEF AnswerPrompt
<1>7. CASE EndOfIteration BY <1>7, <1>9 DEF EndOfIteration
<1>8. CASE EnterPlan \/ ExitPlan \/ PlanSubmit BY <1>8, <1>9 DEF EnterPlan, ExitPlan, PlanSubmit
<1> QED BY <1>1, <1>2, <1>3, <1>4, <1>5, <1>6, <1>7, <1>8, <1>9 DEF Next

(* The contexts aside are conversations that were on screen. *)
LEMMA PlansStep == ASSUME TypeOK, Next PROVE PlansOK'
<1> USE Bounds DEF TypeOK, planned
<1>1. typed \in Nat /\ typed' \in Nat /\ typed <= typed' BY MoreTyped
<1>2. Messages \subseteq Messages' /\ Seq(Entry(Messages)) \subseteq Seq(Entry(Messages'))
  BY <1>1, Wider DEF Messages
<1>3. history \in Seq(Entry(Messages)) /\ {plan} \union saved \subseteq Seq(Entry(Messages))
  BY DEF ConversationOK, PlansOK, Entry
<1>4. CASE EnterPlan
  <2>1. plan' = plan /\ saved' = {history} /\ noted' = noted /\ typed' = typed
    BY <1>4 DEF EnterPlan
  <2>2. {plan'} \union saved' \subseteq Seq(Entry(Messages')) BY <2>1, <1>2, <1>3
  <2>3. overwritten' \subseteq Messages' /\ noted' \subseteq Messages'
    BY <1>4, <1>2, <2>1 DEF EnterPlan, PlansOK, Messages
  <2>4. entered' \in 0..MaxDetours
    <3>1. entered' = entered + 1 /\ spawned + entered < MaxDetours
      BY <1>4 DEF EnterPlan, MayDetour
    <3>2. entered \in Nat /\ spawned \in Nat BY DEF PlansOK, TasksOK
    <3> QED BY <3>1, <3>2
  <2> QED BY <2>2, <2>3, <2>4 DEF PlansOK, Entry
<1>5. CASE ExitPlan
  <2>1. /\ plan' = history /\ saved' = {}
        /\ UNCHANGED <<noted, overwritten, entered>>
    BY <1>5 DEF ExitPlan
  <2>2. {plan'} \union saved' \subseteq Seq(Entry(Messages')) BY <2>1, <1>2, <1>3
  <2> QED BY <2>1, <2>2, <1>2 DEF PlansOK, Entry
<1>6. CASE PlanSubmit
  <2>1. /\ UNCHANGED <<plan, saved, overwritten, entered>> /\ noted' = noted \union {typed + 1}
        /\ typed' = typed + 1
    BY <1>6 DEF PlanSubmit
  <2>2. {plan'} \union saved' \subseteq Seq(Entry(Messages')) BY <2>1, <1>2, <1>3
  <2>3. typed + 1 \in Messages' BY <1>1, <2>1 DEF Messages
  <2> QED BY <2>1, <2>2, <2>3, <1>2 DEF PlansOK, Entry
<1>7. CASE UNCHANGED planned
  <2>1. {plan'} \union saved' \subseteq Seq(Entry(Messages')) BY <1>7, <1>2, <1>3
  <2> QED BY <1>7, <2>1, <1>2 DEF PlansOK, Entry
<1> QED BY <1>4, <1>5, <1>6, <1>7, Unplanned

(* An answer, or the want of one, moves at most the tool it is for, which waited. *)
LEMMA Telling ==
  ASSUME TasksOK, NEW k \in Kind, NEW yes \in BOOLEAN, NEW i \in Tool \union {0}
  PROVE /\ Told(i, k, yes) \in [Tool -> ToolAt]
        /\ \A j \in Tool : \/ Told(i, k, yes)[j] = at[j]
                           \/ /\ j = i /\ at[j] = k
                              /\ Told(i, k, yes)[j] = IF yes \/ k # Approval THEN "run" ELSE "error"
BY DEF TasksOK, Told, ToolAt

(* A tool is what it was numbered when it was spawned. *)
LEMMA TasksStep == ASSUME TypeOK, Next PROVE TasksOK'
<1> USE Bounds, Prompts DEF TypeOK, TasksOK, Tool, conv, planned, prompt, tasks, gates, said
<1>a. "none" \notin Kind /\ ToolAt' = ToolAt BY DEF Kind, Approval, ToolAt
<1>b. Messages \subseteq Messages' BY MoreTyped DEF Messages
<1>c. ASSUME UNCHANGED <<spawned, turnOf, toolRx, gated, asked>>,
             at' \in [Tool -> ToolAt], \A j \in Tool : at'[j] = "none" <=> at[j] = "none",
             stream' \in {stream, NoStream}
      PROVE TasksOK'
  BY <1>c, <1>a, <1>b DEF NoStream
<1>d. ASSUME NEW k \in Kind, NEW yes \in BOOLEAN, at' = Told(dialog[k], k, yes),
             UNCHANGED <<spawned, turnOf, toolRx, gated, asked, stream>>
      PROVE TasksOK'
  <2>1. dialog[k] \in Tool \union {0} BY DEF PromptsOK
  <2>2. /\ at' \in [Tool -> ToolAt]
        /\ \A j \in Tool : \/ at'[j] = at[j]
                           \/ at[j] = k /\ at'[j] = IF yes \/ k # Approval THEN "run" ELSE "error"
    BY <1>d, <2>1, Telling
  <2>3. ASSUME NEW j \in Tool PROVE at'[j] = "none" <=> at[j] = "none" BY <2>2, <1>a
  <2> QED BY <1>c, <1>d, <2>2, <2>3
<1>1. ASSUME NEW e \in {"text", "call", "end"}, ProviderSends(e) PROVE TasksOK'
  <2>1. stream'.events = stream.events \union {e} BY <1>1 DEF ProviderSends, ConversationOK
  <2>2. e = "call" => spawned < MaxTools BY <1>1 DEF ProviderSends
  <2> QED BY <1>1, <1>b, <2>1, <2>2 DEF ProviderSends
<1>2. ASSUME NEW i \in Tool, ToolSteps(i) PROVE TasksOK'
  <2>1. CASE ToolGate(i) BY <2>1, <1>a, <1>b DEF ToolGate, ToolAt, Kind
  <2>2. CASE ToolEnds(i) BY <2>2, <1>a, <1>b DEF ToolEnds, ToolAt
  <2>3. ASSUME NEW k \in Later, ToolAsks(i, k) PROVE TasksOK'
    BY <2>3, <1>a, <1>b DEF ToolAsks, ToolAt, Kind
  <2> QED BY <1>2, <2>1, <2>2, <2>3 DEF ToolSteps
<1>3. CASE PollStream
  <2>1. CASE SpawnTool(stream.turn)
    <3>1. stream.turn \in Messages /\ stream.turn # 0
      BY <1>3, <2>1 DEF PollStream, ConversationOK
    <3>2. spawned < MaxTools /\ "call" \notin stream'.events
      BY <1>3, <2>1 DEF PollStream, SpawnTool, NoStream, ConversationOK
    <3> QED BY <2>1, <3>1, <3>2, <1>a, <1>b DEF SpawnTool, ToolAt
  <2>2. CASE UNCHANGED tasks
    <3>1. "call" \notin stream'.events
      BY <1>3, <2>2 DEF PollStream, SpawnTool, Finalize, NoStream, ConversationOK
    <3> QED BY <2>2, <3>1, <1>b
  <2> QED BY <1>3, <2>1, <2>2 DEF PollStream
<1>4. CASE PollTool BY <1>4, <1>b DEF PollTool, Continue, Finalize, NoStream
<1>5. ASSUME NEW k \in Kind, PollPrompt(k) PROVE TasksOK'
  BY <1>5, <1>d DEF PollPrompt
<1>6. CASE Enter \/ AnswerQuestions
  <2>1. UNCHANGED tasks /\ Submit(typed + 1) BY <1>6 DEF Enter, AnswerQuestions, Sends
  <2>2. stream'.events = {} BY <2>1 DEF Submit
  <2> QED BY <2>1, <2>2, <1>b
<1>7. CASE Enqueue BY <1>7, <1>b DEF Enqueue
<1>8. CASE AskCancel BY <1>8, <1>b DEF AskCancel
<1>9. CASE Cancel
  <2>1. at' = [at EXCEPT ![spawned] = IF @ \in {"ok", "error"} THEN @ ELSE "aborted"]
    BY <1>9 DEF Cancel
  <2>2. at' \in [Tool -> ToolAt] BY <2>1 DEF ToolAt
  <2>3. ASSUME NEW j \in Tool PROVE at'[j] = "none" <=> at[j] = "none" BY <2>1
  <2> QED BY <1>9, <2>2, <2>3, <1>a, <1>b DEF Cancel, NoStream
<1>10. CASE OpenOverlay BY <1>10, <1>b DEF OpenOverlay
<1>11. CASE CloseOverlay BY <1>11, <1>b DEF CloseOverlay
<1>12. CASE NoKey BY <1>12, <1>b DEF NoKey
<1>13. ASSUME NEW k \in Kind, NEW yes \in BOOLEAN, AnswerPrompt(k, yes) PROVE TasksOK'
  BY <1>13, <1>d DEF AnswerPrompt
<1>14. CASE EndOfIteration BY <1>14, <1>b DEF EndOfIteration, Submit
<1>15. CASE EnterPlan \/ ExitPlan \/ PlanSubmit
  BY <1>15, <1>b DEF EnterPlan, ExitPlan, PlanSubmit
<1> QED BY <1>1, <1>2, <1>3, <1>4, <1>5, <1>6, <1>7, <1>8, <1>9, <1>10, <1>11, <1>12, <1>13, <1>14,
          <1>15 DEF Next, Polls

(* Dialogs and channels hold tools. *)
LEMMA PromptsStep == ASSUME TypeOK, Next PROVE PromptsOK'
<1> USE Prompts DEF TypeOK, PromptsOK, Kind, conv, planned, prompt, tasks, gates, said
<1>a. ASSUME NEW k \in Kind, NEW i \in Tool PROVE Append(requests[k], i) \in Seq(Tool)
  BY <1>a, AppendProperties
<1>1. ASSUME NEW e \in {"text", "call", "end"}, ProviderSends(e) PROVE PromptsOK'
  BY <1>1 DEF ProviderSends
<1>2. ASSUME NEW i \in Tool, ToolSteps(i) PROVE PromptsOK'
  <2>1. CASE ToolGate(i)
    <3>1. CASE requests' = requests BY <2>1, <3>1 DEF ToolGate
    <3>2. CASE requests' = [requests EXCEPT ![Approval] = Append(@, i)]
      <4>1. Append(requests[Approval], i) \in Seq(Tool) BY <1>a
      <4>2. dialog' = dialog /\ granted' = granted BY <2>1 DEF ToolGate
      <4> QED BY <3>2, <4>1, <4>2
    <3> QED BY <2>1, <3>1, <3>2 DEF ToolGate
  <2>2. CASE ToolEnds(i) BY <2>2 DEF ToolEnds
  <2>3. ASSUME NEW k \in Later, ToolAsks(i, k) PROVE PromptsOK' BY <2>3, <1>a DEF ToolAsks
  <2> QED BY <1>2, <2>1, <2>2, <2>3 DEF ToolSteps
<1>3. CASE PollStream BY <1>3 DEF PollStream
<1>4. CASE PollTool BY <1>4 DEF PollTool, Continue
<1>5. ASSUME NEW k \in Kind, PollPrompt(k) PROVE PromptsOK'
  <2>1. Head(requests[k]) \in Tool /\ Tail(requests[k]) \in Seq(Tool)
    BY <1>5, HeadTailProperties DEF PollPrompt
  <2> QED BY <1>5, <2>1 DEF PollPrompt
<1>6. CASE Enter \/ AnswerQuestions BY <1>6 DEF Enter, AnswerQuestions, Sends
<1>7. CASE Enqueue BY <1>7 DEF Enqueue
<1>8. CASE AskCancel BY <1>8 DEF AskCancel
<1>9. CASE Cancel BY <1>9 DEF Cancel
<1>10. CASE OpenOverlay BY <1>10 DEF OpenOverlay
<1>11. CASE CloseOverlay BY <1>11 DEF CloseOverlay
<1>12. CASE NoKey BY <1>12 DEF NoKey
<1>13. ASSUME NEW k \in Kind, NEW yes \in BOOLEAN, AnswerPrompt(k, yes) PROVE PromptsOK'
  BY <1>13 DEF AnswerPrompt
<1>14. CASE EndOfIteration BY <1>14 DEF EndOfIteration
<1>15. CASE EnterPlan \/ ExitPlan \/ PlanSubmit
  BY <1>15 DEF EnterPlan, ExitPlan, PlanSubmit
<1> QED BY <1>1, <1>2, <1>3, <1>4, <1>5, <1>6, <1>7, <1>8, <1>9, <1>10, <1>11, <1>12, <1>13, <1>14,
          <1>15 DEF Next, Polls

LEMMA TypeStep == ASSUME TypeOK, Next PROVE TypeOK'
BY ScreenStep, ConversationStep, PlansStep, TasksStep, PromptsStep DEF TypeOK

(* Whatever ends the wait of a turn leaves the modes that wait. *)
LEMMA BusyStep == ASSUME TypeOK, WaitingIsBusy, Next PROVE WaitingIsBusy'
<1> USE Bounds, Prompts DEF WaitingIsBusy, TypeOK, ScreenOK, conv, planned, prompt, tasks, gates, said
<1>1. ASSUME NEW e \in {"text", "call", "end"}, ProviderSends(e) PROVE WaitingIsBusy'
  BY <1>1 DEF ProviderSends, ConversationOK
<1>2. ASSUME NEW i \in Tool, ToolSteps(i) PROVE WaitingIsBusy'
  BY <1>2 DEF ToolSteps, ToolGate, ToolEnds, ToolAsks
<1>3. CASE PollStream
  <2>1. CASE SpawnTool(stream.turn) /\ mode' = mode BY <2>1 DEF SpawnTool, TasksOK
  <2>2. CASE Finalize(Received) BY <2>2 DEF Finalize
  <2>3. CASE stream' = [stream EXCEPT !.events = {}]
    BY <1>3, <2>3 DEF PollStream, ConversationOK
  <2> QED BY <1>3, <2>1, <2>2, <2>3 DEF PollStream
<1>4. CASE PollTool
  <2>1. turnOf[toolRx] # 0 BY <1>4 DEF PollTool, Continue, TasksOK, Tool
  <2> QED BY <1>4, <2>1 DEF PollTool, Continue, Finalize
<1>5. ASSUME NEW k \in Kind, PollPrompt(k) PROVE WaitingIsBusy'
  BY <1>5 DEF PollPrompt, Kind, Approval
<1>6. CASE Enter \/ AnswerQuestions
  <2>1. typed + 1 # 0 BY DEF ConversationOK
  <2> QED BY <1>6, <2>1 DEF Enter, AnswerQuestions, Sends, Submit
<1>7. CASE Enqueue BY <1>7 DEF Enqueue
<1>8. CASE AskCancel BY <1>8 DEF AskCancel
<1>9. CASE Cancel BY <1>9 DEF Cancel
<1>10. CASE OpenOverlay BY <1>10 DEF OpenOverlay
<1>11. CASE CloseOverlay BY <1>11 DEF CloseOverlay
<1>12. CASE NoKey BY <1>12 DEF NoKey
<1>13. ASSUME NEW k \in Kind, NEW yes \in BOOLEAN, AnswerPrompt(k, yes) PROVE WaitingIsBusy'
  BY <1>13 DEF AnswerPrompt
<1>14. CASE EndOfIteration
  <2>1. queue # <<>> /\ queue \in Seq(Messages) BY <1>14 DEF EndOfIteration, ConversationOK
  <2>2. Head(queue) \in Messages BY <2>1, HeadTailProperties
  <2>3. Head(queue) # 0 BY <2>2 DEF Messages, ConversationOK
  <2> QED BY <1>14, <2>3 DEF EndOfIteration, Submit
<1>15. CASE EnterPlan \/ ExitPlan \/ PlanSubmit
  BY <1>15 DEF EnterPlan, ExitPlan, PlanSubmit
<1> QED BY <1>1, <1>2, <1>3, <1>4, <1>5, <1>6, <1>7, <1>8, <1>9, <1>10, <1>11, <1>12, <1>13, <1>14,
          <1>15 DEF Next, Polls

(* A tool is counted among the gated when it leaves the gate, not before. *)
GatedLeft == \A i \in gated : at[i] \notin {"none", "gate"}

(* Only the user's yes to the dialog that holds a tool's request lets it pass. *)
LEMMA ApprovedStep == ASSUME TypeOK, ApprovedByUser, GatedLeft, Next PROVE (ApprovedByUser /\ GatedLeft)'
<1> USE Bounds, Prompts DEF ApprovedByUser, GatedLeft, TypeOK, TasksOK, Tool, conv, planned, prompt, tasks, gates, said
<1>a. Approval \notin Later /\ Approval \notin {"run", "ok", "none", "gate"}
      /\ \A k \in Later : k \notin {"none", "gate"}
  BY DEF Approval
<1>b. ASSUME UNCHANGED <<at, gated, granted>> PROVE (ApprovedByUser /\ GatedLeft)' BY <1>b
<1>1. ASSUME NEW e \in {"text", "call", "end"}, ProviderSends(e) PROVE (ApprovedByUser /\ GatedLeft)'
  BY <1>1, <1>b DEF ProviderSends
<1>2. ASSUME NEW i \in Tool, ToolSteps(i) PROVE (ApprovedByUser /\ GatedLeft)'
  <2>1. CASE ToolGate(i)
    <3>1. i \notin gated /\ granted' = granted BY <2>1 DEF ToolGate
    <3>2. CASE at' = [at EXCEPT ![i] = "run"] /\ gated' = gated
      <4>1. \A j \in gated : at'[j] = at[j] BY <3>1, <3>2
      <4> QED BY <3>1, <3>2, <4>1
    <3>3. CASE at' = [at EXCEPT ![i] = Approval] /\ gated' = gated \union {i}
      <4>1. \A j \in gated : at'[j] = at[j] BY <3>1, <3>3
      <4>2. at'[i] = Approval BY <3>3
      <4> QED BY <3>1, <3>3, <4>1, <4>2, <1>a
    <3> QED BY <2>1, <3>2, <3>3 DEF ToolGate
  <2>2. CASE ToolEnds(i) BY <2>2, <1>a DEF ToolEnds
  <2>3. ASSUME NEW k \in Later, ToolAsks(i, k) PROVE (ApprovedByUser /\ GatedLeft)'
    BY <2>3, <1>a DEF ToolAsks
  <2> QED BY <1>2, <2>1, <2>2, <2>3 DEF ToolSteps
<1>3. CASE PollStream
  <2>1. CASE SpawnTool(stream.turn)
    <3>1. at' = [at EXCEPT ![spawned + 1] = "gate"] /\ gated' = gated /\ granted' = granted
      BY <1>3, <2>1 DEF PollStream, SpawnTool
    <3>2. ASSUME NEW j \in gated PROVE at'[j] = at[j]
      <4>1. at[j] # "none" /\ j \in Tool BY GatedLeft
      <4>2. j <= spawned BY <4>1
      <4> QED BY <3>1, <4>1, <4>2
    <3> QED BY <3>1, <3>2
  <2>2. CASE UNCHANGED tasks BY <1>3, <2>2, <1>b DEF PollStream
  <2> QED BY <1>3, <2>1, <2>2 DEF PollStream
<1>4. CASE PollTool BY <1>4, <1>b DEF PollTool, Continue
<1>c. ASSUME NEW k \in Kind, NEW yes \in BOOLEAN, at' = Told(dialog[k], k, yes),
             gated' = gated,
             granted' = IF yes /\ k = Approval THEN granted \union {dialog[k]} ELSE granted
      PROVE (ApprovedByUser /\ GatedLeft)'
  <2>1. dialog[k] \in Tool \union {0} BY DEF PromptsOK
  <2>2. \A j \in Tool : \/ at'[j] = at[j]
                        \/ /\ j = dialog[k] /\ at[j] = k
                           /\ at'[j] = IF yes \/ k # Approval THEN "run" ELSE "error"
    BY <1>c, <2>1, Telling
  <2>3. ASSUME NEW j \in gated
        PROVE /\ at'[j] \in {"run", "ok"} \union Later => j \in granted'
              /\ at'[j] \notin {"none", "gate"}
    <3>1. CASE at'[j] = at[j] BY <3>1, <1>c
    <3>2. CASE j = dialog[k] /\ at[j] = k /\ at'[j] = "error" BY <3>2
    <3>3. CASE j = dialog[k] /\ at[j] = k /\ at'[j] = "run" /\ k = Approval /\ yes
      BY <3>3, <1>c
    <3>4. CASE j = dialog[k] /\ at[j] = k /\ at'[j] = "run" /\ k # Approval
      <4>1. k \in Later BY <3>4 DEF Kind
      <4> QED BY <3>4, <4>1, <1>c
    <3> QED BY <2>2, <3>1, <3>2, <3>3, <3>4
  <2> QED BY <2>3, <1>c
<1>5. ASSUME NEW k \in Kind, PollPrompt(k) PROVE (ApprovedByUser /\ GatedLeft)'
  BY <1>5, <1>c DEF PollPrompt
<1>6. CASE Enter \/ AnswerQuestions BY <1>6, <1>b DEF Enter, AnswerQuestions, Sends
<1>7. CASE Enqueue BY <1>7, <1>b DEF Enqueue
<1>8. CASE AskCancel BY <1>8, <1>b DEF AskCancel
<1>9. CASE Cancel BY <1>9, <1>a DEF Cancel
<1>10. CASE OpenOverlay BY <1>10, <1>b DEF OpenOverlay
<1>11. CASE CloseOverlay BY <1>11, <1>b DEF CloseOverlay
<1>12. CASE NoKey BY <1>12, <1>b DEF NoKey
<1>13. ASSUME NEW k \in Kind, NEW yes \in BOOLEAN, AnswerPrompt(k, yes)
       PROVE (ApprovedByUser /\ GatedLeft)'
  BY <1>13, <1>c DEF AnswerPrompt
<1>14. CASE EndOfIteration BY <1>14, <1>b DEF EndOfIteration
<1>15. CASE EnterPlan \/ ExitPlan \/ PlanSubmit
  BY <1>15, <1>b DEF EnterPlan, ExitPlan, PlanSubmit
<1> QED BY <1>1, <1>2, <1>3, <1>4, <1>5, <1>6, <1>7, <1>8, <1>9, <1>10, <1>11, <1>12, <1>13, <1>14,
          <1>15 DEF Next, Polls

Listed(i, k) == \E n \in DOMAIN requests[k] : requests[k][n] = i
Heard(i, k) == at[i] = k => dialog[k] = i \/ Listed(i, k)

(* A request leaves its channel for the dialog, and the dialog only with an answer. *)
LEMMA HeardStep == ASSUME TypeOK, AskerIsHeard, Next PROVE AskerIsHeard'
<1> USE Bounds, Prompts DEF TypeOK, TasksOK, PromptsOK, Tool, conv, planned, prompt, tasks, gates, said
<1>a. \A i \in Tool, k \in Kind : Heard(i, k) BY DEF AskerIsHeard, Heard, Listed
<1>b. Kind \intersect {"none", "gate", "run", "ok", "error", "aborted"} = {} /\ Approval \notin Later
  BY DEF Kind, Approval
<1>c. SUFFICES ASSUME NEW i \in Tool, NEW k \in Kind PROVE Heard(i, k)'
  BY DEF AskerIsHeard, Heard, Listed
<1>d. Heard(i, k) BY <1>a
<1>e. ASSUME at'[i] \in {at[i]} \union {"none", "gate", "run", "ok", "error", "aborted"},
             requests' = requests, dialog' = dialog
      PROVE Heard(i, k)'
  BY <1>e, <1>d, <1>b DEF Heard, Listed
<1>f. ASSUME NEW j \in Tool, NEW l \in Kind, at' = [at EXCEPT ![j] = l], dialog' = dialog,
             requests' = [requests EXCEPT ![l] = Append(@, j)]
      PROVE Heard(i, k)'
  <2>1. requests[l] \in Seq(Tool) /\ requests'[l] = Append(requests[l], j) BY <1>f
  <2>2. /\ Len(requests'[l]) = Len(requests[l]) + 1 /\ Len(requests[l]) \in Nat
        /\ \A n \in 1..Len(requests[l]) : requests'[l][n] = requests[l][n]
        /\ requests'[l][Len(requests[l]) + 1] = j
        /\ DOMAIN requests[l] = 1..Len(requests[l])
        /\ DOMAIN requests'[l] = 1..(Len(requests[l]) + 1)
    BY <2>1, AppendProperties
  <2>3. Listed(j, l)' BY <2>2 DEF Listed
  <2>4. CASE i = j
    <3>1. at'[i] = l BY <1>f, <2>4
    <3> QED BY <2>3, <2>4, <3>1 DEF Heard
  <2>5. CASE i # j
    <3>1. at'[i] = at[i] BY <1>f, <2>5
    <3>2. Listed(i, k) => Listed(i, k)'
      <4>1. CASE k = l
        <5>1. SUFFICES ASSUME NEW n \in 1..Len(requests[l]), requests[l][n] = i
                       PROVE Listed(i, l)'
          BY <4>1, <2>2 DEF Listed
        <5>2. n \in DOMAIN requests'[l] /\ requests'[l][n] = i BY <5>1, <2>2
        <5> QED BY <5>2 DEF Listed
      <4>2. CASE k # l BY <4>2, <1>f DEF Listed
      <4> QED BY <4>1, <4>2
    <3> QED BY <1>d, <1>f, <3>1, <3>2 DEF Heard
  <2> QED BY <2>4, <2>5
<1>1. ASSUME NEW e \in {"text", "call", "end"}, ProviderSends(e) PROVE Heard(i, k)'
  BY <1>1, <1>e DEF ProviderSends
<1>2. ASSUME NEW j \in Tool, ToolSteps(j) PROVE Heard(i, k)'
  <2>1. CASE ToolGate(j)
    <3>1. CASE at' = [at EXCEPT ![j] = "run"] /\ requests' = requests
      BY <2>1, <3>1, <1>e DEF ToolGate
    <3>2. CASE at' = [at EXCEPT ![j] = Approval]
               /\ requests' = [requests EXCEPT ![Approval] = Append(@, j)]
      <4>1. Approval \in Kind BY DEF Kind
      <4> QED BY <2>1, <3>2, <4>1, <1>f DEF ToolGate
    <3> QED BY <2>1, <3>1, <3>2 DEF ToolGate
  <2>2. CASE ToolEnds(j) BY <2>2, <1>e DEF ToolEnds
  <2>3. ASSUME NEW l \in Later, ToolAsks(j, l) PROVE Heard(i, k)'
    <3>1. l \in Kind BY DEF Kind
    <3> QED BY <2>3, <3>1, <1>f DEF ToolAsks
  <2> QED BY <1>2, <2>1, <2>2, <2>3 DEF ToolSteps
<1>3. CASE PollStream BY <1>3, <1>e DEF PollStream, SpawnTool
<1>4. CASE PollTool BY <1>4, <1>e DEF PollTool, Continue
<1>5. ASSUME NEW l \in Kind, PollPrompt(l) PROVE Heard(i, k)'
  <2>1. /\ requests[l] # <<>> /\ requests[l] \in Seq(Tool)
        /\ at' = Told(dialog[l], l, FALSE)
        /\ dialog' = [dialog EXCEPT ![l] = Head(requests[l])]
        /\ requests' = [requests EXCEPT ![l] = Tail(@)]
    BY <1>5 DEF PollPrompt
  <2>2. dialog[l] \in Tool \union {0} OBVIOUS
  <2>3. at'[i] = at[i] \/ (i = dialog[l] /\ at'[i] \in {"run", "error"})
    <3>1. CASE i = dialog[l] BY <3>1, <2>1 DEF Told
    <3>2. CASE i # dialog[l] BY <3>2, <2>1 DEF Told
    <3> QED BY <3>1, <3>2
  <2>4. CASE k # l
    <3>1. dialog'[k] = dialog[k] /\ requests'[k] = requests[k] BY <2>1, <2>4
    <3> QED BY <3>1, <2>3, <1>d, <1>b DEF Heard, Listed
  <2>5. CASE k = l /\ at'[i] = k
    <3>1. at[i] = k BY <2>3, <2>5, <1>b
    <3>2. dialog[l] # i
      <4>1. ASSUME dialog[l] = i PROVE FALSE
        <5>1. at'[i] \in {"run", "error"} BY <2>1, <2>5, <3>1, <4>1 DEF Told
        <5> QED BY <5>1, <2>5, <1>b
      <4> QED BY <4>1
    <3>3. Listed(i, l) BY <1>d, <2>5, <3>1, <3>2 DEF Heard
    <3>4. PICK n \in DOMAIN requests[l] : requests[l][n] = i BY <3>3 DEF Listed
    <3>5. /\ Head(requests[l]) = requests[l][1] /\ Len(requests[l]) \in Nat
          /\ Len(Tail(requests[l])) = Len(requests[l]) - 1
          /\ \A m \in 1..Len(Tail(requests[l])) : Tail(requests[l])[m] = requests[l][m + 1]
          /\ DOMAIN Tail(requests[l]) = 1..Len(Tail(requests[l]))
          /\ DOMAIN requests[l] = 1..Len(requests[l])
      BY <2>1, HeadTailProperties
    <3>6. dialog'[l] = Head(requests[l]) /\ requests'[l] = Tail(requests[l]) BY <2>1
    <3>7. CASE n = 1 BY <3>4, <3>5, <3>6, <3>7, <2>5 DEF Heard
    <3>8. CASE n # 1
      <4>1. n - 1 \in DOMAIN requests'[l] /\ requests'[l][n - 1] = i
        BY <3>4, <3>5, <3>6, <3>8
      <4> QED BY <4>1, <2>5 DEF Heard, Listed
    <3> QED BY <3>7, <3>8
  <2> QED BY <2>4, <2>5 DEF Heard
<1>6. CASE Enter \/ AnswerQuestions BY <1>6, <1>e DEF Enter, AnswerQuestions, Sends
<1>7. CASE Enqueue BY <1>7, <1>e DEF Enqueue
<1>8. CASE AskCancel BY <1>8, <1>e DEF AskCancel
<1>9. CASE Cancel BY <1>9, <1>e DEF Cancel
<1>10. CASE OpenOverlay BY <1>10, <1>e DEF OpenOverlay
<1>11. CASE CloseOverlay BY <1>11, <1>e DEF CloseOverlay
<1>12. CASE NoKey BY <1>12, <1>e DEF NoKey
<1>13. ASSUME NEW l \in Kind, NEW yes \in BOOLEAN, AnswerPrompt(l, yes) PROVE Heard(i, k)'
  <2>1. /\ at' = Told(dialog[l], l, yes) /\ requests' = requests
        /\ dialog' = [dialog EXCEPT ![l] = 0]
    BY <1>13 DEF AnswerPrompt
  <2>2. at'[i] = at[i] \/ (i = dialog[l] /\ at'[i] \in {"run", "error"})
    <3>1. CASE i = dialog[l] BY <3>1, <2>1 DEF Told
    <3>2. CASE i # dialog[l] BY <3>2, <2>1 DEF Told
    <3> QED BY <3>1, <3>2
  <2>3. CASE k # l
    <3>1. dialog'[k] = dialog[k] BY <2>1, <2>3
    <3> QED BY <3>1, <2>1, <2>2, <1>d, <1>b DEF Heard, Listed
  <2>4. CASE k = l /\ at'[i] = k
    <3>1. at[i] = k BY <2>2, <2>4, <1>b
    <3>2. dialog[l] # i
      <4>1. ASSUME dialog[l] = i PROVE FALSE
        <5>1. at'[i] \in {"run", "error"} BY <2>1, <2>4, <3>1, <4>1 DEF Told
        <5> QED BY <5>1, <2>4, <1>b
      <4> QED BY <4>1
    <3> QED BY <3>1, <3>2, <2>1, <2>4, <1>d DEF Heard, Listed
  <2> QED BY <2>3, <2>4 DEF Heard
<1>14. CASE EndOfIteration BY <1>14, <1>e DEF EndOfIteration
<1>15. CASE EnterPlan \/ ExitPlan \/ PlanSubmit
  BY <1>15, <1>e DEF EnterPlan, ExitPlan, PlanSubmit
<1> QED BY <1>1, <1>2, <1>3, <1>4, <1>5, <1>6, <1>7, <1>8, <1>9, <1>10, <1>11, <1>12, <1>13, <1>14,
          <1>15 DEF Next, Polls

(* Where a sequence has an element: nowhere, or in one place. *)
Places(s, x) == {n \in DOMAIN s : s[n] = x}
NoneIn(s, x) == Places(s, x) = {}
OneIn(s, x)  == \E n \in DOMAIN s : Places(s, x) = {n}
Said(m)      == [role |-> "user", of |-> {m}]

(* Message m is in no conversation; in none of them twice; queued, sent or neither. *)
Nowhere(m) == \A h \in Contexts : NoneIn(h, Said(m))
Once(m)    == \A h \in Contexts : NoneIn(h, Said(m)) \/ OneIn(h, Said(m))
Aside(m)   == m \in noted \union overwritten
InPlace(m) == \/ Aside(m) /\ NoneIn(queue, m) /\ Nowhere(m)
              \/ ~Aside(m) /\ NoneIn(queue, m) /\ ~Nowhere(m) /\ Once(m)
              \/ ~Aside(m) /\ OneIn(queue, m) /\ Nowhere(m)

LEMMA InPlaceIs ==
  ASSUME NEW m
  PROVE InPlace(m) <=>
    \/ m \in noted \union overwritten /\ Holding(m) = {} /\ QueuedAt(m) = {}
    \/ /\ m \notin noted \union overwritten
       /\ \/ /\ QueuedAt(m) = {} /\ Holding(m) # {}
             /\ \A h \in Holding(m) : \E n \in DOMAIN h : SentIn(h, m) = {n}
          \/ Holding(m) = {} /\ \E n \in DOMAIN queue : QueuedAt(m) = {n}
<1>1. \A h : SentIn(h, m) = Places(h, Said(m)) BY DEF SentIn, Places, Said
<1>2. QueuedAt(m) = Places(queue, m) BY DEF QueuedAt, Places
<1>3. Holding(m) = {h \in Contexts : ~NoneIn(h, Said(m))} BY <1>1 DEF Holding, NoneIn
<1>4. Nowhere(m) <=> Holding(m) = {} BY <1>3 DEF Nowhere
<1>5. Once(m) <=> \A h \in Holding(m) : \E n \in DOMAIN h : SentIn(h, m) = {n}
  BY <1>1, <1>3 DEF Once, OneIn
<1>6. /\ NoneIn(queue, m) <=> QueuedAt(m) = {}
      /\ OneIn(queue, m) <=> \E n \in DOMAIN queue : QueuedAt(m) = {n}
  BY <1>2 DEF NoneIn, OneIn
<1> QED BY <1>4, <1>5, <1>6 DEF InPlace, Aside

LEMMA NoMessageLostIs == NoMessageLost <=> \A m \in Messages : InPlace(m)
BY InPlaceIs DEF NoMessageLost

LEMMA NoMessageLostNext == NoMessageLost' <=> (\A m \in Messages : InPlace(m))'
BY NoMessageLostIs, PTL

(* What an element at the end changes. *)
LEMMA AppendPlaces ==
  ASSUME NEW S, NEW s \in Seq(S), NEW e \in S, NEW x
  PROVE /\ Places(Append(s, e), x) = Places(s, x) \union (IF x = e THEN {Len(s) + 1} ELSE {})
        /\ DOMAIN s = 1..Len(s) /\ Len(s) \in Nat
        /\ DOMAIN Append(s, e) = 1..(Len(s) + 1)
<1>1. /\ Append(s, e) \in Seq(S) /\ Len(Append(s, e)) = Len(s) + 1 /\ Len(s) \in Nat
      /\ \A i \in 1..Len(s) : Append(s, e)[i] = s[i]
      /\ Append(s, e)[Len(s) + 1] = e
  BY AppendProperties
<1>2. DOMAIN s = 1..Len(s) /\ DOMAIN Append(s, e) = 1..(Len(s) + 1) BY <1>1
<1>3. ASSUME NEW n PROVE n \in Places(Append(s, e), x)
                         <=> n \in Places(s, x) \union (IF x = e THEN {Len(s) + 1} ELSE {})
  <2>1. CASE n \in 1..Len(s) BY <2>1, <1>1, <1>2 DEF Places
  <2>2. CASE n = Len(s) + 1 BY <2>2, <1>1, <1>2 DEF Places
  <2>3. CASE n \notin 1..Len(s) /\ n # Len(s) + 1 BY <2>3, <1>1, <1>2 DEF Places
  <2> QED BY <2>1, <2>2, <2>3
<1> QED BY <1>1, <1>2, <1>3

LEMMA AppendOther ==
  ASSUME NEW S, NEW s \in Seq(S), NEW e \in S, NEW x, x # e
  PROVE (NoneIn(Append(s, e), x) <=> NoneIn(s, x)) /\ (OneIn(s, x) => OneIn(Append(s, e), x))
<1>1. /\ Places(Append(s, e), x) = Places(s, x) \union (IF x = e THEN {Len(s) + 1} ELSE {})
      /\ DOMAIN s = 1..Len(s) /\ Len(s) \in Nat /\ DOMAIN Append(s, e) = 1..(Len(s) + 1)
  BY AppendPlaces
<1>2. Places(Append(s, e), x) = Places(s, x) BY <1>1
<1> QED BY <1>1, <1>2 DEF NoneIn, OneIn

LEMMA AppendSame ==
  ASSUME NEW S, NEW s \in Seq(S), NEW e \in S, NoneIn(s, e)
  PROVE OneIn(Append(s, e), e)
<1>1. /\ Places(Append(s, e), e) = Places(s, e) \union (IF e = e THEN {Len(s) + 1} ELSE {})
      /\ Len(s) \in Nat /\ DOMAIN Append(s, e) = 1..(Len(s) + 1)
  BY AppendPlaces
<1>2. Places(Append(s, e), e) = {Len(s) + 1} BY <1>1 DEF NoneIn
<1>3. Len(s) + 1 \in DOMAIN Append(s, e) BY <1>1
<1> QED BY <1>2, <1>3 DEF OneIn

(* What leaves with the head of a queue. *)
LEMMA TailPlaces ==
  ASSUME NEW S, NEW s \in Seq(S), s # <<>>, NEW x
  PROVE /\ \A n : n \in Places(Tail(s), x) <=> n \in 1..(Len(s) - 1) /\ n + 1 \in Places(s, x)
        /\ DOMAIN s = 1..Len(s) /\ Len(s) \in Nat \ {0} /\ DOMAIN Tail(s) = 1..(Len(s) - 1)
        /\ 1 \in Places(s, x) <=> x = Head(s)
<1>1. /\ Tail(s) \in Seq(S) /\ Len(Tail(s)) = Len(s) - 1 /\ Len(s) \in Nat
      /\ \A i \in 1..Len(Tail(s)) : Tail(s)[i] = s[i + 1]
      /\ Head(s) = s[1]
  BY HeadTailProperties
<1>2. Len(s) # 0 BY EmptySeq
<1>3. DOMAIN s = 1..Len(s) /\ DOMAIN Tail(s) = 1..(Len(s) - 1) BY <1>1
<1>4. ASSUME NEW n PROVE n \in Places(Tail(s), x) <=> n \in 1..(Len(s) - 1) /\ n + 1 \in Places(s, x)
  <2>1. CASE n \in 1..(Len(s) - 1)
    <3>1. Tail(s)[n] = s[n + 1] /\ n + 1 \in 1..Len(s) BY <2>1, <1>1
    <3> QED BY <2>1, <3>1, <1>3 DEF Places
  <2>2. CASE n \notin 1..(Len(s) - 1) BY <2>2, <1>3 DEF Places
  <2> QED BY <2>1, <2>2
<1>5. 1 \in Places(s, x) <=> x = Head(s) BY <1>1, <1>2, <1>3 DEF Places
<1> QED BY <1>1, <1>2, <1>3, <1>4, <1>5

LEMMA HeadLeaves ==
  ASSUME NEW S, NEW s \in Seq(S), s # <<>>, OneIn(s, Head(s))
  PROVE NoneIn(Tail(s), Head(s))
<1>1. PICK n \in DOMAIN s : Places(s, Head(s)) = {n} BY DEF OneIn
<1>2. /\ \A k : k \in Places(Tail(s), Head(s)) <=> k \in 1..(Len(s) - 1) /\ k + 1 \in Places(s, Head(s))
      /\ 1 \in Places(s, Head(s)) /\ Len(s) \in Nat
  BY TailPlaces
<1>3. n = 1 BY <1>1, <1>2
<1>4. ASSUME NEW k, k \in Places(Tail(s), Head(s)) PROVE FALSE
  <2>1. k \in 1..(Len(s) - 1) /\ k + 1 = 1 BY <1>1, <1>2, <1>3, <1>4
  <2> QED BY <2>1, <1>2
<1> QED BY <1>4 DEF NoneIn

LEMMA OthersStay ==
  ASSUME NEW S, NEW s \in Seq(S), s # <<>>, NEW x, x # Head(s)
  PROVE (NoneIn(s, x) => NoneIn(Tail(s), x)) /\ (OneIn(s, x) => OneIn(Tail(s), x))
<1>1. /\ \A n : n \in Places(Tail(s), x) <=> n \in 1..(Len(s) - 1) /\ n + 1 \in Places(s, x)
      /\ DOMAIN s = 1..Len(s) /\ Len(s) \in Nat /\ DOMAIN Tail(s) = 1..(Len(s) - 1)
      /\ 1 \notin Places(s, x)
  BY TailPlaces
<1>2. NoneIn(s, x) => NoneIn(Tail(s), x) BY <1>1 DEF NoneIn
<1>3. ASSUME OneIn(s, x) PROVE OneIn(Tail(s), x)
  <2>1. PICK n \in 1..Len(s) : Places(s, x) = {n} BY <1>1, <1>3 DEF OneIn
  <2>2. n # 1 BY <1>1, <2>1
  <2>3. n - 1 \in 1..(Len(s) - 1) /\ (n - 1) + 1 = n BY <1>1, <2>1, <2>2
  <2>4. ASSUME NEW k PROVE k \in Places(Tail(s), x) <=> k = n - 1
    <3>1. k \in Places(Tail(s), x) => k = n - 1 BY <1>1, <2>1
    <3>2. n - 1 \in Places(Tail(s), x) BY <1>1, <2>1, <2>3
    <3> QED BY <3>1, <3>2
  <2>5. Places(Tail(s), x) = {n - 1} BY <2>4
  <2> QED BY <2>3, <2>5, <1>1 DEF OneIn
<1> QED BY <1>2, <1>3

LEMMA Absent == ASSUME NEW S, NEW s \in Seq(S), NEW x, x \notin S PROVE NoneIn(s, x)
<1>1. \A n \in 1..Len(s) : s[n] \in S BY ElementOfSeq
<1>2. DOMAIN s = 1..Len(s) OBVIOUS
<1> QED BY <1>1, <1>2 DEF NoneIn, Places

(* A reply is nobody's message. *)
LEMMA ReplyIsNoMessage ==
  ASSUME NEW M, NEW h \in Seq(Entry(M)), NEW text \in SUBSET M, NEW m
  PROVE LET h2 == Append(h, [role |-> "assistant", of |-> text])
        IN (NoneIn(h2, Said(m)) <=> NoneIn(h, Said(m))) /\ (OneIn(h, Said(m)) => OneIn(h2, Said(m)))
<1> DEFINE e == [role |-> "assistant", of |-> text]
<1>1. e \in Entry(M) /\ Said(m) # e BY DEF Entry, Said
<1> HIDE DEF e, Entry
<1>2. (NoneIn(Append(h, e), Said(m)) <=> NoneIn(h, Said(m)))
      /\ (OneIn(h, Said(m)) => OneIn(Append(h, e), Said(m)))
  BY <1>1, AppendOther
<1> QED BY <1>2 DEF e

(* A message sent is said once more, the others as before. *)
LEMMA Saying ==
  ASSUME NEW M, NEW h \in Seq(Entry(M)), NEW m \in M, NoneIn(h, Said(m)), NEW x
  PROVE LET h2 == Append(h, Said(m))
        IN /\ OneIn(h2, Said(m))
           /\ x # m => /\ NoneIn(h2, Said(x)) <=> NoneIn(h, Said(x))
                       /\ OneIn(h, Said(x)) => OneIn(h2, Said(x))
<1>1. Said(m) \in Entry(M) /\ (x # m => Said(x) # Said(m)) BY DEF Entry, Said
<1> HIDE DEF Entry, Said
<1>2. OneIn(Append(h, Said(m)), Said(m)) BY <1>1, AppendSame
<1>3. ASSUME x # m
      PROVE /\ NoneIn(Append(h, Said(m)), Said(x)) <=> NoneIn(h, Said(x))
            /\ OneIn(h, Said(x)) => OneIn(Append(h, Said(m)), Said(x))
  BY <1>1, <1>3, AppendOther
<1> QED BY <1>2, <1>3

(* In plan mode one main context is saved, and the conversation on screen holds what
   the plan's, its copy, held. *)
PlanKept ==
  /\ saved # {} => \E h : saved = {h}
  /\ mode = "PlanMode" => /\ saved # {}
                          /\ \A m : NoneIn(history, Said(m)) => NoneIn(plan, Said(m))

(* A conversation on screen that holds what it held, and a message once where it did. *)
LEMMA ContextsFollow ==
  ASSUME NEW m, UNCHANGED planned,
         NoneIn(history', Said(m)) <=> NoneIn(history, Said(m)),
         OneIn(history, Said(m)) => OneIn(history', Said(m))
  PROVE /\ (Nowhere(m)' <=> Nowhere(m)) /\ (Once(m) => Once(m)') /\ (Aside(m)' <=> Aside(m))
<1>1. /\ Contexts = {history, plan} \union saved
      /\ Contexts' = {history', plan} \union saved
      /\ noted' = noted /\ overwritten' = overwritten
  BY DEF Contexts, planned
<1>2. (\A h \in Contexts' : NoneIn(h, Said(m))) <=> (\A h \in Contexts : NoneIn(h, Said(m)))
  BY <1>1
<1>3. ASSUME Once(m) PROVE \A h \in Contexts' : NoneIn(h, Said(m)) \/ OneIn(h, Said(m))
  BY <1>1, <1>3 DEF Once
<1> QED BY <1>1, <1>2, <1>3 DEF Nowhere, Once, Aside, Said

(* A message said on screen that was in no conversation is in one. *)
LEMMA NewlySaid ==
  ASSUME NEW m, UNCHANGED planned, Nowhere(m), OneIn(history', Said(m))
  PROVE ~Nowhere(m)' /\ Once(m)' /\ (Aside(m)' <=> Aside(m))
<1>1. /\ Contexts = {history, plan} \union saved
      /\ Contexts' = {history', plan} \union saved
      /\ noted' = noted /\ overwritten' = overwritten
  BY DEF Contexts, planned
<1>2. ~NoneIn(history', Said(m)) BY DEF OneIn, NoneIn
<1>3. ~(\A h \in Contexts' : NoneIn(h, Said(m))) BY <1>1, <1>2
<1>4. \A h \in Contexts' : NoneIn(h, Said(m)) \/ OneIn(h, Said(m)) BY <1>1 DEF Nowhere
<1> QED BY <1>1, <1>3, <1>4 DEF Nowhere, Once, Aside, Said

(* A message not typed yet is nowhere. *)
LEMMA NotTyped ==
  ASSUME TypeOK
  PROVE /\ NoneIn(queue, typed + 1) /\ Nowhere(typed + 1) /\ ~Aside(typed + 1)
<1>1. /\ typed \in Nat /\ queue \in Seq(1..typed) /\ Contexts \subseteq Seq(Entry(1..typed))
      /\ noted \union overwritten \subseteq 1..typed
  <2>1. /\ typed \in Nat /\ queue \in Seq(1..typed) /\ noted \union overwritten \subseteq 1..typed
    BY Bounds DEF TypeOK, ConversationOK, PlansOK, Messages
  <2>2. history \in Seq(Entry(1..typed)) /\ {plan} \union saved \subseteq Seq(Entry(1..typed))
    BY DEF TypeOK, ConversationOK, PlansOK, Entry, Messages
  <2> HIDE DEF Entry
  <2> QED BY <2>1, <2>2 DEF Contexts
<1>2. typed + 1 \notin 1..typed /\ Said(typed + 1) \notin Entry(1..typed)
  BY <1>1 DEF Said, Entry
<1> HIDE DEF Entry, Said
<1> QED BY <1>1, <1>2, Absent DEF Nowhere, Aside

(* Typed, sent and replied to, put aside and brought back: a message changes place when
   it is sent or overwritten, no other does. *)
LEMMA PlacesStep == ASSUME TypeOK, NoMessageLost, PlanKept, Next PROVE NoMessageLost'
<1> USE Bounds DEF TypeOK, conv, prompt, tasks, gates, said
<1>a. /\ typed \in Nat /\ queue \in Seq(1..typed) /\ history \in Seq(Entry(1..typed))
      /\ \A m \in 1..typed : InPlace(m)
  BY NoMessageLostIs DEF ConversationOK, Entry, Messages
<1>p. (\A m \in 1..typed' : InPlace(m)') => NoMessageLost'
  BY NoMessageLostNext DEF Messages
<1>s. ASSUME NEW m, UNCHANGED <<queue, planned>>, InPlace(m),
             NoneIn(history', Said(m)) <=> NoneIn(history, Said(m)),
             OneIn(history, Said(m)) => OneIn(history', Said(m))
      PROVE InPlace(m)'
  <2>1. /\ (Nowhere(m)' <=> Nowhere(m)) /\ (Once(m) => Once(m)') /\ (Aside(m)' <=> Aside(m))
    BY <1>s, ContextsFollow
  <2> QED BY <1>s, <2>1 DEF InPlace
<1>b. ASSUME UNCHANGED <<typed, queue, history, planned>> PROVE NoMessageLost'
  BY <1>a, <1>b, <1>s, <1>p
<1>c. ASSUME UNCHANGED <<typed, queue, planned>>, NEW text \in SUBSET (1..typed), Finalize(text)
      PROVE NoMessageLost'
  <2>1. history' = Append(history, [role |-> "assistant", of |-> text]) BY <1>c DEF Finalize
  <2>2. ASSUME NEW m \in 1..typed PROVE InPlace(m)'
    <3>1. /\ NoneIn(history', Said(m)) <=> NoneIn(history, Said(m))
          /\ OneIn(history, Said(m)) => OneIn(history', Said(m))
      BY <2>1, <1>a, ReplyIsNoMessage
    <3>2. InPlace(m) /\ UNCHANGED <<queue, planned>> BY <1>a, <1>c
    <3> QED BY <3>1, <3>2, <1>s
  <2> QED BY <1>c, <2>2, <1>p
<1>d. /\ 1..typed \subseteq 1..(typed + 1) /\ typed + 1 \in 1..(typed + 1)
      /\ queue \in Seq(1..(typed + 1)) /\ history \in Seq(Entry(1..(typed + 1)))
  BY <1>a, Wider
<1>e. /\ NoneIn(queue, typed + 1) /\ Nowhere(typed + 1) /\ ~Aside(typed + 1)
      /\ NoneIn(history, Said(typed + 1))
  BY NotTyped DEF Nowhere, Contexts
<1>f. CASE Sends
  <2>1. /\ typed' = typed + 1 /\ UNCHANGED <<queue, planned>>
        /\ history' = Append(history, Said(typed + 1))
    BY <1>f DEF Sends, Submit, Said
  <2>2. ASSUME NEW m \in 1..(typed + 1) PROVE InPlace(m)'
    <3>1. /\ OneIn(history', Said(typed + 1))
          /\ m # typed + 1 => /\ NoneIn(history', Said(m)) <=> NoneIn(history, Said(m))
                              /\ OneIn(history, Said(m)) => OneIn(history', Said(m))
      BY <1>d, <1>e, <2>1, Saying
    <3>2. CASE m = typed + 1
      <4>1. ~Nowhere(m)' /\ Once(m)' /\ (Aside(m)' <=> Aside(m))
        BY <1>e, <2>1, <3>1, <3>2, NewlySaid
      <4> QED BY <1>e, <2>1, <3>2, <4>1 DEF InPlace
    <3>3. CASE m # typed + 1
      <4>1. InPlace(m) BY <1>a, <3>3
      <4> QED BY <2>1, <3>1, <3>3, <4>1, <1>s
    <3> QED BY <3>2, <3>3
  <2> QED BY <2>1, <2>2, <1>p
<1>1. ASSUME NEW e \in {"text", "call", "end"}, ProviderSends(e) PROVE NoMessageLost'
  BY <1>1, <1>b DEF ProviderSends
<1>2. ASSUME NEW i \in Tool, ToolSteps(i) PROVE NoMessageLost'
  BY <1>2, <1>b DEF ToolSteps, ToolGate, ToolEnds, ToolAsks
<1>3. CASE PollStream
  <2>1. CASE Finalize(Received)
    <3>1. Received \in SUBSET (1..typed)
      <4>1. stream.events # {} => stream.turn \in 1..typed BY DEF ConversationOK, Messages
      <4> QED BY <1>3, <4>1 DEF PollStream, Received, ConversationOK, Messages
    <3> QED BY <1>3, <2>1, <3>1, <1>c DEF PollStream
  <2>2. CASE ~Finalize(Received) BY <1>3, <2>2, <1>b DEF PollStream
  <2> QED BY <2>1, <2>2
<1>4. CASE PollTool
  <2>1. CASE Finalize(content)
    <3>1. content \in SUBSET (1..typed) BY DEF ConversationOK, Messages
    <3> QED BY <1>4, <2>1, <3>1, <1>c DEF PollTool
  <2>2. CASE ~Finalize(content) BY <1>4, <2>2, <1>b DEF PollTool
  <2> QED BY <2>1, <2>2
<1>5. ASSUME NEW k \in Kind, PollPrompt(k) PROVE NoMessageLost' BY <1>5, <1>b DEF PollPrompt
<1>6. CASE Enter \/ AnswerQuestions BY <1>6, <1>f DEF Enter, AnswerQuestions
<1>7. CASE Enqueue
  <2>1. /\ typed' = typed + 1 /\ queue' = Append(queue, typed + 1)
        /\ UNCHANGED <<history, planned>>
    BY <1>7 DEF Enqueue
  <2>2. ASSUME NEW m \in 1..(typed + 1) PROVE InPlace(m)'
    <3>0. /\ (Nowhere(m)' <=> Nowhere(m)) /\ (Once(m) => Once(m)') /\ (Aside(m)' <=> Aside(m))
      BY <2>1, ContextsFollow
    <3>1. CASE m = typed + 1
      <4>1. OneIn(Append(queue, typed + 1), typed + 1) BY <1>d, <1>e, AppendSame
      <4> QED BY <2>1, <3>0, <3>1, <4>1, <1>e DEF InPlace
    <3>2. CASE m # typed + 1
      <4>1. /\ NoneIn(Append(queue, typed + 1), m) <=> NoneIn(queue, m)
            /\ OneIn(queue, m) => OneIn(Append(queue, typed + 1), m)
        BY <1>d, <3>2, AppendOther
      <4>2. InPlace(m) BY <1>a, <3>2
      <4> QED BY <2>1, <3>0, <4>1, <4>2 DEF InPlace
    <3> QED BY <3>1, <3>2
  <2> QED BY <2>1, <2>2, <1>p
<1>8. CASE AskCancel BY <1>8, <1>b DEF AskCancel
<1>9. CASE Cancel BY <1>9, <1>b DEF Cancel
<1>10. CASE OpenOverlay BY <1>10, <1>b DEF OpenOverlay
<1>11. CASE CloseOverlay BY <1>11, <1>b DEF CloseOverlay
<1>12. CASE NoKey BY <1>12, <1>b DEF NoKey
<1>13. ASSUME NEW k \in Kind, NEW yes \in BOOLEAN, AnswerPrompt(k, yes) PROVE NoMessageLost'
  BY <1>13, <1>b DEF AnswerPrompt
<1>14. CASE EndOfIteration
  <2> DEFINE h == Head(queue)
  <2>1. queue # <<>> BY <1>14 DEF EndOfIteration, ConversationOK
  <2>2. /\ h \in 1..typed /\ queue' = Tail(queue) /\ history' = Append(history, Said(h))
        /\ UNCHANGED <<typed, planned>>
    BY <1>14, <1>a, <2>1, HeadTailProperties DEF EndOfIteration, Submit, Said
  <2>3. Nowhere(h) /\ OneIn(queue, h) /\ ~Aside(h) /\ NoneIn(history, Said(h))
    <3>1. ~NoneIn(queue, h)
      <4>1. 1 \in Places(queue, h) BY <1>a, <2>1, TailPlaces
      <4> QED BY <4>1 DEF NoneIn
    <3>2. Nowhere(h) /\ OneIn(queue, h) /\ ~Aside(h) BY <3>1, <2>2, <1>a DEF InPlace
    <3> QED BY <3>2 DEF Nowhere, Contexts
  <2> HIDE DEF h
  <2>4. ASSUME NEW m \in 1..typed PROVE InPlace(m)'
    <3>1. /\ OneIn(history', Said(h))
          /\ m # h => /\ NoneIn(history', Said(m)) <=> NoneIn(history, Said(m))
                      /\ OneIn(history, Said(m)) => OneIn(history', Said(m))
      BY <1>a, <2>2, <2>3, Saying
    <3>2. CASE m = h
      <4>1. NoneIn(Tail(queue), m) BY <1>a, <2>1, <2>3, <3>2, HeadLeaves DEF h
      <4>2. ~Nowhere(m)' /\ Once(m)' /\ (Aside(m)' <=> Aside(m))
        BY <2>2, <2>3, <3>1, <3>2, NewlySaid
      <4> QED BY <2>2, <2>3, <3>2, <4>1, <4>2 DEF InPlace
    <3>3. CASE m # h
      <4>0. /\ (Nowhere(m)' <=> Nowhere(m)) /\ (Once(m) => Once(m)') /\ (Aside(m)' <=> Aside(m))
        BY <2>2, <3>1, <3>3, ContextsFollow
      <4>1. /\ NoneIn(queue, m) => NoneIn(Tail(queue), m)
            /\ OneIn(queue, m) => OneIn(Tail(queue), m)
        BY <1>a, <2>1, <3>3, OthersStay DEF h
      <4>2. InPlace(m) BY <1>a
      <4> QED BY <2>2, <4>0, <4>1, <4>2 DEF InPlace
    <3> QED BY <3>2, <3>3
  <2> QED BY <2>2, <2>4, <1>p
<1>15. CASE EnterPlan
  <2>1. /\ UNCHANGED <<typed, queue, plan, noted>> /\ saved' = {history} /\ history' = plan
    BY <1>15 DEF EnterPlan
  <2>2. Contexts' = {plan, history} /\ Contexts = {history, plan} \union saved
    BY <2>1 DEF Contexts
  <2>3. ASSUME NEW m \in 1..typed PROVE InPlace(m)'
    <3> DEFINE lost == (\E h \in saved : ~NoneIn(h, Said(m)))
                       /\ NoneIn(history, Said(m)) /\ NoneIn(plan, Said(m))
    <3>1. m \in overwritten' <=> m \in overwritten \/ lost
      <4>1. \A h : SentIn(h, m) = {} <=> NoneIn(h, Said(m)) BY DEF SentIn, NoneIn, Places, Said
      <4> QED BY <1>15, <4>1 DEF EnterPlan
    <3>2. Nowhere(m) <=> ~lost /\ NoneIn(history, Said(m)) /\ NoneIn(plan, Said(m))
      BY <2>2 DEF Nowhere
    <3>3. Nowhere(m)' <=> NoneIn(history, Said(m)) /\ NoneIn(plan, Said(m))
      <4>1. (\A h \in Contexts' : NoneIn(h, Said(m)))
            <=> NoneIn(history, Said(m)) /\ NoneIn(plan, Said(m))
        BY <2>2
      <4> QED BY <4>1 DEF Nowhere, Said
    <3>4. Once(m) => Once(m)'
      <4>1. Once(m) => \A h \in Contexts' : NoneIn(h, Said(m)) \/ OneIn(h, Said(m))
        BY <2>2 DEF Once
      <4> QED BY <4>1 DEF Once, Said
    <3>5. Aside(m)' <=> Aside(m) \/ lost BY <2>1, <3>1 DEF Aside
    <3>6. lost => NoneIn(history, Said(m)) /\ NoneIn(plan, Said(m)) OBVIOUS
    <3> HIDE DEF lost
    <3>7. InPlace(m) /\ queue' = queue BY <1>a, <2>1
    <3> QED BY <3>2, <3>3, <3>4, <3>5, <3>6, <3>7 DEF InPlace
  <2> QED BY <2>1, <2>3, <1>p
<1>16. CASE ExitPlan
  <2>1. PICK h : saved = {h} BY <1>16 DEF ExitPlan, PlanKept
  <2>2. /\ UNCHANGED <<typed, queue, noted, overwritten>>
        /\ plan' = history /\ history' = h /\ saved' = {}
    BY <1>16, <2>1 DEF ExitPlan
  <2>3. Contexts' = {h, history} /\ Contexts = {history, plan, h}
    BY <2>1, <2>2 DEF Contexts
  <2>4. ASSUME NEW m \in 1..typed PROVE InPlace(m)'
    <3>1. NoneIn(history, Said(m)) => NoneIn(plan, Said(m)) BY <1>16 DEF ExitPlan, PlanKept
    <3>2. Nowhere(m)' <=> Nowhere(m)
      <4>1. (\A g \in Contexts' : NoneIn(g, Said(m))) <=> (\A g \in Contexts : NoneIn(g, Said(m)))
        BY <2>3, <3>1
      <4> QED BY <4>1 DEF Nowhere, Said
    <3>3. Once(m) => Once(m)'
      <4>1. Once(m) => \A g \in Contexts' : NoneIn(g, Said(m)) \/ OneIn(g, Said(m))
        BY <2>3 DEF Once
      <4> QED BY <4>1 DEF Once, Said
    <3>4. Aside(m)' <=> Aside(m) BY <2>2 DEF Aside
    <3>5. InPlace(m) /\ queue' = queue BY <1>a, <2>2
    <3> QED BY <3>2, <3>3, <3>4, <3>5 DEF InPlace
  <2> QED BY <2>2, <2>4, <1>p
<1>17. CASE PlanSubmit
  <2>1. /\ typed' = typed + 1 /\ UNCHANGED <<queue, history, plan, saved, overwritten>>
        /\ noted' = noted \union {typed + 1}
    BY <1>17 DEF PlanSubmit
  <2>2. Contexts' = Contexts BY <2>1 DEF Contexts
  <2>3. ASSUME NEW m \in 1..(typed + 1) PROVE InPlace(m)'
    <3>1. (Nowhere(m)' <=> Nowhere(m)) /\ (Once(m)' <=> Once(m))
      BY <2>2 DEF Nowhere, Once, Said
    <3>2. Aside(m)' <=> Aside(m) \/ m = typed + 1 BY <2>1 DEF Aside
    <3>3. CASE m = typed + 1 BY <2>1, <3>1, <3>2, <3>3, <1>e DEF InPlace
    <3>4. CASE m # typed + 1
      <4>1. InPlace(m) BY <1>a, <3>4
      <4> QED BY <2>1, <3>1, <3>2, <3>4, <4>1 DEF InPlace
    <3> QED BY <3>3, <3>4
  <2> QED BY <2>1, <2>3, <1>p
<1> QED BY <1>1, <1>2, <1>3, <1>4, <1>5, <1>6, <1>7, <1>8, <1>9, <1>10, <1>11, <1>12, <1>13, <1>14,
          <1>15, <1>16, <1>17 DEF Next, Polls

(* In plan mode the conversation on screen changes by replies only. *)
LEMMA PlanKeptStep == ASSUME TypeOK, PlanKept, Next PROVE PlanKept'
<1> USE DEF conv, planned, tasks, gates, prompt, said
<1>1. CASE EnterPlan BY <1>1 DEF EnterPlan, PlanKept
<1>2. CASE ExitPlan BY <1>2 DEF ExitPlan, PlanKept
<1>3. CASE PlanSubmit BY <1>3 DEF PlanSubmit, PlanKept, Said, NoneIn, Places
<1>4. ASSUME UNCHANGED planned, mode' # "PlanMode" PROVE PlanKept' BY <1>4 DEF PlanKept
<1>5. ASSUME UNCHANGED planned, mode' \in {mode, "Normal", "QuestionAnswer"},
             \A m : NoneIn(history', Said(m)) => NoneIn(history, Said(m))
      PROVE PlanKept'
  <2>1. CASE mode' = mode BY <1>5, <2>1 DEF PlanKept, Said, NoneIn, Places
  <2>2. CASE mode' # mode BY <1>4, <1>5, <2>2
  <2> QED BY <2>1, <2>2
<1>6. ASSUME UNCHANGED <<planned, history>>, mode' = mode PROVE PlanKept' BY <1>5, <1>6
<1>7. ASSUME UNCHANGED planned, NEW text \in SUBSET Messages, Finalize(text) PROVE PlanKept'
  <2>1. /\ history' = Append(history, [role |-> "assistant", of |-> text])
        /\ mode' \in {mode, "Normal", "QuestionAnswer"}
    BY <1>7 DEF Finalize
  <2>2. history \in Seq(Entry(Messages)) BY DEF TypeOK, ConversationOK, Entry
  <2>3. ASSUME NEW m, NoneIn(history', Said(m)) PROVE NoneIn(history, Said(m))
    BY <2>1, <2>2, <2>3, ReplyIsNoMessage
  <2> QED BY <1>5, <1>7, <2>1, <2>3
<1>a. CASE UNCHANGED planned
  <2>1. ASSUME NEW e \in {"text", "call", "end"}, ProviderSends(e) PROVE PlanKept'
    BY <2>1, <1>6 DEF ProviderSends
  <2>2. ASSUME NEW i \in Tool, ToolSteps(i) PROVE PlanKept'
    BY <2>2, <1>6 DEF ToolSteps, ToolGate, ToolEnds, ToolAsks
  <2>3. CASE PollStream
    <3>1. CASE Finalize(Received)
      <4>1. Received \in SUBSET Messages
        <5>1. stream.events # {} => stream.turn \in Messages BY DEF TypeOK, ConversationOK
        <5> QED BY <2>3, <5>1 DEF PollStream, Received, TypeOK, ConversationOK
      <4> QED BY <1>a, <3>1, <4>1, <1>7
    <3>2. CASE ~Finalize(Received) BY <1>a, <2>3, <3>2, <1>6 DEF PollStream
    <3> QED BY <3>1, <3>2
  <2>4. CASE PollTool
    <3>1. CASE Finalize(content)
      <4>1. content \in SUBSET Messages BY DEF TypeOK, ConversationOK
      <4> QED BY <1>a, <3>1, <4>1, <1>7
    <3>2. CASE ~Finalize(content) BY <1>a, <2>4, <3>2, <1>6 DEF PollTool
    <3> QED BY <3>1, <3>2
  <2>5. ASSUME NEW k \in Kind, PollPrompt(k) PROVE PlanKept'
    BY <1>a, <2>5, <1>4, Prompts DEF PollPrompt, Kind, Approval
  <2>6. CASE Enter \/ AnswerQuestions \/ EndOfIteration
    BY <1>a, <2>6, <1>4 DEF Enter, AnswerQuestions, Sends, EndOfIteration, Submit
  <2>7. CASE Enqueue BY <1>a, <2>7, <1>6 DEF Enqueue
  <2>8. CASE AskCancel \/ Cancel BY <1>a, <2>8, <1>4 DEF AskCancel, Cancel
  <2>9. CASE OpenOverlay \/ CloseOverlay BY <1>a, <2>9, <1>4 DEF OpenOverlay, CloseOverlay
  <2>10. CASE NoKey BY <2>10, <1>6 DEF NoKey
  <2>11. ASSUME NEW k \in Kind, NEW yes \in BOOLEAN, AnswerPrompt(k, yes) PROVE PlanKept'
    BY <1>a, <2>11, <1>4 DEF AnswerPrompt
  <2> QED BY <1>1, <1>2, <1>3, <2>1, <2>2, <2>3, <2>4, <2>5, <2>6, <2>7, <2>8, <2>9, <2>10, <2>11
          DEF Next, Polls
<1> QED BY <1>1, <1>2, <1>3, <1>a, Unplanned

(* A turn that is going on left the queue, and so did one that was cancelled; none is
   both. *)
OpenOrCancelledGone == \A m \in OpenTurns \union cancelled : NoneIn(queue, m)
CancelledNotOpen == OpenTurns \intersect cancelled = {}
TurnsOK == OpenOrCancelledGone /\ CancelledNotOpen

(* No turn is revived by what arrives: it becomes open only by being sent, once. *)
LEMMA TurnsStep == ASSUME TypeOK, NoMessageLost, TurnsOK, Next PROVE TurnsOK'
<1> USE Bounds DEF TypeOK, conv, planned, prompt, tasks, gates, said
<1>a. /\ typed \in Nat /\ queue \in Seq(1..typed) /\ OpenTurns \subseteq 1..typed
      /\ cancelled \subseteq 1..typed /\ \A m \in 1..typed : InPlace(m)
  <2>1. toolRx # 0 => turnOf[toolRx] \in Messages BY DEF TasksOK, Tool, Messages
  <2>2. OpenTurns \subseteq 1..typed BY <2>1 DEF OpenTurns, ConversationOK, Messages
  <2> QED BY <2>2, NoMessageLostIs DEF ConversationOK, Messages
<1>b. ASSUME OpenTurns' \subseteq OpenTurns, UNCHANGED <<cancelled, queue>> PROVE TurnsOK'
  BY <1>b DEF TurnsOK, OpenOrCancelledGone, CancelledNotOpen, NoneIn, Places
<1>d. ASSUME NEW m, m \notin cancelled, cancelled' = cancelled, OpenTurns' \subseteq OpenTurns \union {m},
             NoneIn(queue', m), \A x \in OpenTurns \union cancelled : NoneIn(queue', x)
      PROVE TurnsOK'
  <2>1. \A x \in OpenTurns' \union cancelled' : NoneIn(queue', x) BY <1>d
  <2> QED BY <1>d, <2>1 DEF TurnsOK, OpenOrCancelledGone, CancelledNotOpen, NoneIn, Places
<1>f. CASE Sends
  <2>1. /\ queue' = queue /\ cancelled' = cancelled
        /\ content' = {} /\ stream'.turn = typed + 1 /\ toolRx' = toolRx /\ turnOf' = turnOf
    BY <1>f DEF Sends, Submit
  <2>2. OpenTurns' \subseteq OpenTurns \union {typed + 1} BY <2>1 DEF OpenTurns
  <2>3. NoneIn(queue', typed + 1) /\ typed + 1 \notin cancelled BY <1>a, <2>1, NotTyped
  <2>4. \A x \in OpenTurns \union cancelled : NoneIn(queue', x)
    BY <2>1 DEF TurnsOK, OpenOrCancelledGone
  <2>5. cancelled' = cancelled BY <2>1
  <2> QED BY ONLY <1>d, <2>2, <2>3, <2>4, <2>5
<1>1. ASSUME NEW e \in {"text", "call", "end"}, ProviderSends(e) PROVE TurnsOK'
  <2>1. stream'.turn = stream.turn BY <1>1 DEF ProviderSends, ConversationOK
  <2>2. OpenTurns' = OpenTurns BY <1>1, <2>1 DEF ProviderSends, OpenTurns
  <2> QED BY <1>1, <2>2, <1>b DEF ProviderSends
<1>2. ASSUME NEW i \in Tool, ToolSteps(i) PROVE TurnsOK'
  <2>1. UNCHANGED <<content, stream, toolRx, turnOf, cancelled, queue>>
    BY <1>2 DEF ToolSteps, ToolGate, ToolEnds, ToolAsks
  <2>2. OpenTurns' = OpenTurns BY <2>1 DEF OpenTurns
  <2> QED BY <2>1, <2>2, <1>b
<1>3. CASE PollStream
  <2>0. Received \subseteq OpenTurns /\ UNCHANGED <<cancelled, queue>>
        /\ stream.turn # 0 /\ stream.turn \in OpenTurns
    <3>1. stream.turn \in 1..typed BY <1>3 DEF PollStream, ConversationOK, Messages
    <3>2. content \subseteq OpenTurns BY <1>a DEF OpenTurns, ConversationOK, Messages
    <3>3. stream.turn \in OpenTurns BY <3>1 DEF OpenTurns
    <3> QED BY <1>3, <3>1, <3>2, <3>3 DEF PollStream, Received, ConversationOK, Messages
  <2>1. CASE Finalize(Received) /\ UNCHANGED tasks
    <3>1. OpenTurns' \subseteq OpenTurns BY <2>1 DEF Finalize, OpenTurns, NoStream
    <3> QED BY <2>0, <2>1, <3>1, <1>b
  <2>2. CASE SpawnTool(stream.turn) /\ content' = Received
             /\ stream' \in {NoStream, [stream EXCEPT !.events = {}]}
    <3>1. stream'.turn \in {0, stream.turn} BY <2>2 DEF NoStream, ConversationOK
    <3>2. turnOf'[toolRx'] = stream.turn
      <4>1. spawned + 1 \in Tool
        <5>1. "call" \in stream.events \/ Finalize(Received)
          BY <1>3, <2>2 DEF PollStream, SpawnTool, TasksOK
        <5> QED BY <1>3, <2>2 DEF PollStream, TasksOK, Tool, SpawnTool
      <4> QED BY <2>2, <4>1 DEF SpawnTool, TasksOK
    <3>3. OpenTurns' \subseteq OpenTurns BY <2>0, <2>2, <3>1, <3>2 DEF OpenTurns
    <3> QED BY <2>0, <2>2, <3>3, <1>b
  <2>3. CASE content' = Received /\ stream' = [stream EXCEPT !.events = {}] /\ UNCHANGED tasks
    <3>1. stream'.turn = stream.turn BY <2>3 DEF ConversationOK
    <3>2. OpenTurns' \subseteq OpenTurns BY <2>0, <2>3, <3>1 DEF OpenTurns
    <3> QED BY <2>0, <2>3, <3>2, <1>b
  <2> QED BY <1>3, <2>1, <2>2, <2>3 DEF PollStream
<1>4. CASE PollTool
  <2>1. OpenTurns' \subseteq OpenTurns
    <3>1. CASE Finalize(content) BY <1>4, <3>1 DEF PollTool, Finalize, OpenTurns, NoStream
    <3>2. CASE Continue(turnOf[toolRx]) /\ UNCHANGED content
      BY <1>4, <3>2 DEF PollTool, Continue, OpenTurns
    <3> QED BY <1>4, <3>1, <3>2 DEF PollTool
  <2> QED BY <1>4, <2>1, <1>b DEF PollTool
<1>5. ASSUME NEW k \in Kind, PollPrompt(k) PROVE TurnsOK'
  BY <1>5, <1>b DEF PollPrompt, OpenTurns
<1>6. CASE Enter \/ AnswerQuestions BY <1>6, <1>f DEF Enter, AnswerQuestions
<1>7. CASE Enqueue
  <2>1. /\ queue' = Append(queue, typed + 1) /\ cancelled' = cancelled
        /\ UNCHANGED <<content, stream, toolRx, turnOf>>
    BY <1>7 DEF Enqueue
  <2>2. queue \in Seq(1..(typed + 1)) /\ typed + 1 \in 1..(typed + 1) BY <1>a, Wider
  <2>3. ASSUME NEW x \in OpenTurns \union cancelled PROVE NoneIn(queue', x)
    <3>1. x \in 1..typed /\ NoneIn(queue, x) BY <1>a DEF TurnsOK, OpenOrCancelledGone
    <3>2. x # typed + 1 BY <1>a, <3>1
    <3> QED BY <2>1, <2>2, <3>1, <3>2, AppendOther
  <2>4. OpenTurns' = OpenTurns BY <2>1 DEF OpenTurns
  <2>5. \A x \in OpenTurns' \union cancelled' : NoneIn(queue', x) BY <2>1, <2>3, <2>4
  <2> QED BY <2>1, <2>4, <2>5 DEF TurnsOK, OpenOrCancelledGone, CancelledNotOpen, NoneIn, Places
<1>8. CASE AskCancel BY <1>8, <1>b DEF AskCancel, OpenTurns
<1>9. CASE Cancel
  <2>1. OpenTurns' = {} BY <1>9 DEF Cancel, OpenTurns, NoStream
  <2>2. cancelled' = cancelled \union OpenTurns /\ queue' = queue BY <1>9 DEF Cancel
  <2> QED BY <2>1, <2>2 DEF TurnsOK, OpenOrCancelledGone, CancelledNotOpen, NoneIn, Places
<1>10. CASE OpenOverlay BY <1>10, <1>b DEF OpenOverlay, OpenTurns
<1>11. CASE CloseOverlay BY <1>11, <1>b DEF CloseOverlay, OpenTurns
<1>12. CASE NoKey BY <1>12, <1>b DEF NoKey, OpenTurns
<1>13. ASSUME NEW k \in Kind, NEW yes \in BOOLEAN, AnswerPrompt(k, yes) PROVE TurnsOK'
  BY <1>13, <1>b DEF AnswerPrompt, OpenTurns
<1>14. CASE EndOfIteration
  <2> DEFINE h == Head(queue)
  <2>1. queue # <<>> BY <1>14 DEF EndOfIteration, ConversationOK
  <2>2. /\ h \in 1..typed /\ queue' = Tail(queue) /\ cancelled' = cancelled
        /\ content' = {} /\ stream'.turn = h /\ toolRx' = toolRx /\ turnOf' = turnOf
    BY <1>14, <1>a, <2>1, HeadTailProperties DEF EndOfIteration, Submit
  <2>3. ~NoneIn(queue, h)
    <3>1. 1 \in Places(queue, h) BY <1>a, <2>1, TailPlaces
    <3> QED BY <3>1 DEF NoneIn
  <2>4. NoneIn(Tail(queue), h)
    <3>1. OneIn(queue, h) BY <2>2, <2>3, <1>a DEF InPlace
    <3> QED BY <1>a, <2>1, <3>1, HeadLeaves
  <2>5. ASSUME NEW x \in OpenTurns \union cancelled PROVE NoneIn(Tail(queue), x)
    <3>1. NoneIn(queue, x) BY DEF TurnsOK, OpenOrCancelledGone
    <3>2. x # h BY <2>3, <3>1
    <3> QED BY <1>a, <2>1, <3>1, <3>2, OthersStay
  <2>6. h \notin cancelled BY <2>3 DEF TurnsOK, OpenOrCancelledGone
  <2> HIDE DEF h
  <2>7. OpenTurns' \subseteq OpenTurns \union {h} BY <2>2 DEF OpenTurns
  <2>8. NoneIn(queue', h) /\ \A x \in OpenTurns \union cancelled : NoneIn(queue', x)
    BY <2>2, <2>4, <2>5
  <2>9. cancelled' = cancelled BY <2>2
  <2> QED BY ONLY <1>d, <2>6, <2>7, <2>8, <2>9
<1>15. CASE EnterPlan \/ ExitPlan \/ PlanSubmit
  BY <1>15, <1>b DEF EnterPlan, ExitPlan, PlanSubmit, OpenTurns
<1> QED BY <1>1, <1>2, <1>3, <1>4, <1>5, <1>6, <1>7, <1>8, <1>9, <1>10, <1>11, <1>12, <1>13, <1>14,
          <1>15 DEF Next, Polls

(* A reply is made of turns that are open. *)
Silent == \A n \in NewReplies : history'[n].of \intersect cancelled = {}

LEMMA SilentStep == ASSUME TypeOK, TurnsOK, Next PROVE EnterPlan \/ ExitPlan \/ Silent
<1> USE DEF TypeOK, conv, planned, prompt, tasks, gates, said
<1>1. /\ history \in Seq(Entry(Messages)) /\ content \subseteq OpenTurns
      /\ stream.events # {} => stream.turn \in OpenTurns
  BY DEF ConversationOK, Entry, Messages, OpenTurns
<1>2. ASSUME UNCHANGED history PROVE Silent BY <1>2 DEF Silent, NewReplies
<1>3. ASSUME NEW e, history' = Append(history, e), e.role = "user" \/ e.of \subseteq OpenTurns
      PROVE Silent
  <2>1. Len(history) \in Nat /\ DOMAIN history = 1..Len(history)
        /\ DOMAIN history' = 1..(Len(history) + 1) /\ history'[Len(history) + 1] = e
    BY <1>1, <1>3
  <2>2. \A n \in NewReplies : history'[n] = e /\ e.role = "assistant" BY <2>1 DEF NewReplies
  <2> QED BY <1>3, <2>2 DEF Silent, TurnsOK, CancelledNotOpen
<1>4. ASSUME NEW text \in SUBSET OpenTurns, Finalize(text) PROVE Silent
  BY <1>4, <1>3 DEF Finalize
<1>5. ASSUME NEW m, Submit(m) PROVE Silent BY <1>5, <1>3 DEF Submit
<1>6. CASE PollStream
  <2>1. Received \subseteq OpenTurns BY <1>1, <1>6 DEF PollStream, Received
  <2>2. Finalize(Received) \/ UNCHANGED history BY <1>6 DEF PollStream
  <2> QED BY <2>1, <2>2, <1>2, <1>4
<1>7. CASE PollTool
  <2>1. Finalize(content) \/ UNCHANGED history BY <1>7 DEF PollTool
  <2> QED BY <2>1, <1>1, <1>2, <1>4
<1>8. CASE Enter \/ AnswerQuestions BY <1>8, <1>5 DEF Enter, AnswerQuestions, Sends
<1>9. CASE EndOfIteration BY <1>9, <1>5 DEF EndOfIteration
<1>10. CASE ~(PollStream \/ PollTool \/ Enter \/ AnswerQuestions \/ EndOfIteration
              \/ EnterPlan \/ ExitPlan)
  <2>1. UNCHANGED history
    BY <1>10 DEF Next, ProviderSends, ToolSteps, ToolGate, ToolEnds, ToolAsks, Polls, PollPrompt,
           Enqueue, AskCancel, Cancel, OpenOverlay, CloseOverlay, PlanSubmit, NoKey, AnswerPrompt
  <2> QED BY <2>1, <1>2
<1> QED BY <1>6, <1>7, <1>8, <1>9, <1>10

(* The invariant: the types and what a turn, a gate, a request and a message rest on. *)
Inv == /\ TypeOK /\ WaitingIsBusy /\ ApprovedByUser /\ GatedLeft /\ AskerIsHeard
       /\ NoMessageLost /\ PlanKept /\ TurnsOK

LEMMA Initially == Init => Inv
<1> SUFFICES ASSUME Init PROVE Inv OBVIOUS
<1> USE Bounds, Prompts DEF Init
<1>1. ScreenOK BY DEF ScreenOK
<1>2. ConversationOK
  <2>1. <<>> \in Seq(Messages) BY DEF Messages
  <2> QED BY <2>1 DEF ConversationOK, NoStream, Messages
<1>3. TasksOK BY DEF TasksOK, ToolAt, Tool, NoStream
<1>4. PromptsOK BY DEF PromptsOK
<1>5. WaitingIsBusy BY DEF WaitingIsBusy
<1>6. ApprovedByUser /\ GatedLeft BY DEF ApprovedByUser, GatedLeft
<1>7. AskerIsHeard
  <2>1. "none" \notin Kind BY DEF Kind, Approval
  <2> QED BY <2>1 DEF AskerIsHeard
<1>8. NoMessageLost /\ PlanKept BY DEF NoMessageLost, PlanKept, Messages
<1>9. TurnsOK
  <2>1. OpenTurns \union cancelled = {} BY DEF OpenTurns, NoStream
  <2> QED BY <2>1 DEF TurnsOK, OpenOrCancelledGone, CancelledNotOpen
<1>10. PlansOK BY DEF PlansOK, Messages
<1> QED BY <1>1, <1>2, <1>3, <1>4, <1>5, <1>6, <1>7, <1>8, <1>9, <1>10 DEF Inv, TypeOK

LEMMA Inductive == Inv /\ [Next]_vars => Inv'
<1> SUFFICES ASSUME Inv, [Next]_vars PROVE Inv' OBVIOUS
<1>1. CASE Next
  BY <1>1, TypeStep, BusyStep, ApprovedStep, HeardStep, PlacesStep, PlanKeptStep, TurnsStep DEF Inv
<1>2. CASE UNCHANGED vars
  <2> USE <1>2 DEF vars, conv, planned, prompt, gates, tasks, said
  <2>1. TypeOK'
    BY DEF Inv, TypeOK, ScreenOK, ConversationOK, PlansOK, TasksOK, PromptsOK, Messages, ToolAt
  <2>2. WaitingIsBusy' BY DEF Inv, WaitingIsBusy
  <2>3. ApprovedByUser' /\ GatedLeft' BY DEF Inv, ApprovedByUser, GatedLeft
  <2>4. AskerIsHeard' BY DEF Inv, AskerIsHeard
  <2>5. NoMessageLost' BY DEF Inv, NoMessageLost, Holding, Contexts, SentIn, QueuedAt, Messages
  <2>7. PlanKept' BY DEF Inv, PlanKept, NoneIn, Places, Said
  <2>6. TurnsOK'
    BY DEF Inv, TurnsOK, OpenOrCancelledGone, CancelledNotOpen, OpenTurns, NoneIn, Places
  <2> QED BY <2>1, <2>2, <2>3, <2>4, <2>5, <2>6, <2>7 DEF Inv
<1> QED BY <1>1, <1>2

LEMMA Invariance == Spec => []Inv
BY Initially, Inductive, PTL DEF Spec

(* The loop's state (tui/app/state.rs) keeps its types: every queue entry, turn and
   reply names messages typed, every channel and dialog a tool that was spawned. *)
THEOREM TypesKept == Spec => []TypeOK
<1>1. Inv => TypeOK BY DEF Inv
<1> QED BY <1>1, Invariance, PTL

(* poll_stream_events, poll_tool_events, finalize_stream and the cancel dialog leave
   the waiting modes together with the last thing that could end the wait. *)
THEOREM WaitEnds == Spec => []WaitingIsBusy
<1>1. Inv => WaitingIsBusy BY DEF Inv
<1> QED BY <1>1, Invariance, PTL

(* request_approval (tools/executor.rs) denies by default: a dropped or replaced
   request never lets a gated tool run. *)
THEOREM ApprovalNeeded == Spec => []ApprovedByUser
<1>1. Inv => ApprovedByUser BY DEF Inv
<1> QED BY <1>1, Invariance, PTL

(* The prompt channels and dialogs (tui/mod.rs, events/dialogs.rs) hold the request
   of every tool that waits for the user. *)
THEOREM AskersHeard == Spec => []AskerIsHeard
<1>1. Inv => AskerIsHeard BY DEF Inv
<1> QED BY <1>1, Invariance, PTL

(* process_message, queued_messages, the cancel dialog and plan mode's two contexts
   (plan_mode.rs): each message typed outside plan mode waits once or was sent, and is
   in one of the conversations, but for those a second entry overwrites. *)
THEOREM MessagesKept == Spec => []NoMessageLost
<1>1. Inv => NoMessageLost BY DEF Inv
<1> QED BY <1>1, Invariance, PTL

(* The cancel dialog (events/core.rs) cuts every way by which a turn could still
   reach finalize_stream: its stream, its text and its tool's result; only plan mode's
   exchange of conversations shows other entries. *)
THEOREM CancelIsFinal == Spec => CancelledSilent
<1>1. Inv /\ [Next]_vars => [EnterPlan \/ ExitPlan \/ Silent]_vars
  <2> SUFFICES ASSUME Inv, [Next]_vars PROVE [EnterPlan \/ ExitPlan \/ Silent]_vars OBVIOUS
  <2>1. CASE Next BY <2>1, SilentStep DEF Inv
  <2>2. CASE UNCHANGED vars BY <2>2
  <2> QED BY <2>1, <2>2
<1>2. CancelledSilent <=> [][EnterPlan \/ ExitPlan \/ Silent]_vars BY PTL DEF CancelledSilent, Silent
<1> QED BY <1>1, <1>2, Invariance, PTL DEF Spec
========================================================================================
