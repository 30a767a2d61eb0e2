---------------------------- MODULE RunnerProofs ----------------------------
(***************************************************************************)
(* What holds of the loop for every caller, every budget and every event:  *)
(* the type invariant, that a turn under way is always owed a result, the  *)
(* tool budget, and that history is append-only; and what holds of the     *)
(* Runner that drives it, for every stream, every operator and every       *)
(* number of runs, crashes and inputs: the refinement of the checkpoint    *)
(* tree, that a run which displayed an error fails, the budget, that lines *)
(* are taken, and that a turn's calls are answered together.               *)
(***************************************************************************)
EXTENDS Runner, SequenceTheorems, TLAPS

-----------------------------------------------------------------------------
(* The loop *)

(* What the fields of an event are, by its kind. *)
LEMMA EventFields ==
  ASSUME NEW e \in Event
  PROVE  /\ e.kind \in {"ModelToolCall", "ToolResult"} => e.call \in ToolCall \cup {NoCall}
         /\ e.kind = "ModelText" => e.text \in BOOLEAN
         /\ e.kind = "BudgetAnswer" => e.allow \in BOOLEAN /\ e.grant \in Nat
  BY GrantAssumption DEF Event

(* The messages the loop makes are messages. *)
LEMMA MessageTypes ==
  /\ SystemMessage \in Message /\ UserMessage \in Message
  /\ \A cs \in Seq(ToolCall) : CallMessage(cs) \in Message
  /\ \A c \in ToolCall : ResultMessage(c) \in Message
<1>1. <<>> \in Seq(ToolCall)
  OBVIOUS
<1> QED
  BY <1>1 DEF Message, SystemMessage, UserMessage, CallMessage, ResultMessage, ToolCall

(* runPending dispatches one RunTool per pending call. *)
LEMMA DispatchType ==
  ASSUME NEW cs \in Seq(ToolCall)
  PROVE  /\ [i \in 1..Len(cs) |-> RunTool(cs[i])] \in Seq(Action)
         /\ Len([i \in 1..Len(cs) |-> RunTool(cs[i])]) = Len(cs)
<1>1. \A i \in 1..Len(cs) : RunTool(cs[i]) \in Action
  <2> TAKE i \in 1..Len(cs)
  <2>1. cs[i] \in ToolCall
    OBVIOUS
  <2> QED
    BY <2>1 DEF RunTool, Action
<1>2. Len(cs) \in Nat
  OBVIOUS
<1> QED
  BY <1>1, <1>2

(* The instructions other than RunTool are actions. *)
LEMMA DoType ==
  \A k \in {"SendTurn", "ShowText", "ShowReasoning", "ShowError", "AwaitInput",
            "ShowTruncated", "ShowNote", "AskToContinue"} : Do(k) \in Action
  BY DEF Do, Action

(* Every step keeps the type invariant. *)
LEMMA StepType ==
  ASSUME LoopTypeOK, NEW e \in Event, Step(e)
  PROVE  LoopTypeOK'
<1> USE DEF LoopTypeOK, State
<1>0. <<>> \in Seq(Action) /\ <<>> \in Seq(Message) /\ <<>> \in Seq(ToolCall)
  OBVIOUS
<1>1. CASE UserInput(e)
  <2>1. Append(messages, UserMessage) \in Seq(Message) /\ <<Do("SendTurn")>> \in Seq(Action)
    BY MessageTypes, DoType
  <2>2. textShown' \in BOOLEAN
    BY <1>1 DEF UserInput
  <2> QED
    BY <1>1, <2>1, <2>2 DEF UserInput
<1>2. CASE Ignore
  BY <1>2, <1>0 DEF Ignore
<1>3. CASE ModelText(e)
  BY <1>3, EventFields, DoType DEF ModelText
<1>4. CASE ModelReasoning(e)
  BY <1>4, DoType DEF ModelReasoning
<1>5. CASE ModelToolCall(e)
  BY <1>5, <1>0, EventFields DEF ModelToolCall
<1>6. CASE TurnEnded(e)
  BY <1>6, DoType DEF TurnEnded
<1>7. CASE TurnEndedOverBudget(e)
  BY <1>7, DoType DEF TurnEndedOverBudget
<1>8. CASE runPending /\ maxTools' \in Nat
  BY <1>8, MessageTypes, DispatchType DEF runPending
<1>9. ASSUME NEW acts \in Seq(Action), Abandon(acts), UNCHANGED maxTools
      PROVE  LoopTypeOK'
  BY <1>9, <1>0 DEF Abandon
<1>10. CASE ToolResult(e)
  BY <1>10, <1>0, EventFields, MessageTypes DEF ToolResult
<1>11. CASE LastToolResult(e)
  <2>1. Append(answered, ResultMessage(e.call)) \in Seq(Message)
    BY <1>11, EventFields, MessageTypes DEF LastToolResult
  <2>2. messages' \in Seq(Message)
    BY <1>11, <2>1, ConcatProperties DEF LastToolResult
  <2> QED
    BY <1>11, <2>2, <1>0, DoType DEF LastToolResult
<1>12. CASE BudgetGranted(e)
  <2>1. maxTools' \in Nat
    BY <1>12, EventFields, BudgetAssumption DEF BudgetGranted, granted
  <2> QED
    BY <1>8, <1>12, <2>1 DEF BudgetGranted
<1>13. <<Do("ShowError"), Do("AwaitInput")>> \in Seq(Action) /\ <<Do("AwaitInput")>> \in Seq(Action)
  BY DoType
<1>14. CASE ModelError(e) \/ BudgetDeclined(e)
  BY <1>9, <1>13, <1>14 DEF ModelError, BudgetDeclined
<1>15. CASE Interrupt(e)
  BY <1>9, <1>13, <1>15 DEF Interrupt
<1>16. CASE TurnEndedWithCalls(e)
  BY <1>8, <1>16 DEF TurnEndedWithCalls
<1> QED
  BY <1>1, <1>2, <1>3, <1>4, <1>5, <1>6, <1>7, <1>10, <1>11, <1>12, <1>14, <1>15, <1>16
     DEF Step, UserInputMidTurn, NilToolCall, StrayToolResult, StrayBudgetAnswer

(* A new loop, empty or restored, is well typed. *)
LEMMA NewMessagesType == NewMessages \in Seq(Message)
  BY MessageTypes DEF NewMessages

(* The loop's fields keep their types, whatever the caller does. *)
THEOREM LoopTypeCorrect == LoopSpec => []LoopTypeOK
<1>1. LoopInit => LoopTypeOK
  <2> SUFFICES ASSUME LoopInit PROVE LoopTypeOK
    OBVIOUS
  <2>1. textShown \in BOOLEAN
    BY DEF LoopInit
  <2> QED
    BY <2>1, NewMessagesType, BudgetAssumption DEF LoopInit, LoopTypeOK, State
<1>2. LoopTypeOK /\ [LoopNext]_loopVars => LoopTypeOK'
  <2> SUFFICES ASSUME LoopTypeOK, [LoopNext]_loopVars PROVE LoopTypeOK'
    OBVIOUS
  <2>1. CASE LoopNext
    BY <2>1, StepType DEF LoopNext
  <2>2. CASE UNCHANGED loopVars
    BY <2>2 DEF loopVars, LoopTypeOK
  <2> QED
    BY <2>1, <2>2
<1> QED
  BY <1>1, <1>2, PTL DEF LoopSpec

-----------------------------------------------------------------------------
(* A turn under way is owed a result *)

(* Every step keeps ResultsAreOwed. *)
LEMMA StepOwed ==
  ASSUME LoopTypeOK, ResultsAreOwed, NEW e \in Event, Step(e)
  PROVE  ResultsAreOwed'
<1> USE DEF ResultsAreOwed, LoopTypeOK
<1>1. CASE UserInput(e) \/ ModelText(e) \/ ModelReasoning(e)
  BY <1>1 DEF UserInput, ModelText, ModelReasoning
<1>2. CASE Ignore
  BY <1>2 DEF Ignore
<1>3. CASE ModelToolCall(e)
  <2>1. Len(pending') = Len(pending) + 1
    BY <1>3, EventFields, AppendProperties DEF ModelToolCall
  <2> QED
    BY <1>3, <2>1 DEF ModelToolCall
<1>4. CASE TurnEnded(e)
  BY <1>4 DEF TurnEnded, State
<1>5. pending # <<>> => Len(answered) < Len(pending)
  BY DEF State
<1>6. CASE TurnEndedOverBudget(e)
  BY <1>5, <1>6 DEF TurnEndedOverBudget
<1>7. CASE pending # <<>> /\ runPending
  BY <1>5, <1>7 DEF runPending
<1>8. CASE \E acts \in Seq(Action) : Abandon(acts)
  BY <1>8 DEF Abandon
<1>9. CASE ToolResult(e)
  <2>1. Len(answered') = Len(answered) + 1
    BY <1>9, EventFields, MessageTypes, AppendProperties DEF ToolResult
  <2> QED
    BY <1>9, <2>1 DEF ToolResult
<1>10. CASE LastToolResult(e)
  BY <1>10 DEF LastToolResult
<1>11. CASE BudgetGranted(e)
  BY <1>7, <1>11 DEF BudgetGranted
<1>12. <<Do("ShowError"), Do("AwaitInput")>> \in Seq(Action) /\ <<Do("AwaitInput")>> \in Seq(Action)
  BY DoType
<1>13. CASE ModelError(e) \/ BudgetDeclined(e) \/ Interrupt(e)
  BY <1>8, <1>12, <1>13 DEF ModelError, BudgetDeclined, Interrupt
<1>14. CASE TurnEndedWithCalls(e)
  BY <1>7, <1>14 DEF TurnEndedWithCalls
<1> QED
  BY <1>1, <1>2, <1>3, <1>4, <1>6, <1>9, <1>10, <1>11, <1>13, <1>14
     DEF Step, UserInputMidTurn, NilToolCall, StrayToolResult, StrayBudgetAnswer

(* Whatever the caller feeds it, a loop that is running tools or asking still *)
(* waits for a result, and no result outlives its turn.                       *)
THEOREM OwedCorrect == LoopSpec => []ResultsAreOwed
<1>1. LoopInit => ResultsAreOwed
  BY DEF LoopInit, ResultsAreOwed
<1>2. LoopTypeOK /\ ResultsAreOwed /\ [LoopNext]_loopVars => ResultsAreOwed'
  <2> SUFFICES ASSUME LoopTypeOK, ResultsAreOwed, [LoopNext]_loopVars PROVE ResultsAreOwed'
    OBVIOUS
  <2>1. CASE LoopNext
    BY <2>1, StepOwed DEF LoopNext
  <2>2. CASE UNCHANGED loopVars
    BY <2>2 DEF loopVars, ResultsAreOwed
  <2> QED
    BY <2>1, <2>2
<1> QED
  BY <1>1, <1>2, LoopTypeCorrect, PTL DEF LoopSpec

-----------------------------------------------------------------------------
(* The tool budget *)

(* The ceiling never sinks below the budget the run was started with; with    *)
(* that, BudgetHeld is inductive.                                             *)
BudgetInv == maxTools >= Budget /\ BudgetHeld

(* Every step keeps BudgetInv.  A budget of 0 is excluded: a yes without a    *)
(* number then adds nothing to the ceiling and still runs the calls.          *)
LEMMA StepBudget ==
  ASSUME Budget > 0, LoopTypeOK, BudgetInv, NEW e \in Event, Step(e)
  PROVE  BudgetInv'
<1> USE BudgetAssumption DEF BudgetInv, BudgetHeld, LoopTypeOK
<1>1. CASE UserInput(e)
  BY <1>1 DEF UserInput
<1>2. CASE TurnEndedWithCalls(e)
  <2>1. Len(pending) \in Nat
    OBVIOUS
  <2> QED
    BY <1>2, <2>1 DEF TurnEndedWithCalls, OverBudget, runPending
<1>3. CASE BudgetGranted(e)
  BY <1>3, EventFields DEF BudgetGranted, granted
<1>4. CASE UNCHANGED <<maxTools, used>>
  BY <1>4
<1> QED
  BY <1>1, <1>2, <1>3, <1>4
     DEF Step, UserInputMidTurn, ModelText, ModelReasoning, ModelToolCall, NilToolCall,
         TurnEnded, TurnEndedOverBudget, ModelError, Interrupt, Abandon, ToolResult,
         LastToolResult, StrayToolResult, BudgetDeclined, StrayBudgetAnswer, Ignore

(* Until the operator grants more, no input has more tools dispatched than    *)
(* the budget.                                                                *)
THEOREM BudgetCorrect ==
  ASSUME Budget > 0
  PROVE  LoopSpec => []BudgetHeld
<1>1. LoopInit => BudgetInv
  BY BudgetAssumption DEF LoopInit, BudgetInv, BudgetHeld
<1>2. LoopTypeOK /\ BudgetInv /\ [LoopNext]_loopVars => BudgetInv'
  <2> SUFFICES ASSUME LoopTypeOK, BudgetInv, [LoopNext]_loopVars PROVE BudgetInv'
    OBVIOUS
  <2>1. CASE LoopNext
    BY <2>1, StepBudget DEF LoopNext
  <2>2. CASE UNCHANGED loopVars
    BY <2>2 DEF loopVars, BudgetInv, BudgetHeld
  <2> QED
    BY <2>1, <2>2
<1>3. BudgetInv => BudgetHeld
  BY DEF BudgetInv
<1> QED
  BY <1>1, <1>2, <1>3, LoopTypeCorrect, PTL DEF LoopSpec

-----------------------------------------------------------------------------
(* Append-only history *)

(* A sequence is a prefix of itself and of whatever is added at its end. *)
LEMMA PrefixOfConcat ==
  ASSUME NEW S, NEW s \in Seq(S), NEW t \in Seq(S)
  PROVE  IsPrefix(s, s) /\ IsPrefix(s, s \o t)
<1>1. Len(s \o t) = Len(s) + Len(t) /\ Len(s) \in Nat /\ Len(t) \in Nat
  BY ConcatProperties
<1>2. SubSeq(s, 1, Len(s)) = SubSeq(s \o t, 1, Len(s))
  BY SubSeqOfConcat1, SubSeqFull
<1> QED
  BY <1>1, <1>2 DEF IsPrefix

(* Every step leaves the messages alone or adds at their end. *)
LEMMA StepHistory ==
  ASSUME LoopTypeOK, NEW e \in Event, Step(e)
  PROVE  IsPrefix(messages, messages')
<1> USE DEF LoopTypeOK
<1>1. CASE UNCHANGED messages
  BY <1>1, PrefixOfConcat
<1>2. ASSUME NEW m \in Message, messages' = Append(messages, m)
      PROVE  IsPrefix(messages, messages')
  <2>1. <<m>> \in Seq(Message) /\ messages' = messages \o <<m>>
    BY <1>2, AppendIsConcat
  <2> QED
    BY <2>1, PrefixOfConcat
<1>3. CASE UserInput(e)
  BY <1>2, <1>3, MessageTypes DEF UserInput
<1>4. CASE runPending
  BY <1>2, <1>4, MessageTypes DEF runPending
<1>5. CASE LastToolResult(e)
  <2>1. Append(answered, ResultMessage(e.call)) \in Seq(Message)
    BY <1>5, EventFields, MessageTypes DEF LastToolResult
  <2> QED
    BY <1>5, <2>1, PrefixOfConcat DEF LastToolResult
<1> QED
  BY <1>1, <1>3, <1>4, <1>5
     DEF Step, UserInputMidTurn, ModelText, ModelReasoning, ModelToolCall, NilToolCall,
         TurnEnded, TurnEndedOverBudget, TurnEndedWithCalls, ModelError, Interrupt, Abandon,
         ToolResult, StrayToolResult, BudgetDeclined, BudgetGranted, StrayBudgetAnswer, Ignore

(* No event rewrites or drops what is already in the conversation. *)
THEOREM HistoryCorrect == LoopSpec => HistoryGrows
<1>1. LoopTypeOK /\ [LoopNext]_loopVars => [IsPrefix(messages, messages')]_loopVars
  BY StepHistory DEF LoopNext
<1> QED
  BY <1>1, LoopTypeCorrect, PTL DEF LoopSpec, HistoryGrows

-----------------------------------------------------------------------------
(* The runner's types *)

(* Every event a stream can produce is an event of the loop. *)
LEMMA ModelEventType == ModelEvent \subseteq Event
  BY DEF ModelEvent, Event, Finish

(* A loop that New or RestoreCheckpoint returns is well typed. *)
LEMMA NewLoopType ==
  ASSUME NEW msgs \in Seq(Message), NewLoop(msgs)
  PROVE  LoopTypeOK'
<1>1. textShown' \in BOOLEAN
  BY DEF NewLoop
<1>2. <<>> \in Seq(Action) /\ <<>> \in Seq(Message) /\ <<>> \in Seq(ToolCall)
  OBVIOUS
<1> QED
  BY <1>1, <1>2, BudgetAssumption DEF NewLoop, LoopTypeOK, State

(* The conjuncts of TypeOK that speak of the checkpoints. *)
StoreOK(cps) == \A cp \in cps : cp.turn \in Nat \ {0} /\ cp.messages \in Seq(Message)

(* The conjuncts of TypeOK that speak of the runner's own flags. *)
FlagsOK ==
  /\ cancelled \in BOOLEAN /\ failed \in BOOLEAN /\ driveErr \in BOOLEAN
  /\ failures \in BOOLEAN /\ errorShown \in BOOLEAN

(* The rest of them. *)
RestOK ==
  /\ phase \in Phase
  /\ queue \in Seq(Event) /\ collected \in Seq(ModelEvent)
  /\ turn \in Nat /\ ran \in Nat /\ inputs \in Nat
  /\ exit \in {"none", "ok", "error"}
  /\ StoreOK(store)
  /\ resumed \in store \cup {NoCheckpoint}

(* TypeOK is the conjunction of its parts, now and in the next state. *)
LEMMA TypeParts ==
  /\ TypeOK <=> LoopTypeOK /\ FlagsOK /\ RestOK
  /\ TypeOK' <=> LoopTypeOK' /\ FlagsOK' /\ RestOK'
  BY DEF TypeOK, FlagsOK, RestOK, StoreOK

(* Every flag the code assigns is a Go bool. *)
LEMMA FlagsType == FlagsOK /\ Next => FlagsOK'
<1> SUFFICES ASSUME FlagsOK, Next PROVE FlagsOK'
  OBVIOUS
<1> USE DEF FlagsOK
<1>1. CASE \E msgs, from : StartRun(msgs, from)
  BY <1>1 DEF StartRun
<1>2. CASE Stop /\ errorShown' \in BOOLEAN
  BY <1>2 DEF Stop
<1>3. CASE \E how : Return(how)
  BY <1>2, <1>3 DEF Return
<1>4. CASE Crash
  BY <1>2, <1>4 DEF Crash
<1>5. CASE Cancel \/ ReadLine \/ \E e \in ModelEvent : Receive(e)
  BY <1>5 DEF Cancel, ReadLine, Receive
<1>6. CASE HandleEvent \/ DriveAborts \/ DriveEnds \/ StreamCloses
  BY <1>6 DEF HandleEvent, DriveAborts, DriveEnds, StreamCloses
<1>7. CASE Show \/ ShowError \/ RunToolCall \/ SendFails \/ SendTurn
  BY <1>7 DEF Show, ShowError, RunToolCall, SendFails, SendTurn, CarryOut
<1>8. CASE AskToContinue
  BY <1>8 DEF AskToContinue, CarryOut
<1>9. CASE \E n, h : AfterBoundary(n, h)
  BY <1>3, <1>9 DEF AfterBoundary
<1> QED
  BY <1>1, <1>3, <1>4, <1>5, <1>6, <1>7, <1>8, <1>9
     DEF Next, Driving, Run, RunRestored, EndOfInput, ReadFails, MidTurn, NoCheckpointer,
         WriteCheckpoint, CheckpointFails

(* The loop inside a runner stays well typed. *)
LEMMA LoopInRunnerType == TypeOK /\ Next => LoopTypeOK'
<1> SUFFICES ASSUME TypeOK, Next PROVE LoopTypeOK'
  OBVIOUS
<1>0. LoopTypeOK /\ RestOK
  BY TypeParts
<1>1. ASSUME NEW msgs \in Seq(Message), NewLoop(msgs) PROVE LoopTypeOK'
  BY <1>1, NewLoopType
<1>2. CASE Stop
  BY <1>1, <1>2, NewMessagesType DEF Stop
<1>3. CASE Run
  BY <1>1, <1>3, NewMessagesType DEF Run, StartRun
<1>4. CASE \E cp \in store : RunRestored(cp)
  BY <1>0, <1>1, <1>4 DEF RunRestored, StartRun, RestOK, StoreOK
<1>5. CASE HandleEvent
  <2>1. Head(queue) \in Event
    BY <1>0, <1>5 DEF HandleEvent, RestOK
  <2> QED
    BY <1>0, <1>5, <2>1, StepType DEF HandleEvent
<1>6. CASE UNCHANGED loopVars
  BY <1>0, <1>6 DEF loopVars, LoopTypeOK
<1>7. CASE /\ actions # <<>> /\ actions' \in {<<>>, Tail(actions)}
           /\ UNCHANGED <<state, messages, pending, answered, maxTools, used, textShown>>
  <2>1. Tail(actions) \in Seq(Action) /\ <<>> \in Seq(Action)
    BY <1>0, <1>7 DEF LoopTypeOK
  <2>2. actions' \in Seq(Action)
    BY <1>7, <2>1
  <2> QED
    BY <1>0, <1>7, <2>2 DEF LoopTypeOK
<1>8. CASE Show \/ ShowError \/ AskToContinue \/ RunToolCall \/ SendFails \/ SendTurn \/ DriveAborts
  BY <1>7, <1>8 DEF Show, ShowError, AskToContinue, RunToolCall, SendFails, SendTurn, CarryOut, DriveAborts
<1>9. CASE \E n, h : AfterBoundary(n, h)
  BY <1>2, <1>6, <1>9 DEF AfterBoundary, Return
<1> QED
  BY <1>2, <1>3, <1>4, <1>5, <1>6, <1>8, <1>9
     DEF Next, Driving, Crash, Cancel, ReadLine, EndOfInput, ReadFails, Receive, DriveEnds,
         StreamCloses, MidTurn, NoCheckpointer, WriteCheckpoint, CheckpointFails, Return

(* Adding the checkpoint of an idle loop keeps the store well typed. *)
LEMMA CheckpointType ==
  ASSUME TypeOK
  PROVE  StoreOK(store \cup {Checkpoint(turn + 1)})
  BY DEF TypeOK, LoopTypeOK, StoreOK, Checkpoint

(* The runner's locals and the store stay well typed. *)
LEMMA RestType == TypeOK /\ Next => RestOK'
<1> SUFFICES ASSUME TypeOK, Next PROVE RestOK'
  OBVIOUS
<1>0. LoopTypeOK /\ RestOK
  BY TypeParts
<1> USE DEF RestOK, Phase
<1>1. ASSUME NEW msgs, NEW from \in store \cup {NoCheckpoint}, StartRun(msgs, from) PROVE RestOK'
  <2>1. from.turn \in Nat
    BY <1>0 DEF StoreOK, NoCheckpoint
  <2> QED
    BY <1>0, <1>1, <2>1 DEF StartRun
<1>2. ASSUME Stop, StoreOK(store'), resumed' \in store' \cup {NoCheckpoint},
             exit' \in {"none", "ok", "error"}
      PROVE  RestOK'
  BY <1>0, <1>2 DEF Stop
<1>3. ASSUME NEW how \in {"ok", "error"}, Return(how), StoreOK(store'), store \subseteq store'
      PROVE  RestOK'
  BY <1>0, <1>2, <1>3 DEF Return
<1>4. CASE Crash
  BY <1>0, <1>2, <1>4 DEF Crash
<1>5. CASE Cancel \/ ReadLine
  <2>1. CASE Cancel
    BY <1>0, <2>1 DEF Cancel
  <2>2. [kind |-> "UserInput"] \in Event
    BY DEF Event
  <2>3. <<[kind |-> "UserInput"]>> \in Seq(Event)
    BY <2>2
  <2>4. CASE ReadLine
    BY <1>0, <2>3, <2>4 DEF ReadLine
  <2> QED
    BY <1>5, <2>1, <2>4
<1>6. CASE \E e \in ModelEvent : Receive(e)
  <2> PICK e \in ModelEvent : Receive(e)
    BY <1>6
  <2> QED
    BY <1>0, AppendProperties DEF Receive
<1>7. CASE HandleEvent
  <2>1. Tail(queue) \in Seq(Event)
    BY <1>0, <1>7 DEF HandleEvent
  <2> QED
    BY <1>0, <1>7, <2>1 DEF HandleEvent
<1>8. CASE Show \/ ShowError \/ DriveAborts \/ DriveEnds \/ SendTurn
  <2>1. CASE Show \/ ShowError
    BY <1>0, <2>1 DEF Show, ShowError, CarryOut
  <2>2. CASE DriveAborts
    BY <1>0, <2>2 DEF DriveAborts
  <2>3. CASE DriveEnds
    BY <1>0, <2>3 DEF DriveEnds
  <2>4. CASE SendTurn
    BY <1>0, <2>4 DEF SendTurn, CarryOut
  <2> QED
    BY <1>8, <2>1, <2>2, <2>3, <2>4
<1>9. CASE RunToolCall \/ SendFails
  <2>1. ASSUME RunToolCall PROVE queue' \in Seq(Event)
    <3>1. Head(actions) \in Action /\ Head(actions).kind = "RunTool"
      BY <1>0, <2>1 DEF RunToolCall, CarryOut, LoopTypeOK
    <3>2. Head(actions).call \in ToolCall
      BY <3>1 DEF Action
    <3>3. runTool(Head(actions).call) \in Event
      BY <3>2 DEF Event, runTool
    <3> QED
      BY <1>0, <2>1, <3>3 DEF RunToolCall
  <2>2. ASSUME SendFails PROVE queue' \in Seq(Event)
    <3>1. [kind |-> "ModelError"] \in Event
      BY DEF Event
    <3> QED
      BY <1>0, <2>2, <3>1 DEF SendFails
  <2> QED
    BY <1>0, <1>9, <2>1, <2>2 DEF RunToolCall, SendFails, CarryOut
<1>10. CASE AskToContinue
  <2>1. PICK g \in Grant : queue' = Append(queue, [kind |-> "BudgetAnswer", allow |-> g > 0, grant |-> g])
    BY <1>10 DEF AskToContinue
  <2>2. [kind |-> "BudgetAnswer", allow |-> g > 0, grant |-> g] \in Event
    BY DEF Event
  <2> QED
    BY <1>0, <1>10, <2>1, <2>2 DEF AskToContinue, CarryOut
<1>11. CASE StreamCloses
  <2>1. collected \in Seq(Event)
    BY <1>0, ModelEventType
  <2>2. [kind |-> "ModelDone", finish |-> "incomplete"] \in Event
    BY DEF Event, Finish
  <2>3. queue' \in Seq(Event)
    BY <1>0, <1>11, <2>1, <2>2, ConcatProperties, AppendProperties DEF StreamCloses
  <2> QED
    BY <1>0, <1>11, <2>3 DEF StreamCloses
<1>12. ASSUME NEW n \in Nat, NEW h, AfterBoundary(n, h), StoreOK(store'), store \subseteq store'
       PROVE  RestOK'
  BY <1>0, <1>3, <1>12 DEF AfterBoundary
<1>13. CASE MidTurn \/ NoCheckpointer
  BY <1>0, <1>12, <1>13 DEF MidTurn, NoCheckpointer
<1>14. CASE WriteCheckpoint
  <2>1. StoreOK(store') /\ store \subseteq store' /\ turn + 1 \in Nat
    BY <1>0, <1>14, CheckpointType DEF WriteCheckpoint
  <2> QED
    BY <1>12, <1>14, <2>1 DEF WriteCheckpoint
<1>15. CASE CheckpointFails
  BY <1>0, <1>3, <1>15, CheckpointType DEF CheckpointFails
<1>16. CASE EndOfInput \/ ReadFails
  BY <1>0, <1>3, <1>16 DEF EndOfInput, ReadFails
<1>17. CASE Run \/ \E cp \in store : RunRestored(cp)
  BY <1>0, <1>1, <1>17 DEF Run, RunRestored
<1> QED
  BY <1>4, <1>5, <1>6, <1>7, <1>8, <1>9, <1>10, <1>11, <1>13, <1>14, <1>15, <1>16, <1>17
     DEF Next, Driving

(* The runner's state keeps its types, across runs, crashes and resumptions. *)
THEOREM TypeCorrect == Spec => []TypeOK
<1>1. Init => TypeOK
  <2> SUFFICES ASSUME Init PROVE TypeOK
    OBVIOUS
  <2>1. textShown \in BOOLEAN
    BY DEF Init, LoopInit
  <2>2. LoopTypeOK
    BY <2>1, NewMessagesType, BudgetAssumption DEF Init, LoopInit, LoopTypeOK, State
  <2>3. FlagsOK
    BY DEF Init, FlagsOK
  <2>4. RestOK
    BY DEF Init, RestOK, StoreOK, Phase
  <2> QED
    BY <2>2, <2>3, <2>4, TypeParts
<1>2. TypeOK /\ [Next]_vars => TypeOK'
  <2> SUFFICES ASSUME TypeOK, [Next]_vars PROVE TypeOK'
    OBVIOUS
  <2>1. CASE Next
    BY <2>1, TypeParts, FlagsType, LoopInRunnerType, RestType
  <2>2. CASE UNCHANGED vars
    BY <2>2 DEF vars, loopVars, runnerVars, TypeOK, LoopTypeOK
  <2> QED
    BY <2>1, <2>2
<1> QED
  BY <1>1, <1>2, PTL DEF Spec

-----------------------------------------------------------------------------
(* The checkpoint tree *)

(* A prefix, element by element. *)
LEMMA PrefixElements ==
  ASSUME NEW S, NEW s \in Seq(S), NEW t \in Seq(S)
  PROVE  IsPrefix(s, t) <=> Len(s) <= Len(t) /\ \A i \in 1..Len(s) : s[i] = t[i]
<1>0. Len(s) \in Nat /\ Len(t) \in Nat
  OBVIOUS
<1>1. SubSeq(s, 1, Len(s)) = s
  BY SubSeqFull
<1>2. ASSUME Len(s) <= Len(t)
      PROVE  SubSeq(t, 1, Len(s)) = [i \in 1..Len(s) |-> t[i]]
  BY <1>0, <1>2
<1>3. s = [i \in 1..Len(s) |-> s[i]]
  OBVIOUS
<1> QED
  BY <1>0, <1>1, <1>2, <1>3 DEF IsPrefix

(* What extends an extension of a conversation extends the conversation. *)
LEMMA PrefixTransitive ==
  ASSUME NEW S, NEW a \in Seq(S), NEW b \in Seq(S), NEW c \in Seq(S),
         IsPrefix(a, b), IsPrefix(b, c)
  PROVE  IsPrefix(a, c)
<1>0. Len(a) \in Nat /\ Len(b) \in Nat /\ Len(c) \in Nat
  OBVIOUS
<1>1. /\ Len(a) <= Len(b) /\ \A i \in 1..Len(a) : a[i] = b[i]
      /\ Len(b) <= Len(c) /\ \A i \in 1..Len(b) : b[i] = c[i]
  BY PrefixElements
<1>2. Len(a) <= Len(c) /\ \A i \in 1..Len(a) : a[i] = c[i]
  BY <1>0, <1>1
<1> QED
  BY <1>2, PrefixElements

(* The next checkpoint would extend the tree: the runner stands at the root   *)
(* or on a checkpoint that is on disk and whose conversation its own extends. *)
StandsOn(cp) ==
  /\ turn = cp.turn
  /\ prevHash = Tree!computeHash(cp)
  /\ IsPrefix(cp.messages, messages)

ChainInv ==
  Checkpointing => (turn = 0 /\ prevHash = Tree!NoHash) \/ \E cp \in store : StandsOn(cp)

(* Every step keeps ChainInv.  A Runner on which Run follows RunRestored is   *)
(* excluded: its resumed is stale.                                            *)
LEMMA ChainStep ==
  ASSUME ~ReuseRunner, TypeOK, ChainInv, Next
  PROVE  ChainInv'
<1>0. messages \in Seq(Message) /\ StoreOK(store)
  BY DEF TypeOK, LoopTypeOK, StoreOK
<1>1. ASSUME UNCHANGED <<turn, prevHash>>, store \subseteq store',
             messages' \in Seq(Message), IsPrefix(messages, messages')
      PROVE  ChainInv'
  <2>1. ASSUME NEW cp \in store, StandsOn(cp) PROVE StandsOn(cp)'
    BY <1>0, <1>1, <2>1, PrefixTransitive DEF StandsOn, StoreOK
  <2> QED
    BY <1>1, <2>1 DEF ChainInv
<1>2. CASE UNCHANGED <<turn, prevHash, messages>> /\ store \subseteq store'
  BY <1>0, <1>1, <1>2, PrefixOfConcat
<1>3. CASE Stop
  BY <1>3 DEF Stop, ChainInv
<1>4. CASE Run
  BY <1>4 DEF Run, StartRun, ChainInv, NoCheckpoint
<1>5. CASE \E cp \in store : RunRestored(cp)
  <2> PICK cp \in store : RunRestored(cp)
    BY <1>5
  <2>1. cp # NoCheckpoint
    BY <1>0 DEF StoreOK, NoCheckpoint
  <2>2. cp \in store' /\ IsPrefix(cp.messages, messages')
    BY <1>0, PrefixOfConcat DEF RunRestored, StartRun, NewLoop, StoreOK
  <2>3. StandsOn(cp)'
    BY <2>1, <2>2 DEF RunRestored, StartRun, StandsOn
  <2> QED
    BY <2>2, <2>3 DEF ChainInv
<1>6. CASE HandleEvent
  <2>1. Head(queue) \in Event
    BY <1>6 DEF HandleEvent, TypeOK
  <2>2. LoopTypeOK' /\ IsPrefix(messages, messages')
    BY <1>6, <2>1, StepType, StepHistory DEF HandleEvent, TypeOK
  <2> QED
    BY <1>1, <1>6, <2>2 DEF HandleEvent, LoopTypeOK
<1>7. CASE NoCheckpointer
  BY <1>7 DEF NoCheckpointer, ChainInv
<1>8. CASE WriteCheckpoint /\ ~driveErr
  <2>0. PICK cp : cp = Checkpoint(turn + 1)
    OBVIOUS
  <2>1. cp.turn = turn + 1 /\ cp.messages = messages /\ cp \in store'
    BY <1>8, <2>0 DEF WriteCheckpoint, Checkpoint
  <2>2. turn' = turn + 1 /\ prevHash' = Tree!computeHash(cp) /\ messages' = messages
    BY <1>8, <2>0 DEF WriteCheckpoint, AfterBoundary, loopVars
  <2>3. StandsOn(cp)'
    BY <1>0, <2>1, <2>2, PrefixOfConcat DEF StandsOn
  <2> QED
    BY <2>1, <2>3 DEF ChainInv
<1>9. CASE MidTurn /\ ~driveErr
  BY <1>2, <1>9 DEF MidTurn, AfterBoundary, loopVars
<1>10. CASE (WriteCheckpoint \/ MidTurn) /\ driveErr
  BY <1>3, <1>10 DEF WriteCheckpoint, MidTurn, AfterBoundary, Return
<1>11. CASE Crash \/ EndOfInput \/ ReadFails \/ CheckpointFails
  BY <1>3, <1>11 DEF Crash, EndOfInput, ReadFails, CheckpointFails, Return
<1>12. CASE Cancel \/ ReadLine \/ DriveEnds \/ StreamCloses \/ \E e \in ModelEvent : Receive(e)
  BY <1>2, <1>12 DEF Cancel, ReadLine, DriveEnds, StreamCloses, Receive, loopVars
<1>13. CASE Show \/ ShowError \/ AskToContinue \/ RunToolCall \/ SendFails \/ SendTurn \/ DriveAborts
  BY <1>2, <1>13 DEF Show, ShowError, AskToContinue, RunToolCall, SendFails, SendTurn, CarryOut, DriveAborts
<1> QED
  BY <1>4, <1>5, <1>6, <1>7, <1>8, <1>9, <1>10, <1>11, <1>12, <1>13 DEF Next, Driving

(* A step leaves the store alone or adds one checkpoint to the tree. *)
LEMMA StoreStep ==
  ASSUME TypeOK, ChainInv, Next
  PROVE  Tree!Next \/ UNCHANGED store
<1>1. ASSUME Checkpointing, store' = store \cup {Checkpoint(turn + 1)}
      PROVE  Tree!Next
  <2> DEFINE cp == Checkpoint(turn + 1)
  <2>1. cp.turn = turn + 1 /\ cp.prevHash = prevHash /\ cp.messages = messages
    BY DEF Checkpoint
  <2>2. turn = 0 /\ prevHash = Tree!NoHash => Tree!Opens(cp)
    BY <2>1 DEF Tree!Opens
  <2>3. \A j \in store : StandsOn(j) => Tree!Follows(cp, j)
    BY <2>1 DEF StandsOn, Tree!Follows, IsPrefix, Tree!IsPrefix
  <2>4. Tree!Opens(cp) \/ \E j \in store : Tree!Follows(cp, j)
    BY <1>1, <2>2, <2>3 DEF ChainInv
  <2>5. cp \in store' /\ Tree!Add(cp)
    BY <1>1, <2>4 DEF Tree!Add
  <2> QED
    BY <2>5 DEF Tree!Next
<1>2. CASE WriteCheckpoint \/ CheckpointFails
  BY <1>1, <1>2 DEF WriteCheckpoint, CheckpointFails
<1>3. CASE Run \/ \E cp \in store : RunRestored(cp)
  BY <1>3 DEF Run, RunRestored, StartRun
<1>4. CASE Crash \/ Cancel \/ ReadLine \/ EndOfInput \/ ReadFails \/ \E e \in ModelEvent : Receive(e)
  BY <1>4 DEF Crash, Cancel, ReadLine, EndOfInput, ReadFails, Receive
<1>5. CASE Show \/ ShowError \/ AskToContinue \/ RunToolCall \/ SendFails \/ SendTurn
  BY <1>5 DEF Show, ShowError, AskToContinue, RunToolCall, SendFails, SendTurn, CarryOut
<1>6. CASE HandleEvent \/ DriveAborts \/ DriveEnds \/ StreamCloses \/ MidTurn \/ NoCheckpointer
  BY <1>6 DEF HandleEvent, DriveAborts, DriveEnds, StreamCloses, MidTurn, NoCheckpointer
<1> QED
  BY <1>2, <1>3, <1>4, <1>5, <1>6 DEF Next, Driving

(* The runner implements the checkpoint tree: over any number of runs,        *)
(* crashes, failed writes and resumptions, what is on disk is a tree whose    *)
(* every checkpoint extends the conversation of the one its hash names.       *)
THEOREM TreeImplemented ==
  ASSUME ~ReuseRunner
  PROVE  Spec => CheckpointsFormATree
<1>1. Init => ChainInv /\ Tree!Init
  BY DEF Init, ChainInv, Tree!Init
<1>2. TypeOK /\ ChainInv /\ [Next]_vars => ChainInv'
  <2> SUFFICES ASSUME TypeOK, ChainInv, [Next]_vars PROVE ChainInv'
    OBVIOUS
  <2>1. CASE Next
    BY <2>1, ChainStep
  <2>2. CASE UNCHANGED vars
    BY <2>2 DEF vars, loopVars, runnerVars, ChainInv, StandsOn
  <2> QED
    BY <2>1, <2>2
<1>3. TypeOK /\ ChainInv /\ [Next]_vars => [Tree!Next]_store
  BY StoreStep DEF vars, runnerVars
<1> QED
  BY <1>1, <1>2, <1>3, TypeCorrect, PTL DEF Spec, CheckpointsFormATree, Tree!Spec

(* No link of the chain on disk dangles: every checkpoint opens a             *)
(* conversation or names a checkpoint that is on disk too.                    *)
THEOREM NoLinkDangles ==
  ASSUME ~ReuseRunner
  PROVE  Spec => []Tree!NoDanglingLink
<1>1. Tree!Init => Tree!NoDanglingLink
  BY DEF Tree!Init, Tree!NoDanglingLink
<1>2. Tree!NoDanglingLink /\ [Tree!Next]_store => Tree!NoDanglingLink'
  <2> SUFFICES ASSUME Tree!NoDanglingLink, [Tree!Next]_store PROVE Tree!NoDanglingLink'
    OBVIOUS
  <2>1. CASE Tree!Next
    <3>1. PICK cp \in store' : Tree!Add(cp)
      BY <2>1 DEF Tree!Next
    <3> QED
      BY <3>1 DEF Tree!Add, Tree!NoDanglingLink
  <2>2. CASE UNCHANGED store
    BY <2>2 DEF Tree!NoDanglingLink
  <2> QED
    BY <2>1, <2>2
<1>3. Spec => Tree!Spec
  BY TreeImplemented DEF CheckpointsFormATree
<1> QED
  BY <1>1, <1>2, <1>3, PTL DEF Tree!Spec

-----------------------------------------------------------------------------
(* A turn that errored makes the run fail *)

(* An error that was displayed is carried from drive's slice to runWithLoop's *)
(* before the next line is read, and a run that is under way has not returned *)
(* anything.                                                                  *)
ErrorInv ==
  /\ phase # "stopped" => exit = "none"
  /\ phase \in {"stopped", "reading"} => ~failed /\ ~driveErr
  /\ phase = "stopped" => ~failures
  /\ phase # "stopped" /\ errorShown => failed \/ failures \/ driveErr
  /\ ErroredTurnFailsTheRun

(* Every step keeps ErrorInv. *)
LEMMA ErrorStep ==
  ASSUME TypeOK, ErrorInv, Next
  PROVE  ErrorInv'
<1> USE DEF ErrorInv, ErroredTurnFailsTheRun
<1>1. CASE \E msgs, from : StartRun(msgs, from)
  BY <1>1 DEF StartRun
<1>2. CASE Stop /\ exit' # "ok"
  BY <1>2 DEF Stop
<1>3. CASE EndOfInput
  BY <1>3 DEF EndOfInput, Return, Stop
<1>4. CASE Crash \/ ReadFails \/ CheckpointFails
  BY <1>2, <1>4 DEF Crash, ReadFails, CheckpointFails, Return
<1>5. CASE Cancel \/ ReadLine \/ \E e \in ModelEvent : Receive(e)
  BY <1>5 DEF Cancel, ReadLine, Receive
<1>6. CASE HandleEvent \/ DriveAborts \/ DriveEnds \/ StreamCloses
  BY <1>6 DEF HandleEvent, DriveAborts, DriveEnds, StreamCloses
<1>7. CASE Show \/ ShowError \/ RunToolCall \/ SendFails \/ SendTurn
  BY <1>7 DEF Show, ShowError, RunToolCall, SendFails, SendTurn, CarryOut
<1>8. CASE AskToContinue
  BY <1>8 DEF AskToContinue, CarryOut
<1>9. CASE phase = "boundary" /\ \E n, h : AfterBoundary(n, h)
  BY <1>2, <1>9 DEF AfterBoundary, Return
<1> QED
  BY <1>1, <1>3, <1>4, <1>5, <1>6, <1>7, <1>8, <1>9
     DEF Next, Driving, Run, RunRestored, MidTurn, NoCheckpointer, WriteCheckpoint

(* No run that displayed an error returns nil. *)
THEOREM ErrorsReported == Spec => []ErroredTurnFailsTheRun
<1>1. Init => ErrorInv
  BY DEF Init, ErrorInv, ErroredTurnFailsTheRun
<1>2. TypeOK /\ ErrorInv /\ [Next]_vars => ErrorInv'
  <2> SUFFICES ASSUME TypeOK, ErrorInv, [Next]_vars PROVE ErrorInv'
    OBVIOUS
  <2>1. CASE Next
    BY <2>1, ErrorStep
  <2>2. CASE UNCHANGED vars
    BY <2>2 DEF vars, runnerVars, ErrorInv, ErroredTurnFailsTheRun
  <2> QED
    BY <2>1, <2>2
<1>3. ErrorInv => ErroredTurnFailsTheRun
  BY DEF ErrorInv
<1> QED
  BY <1>1, <1>2, <1>3, TypeCorrect, PTL DEF Spec

-----------------------------------------------------------------------------
(* No more tools run than the budget *)

(* What a step does to the count of dispatched calls and to the instructions. *)
LEMMA StepDispatch ==
  ASSUME LoopTypeOK, NEW e \in Event, Step(e)
  PROVE  \/ e.kind = "UserInput" /\ used' = 0 /\ ~Has(actions', {"RunTool"})
         \/ used' = used + Len(pending) /\ Len(actions') = Len(pending)
         \/ used' = used /\ ~Has(actions', {"RunTool"})
<1> USE DEF LoopTypeOK
<1>1. ~Has(<<>>, {"RunTool"})
  BY DEF Has
<1>2. \A k, l : k # "RunTool" /\ l # "RunTool" => ~Has(<<Do(k)>>, {"RunTool"}) /\ ~Has(<<Do(k), Do(l)>>, {"RunTool"})
  BY DEF Has, Do
<1>3. CASE UserInput(e)
  BY <1>2, <1>3 DEF UserInput
<1>4. CASE Ignore \/ ModelToolCall(e) \/ ToolResult(e)
  BY <1>1, <1>4 DEF Ignore, ModelToolCall, ToolResult
<1>5. CASE ModelText(e) \/ ModelReasoning(e) \/ TurnEndedOverBudget(e) \/ LastToolResult(e)
  BY <1>2, <1>5 DEF ModelText, ModelReasoning, TurnEndedOverBudget, LastToolResult
<1>6. CASE TurnEnded(e)
  BY <1>2, <1>6 DEF TurnEnded
<1>7. CASE ModelError(e) \/ Interrupt(e) \/ BudgetDeclined(e)
  BY <1>2, <1>7 DEF ModelError, Interrupt, BudgetDeclined, Abandon
<1>8. CASE runPending
  BY <1>8, DispatchType DEF runPending
<1> QED
  BY <1>3, <1>4, <1>5, <1>6, <1>7, <1>8
     DEF Step, UserInputMidTurn, NilToolCall, TurnEndedWithCalls, StrayToolResult,
         BudgetGranted, StrayBudgetAnswer

(* A line is driven from a clean slate: while it is queued nothing else is,   *)
(* and no tool has run for it.                                                *)
CleanStart ==
  /\ phase \in {"stopped", "reading"} => ran = 0
  /\ phase \notin {"driving", "streaming"} => queue = <<>> /\ actions = <<>>
  /\ Has(queue, {"UserInput"}) => phase = "driving" /\ Len(queue) = 1 /\ actions = <<>> /\ ran = 0

(* The tools that ran, with those about to run, were all counted. *)
RunsCounted ==
  /\ ran <= used
  /\ Has(actions, {"RunTool"}) => ran + Len(actions) <= used

(* What is in the tail of a sequence, or appended to it, and what is not. *)
LEMMA HasTail ==
  ASSUME NEW S, NEW s \in Seq(S), NEW K
  PROVE  /\ ~Has(<<>>, K)
         /\ s # <<>> /\ Has(Tail(s), K) => Has(s, K)
         /\ s # <<>> /\ Head(s).kind \in K => Has(s, K)
<1>1. ~Has(<<>>, K)
  BY DEF Has
<1>2. ASSUME s # <<>> PROVE /\ Len(Tail(s)) = Len(s) - 1 /\ Len(s) \in Nat \ {0} /\ Head(s) = s[1]
                            /\ \A i \in 1..Len(Tail(s)) : Tail(s)[i] = s[i + 1]
  BY <1>2
<1>3. s # <<>> /\ Has(Tail(s), K) => Has(s, K)
  BY <1>2 DEF Has
<1>4. s # <<>> /\ Head(s).kind \in K => Has(s, K)
  BY <1>2 DEF Has
<1> QED
  BY <1>1, <1>3, <1>4

(* Adding events that are not of the kinds leaves them absent. *)
LEMMA HasConcat ==
  ASSUME NEW S, NEW s \in Seq(S), NEW t \in Seq(S), NEW K, ~Has(s, K), ~Has(t, K)
  PROVE  ~Has(s \o t, K)
<1>1. /\ Len(s \o t) = Len(s) + Len(t) /\ Len(s) \in Nat /\ Len(t) \in Nat
      /\ \A i \in 1..Len(s) + Len(t) : (s \o t)[i] = IF i <= Len(s) THEN s[i] ELSE t[i - Len(s)]
  BY ConcatProperties
<1>2. ASSUME NEW i \in 1..Len(s \o t) PROVE (s \o t)[i].kind \notin K
  <2>1. CASE i <= Len(s)
    BY <1>1, <2>1 DEF Has
  <2>2. CASE ~(i <= Len(s))
    <3>1. i - Len(s) \in 1..Len(t)
      BY <1>1, <2>2
    <3> QED
      BY <1>1, <2>2, <3>1 DEF Has
  <2> QED
    BY <2>1, <2>2
<1> QED
  BY <1>2 DEF Has

(* Appending one such event, too. *)
LEMMA HasAppend ==
  ASSUME NEW S, NEW s \in Seq(S), NEW e \in S, NEW K, ~Has(s, K), e.kind \notin K
  PROVE  ~Has(Append(s, e), K)
<1>1. <<e>> \in Seq(S) /\ ~Has(<<e>>, K) /\ Append(s, e) = s \o <<e>>
  BY DEF Has
<1> QED
  BY <1>1, HasConcat

(* What carrying out an action adds to the queue is never a line. *)
LEMMA QueueGrows ==
  ASSUME TypeOK, ~Has(queue, {"UserInput"}),
         RunToolCall \/ SendFails \/ AskToContinue \/ StreamCloses
  PROVE  ~Has(queue', {"UserInput"})
<1> USE DEF TypeOK
<1>1. ASSUME NEW e \in Event, e.kind # "UserInput" PROVE ~Has(Append(queue, e), {"UserInput"})
  BY <1>1, HasAppend
<1>2. CASE RunToolCall
  <2>1. Head(actions) \in Action /\ Head(actions).kind = "RunTool"
    BY <1>2 DEF RunToolCall, CarryOut, LoopTypeOK
  <2>2. Head(actions).call \in ToolCall
    BY <2>1 DEF Action
  <2> QED
    BY <1>1, <1>2, <2>2 DEF RunToolCall, Event, runTool
<1>3. CASE SendFails
  BY <1>1, <1>3 DEF SendFails, Event
<1>4. CASE AskToContinue
  <2>1. PICK g \in Grant : queue' = Append(queue, [kind |-> "BudgetAnswer", allow |-> g > 0, grant |-> g])
    BY <1>4 DEF AskToContinue
  <2> DEFINE answer == [kind |-> "BudgetAnswer", allow |-> g > 0, grant |-> g]
  <2>2. answer \in Event /\ answer.kind # "UserInput"
    BY DEF Event
  <2> QED
    BY <1>1, <2>1, <2>2
<1>5. CASE StreamCloses
  <2>1. collected \in Seq(Event) /\ ~Has(collected, {"UserInput"})
    <3>1. \A e \in ModelEvent : e.kind # "UserInput"
      BY DEF ModelEvent
    <3>2. \A i \in 1..Len(collected) : collected[i] \in ModelEvent
      OBVIOUS
    <3> QED
      BY <3>1, <3>2, ModelEventType DEF Has
  <2> DEFINE done == [kind |-> "ModelDone", finish |-> "incomplete"]
  <2>2. done \in Event /\ done.kind # "UserInput"
    BY DEF Event, Finish
  <2>3. Append(collected, done) \in Seq(Event) /\ ~Has(Append(collected, done), {"UserInput"})
    BY <2>1, <2>2, HasAppend
  <2> QED
    BY <1>5, <2>1, <2>3, HasConcat DEF StreamCloses
<1> QED
  BY <1>2, <1>3, <1>4, <1>5

(* Every step keeps CleanStart. *)
LEMMA CleanStep ==
  ASSUME TypeOK, CleanStart, Next
  PROVE  CleanStart'
<1> USE DEF CleanStart
<1>0. ~Has(<<>>, {"UserInput"})
  BY DEF Has
<1>1. CASE \E msgs, from : StartRun(msgs, from)
  BY <1>1 DEF StartRun, NewLoop
<1>2. CASE Stop
  BY <1>0, <1>2 DEF Stop, NewLoop
<1>3. CASE Crash \/ EndOfInput \/ ReadFails \/ CheckpointFails
  BY <1>2, <1>3 DEF Crash, EndOfInput, ReadFails, CheckpointFails, Return
<1>4. CASE Cancel \/ \E e \in ModelEvent : Receive(e)
  BY <1>4 DEF Cancel, Receive, loopVars
<1>5. CASE ReadLine
  BY <1>5 DEF ReadLine, loopVars
<1>6. CASE HandleEvent
  <2>1. ~Has(Tail(queue), {"UserInput"})
    <3>1. CASE Has(queue, {"UserInput"})
      <4>0. queue \in Seq(Event) /\ Len(queue) = 1
        BY <3>1 DEF TypeOK
      <4>1. queue # <<>>
        BY <4>0
      <4>2. Len(Tail(queue)) = 0
        BY <4>0, <4>1
      <4> QED
        BY <4>2 DEF Has
    <3>2. CASE ~Has(queue, {"UserInput"})
      BY <1>6, <3>2, HasTail DEF HandleEvent, TypeOK
    <3> QED
      BY <3>1, <3>2
  <2> QED
    BY <1>6, <2>1 DEF HandleEvent
<1>7. CASE DriveAborts \/ DriveEnds
  BY <1>0, <1>7 DEF DriveAborts, DriveEnds, loopVars
<1>8. CASE Show \/ ShowError \/ SendTurn
  BY <1>8 DEF Show, ShowError, SendTurn, CarryOut
<1>9. CASE RunToolCall \/ SendFails \/ AskToContinue
  <2>1. ~Has(queue, {"UserInput"}) /\ phase = "driving" /\ phase' = "driving"
    BY <1>9 DEF RunToolCall, SendFails, AskToContinue, CarryOut
  <2> QED
    BY <1>9, <2>1, QueueGrows
<1>10. CASE StreamCloses
  <2>1. ~Has(queue, {"UserInput"}) /\ phase' = "driving"
    BY <1>10 DEF StreamCloses
  <2> QED
    BY <1>10, <2>1, QueueGrows
<1>11. CASE phase = "boundary" /\ \E n, h : AfterBoundary(n, h)
  BY <1>0, <1>2, <1>11 DEF AfterBoundary, Return, loopVars
<1> QED
  BY <1>1, <1>3, <1>4, <1>5, <1>6, <1>7, <1>8, <1>9, <1>10, <1>11
     DEF Next, Driving, Run, RunRestored, MidTurn, NoCheckpointer, WriteCheckpoint

(* Every step keeps RunsCounted. *)
LEMMA RunsStep ==
  ASSUME TypeOK, CleanStart, RunsCounted, Next
  PROVE  RunsCounted'
<1> USE DEF RunsCounted
<1>0. ~Has(<<>>, {"RunTool"}) /\ ran \in Nat /\ used \in Nat /\ actions \in Seq(Action)
  BY DEF Has, TypeOK, LoopTypeOK
<1>1. CASE used' = 0 /\ ran' = 0 /\ actions' = <<>>
  BY <1>0, <1>1
<1>2. CASE \E msgs, from : StartRun(msgs, from)
  BY <1>1, <1>2 DEF StartRun, NewLoop, CleanStart
<1>3. CASE Stop
  BY <1>1, <1>3 DEF Stop, NewLoop
<1>4. CASE Crash \/ EndOfInput \/ ReadFails \/ CheckpointFails
  BY <1>3, <1>4 DEF Crash, EndOfInput, ReadFails, CheckpointFails, Return
<1>5. CASE UNCHANGED <<ran, used, actions>>
  BY <1>5
<1>6. CASE Cancel \/ ReadLine \/ DriveEnds \/ StreamCloses \/ \E e \in ModelEvent : Receive(e)
  BY <1>5, <1>6 DEF Cancel, ReadLine, DriveEnds, StreamCloses, Receive, loopVars
<1>7. CASE DriveAborts
  BY <1>0, <1>7 DEF DriveAborts
<1>8. ASSUME actions # <<>>, actions' = Tail(actions) PROVE
        /\ Len(actions') = Len(actions) - 1 /\ Len(actions) \in Nat \ {0}
        /\ Has(actions', {"RunTool"}) => Has(actions, {"RunTool"})
        /\ Head(actions).kind = "RunTool" => Has(actions, {"RunTool"})
  BY <1>0, <1>8, HasTail
<1>9. CASE Show \/ ShowError \/ AskToContinue \/ SendFails \/ SendTurn
  BY <1>0, <1>8, <1>9 DEF Show, ShowError, AskToContinue, SendFails, SendTurn, CarryOut
<1>10. CASE RunToolCall
  BY <1>0, <1>8, <1>10 DEF RunToolCall, CarryOut
<1>11. CASE HandleEvent
  <2>1. Head(queue) \in Event /\ (Head(queue).kind = "UserInput" => ran = 0) /\ ran' = ran
    BY <1>11, HasTail DEF HandleEvent, TypeOK, CleanStart
  <2>2. Step(Head(queue)) /\ LoopTypeOK /\ Len(pending) \in Nat
    BY <1>11 DEF HandleEvent, TypeOK, LoopTypeOK
  <2> QED
    BY <1>0, <2>1, <2>2, StepDispatch
<1>12. CASE phase = "boundary" /\ \E n, h : AfterBoundary(n, h)
  BY <1>0, <1>3, <1>12 DEF AfterBoundary, Return, loopVars, CleanStart
<1> QED
  BY <1>2, <1>4, <1>6, <1>7, <1>9, <1>10, <1>11, <1>12
     DEF Next, Driving, Run, RunRestored, MidTurn, NoCheckpointer, WriteCheckpoint

(* Every step keeps the loop's BudgetInv. *)
LEMMA RunnerBudget ==
  ASSUME Budget > 0, TypeOK, BudgetInv, Next
  PROVE  BudgetInv'
<1>1. CASE \E msgs : NewLoop(msgs)
  BY <1>1, BudgetAssumption DEF NewLoop, BudgetInv, BudgetHeld
<1>2. CASE UNCHANGED <<maxTools, used>>
  BY <1>2 DEF BudgetInv, BudgetHeld
<1>3. CASE HandleEvent
  <2>1. Head(queue) \in Event /\ Step(Head(queue)) /\ LoopTypeOK
    BY <1>3 DEF HandleEvent, TypeOK
  <2> QED
    BY <2>1, StepBudget
<1>4. CASE \E n, h : AfterBoundary(n, h)
  BY <1>1, <1>2, <1>4 DEF AfterBoundary, Return, Stop, loopVars
<1>5. CASE Run \/ (\E cp \in store : RunRestored(cp)) \/ Crash \/ EndOfInput \/ ReadFails \/ CheckpointFails
  BY <1>1, <1>5 DEF Run, RunRestored, StartRun, Crash, EndOfInput, ReadFails, CheckpointFails, Return, Stop
<1>6. CASE Cancel \/ ReadLine \/ DriveEnds \/ StreamCloses \/ DriveAborts \/ \E e \in ModelEvent : Receive(e)
  BY <1>2, <1>6 DEF Cancel, ReadLine, DriveEnds, StreamCloses, DriveAborts, Receive, loopVars
<1>7. CASE Show \/ ShowError \/ AskToContinue \/ RunToolCall \/ SendFails \/ SendTurn
  BY <1>2, <1>7 DEF Show, ShowError, AskToContinue, RunToolCall, SendFails, SendTurn, CarryOut
<1> QED
  BY <1>3, <1>4, <1>5, <1>6, <1>7 DEF Next, Driving, MidTurn, NoCheckpointer, WriteCheckpoint

(* Until somebody grants more, one input never makes more tools run than the  *)
(* budget.  That a tool runs only when it was counted (RunsCounted) holds     *)
(* because a line is driven from a clean slate (CleanStart): the counter is   *)
(* reset by Step, in the middle of drive.                                     *)
THEOREM RunsWithinBudget ==
  ASSUME Budget > 0
  PROVE  Spec => []ToolsWithinBudget
<1> DEFINE I == CleanStart /\ RunsCounted /\ BudgetInv
<1>1. Init => I
  BY BudgetAssumption DEF Init, LoopInit, CleanStart, RunsCounted, BudgetInv, BudgetHeld, Has
<1>2. TypeOK /\ I /\ [Next]_vars => I'
  <2> SUFFICES ASSUME TypeOK, I, [Next]_vars PROVE I'
    OBVIOUS
  <2>1. CASE Next
    BY <2>1, CleanStep, RunsStep, RunnerBudget
  <2>2. CASE UNCHANGED vars
    BY <2>2 DEF vars, loopVars, runnerVars, CleanStart, RunsCounted, BudgetInv, BudgetHeld
  <2> QED
    BY <2>1, <2>2
<1>3. TypeOK /\ I => ToolsWithinBudget
  BY BudgetAssumption DEF TypeOK, LoopTypeOK, RunsCounted, BudgetInv, BudgetHeld, ToolsWithinBudget
<1> QED
  BY <1>1, <1>2, <1>3, TypeCorrect, PTL DEF Spec

-----------------------------------------------------------------------------
(* Every line is served, and every turn's calls are answered together *)

Shown == {"ShowText", "ShowReasoning", "ShowError", "AwaitInput", "ShowTruncated", "ShowNote"}

StreamKind == {"ModelText", "ModelReasoning", "ModelToolCall", "ModelDone", "ModelError"}

All(s, kinds) == \A i \in 1..Len(s) : s[i].kind \in kinds

(* A stream that keeps the contract, or what is left of one. *)
Ordered(s) ==
  /\ All(s, StreamKind)
  /\ \A i \in 1..Len(s) :
       s[i].kind = "ModelDone" => i = Len(s) \/ (i = Len(s) - 1 /\ s[i + 1].kind = "ModelError")

(* The stream broke after its finish reason: what was started meanwhile will  *)
(* find the turn over.                                                        *)
Breaks(s) ==
  /\ s # <<>> /\ s[1].kind = "ModelError"
  /\ \A i \in 2..Len(s) : s[i].kind \in {"ToolResult", "BudgetAnswer"}

(* The results that came, those in the queue and the calls still to be run    *)
(* are the pending calls, in their order.                                     *)
Owes ==
  /\ Len(answered) + Len(queue) + Len(actions) = Len(pending)
  /\ \A k \in 1..Len(answered) : answered[k] = ResultMessage(pending[k])
  /\ \A k \in 1..Len(queue) : queue[k] = runTool(pending[Len(answered) + k])
  /\ \A k \in 1..Len(actions) : actions[k] = RunTool(pending[Len(answered) + Len(queue) + k])

IdleDriven ==
  /\ All(actions, Shown)
  /\ \/ queue = <<[kind |-> "UserInput"]>>
     \/ Ordered(queue)
     \/ All(queue, {"ToolResult", "BudgetAnswer"})

AwaitingDriven ==
  \/ actions = <<Do("SendTurn")>> /\ queue = <<>>
  \/ All(actions, Shown) /\ Ordered(queue) /\ Has(queue, {"ModelDone", "ModelError"})

RunningDriven ==
  /\ messages # <<>> /\ messages[Len(messages)] = CallMessage(pending)
  /\ \/ Breaks(queue) /\ All(actions, {"RunTool"})
     \/ Owes

AskingDriven ==
  /\ answered = <<>>
  /\ \/ Breaks(queue) /\ All(actions, {"AskToContinue"})
     \/ actions = <<Do("AskToContinue")>> /\ queue = <<>>
     \/ actions = <<>> /\ Len(queue) = 1 /\ queue[1].kind = "BudgetAnswer"

(* Whatever drive is in the middle of, something in the queue or among the    *)
(* actions moves the turn on.                                                 *)
Driven ==
  /\ state = "Idle" => IdleDriven
  /\ state = "Awaiting" => AwaitingDriven
  /\ state = "Running" => RunningDriven
  /\ state = "Asking" => AskingDriven

Served ==
  /\ phase \in {"stopped", "reading"} => state = "Idle"
  /\ phase = "boundary" => state = "Idle" \/ driveErr
  /\ phase # "boundary" => ~driveErr
  /\ phase = "streaming" => state = "Awaiting" /\ actions = <<>> /\ queue = <<>> /\ Ordered(collected)
  /\ phase = "driving" => Driven

Together(msgs) ==
  \A i \in 1..Len(msgs) : msgs[i].calls # <<>> => Answers(msgs, i) \/ Unanswered(msgs, i)

TogetherInv == Together(messages) /\ \A cp \in store : Together(cp.messages)

(* A sequence and its tail. *)
LEMMA TailFacts ==
  ASSUME NEW S, NEW s \in Seq(S), s # <<>>
  PROVE  /\ Tail(s) \in Seq(S) /\ Len(s) \in Nat \ {0} /\ Len(Tail(s)) = Len(s) - 1
         /\ Head(s) = s[1] /\ Head(s) \in S
         /\ \A i \in 1..(Len(s) - 1) : Tail(s)[i] = s[i + 1]
  OBVIOUS

(* What is left of events that are all of some kinds. *)
LEMMA AllTail ==
  ASSUME NEW S, NEW s \in Seq(S), s # <<>>, NEW K, All(s, K)
  PROVE  All(Tail(s), K) /\ Head(s).kind \in K
  BY TailFacts DEF All

(* What is left of a stream; after its finish reason, at most its break. *)
LEMMA OrderedTail ==
  ASSUME NEW S, NEW s \in Seq(S), s # <<>>, Ordered(s)
  PROVE  /\ Ordered(Tail(s)) /\ Head(s).kind \in StreamKind
         /\ Head(s).kind = "ModelDone" => Tail(s) = <<>> \/ Breaks(Tail(s))
         /\ Head(s).kind \notin {"ModelDone", "ModelError"} /\ Has(s, {"ModelDone", "ModelError"})
              => Has(Tail(s), {"ModelDone", "ModelError"})
<1> DEFINE t == Tail(s)
<1>1. /\ t \in Seq(S) /\ Len(s) \in Nat \ {0} /\ Len(t) = Len(s) - 1 /\ Head(s) = s[1]
      /\ \A i \in 1..Len(t) : t[i] = s[i + 1] /\ i + 1 \in 1..Len(s)
  BY TailFacts
<1> HIDE DEF t
<1>2. Head(s).kind \in StreamKind /\ All(t, StreamKind)
  BY <1>1 DEF Ordered, All
<1>3. Ordered(t)
  <2> SUFFICES ASSUME NEW i \in 1..Len(t), t[i].kind = "ModelDone"
               PROVE  i = Len(t) \/ (i = Len(t) - 1 /\ t[i + 1].kind = "ModelError")
    BY <1>2 DEF Ordered
  <2>1. i + 1 = Len(s) \/ (i + 1 = Len(s) - 1 /\ s[(i + 1) + 1].kind = "ModelError")
    BY <1>1 DEF Ordered
  <2>2. CASE i + 1 = Len(s)
    BY <1>1, <2>2
  <2>3. CASE i + 1 = Len(s) - 1 /\ s[(i + 1) + 1].kind = "ModelError"
    <3>1. i + 1 \in 1..Len(t) /\ i = Len(t) - 1
      BY <1>1, <2>3
    <3> QED BY <1>1, <2>3, <3>1
  <2> QED BY <2>1, <2>2, <2>3
<1>4. ASSUME Head(s).kind = "ModelDone" PROVE t = <<>> \/ Breaks(t)
  <2>1. 1 = Len(s) \/ (1 = Len(s) - 1 /\ s[1 + 1].kind = "ModelError")
    BY <1>1, <1>4 DEF Ordered
  <2>2. CASE 1 = Len(s)
    <3>1. Len(t) = 0
      BY <1>1, <2>2
    <3> QED BY <1>1, <3>1
  <2>3. CASE 1 = Len(s) - 1 /\ s[1 + 1].kind = "ModelError"
    <3>1. Len(t) = 1
      BY <1>1, <2>3
    <3>2. t # <<>> /\ t[1] = s[1 + 1]
      BY <1>1, <3>1
    <3> QED BY <2>3, <3>1, <3>2 DEF Breaks
  <2> QED BY <2>1, <2>2, <2>3
<1>5. ASSUME Head(s).kind \notin {"ModelDone", "ModelError"}, Has(s, {"ModelDone", "ModelError"})
      PROVE  Has(t, {"ModelDone", "ModelError"})
  <2>1. PICK i \in 1..Len(s) : s[i].kind \in {"ModelDone", "ModelError"}
    BY <1>5 DEF Has
  <2>2. i # 1
    BY <1>1, <1>5, <2>1
  <2>3. i - 1 \in 1..Len(t) /\ (i - 1) + 1 = i
    BY <1>1, <2>2
  <2>4. t[i - 1] = s[i]
    BY <1>1, <2>3
  <2> QED BY <2>1, <2>3, <2>4 DEF Has
<1> QED BY <1>2, <1>3, <1>4, <1>5 DEF t

(* A stream that goes on as the contract has it. *)
LEMMA OrderedAppend ==
  ASSUME NEW s \in Seq(Event), NEW e \in Event, Ordered(s), e.kind \in StreamKind,
         KeepsContract(s, e)
  PROVE  Ordered(Append(s, e))
<1> DEFINE t == Append(s, e)
<1>1. /\ Len(s) \in Nat /\ Len(t) = Len(s) + 1 /\ t[Len(s) + 1] = e
      /\ \A i \in 1..Len(s) : t[i] = s[i]
  OBVIOUS
<1> HIDE DEF t
<1>2. \A i \in 1..Len(t) : i \in 1..Len(s) \/ i = Len(s) + 1
  BY <1>1
<1>3. All(t, StreamKind)
  BY <1>1, <1>2 DEF Ordered, All
<1>4. ASSUME NEW i \in 1..Len(s), s[i].kind = "ModelDone"
      PROVE  i = Len(t) - 1 /\ t[i + 1].kind = "ModelError"
  <2>1. e.kind = "ModelError" /\ s[Len(s)].kind = "ModelDone"
    BY <1>4 DEF KeepsContract, Has, Last
  <2>2. i = Len(s)
    BY <1>1, <1>4, <2>1 DEF Ordered
  <2> QED BY <1>1, <2>1, <2>2
<1>5. \A i \in 1..Len(t) :
        t[i].kind = "ModelDone" => i = Len(t) \/ (i = Len(t) - 1 /\ t[i + 1].kind = "ModelError")
  BY <1>1, <1>2, <1>4
<1> QED BY <1>3, <1>5 DEF Ordered, t

(* A stream that broke, and what comes back after that. *)
LEMMA BreaksOn ==
  ASSUME NEW S, NEW s \in Seq(S), Breaks(s)
  PROVE  /\ s # <<>> /\ Head(s).kind = "ModelError" /\ All(Tail(s), {"ToolResult", "BudgetAnswer"})
         /\ \A e \in S : e.kind \in {"ToolResult", "BudgetAnswer"} => Breaks(Append(s, e))
<1>1. s # <<>> /\ s[1].kind = "ModelError"
  BY DEF Breaks
<1>2. Head(s).kind = "ModelError" /\ All(Tail(s), {"ToolResult", "BudgetAnswer"})
  <2>1. /\ Len(s) \in Nat \ {0} /\ Len(Tail(s)) = Len(s) - 1 /\ Head(s) = s[1]
        /\ \A i \in 1..Len(Tail(s)) : Tail(s)[i] = s[i + 1] /\ i + 1 \in 2..Len(s)
    BY <1>1, TailFacts
  <2> QED BY <1>1, <2>1 DEF Breaks, All
<1>3. ASSUME NEW e \in S, e.kind \in {"ToolResult", "BudgetAnswer"} PROVE Breaks(Append(s, e))
  <2> DEFINE t == Append(s, e)
  <2>1. /\ Len(s) \in Nat \ {0} /\ Len(t) = Len(s) + 1 /\ t[Len(s) + 1] = e /\ t # <<>>
        /\ \A i \in 1..Len(s) : t[i] = s[i]
    BY <1>1
  <2> HIDE DEF t
  <2>2. \A i \in 2..Len(t) : (i \in 2..Len(s) /\ t[i] = s[i]) \/ t[i] = e
    BY <2>1
  <2>3. t[1] = s[1]
    BY <2>1
  <2> QED BY <1>1, <1>3, <2>1, <2>2, <2>3 DEF Breaks, t
<1> QED BY <1>1, <1>2, <1>3

(* Actions that only show something. *)
LEMMA ShownActions ==
  /\ \A K : All(<<>>, K)
  /\ \A k \in Shown : All(<<Do(k)>>, Shown)
  /\ \A k \in Shown, l \in Shown : All(<<Do(k), Do(l)>>, Shown)
  BY DEF All, Do

(* runPending asks for every pending call, in order. *)
LEMMA DispatchOwes ==
  ASSUME LoopTypeOK, runPending, answered = <<>>
  PROVE  /\ state' = "Running" /\ pending' = pending /\ answered' = answered
         /\ messages' # <<>> /\ messages'[Len(messages')] = CallMessage(pending')
         /\ All(actions', {"RunTool"})
         /\ queue' = <<>> => Owes'
<1>1. /\ state' = "Running" /\ pending' = pending /\ answered' = answered
      /\ messages' = Append(messages, CallMessage(pending))
      /\ actions' = [i \in 1..Len(pending) |-> RunTool(pending[i])]
  BY DEF runPending
<1>2. messages' # <<>> /\ messages'[Len(messages')] = CallMessage(pending')
  <2>1. messages \in Seq(Message) /\ CallMessage(pending) \in Message
    BY MessageTypes DEF LoopTypeOK
  <2> QED BY <1>1, <2>1
<1>3. /\ Len(actions') = Len(pending) /\ Len(pending) \in Nat
      /\ \A i \in 1..Len(pending) : actions'[i] = RunTool(pending[i])
  BY <1>1, DispatchType DEF LoopTypeOK
<1>4. All(actions', {"RunTool"})
  <2>1. \A c : RunTool(c).kind = "RunTool"
    BY DEF RunTool
  <2> QED BY <1>3, <2>1 DEF All
<1>5. ASSUME queue' = <<>> PROVE Owes'
  <2>1. Len(answered') = 0 /\ Len(queue') = 0
    BY <1>1, <1>5
  <2> QED BY <1>1, <1>3, <2>1 DEF Owes
<1> QED BY <1>1, <1>2, <1>4, <1>5

(* An event of a stream, before its turn is over. *)
LEMMA StreamEvent ==
  ASSUME TypeOK, ResultsAreOwed, state \in {"Idle", "Awaiting"}, HandleEvent, Ordered(queue),
         state = "Awaiting" => Has(queue, {"ModelDone", "ModelError"})
  PROVE  Driven'
<1> DEFINE e == Head(queue)
<1>1. /\ queue \in Seq(Event) /\ queue # <<>> /\ queue' = Tail(queue) /\ e \in Event /\ Step(e)
      /\ LoopTypeOK /\ answered = <<>>
  BY DEF TypeOK, HandleEvent, ResultsAreOwed
<1>2. /\ Ordered(queue') /\ e.kind \in StreamKind
      /\ e.kind = "ModelDone" => queue' = <<>> \/ Breaks(queue')
      /\ e.kind \notin {"ModelDone", "ModelError"} /\ state = "Awaiting"
           => Has(queue', {"ModelDone", "ModelError"})
  BY <1>1, OrderedTail
<1> HIDE DEF e
<1> USE DEF Driven
<1>3. ASSUME state' = "Idle", All(actions', Shown) PROVE Driven'
  BY <1>2, <1>3 DEF IdleDriven
<1>4. ASSUME state' = state, All(actions', Shown), e.kind \notin {"ModelDone", "ModelError"}
      PROVE  Driven'
  BY <1>2, <1>3, <1>4 DEF AwaitingDriven
<1>5. CASE ModelText(e) \/ ModelReasoning(e)
  BY <1>4, <1>5, ShownActions DEF ModelText, ModelReasoning, Shown
<1>6. CASE ModelToolCall(e) \/ NilToolCall(e)
  <2>1. e.kind # "ToolResult"
    BY <1>2 DEF StreamKind
  <2> QED BY <1>4, <1>6, <2>1, ShownActions DEF ModelToolCall, NilToolCall, Ignore
<1>7. CASE TurnEnded(e)
  BY <1>3, <1>7, ShownActions DEF TurnEnded, Shown
<1>8. CASE ModelError(e)
  BY <1>3, <1>8, ShownActions DEF ModelError, Abandon, Shown
<1>9. CASE TurnEndedOverBudget(e)
  <2>1. /\ state' = "Asking" /\ actions' = <<Do("AskToContinue")>> /\ answered' = <<>>
        /\ e.kind = "ModelDone"
    BY <1>1, <1>9 DEF TurnEndedOverBudget
  <2>2. All(actions', {"AskToContinue"})
    BY <2>1 DEF All, Do
  <2> QED BY <1>2, <2>1, <2>2 DEF AskingDriven
<1>10. CASE TurnEndedWithCalls(e)
  BY <1>1, <1>2, <1>10, DispatchOwes DEF TurnEndedWithCalls, RunningDriven
<1>11. e.kind \notin {"UserInput", "Interrupt", "ToolResult", "BudgetAnswer"}
  BY <1>2 DEF StreamKind
<1> QED
  BY <1>1, <1>5, <1>6, <1>7, <1>8, <1>9, <1>10, <1>11
     DEF Step, UserInput, UserInputMidTurn, Interrupt, ToolResult, LastToolResult, StrayToolResult,
         BudgetDeclined, BudgetGranted, StrayBudgetAnswer

(* The break of the stream, when the turn is over. *)
LEMMA BreakEvent ==
  ASSUME TypeOK, HandleEvent, Breaks(queue)
  PROVE  Driven'
<1> DEFINE e == Head(queue)
<1>1. queue \in Seq(Event) /\ queue' = Tail(queue) /\ Step(e)
  BY DEF TypeOK, HandleEvent
<1>2. e.kind = "ModelError" /\ All(queue', {"ToolResult", "BudgetAnswer"})
  BY <1>1, BreaksOn
<1> HIDE DEF e
<1>3. ModelError(e)
  BY <1>1, <1>2 DEF Step, UserInput, UserInputMidTurn, ModelText, ModelReasoning, ModelToolCall,
       NilToolCall, TurnEnded, TurnEndedOverBudget, TurnEndedWithCalls, Interrupt, ToolResult,
       LastToolResult, StrayToolResult, BudgetDeclined, BudgetGranted, StrayBudgetAnswer
<1> QED
  BY <1>2, <1>3, ShownActions DEF ModelError, Abandon, Driven, IdleDriven, Shown

(* What comes back to a turn that is over changes nothing. *)
LEMMA StrayEvent ==
  ASSUME TypeOK, HandleEvent, state = "Idle", All(queue, {"ToolResult", "BudgetAnswer"})
  PROVE  Driven'
<1> DEFINE e == Head(queue)
<1>1. queue \in Seq(Event) /\ queue # <<>> /\ queue' = Tail(queue) /\ Step(e)
  BY DEF TypeOK, HandleEvent
<1>2. e.kind \in {"ToolResult", "BudgetAnswer"} /\ All(queue', {"ToolResult", "BudgetAnswer"})
  BY <1>1, AllTail
<1> HIDE DEF e
<1>3. Ignore
  BY <1>1, <1>2 DEF Step, UserInput, UserInputMidTurn, ModelText, ModelReasoning, ModelToolCall,
       NilToolCall, TurnEnded, TurnEndedOverBudget, TurnEndedWithCalls, ModelError, Interrupt,
       ToolResult, LastToolResult, StrayToolResult, BudgetDeclined, BudgetGranted, StrayBudgetAnswer
<1> QED
  BY <1>2, <1>3, ShownActions DEF Ignore, Driven, IdleDriven

(* The next result of the calls a turn waits for. *)
LEMMA OwedEvent ==
  ASSUME TypeOK, HandleEvent, state = "Running", Owes
  PROVE  LET e == Head(queue)
         IN  /\ Len(answered) + 1 \in 1..Len(pending) /\ e = runTool(pending[Len(answered) + 1])
             /\ Len(queue) = Len(pending) - Len(answered)
             /\ ToolResult(e) \/ LastToolResult(e)
<1> DEFINE e == Head(queue)
           n == Len(answered)
<1>1. /\ queue \in Seq(Event) /\ queue # <<>> /\ Step(e) /\ actions = <<>>
      /\ answered \in Seq(Message) /\ pending \in Seq(ToolCall)
  BY DEF TypeOK, LoopTypeOK, HandleEvent
<1>2. n \in Nat /\ Len(queue) \in Nat \ {0} /\ Len(pending) \in Nat /\ Len(actions) = 0 /\ e = queue[1]
  BY <1>1, TailFacts
<1>3. n + Len(queue) = Len(pending) /\ \A k \in 1..Len(queue) : queue[k] = runTool(pending[n + k])
  BY <1>2 DEF Owes
<1> HIDE DEF e, n
<1>4. n + 1 \in 1..Len(pending) /\ e = runTool(pending[n + 1]) /\ Len(queue) = Len(pending) - n
  BY <1>2, <1>3
<1>5. pending[n + 1] \in ToolCall
  BY <1>1, <1>4
<1>6. e.kind = "ToolResult" /\ e.call # NoCall
  BY <1>4, <1>5, NoCallAssumption DEF runTool, ToolCall
<1>7. ToolResult(e) \/ LastToolResult(e)
  BY <1>1, <1>6 DEF Step, UserInput, UserInputMidTurn, ModelText, ModelReasoning, ModelToolCall,
       NilToolCall, TurnEnded, TurnEndedOverBudget, TurnEndedWithCalls, ModelError, Interrupt,
       StrayToolResult, BudgetDeclined, BudgetGranted, StrayBudgetAnswer
<1> QED BY <1>4, <1>7 DEF e, n

(* Every event moves the turn on. *)
LEMMA EventDriven ==
  ASSUME TypeOK, ResultsAreOwed, Driven, HandleEvent
  PROVE  Driven'
<1> DEFINE e == Head(queue)
<1>1. /\ queue \in Seq(Event) /\ queue # <<>> /\ queue' = Tail(queue) /\ e \in Event /\ Step(e)
      /\ LoopTypeOK /\ actions = <<>> /\ state \in {"Idle", "Awaiting", "Running", "Asking"}
  BY DEF TypeOK, HandleEvent, LoopTypeOK, State
<1>2. ASSUME Len(queue) = 1 PROVE queue' = <<>> /\ e = queue[1]
  BY <1>1, <1>2
<1>3. CASE state = "Idle" /\ queue = <<[kind |-> "UserInput"]>>
  <2>1. e.kind = "UserInput" /\ queue' = <<>>
    BY <1>1, <1>3
  <2>2. UserInput(e)
    BY <1>1, <1>3, <2>1 DEF Step, UserInputMidTurn, ModelText, ModelReasoning, ModelToolCall,
         NilToolCall, TurnEnded, TurnEndedOverBudget, TurnEndedWithCalls, ModelError, Interrupt,
         ToolResult, LastToolResult, StrayToolResult, BudgetDeclined, BudgetGranted, StrayBudgetAnswer
  <2> QED BY <2>1, <2>2 DEF UserInput, Driven, AwaitingDriven
<1>4. CASE state = "Idle" /\ queue # <<[kind |-> "UserInput"]>>
  <2>1. Ordered(queue) \/ All(queue, {"ToolResult", "BudgetAnswer"})
    BY <1>4 DEF Driven, IdleDriven
  <2> QED BY <1>4, <2>1, StreamEvent, StrayEvent
<1>5. CASE state = "Awaiting"
  <2>1. Ordered(queue) /\ Has(queue, {"ModelDone", "ModelError"})
    BY <1>1, <1>5 DEF Driven, AwaitingDriven
  <2> QED BY <1>5, <2>1, StreamEvent
<1>6. CASE Breaks(queue)
  BY <1>6, BreakEvent
<1>7. CASE state = "Running" /\ ~Breaks(queue)
  <2> DEFINE n == Len(answered)
  <2>1. Owes /\ messages # <<>> /\ messages[Len(messages)] = CallMessage(pending)
    BY <1>7 DEF Driven, RunningDriven
  <2>2. /\ n + 1 \in 1..Len(pending) /\ e = runTool(pending[n + 1])
        /\ Len(queue) = Len(pending) - n
        /\ ToolResult(e) \/ LastToolResult(e)
    BY <1>7, <2>1, OwedEvent
  <2>3. n \in Nat /\ Len(pending) \in Nat /\ Len(queue) \in Nat
    BY <1>1 DEF LoopTypeOK
  <2>4. CASE LastToolResult(e)
    <3>1. n + 1 >= Len(pending)
      BY <2>4 DEF LastToolResult
    <3>2. Len(queue) = 1
      BY <2>2, <2>3, <3>1
    <3> QED BY <1>2, <2>4, <3>2 DEF LastToolResult, Driven, AwaitingDriven
  <2>5. CASE ToolResult(e)
    <3> DEFINE r == ResultMessage(pending[n + 1])
    <3>1. /\ answered' = Append(answered, r) /\ actions' = <<>>
          /\ UNCHANGED <<state, messages, pending>>
      BY <2>2, <2>5 DEF ToolResult, runTool
    <3>2. r \in Message /\ answered \in Seq(Message)
      BY <1>1, <2>2, MessageTypes DEF LoopTypeOK
    <3> HIDE DEF r
    <3>3. /\ Len(answered') = n + 1 /\ answered'[n + 1] = r
          /\ \A k \in 1..n : answered'[k] = answered[k]
      BY <3>1, <3>2
    <3>4. Len(queue') = Len(queue) - 1 /\ \A k \in 1..Len(queue') : queue'[k] = queue[k + 1]
      BY <1>1, TailFacts
    <3>5. \A k \in 1..(n + 1) : answered'[k] = ResultMessage(pending[k])
      <4>1. \A k \in 1..(n + 1) : k \in 1..n \/ k = n + 1
        BY <2>3
      <4> QED BY <2>1, <3>3, <4>1 DEF Owes, r
    <3>6. \A k \in 1..Len(queue') : queue'[k] = runTool(pending[(n + 1) + k])
      <4> TAKE k \in 1..Len(queue')
      <4>1. k + 1 \in 1..Len(queue) /\ n + (k + 1) = (n + 1) + k
        BY <2>3, <3>4
      <4>2. queue[k + 1] = runTool(pending[n + (k + 1)])
        BY <2>1, <4>1 DEF Owes
      <4> QED BY <3>4, <4>1, <4>2
    <3>7. Len(actions') = 0
      BY <3>1
    <3>8. Owes'
      BY <2>2, <2>3, <3>1, <3>3, <3>4, <3>5, <3>6, <3>7 DEF Owes
    <3> QED BY <1>7, <2>1, <3>1, <3>8 DEF Driven, RunningDriven
  <2> QED BY <2>2, <2>4, <2>5
<1>8. CASE state = "Asking" /\ ~Breaks(queue)
  <2>1. Len(queue) = 1 /\ queue[1].kind = "BudgetAnswer" /\ answered = <<>>
    BY <1>1, <1>8 DEF Driven, AskingDriven
  <2>2. e.kind = "BudgetAnswer" /\ queue' = <<>>
    BY <1>2, <2>1
  <2>3. BudgetDeclined(e) \/ BudgetGranted(e)
    BY <1>1, <1>8, <2>2 DEF Step, UserInput, UserInputMidTurn, ModelText, ModelReasoning,
         ModelToolCall, NilToolCall, TurnEnded, TurnEndedOverBudget, TurnEndedWithCalls, ModelError,
         Interrupt, ToolResult, LastToolResult, StrayToolResult, StrayBudgetAnswer
  <2>4. CASE BudgetDeclined(e)
    BY <2>2, <2>4, ShownActions DEF BudgetDeclined, Abandon, Driven, IdleDriven, Shown, All
  <2>5. CASE BudgetGranted(e)
    BY <1>1, <2>1, <2>2, <2>5, DispatchOwes DEF BudgetGranted, Driven, RunningDriven
  <2> QED BY <2>3, <2>4, <2>5
<1> QED BY <1>1, <1>3, <1>4, <1>5, <1>6, <1>7, <1>8

(* Every action that is carried out moves the turn on. *)
LEMMA ActionDriven ==
  ASSUME TypeOK, Driven, Show \/ ShowError \/ AskToContinue \/ RunToolCall \/ SendFails
  PROVE  Driven'
<1> DEFINE a == Head(actions)
<1>1. /\ actions \in Seq(Action) /\ actions # <<>> /\ actions' = Tail(actions) /\ a \in Action
      /\ a = actions[1] /\ queue \in Seq(Event) /\ state \in {"Idle", "Awaiting", "Running", "Asking"}
      /\ UNCHANGED <<state, messages, pending, answered>>
  <2>1. /\ actions # <<>> /\ actions' = Tail(actions)
        /\ UNCHANGED <<state, messages, pending, answered>>
    BY DEF Show, ShowError, AskToContinue, RunToolCall, SendFails, CarryOut
  <2>2. /\ actions \in Seq(Action) /\ queue \in Seq(Event)
        /\ state \in {"Idle", "Awaiting", "Running", "Asking"}
    BY DEF TypeOK, LoopTypeOK, State
  <2> QED BY <2>1, <2>2, TailFacts
<1>2. \A K : All(actions, K) => All(actions', K) /\ a.kind \in K
  BY <1>1, AllTail
<1>3. ASSUME Len(actions) = 1 PROVE actions' = <<>>
  BY <1>1, <1>3
<1>4. state = "Idle" => a.kind \in Shown
  BY <1>2 DEF Driven, IdleDriven
<1>5. state = "Awaiting" => \/ a.kind = "SendTurn" /\ actions' = <<>> /\ queue = <<>>
                            \/ a.kind \in Shown
  BY <1>1, <1>2, <1>3 DEF Driven, AwaitingDriven, Do
<1>6. state = "Asking" => a.kind = "AskToContinue"
  BY <1>1, <1>2 DEF Driven, AskingDriven, Do
<1>7. state = "Running" => a.kind = "RunTool"
  <2>1. CASE Owes
    <3>1. 1 \in 1..Len(actions)
      BY <1>1
    <3>2. \E c : actions[1] = RunTool(c)
      BY <2>1, <3>1 DEF Owes
    <3> QED BY <1>1, <3>2 DEF RunTool
  <2> QED BY <1>2, <2>1 DEF Driven, RunningDriven
<1> HIDE DEF a
<1>8. CASE Show \/ ShowError
  <2>1. a.kind \in Shown /\ queue' = queue
    BY <1>8 DEF Show, ShowError, CarryOut, Shown, a
  <2>2. state \in {"Idle", "Awaiting"} /\ actions # <<Do("SendTurn")>>
    <3>1. actions # <<Do("SendTurn")>>
      BY <1>1, <2>1 DEF Shown, Do
    <3> QED BY <1>1, <1>6, <1>7, <2>1, <3>1 DEF Shown
  <2> QED BY <1>1, <1>2, <2>1, <2>2 DEF Driven, IdleDriven, AwaitingDriven
<1>9. CASE AskToContinue
  <2>1. PICK g \in Grant : queue' = Append(queue, [kind |-> "BudgetAnswer", allow |-> g > 0, grant |-> g])
    BY <1>9 DEF AskToContinue
  <2> DEFINE b == [kind |-> "BudgetAnswer", allow |-> g > 0, grant |-> g]
  <2>2. b \in Event /\ b.kind = "BudgetAnswer"
    BY DEF Event
  <2>3. a.kind = "AskToContinue"
    BY <1>9 DEF AskToContinue, CarryOut, a
  <2>4. state = "Asking"
    BY <1>1, <1>4, <1>5, <1>7, <2>3 DEF Shown
  <2> HIDE DEF b
  <2>5. CASE Breaks(queue)
    <3>1. Breaks(queue')
      BY <1>1, <2>1, <2>2, <2>5, BreaksOn DEF b
    <3>2. All(actions', {"AskToContinue"})
      <4>1. CASE All(actions, {"AskToContinue"})
        BY <1>2, <4>1
      <4>2. CASE Len(actions) = 1
        BY <1>3, <4>2, ShownActions
      <4> QED BY <1>1, <2>4, <4>1, <4>2 DEF Driven, AskingDriven
    <3> QED BY <1>1, <2>4, <3>1, <3>2 DEF Driven, AskingDriven
  <2>6. CASE ~Breaks(queue)
    <3>1. Len(actions) = 1 /\ queue = <<>> /\ answered = <<>>
      BY <1>1, <2>4, <2>6 DEF Driven, AskingDriven
    <3>2. queue' = <<b>>
      BY <2>1, <3>1 DEF b
    <3> QED BY <1>1, <1>3, <2>2, <2>4, <3>1, <3>2 DEF Driven, AskingDriven
  <2> QED BY <2>5, <2>6
<1>10. CASE RunToolCall
  <2>1. queue' = Append(queue, runTool(a.call)) /\ a.kind = "RunTool"
    BY <1>10 DEF RunToolCall, CarryOut, a
  <2>2. state = "Running" /\ a.call \in ToolCall
    BY <1>1, <1>4, <1>5, <1>6, <2>1 DEF Shown, Action
  <2>3. runTool(a.call) \in Event /\ runTool(a.call).kind = "ToolResult"
    BY <2>2 DEF Event, runTool
  <2>4. CASE Breaks(queue) /\ All(actions, {"RunTool"})
    <3>1. Breaks(queue')
      BY <1>1, <2>1, <2>3, <2>4, BreaksOn
    <3> QED BY <1>1, <1>2, <2>2, <2>4, <3>1 DEF Driven, RunningDriven
  <2>5. CASE Owes
    <3> DEFINE n == Len(answered)
               q == Len(queue)
    <3>1. n \in Nat /\ q \in Nat /\ Len(pending) \in Nat /\ answered' = answered /\ pending' = pending
      BY <1>1 DEF TypeOK, LoopTypeOK
    <3>2. /\ Len(actions) \in Nat \ {0} /\ Len(actions') = Len(actions) - 1
          /\ \A k \in 1..Len(actions') : actions'[k] = actions[k + 1]
      BY <1>1, TailFacts
    <3>3. /\ Len(queue') = q + 1 /\ queue'[q + 1] = runTool(a.call)
          /\ \A k \in 1..q : queue'[k] = queue[k]
      BY <1>1, <2>1, <2>3
    <3>4. a = RunTool(pending[n + q + 1])
      BY <1>1, <2>5, <3>2 DEF Owes
    <3>5. \A k \in 1..Len(queue') : queue'[k] = runTool(pending[n + k])
      <4>1. \A k \in 1..Len(queue') : k \in 1..q \/ k = q + 1
        BY <3>1, <3>3
      <4>2. queue'[q + 1] = runTool(pending[n + (q + 1)])
        <5>1. n + (q + 1) = n + q + 1
          BY <3>1
        <5> QED BY <3>3, <3>4, <5>1 DEF RunTool
      <4> QED BY <2>5, <3>3, <4>1, <4>2 DEF Owes
    <3>6. \A k \in 1..Len(actions') : actions'[k] = RunTool(pending[n + (q + 1) + k])
      <4> TAKE k \in 1..Len(actions')
      <4>1. k + 1 \in 1..Len(actions) /\ n + q + (k + 1) = n + (q + 1) + k
        BY <3>1, <3>2
      <4>2. actions[k + 1] = RunTool(pending[n + q + (k + 1)])
        BY <2>5, <4>1 DEF Owes
      <4> QED BY <3>2, <4>1, <4>2
    <3>7. n + Len(queue') + Len(actions') = Len(pending)
      <4>1. n + q + Len(actions) = Len(pending)
        BY <2>5 DEF Owes
      <4>2. Len(queue') = q + 1 /\ Len(actions') = Len(actions) - 1 /\ Len(actions) \in Nat
        BY <3>2, <3>3
      <4>3. \A x, y, z \in Nat : x + (y + 1) + (z - 1) = x + y + z
        OBVIOUS
      <4> HIDE DEF n, q
      <4> QED BY <3>1, <4>1, <4>2, <4>3
    <3>8. Owes'
      BY <2>5, <3>1, <3>3, <3>5, <3>6, <3>7 DEF Owes
    <3> QED BY <1>1, <2>2, <3>8 DEF Driven, RunningDriven
  <2> QED BY <2>2, <2>4, <2>5 DEF Driven, RunningDriven
<1>11. CASE SendFails
  <2>1. queue' = Append(queue, [kind |-> "ModelError"]) /\ a.kind = "SendTurn"
    BY <1>11 DEF SendFails, CarryOut, a
  <2>2. state = "Awaiting" /\ actions' = <<>> /\ queue = <<>>
    BY <1>1, <1>4, <1>5, <1>6, <1>7, <2>1 DEF Shown
  <2>3. Len(queue') = 1 /\ queue'[1].kind = "ModelError"
    BY <2>1, <2>2
  <2>4. Ordered(queue') /\ Has(queue', {"ModelDone", "ModelError"})
    BY <2>3 DEF Ordered, All, StreamKind, Has
  <2> QED BY <1>1, <2>2, <2>4, ShownActions DEF Driven, AwaitingDriven
<1> QED BY <1>8, <1>9, <1>10, <1>11

(* What the turn ends with, however the stream closes. *)
LEMMA ClosesInOrder ==
  ASSUME TypeOK, StreamCloses, queue = <<>>, Ordered(collected)
  PROVE  Ordered(queue') /\ Has(queue', {"ModelDone", "ModelError"})
<1>1. collected \in Seq(Event)
  BY ModelEventType DEF TypeOK
<1>2. CASE endsTheTurn(collected)
  <2>1. queue' = <<>> \o collected
    BY <1>2 DEF StreamCloses
  <2>2. queue' = collected
    BY <1>1, <2>1
  <2> QED BY <1>2, <2>2 DEF endsTheTurn
<1>3. CASE ~endsTheTurn(collected)
  <2> DEFINE done == [kind |-> "ModelDone", finish |-> "incomplete"]
  <2>1. done \in Event /\ done.kind = "ModelDone"
    BY DEF Event, Finish
  <2>2. queue' = <<>> \o Append(collected, done)
    BY <1>3 DEF StreamCloses
  <2> HIDE DEF done
  <2>3. queue' = Append(collected, done)
    BY <1>1, <2>1, <2>2
  <2>4. KeepsContract(collected, done)
    BY <1>3 DEF KeepsContract, endsTheTurn, Has
  <2>5. Ordered(queue')
    BY <1>1, <2>1, <2>3, <2>4, OrderedAppend DEF StreamKind
  <2>6. Len(collected) + 1 \in 1..Len(queue') /\ queue'[Len(collected) + 1] = done
    BY <1>1, <2>1, <2>3
  <2>7. Has(queue', {"ModelDone", "ModelError"})
    BY <2>1, <2>6 DEF Has
  <2> QED BY <2>5, <2>7
<1> QED BY <1>2, <1>3

(* Every step keeps Served, if streams keep the contract. *)
LEMMA ServedStep ==
  ASSUME Orderly, TypeOK, CleanStart, ResultsAreOwed, Served, Next
  PROVE  Served'
<1> USE DEF Served
<1>0. Ordered(<<>>) /\ All(<<>>, Shown)
  BY DEF Ordered, All
<1>1. CASE \E msgs, from : StartRun(msgs, from)
  BY <1>1 DEF StartRun, NewLoop
<1>2. CASE Stop
  BY <1>2 DEF Stop, NewLoop
<1>3. CASE Crash \/ EndOfInput \/ ReadFails \/ CheckpointFails
  BY <1>2, <1>3 DEF Crash, EndOfInput, ReadFails, CheckpointFails, Return
<1>4. CASE Cancel
  BY <1>4 DEF Cancel, loopVars, Driven, IdleDriven, AwaitingDriven, RunningDriven, AskingDriven, Owes
<1>5. ASSUME NEW e \in ModelEvent, Receive(e) PROVE Served'
  <2>1. collected \in Seq(Event) /\ e \in Event /\ e.kind \in StreamKind
    <3>1. collected \in Seq(Event) /\ e \in Event
      BY ModelEventType DEF TypeOK
    <3>2. e.kind \in StreamKind
      BY DEF ModelEvent, StreamKind
    <3> QED BY <3>1, <3>2
  <2>2. /\ phase = "streaming" /\ KeepsContract(collected, e) /\ collected' = Append(collected, e)
        /\ UNCHANGED <<state, actions, queue, phase, driveErr>>
    BY <1>5 DEF Receive, loopVars
  <2>3. Ordered(collected')
    BY <2>1, <2>2, OrderedAppend
  <2> QED BY <2>2, <2>3
<1>6. CASE ReadLine
  <2>1. /\ phase = "reading" /\ phase' = "driving" /\ queue' = <<[kind |-> "UserInput"]>>
        /\ UNCHANGED <<state, actions, driveErr>>
    BY <1>6 DEF ReadLine, loopVars
  <2>2. actions = <<>>
    BY <2>1 DEF CleanStart
  <2> QED BY <1>0, <2>1, <2>2 DEF Driven, IdleDriven
<1>7. CASE HandleEvent
  <2>1. phase = "driving" /\ UNCHANGED <<phase, driveErr>>
    BY <1>7 DEF HandleEvent
  <2> QED BY <1>7, <2>1, EventDriven
<1>8. CASE Show \/ ShowError \/ AskToContinue \/ RunToolCall \/ SendFails
  <2>1. phase = "driving" /\ UNCHANGED <<phase, driveErr>>
    BY <1>8 DEF Show, ShowError, AskToContinue, RunToolCall, SendFails, CarryOut
  <2> QED BY <1>8, <2>1, ActionDriven
<1>9. CASE SendTurn
  <2>1. /\ phase = "driving" /\ phase' = "streaming" /\ collected' = <<>> /\ actions' = Tail(actions)
        /\ actions # <<>> /\ Head(actions).kind = "SendTurn" /\ UNCHANGED <<state, queue, driveErr>>
    BY <1>9 DEF SendTurn, CarryOut
  <2>2. actions \in Seq(Action) /\ state \in {"Idle", "Awaiting", "Running", "Asking"}
    BY DEF TypeOK, LoopTypeOK, State
  <2>3. \A K : All(actions, K) => "SendTurn" \in K
    BY <2>1, <2>2, AllTail
  <2>4. ~Owes
    <3>1. 1 \in 1..Len(actions) /\ actions[1].kind = "SendTurn"
      BY <2>1, <2>2
    <3>2. Owes => \E c : actions[1] = RunTool(c)
      BY <3>1 DEF Owes
    <3>3. \A c : RunTool(c).kind = "RunTool"
      BY DEF RunTool
    <3> QED BY <3>1, <3>2, <3>3
  <2>5. actions # <<Do("AskToContinue")>>
    BY <2>1 DEF Do
  <2>6. state = "Awaiting" /\ actions = <<Do("SendTurn")>> /\ queue = <<>>
    BY <2>1, <2>2, <2>3, <2>4, <2>5
       DEF Driven, IdleDriven, AwaitingDriven, RunningDriven, AskingDriven, Shown
  <2>7. actions' = <<>>
    BY <2>1, <2>6
  <2> QED BY <1>0, <2>1, <2>6, <2>7
<1>10. CASE DriveAborts
  BY <1>10 DEF DriveAborts
<1>11. CASE DriveEnds
  <2>1. /\ phase = "driving" /\ phase' = "boundary" /\ actions = <<>> /\ queue = <<>>
        /\ UNCHANGED <<state, driveErr>>
    BY <1>11 DEF DriveEnds, loopVars
  <2>2. state # "Awaiting"
    BY <2>1 DEF Driven, AwaitingDriven, Has
  <2>3. state # "Running"
    <3>1. Len(answered) \in Nat /\ Len(pending) \in Nat
      BY DEF TypeOK, LoopTypeOK
    <3>2. Len(actions) = 0 /\ Len(queue) = 0
      BY <2>1
    <3> QED BY <2>1, <3>1, <3>2 DEF Driven, RunningDriven, Owes, Breaks, ResultsAreOwed
  <2>4. state # "Asking"
    <3>1. Len(queue) = 0
      BY <2>1
    <3> QED BY <2>1, <3>1 DEF Driven, AskingDriven, Breaks
  <2>5. state = "Idle"
    BY <2>2, <2>3, <2>4 DEF TypeOK, LoopTypeOK, State
  <2> QED BY <2>1, <2>5
<1>12. CASE StreamCloses
  <2>1. /\ phase = "streaming" /\ phase' = "driving" /\ UNCHANGED <<state, actions, driveErr>>
    BY <1>12 DEF StreamCloses, loopVars
  <2>2. Ordered(queue') /\ Has(queue', {"ModelDone", "ModelError"})
    BY <1>12, <2>1, ClosesInOrder
  <2> QED BY <1>0, <2>1, <2>2 DEF Driven, AwaitingDriven
<1>13. CASE phase = "boundary" /\ \E n, h : AfterBoundary(n, h)
  BY <1>2, <1>13 DEF AfterBoundary, Return, loopVars
<1> QED
  BY <1>1, <1>3, <1>4, <1>5, <1>6, <1>7, <1>8, <1>9, <1>10, <1>11, <1>12, <1>13
     DEF Next, Driving, Run, RunRestored, MidTurn, NoCheckpointer, WriteCheckpoint

(* The loop inside a runner owes results as it does for every caller. *)
LEMMA OwedInRunner ==
  ASSUME TypeOK, ResultsAreOwed, Next
  PROVE  ResultsAreOwed'
<1>1. CASE \E msgs : NewLoop(msgs)
  BY <1>1 DEF NewLoop, ResultsAreOwed
<1>2. CASE UNCHANGED <<state, answered, pending>>
  BY <1>2 DEF ResultsAreOwed
<1>3. CASE HandleEvent
  <2>1. Head(queue) \in Event /\ Step(Head(queue)) /\ LoopTypeOK
    BY <1>3 DEF HandleEvent, TypeOK
  <2> QED BY <2>1, StepOwed
<1>4. CASE \E n, h : AfterBoundary(n, h)
  BY <1>1, <1>2, <1>4 DEF AfterBoundary, Return, Stop, loopVars
<1>5. CASE Run \/ (\E cp \in store : RunRestored(cp)) \/ Crash \/ EndOfInput \/ ReadFails \/ CheckpointFails
  BY <1>1, <1>5 DEF Run, RunRestored, StartRun, Crash, EndOfInput, ReadFails, CheckpointFails, Return, Stop
<1>6. CASE Cancel \/ ReadLine \/ DriveEnds \/ StreamCloses \/ DriveAborts \/ \E e \in ModelEvent : Receive(e)
  BY <1>2, <1>6 DEF Cancel, ReadLine, DriveEnds, StreamCloses, DriveAborts, Receive, loopVars
<1>7. CASE Show \/ ShowError \/ AskToContinue \/ RunToolCall \/ SendFails \/ SendTurn
  BY <1>2, <1>7 DEF Show, ShowError, AskToContinue, RunToolCall, SendFails, SendTurn, CarryOut
<1> QED
  BY <1>3, <1>4, <1>5, <1>6, <1>7 DEF Next, Driving, MidTurn, NoCheckpointer, WriteCheckpoint

(* What drive relies on, all together. *)
DriveInv == CleanStart /\ ResultsAreOwed /\ Served

(* DriveInv holds of every run whose streams keep the contract. *)
LEMMA DriveCorrect ==
  ASSUME Orderly PROVE Spec => []DriveInv
<1> USE DEF DriveInv
<1>1. Init => DriveInv
  BY DEF Init, LoopInit, CleanStart, ResultsAreOwed, Served, Has
<1>2. TypeOK /\ DriveInv /\ [Next]_vars => DriveInv'
  <2> SUFFICES ASSUME TypeOK, DriveInv, [Next]_vars PROVE DriveInv'
    OBVIOUS
  <2>1. CASE Next
    BY <2>1, CleanStep, OwedInRunner, ServedStep
  <2>2. CASE UNCHANGED vars
    BY <2>2 DEF vars, loopVars, runnerVars, CleanStart, ResultsAreOwed, Served, Driven, IdleDriven,
         AwaitingDriven, RunningDriven, AskingDriven, Owes
  <2> QED BY <2>1, <2>2
<1> QED BY <1>1, <1>2, TypeCorrect, PTL DEF Spec

(* Whenever the runner waits for a line the loop is idle, for every budget,   *)
(* operator, order of chunks and place where streams break, as long as they   *)
(* keep the contract (module ChatStreamProofs): no line is silently dropped.  *)
(* The invariant says what, in the queue or among the actions, will move a    *)
(* turn in each state on (runner.go drive, send).                             *)
THEOREM LinesAreTaken ==
  ASSUME Orderly PROVE Spec => []ReadyForInput
<1>1. DriveInv => ReadyForInput
  BY DEF DriveInv, Served, ReadyForInput
<1> QED BY <1>1, DriveCorrect, PTL

-----------------------------------------------------------------------------
(* Answers *)

(* A message that is no result may follow any conversation. *)
LEMMA TogetherAppend ==
  ASSUME NEW m \in Seq(Message), Together(m), NEW x \in Message, x.role # "tool"
  PROVE  Together(Append(m, x))
<1> DEFINE t == Append(m, x)
<1>1. /\ t \in Seq(Message) /\ Len(m) \in Nat /\ Len(t) = Len(m) + 1 /\ t[Len(m) + 1] = x
      /\ \A i \in 1..Len(m) : t[i] = m[i]
  OBVIOUS
<1> HIDE DEF t
<1>2. ASSUME NEW i \in 1..Len(m), m[i].calls # <<>> PROVE Answers(t, i) \/ Unanswered(t, i)
  <2>0. t[i] = m[i] /\ Len(m[i].calls) \in Nat
    BY <1>1 DEF Message
  <2>1. CASE Answers(m, i)
    <3> DEFINE n == Len(m[i].calls)
    <3>1. n \in Nat /\ i + n <= Len(m) /\ \A j \in 1..n : i + j \in 1..Len(m)
      BY <1>1, <2>0, <2>1 DEF Answers
    <3>2. \A j \in 1..n : t[i + j] = m[i + j]
      BY <1>1, <3>1
    <3>3. i + n <= Len(t)
      BY <1>1, <3>1
    <3> QED BY <2>0, <2>1, <3>2, <3>3 DEF Answers
  <2>2. CASE i = Len(m)
    BY <1>1, <2>2 DEF Unanswered
  <2>3. CASE i # Len(m) /\ m[i + 1].role # "tool"
    <3>1. i + 1 \in 1..Len(m)
      BY <1>1, <2>3
    <3> QED BY <1>1, <2>3, <3>1 DEF Unanswered
  <2> QED BY <1>2, <2>1, <2>2, <2>3 DEF Together, Unanswered
<1>3. \A i \in 1..Len(t) : i \in 1..Len(m) \/ i = Len(t)
  BY <1>1
<1>4. Together(t)
  BY <1>1, <1>2, <1>3 DEF Together, Unanswered
<1> QED BY <1>4 DEF t

(* All the results of the last message, in order, may follow it. *)
LEMMA TogetherAnswered ==
  ASSUME NEW m \in Seq(Message), Together(m), NEW r \in Seq(Message), NEW cs \in Seq(ToolCall),
         m # <<>>, m[Len(m)] = CallMessage(cs), Len(r) = Len(cs),
         \A j \in 1..Len(cs) : r[j] = ResultMessage(cs[j])
  PROVE  Together(m \o r)
<1> DEFINE t == m \o r
<1>1. /\ t \in Seq(Message) /\ Len(m) \in Nat \ {0} /\ Len(r) \in Nat /\ Len(t) = Len(m) + Len(r)
      /\ \A i \in 1..Len(m) : t[i] = m[i]
  OBVIOUS
<1>2. \A j \in 1..Len(r) : t[Len(m) + j] = r[j]
  OBVIOUS
<1> HIDE DEF t
<1>3. ASSUME NEW i \in 1..Len(m), i # Len(m), m[i].calls # <<>>
      PROVE  Answers(t, i) \/ Unanswered(t, i)
  <2>0. t[i] = m[i] /\ Len(m[i].calls) \in Nat
    BY <1>1 DEF Message
  <2>1. CASE Answers(m, i)
    <3> DEFINE n == Len(m[i].calls)
    <3>1. n \in Nat /\ i + n <= Len(m) /\ \A j \in 1..n : i + j \in 1..Len(m)
      BY <1>1, <2>0, <2>1 DEF Answers
    <3>2. \A j \in 1..n : t[i + j] = m[i + j]
      BY <1>1, <3>1
    <3>3. i + n <= Len(t)
      BY <1>1, <3>1
    <3> QED BY <2>0, <2>1, <3>2, <3>3 DEF Answers
  <2>2. CASE m[i + 1].role # "tool"
    <3>1. i + 1 \in 1..Len(m)
      BY <1>1, <1>3
    <3> QED BY <1>1, <2>2, <3>1 DEF Unanswered
  <2> QED BY <1>3, <2>1, <2>2 DEF Together, Unanswered
<1>4. Answers(t, Len(m))
  <2>1. t[Len(m)].calls = cs /\ Len(cs) \in Nat
    BY <1>1 DEF CallMessage
  <2>2. \A j \in 1..Len(cs) : t[Len(m) + j].role = "tool" /\ t[Len(m) + j].callID = cs[j].id
    <3>1. \A c : ResultMessage(c).role = "tool" /\ ResultMessage(c).callID = c.id
      BY DEF ResultMessage
    <3> QED BY <1>2, <3>1
  <2> QED BY <1>1, <2>1, <2>2 DEF Answers
<1>5. ASSUME NEW i \in 1..Len(t), i > Len(m) PROVE t[i].calls = <<>>
  <2>1. i - Len(m) \in 1..Len(r) /\ Len(m) + (i - Len(m)) = i
    BY <1>1, <1>5
  <2>2. t[i] = ResultMessage(cs[i - Len(m)])
    BY <1>2, <2>1
  <2> QED BY <2>2 DEF ResultMessage
<1>6. \A i \in 1..Len(t) : i > Len(m) \/ i = Len(m) \/ (i \in 1..Len(m) /\ i # Len(m))
  BY <1>1
<1>7. Together(t)
  <2> SUFFICES ASSUME NEW i \in 1..Len(t), t[i].calls # <<>> PROVE Answers(t, i) \/ Unanswered(t, i)
    BY DEF Together
  <2>1. CASE i \in 1..Len(m) /\ i # Len(m)
    BY <1>1, <1>3, <2>1
  <2> QED BY <1>4, <1>5, <1>6, <2>1
<1> QED BY <1>7 DEF t

(* A conversation that starts has no calls. *)
LEMMA TogetherNew == Together(NewMessages)
  BY DEF NewMessages, Together, SystemMessage

(* Every event leaves the conversation's calls answered together. *)
LEMMA EventTogether ==
  ASSUME TypeOK, Driven, Together(messages), HandleEvent
  PROVE  Together(messages')
<1> DEFINE e == Head(queue)
<1>1. /\ e \in Event /\ Step(e) /\ LoopTypeOK /\ messages \in Seq(Message) /\ pending \in Seq(ToolCall)
      /\ answered \in Seq(Message) /\ queue \in Seq(Event) /\ queue # <<>>
  BY DEF TypeOK, HandleEvent, LoopTypeOK
<1>2. CASE messages' = messages
  BY <1>2
<1>3. CASE UserInput(e)
  <2>1. messages' = Append(messages, UserMessage) /\ UserMessage.role # "tool"
    BY <1>3 DEF UserInput, UserMessage
  <2> QED BY <1>1, <2>1, MessageTypes, TogetherAppend
<1>4. CASE runPending
  <2>1. messages' = Append(messages, CallMessage(pending)) /\ CallMessage(pending).role # "tool"
    BY <1>4 DEF runPending, CallMessage
  <2> QED BY <1>1, <2>1, MessageTypes, TogetherAppend
<1>5. CASE LastToolResult(e)
  <2> DEFINE n == Len(answered)
             r == ResultMessage(pending[n + 1])
  <2>1. e.kind = "ToolResult" /\ state = "Running" /\ n + 1 >= Len(pending)
    BY <1>5 DEF LastToolResult
  <2>2. ~Breaks(queue)
    BY <1>1, <2>1, BreaksOn
  <2>3. Owes /\ messages # <<>> /\ messages[Len(messages)] = CallMessage(pending)
    BY <2>1, <2>2 DEF Driven, RunningDriven
  <2>4. n + 1 \in 1..Len(pending) /\ e = runTool(pending[n + 1])
    BY <2>1, <2>3, OwedEvent
  <2>5. messages' = messages \o Append(answered, r)
    <3>1. e.call = pending[n + 1]
      BY <2>4 DEF runTool
    <3> QED BY <1>5, <3>1 DEF LastToolResult
  <2>6. r \in Message /\ n \in Nat /\ Len(pending) \in Nat
    BY <1>1, <2>4, MessageTypes
  <2>7. n + 1 = Len(pending)
    BY <2>1, <2>4, <2>6
  <2> HIDE DEF r
  <2>8. /\ Append(answered, r) \in Seq(Message) /\ Len(Append(answered, r)) = n + 1
        /\ Append(answered, r)[n + 1] = r /\ \A j \in 1..n : Append(answered, r)[j] = answered[j]
    BY <1>1, <2>6
  <2>9. \A j \in 1..Len(pending) : Append(answered, r)[j] = ResultMessage(pending[j])
    <3>1. \A j \in 1..Len(pending) : j \in 1..n \/ j = n + 1
      BY <2>6, <2>7
    <3> QED BY <2>3, <2>8, <3>1 DEF Owes, r
  <2> QED BY <1>1, <2>3, <2>5, <2>7, <2>8, <2>9, TogetherAnswered
<1> QED
  BY <1>1, <1>2, <1>3, <1>4, <1>5
     DEF Step, UserInputMidTurn, ModelText, ModelReasoning, ModelToolCall, NilToolCall, Ignore,
         TurnEnded, TurnEndedOverBudget, TurnEndedWithCalls, ModelError, Interrupt, Abandon,
         ToolResult, StrayToolResult, BudgetDeclined, BudgetGranted, StrayBudgetAnswer

(* Every step leaves the conversation and the checkpoints so. *)
LEMMA TogetherStep ==
  ASSUME TypeOK, Served, TogetherInv, Next
  PROVE  TogetherInv'
<1> USE DEF TogetherInv
<1>1. CASE Stop /\ store' \in {store, store \cup {Checkpoint(turn + 1)}}
  BY <1>1, TogetherNew DEF Stop, NewLoop, Checkpoint
<1>2. CASE Crash \/ EndOfInput \/ ReadFails \/ CheckpointFails
  BY <1>1, <1>2 DEF Crash, EndOfInput, ReadFails, CheckpointFails, Return
<1>3. CASE Run
  BY <1>3, TogetherNew DEF Run, StartRun, NewLoop
<1>4. CASE \E cp \in store : RunRestored(cp)
  BY <1>4 DEF RunRestored, StartRun, NewLoop
<1>5. CASE HandleEvent
  <2>1. phase = "driving" /\ store' = store
    BY <1>5 DEF HandleEvent
  <2> QED BY <1>5, <2>1, EventTogether DEF Served
<1>6. CASE UNCHANGED <<messages, store>>
  BY <1>6
<1>7. CASE Cancel \/ ReadLine \/ DriveEnds \/ StreamCloses \/ DriveAborts \/ \E e \in ModelEvent : Receive(e)
  BY <1>6, <1>7 DEF Cancel, ReadLine, DriveEnds, StreamCloses, DriveAborts, Receive, loopVars
<1>8. CASE Show \/ ShowError \/ AskToContinue \/ RunToolCall \/ SendFails \/ SendTurn
  BY <1>6, <1>8 DEF Show, ShowError, AskToContinue, RunToolCall, SendFails, SendTurn, CarryOut
<1>9. CASE /\ store' \in {store, store \cup {Checkpoint(turn + 1)}}
           /\ \E n, h : AfterBoundary(n, h)
  BY <1>1, <1>9 DEF AfterBoundary, Return, loopVars, Checkpoint
<1> QED
  BY <1>2, <1>3, <1>4, <1>5, <1>7, <1>8, <1>9
     DEF Next, Driving, MidTurn, NoCheckpointer, WriteCheckpoint

(* The results of a turn's calls enter the conversation all together and in   *)
(* the order of the calls, or not at all, for any number of calls and budget, *)
(* and so in every checkpoint a run is resumed from (loop.go toolReturned,    *)
(* runner.go drive).  It rests on the queue holding exactly the results that  *)
(* are owed, in order (Owes).                                                 *)
THEOREM CallsAnsweredTogether ==
  ASSUME Orderly PROVE Spec => []AnsweredTogether
<1>1. Init => TogetherInv
  BY TogetherNew DEF Init, LoopInit, TogetherInv
<1>2. TypeOK /\ DriveInv /\ TogetherInv /\ [Next]_vars => TogetherInv'
  <2> SUFFICES ASSUME TypeOK, DriveInv, TogetherInv, [Next]_vars PROVE TogetherInv'
    OBVIOUS
  <2>1. CASE Next
    BY <2>1, TogetherStep DEF DriveInv
  <2>2. CASE UNCHANGED vars
    BY <2>2 DEF vars, loopVars, runnerVars, TogetherInv
  <2> QED BY <2>1, <2>2
<1>3. TogetherInv => AnsweredTogether
  BY DEF TogetherInv, Together, AnsweredTogether
<1> QED BY <1>1, <1>2, <1>3, TypeCorrect, DriveCorrect, PTL DEF Spec
=============================================================================
