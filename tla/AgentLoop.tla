------------------------------ MODULE AgentLoop ------------------------------
(***************************************************************************)
(* The conversation loop of pkg/agentloop/loop.go: a pure state machine.   *)
(* Step(e) takes one event and returns instructions ("actions") for the    *)
(* caller; it does no I/O.  This module is the Loop under ANY caller, who  *)
(* may feed any event in any state; module Runner drives it the way        *)
(* runner.go does.                                                         *)
(*                                                                         *)
(* Text, tool results and system prompts are data nothing here depends on  *)
(* and are left out of messages; who spoke, which calls were made and      *)
(* which call a result answers are kept.                                   *)
(***************************************************************************)
EXTENDS Integers, Sequences, SequencesExt

CONSTANTS CallID,     \* what ToolCall.ID ranges over
          Arguments,  \* what ToolCall.Arguments ranges over
          NoCall,     \* the nil *ToolCall of an event, and "" as ToolCallID
          Budget,     \* the maxTools that New and RestoreCheckpoint are given
          System,     \* whether New was given a system prompt
          Grant       \* the values BudgetAnswer.Grant ranges over

ASSUME BudgetAssumption == Budget \in Nat
ASSUME GrantAssumption  == Grant \subseteq Nat
ASSUME SystemAssumption == System \in BOOLEAN
ASSUME NoCallAssumption == NoCall \notin CallID \cup [id : CallID, args : Arguments]

VARIABLES
  state,      \* Loop.state
  messages,   \* Loop.messages
  pending,    \* Loop.pending: calls asked for and not all answered
  answered,   \* Loop.answered: results held back until all are in
  maxTools,   \* Loop.maxTools: the ceiling, grown by each grant
  used,       \* Loop.used: calls dispatched for this input
  textShown,  \* Loop.textShownThisTurn
  actions     \* what the last Step returned and is still to be carried out

loopVars == <<state, messages, pending, answered, maxTools, used, textShown, actions>>

-----------------------------------------------------------------------------
(* Types *)

State == {"Idle", "Awaiting", "Running", "Asking"}

ToolCall == [id : CallID, args : Arguments]

Message == [role : {"system", "user", "assistant", "tool"},
            calls : Seq(ToolCall), callID : CallID \cup {NoCall}]

(* "stop" stands for every finish reason that is not a truncation. *)
Finish == {"stop", "length", "incomplete"}

(* One record set per EventKind.  text says whether Event.Text is non-empty. *)
Event ==
       [kind : {"UserInput", "ModelReasoning", "ModelError", "Interrupt"}]
  \cup [kind : {"ModelText"}, text : BOOLEAN]
  \cup [kind : {"ModelToolCall", "ToolResult"}, call : ToolCall \cup {NoCall}]
  \cup [kind : {"ModelDone"}, finish : Finish]
  \cup [kind : {"BudgetAnswer"}, allow : BOOLEAN, grant : Grant]

Action ==
       [kind : {"SendTurn", "ShowText", "ShowReasoning", "ShowError",
                "AwaitInput", "ShowTruncated", "ShowNote", "AskToContinue"}]
  \cup [kind : {"RunTool"}, call : ToolCall]

Do(kind)  == [kind |-> kind]
RunTool(c) == [kind |-> "RunTool", call |-> c]

SystemMessage    == [role |-> "system",    calls |-> <<>>, callID |-> NoCall]
UserMessage      == [role |-> "user",      calls |-> <<>>, callID |-> NoCall]
CallMessage(cs)  == [role |-> "assistant", calls |-> cs,   callID |-> NoCall]
ResultMessage(c) == [role |-> "tool",      calls |-> <<>>, callID |-> c.id]

-----------------------------------------------------------------------------
(* New, and RestoreCheckpoint, which differs in the messages it starts from. *)

NewMessages == IF System THEN <<SystemMessage>> ELSE <<>>

LoopInit ==
  /\ state = "Idle"
  /\ messages = NewMessages
  /\ pending = <<>> /\ answered = <<>>
  /\ maxTools = Budget /\ used = 0
  /\ textShown = FALSE
  /\ actions = <<>>

NewLoop(msgs) ==
  /\ state' = "Idle"
  /\ messages' = msgs
  /\ pending' = <<>> /\ answered' = <<>>
  /\ maxTools' = Budget /\ used' = 0
  /\ textShown' = FALSE
  /\ actions' = <<>>

-----------------------------------------------------------------------------
(* What the last of several handlers do in common. *)

(* Mutants of Abandon: held results outlive the turn; the turn is rolled back. *)
AbandonKeepsResults(acts) ==
  /\ state' = "Idle"
  /\ pending' = <<>>
  /\ actions' = acts
  /\ UNCHANGED <<messages, answered, used, textShown>>

AbandonRollsBack(acts) ==
  /\ state' = "Idle"
  /\ pending' = <<>> /\ answered' = <<>>
  /\ actions' = acts
  /\ messages' = IF state = "Running" THEN Front(messages) ELSE messages
  /\ UNCHANGED <<used, textShown>>

(* Back to the user with nothing outstanding: ModelError, Interrupt and a    *)
(* declined budget question.                                                 *)
Abandon(acts) ==
  /\ state' = "Idle"
  /\ pending' = <<>> /\ answered' = <<>>
  /\ actions' = acts
  /\ UNCHANGED <<messages, used, textShown>>

(* Mutant of runPending: dispatched calls are not counted. *)
RunPendingUncounted ==
  /\ messages' = Append(messages, CallMessage(pending))
  /\ state' = "Running"
  /\ actions' = [i \in 1..Len(pending) |-> RunTool(pending[i])]
  /\ UNCHANGED <<pending, answered, used, textShown>>

(* runPending: the assistant's turn is recorded before any result. *)
runPending ==
  /\ messages' = Append(messages, CallMessage(pending))
  /\ state' = "Running"
  /\ used' = used + Len(pending)
  /\ actions' = [i \in 1..Len(pending) |-> RunTool(pending[i])]
  /\ UNCHANGED <<pending, answered, textShown>>

(* granted: one budget's worth. *)
granted == IF Budget > 0 THEN Budget ELSE maxTools

(* An event the loop ignores: Step returns nil. *)
Ignore == actions' = <<>> /\ UNCHANGED <<state, messages, pending, answered, maxTools, used, textShown>>

-----------------------------------------------------------------------------
(* Step, one action per case and early return of its switch. *)

UserInput(e) ==
  /\ e.kind = "UserInput"
  /\ state = "Idle"
  /\ used' = 0
  /\ textShown' = FALSE
  /\ messages' = Append(messages, UserMessage)
  /\ state' = "Awaiting"
  /\ actions' = <<Do("SendTurn")>>
  /\ UNCHANGED <<pending, answered, maxTools>>

UserInputMidTurn(e) == e.kind = "UserInput" /\ state # "Idle" /\ Ignore

ModelText(e) ==
  /\ e.kind = "ModelText"
  /\ textShown' = (textShown \/ e.text)
  /\ actions' = <<Do("ShowText")>>
  /\ UNCHANGED <<state, messages, pending, answered, maxTools, used>>

ModelReasoning(e) ==
  /\ e.kind = "ModelReasoning"
  /\ actions' = <<Do("ShowReasoning")>>
  /\ UNCHANGED <<state, messages, pending, answered, maxTools, used, textShown>>

(* No look at the state: a call that arrives late is pending all the same. *)
ModelToolCall(e) ==
  /\ e.kind = "ModelToolCall" /\ e.call # NoCall
  /\ pending' = Append(pending, e.call)
  /\ actions' = <<>>
  /\ UNCHANGED <<state, messages, answered, maxTools, used, textShown>>

NilToolCall(e) ==
  /\ e.kind \in {"ModelToolCall", "ToolResult"} /\ e.call = NoCall
  /\ Ignore

(* turnEnded with nothing pending *)
TurnEnded(e) ==
  /\ e.kind = "ModelDone" /\ pending = <<>>
  /\ state' = "Idle"
  /\ actions' = IF e.finish \in {"length", "incomplete"}
                  THEN <<Do("ShowTruncated"), Do("AwaitInput")>>
                ELSE IF ~textShown THEN <<Do("ShowNote"), Do("AwaitInput")>>
                ELSE <<Do("AwaitInput")>>
  /\ UNCHANGED <<messages, pending, answered, maxTools, used, textShown>>

(* Mutant of OverBudget: the budget is per turn, not per input. *)
OverTurnBudget == Len(pending) > maxTools

OverBudget == used + Len(pending) > maxTools

(* turnEnded past the budget: the pending calls are kept *)
TurnEndedOverBudget(e) ==
  /\ e.kind = "ModelDone" /\ pending # <<>> /\ OverBudget
  /\ state' = "Asking"
  /\ actions' = <<Do("AskToContinue")>>
  /\ UNCHANGED <<messages, pending, answered, maxTools, used, textShown>>

TurnEndedWithCalls(e) ==
  /\ e.kind = "ModelDone" /\ pending # <<>> /\ ~OverBudget
  /\ runPending
  /\ UNCHANGED maxTools

ModelError(e) ==
  /\ e.kind = "ModelError"
  /\ Abandon(<<Do("ShowError"), Do("AwaitInput")>>)
  /\ UNCHANGED maxTools

Interrupt(e) ==
  /\ e.kind = "Interrupt"
  /\ Abandon(<<Do("AwaitInput")>>)
  /\ UNCHANGED maxTools

(* Mutant of ToolResult: a result enters the conversation as it comes. *)
ToolResultAtOnce(e) ==
  /\ e.kind = "ToolResult" /\ e.call # NoCall
  /\ state = "Running"
  /\ Len(answered) + 1 < Len(pending)
  /\ messages' = Append(messages, ResultMessage(e.call))
  /\ answered' = Append(answered, ResultMessage(e.call))
  /\ actions' = <<>>
  /\ UNCHANGED <<state, pending, maxTools, used, textShown>>

(* toolReturned when other results are still to come *)
ToolResult(e) ==
  /\ e.kind = "ToolResult" /\ e.call # NoCall
  /\ state = "Running"
  /\ Len(answered) + 1 < Len(pending)
  /\ answered' = Append(answered, ResultMessage(e.call))
  /\ actions' = <<>>
  /\ UNCHANGED <<state, messages, pending, maxTools, used, textShown>>

(* toolReturned with the last result: the turn goes back to the model *)
LastToolResult(e) ==
  /\ e.kind = "ToolResult" /\ e.call # NoCall
  /\ state = "Running"
  /\ Len(answered) + 1 >= Len(pending)
  /\ messages' = messages \o Append(answered, ResultMessage(e.call))
  /\ pending' = <<>> /\ answered' = <<>>
  /\ state' = "Awaiting"
  /\ actions' = <<Do("SendTurn")>>
  /\ UNCHANGED <<maxTools, used, textShown>>

StrayToolResult(e) ==
  /\ e.kind = "ToolResult" /\ e.call # NoCall
  /\ state # "Running"
  /\ Ignore

BudgetDeclined(e) ==
  /\ e.kind = "BudgetAnswer" /\ state = "Asking" /\ ~e.allow
  /\ Abandon(<<Do("ShowError"), Do("AwaitInput")>>)
  /\ UNCHANGED maxTools

(* A yes runs the pending calls without comparing them with the new ceiling. *)
BudgetGranted(e) ==
  /\ e.kind = "BudgetAnswer" /\ state = "Asking" /\ e.allow
  /\ maxTools' = maxTools + (IF e.grant > 0 THEN e.grant ELSE granted)
  /\ runPending

StrayBudgetAnswer(e) == e.kind = "BudgetAnswer" /\ state # "Asking" /\ Ignore

Step(e) ==
  \/ UserInput(e) \/ UserInputMidTurn(e)
  \/ ModelText(e) \/ ModelReasoning(e)
  \/ ModelToolCall(e) \/ NilToolCall(e)
  \/ TurnEnded(e) \/ TurnEndedOverBudget(e) \/ TurnEndedWithCalls(e)
  \/ ModelError(e) \/ Interrupt(e)
  \/ ToolResult(e) \/ LastToolResult(e) \/ StrayToolResult(e)
  \/ BudgetDeclined(e) \/ BudgetGranted(e) \/ StrayBudgetAnswer(e)

LoopNext == \E e \in Event : Step(e)

LoopSpec == LoopInit /\ [][LoopNext]_loopVars

-----------------------------------------------------------------------------
(* Properties, for every caller *)

(* The loop's fields hold values of their Go types. *)
LoopTypeOK ==
  /\ state \in State
  /\ messages \in Seq(Message)
  /\ pending \in Seq(ToolCall)
  /\ answered \in Seq(Message)
  /\ maxTools \in Nat /\ used \in Nat
  /\ textShown \in BOOLEAN
  /\ actions \in Seq(Action)

(* A turn that is running tools, or asking whether it may, still waits for a  *)
(* result (loop.go toolReturned would otherwise never resume it), and results *)
(* are held only by such a turn, so none leaks from an abandoned turn into    *)
(* the answers of the next.                                                   *)
ResultsAreOwed ==
  IF state \in {"Running", "Asking"} THEN Len(answered) < Len(pending)
                                     ELSE answered = <<>>

(* Until the operator grants more, an input never has more tools dispatched   *)
(* than the budget, whatever the model streams (loop.go turnEnded,            *)
(* runPending, budgetAnswered).                                               *)
BudgetHeld == maxTools = Budget => used <= Budget

(* History is append-only: no event rewrites or drops what was said.          *)
HistoryGrows == [][IsPrefix(messages, messages')]_loopVars
=============================================================================
