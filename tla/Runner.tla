------------------------------- MODULE Runner -------------------------------
(***************************************************************************)
(* pkg/agentloop/runner.go: the Runner that drives an AgentLoop - it reads *)
(* lines, feeds the loop a queue of events, carries out the actions the    *)
(* loop returns (streams a turn from the gateway, runs tools, asks the     *)
(* operator), and writes a checkpoint at every turn boundary.              *)
(*                                                                         *)
(* The gateway's stream, the tools' results, the operator, the context and *)
(* the file the checkpoints go to are the environment: they choose freely, *)
(* and the process may crash between any two steps.                        *)
(***************************************************************************)
EXTENDS AgentLoop, StreamEvents

CONSTANTS Checkpointing,  \* whether OnBoundary is set
          ReuseRunner,    \* whether Run is called on a Runner that RunRestored ran on
          Orderly,        \* whether streams keep the contract of StreamEvents
          MaxChunks,      \* bound: chunks that become events, per stream
          MaxGranted,     \* bound: the ceiling the operator extends a run to
          MaxInputs       \* bound: lines driven, over all runs

ASSUME RunnerAssumption ==
  /\ Checkpointing \in BOOLEAN /\ ReuseRunner \in BOOLEAN /\ Orderly \in BOOLEAN
  /\ MaxChunks \in Nat /\ MaxGranted \in Nat /\ MaxInputs \in Nat

VARIABLES
  phase,      \* where runWithLoop is
  queue,      \* drive: events to apply
  collected,  \* send: the events of the stream being read
  cancelled,  \* ctx.Err() # nil
  failed,     \* drive: whether it displayed an error
  driveErr,   \* drive: whether it returned an error
  failures,   \* runWithLoop: whether any turn so far failed
  turn, prevHash,  \* runWithLoop: the next checkpoint's place in the chain
  resumed,    \* Runner.resumed
  exit,       \* what the run returned
  store,      \* the checkpoints OnBoundary has made durable
  ran,        \* history: tools run for the current input
  errorShown, \* history: an error was displayed in this run
  inputs      \* history: lines driven

runnerVars == <<phase, queue, collected, cancelled, failed, driveErr, failures,
                turn, prevHash, resumed, exit, store, ran, errorShown, inputs>>

vars == <<loopVars, runnerVars>>

Tree == INSTANCE CheckpointTree WITH tree <- store

(* The nil *Checkpoint of Runner.resumed: turn 0 is never written. *)
NoCheckpoint == [turn |-> 0, prevHash |-> Tree!NoHash, messages |-> <<>>]

Phase == {"stopped", "reading", "driving", "streaming", "boundary"}

-----------------------------------------------------------------------------
(* Starting and ending a run *)

(* The loop and the locals of runWithLoop and drive, when no run is using them. *)
Init ==
  /\ LoopInit
  /\ phase = "stopped" /\ queue = <<>> /\ collected = <<>>
  /\ cancelled = FALSE /\ failed = FALSE /\ driveErr = FALSE /\ failures = FALSE
  /\ turn = 0 /\ prevHash = Tree!NoHash /\ resumed = NoCheckpoint
  /\ exit = "none" /\ store = {}
  /\ ran = 0 /\ errorShown = FALSE /\ inputs = 0

Stop ==
  /\ NewLoop(NewMessages)
  /\ phase' = "stopped" /\ queue' = <<>> /\ collected' = <<>>
  /\ cancelled' = FALSE /\ failed' = FALSE /\ driveErr' = FALSE /\ failures' = FALSE
  /\ turn' = 0 /\ prevHash' = Tree!NoHash
  /\ ran' = 0
  /\ UNCHANGED inputs

Return(how) == Stop /\ exit' = how /\ UNCHANGED <<resumed, errorShown>>

(* runWithLoop up to its first ReadLine. *)
StartRun(msgs, from) ==
  /\ phase = "stopped"
  /\ NewLoop(msgs)
  /\ resumed' = from
  /\ turn' = from.turn
  /\ prevHash' = IF from = NoCheckpoint THEN Tree!NoHash ELSE Tree!computeHash(from)
  /\ phase' = "reading"
  /\ exit' = "none" /\ errorShown' = FALSE
  /\ UNCHANGED <<queue, collected, cancelled, failed, driveErr, failures, store, ran, inputs>>

(* Run leaves resumed as an earlier RunRestored on the same Runner set it. *)
Run ==
  /\ resumed # NoCheckpoint => ReuseRunner
  /\ StartRun(NewMessages, resumed)

(* RestoreCheckpoint refuses an empty conversation, then RunRestored. *)
RunRestored(cp) == cp.messages # <<>> /\ StartRun(cp.messages, cp)

(* The process dies, or its caller makes a new Runner between two runs. *)
Crash ==
  /\ phase # "stopped" \/ resumed # NoCheckpoint
  /\ Stop
  /\ resumed' = NoCheckpoint
  /\ exit' = "none" /\ errorShown' = FALSE
  /\ UNCHANGED store

Cancel ==
  /\ phase # "stopped" /\ ~cancelled
  /\ cancelled' = TRUE
  /\ UNCHANGED <<loopVars, phase, queue, collected, failed, driveErr, failures, turn,
                 prevHash, resumed, exit, store, ran, errorShown, inputs>>

-----------------------------------------------------------------------------
(* runWithLoop: the read loop.  An interrupted, empty or intercepted line     *)
(* changes nothing and is left out.                                           *)

ReadLine ==
  /\ phase = "reading" /\ inputs < MaxInputs
  /\ queue' = <<[kind |-> "UserInput"]>>
  /\ phase' = "driving"
  /\ inputs' = inputs + 1
  /\ UNCHANGED <<loopVars, collected, cancelled, failed, driveErr, failures, turn,
                 prevHash, resumed, exit, store, ran, errorShown>>

(* io.EOF, the ordinary end: the turns that failed make the run fail. *)
EndOfInput ==
  /\ phase = "reading"
  /\ Return(IF failures THEN "error" ELSE "ok")
  /\ UNCHANGED store

(* ReadLine or Intercept returned an error. *)
ReadFails == phase = "reading" /\ Return("error") /\ UNCHANGED store

-----------------------------------------------------------------------------
(* drive: one event of the queue, then the actions it produced *)

HandleEvent ==
  /\ phase = "driving" /\ actions = <<>> /\ queue # <<>>
  /\ Step(Head(queue))
  /\ queue' = Tail(queue)
  /\ UNCHANGED <<phase, collected, cancelled, failed, driveErr, failures, turn,
                 prevHash, resumed, exit, store, ran, errorShown, inputs>>

(* The head of the actions is of this kind and may be carried out: ctx.Err()  *)
(* is checked before each of them.                                            *)
CarryOut(kinds) ==
  /\ phase = "driving" /\ actions # <<>> /\ ~cancelled
  /\ Head(actions).kind \in kinds
  /\ actions' = Tail(actions)
  /\ UNCHANGED <<state, messages, pending, answered, maxTools, used, textShown>>
  /\ UNCHANGED <<cancelled, driveErr, failures, turn, prevHash, resumed, exit, store, inputs>>

Show ==
  /\ CarryOut({"ShowText", "ShowReasoning", "ShowTruncated", "ShowNote", "AwaitInput"})
  /\ UNCHANGED <<phase, queue, collected, failed, ran, errorShown>>

ShowError ==
  /\ CarryOut({"ShowError"})
  /\ failed' = TRUE /\ errorShown' = TRUE
  /\ UNCHANGED <<phase, queue, collected, ran>>

(* AskContinue's answer, a number; nobody to ask (nil) answers 0. *)
AskToContinue ==
  /\ CarryOut({"AskToContinue"})
  /\ \E g \in Grant :
       /\ g > 0 => maxTools + g <= MaxGranted
       /\ queue' = Append(queue, [kind |-> "BudgetAnswer", allow |-> g > 0, grant |-> g])
  /\ UNCHANGED <<phase, collected, failed, ran, errorShown>>

(* runTool: a tool that fails or is refused answers all the same. *)
runTool(call) == [kind |-> "ToolResult", call |-> call]

(* It is synchronous, and its result joins the END of the queue. *)
RunToolCall ==
  /\ CarryOut({"RunTool"})
  /\ queue' = Append(queue, runTool(Head(actions).call))
  /\ ran' = ran + 1
  /\ UNCHANGED <<phase, collected, failed, errorShown>>

(* Mutant of SendFails: the failure is swallowed. *)
SendFailsQuietly ==
  /\ CarryOut({"SendTurn"})
  /\ UNCHANGED <<phase, queue, collected, failed, ran, errorShown>>

(* ChatStream refused the turn: an event, not an error of drive. *)
SendFails ==
  /\ CarryOut({"SendTurn"})
  /\ queue' = Append(queue, [kind |-> "ModelError"])
  /\ UNCHANGED <<phase, collected, failed, ran, errorShown>>

SendTurn ==
  /\ CarryOut({"SendTurn"})
  /\ phase' = "streaming"
  /\ collected' = <<>>
  /\ UNCHANGED <<queue, failed, ran, errorShown>>

(* ctx.Err() # nil, or a write to Out failed: drive returns before the action.  *)
DriveAborts ==
  /\ phase = "driving" /\ actions # <<>>
  /\ cancelled \/ Head(actions).kind \notin {"ShowReasoning", "ShowTruncated", "ShowNote"}
  /\ actions' = <<>>
  /\ queue' = <<>>
  /\ driveErr' = TRUE
  /\ phase' = "boundary"
  /\ UNCHANGED <<state, messages, pending, answered, maxTools, used, textShown>>
  /\ UNCHANGED <<collected, cancelled, failed, failures, turn, prevHash, resumed,
                 exit, store, ran, errorShown, inputs>>

DriveEnds ==
  /\ phase = "driving" /\ actions = <<>> /\ queue = <<>>
  /\ phase' = "boundary"
  /\ UNCHANGED <<loopVars, queue, collected, cancelled, failed, driveErr, failures,
                 turn, prevHash, resumed, exit, store, ran, errorShown, inputs>>

-----------------------------------------------------------------------------
(* send: chunks are collected and only applied once the stream has closed *)

ModelEvent ==
       [kind : {"ModelReasoning", "ModelError"}]
  \cup [kind : {"ModelText"}, text : {TRUE}]
  \cup [kind : {"ModelToolCall"}, call : ToolCall]
  \cup [kind : {"ModelDone"}, finish : Finish \ {"incomplete"}]

Receive(e) ==
  /\ phase = "streaming"
  /\ Len(collected) < MaxChunks
  /\ Orderly => KeepsContract(collected, e)
  /\ collected' = Append(collected, e)
  /\ UNCHANGED <<loopVars, phase, queue, cancelled, failed, driveErr, failures, turn,
                 prevHash, resumed, exit, store, ran, errorShown, inputs>>

(* Mutant of endsTheTurn: a stream is trusted to say how it ended. *)
AlwaysEndsTheTurn(evs) == TRUE

endsTheTurn(evs) == Has(evs, {"ModelDone", "ModelError"})

(* The channel closed: at [DONE], after an error chunk, or silently when the  *)
(* context was cancelled.                                                     *)
StreamCloses ==
  /\ phase = "streaming"
  /\ queue' = queue \o (IF endsTheTurn(collected) THEN collected
                        ELSE Append(collected, [kind |-> "ModelDone", finish |-> "incomplete"]))
  /\ collected' = <<>>
  /\ phase' = "driving"
  /\ UNCHANGED <<loopVars, cancelled, failed, driveErr, failures, turn, prevHash,
                 resumed, exit, store, ran, errorShown, inputs>>

-----------------------------------------------------------------------------
(* The turn boundary *)

(* Mutant of Checkpoint: made before the turn is counted. *)
CheckpointTooEarly(n) == [turn |-> n - 1, prevHash |-> prevHash, messages |-> messages]

(* Loop.Checkpoint, which refuses unless the loop is idle. *)
Checkpoint(n) == [turn |-> n, prevHash |-> prevHash, messages |-> messages]

(* Mutant of AfterBoundary: only the last turn's errors are remembered. *)
ForgetFailures(n, hash) ==
  IF driveErr THEN Return("error")
  ELSE /\ phase' = "reading"
       /\ failures' = failed
       /\ failed' = FALSE /\ ran' = 0
       /\ turn' = n /\ prevHash' = hash
       /\ UNCHANGED <<loopVars, queue, collected, cancelled, driveErr, resumed, exit,
                      errorShown, inputs>>

(* After boundary(): an error of drive ends the run, else read the next line, *)
(* drive's locals gone.                                                       *)
AfterBoundary(n, hash) ==
  IF driveErr THEN Return("error")
  ELSE /\ phase' = "reading"
       /\ failures' = (failures \/ failed)
       /\ failed' = FALSE /\ ran' = 0
       /\ turn' = n /\ prevHash' = hash
       /\ UNCHANGED <<loopVars, queue, collected, cancelled, driveErr, resumed, exit,
                      errorShown, inputs>>

MidTurn ==
  /\ phase = "boundary" /\ state # "Idle"
  /\ AfterBoundary(turn, prevHash)
  /\ UNCHANGED store

NoCheckpointer ==
  /\ phase = "boundary" /\ state = "Idle" /\ ~Checkpointing
  /\ AfterBoundary(turn + 1, prevHash)
  /\ UNCHANGED store

(* Mutant of WriteCheckpoint: the hash is not carried to the next one. *)
WriteUnlinked ==
  /\ phase = "boundary" /\ state = "Idle" /\ Checkpointing
  /\ store' = store \cup {Checkpoint(turn + 1)}
  /\ AfterBoundary(turn + 1, prevHash)

WriteCheckpoint ==
  /\ phase = "boundary" /\ state = "Idle" /\ Checkpointing
  /\ store' = store \cup {Checkpoint(turn + 1)}
  /\ AfterBoundary(turn + 1, Tree!computeHash(Checkpoint(turn + 1)))

(* OnBoundary failed, with or without the file having become durable. *)
CheckpointFails ==
  /\ phase = "boundary" /\ state = "Idle" /\ Checkpointing
  /\ store' \in {store, store \cup {Checkpoint(turn + 1)}}
  /\ Return("error")

-----------------------------------------------------------------------------

Driving ==
  \/ HandleEvent \/ Show \/ ShowError \/ AskToContinue \/ RunToolCall
  \/ SendTurn \/ SendFails \/ DriveAborts \/ DriveEnds
  \/ StreamCloses
  \/ MidTurn \/ NoCheckpointer \/ WriteCheckpoint \/ CheckpointFails

Next ==
  \/ Run \/ \E cp \in store : RunRestored(cp)
  \/ Crash \/ Cancel
  \/ ReadLine \/ EndOfInput \/ ReadFails
  \/ \E e \in ModelEvent : Receive(e)
  \/ Driving

Spec == Init /\ [][Next]_vars

(* The goroutine that drives runs on; the gateway ends every stream. *)
FairSpec == Spec /\ WF_vars(Driving)

-----------------------------------------------------------------------------
(* Properties *)

(* The runner's locals hold values of their types; every checkpoint on disk   *)
(* counts from turn 1 and carries a conversation, and what a run was resumed  *)
(* from is still on disk (runner.go runWithLoop, boundary).                   *)
TypeOK ==
  /\ LoopTypeOK
  /\ phase \in Phase
  /\ queue \in Seq(Event) /\ collected \in Seq(ModelEvent)
  /\ cancelled \in BOOLEAN /\ failed \in BOOLEAN /\ driveErr \in BOOLEAN
  /\ failures \in BOOLEAN /\ errorShown \in BOOLEAN
  /\ turn \in Nat /\ ran \in Nat /\ inputs \in Nat
  /\ exit \in {"none", "ok", "error"}
  /\ \A cp \in store : cp.turn \in Nat \ {0} /\ cp.messages \in Seq(Message)
  /\ resumed \in store \cup {NoCheckpoint}

(* The checkpoints on disk form a tree that only grows, across crashes,       *)
(* restarts, failed writes and runs resumed from any checkpoint               *)
(* (runner.go boundary, RunRestored).                                         *)
CheckpointsFormATree == Tree!Spec

(* Whenever the runner waits for a line the loop is idle, so no line is ever  *)
(* silently dropped by Step's "state != Idle" (loop.go UserInput).            *)
ReadyForInput == phase = "reading" => state = "Idle"

(* Until somebody grants more, one input never makes more tools actually RUN  *)
(* than the budget, whatever the model asks for (runner.go RunTool).          *)
ToolsWithinBudget == maxTools = Budget => ran <= Budget

(* A run that displayed an error does not return nil (runner.go Run: "A TURN  *)
(* THAT ERRORED MAKES THE RUN FAIL").                                         *)
ErroredTurnFailsTheRun == exit = "ok" => ~errorShown

(* The messages from i+1 on answer exactly the calls of message i, in order. *)
Answers(msgs, i) ==
  LET n == Len(msgs[i].calls)
  IN  /\ i + n <= Len(msgs)
      /\ \A j \in 1..n : /\ msgs[i + j].role = "tool"
                         /\ msgs[i + j].callID = msgs[i].calls[j].id

Unanswered(msgs, i) == i = Len(msgs) \/ msgs[i + 1].role # "tool"

(* The results of a turn's calls enter the conversation all together and in   *)
(* the order of the calls, or not at all (loop.go toolReturned, runner.go     *)
(* drive): no request carries a half-answered turn.                           *)
AnsweredTogether ==
  \A i \in 1..Len(messages) :
    messages[i].calls # <<>> => Answers(messages, i) \/ Unanswered(messages, i)

(* Every line that is driven is served: the runner comes back to read the     *)
(* next with the loop idle, or the run is over (runner.go drive, send).       *)
InputIsServed ==
  phase = "driving" ~> (phase = "reading" /\ state = "Idle") \/ phase = "stopped"

(* No checkpoint holds a call without its result (checkpoint.go: "every turn  *)
(* ended, no tool call outstanding").                                         *)
NoCallOutstanding ==
  \A cp \in store : \A i \in 1..Len(cp.messages) :
    cp.messages[i].calls # <<>> => Answers(cp.messages, i)

=============================================================================
