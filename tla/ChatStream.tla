----------------------------- MODULE ChatStream -----------------------------
(***************************************************************************)
(* pkg/aigateway/stream.go: ChatStream starts a goroutine that scans the   *)
(* gateway's frames (scanSSE), turns each into chunks (emitDelta) and      *)
(* hands them over an unbuffered channel (send), until the stream ends,    *)
(* breaks or the context is cancelled; the channel then closes.  The       *)
(* reader is Runner.send of pkg/agentloop/runner.go, which collects the    *)
(* chunks as events.                                                       *)
(*                                                                         *)
(* The gateway and the transport are the environment.  Blank lines and     *)
(* lines that are no data change nothing and are left out; of a tool call  *)
(* only whether its arguments are complete JSON is kept.                   *)
(***************************************************************************)
EXTENDS StreamEvents, Integers

CONSTANTS GatewayOrderly,  \* the gateway sends nothing but usage after a finish reason
          MaxCalls,        \* bound: tool calls in one frame
          MaxFrames        \* bound: frames in one stream

ASSUME StreamAssumption ==
  GatewayOrderly \in BOOLEAN /\ MaxCalls \in Nat /\ MaxFrames \in Nat

VARIABLES
  pc,         \* where the goroutine is
  chunks,     \* chunks of the current frame still to be sent
  after,      \* where it goes once they are
  sawDone,    \* scanSSE: [DONE] was read
  cancelled,  \* ctx.Done() is closed
  reading,    \* whether somebody receives from the channel
  events,     \* Runner.send: what was collected
  frames,     \* history: frames scanned
  finished    \* history: the gateway sent a finish reason

vars == <<pc, chunks, after, sawDone, cancelled, reading, events, frames, finished>>

-----------------------------------------------------------------------------
(* One frame.  choices says whether it has any; what it carries is that of    *)
(* its first choice.                                                          *)
Frame == [usage : BOOLEAN, choices : BOOLEAN, calls : BoundedSeq({"whole", "part"}, MaxCalls),
          reasoning : BOOLEAN, text : BOOLEAN, finish : BOOLEAN]

(* A frame without choices carries nothing else. *)
WellFormed(f) ==
  f.choices \/ (f.calls = <<>> /\ ~f.reasoning /\ ~f.text /\ ~f.finish)

If(b, chunk) == IF b THEN <<chunk>> ELSE <<>>

(* Mutant of emitDelta: the finish reason goes out before the text. *)
emitFinishFirst(f) ==
  [i \in 1..Len(f.calls) |-> "StreamToolCall"] \o If(f.finish, "StreamDone")
    \o If(f.reasoning, "StreamReasoning") \o If(f.text, "StreamText")

(* emitDelta: an incomplete call is an error, and ends the frame but not the  *)
(* scan.                                                                      *)
emitDelta(f) ==
  LET part == {i \in 1..Len(f.calls) : f.calls[i] = "part"}
      whole(n) == [i \in 1..n |-> "StreamToolCall"]
  IN  IF part # {}
      THEN whole((CHOOSE i \in part : \A j \in part : i <= j) - 1) \o <<"StreamError">>
      ELSE whole(Len(f.calls)) \o If(f.reasoning, "StreamReasoning")
             \o If(f.text, "StreamText") \o If(f.finish, "StreamDone")

(* The usage is read before the frame without choices is skipped. *)
ChunksOf(f) == If(f.usage, "StreamUsage") \o (IF f.choices THEN emitDelta(f) ELSE <<>>)

-----------------------------------------------------------------------------

Init ==
  /\ pc = "calling"
  /\ chunks = <<>> /\ after = "scanning"
  /\ sawDone = FALSE /\ cancelled = FALSE /\ reading = TRUE
  /\ events = <<>> /\ frames = 0 /\ finished = FALSE

(* newRequest, the transport or the status refused: an error, no channel. *)
Refused ==
  /\ pc = "calling"
  /\ pc' = "refused"
  /\ UNCHANGED <<chunks, after, sawDone, cancelled, reading, events, frames, finished>>

Accepted ==
  /\ pc = "calling"
  /\ pc' = "scanning"
  /\ UNCHANGED <<chunks, after, sawDone, cancelled, reading, events, frames, finished>>

(* What the gateway may send next. *)
GatewaySends(f) == GatewayOrderly /\ finished => ~f.choices

ScanFrame(f) ==
  /\ pc = "scanning" /\ frames < MaxFrames
  /\ WellFormed(f) /\ GatewaySends(f)
  /\ chunks' = ChunksOf(f)
  /\ pc' = "sending" /\ after' = "scanning"
  /\ frames' = frames + 1
  /\ finished' = (finished \/ f.finish)
  /\ UNCHANGED <<sawDone, cancelled, reading, events>>

(* [DONE] *)
ScanDone ==
  /\ pc = "scanning"
  /\ sawDone' = TRUE
  /\ pc' = "returned"
  /\ UNCHANGED <<chunks, after, cancelled, reading, events, frames, finished>>

(* Mutant of ScanFails: a stream that stops is a stream that ended. *)
ScanStopsQuietly ==
  /\ pc = "scanning"
  /\ chunks' = <<>>
  /\ pc' = "sending" /\ after' = "returned"
  /\ UNCHANGED <<sawDone, cancelled, reading, events, frames, finished>>

(* A frame that does not parse, an error frame, a broken transport, or the    *)
(* end without [DONE]: one error chunk, and the scan is over.                 *)
ScanFails ==
  /\ pc = "scanning"
  /\ chunks' = <<"StreamError">>
  /\ pc' = "sending" /\ after' = "returned"
  /\ UNCHANGED <<sawDone, cancelled, reading, events, frames, finished>>

(* Runner.send's switch on the chunk; usage goes to OnUsage and is no event. *)
EventOf(chunk) ==
  CASE chunk = "StreamText" -> "ModelText"         [] chunk = "StreamReasoning" -> "ModelReasoning"
    [] chunk = "StreamToolCall" -> "ModelToolCall" [] chunk = "StreamDone" -> "ModelDone"
    [] chunk = "StreamError" -> "ModelError"

Collect(chunk) ==
  events' = IF chunk = "StreamUsage" THEN events
            ELSE Append(events, [kind |-> EventOf(chunk)])

(* send: the reader takes the chunk... *)
Deliver ==
  /\ pc = "sending" /\ chunks # <<>> /\ reading
  /\ Collect(Head(chunks))
  /\ chunks' = Tail(chunks)
  /\ UNCHANGED <<pc, after, sawDone, cancelled, reading, frames, finished>>

(* Mutant of SendCancelled: send waits for the reader alone. *)
NeverCancelled == FALSE /\ UNCHANGED vars

(* ...or the context is done: either may win when both can. *)
SendCancelled ==
  /\ pc = "sending" /\ chunks # <<>> /\ cancelled
  /\ pc' = "returned"
  /\ UNCHANGED <<chunks, after, sawDone, cancelled, reading, events, frames, finished>>

FrameSent ==
  /\ pc = "sending" /\ chunks = <<>>
  /\ pc' = after
  /\ UNCHANGED <<chunks, after, sawDone, cancelled, reading, events, frames, finished>>

(* The goroutine's defers: the body, then the channel. *)
CloseChannel ==
  /\ pc = "returned"
  /\ pc' = "closed"
  /\ UNCHANGED <<chunks, after, sawDone, cancelled, reading, events, frames, finished>>

(* The caller cancels, and may stop reading when it does. *)
Cancel ==
  /\ ~cancelled
  /\ cancelled' = TRUE
  /\ reading' \in BOOLEAN
  /\ UNCHANGED <<pc, chunks, after, sawDone, events, frames, finished>>

-----------------------------------------------------------------------------

(* The goroutine.  The gateway ends every stream: MaxFrames is its bound. *)
Goroutine ==
  \/ \E f \in Frame : ScanFrame(f)
  \/ ScanDone \/ ScanFails
  \/ Deliver \/ SendCancelled \/ FrameSent \/ CloseChannel

Next == Refused \/ Accepted \/ Goroutine \/ Cancel

Spec == Init /\ [][Next]_vars

FairSpec == Spec /\ WF_vars(Goroutine)

-----------------------------------------------------------------------------
(* Properties *)

Contract == INSTANCE StreamContract
              WITH delivered <- events, open <- pc \notin {"refused", "closed"}

(* With a gateway that is done once it gave its finish reason, what Runner    *)
(* collects keeps the contract it was checked under, however frames pack      *)
(* their calls, text and finish reason, wherever the stream breaks and        *)
(* whenever the caller cancels.                                               *)
StreamKeepsContract == Contract!Spec

(* Nobody mistakes a stream that ended badly for one that ended: unless the   *)
(* caller itself cancelled, a channel that closes was ended by [DONE] or has  *)
(* delivered an error (stream.go ChatStream: "ended" and "ended badly").      *)
BadEndIsTold ==
  pc = "closed" /\ ~cancelled => sawDone \/ Has(events, {"ModelError"})

(* The channel always closes: a reader that ranges over it is released, and   *)
(* the goroutine of one that cancels and walks away is not leaked.            *)
ChannelCloses == pc = "scanning" ~> pc = "closed"
=============================================================================
