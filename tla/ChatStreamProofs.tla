-------------------------- MODULE ChatStreamProofs --------------------------
(***************************************************************************)
(* A stream of any length, with frames of any number of calls, broken off  *)
(* or cancelled anywhere: it tells a bad end, and with an orderly gateway  *)
(* it implements the contract Runner.send relies on.                       *)
(***************************************************************************)
EXTENDS ChatStream, SequenceLemmas

Chunk == {"StreamUsage", "StreamText", "StreamReasoning", "StreamToolCall", "StreamDone", "StreamError"}

Event == [kind : {"ModelText", "ModelReasoning", "ModelToolCall", "ModelDone", "ModelError"}]

Told == Has(events, {"ModelDone"})

StreamTypeOK ==
  /\ pc \in {"calling", "refused", "scanning", "sending", "returned", "closed"}
  /\ chunks \in Seq(Chunk) /\ after \in {"scanning", "returned"}
  /\ sawDone \in BOOLEAN /\ cancelled \in BOOLEAN
  /\ events \in Seq(Event) /\ finished \in BOOLEAN

(* The scan stops at [DONE], at an error it has told or is about to tell, or  *)
(* because the caller cancelled.                                              *)
EndIsTold ==
  /\ pc \in {"returned", "closed"} /\ ~cancelled => sawDone \/ Has(events, {"ModelError"})
  /\ pc = "sending" /\ after = "returned" => chunks = <<"StreamError">> \/ Has(events, {"ModelError"})

(* The finish reason is the last chunk of its frame. *)
DoneIsLast(s) == \A i \in 1..Len(s) : s[i] = "StreamDone" => i = Len(s)

NoDone(s) == \A i \in 1..Len(s) : s[i] # "StreamDone"

(* Nothing more comes: what is on its way has been sent and the scan is over. *)
Over == pc \in {"refused", "returned", "closed"} \/ (pc = "sending" /\ chunks = <<>> /\ after = "returned")

(* What is on its way may follow what was collected. *)
KeepsOn ==
  /\ DoneIsLast(chunks)
  /\ ~NoDone(chunks) => finished /\ ~Told
  /\ Told => /\ finished
             /\ \A i \in 1..Len(chunks) :
                  chunks[i] = "StreamUsage" \/ (chunks = <<"StreamError">> /\ after = "returned")
             /\ ~Over => Last(events).kind = "ModelDone"

StreamInv == StreamTypeOK /\ EndIsTold

-----------------------------------------------------------------------------
(* Frames *)

(* Chunks one after the other. *)
LEMMA JoinChunks ==
  ASSUME NEW s \in Seq(Chunk), NEW t \in Seq(Chunk), NoDone(s), DoneIsLast(t)
  PROVE  s \o t \in Seq(Chunk) /\ DoneIsLast(s \o t) /\ (NoDone(t) => NoDone(s \o t))
<1> DEFINE u == s \o t
<1>1. u \in Seq(Chunk) /\ Len(u) = Len(s) + Len(t) /\ Len(s) \in Nat /\ Len(t) \in Nat
  OBVIOUS
<1>2. \A i \in 1..Len(u) : u[i] = IF i <= Len(s) THEN s[i] ELSE t[i - Len(s)]
  BY <1>1
<1> HIDE DEF u
<1>3. ASSUME NEW i \in 1..Len(u), u[i] = "StreamDone"
      PROVE  i = Len(u) /\ ~NoDone(t)
  <2>1. ~(i <= Len(s))
    BY <1>1, <1>2, <1>3 DEF NoDone
  <2>2. i - Len(s) \in 1..Len(t) /\ t[i - Len(s)] = "StreamDone"
    BY <1>1, <1>2, <1>3, <2>1
  <2>3. i - Len(s) = Len(t)
    BY <2>2 DEF DoneIsLast
  <2> QED BY <1>1, <2>2, <2>3 DEF NoDone
<1>4. DoneIsLast(u) /\ (NoDone(t) => NoDone(u))
  BY <1>3 DEF DoneIsLast, NoDone
<1> QED BY <1>1, <1>4 DEF u

(* A chunk that is sent or not. *)
LEMMA OptionalChunk ==
  ASSUME NEW b \in BOOLEAN, NEW c \in Chunk
  PROVE  /\ If(b, c) \in Seq(Chunk) /\ DoneIsLast(If(b, c))
         /\ (b /\ c = "StreamDone") \/ NoDone(If(b, c))
<1>1. CASE b
  <2>1. If(b, c) = <<c>>
    BY <1>1 DEF If
  <2>2. <<c>> \in Seq(Chunk) /\ Len(<<c>>) = 1 /\ <<c>>[1] = c
    OBVIOUS
  <2>3. \A i \in 1..Len(<<c>>) : i = 1
    BY <2>2
  <2>4. DoneIsLast(<<c>>)
    BY <2>2, <2>3 DEF DoneIsLast
  <2>5. c = "StreamDone" \/ NoDone(<<c>>)
    BY <2>2, <2>3 DEF NoDone
  <2> QED BY <1>1, <2>1, <2>2, <2>4, <2>5
<1>2. CASE ~b
  <2>1. If(b, c) = <<>>
    BY <1>2 DEF If
  <2> QED BY <2>1 DEF DoneIsLast, NoDone
<1> QED BY <1>1, <1>2

(* Calls of one frame. *)
LEMMA CallChunks ==
  ASSUME NEW n \in Nat
  PROVE  LET s == [i \in 1..n |-> "StreamToolCall"] IN s \in Seq(Chunk) /\ NoDone(s)
<1> DEFINE s == [i \in 1..n |-> "StreamToolCall"]
<1>1. s \in [1..n -> Chunk]
  BY DEF Chunk
<1>2. s \in Seq(Chunk) /\ Len(s) = n
  BY <1>1
<1> QED BY <1>2 DEF NoDone

(* emitDelta sends a finish reason last, and only if the gateway sent one. *)
LEMMA DeltaChunks ==
  ASSUME NEW f \in Frame
  PROVE  emitDelta(f) \in Seq(Chunk) /\ DoneIsLast(emitDelta(f)) /\ (f.finish \/ NoDone(emitDelta(f)))
<1> DEFINE part == {i \in 1..Len(f.calls) : f.calls[i] = "part"}
           whole(n) == [i \in 1..n |-> "StreamToolCall"]
<1>1. f.calls \in Seq({"whole", "part"}) /\ Len(f.calls) \in Nat
  <2>1. PICK m \in 0..MaxCalls : f.calls \in [1..m -> {"whole", "part"}]
    BY DEF Frame, BoundedSeq, SeqOf
  <2> QED BY <2>1, StreamAssumption
<1>2. f.finish \in BOOLEAN /\ f.text \in BOOLEAN /\ f.reasoning \in BOOLEAN
  BY DEF Frame
<1>3. CASE part # {}
  <2> DEFINE n == CHOOSE i \in part : \A j \in part : i <= j
  <2>1. part \in SUBSET Nat
    OBVIOUS
  <2>2. n \in part
    <3> HIDE DEF part
    <3> QED BY <1>3, <2>1, Least
  <2>3. n - 1 \in Nat
    BY <2>2
  <2>4. emitDelta(f) = whole(n - 1) \o <<"StreamError">>
    BY <1>3 DEF emitDelta
  <2> HIDE DEF n
  <2>5. whole(n - 1) \in Seq(Chunk) /\ NoDone(whole(n - 1))
    BY <2>3, CallChunks
  <2>6. <<"StreamError">> \in Seq(Chunk) /\ NoDone(<<"StreamError">>) /\ DoneIsLast(<<"StreamError">>)
    <3>1. "StreamError" \in Chunk /\ <<"StreamError">> = If(TRUE, "StreamError")
      BY DEF Chunk, If
    <3> QED BY <3>1, OptionalChunk
  <2> HIDE DEF whole
  <2> QED BY <2>4, <2>5, <2>6, JoinChunks
<1>4. CASE part = {}
  <2> DEFINE a == whole(Len(f.calls))
             b == If(f.reasoning, "StreamReasoning")
             c == If(f.text, "StreamText")
             d == If(f.finish, "StreamDone")
  <2>1. emitDelta(f) = ((a \o b) \o c) \o d
    BY <1>4 DEF emitDelta
  <2>2. a \in Seq(Chunk) /\ NoDone(a)
    BY <1>1, CallChunks
  <2>3. b \in Seq(Chunk) /\ NoDone(b) /\ DoneIsLast(b)
    BY <1>2, OptionalChunk DEF Chunk
  <2>4. c \in Seq(Chunk) /\ NoDone(c) /\ DoneIsLast(c)
    BY <1>2, OptionalChunk DEF Chunk
  <2>5. d \in Seq(Chunk) /\ DoneIsLast(d) /\ (f.finish \/ NoDone(d))
    BY <1>2, OptionalChunk DEF Chunk
  <2> HIDE DEF a, b, c, d
  <2>6. a \o b \in Seq(Chunk) /\ NoDone(a \o b)
    BY <2>2, <2>3, JoinChunks
  <2>7. (a \o b) \o c \in Seq(Chunk) /\ NoDone((a \o b) \o c)
    BY <2>4, <2>6, JoinChunks
  <2> QED BY <2>1, <2>5, <2>7, JoinChunks
<1> QED BY <1>3, <1>4

(* What a frame sends. *)
LEMMA FrameChunks ==
  ASSUME NEW f \in Frame
  PROVE  /\ ChunksOf(f) \in Seq(Chunk) /\ DoneIsLast(ChunksOf(f))
         /\ NoDone(ChunksOf(f)) \/ (f.finish /\ f.choices)
         /\ ~f.choices => \A i \in 1..Len(ChunksOf(f)) : ChunksOf(f)[i] = "StreamUsage"
<1> DEFINE u == If(f.usage, "StreamUsage")
<1>1. u \in Seq(Chunk) /\ NoDone(u) /\ f.usage \in BOOLEAN
  BY OptionalChunk DEF Chunk, Frame
<1>2. CASE f.choices
  <2>1. ChunksOf(f) = u \o emitDelta(f)
    BY <1>2 DEF ChunksOf
  <2> HIDE DEF u
  <2> QED BY <1>1, <1>2, <2>1, DeltaChunks, JoinChunks
<1>3. CASE ~f.choices
  <2>1. ChunksOf(f) = u \o <<>>
    BY <1>3 DEF ChunksOf
  <2>2. u \o <<>> = u
    <3> HIDE DEF u
    <3> QED BY <1>1
  <2>3. \A i \in 1..Len(u) : u[i] = "StreamUsage"
    BY <1>1 DEF If
  <2>4. DoneIsLast(u)
    BY <1>1 DEF NoDone, DoneIsLast
  <2> HIDE DEF u
  <2> QED BY <1>1, <1>3, <2>1, <2>2, <2>3, <2>4
<1> QED BY <1>1, <1>2, <1>3 DEF Frame

-----------------------------------------------------------------------------
(* A bad end *)

(* What one more event adds. *)
LEMMA AppendHas ==
  ASSUME NEW evs \in Seq(Event), NEW e \in Event, NEW k
  PROVE  /\ Append(evs, e) \in Seq(Event) /\ Last(Append(evs, e)) = e
         /\ Has(Append(evs, e), {k}) <=> Has(evs, {k}) \/ e.kind = k
<1> DEFINE t == Append(evs, e)
<1>1. /\ t \in Seq(Event) /\ Len(t) = Len(evs) + 1 /\ Len(evs) \in Nat
      /\ t[Len(evs) + 1] = e /\ \A i \in 1..Len(evs) : t[i] = evs[i]
  OBVIOUS
<1> HIDE DEF t
<1>2. /\ \A i \in 1..Len(t) : i \in 1..Len(evs) \/ i = Len(evs) + 1
      /\ Len(evs) + 1 \in 1..Len(t) /\ \A i \in 1..Len(evs) : i \in 1..Len(t)
  BY <1>1
<1>3. Has(t, {k}) <=> Has(evs, {k}) \/ e.kind = k
  BY <1>1, <1>2 DEF Has
<1>4. Last(t) = e
  BY <1>1 DEF Last
<1> QED BY <1>1, <1>3, <1>4 DEF t

(* Deliver moves the head of the chunks to the events, usage apart. *)
LEMMA Delivered ==
  ASSUME StreamTypeOK, Deliver
  PROVE  LET e == [kind |-> EventOf(Head(chunks))]
         IN  /\ pc = "sending" /\ chunks # <<>> /\ chunks' = Tail(chunks) /\ Head(chunks) \in Chunk
             /\ UNCHANGED <<pc, after, sawDone, cancelled, finished>>
             /\ Head(chunks) = "StreamUsage" => events' = events
             /\ Head(chunks) # "StreamUsage" =>
                  /\ e \in Event /\ events' = Append(events, e)
                  /\ e.kind = "ModelDone" <=> Head(chunks) = "StreamDone"
                  /\ e.kind = "ModelError" <=> Head(chunks) = "StreamError"
<1>1. pc = "sending" /\ chunks # <<>> /\ chunks' = Tail(chunks) /\ Head(chunks) \in Chunk
  BY DEF Deliver, StreamTypeOK
<1> QED
  BY <1>1 DEF Deliver, Collect, EventOf, Chunk, Event

(* An event once collected stays. *)
LEMMA EndIsToldStep == StreamInv /\ [Next]_vars => StreamInv'
<1> SUFFICES ASSUME StreamInv, [Next]_vars PROVE StreamInv'
  OBVIOUS
<1> USE DEF StreamInv
<1>1. CASE Refused \/ Accepted
  BY <1>1 DEF Refused, Accepted, StreamTypeOK, EndIsTold
<1>2. ASSUME NEW f \in Frame, ScanFrame(f) PROVE StreamInv'
  <2>1. ChunksOf(f) \in Seq(Chunk) /\ f.finish \in BOOLEAN
    BY FrameChunks DEF Frame
  <2>2. /\ chunks' = ChunksOf(f) /\ pc' = "sending" /\ after' = "scanning"
        /\ finished' = (finished \/ f.finish)
        /\ UNCHANGED <<sawDone, cancelled, events>>
    BY <1>2 DEF ScanFrame
  <2> QED BY <2>1, <2>2 DEF StreamTypeOK, EndIsTold
<1>3. CASE ScanDone
  BY <1>3 DEF ScanDone, StreamTypeOK, EndIsTold
<1>4. CASE ScanFails
  <2>1. <<"StreamError">> \in Seq(Chunk)
    BY DEF Chunk
  <2> QED BY <1>4, <2>1 DEF ScanFails, StreamTypeOK, EndIsTold
<1>5. CASE Deliver
  <2> DEFINE e == [kind |-> EventOf(Head(chunks))]
  <2>1. chunks \in Seq(Chunk) /\ events \in Seq(Event)
    BY DEF StreamTypeOK
  <2>2. chunks' \in Seq(Chunk)
    <3>1. chunks # <<>> /\ chunks' = Tail(chunks)
      BY <1>5, Delivered
    <3> QED BY <2>1, <3>1
  <2>3. events' \in Seq(Event) /\ (Has(events, {"ModelError"}) => Has(events', {"ModelError"}))
        /\ (Head(chunks) = "StreamError" => Has(events', {"ModelError"}))
    BY <1>5, <2>1, Delivered, AppendHas
  <2>4. pc = "sending" /\ UNCHANGED <<pc, after, sawDone, cancelled, finished>>
    BY <1>5, Delivered
  <2>5. chunks = <<"StreamError">> => Head(chunks) = "StreamError"
    OBVIOUS
  <2>6. EndIsTold'
    BY <2>3, <2>4, <2>5 DEF EndIsTold
  <2> QED BY <2>2, <2>3, <2>4, <2>6 DEF StreamTypeOK
<1>6. CASE SendCancelled
  BY <1>6 DEF SendCancelled, StreamTypeOK, EndIsTold
<1>7. CASE FrameSent
  <2>1. <<>> # <<"StreamError">>
    OBVIOUS
  <2> QED BY <1>7, <2>1 DEF FrameSent, StreamTypeOK, EndIsTold
<1>8. CASE CloseChannel
  BY <1>8 DEF CloseChannel, StreamTypeOK, EndIsTold
<1>9. CASE Cancel
  BY <1>9 DEF Cancel, StreamTypeOK, EndIsTold
<1>10. CASE UNCHANGED vars
  BY <1>10 DEF vars, StreamTypeOK, EndIsTold
<1> QED
  BY <1>1, <1>2, <1>3, <1>4, <1>5, <1>6, <1>7, <1>8, <1>9, <1>10 DEF Next, Goroutine

(* A stream starts with nothing collected. *)
LEMMA StreamStart == Init => StreamInv
<1> SUFFICES ASSUME Init PROVE StreamInv
  OBVIOUS
<1>1. <<>> \in Seq(Chunk) /\ <<>> \in Seq(Event)
  OBVIOUS
<1>2. StreamTypeOK
  BY <1>1 DEF Init, StreamTypeOK
<1>3. EndIsTold
  BY DEF Init, EndIsTold
<1> QED BY <1>2, <1>3 DEF StreamInv

(* For any frames, in any order the gateway may send them, and wherever the   *)
(* stream breaks: unless its reader cancelled, a channel that closes was      *)
(* ended by [DONE] or has told an error (stream.go scanSSE).                  *)
THEOREM BadEndsAreTold == Spec => []BadEndIsTold
<1>1. StreamInv => BadEndIsTold
  BY DEF StreamInv, EndIsTold, BadEndIsTold
<1> QED BY <1>1, StreamStart, EndIsToldStep, PTL DEF Spec

-----------------------------------------------------------------------------
(* The contract *)

(* With an orderly gateway, nothing but usage or the break of the stream      *)
(* comes after a finish reason.                                               *)
LEMMA KeepsOnStep ==
  ASSUME GatewayOrderly, StreamInv, KeepsOn, [Next]_vars
  PROVE  KeepsOn'
<1> USE DEF KeepsOn
<1>1. chunks \in Seq(Chunk) /\ events \in Seq(Event) /\ NoDone(<<>>) /\ DoneIsLast(<<>>)
  BY DEF StreamInv, StreamTypeOK, NoDone, DoneIsLast
<1>2. CASE Refused \/ Accepted
  BY <1>2 DEF Refused, Accepted, Told, Over
<1>3. ASSUME NEW f \in Frame, ScanFrame(f) PROVE KeepsOn'
  <2>1. /\ chunks' = ChunksOf(f) /\ pc = "scanning" /\ pc' = "sending"
        /\ finished' = (finished \/ f.finish) /\ (finished => ~f.choices)
        /\ UNCHANGED events /\ Told' = Told
    BY <1>3 DEF ScanFrame, GatewaySends, Told
  <2>2. NoDone(chunks') \/ (f.finish /\ ~finished)
    BY <2>1, FrameChunks
  <2>3. DoneIsLast(chunks')
    BY <2>1, FrameChunks
  <2>4. Told => \A i \in 1..Len(chunks') : chunks'[i] = "StreamUsage"
    BY <2>1, FrameChunks
  <2>5. Told => Last(events').kind = "ModelDone"
    BY <2>1 DEF Over
  <2> QED BY <2>1, <2>2, <2>3, <2>4, <2>5
<1>4. CASE ScanDone
  BY <1>4 DEF ScanDone, Told, Over
<1>5. CASE ScanFails
  <2>1. /\ chunks' = <<"StreamError">> /\ pc = "scanning" /\ after' = "returned"
        /\ UNCHANGED <<events, finished>> /\ Told' = Told
    BY <1>5 DEF ScanFails, Told
  <2>2. NoDone(<<"StreamError">>) /\ DoneIsLast(<<"StreamError">>)
    BY DEF NoDone, DoneIsLast
  <2>3. Told => Last(events').kind = "ModelDone"
    BY <2>1 DEF Over
  <2> QED BY <2>1, <2>2, <2>3
<1>6. CASE Deliver
  <2> DEFINE e == [kind |-> EventOf(Head(chunks))]
             h == Head(chunks)
  <2>1. /\ pc = "sending" /\ chunks # <<>> /\ chunks' = Tail(chunks) /\ h \in Chunk
        /\ UNCHANGED <<pc, after, finished>>
    BY <1>6, Delivered DEF StreamInv
  <2>2. h = "StreamUsage" => events' = events /\ Told' = Told
    BY <1>6, Delivered DEF StreamInv, Told
  <2>3. h # "StreamUsage" => /\ Told' <=> Told \/ h = "StreamDone"
                             /\ h = "StreamDone" => Last(events').kind = "ModelDone"
    BY <1>1, <1>6, Delivered, AppendHas DEF StreamInv, Told
  <2>4. /\ Len(chunks) \in Nat \ {0} /\ h = chunks[1] /\ Len(chunks') = Len(chunks) - 1
        /\ \A i \in 1..Len(chunks') : chunks'[i] = chunks[i + 1]
    BY <1>1, <2>1
  <2> HIDE DEF h, e
  <2>5. DoneIsLast(chunks') /\ (NoDone(chunks) => NoDone(chunks'))
    BY <2>4 DEF DoneIsLast, NoDone
  <2>6. h = "StreamDone" => /\ Len(chunks) = 1 /\ ~Told /\ finished /\ NoDone(chunks')
                            /\ \A i \in 1..Len(chunks') : FALSE
    <3> SUFFICES ASSUME h = "StreamDone"
                 PROVE  /\ Len(chunks) = 1 /\ ~Told /\ finished /\ NoDone(chunks')
                        /\ \A i \in 1..Len(chunks') : FALSE
      OBVIOUS
    <3>1. 1 \in 1..Len(chunks) /\ chunks[1] = "StreamDone"
      BY <2>4
    <3>2. Len(chunks) = 1
      BY <3>1 DEF DoneIsLast
    <3>3. ~NoDone(chunks)
      BY <3>1 DEF NoDone
    <3>4. \A i \in 1..Len(chunks') : FALSE
      BY <2>4, <3>2
    <3> QED BY <3>2, <3>3, <3>4 DEF NoDone
  <2>7. chunks = <<"StreamError">> => chunks' = <<>> /\ \A i \in 1..Len(chunks') : FALSE
    BY <2>1
  <2>8. Told => h = "StreamUsage" \/ (chunks = <<"StreamError">> /\ after = "returned")
    BY <2>4
  <2>9. ~NoDone(chunks') => finished' /\ ~Told'
    BY <2>1, <2>2, <2>3, <2>5, <2>6
  <2>10. CASE Told
    <3>1. finished' /\ \A i \in 1..Len(chunks') :
                         chunks'[i] = "StreamUsage" \/ (chunks' = <<"StreamError">> /\ after' = "returned")
      BY <2>1, <2>4, <2>7, <2>10
    <3>2. ~Over' => Last(events').kind = "ModelDone"
      BY <2>1, <2>2, <2>7, <2>8, <2>10 DEF Over
    <3> QED BY <2>5, <2>9, <3>1, <3>2
  <2>11. CASE ~Told
    BY <2>1, <2>2, <2>3, <2>5, <2>6, <2>9, <2>11
  <2> QED BY <2>10, <2>11
<1>7. CASE SendCancelled
  BY <1>7 DEF SendCancelled, Told, Over
<1>8. CASE FrameSent
  BY <1>8 DEF FrameSent, Told, Over, StreamInv, StreamTypeOK
<1>9. CASE CloseChannel
  BY <1>9 DEF CloseChannel, Told, Over
<1>10. CASE Cancel
  BY <1>10 DEF Cancel, Told, Over
<1>11. CASE UNCHANGED vars
  BY <1>11 DEF vars, Told, Over
<1> QED
  BY <1>2, <1>3, <1>4, <1>5, <1>6, <1>7, <1>8, <1>9, <1>10, <1>11 DEF Next, Goroutine

(* Every step of the goroutine delivers an event the contract allows, closes  *)
(* the channel, or is none of the contract's.                                 *)
LEMMA ContractStep ==
  ASSUME StreamInv, KeepsOn, [Next]_vars
  PROVE  [Contract!Next]_<<events, pc \notin {"refused", "closed"}>>
<1> DEFINE open == pc \notin {"refused", "closed"}
<1>1. CASE Refused \/ CloseChannel
  <2>1. open = TRUE /\ open' = FALSE /\ events' = events
    BY <1>1 DEF Refused, CloseChannel
  <2> QED BY <2>1 DEF Contract!Next, Contract!Close
<1>2. ASSUME open' = open, events' = events
      PROVE  [Contract!Next]_<<events, pc \notin {"refused", "closed"}>>
  BY <1>2
<1>3. CASE Deliver
  <2> DEFINE k == EventOf(Head(chunks))
  <2>1. pc = "sending" /\ pc' = pc
    BY <1>3 DEF Deliver
  <2>2. CASE Head(chunks) = "StreamUsage"
    BY <1>2, <1>3, <2>1, <2>2, Delivered DEF StreamInv
  <2>3. CASE Head(chunks) # "StreamUsage"
    <3>1. /\ [kind |-> k] \in Event /\ events' = Append(events, [kind |-> k])
          /\ k = "ModelError" <=> Head(chunks) = "StreamError"
          /\ chunks # <<>>
      BY <1>3, <2>3, Delivered DEF StreamInv
    <3>2. Head(chunks) = chunks[1] /\ 1 \in 1..Len(chunks)
      BY <3>1 DEF StreamInv, StreamTypeOK
    <3>3. Told => k = "ModelError" /\ Last(events).kind = "ModelDone"
      <4> SUFFICES ASSUME Told PROVE k = "ModelError" /\ Last(events).kind = "ModelDone"
        OBVIOUS
      <4>1. chunks = <<"StreamError">>
        BY <2>3, <3>2 DEF KeepsOn
      <4>2. ~Over
        BY <2>1, <3>1 DEF Over
      <4> QED BY <3>1, <4>1, <4>2 DEF KeepsOn
    <3> HIDE DEF k
    <3>4. k \in Contract!EventKind
      BY <3>1 DEF Event, Contract!EventKind
    <3>5. Contract!KeepsContract(events, [kind |-> k])
      <4>1. Contract!Has(events, {"ModelDone"}) <=> Told
        BY DEF Contract!Has, Told, Has
      <4>2. Contract!Last(events) = Last(events)
        BY DEF Contract!Last, Last
      <4> QED BY <3>3, <4>1, <4>2 DEF Contract!KeepsContract
    <3>6. Contract!Deliver([kind |-> k])
      BY <2>1, <3>1, <3>5 DEF Contract!Deliver
    <3> QED BY <3>4, <3>6 DEF Contract!Next
  <2> QED BY <2>2, <2>3
<1>4. CASE Accepted \/ ScanDone \/ ScanFails \/ SendCancelled \/ FrameSent \/ Cancel
  BY <1>2, <1>4 DEF Accepted, ScanDone, ScanFails, SendCancelled, FrameSent, Cancel, StreamInv, StreamTypeOK
<1>5. ASSUME NEW f \in Frame, ScanFrame(f) PROVE open' = open /\ events' = events
  BY <1>5 DEF ScanFrame
<1>6. CASE UNCHANGED vars
  BY <1>2, <1>6 DEF vars
<1> QED
  BY <1>1, <1>2, <1>3, <1>4, <1>5, <1>6 DEF Next, Goroutine

(* Behind an orderly gateway the streaming client implements the contract     *)
(* that Runner.send was proved and checked under, for streams of any length,  *)
(* wherever they break and whenever the caller cancels (stream.go ChatStream, *)
(* scanSSE, emitDelta).                                                       *)
THEOREM StreamImplementsContract ==
  ASSUME GatewayOrderly PROVE Spec => StreamKeepsContract
<1>1. Init => Contract!Init
  BY DEF Init, Contract!Init
<1>2. Init => KeepsOn
  BY DEF Init, KeepsOn, DoneIsLast, NoDone, Told, Has
<1>3. StreamInv /\ KeepsOn /\ [Next]_vars => KeepsOn'
  BY KeepsOnStep
<1>4. StreamInv /\ KeepsOn /\ [Next]_vars => [Contract!Next]_<<events, pc \notin {"refused", "closed"}>>
  BY ContractStep
<1> QED
  BY <1>1, <1>2, <1>3, <1>4, StreamStart, EndIsToldStep, PTL
     DEF Spec, StreamKeepsContract, Contract!Spec
=============================================================================
