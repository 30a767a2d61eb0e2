------------------------------ MODULE Compact ------------------------------
(***************************************************************************)
(* pkg/agentloop/compact.go: Compact replaces the heaviest tool results of *)
(* a checkpoint, and if allowed the arguments of the calls that asked for  *)
(* them, by stubs until the conversation is under a target.  One step of   *)
(* the model is one iteration of one of its two loops.  The caller may     *)
(* compact again what it got back, with other options.                     *)
(*                                                                         *)
(* Texts are their lengths.  SHA-256 is not needed here: that the result   *)
(* is chained onto the source is the variable chain.                       *)
(***************************************************************************)
EXTENDS Integers, Sequences, SequencesExt, FiniteSetsExt

CONSTANTS CallID,         \* tool call ids
          NoId,           \* the empty one
          IdChars,        \* length of any other id
          NameChars,      \* length of a tool's name
          StubChars,      \* length of defaultCompactStub
          NoteChars,      \* length of the note behind a stub, without its number
          ArgsStubChars,  \* length of compactedArgs
          Sources,        \* checkpoints a caller may start from
          Options,        \* options it may ask for
          MaxRounds       \* bound: compactions of one conversation

ToolCall == [id : CallID, args : Nat]

Message == [role : {"system", "user", "assistant", "tool"}, chars : Nat, callID : CallID, calls : Seq(ToolCall)]

Checkpoint == [current : BOOLEAN, messages : Seq(Message)]

ASSUME CompactAssumption ==
  /\ NoId \in CallID
  /\ IdChars \in Nat \ {0} /\ NameChars \in Nat /\ StubChars \in Nat /\ NoteChars \in Nat /\ ArgsStubChars \in Nat
  /\ MaxRounds \in Nat
  /\ Sources \subseteq Checkpoint
  /\ Options \subseteq
       [target : Int, head : Nat, tail : Nat, args : BOOLEAN, stub : Nat]

VARIABLES
  chain,     \* the checkpoints, each chained onto the one before
  opt,       \* CompactOptions of the call in progress
  phase,     \* where Compact is
  msgs,      \* its copy of the messages
  todo,      \* eligible results not yet elided
  cur,       \* the running estimate
  gone,      \* elidedCallIDs
  at,        \* the message the second loop is at
  report     \* CompactReport

vars == <<chain, opt, phase, msgs, todo, cur, gone, at, report>>

-----------------------------------------------------------------------------
(* Weights *)

(* How many characters a number takes in the stub. *)
Digits[n \in Nat] == IF n < 10 THEN 1 ELSE Digits[n \div 10] + 1

(* The sum of a sequence of numbers. *)
Total(w) ==
  LET upTo[n \in 0..Len(w)] == IF n = 0 THEN 0 ELSE upTo[n - 1] + w[n]
  IN  upTo[Len(w)]

IdLen(id) == IF id = NoId THEN 0 ELSE IdChars

messageChars(m) ==
  m.chars + IdLen(m.callID)
    + Total([k \in 1..Len(m.calls) |-> IdLen(m.calls[k].id) + NameChars + m.calls[k].args])

conversationChars(ms) == Total([i \in 1..Len(ms) |-> messageChars(ms[i])])

-----------------------------------------------------------------------------
(* What may be elided *)

UsersUpTo(ms, i) == {j \in 1..i : ms[j].role = "user"}

(* Where the k-th user message is. *)
userAt(ms) ==
  LET users == UsersUpTo(ms, Len(ms))
  IN  [k \in 1..Cardinality(users) |-> CHOOSE i \in users : Cardinality(UsersUpTo(ms, i)) = k]

(* The first message of the protected tail. *)
tailStart(ms, keepTail) ==
  LET u == userAt(ms)
  IN  IF keepTail > 0 /\ u # <<>>
      THEN u[Len(u) - Min({keepTail, Len(u)}) + 1] ELSE Len(ms) + 1

(* Mutant of headEnd: the last turn of the head is given away. *)
headEndShort(ms, keepHead, keepTail) ==
  LET u == userAt(ms)
  IN  IF keepHead = 0 \/ u = <<>> THEN 1
      ELSE IF keepHead >= Len(u) THEN tailStart(ms, keepTail) ELSE u[keepHead]

(* The first message behind the protected head. *)
headEnd(ms, keepHead, keepTail) ==
  LET u == userAt(ms)
  IN  IF keepHead = 0 \/ u = <<>> THEN 1
      ELSE IF keepHead >= Len(u) THEN tailStart(ms, keepTail) ELSE u[keepHead + 1]

eligibleToolResults(ms, keepHead, keepTail) ==
  {i \in headEnd(ms, keepHead, keepTail)..(tailStart(ms, keepTail) - 1) :
     ms[i].role = "tool" /\ ms[i].chars > 0}

(* Mutant of Heaviest: the lightest goes first. *)
Lightest(S) ==
  CHOOSE i \in S : \A j \in S \ {i} :
    \/ messageChars(msgs[i]) < messageChars(msgs[j])
    \/ messageChars(msgs[i]) = messageChars(msgs[j]) /\ i < j

(* The order of the sort: heaviest first, ties by index. *)
Heaviest(S) ==
  CHOOSE i \in S : \A j \in S \ {i} :
    \/ messageChars(msgs[i]) > messageChars(msgs[j])
    \/ messageChars(msgs[i]) = messageChars(msgs[j]) /\ i < j

-----------------------------------------------------------------------------

(* stubResult: the elided length is part of the stub. *)
stubResult(m) ==
  [m EXCEPT !.chars = (IF opt.stub = 0 THEN StubChars ELSE opt.stub) + NoteChars + Digits[m.chars]]

Stubs(tc) == tc.id \in gone /\ tc.args > ArgsStubChars

stubCallArgs(m) ==
  [m EXCEPT !.calls = [i \in DOMAIN m.calls |->
     IF Stubs(m.calls[i]) THEN [m.calls[i] EXCEPT !.args = ArgsStubChars] ELSE m.calls[i]]]

(* Mutant of Saved: what the stub itself takes is forgotten. *)
SavedGross(m) ==
  Total([k \in 1..Len(m.calls) |-> IF Stubs(m.calls[k]) THEN m.calls[k].args ELSE 0])

Saved(m) ==
  Total([k \in 1..Len(m.calls) |-> IF Stubs(m.calls[k]) THEN m.calls[k].args - ArgsStubChars ELSE 0])

-----------------------------------------------------------------------------

src == Last(chain)

Init ==
  /\ \E cp \in Sources : chain = <<cp>>
  /\ opt = [target |-> 0, head |-> 0, tail |-> 0, args |-> FALSE, stub |-> 0]
  /\ phase = "idle"
  /\ msgs = <<>> /\ todo = {} /\ cur = 0 /\ gone = {} /\ at = 1
  /\ report = [before |-> 0, after |-> 0, elided |-> 0, fit |-> FALSE]

(* RestoreCheckpoint, and Compact before it starts, refuse another version    *)
(* and an empty conversation.                                                 *)
Restorable(cp) == cp.current /\ cp.messages # <<>>

Refuse(o) ==
  /\ phase = "idle" /\ ~Restorable(src)
  /\ UNCHANGED vars

(* rechained: same turn, the compacted messages, behind the source. *)
rechained(ms) == chain' = Append(chain, [src EXCEPT !.messages = ms])

Enough(o) == o.target <= 0 \/ conversationChars(src.messages) <= o.target

NothingToDo(o) ==
  /\ phase = "idle" /\ Len(chain) <= MaxRounds /\ Restorable(src)
  /\ Enough(o)
  /\ LET before == conversationChars(src.messages)
     IN  report' = [before |-> before, after |-> before, elided |-> 0, fit |-> TRUE]
  /\ opt' = o
  /\ rechained(src.messages)
  /\ UNCHANGED <<phase, msgs, todo, cur, gone, at>>

Begin(o) ==
  /\ phase = "idle" /\ Len(chain) <= MaxRounds /\ Restorable(src)
  /\ ~Enough(o)
  /\ opt' = o /\ phase' = "results"
  /\ msgs' = src.messages
  /\ todo' = eligibleToolResults(src.messages, o.head, o.tail)
  /\ cur' = conversationChars(src.messages)
  /\ gone' = {} /\ at' = 1
  /\ report' = [before |-> cur', after |-> cur', elided |-> 0, fit |-> FALSE]
  /\ UNCHANGED chain

Over == cur > opt.target

(* Mutant of MoreResults: the loop never looks at the target. *)
AnyResults == phase = "results" /\ todo # {}

(* The first loop goes on. *)
MoreResults == phase = "results" /\ todo # {} /\ Over

ElideResult ==
  /\ MoreResults
  /\ LET i == Heaviest(todo)
     IN  /\ msgs' = [msgs EXCEPT ![i] = stubResult(@)]
         /\ cur' = cur - (messageChars(msgs[i]) - messageChars(msgs'[i]))
         /\ gone' = gone \cup ({msgs[i].callID} \ {NoId})
         /\ todo' = todo \ {i}
  /\ report' = [report EXCEPT !.elided = @ + 1]
  /\ UNCHANGED <<chain, opt, phase, at>>

(* The first loop did not get under the target, and arguments may go too. *)
BeginArgs ==
  /\ phase = "results" /\ ~MoreResults /\ opt.args /\ Over
  /\ phase' = "args"
  /\ UNCHANGED <<chain, opt, msgs, todo, cur, gone, at, report>>

StubArgs ==
  /\ phase = "args" /\ Over /\ at <= Len(msgs)
  /\ LET saved == IF msgs[at].role = "assistant" THEN Saved(msgs[at]) ELSE 0
     IN  /\ msgs' = IF saved > 0 THEN [msgs EXCEPT ![at] = stubCallArgs(@)] ELSE msgs
         /\ cur' = cur - saved
         /\ report' = [report EXCEPT !.elided = IF saved > 0 THEN @ + 1 ELSE @]
  /\ at' = at + 1
  /\ UNCHANGED <<chain, opt, phase, todo, gone>>

Finish ==
  /\ \/ phase = "results" /\ ~MoreResults /\ ~(opt.args /\ Over)
     \/ phase = "args" /\ (~Over \/ at > Len(msgs))
  /\ LET after == conversationChars(msgs)
     IN  report' = [report EXCEPT !.after = after, !.fit = (after <= opt.target)]
  /\ rechained(msgs)
  /\ phase' = "idle"
  /\ UNCHANGED <<opt, msgs, todo, cur, gone, at>>

Next ==
  \/ \E o \in Options : Refuse(o) \/ NothingToDo(o) \/ Begin(o)
  \/ ElideResult \/ BeginArgs \/ StubArgs \/ Finish

Spec == Init /\ [][Next]_vars

-----------------------------------------------------------------------------
(* Properties *)

Working == phase # "idle"

(* A message's turn, and the turns a caller asked to keep, as a person counts *)
(* them: by user messages.  What comes before the first is in no turn.        *)
TurnOf(ms, i) == Cardinality(UsersUpTo(ms, i))

Protected(ms, i) ==
  /\ TurnOf(ms, i) > 0
  /\ \/ TurnOf(ms, i) <= opt.head
     \/ TurnOf(ms, i) > TurnOf(ms, Len(ms)) - opt.tail

Elided == eligibleToolResults(src.messages, opt.head, opt.tail) \ todo

(* Nothing but re-derivable material goes: what the user and the model said   *)
(* and every message of a turn the caller protects keep their text, no        *)
(* message disappears or changes hands, and a call loses its arguments only   *)
(* when a result under its id is gone (compact.go: the conversation stays     *)
(* well-formed; a provider that uses an id twice loses both arguments).       *)
OnlyReDerivable ==
  Working =>
    /\ Len(msgs) = Len(src.messages)
    /\ \A i \in 1..Len(msgs) :
         LET old == src.messages[i] new == msgs[i]
         IN  /\ new.role = old.role /\ new.callID = old.callID
             /\ new.chars # old.chars => old.role = "tool" /\ ~Protected(src.messages, i)
             /\ DOMAIN new.calls = DOMAIN old.calls
             /\ \A k \in DOMAIN old.calls :
                  /\ new.calls[k].id = old.calls[k].id
                  /\ new.calls[k].args # old.calls[k].args =>
                       \E j \in Elided : msgs[j].callID = old.calls[k].id

(* No more results go than the target needs, and the heaviest go first: each  *)
(* one that is gone was at least as heavy as each one that is left, and with  *)
(* the lightest of them put back the conversation is over the target.         *)
NoMoreThanNeeded ==
  phase = "results" =>
    LET old == src.messages
    IN  /\ \A i \in Elided, j \in todo : messageChars(old[i]) >= messageChars(old[j])
        /\ Elided # {} =>
             \E i \in Elided : conversationChars([msgs EXCEPT ![i] = old[i]]) > opt.target

(* A conversation reported as not fitting has nothing left to give: every     *)
(* result of a turn that is not protected is a stub, and so are the arguments *)
(* of their calls where the caller allowed it (CompactReport.Fit).            *)
UnfitIsExhausted ==
  phase = "idle" /\ Len(chain) > 1 /\ ~report.fit =>
    LET old == chain[Len(chain) - 1].messages
    IN  \A i \in 1..Len(msgs) :
          /\ old[i].role = "tool" /\ old[i].chars > 0 /\ TurnOf(old, i) > 0 /\ ~Protected(old, i)
               => msgs[i] = stubResult(old[i])
          /\ opt.args /\ msgs[i].role = "assistant"
               => \A k \in DOMAIN msgs[i].calls : ~Stubs(msgs[i].calls[k])

(* What a result weighs besides its text. *)
Wrapping(m) == messageChars(m) - m.chars

(* A stub longer than the result it replaces makes the conversation heavier:  *)
(* with results that are wrapped alike, that happens only where results alone *)
(* cannot reach the target, never on the way to a conversation that fits.     *)
GrowsOnlyInVain ==
  /\ phase = "results"
  /\ \A i, j \in Elided \cup todo : Wrapping(src.messages[i]) = Wrapping(src.messages[j])
  /\ \E i \in Elided : msgs[i].chars > src.messages[i].chars
  => Over
=============================================================================
