----------------------------- MODULE MCCompact -----------------------------
(* Module Compact on a small instance: conversations of three turns and four  *)
(* results, one of which may be empty, some shorter and some longer than a    *)
(* stub; the last turn may use an id of the first again, and a result may be  *)
(* without one, or stand before the first turn.                               *)
EXTENDS Compact

CONSTANTS a, b, c, d

MCCallID == {NoId, a, b, c, d}

Says(role, chars)   == [role |-> role, chars |-> chars, callID |-> NoId, calls |-> <<>>]
Calls(calls)        == [role |-> "assistant", chars |-> 0, callID |-> NoId, calls |-> calls]
Result(id, chars)   == [role |-> "tool", chars |-> chars, callID |-> id, calls |-> <<>>]
Call(id, args)      == [id |-> id, args |-> args]

Conversation(r1, r2, r3, r4, id3, id4, args) ==
  <<Says("system", 3),
    Says("user", 1), Calls(<<Call(a, 20)>>), Result(a, r1),
    Says("user", 1), Calls(<<Call(b, args), Call(id3, 20)>>), Result(b, r2), Result(id3, r3),
    Says("user", 1), Calls(<<Call(id4, 20)>>), Result(id4, r4)>>

Size == {4, 12, 30}

MCSources ==
  {[current |-> TRUE, messages |-> Conversation(r1, r2, r3, r4, id[1], id[2], args)] :
     r1 \in Size, r2 \in Size, r3 \in Size, r4 \in {0, 30},
     id \in {<<c, d>>, <<c, a>>, <<NoId, d>>}, args \in {2, 20}}
  \cup {[current |-> TRUE, messages |-> <<Result(a, 30)>> \o ms] :
           ms \in {<<Says("system", 60)>>, Conversation(30, 12, 30, 30, c, d, 20)}}
  \cup {[current |-> TRUE, messages |-> <<>>],
        [current |-> FALSE, messages |-> Conversation(12, 12, 12, 12, c, d, 2)]}

MCOptions ==
  [target : {0, 75, 110, 150}, head : {0, 1}, tail : {0, 1}, args : BOOLEAN, stub : {0}]
  \cup [target : {110}, head : {2, 3}, tail : {0, 3}, args : {TRUE}, stub : {15}]
=============================================================================
