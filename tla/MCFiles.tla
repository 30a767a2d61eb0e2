------------------------------ MODULE MCFiles ------------------------------
(* The file tools over a small tree, and the diff over all small files.  They *)
(* share no state, so a behaviour is about one of them.                       *)
EXTENDS FileTools

MCRel ==
  {<<>>, <<"a">>, <<"b">>, <<"a", "b">>, <<".git">>, <<".git", "b">>, <<"..", "out", "b">>}
MCSpot == {Home \o <<"a">>, Home \o <<"b">>, Home \o <<"a", "b">>}
MCGoal == {<<"out">>, <<"out", "b">>, Home \o <<"a">>, Home \o <<".git">>}
Text(lines) == [lines |-> lines, ended |-> TRUE]
MCContent == {Text(<<"hit">>), Text(<<"hit", "plain", "hit">>), Text(<<"huge", "hit">>)}

MCRanges == {<<0, 0>>, <<0, 2>>, <<2, 0>>, <<2, 1>>, <<4, 1>>, <<-1, 0>>}

vars == <<diffVars, fileVars>>

Small == File({"x", "y"}, 5)
Empty == [lines |-> <<>>, ended |-> FALSE]

Init ==
  /\ FileInit
  /\ \/ edits = 0 /\ old = Empty /\ new = Empty
     \/ old \in Small /\ new \in Small /\ old # new
        /\ tree[<<"out", "b">>].content = Text(<<"hit">>) /\ Is(Home \o <<".git">>, "dir")

Next == old = new /\ FileNext /\ UNCHANGED diffVars

Spec == Init /\ [][Next]_vars
=============================================================================
