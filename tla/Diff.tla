-------------------------------- MODULE Diff --------------------------------
(***************************************************************************)
(* pkg/agentloop/diff.go: the diff an operator is shown before a file is   *)
(* replaced.  A file is its lines and whether the last one is ended; the   *)
(* empty file has no lines.                                                *)
(***************************************************************************)
EXTENDS Integers, Sequences, SequencesExt, FiniteSetsExt

CONSTANTS diffContext,  \* unchanged lines shown around a change
          maxDiffLines  \* lines of a diff that are shown

ASSUME DiffAssumption == diffContext \in Nat /\ maxDiffLines \in Nat

File(Line, n) ==
  {f \in [lines : BoundedSeq(Line, n), ended : BOOLEAN] : f.lines = <<>> => ~f.ended}

splitLines(f) == f.lines

(* lcs: the table of lengths, filled from the end, and the walk through it. *)
lcs(a, b) ==
  LET Cell == (1..Len(a) + 1) \X (1..Len(b) + 1)
      table[c \in Cell] ==
        LET i == c[1]
            j == c[2]
        IN  IF i > Len(a) \/ j > Len(b) THEN 0
            ELSE IF a[i] = b[j] THEN table[<<i + 1, j + 1>>] + 1
            ELSE Max({table[<<i + 1, j>>], table[<<i, j + 1>>]})
      walk[c \in Cell] ==
        LET i == c[1]
            j == c[2]
        IN  IF i > Len(a) \/ j > Len(b) THEN <<>>
            ELSE IF a[i] = b[j] THEN <<a[i]>> \o walk[<<i + 1, j + 1>>]
            ELSE IF table[<<i + 1, j>>] >= table[<<i, j + 1>>] THEN walk[<<i + 1, j>>]
            ELSE walk[<<i, j + 1>>]
  IN  walk[<<1, 1>>]

Signed(sign, s) == [i \in 1..Len(s) |-> <<sign, s[i]>>]

(* Where c stands in s at or after i. *)
NextOf(s, i, c) == Min({k \in i..Len(s) : s[k] = c})

(* unifiedDiff's loop: up to each common line what was removed and added, and *)
(* the rest of both files after the last.                                     *)
Merge(acc, c, a, b) ==
  LET i == NextOf(a, acc.i, c)
      j == NextOf(b, acc.j, c)
  IN  [i |-> i + 1, j |-> j + 1,
       out |-> acc.out \o Signed("-", SubSeq(a, acc.i, i - 1))
                       \o Signed("+", SubSeq(b, acc.j, j - 1)) \o <<<<" ", c>>>>]

Merged(a, b) ==
  LET common == lcs(a, b)
      upTo[n \in 0..Len(common)] ==
        IF n = 0 THEN [i |-> 1, j |-> 1, out |-> <<>>] ELSE Merge(upTo[n - 1], common[n], a, b)
  IN  upTo[Len(common)]

(* Mutant of changes: what comes after the last common line is forgotten. *)
changesUpToCommon(old, new) == Merged(splitLines(old), splitLines(new)).out

changes(old, new) ==
  LET a == splitLines(old)
      b == splitLines(new)
      m == Merged(a, b)
  IN  m.out \o Signed("-", SubSeq(a, m.i, Len(a))) \o Signed("+", SubSeq(b, m.j, Len(b)))

IsChange(l) == l[1] # " "

(* A gap is marked only when something follows it. *)
trimContext(lines) ==
  LET keep == {i \in 1..Len(lines) :
                 \E k \in i - diffContext..i + diffContext : k \in 1..Len(lines) /\ IsChange(lines[k])}
      Gap(i) == IF i > 1 /\ i - 1 \notin keep THEN <<<<" ", "...">>>> ELSE <<>>
      upTo[n \in 0..Len(lines)] ==
        IF n = 0 THEN <<>>
        ELSE IF n \notin keep THEN upTo[n - 1]
        ELSE upTo[n - 1] \o Gap(n) \o <<lines[n]>>
  IN  upTo[Len(lines)]

(* The lines that carry one of these marks. *)
Marked(lines, marks) ==
  LET upTo[n \in 0..Len(lines)] ==
        IF n = 0 THEN <<>>
        ELSE IF lines[n][1] \in marks THEN Append(upTo[n - 1], lines[n]) ELSE upTo[n - 1]
  IN  upTo[Len(lines)]

render(lines) ==
  [added   |-> Len(Marked(lines, {"+"})),
   removed |-> Len(Marked(lines, {"-"})),
   shown   |-> SubSeq(lines, 1, Min({Len(lines), maxDiffLines})),
   cut     |-> Max({0, Len(lines) - maxDiffLines})]

NoDiff == [added |-> 0, removed |-> 0, shown |-> <<>>, cut |-> 0]

unifiedDiff(old, new) == IF old = new THEN NoDiff ELSE render(trimContext(changes(old, new)))

-----------------------------------------------------------------------------

VARIABLES old, new  \* the file as it is and as it is to be

diffVars == <<old, new>>

-----------------------------------------------------------------------------
(* Properties *)

(* One of the two files, as the diff tells it. *)
Side(lines, sign) ==
  LET side == Marked(lines, {" ", sign}) IN [i \in 1..Len(side) |-> side[i][2]]

(* The lines of a at K stand in b too, in the same order. *)
InBoth(K, a, b) ==
  \E f \in [K -> 1..Len(b)] :
    /\ \A i \in K : b[f[i]] = a[i]
    /\ \A i, j \in K : i < j => f[i] < f[j]

(* "The only property that matters is that every changed line appears"        *)
(* (diff.go:24): the lines kept and removed are the old file and those kept   *)
(* and added the new one, no diff has fewer changed lines, all of them        *)
(* survive the trimming of context, the counts are theirs, and a cut is said. *)
(* A change of nothing but the last line's end is the one that shows nothing. *)
DiffTellsTheChange ==
  LET lines == changes(old, new)
      d     == unifiedDiff(old, new)
      C(s)  == Marked(s, {"+", "-"})
  IN  /\ Side(lines, "-") = splitLines(old)
      /\ Side(lines, "+") = splitLines(new)
      /\ \A K \in SUBSET (1..Len(old.lines)) :
           Cardinality(K) > Len(Marked(lines, {" "})) => ~InBoth(K, splitLines(old), splitLines(new))
      /\ d.cut = 0 => C(d.shown) = C(lines)
      /\ IsPrefix(C(d.shown), C(lines))
      /\ d.added + d.removed = Len(C(lines))
      /\ d.added + d.removed = 0 <=> old.lines = new.lines
=============================================================================
