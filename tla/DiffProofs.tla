----------------------------- MODULE DiffProofs -----------------------------
(***************************************************************************)
(* Proofs about the diff an operator is shown: that it tells the change    *)
(* between any two files.                                                  *)
(***************************************************************************)
EXTENDS Diff, SequenceLemmas, SequenceTheorems

-----------------------------------------------------------------------------
(* Marked lines *)

Picks(u, lines, marks) ==
  /\ u[0] = <<>>
  /\ \A n \in 1..Len(lines) :
       u[n] = IF lines[n][1] \in marks THEN Append(u[n - 1], lines[n]) ELSE u[n - 1]

(* Marked goes through the lines one by one. *)
LEMMA MarkedIs ==
  ASSUME NEW L, NEW lines \in Seq(L), NEW marks
  PROVE  \E u \in [0..Len(lines) -> Seq(L)] :
           Marked(lines, marks) = u[Len(lines)] /\ Picks(u, lines, marks)
<1> DEFINE N == Len(lines)
           step == [n \in 1..N |-> [x \in Seq(L) |-> IF lines[n][1] \in marks THEN Append(x, lines[n]) ELSE x]]
           Eq(f) == f = [n \in 0..N |->
                       IF n = 0 THEN <<>>
                       ELSE IF lines[n][1] \in marks THEN Append(f[n - 1], lines[n]) ELSE f[n - 1]]
           up == CHOOSE f : Eq(f)
<1>1. N \in Nat /\ \A n \in 1..N : lines[n] \in L
  OBVIOUS
<1>2. Marked(lines, marks) = up[N]
  BY DEF Marked
<1> HIDE DEF N
<1>3. <<>> \in Seq(L) /\ step \in [1..N -> [Seq(L) -> Seq(L)]]
  BY <1>1
<1>4. PICK f : StepsIn(f, step, <<>>, N, Seq(L))
  <2> HIDE DEF step
  <2> QED BY <1>1, <1>3, Iterates
<1>5. Eq(f)
  <2>1. \A n \in 1..N : f[n] = IF lines[n][1] \in marks THEN Append(f[n - 1], lines[n]) ELSE f[n - 1]
    <3> TAKE n \in 1..N
    <3>0. n - 1 \in 0..N
      BY <1>1
    <3>1. f[n - 1] \in Seq(L)
      BY <1>4, <3>0 DEF StepsIn
    <3>2. f[n] = step[n][f[n - 1]]
      BY <1>4 DEF StepsIn, Steps
    <3> QED BY <3>1, <3>2
  <2>2. \A n \in 0..N : n = 0 \/ n \in 1..N
    BY <1>1
  <2>3. f \in [0..N -> Seq(L)] /\ f[0] = <<>>
    BY <1>4 DEF StepsIn, Steps
  <2> HIDE DEF step
  <2> QED BY <2>1, <2>2, <2>3
<1>6. Eq(up)
  BY <1>5
<1> HIDE DEF up
<1>7. /\ DOMAIN up = 0..N /\ up[0] = <<>>
      /\ \A n \in 1..N : up[n] = IF lines[n][1] \in marks THEN Append(up[n - 1], lines[n]) ELSE up[n - 1]
  <2>1. \A n \in 0..N : up[n] = IF n = 0 THEN <<>>
                       ELSE IF lines[n][1] \in marks THEN Append(up[n - 1], lines[n]) ELSE up[n - 1]
    BY <1>6
  <2>2. \A n \in 1..N : n \in 0..N /\ n # 0
    BY <1>1
  <2>3. 0 \in 0..N /\ DOMAIN up = 0..N
    BY <1>1, <1>6
  <2> HIDE DEF Eq
  <2> QED BY <2>1, <2>2, <2>3
<1>8. \A n \in 0..N : up[n] \in Seq(L)
  <2> DEFINE T == {n \in 0..N : up[n] \in Seq(L)}
  <2> HIDE DEF step, Eq
  <2>1. 0 \in T
    <3>1. 0 \in 0..N
      BY <1>1
    <3> QED BY <1>3, <1>7, <3>1
  <2>2. ASSUME NEW n \in 1..N, n - 1 \in T PROVE n \in T
    <3>1. n \in 0..N /\ lines[n] \in L /\ up[n - 1] \in Seq(L)
      BY <1>1, <2>2
    <3>2. Append(up[n - 1], lines[n]) \in Seq(L)
      BY <3>1
    <3> QED BY <1>7, <3>1, <3>2
  <2>3. \A n \in 0..N : n \in T
    <3> HIDE DEF T
    <3> QED BY <1>1, <2>1, <2>2, Upwards
  <2> QED BY <2>3
<1>9. up \in [0..N -> Seq(L)]
  <2>1. up = [n \in 0..N |-> up[n]]
    BY <1>6
  <2> QED BY <1>8, <2>1
<1> QED BY <1>2, <1>7, <1>9 DEF N, Picks

(* They are lines, *)
LEMMA MarkedType ==
  ASSUME NEW L, NEW lines \in Seq(L), NEW marks
  PROVE  Marked(lines, marks) \in Seq(L)
<1>1. PICK u \in [0..Len(lines) -> Seq(L)] : Marked(lines, marks) = u[Len(lines)]
  BY MarkedIs
<1>2. Len(lines) \in 0..Len(lines)
  OBVIOUS
<1> QED BY <1>1, <1>2

(* none of no lines, *)
LEMMA MarkedOfNone ==
  ASSUME NEW marks
  PROVE  Marked(<<>>, marks) = <<>>
<1>1. <<>> \in Seq({}) /\ Len(<<>>) = 0
  OBVIOUS
<1>2. PICK u \in [0..Len(<<>>) -> Seq({})] : Marked(<<>>, marks) = u[Len(<<>>)] /\ Picks(u, <<>>, marks)
  BY <1>1, MarkedIs
<1> QED BY <1>1, <1>2 DEF Picks

(* and one line more may be one more. *)
LEMMA MarkedAppend ==
  ASSUME NEW L, NEW s \in Seq(L), NEW l \in L, NEW marks
  PROVE  Marked(Append(s, l), marks) =
           IF l[1] \in marks THEN Append(Marked(s, marks), l) ELSE Marked(s, marks)
<1> DEFINE N == Len(s) t == Append(s, l)
<1>1. t \in Seq(L) /\ Len(t) = N + 1 /\ t[N + 1] = l /\ N \in Nat /\ \A n \in 1..N : t[n] = s[n]
  OBVIOUS
<1> HIDE DEF t
<1>2. PICK u \in [0..Len(t) -> Seq(L)] : Marked(t, marks) = u[Len(t)] /\ Picks(u, t, marks)
  BY <1>1, MarkedIs
<1>3. PICK v \in [0..N -> Seq(L)] : Marked(s, marks) = v[N] /\ Picks(v, s, marks)
  BY MarkedIs
<1> DEFINE T == {n \in 0..N : u[n] = v[n]}
<1>4. 0 \in T
  BY <1>1, <1>2, <1>3 DEF Picks
<1>5. ASSUME NEW n \in 1..N, n - 1 \in T PROVE n \in T
  <2>1. n \in 1..Len(t) /\ t[n] = s[n] /\ u[n - 1] = v[n - 1] /\ n \in 0..N
    BY <1>1, <1>5
  <2>2. u[n] = IF t[n][1] \in marks THEN Append(u[n - 1], t[n]) ELSE u[n - 1]
    BY <1>2, <2>1 DEF Picks
  <2>3. v[n] = IF s[n][1] \in marks THEN Append(v[n - 1], s[n]) ELSE v[n - 1]
    BY <1>3 DEF Picks
  <2> QED BY <2>1, <2>2, <2>3
<1>6. u[N] = v[N]
  <2>1. N \in 0..N
    BY <1>1
  <2>2. N \in T
    <3> HIDE DEF T, N
    <3> QED BY <1>1, <1>4, <1>5, <2>1, Upwards
  <2> QED BY <2>2
<1>7. u[N + 1] = IF t[N + 1][1] \in marks THEN Append(u[N], t[N + 1]) ELSE u[N]
  <2>1. N + 1 \in 1..Len(t) /\ N + 1 - 1 = N
    BY <1>1
  <2> QED BY <1>2, <2>1 DEF Picks
<1> QED BY <1>1, <1>2, <1>3, <1>6, <1>7 DEF t

(* What holds of the empty sequence, and of a longer one when of a shorter,   *)
(* holds of all.                                                              *)
LEMMA Lengthwise ==
  ASSUME NEW L, NEW T, <<>> \in T, \A s \in Seq(L), l \in L : s \in T => Append(s, l) \in T
  PROVE  \A s \in Seq(L) : s \in T
<1> SUFFICES ASSUME NEW s \in Seq(L) PROVE s \in T
  OBVIOUS
<1> DEFINE N == Len(s)
           pre(n) == SubSeq(s, 1, n)
           R == {n \in 0..N : pre(n) \in T}
<1>1. N \in Nat
  OBVIOUS
<1>2. 0 \in R
  <2>1. pre(0) = <<>>
    BY SubSeqEmpty
  <2> HIDE DEF pre
  <2> QED BY <1>1, <2>1
<1>3. ASSUME NEW n \in 1..N, n - 1 \in R PROVE n \in R
  <2>1. SubSeq(s, 1, n - 1) \in Seq(L) /\ s[n] \in L /\ SubSeq(s, 1, n - 1) \in T
    BY <1>3
  <2>2. SubSeq(s, 1, n) = Append(SubSeq(s, 1, n - 1), s[n])
    <3>1. SubSeq(s, 1, n) = SubSeq(s, 1, n - 1) \o <<s[n]>>
      BY <1>1, <1>3, SubSeqRecursiveSecond
    <3> QED BY <2>1, <3>1, AppendIsConcat
  <2>3. pre(n) \in T
    BY <2>1, <2>2
  <2> HIDE DEF pre
  <2> QED BY <1>1, <2>3
<1>4. N \in R
  <2>1. N \in 0..N
    BY <1>1
  <2> HIDE DEF R, N
  <2> QED BY <1>1, <1>2, <1>3, <2>1, Upwards
<1>5. SubSeq(s, 1, N) = s
  BY SubSeqFull
<1> QED BY <1>4, <1>5

(* Sequences are joined an element at a time. *)
LEMMA JoinAppend ==
  ASSUME NEW L, NEW s \in Seq(L), NEW t \in Seq(L), NEW l \in L
  PROVE  s \o Append(t, l) = Append(s \o t, l)
<1>1. <<l>> \in Seq(L) /\ s \o t \in Seq(L)
  OBVIOUS
<1>2. Append(t, l) = t \o <<l>> /\ Append(s \o t, l) = (s \o t) \o <<l>>
  BY <1>1, AppendIsConcat
<1> QED BY <1>1, <1>2, ConcatAssociative

(* The marked lines of what is joined. *)
LEMMA MarkedJoin ==
  ASSUME NEW L, NEW s \in Seq(L), NEW t \in Seq(L), NEW marks
  PROVE  Marked(s \o t, marks) = Marked(s, marks) \o Marked(t, marks)
<1> DEFINE T == {x \in Seq(L) : Marked(s \o x, marks) = Marked(s, marks) \o Marked(x, marks)}
<1>1. <<>> \in T
  <2>1. s \o <<>> = s /\ Marked(s, marks) \o <<>> = Marked(s, marks)
    BY MarkedType, ConcatEmptySeq
  <2>2. <<>> \in Seq(L)
    OBVIOUS
  <2> QED BY <2>1, <2>2, MarkedOfNone
<1>2. ASSUME NEW x \in Seq(L), NEW l \in L, x \in T PROVE Append(x, l) \in T
  <2>1. Append(x, l) \in Seq(L) /\ s \o x \in Seq(L)
    OBVIOUS
  <2>2. Marked(s, marks) \in Seq(L) /\ Marked(x, marks) \in Seq(L)
    BY MarkedType
  <2>3. Marked(s \o x, marks) = Marked(s, marks) \o Marked(x, marks)
    BY <1>2
  <2>4. s \o Append(x, l) = Append(s \o x, l)
    BY JoinAppend
  <2>5. Marked(s, marks) \o Append(Marked(x, marks), l) = Append(Marked(s, marks) \o Marked(x, marks), l)
    <3> DEFINE p == Marked(s, marks) q == Marked(x, marks)
    <3> HIDE DEF p, q
    <3>1. p \in Seq(L) /\ q \in Seq(L)
      BY <2>2 DEF p, q
    <3>2. p \o Append(q, l) = Append(p \o q, l)
      BY <3>1, JoinAppend
    <3> QED BY <3>2 DEF p, q
  <2>6. CASE l[1] \in marks
    <3>1. Marked(Append(s \o x, l), marks) = Append(Marked(s \o x, marks), l)
      <4> DEFINE z == s \o x
      <4> HIDE DEF z
      <4>0. z \in Seq(L)
        BY <2>1 DEF z
      <4>1. Marked(Append(z, l), marks) = Append(Marked(z, marks), l)
        BY <2>6, <4>0, MarkedAppend
      <4> QED BY <4>1 DEF z
    <3>2. Marked(Append(x, l), marks) = Append(Marked(x, marks), l)
      BY <2>6, MarkedAppend
    <3> QED BY <2>1, <2>3, <2>4, <2>5, <3>1, <3>2
  <2>7. CASE l[1] \notin marks
    <3>1. Marked(Append(s \o x, l), marks) = Marked(s \o x, marks)
      BY <2>1, <2>7, MarkedAppend
    <3>2. Marked(Append(x, l), marks) = Marked(x, marks)
      BY <2>7, MarkedAppend
    <3> QED BY <2>1, <2>3, <2>4, <3>1, <3>2
  <2> QED BY <2>6, <2>7
<1>3. t \in T
  <2> HIDE DEF T
  <2> QED BY <1>1, <1>2, Lengthwise
<1> QED BY <1>3

(* Where every line is marked they are all there, *)
LEMMA MarkedAll ==
  ASSUME NEW L, NEW s \in Seq(L), NEW marks, \A i \in 1..Len(s) : s[i][1] \in marks
  PROVE  Marked(s, marks) = s
<1> DEFINE T == {x \in Seq(L) : (\A i \in 1..Len(x) : x[i][1] \in marks) => Marked(x, marks) = x}
<1>1. <<>> \in T
  <2>1. <<>> \in Seq(L)
    OBVIOUS
  <2> QED BY <2>1, MarkedOfNone
<1>2. ASSUME NEW x \in Seq(L), NEW l \in L, x \in T PROVE Append(x, l) \in T
  <2> DEFINE y == Append(x, l)
  <2>1. y \in Seq(L) /\ Len(y) = Len(x) + 1 /\ Len(x) \in Nat /\ y[Len(x) + 1] = l /\ \A i \in 1..Len(x) : y[i] = x[i]
    OBVIOUS
  <2>2. Marked(y, marks) = IF l[1] \in marks THEN Append(Marked(x, marks), l) ELSE Marked(x, marks)
    BY MarkedAppend
  <2> HIDE DEF y
  <2>3. ASSUME \A i \in 1..Len(y) : y[i][1] \in marks PROVE Marked(y, marks) = y
    <3>1. \A i \in 1..Len(x) : x[i][1] \in marks
      BY <2>1, <2>3
    <3>2. l[1] \in marks
      BY <2>1, <2>3
    <3> QED BY <1>2, <2>2, <3>1, <3>2 DEF y
  <2> QED BY <2>1, <2>3 DEF y
<1>3. s \in T
  <2> HIDE DEF T
  <2> QED BY <1>1, <1>2, Lengthwise
<1> QED BY <1>3

(* where none is there are none, *)
LEMMA MarkedNone ==
  ASSUME NEW L, NEW s \in Seq(L), NEW marks, \A i \in 1..Len(s) : s[i][1] \notin marks
  PROVE  Marked(s, marks) = <<>>
<1> DEFINE T == {x \in Seq(L) : (\A i \in 1..Len(x) : x[i][1] \notin marks) => Marked(x, marks) = <<>>}
<1>1. <<>> \in T
  <2>1. <<>> \in Seq(L)
    OBVIOUS
  <2> QED BY <2>1, MarkedOfNone
<1>2. ASSUME NEW x \in Seq(L), NEW l \in L, x \in T PROVE Append(x, l) \in T
  <2> DEFINE y == Append(x, l)
  <2>1. y \in Seq(L) /\ Len(y) = Len(x) + 1 /\ Len(x) \in Nat /\ y[Len(x) + 1] = l /\ \A i \in 1..Len(x) : y[i] = x[i]
    OBVIOUS
  <2>2. Marked(y, marks) = IF l[1] \in marks THEN Append(Marked(x, marks), l) ELSE Marked(x, marks)
    BY MarkedAppend
  <2> HIDE DEF y
  <2>3. ASSUME \A i \in 1..Len(y) : y[i][1] \notin marks PROVE Marked(y, marks) = <<>>
    <3>1. \A i \in 1..Len(x) : x[i][1] \notin marks
      BY <2>1, <2>3
    <3>2. l[1] \notin marks
      BY <2>1, <2>3
    <3> QED BY <1>2, <2>2, <3>1, <3>2
  <2> QED BY <2>1, <2>3 DEF y
<1>3. s \in T
  <2> HIDE DEF T
  <2> QED BY <1>1, <1>2, Lengthwise
<1> QED BY <1>3

(* and lines with other marks are counted apart. *)
LEMMA MarkedLen ==
  ASSUME NEW L, NEW s \in Seq(L), NEW A, NEW B, A \cap B = {}
  PROVE  Len(Marked(s, A \cup B)) = Len(Marked(s, A)) + Len(Marked(s, B))
<1> DEFINE T == {x \in Seq(L) : Len(Marked(x, A \cup B)) = Len(Marked(x, A)) + Len(Marked(x, B))}
<1>1. <<>> \in T
  <2>1. <<>> \in Seq(L) /\ Len(<<>>) = 0
    OBVIOUS
  <2> QED BY <2>1, MarkedOfNone
<1>2. ASSUME NEW x \in Seq(L), NEW l \in L, x \in T PROVE Append(x, l) \in T
  <2>1. Append(x, l) \in Seq(L)
    OBVIOUS
  <2>2. \A M : /\ Len(Marked(x, M)) \in Nat
               /\ Len(Marked(Append(x, l), M)) = Len(Marked(x, M)) + (IF l[1] \in M THEN 1 ELSE 0)
    <3> TAKE M
    <3>1. Marked(x, M) \in Seq(L)
      BY MarkedType
    <3>2. Len(Append(Marked(x, M), l)) = Len(Marked(x, M)) + 1 /\ Len(Marked(x, M)) \in Nat
      BY <3>1
    <3> QED BY <3>2, MarkedAppend
  <2>3. Len(Marked(x, A \cup B)) = Len(Marked(x, A)) + Len(Marked(x, B))
    BY <1>2
  <2>4. l[1] \in A \cup B <=> (l[1] \in A \/ l[1] \in B)
    OBVIOUS
  <2>5. ~(l[1] \in A /\ l[1] \in B)
    OBVIOUS
  <2>6. Len(Marked(Append(x, l), A \cup B)) = Len(Marked(Append(x, l), A)) + Len(Marked(Append(x, l), B))
    BY <2>2, <2>3, <2>4, <2>5
  <2> QED BY <2>1, <2>6
<1>3. s \in T
  <2> HIDE DEF T
  <2> QED BY <1>1, <1>2, Lengthwise
<1> QED BY <1>3

-----------------------------------------------------------------------------
(* The two sides of a diff *)

Mark == {" ", "-", "+"}

Told(Text) == Mark \X Text

Texts(m) == [i \in 1..Len(m) |-> m[i][2]]

(* The texts of what is joined. *)
LEMMA TextsJoin ==
  ASSUME NEW Text, NEW s \in Seq(Told(Text)), NEW t \in Seq(Told(Text))
  PROVE  /\ Texts(s) \in Seq(Text) /\ Len(Texts(s)) = Len(s)
         /\ Texts(s \o t) = Texts(s) \o Texts(t)
<1>1. ASSUME NEW m \in Seq(Told(Text))
      PROVE  Texts(m) \in Seq(Text) /\ Len(Texts(m)) = Len(m) /\ \A i \in 1..Len(m) : Texts(m)[i] = m[i][2]
  <2> DEFINE n == Len(m) x == Texts(m)
  <2>1. n \in Nat /\ \A i \in 1..n : m[i] \in Told(Text)
    OBVIOUS
  <2>2. \A i \in 1..n : m[i][2] \in Text
    BY <2>1 DEF Told
  <2>3. x = [i \in 1..n |-> m[i][2]]
    BY DEF Texts
  <2> HIDE DEF n, x
  <2>4. x \in [1..n -> Text]
    BY <2>2, <2>3
  <2>5. x \in Seq(Text) /\ Len(x) = n
    BY <2>1, <2>4
  <2>6. \A i \in 1..n : x[i] = m[i][2]
    BY <2>3
  <2> QED BY <2>5, <2>6 DEF n, x
<1>2. /\ s \o t \in Seq(Told(Text)) /\ Len(s \o t) = Len(s) + Len(t) /\ Len(s) \in Nat /\ Len(t) \in Nat
      /\ \A i \in 1..Len(s) + Len(t) : (s \o t)[i] = IF i <= Len(s) THEN s[i] ELSE t[i - Len(s)]
  BY ConcatProperties
<1>3. /\ Texts(s) \o Texts(t) \in Seq(Text) /\ Len(Texts(s) \o Texts(t)) = Len(s) + Len(t)
      /\ \A i \in 1..Len(s) + Len(t) :
           (Texts(s) \o Texts(t))[i] = IF i <= Len(s) THEN Texts(s)[i] ELSE Texts(t)[i - Len(s)]
  <2>1. Texts(s) \in Seq(Text) /\ Len(Texts(s)) = Len(s) /\ Texts(t) \in Seq(Text) /\ Len(Texts(t)) = Len(t)
    BY <1>1
  <2> DEFINE x == Texts(s) y == Texts(t)
  <2> HIDE DEF x, y
  <2>2. x \in Seq(Text) /\ y \in Seq(Text) /\ Len(x) = Len(s) /\ Len(y) = Len(t)
    BY <2>1 DEF x, y
  <2>3. /\ x \o y \in Seq(Text) /\ Len(x \o y) = Len(x) + Len(y)
        /\ \A i \in 1..Len(x) + Len(y) : (x \o y)[i] = IF i <= Len(x) THEN x[i] ELSE y[i - Len(x)]
    BY <2>2, ConcatProperties
  <2>4. /\ x \o y \in Seq(Text) /\ Len(x \o y) = Len(s) + Len(t)
        /\ \A i \in 1..Len(s) + Len(t) : (x \o y)[i] = IF i <= Len(s) THEN x[i] ELSE y[i - Len(s)]
    BY <2>2, <2>3
  <2> QED BY <2>4 DEF x, y
<1>4. \A i \in 1..Len(s) + Len(t) : Texts(s \o t)[i] = (Texts(s) \o Texts(t))[i]
  <2> TAKE i \in 1..Len(s) + Len(t)
  <2>1. Texts(s \o t)[i] = (s \o t)[i][2]
    BY <1>1, <1>2
  <2>2. CASE i <= Len(s)
    <3>1. i \in 1..Len(s)
      BY <1>2, <2>2
    <3>2. Texts(s)[i] = s[i][2]
      BY <1>1, <3>1
    <3> QED BY <1>2, <1>3, <2>1, <2>2, <3>2
  <2>3. CASE ~(i <= Len(s))
    <3>1. i - Len(s) \in 1..Len(t)
      BY <1>2, <2>3
    <3>2. Texts(t)[i - Len(s)] = t[i - Len(s)][2]
      BY <1>1, <3>1
    <3> QED BY <1>2, <1>3, <2>1, <2>3, <3>2
  <2> QED BY <2>2, <2>3
<1>5. Texts(s \o t) \in Seq(Text) /\ Len(Texts(s \o t)) = Len(s) + Len(t)
  BY <1>1, <1>2
<1>6. Texts(s \o t) = Texts(s) \o Texts(t)
  BY <1>3, <1>4, <1>5, SeqEqual
<1> QED BY <1>1, <1>6

(* A side of a diff that is joined. *)
LEMMA SideJoin ==
  ASSUME NEW Text, NEW s \in Seq(Told(Text)), NEW t \in Seq(Told(Text)), NEW sign
  PROVE  /\ Side(s, sign) \in Seq(Text)
         /\ Side(s \o t, sign) = Side(s, sign) \o Side(t, sign)
<1> DEFINE L == Told(Text) M == {" ", sign}
<1>1. \A x : Side(x, sign) = Texts(Marked(x, M))
  BY DEF Side, Texts
<1> HIDE DEF M
<1>2. Marked(s, M) \in Seq(L) /\ Marked(t, M) \in Seq(L)
  BY MarkedType
<1>3. Marked(s \o t, M) = Marked(s, M) \o Marked(t, M)
  <2> HIDE DEF L
  <2> QED BY MarkedJoin DEF L
<1>4. /\ Texts(Marked(s, M)) \in Seq(Text) /\ Len(Texts(Marked(s, M))) = Len(Marked(s, M))
      /\ Texts(Marked(s, M) \o Marked(t, M)) = Texts(Marked(s, M)) \o Texts(Marked(t, M))
  BY <1>2, TextsJoin
<1>5. /\ Side(s, sign) \in Seq(Text) /\ Len(Side(s, sign)) = Len(Marked(s, M))
      /\ Side(s \o t, sign) = Side(s, sign) \o Side(t, sign)
  <2>1. Side(s, sign) = Texts(Marked(s, M))
    BY <1>1
  <2>2. Side(t, sign) = Texts(Marked(t, M))
    BY <1>1
  <2>3. Side(s \o t, sign) = Texts(Marked(s \o t, M))
    BY <1>1
  <2> QED BY <1>3, <1>4, <2>1, <2>2, <2>3
<1> QED BY <1>5 DEF M

(* Lines under one mark are on a side or not. *)
LEMMA SignedIs ==
  ASSUME NEW Text, NEW x \in Seq(Text), NEW mark \in Mark
  PROVE  /\ Signed(mark, x) \in Seq(Told(Text))
         /\ \A M : Len(Marked(Signed(mark, x), M)) = IF mark \in M THEN Len(x) ELSE 0
         /\ \A sign : Side(Signed(mark, x), sign) = IF mark \in {" ", sign} THEN x ELSE <<>>
<1> DEFINE n == Len(x) s == Signed(mark, x) L == Told(Text)
<1>1. n \in Nat /\ \A i \in 1..n : x[i] \in Text
  OBVIOUS
<1>2. s = [i \in 1..n |-> <<mark, x[i]>>]
  BY DEF Signed
<1> HIDE DEF n, s
<1>3. s \in [1..n -> L]
  BY <1>1, <1>2 DEF Told
<1>4. s \in Seq(L) /\ Len(s) = n
  <2> HIDE DEF L
  <2> QED BY <1>1, <1>3
<1>5. \A i \in 1..n : s[i][1] = mark /\ s[i][2] = x[i]
  BY <1>2
<1>6. ASSUME NEW M, mark \in M PROVE Marked(s, M) = s
  BY <1>4, <1>5, <1>6, MarkedAll
<1>7. ASSUME NEW M, mark \notin M PROVE Marked(s, M) = <<>>
  BY <1>4, <1>5, <1>7, MarkedNone
<1>8. Texts(s) = x
  <2>1. Texts(s) = [i \in 1..n |-> x[i]]
    BY <1>4, <1>5 DEF Texts
  <2>2. x = [i \in 1..n |-> x[i]]
    BY DEF n
  <2> QED BY <2>1, <2>2
<1>9. Texts(<<>>) = <<>>
  BY DEF Texts
<1>10. \A M : Len(Marked(s, M)) = IF mark \in M THEN n ELSE 0
  <2>1. Len(<<>>) = 0
    OBVIOUS
  <2> QED BY <1>4, <1>6, <1>7, <2>1
<1>11. \A sign : Side(s, sign) = IF mark \in {" ", sign} THEN x ELSE <<>>
  <2>1. \A sign : Side(s, sign) = Texts(Marked(s, {" ", sign}))
    BY DEF Side, Texts
  <2> QED BY <1>6, <1>7, <1>8, <1>9, <2>1
<1> QED BY <1>4, <1>10, <1>11 DEF s, n

-----------------------------------------------------------------------------
(* Recursion over a table *)

Grid(n, m) == (1..n + 1) \X (1..m + 1)

Edge(n, m, i, j) == i > n \/ j > m

(* What holds at the edge, and of a place when of the three behind it, holds  *)
(* everywhere.                                                                *)
LEMMA Backwards ==
  ASSUME NEW n \in Nat, NEW m \in Nat, NEW T,
         \A i \in 1..n + 1, j \in 1..m + 1 : Edge(n, m, i, j) => <<i, j>> \in T,
         \A i \in 1..n, j \in 1..m :
           <<i + 1, j + 1>> \in T /\ <<i + 1, j>> \in T /\ <<i, j + 1>> \in T => <<i, j>> \in T
  PROVE  \A i \in 1..n + 1, j \in 1..m + 1 : <<i, j>> \in T
<1> DEFINE R == {k \in 0..n + m + 2 : \A i \in 1..n + 1, j \in 1..m + 1 : n + m + 2 - i - j <= k => <<i, j>> \in T}
<1>1. 0 \in R
  <2> SUFFICES ASSUME NEW i \in 1..n + 1, NEW j \in 1..m + 1, n + m + 2 - i - j <= 0 PROVE <<i, j>> \in T
    OBVIOUS
  <2>1. i = n + 1 /\ j = m + 1
    OBVIOUS
  <2> QED BY <2>1 DEF Edge
<1>2. ASSUME NEW k \in 1..n + m + 2, k - 1 \in R PROVE k \in R
  <2> SUFFICES ASSUME NEW i \in 1..n + 1, NEW j \in 1..m + 1, n + m + 2 - i - j <= k PROVE <<i, j>> \in T
    OBVIOUS
  <2>1. CASE Edge(n, m, i, j)
    BY <2>1
  <2>2. CASE ~Edge(n, m, i, j)
    <3>1. i \in 1..n /\ j \in 1..m /\ i + 1 \in 1..n + 1 /\ j + 1 \in 1..m + 1
      BY <2>2 DEF Edge
    <3>2. n + m + 2 - (i + 1) - (j + 1) <= k - 1 /\ n + m + 2 - (i + 1) - j <= k - 1 /\ n + m + 2 - i - (j + 1) <= k - 1
      OBVIOUS
    <3>3. \A x \in 1..n + 1, y \in 1..m + 1 : n + m + 2 - x - y <= k - 1 => <<x, y>> \in T
      BY <1>2
    <3>4. <<i + 1, j + 1>> \in T /\ <<i + 1, j>> \in T /\ <<i, j + 1>> \in T
      BY <3>1, <3>2, <3>3
    <3> QED BY <3>1, <3>4
  <2> QED BY <2>1, <2>2
<1>3. n + m + 2 \in R
  <2>1. n + m + 2 \in Nat /\ n + m + 2 \in 0..n + m + 2
    OBVIOUS
  <2> HIDE DEF R
  <2> QED BY <1>1, <1>2, <2>1, Upwards
<1>4. \A i \in 1..n + 1, j \in 1..m + 1 : n + m + 2 - i - j <= n + m + 2
  OBVIOUS
<1> QED BY <1>3, <1>4

FilledAt(f, n, m, zero, step, i, j) ==
  f[<<i, j>>] = IF Edge(n, m, i, j) THEN zero
            ELSE step[<<i, j>>][<<f[<<i + 1, j + 1>>], f[<<i + 1, j>>], f[<<i, j + 1>>]>>]

FilledTo(f, n, m, zero, step, S, k) ==
  /\ f \in [Grid(n, m) -> S]
  /\ \A i \in 1..n + 1, j \in 1..m + 1 :
       n + m + 2 - i - j <= k => FilledAt(f, n, m, zero, step, i, j)

(* A table may be filled from the far corner. *)
LEMMA Fills ==
  ASSUME NEW n \in Nat, NEW m \in Nat, NEW S, NEW zero \in S,
         NEW step \in [(1..n) \X (1..m) -> [S \X S \X S -> S]]
  PROVE  \E f \in [Grid(n, m) -> S] :
           \A i \in 1..n + 1, j \in 1..m + 1 : FilledAt(f, n, m, zero, step, i, j)
<1> DEFINE R == {k \in 0..n + m + 2 : \E f : FilledTo(f, n, m, zero, step, S, k)}
<1>1. 0 \in R
  <2> DEFINE f == [p \in Grid(n, m) |-> zero]
  <2>1. \A i \in 1..n + 1, j \in 1..m + 1 : n + m + 2 - i - j <= 0 => Edge(n, m, i, j)
    BY DEF Edge
  <2>2. \A i \in 1..n + 1, j \in 1..m + 1 : f[<<i, j>>] = zero
    BY DEF Grid
  <2>3. f \in [Grid(n, m) -> S]
    OBVIOUS
  <2>4. FilledTo(f, n, m, zero, step, S, 0)
    <3> HIDE DEF f
    <3> QED BY <2>1, <2>2, <2>3 DEF FilledTo, FilledAt
  <2>5. 0 \in 0..n + m + 2
    OBVIOUS
  <2> HIDE DEF f
  <2> QED BY <2>4, <2>5
<1>2. ASSUME NEW k \in 1..n + m + 2, k - 1 \in R PROVE k \in R
  <2>1. PICK f : FilledTo(f, n, m, zero, step, S, k - 1)
    BY <1>2
  <2>2. f \in [Grid(n, m) -> S]
    BY <2>1 DEF FilledTo
  <2> DEFINE new_(i, j) == IF Edge(n, m, i, j) THEN zero
                           ELSE step[<<i, j>>][<<f[<<i + 1, j + 1>>], f[<<i + 1, j>>], f[<<i, j + 1>>]>>]
             g == [p \in Grid(n, m) |-> IF n + m + 2 - p[1] - p[2] = k THEN new_(p[1], p[2]) ELSE f[p]]
  <2>3. \A i \in 1..n + 1, j \in 1..m + 1 : f[<<i, j>>] \in S
    BY <2>2 DEF Grid
  <2>4. \A i \in 1..n + 1, j \in 1..m + 1 : new_(i, j) \in S
    <3> TAKE i \in 1..n + 1, j \in 1..m + 1
    <3>1. CASE Edge(n, m, i, j)
      BY <3>1
    <3>2. CASE ~Edge(n, m, i, j)
      <4>1. i \in 1..n /\ j \in 1..m /\ i + 1 \in 1..n + 1 /\ j + 1 \in 1..m + 1
        BY <3>2 DEF Edge
      <4>2. <<f[<<i + 1, j + 1>>], f[<<i + 1, j>>], f[<<i, j + 1>>]>> \in S \X S \X S
        BY <2>3, <4>1
      <4>3. step[<<i, j>>] \in [S \X S \X S -> S]
        BY <4>1
      <4> HIDE DEF Edge
      <4> QED BY <3>2, <4>2, <4>3
    <3> QED BY <3>1, <3>2
  <2> HIDE DEF new_
  <2>5. \A p \in Grid(n, m) : p[1] \in 1..n + 1 /\ p[2] \in 1..m + 1 /\ p = <<p[1], p[2]>>
    BY DEF Grid
  <2>6. g \in [Grid(n, m) -> S]
    BY <2>2, <2>4, <2>5
  <2>7. \A i \in 1..n + 1, j \in 1..m + 1 :
          g[<<i, j>>] = IF n + m + 2 - i - j = k THEN new_(i, j) ELSE f[<<i, j>>]
    BY DEF Grid
  <2> HIDE DEF g
  <2>8. ASSUME NEW i \in 1..n + 1, NEW j \in 1..m + 1, n + m + 2 - i - j <= k
        PROVE  FilledAt(g, n, m, zero, step, i, j)
    <3>1. g[<<i, j>>] = new_(i, j)
      <4>1. CASE n + m + 2 - i - j = k
        BY <2>7, <4>1
      <4>2. CASE n + m + 2 - i - j # k
        <5>1. n + m + 2 - i - j <= k - 1
          BY <2>8, <4>2
        <5>2. f[<<i, j>>] = new_(i, j)
          BY <2>1, <5>1 DEF FilledTo, FilledAt, new_
        <5> QED BY <2>7, <4>2, <5>2
      <4> QED BY <4>1, <4>2
    <3>2. CASE Edge(n, m, i, j)
      BY <3>1, <3>2 DEF FilledAt, new_
    <3>3. CASE ~Edge(n, m, i, j)
      <4>1. i + 1 \in 1..n + 1 /\ j + 1 \in 1..m + 1
        BY <3>3 DEF Edge
      <4>2. /\ n + m + 2 - (i + 1) - (j + 1) # k /\ n + m + 2 - (i + 1) - j # k
            /\ n + m + 2 - i - (j + 1) # k
        BY <2>8
      <4>3. g[<<i + 1, j + 1>>] = f[<<i + 1, j + 1>>] /\ g[<<i + 1, j>>] = f[<<i + 1, j>>] /\ g[<<i, j + 1>>] = f[<<i, j + 1>>]
        BY <2>7, <4>1, <4>2
      <4> QED BY <3>1, <3>3, <4>3 DEF FilledAt, new_
    <3> QED BY <3>2, <3>3
  <2>9. FilledTo(g, n, m, zero, step, S, k)
    BY <2>6, <2>8 DEF FilledTo
  <2> QED BY <2>9
<1>3. n + m + 2 \in R
  <2>1. n + m + 2 \in Nat /\ n + m + 2 \in 0..n + m + 2
    OBVIOUS
  <2> HIDE DEF R
  <2> QED BY <1>1, <1>2, <2>1, Upwards
<1>4. PICK f : FilledTo(f, n, m, zero, step, S, n + m + 2)
  BY <1>3
<1>5. \A i \in 1..n + 1, j \in 1..m + 1 : n + m + 2 - i - j <= n + m + 2
  OBVIOUS
<1> QED BY <1>4, <1>5 DEF FilledTo

-----------------------------------------------------------------------------
(* The longest common subsequence *)

(* The larger of two. *)
LEMMA Larger ==
  ASSUME NEW x \in Nat, NEW y \in Nat
  PROVE  Max({x, y}) \in Nat /\ Max({x, y}) = IF x >= y THEN x ELSE y
  BY DEF Max

TableAt(t, a, b, i, j) ==
  t[<<i, j>>] = IF Edge(Len(a), Len(b), i, j) THEN 0
                ELSE IF a[i] = b[j] THEN t[<<i + 1, j + 1>>] + 1
                ELSE IF t[<<i + 1, j>>] >= t[<<i, j + 1>>] THEN t[<<i + 1, j>>]
                ELSE t[<<i, j + 1>>]

IsTable(t, a, b) ==
  /\ t \in [Grid(Len(a), Len(b)) -> Nat]
  /\ \A i \in 1..Len(a) + 1, j \in 1..Len(b) + 1 : TableAt(t, a, b, i, j)

WalkAt(w, t, a, b, i, j) ==
  w[<<i, j>>] = IF Edge(Len(a), Len(b), i, j) THEN <<>>
                ELSE IF a[i] = b[j] THEN <<a[i]>> \o w[<<i + 1, j + 1>>]
                ELSE IF t[<<i + 1, j>>] >= t[<<i, j + 1>>] THEN w[<<i + 1, j>>]
                ELSE w[<<i, j + 1>>]

IsWalk(w, t, a, b, Text) ==
  /\ w \in [Grid(Len(a), Len(b)) -> Seq(Text)]
  /\ \A i \in 1..Len(a) + 1, j \in 1..Len(b) + 1 : WalkAt(w, t, a, b, i, j)

(* There is a table of lengths *)
LEMMA TableExists ==
  ASSUME NEW Text, NEW a \in Seq(Text), NEW b \in Seq(Text)
  PROVE  \E t : IsTable(t, a, b)
<1> DEFINE n == Len(a) m == Len(b)
           pick(p, x) == IF a[p[1]] = b[p[2]] THEN x[1] + 1 ELSE IF x[2] >= x[3] THEN x[2] ELSE x[3]
           step == [p \in (1..n) \X (1..m) |-> [x \in Nat \X Nat \X Nat |-> pick(p, x)]]
<1>1. n \in Nat /\ m \in Nat /\ 0 \in Nat
  OBVIOUS
<1> HIDE DEF n, m
<1>2. step \in [(1..n) \X (1..m) -> [Nat \X Nat \X Nat -> Nat]]
  <2>1. \A p \in (1..n) \X (1..m), x \in Nat \X Nat \X Nat : pick(p, x) \in Nat
    OBVIOUS
  <2> HIDE DEF pick
  <2> QED BY <2>1
<1>3. PICK t \in [Grid(n, m) -> Nat] : \A i \in 1..n + 1, j \in 1..m + 1 : FilledAt(t, n, m, 0, step, i, j)
  <2> HIDE DEF step
  <2> QED BY <1>1, <1>2, Fills
<1>4. \A i \in 1..n + 1, j \in 1..m + 1 : t[<<i, j>>] \in Nat
  BY DEF Grid
<1>5. ASSUME NEW i \in 1..n + 1, NEW j \in 1..m + 1 PROVE TableAt(t, a, b, i, j)
  <2>1. FilledAt(t, n, m, 0, step, i, j)
    BY <1>3
  <2>2. CASE Edge(n, m, i, j)
    BY <2>1, <2>2 DEF FilledAt, TableAt, n, m
  <2>3. CASE ~Edge(n, m, i, j)
    <3>1. i \in 1..n /\ j \in 1..m /\ i + 1 \in 1..n + 1 /\ j + 1 \in 1..m + 1
      BY <1>1, <2>3 DEF Edge
    <3> DEFINE x == <<t[<<i + 1, j + 1>>], t[<<i + 1, j>>], t[<<i, j + 1>>]>>
    <3>2. x \in Nat \X Nat \X Nat
      BY <1>4, <3>1
    <3>3. t[<<i, j>>] = step[<<i, j>>][x]
      BY <2>1, <2>3 DEF FilledAt
    <3>4. step[<<i, j>>][x] = pick(<<i, j>>, x)
      <4> HIDE DEF x, pick
      <4> QED BY <3>1, <3>2
    <3> HIDE DEF step
    <3> QED BY <2>3, <3>3, <3>4 DEF TableAt, n, m
  <2> QED BY <2>2, <2>3
<1> QED BY <1>3, <1>5 DEF IsTable, n, m

(* and a walk through it. *)
LEMMA WalkExists ==
  ASSUME NEW Text, NEW a \in Seq(Text), NEW b \in Seq(Text), NEW t
  PROVE  \E w : IsWalk(w, t, a, b, Text)
<1> DEFINE n == Len(a) m == Len(b) S == Seq(Text)
           pick(p, x) ==
             IF a[p[1]] = b[p[2]] THEN <<a[p[1]]>> \o x[1]
             ELSE IF t[<<p[1] + 1, p[2]>>] >= t[<<p[1], p[2] + 1>>] THEN x[2] ELSE x[3]
           step == [p \in (1..n) \X (1..m) |-> [x \in S \X S \X S |-> pick(p, x)]]
<1>1. n \in Nat /\ m \in Nat /\ <<>> \in S /\ \A i \in 1..n : <<a[i]>> \in Seq(Text)
  OBVIOUS
<1> HIDE DEF n, m
<1>2. step \in [(1..n) \X (1..m) -> [S \X S \X S -> S]]
  <2>1. \A p \in (1..n) \X (1..m), x \in S \X S \X S : pick(p, x) \in S
    <3> TAKE p \in (1..n) \X (1..m), x \in S \X S \X S
    <3>1. <<a[p[1]]>> \in Seq(Text) /\ x[1] \in Seq(Text) /\ x[2] \in S /\ x[3] \in S
      BY <1>1
    <3>2. <<a[p[1]]>> \o x[1] \in S
      BY <3>1
    <3> HIDE DEF S
    <3> QED BY <3>1, <3>2
  <2> HIDE DEF pick, S
  <2> QED BY <2>1
<1> HIDE DEF S
<1>3. PICK w \in [Grid(n, m) -> S] : \A i \in 1..n + 1, j \in 1..m + 1 : FilledAt(w, n, m, <<>>, step, i, j)
  <2> HIDE DEF step
  <2> QED BY <1>1, <1>2, Fills
<1>4. \A i \in 1..n + 1, j \in 1..m + 1 : w[<<i, j>>] \in S
  BY DEF Grid
<1>5. ASSUME NEW i \in 1..n + 1, NEW j \in 1..m + 1 PROVE WalkAt(w, t, a, b, i, j)
  <2>1. FilledAt(w, n, m, <<>>, step, i, j)
    BY <1>3
  <2>2. CASE Edge(n, m, i, j)
    BY <2>1, <2>2 DEF FilledAt, WalkAt, n, m
  <2>3. CASE ~Edge(n, m, i, j)
    <3>1. i \in 1..n /\ j \in 1..m /\ i + 1 \in 1..n + 1 /\ j + 1 \in 1..m + 1
      BY <1>1, <2>3 DEF Edge
    <3> DEFINE x == <<w[<<i + 1, j + 1>>], w[<<i + 1, j>>], w[<<i, j + 1>>]>>
    <3>2. x \in S \X S \X S
      BY <1>4, <3>1
    <3>3. w[<<i, j>>] = step[<<i, j>>][x]
      BY <2>1, <2>3 DEF FilledAt
    <3>4. step[<<i, j>>][x] = pick(<<i, j>>, x)
      <4> HIDE DEF x, pick
      <4> QED BY <3>1, <3>2
    <3> HIDE DEF step
    <3> QED BY <2>3, <3>3, <3>4 DEF WalkAt, n, m
  <2> QED BY <2>2, <2>3
<1> QED BY <1>3, <1>5 DEF IsWalk, n, m, S

(* What lcs returns is the walk from the first lines. *)
LEMMA LcsIs ==
  ASSUME NEW Text, NEW a \in Seq(Text), NEW b \in Seq(Text)
  PROVE  \E t, w : IsTable(t, a, b) /\ IsWalk(w, t, a, b, Text) /\ lcs(a, b) = w[<<1, 1>>]
<1> DEFINE n == Len(a) m == Len(b) Cell == (1..Len(a) + 1) \X (1..Len(b) + 1)
           Length(f, i, j) ==
             IF i > Len(a) \/ j > Len(b) THEN 0
             ELSE IF a[i] = b[j] THEN f[<<i + 1, j + 1>>] + 1
             ELSE Max({f[<<i + 1, j>>], f[<<i, j + 1>>]})
           EqT(f) == f = [c \in Cell |-> Length(f, c[1], c[2])]
           t == CHOOSE f : EqT(f)
           Onward(f, i, j) ==
             IF i > Len(a) \/ j > Len(b) THEN <<>>
             ELSE IF a[i] = b[j] THEN <<a[i]>> \o f[<<i + 1, j + 1>>]
             ELSE IF t[<<i + 1, j>>] >= t[<<i, j + 1>>] THEN f[<<i + 1, j>>]
             ELSE f[<<i, j + 1>>]
           EqW(f) == f = [c \in Cell |-> Onward(f, c[1], c[2])]
           w == CHOOSE f : EqW(f)
<1>1. lcs(a, b) = w[<<1, 1>>]
  BY DEF lcs
<1>2. n \in Nat /\ m \in Nat /\ Cell = Grid(n, m)
  BY DEF Grid
<1>3. ASSUME NEW c \in Cell PROVE c[1] \in 1..n + 1 /\ c[2] \in 1..m + 1 /\ c = <<c[1], c[2]>>
  OBVIOUS
<1>4. ASSUME NEW i \in 1..n + 1, NEW j \in 1..m + 1 PROVE <<i, j>> \in Cell
  OBVIOUS
<1>5. ASSUME NEW i \in 1..n + 1, NEW j \in 1..m + 1, ~Edge(n, m, i, j)
      PROVE  /\ i \in 1..n /\ j \in 1..m /\ i + 1 \in 1..n + 1 /\ j + 1 \in 1..m + 1
             /\ a[i] \in Text
  BY <1>2, <1>5 DEF Edge
<1>6. \A i \in 1..n, j \in 1..m : ~Edge(n, m, i, j) /\ i \in 1..n + 1 /\ j \in 1..m + 1 /\ i + 1 \in 1..n + 1 /\ j + 1 \in 1..m + 1
  BY DEF Edge
<1> HIDE DEF n, m, Cell
<1>7. \E f : EqT(f)
  <2>1. PICK f : IsTable(f, a, b)
    BY TableExists
  <2>2. \A i \in 1..n + 1, j \in 1..m + 1 : f[<<i, j>>] \in Nat
    BY <1>2, <1>4, <2>1 DEF IsTable, n, m
  <2>3. ASSUME NEW c \in Cell PROVE f[c] = Length(f, c[1], c[2])
    <3> DEFINE i == c[1] j == c[2]
    <3>1. i \in 1..n + 1 /\ j \in 1..m + 1 /\ c = <<i, j>>
      BY <1>3
    <3> HIDE DEF i, j
    <3>2. TableAt(f, a, b, i, j)
      BY <2>1, <3>1 DEF IsTable, n, m
    <3>3. CASE Edge(n, m, i, j)
      BY <3>1, <3>2, <3>3 DEF TableAt, Edge, i, j, n, m
    <3>4. CASE ~Edge(n, m, i, j)
      <4> DEFINE x == f[<<i + 1, j>>] y == f[<<i, j + 1>>]
      <4>1. x \in Nat /\ y \in Nat
        BY <1>5, <2>2, <3>1, <3>4
      <4> HIDE DEF x, y
      <4>2. Max({x, y}) = IF x >= y THEN x ELSE y
        BY <4>1, Larger
      <4>3. f[<<i, j>>] = IF a[i] = b[j] THEN f[<<i + 1, j + 1>>] + 1 ELSE Max({x, y})
        BY <3>2, <3>4, <4>2 DEF TableAt, x, y, n, m
      <4> QED BY <3>1, <3>4, <4>3 DEF Edge, x, y, i, j, n, m
    <3> QED BY <3>3, <3>4
  <2>4. f = [c \in Cell |-> f[c]]
    BY <1>2, <2>1 DEF IsTable, n, m
  <2> HIDE DEF Length
  <2> QED BY <2>3, <2>4
<1>8. EqT(t)
  <2> HIDE DEF EqT
  <2> QED BY <1>7
<1> HIDE DEF t
<1>9. t = [c \in Cell |-> t[c]] /\ \A i \in 1..n + 1, j \in 1..m + 1 : t[<<i, j>>] = Length(t, i, j)
  <2>1. \A i \in 1..n + 1, j \in 1..m + 1 : t[<<i, j>>] = Length(t, <<i, j>>[1], <<i, j>>[2])
    <3> HIDE DEF Length
    <3> QED BY <1>4, <1>8
  <2>2. DOMAIN t = Cell /\ t = [c \in Cell |-> Length(t, c[1], c[2])]
    <3> HIDE DEF Length
    <3> QED BY <1>8
  <2>3. t = [c \in Cell |-> t[c]]
    <3> HIDE DEF Length
    <3> QED BY <2>2
  <2>4. \A i, j : <<i, j>>[1] = i /\ <<i, j>>[2] = j
    OBVIOUS
  <2> HIDE DEF Length, EqT
  <2> QED BY <2>1, <2>3, <2>4
<1>10. ASSUME NEW i \in 1..n, NEW j \in 1..m,
              t[<<i + 1, j + 1>>] \in Nat, t[<<i + 1, j>>] \in Nat, t[<<i, j + 1>>] \in Nat
       PROVE  t[<<i, j>>] \in Nat /\ TableAt(t, a, b, i, j)
  <2> DEFINE x == t[<<i + 1, j>>] y == t[<<i, j + 1>>]
  <2>1. Max({x, y}) \in Nat /\ Max({x, y}) = IF x >= y THEN x ELSE y
    BY <1>10, Larger
  <2>2. ~Edge(n, m, i, j) /\ ~(i > Len(a) \/ j > Len(b))
    BY <1>2, <1>6 DEF Edge, n, m
  <2>3. t[<<i, j>>] = IF a[i] = b[j] THEN t[<<i + 1, j + 1>>] + 1 ELSE Max({x, y})
    BY <1>6, <1>9, <2>2
  <2>4. t[<<i + 1, j + 1>>] + 1 \in Nat
    BY <1>10
  <2>5. t[<<i, j>>] = IF a[i] = b[j] THEN t[<<i + 1, j + 1>>] + 1 ELSE IF x >= y THEN x ELSE y
    BY <2>1, <2>3
  <2>6. t[<<i, j>>] \in Nat
    BY <2>1, <2>3, <2>4
  <2> QED BY <2>2, <2>5, <2>6 DEF TableAt, n, m
<1>11. ASSUME NEW i \in 1..n + 1, NEW j \in 1..m + 1, Edge(n, m, i, j)
       PROVE  t[<<i, j>>] = 0
  BY <1>9, <1>11 DEF Edge, n, m
<1>12. \A i \in 1..n + 1, j \in 1..m + 1 : t[<<i, j>>] \in Nat
  <2> DEFINE T == {c \in Cell : t[c] \in Nat}
  <2>1. \A i \in 1..n + 1, j \in 1..m + 1 : Edge(n, m, i, j) => <<i, j>> \in T
    BY <1>4, <1>11
  <2>2. \A i \in 1..n, j \in 1..m :
          <<i + 1, j + 1>> \in T /\ <<i + 1, j>> \in T /\ <<i, j + 1>> \in T => <<i, j>> \in T
    BY <1>4, <1>6, <1>10
  <2>3. \A i \in 1..n + 1, j \in 1..m + 1 : <<i, j>> \in T
    <3> HIDE DEF T
    <3> QED BY <1>2, <2>1, <2>2, Backwards
  <2> QED BY <2>3
<1>13. IsTable(t, a, b)
  <2>1. t \in [Cell -> Nat]
    <3>1. \A c \in Cell : t[c] \in Nat
      BY <1>3, <1>12
    <3> QED BY <1>9, <3>1
  <2>2. ASSUME NEW i \in 1..n + 1, NEW j \in 1..m + 1 PROVE TableAt(t, a, b, i, j)
    <3>1. CASE Edge(n, m, i, j)
      BY <1>11, <3>1 DEF TableAt, n, m
    <3>2. CASE ~Edge(n, m, i, j)
      BY <1>5, <1>10, <1>12, <3>2
    <3> QED BY <3>1, <3>2
  <2> QED BY <1>2, <2>1, <2>2 DEF IsTable, n, m
<1>14. \E f : EqW(f)
  <2>1. PICK f : IsWalk(f, t, a, b, Text)
    BY WalkExists
  <2>2. ASSUME NEW c \in Cell PROVE f[c] = Onward(f, c[1], c[2])
    <3> DEFINE i == c[1] j == c[2]
    <3>1. i \in 1..n + 1 /\ j \in 1..m + 1 /\ c = <<i, j>>
      BY <1>3
    <3> HIDE DEF i, j
    <3>2. WalkAt(f, t, a, b, i, j)
      BY <2>1, <3>1 DEF IsWalk, n, m
    <3> QED BY <3>1, <3>2 DEF WalkAt, Edge, i, j
  <2>3. f = [c \in Cell |-> f[c]]
    BY <1>2, <2>1 DEF IsWalk, n, m
  <2> HIDE DEF Onward
  <2> QED BY <2>2, <2>3
<1>15. EqW(w)
  <2> HIDE DEF EqW
  <2> QED BY <1>14
<1> HIDE DEF w
<1>16. w = [c \in Cell |-> w[c]] /\ \A i \in 1..n + 1, j \in 1..m + 1 : w[<<i, j>>] = Onward(w, i, j)
  <2>1. \A i \in 1..n + 1, j \in 1..m + 1 : w[<<i, j>>] = Onward(w, <<i, j>>[1], <<i, j>>[2])
    <3> HIDE DEF Onward
    <3> QED BY <1>4, <1>15
  <2>2. DOMAIN w = Cell /\ w = [c \in Cell |-> Onward(w, c[1], c[2])]
    <3> HIDE DEF Onward
    <3> QED BY <1>15
  <2>3. w = [c \in Cell |-> w[c]]
    <3> HIDE DEF Onward
    <3> QED BY <2>2
  <2>4. \A i, j : <<i, j>>[1] = i /\ <<i, j>>[2] = j
    OBVIOUS
  <2> HIDE DEF Onward, EqW
  <2> QED BY <2>1, <2>3, <2>4
<1>17. \A i \in 1..n + 1, j \in 1..m + 1 : WalkAt(w, t, a, b, i, j)
  BY <1>16 DEF WalkAt, Edge
<1>18. \A i \in 1..n + 1, j \in 1..m + 1 : w[<<i, j>>] \in Seq(Text)
  <2> DEFINE T == {c \in Cell : w[c] \in Seq(Text)}
  <2>1. ASSUME NEW i \in 1..n + 1, NEW j \in 1..m + 1, Edge(n, m, i, j) PROVE <<i, j>> \in T
    <3>1. w[<<i, j>>] = <<>>
      BY <1>17, <2>1 DEF WalkAt, n, m
    <3>2. <<>> \in Seq(Text)
      OBVIOUS
    <3> QED BY <1>4, <3>1, <3>2
  <2>2. ASSUME NEW i \in 1..n, NEW j \in 1..m, <<i + 1, j + 1>> \in T, <<i + 1, j>> \in T, <<i, j + 1>> \in T
        PROVE  <<i, j>> \in T
    <3>1. /\ w[<<i + 1, j + 1>>] \in Seq(Text) /\ w[<<i + 1, j>>] \in Seq(Text) /\ w[<<i, j + 1>>] \in Seq(Text)
          /\ ~Edge(n, m, i, j) /\ i \in 1..n + 1 /\ j \in 1..m + 1
      BY <1>6, <2>2
    <3>2. <<a[i]>> \o w[<<i + 1, j + 1>>] \in Seq(Text)
      <4>1. <<a[i]>> \in Seq(Text)
        BY <1>5, <3>1
      <4> QED BY <3>1, <4>1
    <3>3. w[<<i, j>>] \in Seq(Text)
      BY <1>17, <3>1, <3>2 DEF WalkAt, n, m
    <3> QED BY <1>4, <3>1, <3>3
  <2>3. \A i \in 1..n + 1, j \in 1..m + 1 : <<i, j>> \in T
    <3> HIDE DEF T
    <3> QED BY <1>2, <2>1, <2>2, Backwards
  <2> QED BY <2>3
<1>19. IsWalk(w, t, a, b, Text)
  <2>1. \A c \in Cell : w[c] \in Seq(Text)
    BY <1>3, <1>18
  <2>2. w \in [Cell -> Seq(Text)]
    BY <1>16, <2>1
  <2> QED BY <1>2, <1>17, <2>2 DEF IsWalk, n, m
<1> QED BY <1>1, <1>13, <1>19

(* The elements of c, from the k-th on, stand in s at growing places from i.  *)
Places(f, c, k, s, i) ==
  /\ f \in [k..Len(c) -> i..Len(s)]
  /\ \A x \in k..Len(c) : s[f[x]] = c[x]
  /\ \A x, y \in k..Len(c) : x < y => f[x] < f[y]

Within(c, k, s, i) == \E f : Places(f, c, k, s, i)

(* What stands in s from a place stands there from an earlier one, *)
LEMMA WithinEarlier ==
  ASSUME NEW Text, NEW c \in Seq(Text), NEW s \in Seq(Text), NEW i \in Nat, Within(c, 1, s, i + 1)
  PROVE  Within(c, 1, s, i)
<1>1. PICK f : Places(f, c, 1, s, i + 1)
  BY DEF Within
<1>2. (i + 1)..Len(s) \subseteq i..Len(s)
  OBVIOUS
<1> QED BY <1>1, <1>2 DEF Within, Places

(* and with one element before it when that is at the earlier. *)
LEMMA WithinMore ==
  ASSUME NEW Text, NEW c \in Seq(Text), NEW s \in Seq(Text), NEW i \in 1..Len(s), Within(c, 1, s, i + 1)
  PROVE  Within(<<s[i]>> \o c, 1, s, i)
<1> DEFINE N == Len(c) d == <<s[i]>> \o c
<1>1. PICK f : Places(f, c, 1, s, i + 1)
  BY DEF Within
<1>2. /\ N \in Nat /\ d \in Seq(Text) /\ Len(d) = N + 1
      /\ \A x \in 1..N + 1 : d[x] = IF x = 1 THEN s[i] ELSE c[x - 1]
  <2>1. <<s[i]>> \in Seq(Text) /\ Len(<<s[i]>>) = 1 /\ <<s[i]>>[1] = s[i]
    OBVIOUS
  <2>2. /\ d \in Seq(Text) /\ Len(d) = Len(<<s[i]>>) + Len(c)
        /\ \A x \in 1..Len(<<s[i]>>) + Len(c) :
             d[x] = IF x <= Len(<<s[i]>>) THEN <<s[i]>>[x] ELSE c[x - Len(<<s[i]>>)]
    BY <2>1, ConcatProperties
  <2> HIDE DEF d
  <2>3. N \in Nat /\ \A x \in 1..N + 1 : x <= 1 <=> x = 1
    OBVIOUS
  <2> QED BY <2>1, <2>2, <2>3
<1> HIDE DEF N, d
<1> DEFINE g == [x \in 1..N + 1 |-> IF x = 1 THEN i ELSE f[x - 1]]
<1>3. \A x \in 1..N + 1 : x = 1 \/ (x # 1 /\ x - 1 \in 1..N /\ f[x - 1] \in (i + 1)..Len(s))
  <2>1. \A x \in 1..N : f[x] \in (i + 1)..Len(s)
    BY <1>1 DEF Places, N
  <2>2. \A x \in 1..N + 1 : x = 1 \/ (x # 1 /\ x - 1 \in 1..N)
    BY <1>2
  <2> QED BY <2>1, <2>2
<1>4. \A x \in 1..N + 1 : g[x] = (IF x = 1 THEN i ELSE f[x - 1]) /\ g[x] \in i..Len(s)
  BY <1>3
<1>5. \A x \in 1..N + 1 : s[g[x]] = d[x]
  <2> TAKE x \in 1..N + 1
  <2>1. CASE x = 1
    BY <1>2, <1>4, <2>1
  <2>2. CASE x # 1
    <3>1. x - 1 \in 1..N
      BY <1>3, <2>2
    <3>2. s[f[x - 1]] = c[x - 1]
      BY <1>1, <3>1 DEF Places, N
    <3> QED BY <1>2, <1>4, <2>2, <3>2
  <2> QED BY <2>1, <2>2
<1>6. \A x, y \in 1..N + 1 : x < y => g[x] < g[y]
  <2> SUFFICES ASSUME NEW x \in 1..N + 1, NEW y \in 1..N + 1, x < y PROVE g[x] < g[y]
    OBVIOUS
  <2>1. y # 1 /\ y - 1 \in 1..N /\ f[y - 1] \in (i + 1)..Len(s) /\ g[y] = f[y - 1]
    <3>1. y # 1
      BY <1>2
    <3> QED BY <1>3, <1>4, <3>1
  <2>2. CASE x = 1
    BY <1>4, <2>1, <2>2
  <2>3. CASE x # 1
    <3>1. x - 1 \in 1..N /\ g[x] = f[x - 1] /\ x - 1 < y - 1
      BY <1>2, <1>3, <1>4, <2>3
    <3>2. f[x - 1] < f[y - 1]
      BY <1>1, <2>1, <3>1 DEF Places, N
    <3> QED BY <2>1, <3>1, <3>2
  <2> QED BY <2>2, <2>3
<1>7. g \in [1..N + 1 -> i..Len(s)]
  BY <1>4
<1> HIDE DEF g
<1> QED BY <1>2, <1>5, <1>6, <1>7 DEF Within, Places, d

(* Nothing stands anywhere. *)
LEMMA WithinNothing ==
  ASSUME NEW s, NEW i
  PROVE  Within(<<>>, 1, s, i)
<1> DEFINE f == [x \in 1..0 |-> i]
<1>1. Len(<<>>) = 0 /\ 1..0 = {}
  OBVIOUS
<1>2. f \in [1..0 -> i..Len(s)]
  BY <1>1
<1> HIDE DEF f
<1> QED BY <1>1, <1>2 DEF Within, Places

(* The walk stands in both files, and is as long as the table says. *)
LEMMA WalkStands ==
  ASSUME NEW Text, NEW a \in Seq(Text), NEW b \in Seq(Text), NEW t, NEW w,
         IsTable(t, a, b), IsWalk(w, t, a, b, Text)
  PROVE  \A i \in 1..Len(a) + 1, j \in 1..Len(b) + 1 :
           /\ Len(w[<<i, j>>]) = t[<<i, j>>]
           /\ Within(w[<<i, j>>], 1, a, i) /\ Within(w[<<i, j>>], 1, b, j)
<1> DEFINE n == Len(a) m == Len(b)
           Good(i, j) == /\ Len(w[<<i, j>>]) = t[<<i, j>>]
                         /\ Within(w[<<i, j>>], 1, a, i) /\ Within(w[<<i, j>>], 1, b, j)
           T == {c \in Grid(n, m) : Good(c[1], c[2])}
<1>1. /\ n \in Nat /\ m \in Nat /\ \A i \in 1..n, j \in 1..m : /\ ~Edge(n, m, i, j) /\ i \in 1..n + 1 /\ j \in 1..m + 1
                                                             /\ i + 1 \in 1..n + 1 /\ j + 1 \in 1..m + 1
      /\ \A i \in 1..n : a[i] \in Text
  BY DEF Edge
<1>2. \A i \in 1..n + 1, j \in 1..m + 1 : <<i, j>> \in Grid(n, m) /\ (<<i, j>> \in T <=> Good(i, j))
  BY DEF Grid
<1>3. \A i \in 1..n + 1, j \in 1..m + 1 : w[<<i, j>>] \in Seq(Text) /\ t[<<i, j>>] \in Nat
  BY <1>2 DEF IsWalk, IsTable
<1> HIDE DEF n, m, T
<1>4. ASSUME NEW i \in 1..n + 1, NEW j \in 1..m + 1, Edge(n, m, i, j) PROVE Good(i, j)
  <2>1. w[<<i, j>>] = <<>> /\ t[<<i, j>>] = 0
    BY <1>4 DEF IsWalk, WalkAt, IsTable, TableAt, n, m
  <2> QED BY <2>1, WithinNothing
<1>5. ASSUME NEW i \in 1..n, NEW j \in 1..m, Good(i + 1, j + 1), Good(i + 1, j), Good(i, j + 1)
      PROVE  Good(i, j)
  <2>1. i \in Nat /\ j \in Nat /\ i \in 1..n + 1 /\ j \in 1..m + 1 /\ i + 1 \in 1..n + 1 /\ j + 1 \in 1..m + 1 /\ ~Edge(n, m, i, j)
    BY <1>1
  <2>2. WalkAt(w, t, a, b, i, j) /\ TableAt(t, a, b, i, j)
    BY <2>1 DEF IsWalk, IsTable, n, m
  <2>3. CASE a[i] = b[j]
    <3> DEFINE c == w[<<i + 1, j + 1>>]
    <3>1. c \in Seq(Text) /\ <<a[i]>> \in Seq(Text) /\ Len(<<a[i]>>) = 1
      BY <1>1, <1>3, <2>1
    <3>2. w[<<i, j>>] = <<a[i]>> \o c /\ t[<<i, j>>] = t[<<i + 1, j + 1>>] + 1
      BY <2>1, <2>2, <2>3 DEF WalkAt, TableAt, n, m
    <3>3. Len(c) = t[<<i + 1, j + 1>>] /\ Within(c, 1, a, i + 1) /\ Within(c, 1, b, j + 1)
      BY <1>5
    <3> HIDE DEF c
    <3>4. Len(<<a[i]>> \o c) = 1 + Len(c) /\ Len(c) \in Nat
      BY <3>1, ConcatProperties
    <3>5. Within(<<a[i]>> \o c, 1, a, i)
      BY <3>1, <3>3, WithinMore DEF n
    <3>6. Within(<<b[j]>> \o c, 1, b, j)
      BY <3>1, <3>3, WithinMore DEF m
    <3> QED BY <2>3, <3>2, <3>3, <3>4, <3>5, <3>6
  <2>4. CASE a[i] # b[j] /\ t[<<i + 1, j>>] >= t[<<i, j + 1>>]
    <3>1. w[<<i, j>>] = w[<<i + 1, j>>] /\ t[<<i, j>>] = t[<<i + 1, j>>]
      BY <2>1, <2>2, <2>4 DEF WalkAt, TableAt, n, m
    <3>2. Within(w[<<i + 1, j>>], 1, a, i)
      BY <1>3, <1>5, <2>1, WithinEarlier
    <3> QED BY <1>5, <3>1, <3>2
  <2>5. CASE a[i] # b[j] /\ ~(t[<<i + 1, j>>] >= t[<<i, j + 1>>])
    <3>1. w[<<i, j>>] = w[<<i, j + 1>>] /\ t[<<i, j>>] = t[<<i, j + 1>>]
      BY <2>1, <2>2, <2>5 DEF WalkAt, TableAt, n, m
    <3>2. Within(w[<<i, j + 1>>], 1, b, j)
      BY <1>3, <1>5, <2>1, WithinEarlier
    <3> QED BY <1>5, <3>1, <3>2
  <2> QED BY <2>3, <2>4, <2>5
<1>6. \A i \in 1..n + 1, j \in 1..m + 1 : <<i, j>> \in T
  <2>1. \A i \in 1..n + 1, j \in 1..m + 1 : Edge(n, m, i, j) => <<i, j>> \in T
    <3> HIDE DEF Good
    <3> QED BY <1>2, <1>4
  <2>2. \A i \in 1..n, j \in 1..m :
          <<i + 1, j + 1>> \in T /\ <<i + 1, j>> \in T /\ <<i, j + 1>> \in T => <<i, j>> \in T
    <3> HIDE DEF Good
    <3> QED BY <1>1, <1>2, <1>5
  <2> QED BY <1>1, <2>1, <2>2, Backwards
<1> QED BY <1>2, <1>6 DEF n, m

(* The lines of a at K stand in b, from the j-th on, in the same order. *)
Matching(K, f, a, b, j) ==
  /\ f \in [K -> j..Len(b)]
  /\ \A x \in K : b[f[x]] = a[x]
  /\ \A x, y \in K : x < y => f[x] < f[y]

(* No lines that stand in both are more than the table says. *)
LEMMA TableBounds ==
  ASSUME NEW Text, NEW a \in Seq(Text), NEW b \in Seq(Text), NEW t, IsTable(t, a, b)
  PROVE  \A i \in 1..Len(a) + 1, j \in 1..Len(b) + 1 : \A K \in SUBSET (i..Len(a)) :
           (\E f : Matching(K, f, a, b, j)) => Cardinality(K) <= t[<<i, j>>]
<1> DEFINE n == Len(a) m == Len(b)
           Good(i, j) == \A K \in SUBSET (i..n) :
                           (\E f : Matching(K, f, a, b, j)) => Cardinality(K) <= t[<<i, j>>]
           T == {c \in Grid(n, m) : Good(c[1], c[2])}
<1>1. /\ n \in Nat /\ m \in Nat /\ \A i \in 1..n, j \in 1..m : /\ ~Edge(n, m, i, j) /\ i \in 1..n + 1 /\ j \in 1..m + 1
                                                             /\ i + 1 \in 1..n + 1 /\ j + 1 \in 1..m + 1
  BY DEF Edge
<1>2. \A i \in 1..n + 1, j \in 1..m + 1 : <<i, j>> \in Grid(n, m) /\ (<<i, j>> \in T <=> Good(i, j))
  BY DEF Grid
<1>3. \A i \in 1..n + 1, j \in 1..m + 1 : t[<<i, j>>] \in Nat
  BY <1>2 DEF IsTable
<1>4. m = Len(b) /\ n = Len(a)
  OBVIOUS
<1> HIDE DEF n, m, T
<1>5. ASSUME NEW i \in Nat, NEW K \in SUBSET (i..n) PROVE IsFiniteSet(K) /\ Cardinality(K) \in Nat
  <2>1. IsFiniteSet(i..n)
    BY <1>1, FS_Interval
  <2>2. IsFiniteSet(K)
    BY <2>1, FS_Subset
  <2> QED BY <2>2, FS_CardinalityType
<1>6. ASSUME NEW i \in 1..n + 1, NEW j \in 1..m + 1, Edge(n, m, i, j) PROVE Good(i, j)
  <2> SUFFICES ASSUME NEW K \in SUBSET (i..n), NEW f, Matching(K, f, a, b, j)
               PROVE  Cardinality(K) <= t[<<i, j>>]
    OBVIOUS
  <2>1. K = {}
    <3>1. CASE i > n
      BY <1>1, <3>1
    <3>2. CASE j > m
      <4>1. j..Len(b) = {}
        BY <1>1, <1>4, <3>2
      <4> QED BY <4>1 DEF Matching
    <3> QED BY <1>6, <3>1, <3>2 DEF Edge
  <2>2. Cardinality(K) = 0
    BY <2>1, FS_EmptySet
  <2>3. t[<<i, j>>] \in Nat
    BY <1>3
  <2> QED BY <2>2, <2>3
<1>7. ASSUME NEW i \in 1..n, NEW j \in 1..m, Good(i + 1, j + 1), Good(i + 1, j), Good(i, j + 1)
      PROVE  Good(i, j)
  <2> SUFFICES ASSUME NEW K \in SUBSET (i..n), NEW f, Matching(K, f, a, b, j)
               PROVE  Cardinality(K) <= t[<<i, j>>]
    OBVIOUS
  <2>1. i \in Nat /\ j \in Nat /\ i \in 1..n + 1 /\ j \in 1..m + 1 /\ i + 1 \in 1..n + 1 /\ j + 1 \in 1..m + 1 /\ ~Edge(n, m, i, j)
    BY <1>1
  <2>2. TableAt(t, a, b, i, j)
    BY <2>1, <1>4 DEF IsTable
  <2>3. t[<<i, j>>] \in Nat /\ t[<<i + 1, j + 1>>] \in Nat /\ t[<<i + 1, j>>] \in Nat /\ t[<<i, j + 1>>] \in Nat
    BY <1>3, <2>1
  <2>4. IsFiniteSet(K) /\ Cardinality(K) \in Nat
    BY <1>5, <2>1
  <2>5. /\ f \in [K -> j..m] /\ \A x \in K : x \in i..n /\ f[x] \in j..m
        /\ \A x \in K : b[f[x]] = a[x]
        /\ \A x, y \in K : x < y => f[x] < f[y]
    BY <1>4 DEF Matching
  <2>6. ASSUME a[i] = b[j], K # {} PROVE Cardinality(K) <= t[<<i, j>>]
    <3>1. PICK k \in K : \A y \in K : k <= y
      <4>1. K \in SUBSET Nat
        BY <2>1, <2>5
      <4> QED BY <2>6, <4>1, Least
    <3> DEFINE J == K \ {k} g == [x \in J |-> f[x]]
    <3>2. \A x \in J : x \in K /\ x > k /\ x \in (i + 1)..n /\ f[x] \in (j + 1)..m
      BY <1>1, <2>1, <2>5, <3>1
    <3>3. Matching(J, g, a, b, j + 1)
      <4>1. g \in [J -> (j + 1)..m]
        BY <3>2
      <4>2. \A x \in J : g[x] = f[x]
        OBVIOUS
      <4> HIDE DEF J, g
      <4>3. \A x \in J : b[g[x]] = a[x]
        BY <2>5, <3>2, <4>2
      <4>4. \A x, y \in J : x < y => g[x] < g[y]
        BY <2>5, <3>2, <4>2
      <4> QED BY <1>4, <4>1, <4>3, <4>4 DEF Matching
    <3>4. J \in SUBSET ((i + 1)..n)
      BY <3>2
    <3>5. Cardinality(J) <= t[<<i + 1, j + 1>>]
      <4> HIDE DEF J, g
      <4> QED BY <1>7, <3>3, <3>4
    <3>6. Cardinality(J) = Cardinality(K) - 1
      BY <2>4, <3>1, FS_RemoveElement
    <3>7. t[<<i, j>>] = t[<<i + 1, j + 1>>] + 1
      BY <1>4, <2>1, <2>2, <2>6 DEF TableAt
    <3> HIDE DEF J
    <3> QED BY <2>3, <2>4, <3>5, <3>6, <3>7
  <2>7. CASE K = {}
    BY <2>3, <2>7, FS_EmptySet
  <2>8. CASE a[i] # b[j] /\ i \notin K
    <3>1. K \in SUBSET ((i + 1)..n)
      BY <1>1, <2>1, <2>5, <2>8
    <3>2. Cardinality(K) <= t[<<i + 1, j>>]
      BY <1>7, <3>1
    <3>3. t[<<i + 1, j>>] <= t[<<i, j>>]
      BY <1>4, <2>1, <2>2, <2>3, <2>8 DEF TableAt
    <3> QED BY <2>3, <2>4, <3>2, <3>3
  <2>9. CASE a[i] # b[j] /\ i \in K
    <3>1. \A x \in K : f[x] \in (j + 1)..m
      <4> TAKE x \in K
      <4>1. f[i] \in j..m /\ f[i] # j
        BY <2>5, <2>9
      <4>2. x = i \/ i < x
        BY <2>1, <2>5
      <4>3. x = i \/ f[i] < f[x]
        BY <2>5, <2>9, <4>2
      <4> QED BY <1>1, <2>1, <2>5, <4>1, <4>3
    <3>2. f \in [K -> (j + 1)..m]
      BY <2>5, <3>1
    <3>3. Matching(K, f, a, b, j + 1)
      BY <1>4, <2>5, <3>2 DEF Matching
    <3>4. Cardinality(K) <= t[<<i, j + 1>>]
      BY <1>7, <3>3
    <3>5. t[<<i, j + 1>>] <= t[<<i, j>>]
      BY <1>4, <2>1, <2>2, <2>3, <2>9 DEF TableAt
    <3> QED BY <2>3, <2>4, <3>4, <3>5
  <2> QED BY <2>6, <2>7, <2>8, <2>9
<1>8. \A i \in 1..n + 1, j \in 1..m + 1 : <<i, j>> \in T
  <2>1. \A i \in 1..n + 1, j \in 1..m + 1 : Edge(n, m, i, j) => <<i, j>> \in T
    <3> HIDE DEF Good
    <3> QED BY <1>2, <1>6
  <2>2. \A i \in 1..n, j \in 1..m :
          <<i + 1, j + 1>> \in T /\ <<i + 1, j>> \in T /\ <<i, j + 1>> \in T => <<i, j>> \in T
    <3> HIDE DEF Good
    <3> QED BY <1>1, <1>2, <1>7
  <2> QED BY <1>1, <2>1, <2>2, Backwards
<1> QED BY <1>2, <1>4, <1>8

(* So lcs returns a longest sequence of lines that stands in both.            *)
LEMMA LcsIsLongest ==
  ASSUME NEW Text, NEW a \in Seq(Text), NEW b \in Seq(Text)
  PROVE  /\ lcs(a, b) \in Seq(Text)
         /\ Within(lcs(a, b), 1, a, 1) /\ Within(lcs(a, b), 1, b, 1)
         /\ \A K \in SUBSET (1..Len(a)) : InBoth(K, a, b) => Cardinality(K) <= Len(lcs(a, b))
<1>1. PICK t, w : IsTable(t, a, b) /\ IsWalk(w, t, a, b, Text) /\ lcs(a, b) = w[<<1, 1>>]
  BY LcsIs
<1>2. 1 \in 1..Len(a) + 1 /\ 1 \in 1..Len(b) + 1 /\ <<1, 1>> \in Grid(Len(a), Len(b))
  BY DEF Grid
<1>3. /\ Len(w[<<1, 1>>]) = t[<<1, 1>>]
      /\ Within(w[<<1, 1>>], 1, a, 1) /\ Within(w[<<1, 1>>], 1, b, 1)
  BY <1>1, <1>2, WalkStands
<1>4. ASSUME NEW K \in SUBSET (1..Len(a)), InBoth(K, a, b)
      PROVE  Cardinality(K) <= t[<<1, 1>>]
  <2>1. \E f : Matching(K, f, a, b, 1)
    BY <1>4 DEF InBoth, Matching
  <2> QED BY <1>1, <1>2, <2>1, TableBounds
<1>5. w[<<1, 1>>] \in Seq(Text)
  BY <1>1, <1>2 DEF IsWalk
<1> QED BY <1>1, <1>3, <1>4, <1>5

-----------------------------------------------------------------------------
(* The merge *)

(* Where the next common line stands, what comes after it stands behind.      *)
LEMMA NextIs ==
  ASSUME NEW Text, NEW c \in Seq(Text), NEW s \in Seq(Text),
         NEW k \in 1..Len(c), NEW i \in 1..Len(s) + 1, Within(c, k, s, i)
  PROVE  /\ NextOf(s, i, c[k]) \in i..Len(s) /\ s[NextOf(s, i, c[k])] = c[k]
         /\ Within(c, k + 1, s, NextOf(s, i, c[k]) + 1)
<1> DEFINE n == Len(c) m == Len(s) x == NextOf(s, i, c[k]) T == {y \in i..m : s[y] = c[k]}
<1>1. n \in Nat /\ m \in Nat /\ k \in Nat /\ i \in Nat /\ k \in k..n
  OBVIOUS
<1>2. PICK f : Places(f, c, k, s, i)
  BY DEF Within
<1>3. f \in [k..n -> i..m] /\ s[f[k]] = c[k] /\ f[k] \in i..m
  BY <1>1, <1>2 DEF Places
<1>4. f[k] \in T /\ T \in SUBSET Nat
  BY <1>1, <1>3
<1>5. x = Min(T)
  BY DEF NextOf
<1> HIDE DEF T, x
<1>6. x \in T /\ x <= f[k]
  BY <1>4, <1>5, MinIsLeast
<1>7. x \in i..m /\ s[x] = c[k]
  BY <1>6 DEF T
<1> DEFINE g == [y \in (k + 1)..n |-> f[y]]
<1>8. \A y \in (k + 1)..n : y \in k..n /\ k < y /\ g[y] = f[y]
  BY <1>1
<1>9. \A y \in (k + 1)..n : f[y] \in (x + 1)..m
  <2> TAKE y \in (k + 1)..n
  <2>1. f[k] < f[y] /\ f[y] \in i..m
    BY <1>1, <1>2, <1>3, <1>8 DEF Places, n, m
  <2> QED BY <1>1, <1>3, <1>6, <1>7, <2>1
<1>10. Places(g, c, k + 1, s, x + 1)
  <2>1. g \in [(k + 1)..n -> (x + 1)..m]
    BY <1>9
  <2> HIDE DEF g
  <2>2. \A y \in (k + 1)..n : s[g[y]] = c[y]
    BY <1>2, <1>8 DEF Places, n
  <2>3. \A y, z \in (k + 1)..n : y < z => g[y] < g[z]
    BY <1>2, <1>8 DEF Places, n
  <2> QED BY <2>1, <2>2, <2>3 DEF Places, n, m
<1> QED BY <1>7, <1>10 DEF Within, x, m

(* Of what is told: the old file, the new one and the lines common to both.   *)
OldSide(l) == Side(l, "-")
NewSide(l)  == Side(l, "+")
CommonLen(l) == Len(Marked(l, {" "}))

(* What is told in two parts. *)
LEMMA ToldJoin ==
  ASSUME NEW Text, NEW u \in Seq(Told(Text)), NEW v \in Seq(Told(Text))
  PROVE  /\ u \o v \in Seq(Told(Text))
         /\ OldSide(u) \in Seq(Text) /\ OldSide(u \o v) = OldSide(u) \o OldSide(v)
         /\ NewSide(u) \in Seq(Text) /\ NewSide(u \o v) = NewSide(u) \o NewSide(v)
         /\ CommonLen(u) \in Nat /\ CommonLen(u \o v) = CommonLen(u) + CommonLen(v)
<1>1. u \o v \in Seq(Told(Text))
  BY ConcatProperties
<1>2. ASSUME NEW sign PROVE Side(u, sign) \in Seq(Text) /\ Side(u \o v, sign) = Side(u, sign) \o Side(v, sign)
  <2>1. Side(u, sign) \in Seq(Text)
    BY SideJoin
  <2>2. Side(u \o v, sign) = Side(u, sign) \o Side(v, sign)
    BY SideJoin
  <2> QED BY <2>1, <2>2
<1> DEFINE minus == "-" plus == "+"
<1> HIDE DEF minus, plus
<1>3. Side(u, minus) \in Seq(Text) /\ Side(u \o v, minus) = Side(u, minus) \o Side(v, minus)
  BY <1>2
<1>4. Side(u, plus) \in Seq(Text) /\ Side(u \o v, plus) = Side(u, plus) \o Side(v, plus)
  BY <1>2
<1> DEFINE M == {" "}
<1> HIDE DEF M
<1>5. Marked(u, M) \in Seq(Told(Text)) /\ Marked(v, M) \in Seq(Told(Text))
  BY MarkedType
<1>6. Marked(u \o v, M) = Marked(u, M) \o Marked(v, M)
  BY MarkedJoin
<1>7. Len(Marked(u, M)) \in Nat /\ Len(Marked(u \o v, M)) = Len(Marked(u, M)) + Len(Marked(v, M))
  BY <1>5, <1>6, ConcatProperties
<1> QED BY <1>1, <1>3, <1>4, <1>7 DEF minus, plus, M, OldSide, NewSide, CommonLen

(* A line in both. *)
LEMMA Kept ==
  ASSUME NEW Text, NEW c \in Text
  PROVE  /\ <<<<" ", c>>>> \in Seq(Told(Text))
         /\ OldSide(<<<<" ", c>>>>) = <<c>> /\ NewSide(<<<<" ", c>>>>) = <<c>>
         /\ CommonLen(<<<<" ", c>>>>) = 1
<1> DEFINE x == <<c>> y == <<<<" ", c>>>>
<1>1. x \in Seq(Text) /\ Len(x) = 1 /\ x[1] = c /\ " " \in Mark
  BY DEF Mark
<1>2. Signed(" ", x) = y
  <2> DEFINE z == <<" ", c>>
  <2> HIDE DEF x, z
  <2>1. \A i \in 1..1 : <<" ", x[i]>> = z
    <3>0. \A i \in 1..1 : i = 1
      OBVIOUS
    <3>1. \A i \in 1..1 : x[i] = c
      BY <1>1, <3>0
    <3> HIDE DEF y
    <3> QED BY <3>1 DEF z
  <2> DEFINE q(i) == <<" ", x[i]>>
  <2>2. Signed(" ", x) = [i \in 1..1 |-> q(i)]
    BY <1>1 DEF Signed
  <2>3. \A i \in 1..1 : q(i) = z
    BY <2>1
  <2> HIDE DEF q
  <2>4. [i \in 1..1 |-> q(i)] = [i \in 1..1 |-> z]
    BY <2>3
  <2>5. [i \in 1..1 |-> z] = <<z>>
    OBVIOUS
  <2> QED BY <2>2, <2>4, <2>5 DEF y, z
<1> HIDE DEF x, y
<1>3. y \in Seq(Told(Text))
  BY <1>1, <1>2, SignedIs
<1>4. ASSUME NEW sign PROVE Side(y, sign) = x
  <2>1. " " \in {" ", sign}
    OBVIOUS
  <2> QED BY <1>1, <1>2, <2>1, SignedIs
<1>5. ASSUME NEW M, " " \in M PROVE Len(Marked(y, M)) = 1
  BY <1>1, <1>2, <1>5, SignedIs
<1>6. OldSide(y) = x /\ NewSide(y) = x
  BY <1>4 DEF OldSide, NewSide
<1>7. CommonLen(y) = 1
  BY <1>5 DEF CommonLen
<1> QED BY <1>3, <1>6, <1>7 DEF x, y

(* Lines of one file only. *)
LEMMA Removes ==
  ASSUME NEW Text, NEW x \in Seq(Text)
  PROVE  /\ Signed("-", x) \in Seq(Told(Text)) /\ OldSide(Signed("-", x)) = x
         /\ NewSide(Signed("-", x)) = <<>> /\ CommonLen(Signed("-", x)) = 0
<1> DEFINE r == Signed("-", x) B == {" "}
<1>1. "-" \in Mark /\ "-" \in {" ", "-"} /\ "-" \notin {" ", "+"} /\ "-" \notin B
  BY DEF Mark
<1> HIDE DEF B
<1>2. r \in Seq(Told(Text)) /\ Len(Marked(r, B)) = 0
  BY <1>1, SignedIs
<1>3. Side(r, "-") = x
  BY <1>1, SignedIs
<1>4. Side(r, "+") = <<>>
  BY <1>1, SignedIs
<1> QED BY <1>2, <1>3, <1>4 DEF OldSide, NewSide, CommonLen, B

(* Lines of the other. *)
LEMMA Adds ==
  ASSUME NEW Text, NEW x \in Seq(Text)
  PROVE  /\ Signed("+", x) \in Seq(Told(Text)) /\ OldSide(Signed("+", x)) = <<>>
         /\ NewSide(Signed("+", x)) = x /\ CommonLen(Signed("+", x)) = 0
<1> DEFINE r == Signed("+", x) B == {" "}
<1>1. "+" \in Mark /\ "+" \in {" ", "+"} /\ "+" \notin {" ", "-"} /\ "+" \notin B
  BY DEF Mark
<1> HIDE DEF B
<1>2. r \in Seq(Told(Text)) /\ Len(Marked(r, B)) = 0
  BY <1>1, SignedIs
<1>3. Side(r, "-") = <<>>
  BY <1>1, SignedIs
<1>4. Side(r, "+") = x
  BY <1>1, SignedIs
<1> QED BY <1>2, <1>3, <1>4 DEF OldSide, NewSide, CommonLen, B

(* Joining, where a lemma is to be instantiated. *)
Then(s, t) == s \o t

Replacing(out, x, y) == out \o Signed("-", x) \o Signed("+", y)

(* What is removed, then what is added. *)
LEMMA Replaced ==
  ASSUME NEW Text, NEW x \in Seq(Text), NEW y \in Seq(Text), NEW out \in Seq(Told(Text))
  PROVE  /\ Replacing(out, x, y) \in Seq(Told(Text))
         /\ OldSide(Replacing(out, x, y)) = Then(OldSide(out), x)
         /\ NewSide(Replacing(out, x, y)) = Then(NewSide(out), y)
         /\ CommonLen(Replacing(out, x, y)) = CommonLen(out)
<1> DEFINE r == Signed("-", x) s == Signed("+", y) u == out \o r
<1>1. r \in Seq(Told(Text)) /\ OldSide(r) = x /\ NewSide(r) = <<>> /\ CommonLen(r) = 0
  BY Removes
<1>2. s \in Seq(Told(Text)) /\ OldSide(s) = <<>> /\ NewSide(s) = y /\ CommonLen(s) = 0
  BY Adds
<1>3. Replacing(out, x, y) = u \o s
  BY DEF Replacing
<1> HIDE DEF r, s
<1>4. u \in Seq(Told(Text)) /\ CommonLen(out) \in Nat /\ CommonLen(u) = CommonLen(out) + CommonLen(r)
  BY <1>1, ToldJoin
<1>5. OldSide(out) \in Seq(Text) /\ OldSide(u) = OldSide(out) \o OldSide(r)
  BY <1>1, ToldJoin
<1>6. NewSide(out) \in Seq(Text) /\ NewSide(u) = NewSide(out) \o NewSide(r)
  BY <1>1, ToldJoin
<1> HIDE DEF u
<1>7. u \o s \in Seq(Told(Text)) /\ CommonLen(u \o s) = CommonLen(u) + CommonLen(s)
  BY <1>2, <1>4, ToldJoin
<1>8. OldSide(u) \in Seq(Text) /\ OldSide(u \o s) = OldSide(u) \o OldSide(s)
  BY <1>2, <1>4, ToldJoin
<1>9. NewSide(u \o s) = NewSide(u) \o NewSide(s)
  BY <1>2, <1>4, ToldJoin
<1>10. NewSide(out) \o <<>> = NewSide(out) /\ OldSide(u) \o <<>> = OldSide(u)
  BY <1>6, <1>8, ConcatEmptySeq
<1>11. CommonLen(u \o s) = CommonLen(out)
  BY <1>1, <1>2, <1>4, <1>7
<1>12. OldSide(u \o s) = OldSide(out) \o x
  BY <1>1, <1>2, <1>5, <1>8, <1>10
<1>13. NewSide(u \o s) = NewSide(out) \o y
  BY <1>1, <1>2, <1>6, <1>9, <1>10
<1> QED BY <1>3, <1>7, <1>11, <1>12, <1>13 DEF Then

Merging(a, b, Text) == [i : 1..Len(a) + 1, j : 1..Len(b) + 1, out : Seq(Told(Text))]

(* After n common lines: both files up to there, and the other common lines   *)
(* still to come in both.                                                     *)
MergedTo(x, n, c, a, b) ==
  /\ OldSide(x.out) = SubSeq(a, 1, x.i - 1) /\ NewSide(x.out) = SubSeq(b, 1, x.j - 1)
  /\ CommonLen(x.out) = n
  /\ Within(c, n + 1, a, x.i) /\ Within(c, n + 1, b, x.j)

(* What stands between two places. *)
LEMMA PartType ==
  ASSUME NEW Text, NEW s \in Seq(Text), NEW i \in 1..Len(s) + 1, NEW k \in i..Len(s)
  PROVE  SubSeq(s, i, k - 1) \in Seq(Text) /\ k \in 1..Len(s) /\ k + 1 - 1 = k /\ k + 1 \in 1..Len(s) + 1
<1> DEFINE m == Len(s)
<1>1. m \in Nat /\ i \in 1..m + 1 /\ k \in i..m
  OBVIOUS
<1>2. \A q \in 1..m : s[q] \in Text
  OBVIOUS
<1> HIDE DEF m
<1>3. /\ k \in 1..m /\ k + 1 - 1 = k /\ k + 1 \in 1..m + 1 /\ i \in Int /\ k - 1 \in Int
      /\ \A q \in i..k - 1 : q \in 1..m
  BY <1>1
<1>4. \A q \in i..k - 1 : s[q] \in Text
  BY <1>2, <1>3
<1>5. SubSeq(s, i, k - 1) \in Seq(Text)
  BY <1>3, <1>4, SubSeqProperties
<1> QED BY <1>3, <1>5 DEF m

(* The next common line is merged after what comes before it in each file.    *)
LEMMA MergeKeeps ==
  ASSUME NEW Text, NEW a \in Seq(Text), NEW b \in Seq(Text), NEW c \in Seq(Text),
         NEW n \in 1..Len(c), NEW x \in Merging(a, b, Text), MergedTo(x, n - 1, c, a, b)
  PROVE  /\ Merge(x, c[n], a, b) \in Merging(a, b, Text)
         /\ MergedTo(Merge(x, c[n], a, b), n, c, a, b)
<1> DEFINE i == NextOf(a, x.i, c[n]) j == NextOf(b, x.j, c[n]) y == Merge(x, c[n], a, b)
           r == SubSeq(a, x.i, i - 1) s == SubSeq(b, x.j, j - 1)
           o == x.out
           t == Replacing(o, r, s)
<1>1. /\ x.i \in 1..Len(a) + 1 /\ x.j \in 1..Len(b) + 1 /\ x.out \in Seq(Told(Text))
      /\ Len(a) \in Nat /\ Len(b) \in Nat /\ n - 1 + 1 = n /\ n \in Nat /\ c[n] \in Text
  BY DEF Merging
<1>2. i \in x.i..Len(a) /\ a[i] = c[n] /\ Within(c, n + 1, a, i + 1)
  <2>1. Within(c, n, a, x.i)
    BY <1>1 DEF MergedTo
  <2> QED BY <1>1, <2>1, NextIs
<1>3. j \in x.j..Len(b) /\ b[j] = c[n] /\ Within(c, n + 1, b, j + 1)
  <2>1. Within(c, n, b, x.j)
    BY <1>1 DEF MergedTo
  <2> QED BY <1>1, <2>1, NextIs
<1>4. y = [i |-> i + 1, j |-> j + 1, out |-> t \o <<<<" ", c[n]>>>>]
  BY DEF Merge, Replacing
<1> HIDE DEF i, j, y
<1>5. r \in Seq(Text) /\ s \in Seq(Text) /\ OldSide(x.out) \in Seq(Text) /\ NewSide(x.out) \in Seq(Text)
  <2>1. r \in Seq(Text)
    BY <1>1, <1>2, PartType
  <2>2. s \in Seq(Text)
    BY <1>1, <1>3, PartType
  <2>3. OldSide(x.out) \in Seq(Text)
    BY <1>1, ToldJoin
  <2>4. NewSide(x.out) \in Seq(Text)
    BY <1>1, ToldJoin
  <2> QED BY <2>1, <2>2, <2>3, <2>4
<1>6. /\ t \in Seq(Told(Text)) /\ OldSide(t) = OldSide(x.out) \o r /\ NewSide(t) = NewSide(x.out) \o s
      /\ CommonLen(t) = n - 1
  <2>1. CommonLen(o) = n - 1 /\ o \in Seq(Told(Text)) /\ r \in Seq(Text) /\ s \in Seq(Text)
    BY <1>1, <1>5 DEF MergedTo
  <2> HIDE DEF o, r, s
  <2>2. t \in Seq(Told(Text))
    BY <2>1, Replaced
  <2>3. CommonLen(t) = CommonLen(o)
    BY <2>1, Replaced
  <2>4. OldSide(t) = Then(OldSide(o), r)
    BY <2>1, Replaced
  <2>5. NewSide(t) = Then(NewSide(o), s)
    BY <2>1, Replaced
  <2> QED BY <2>1, <2>2, <2>3, <2>4, <2>5 DEF o, Then
<1>7. /\ <<<<" ", c[n]>>>> \in Seq(Told(Text)) /\ CommonLen(<<<<" ", c[n]>>>>) = 1
      /\ OldSide(<<<<" ", c[n]>>>>) = <<c[n]>> /\ NewSide(<<<<" ", c[n]>>>>) = <<c[n]>>
  BY <1>1, Kept
<1> HIDE DEF t
<1>8. y.out \in Seq(Told(Text)) /\ OldSide(y.out) = OldSide(x.out) \o r \o <<c[n]>>
      /\ NewSide(y.out) = NewSide(x.out) \o s \o <<c[n]>>
  <2> DEFINE z == <<<<" ", c[n]>>>>
  <2>1. z \in Seq(Told(Text)) /\ OldSide(z) = <<c[n]>> /\ NewSide(z) = <<c[n]>> /\ y.out = t \o z
    BY <1>4, <1>7
  <2> HIDE DEF r, s, z
  <2>2. t \o z \in Seq(Told(Text))
    BY <1>6, <2>1, ConcatProperties
  <2>3. OldSide(t \o z) = OldSide(t) \o OldSide(z)
    BY <1>6, <2>1, ToldJoin
  <2>4. NewSide(t \o z) = NewSide(t) \o NewSide(z)
    BY <1>6, <2>1, ToldJoin
  <2> QED BY <1>6, <2>1, <2>2, <2>3, <2>4
<1>9. CommonLen(y.out) = n
  <2> DEFINE z == <<<<" ", c[n]>>>>
  <2>1. z \in Seq(Told(Text)) /\ CommonLen(z) = 1 /\ y.out = t \o z
    BY <1>4, <1>7
  <2> HIDE DEF z
  <2>2. CommonLen(t \o z) = CommonLen(t) + CommonLen(z)
    BY <1>6, <2>1, ToldJoin
  <2> QED BY <1>1, <1>6, <2>1, <2>2
<1>10. OldSide(x.out) \o r \o <<c[n]>> = SubSeq(a, 1, i)
  <2>1. OldSide(x.out) = SubSeq(a, 1, x.i - 1)
    BY DEF MergedTo
  <2>2. SubSeq(a, 1, x.i - 1) \o r = SubSeq(a, 1, i - 1)
    <3> DEFINE m == Len(a) k == x.i
    <3>0. m \in Nat /\ k \in 1..m + 1 /\ i \in k..m
      BY <1>1, <1>2
    <3> HIDE DEF m, k
    <3>1. k - 1 \in 0..m /\ 1 - 1 = 0 /\ i - 1 \in k - 1..m /\ k - 1 + 1 = k /\ 1 \in 1..m + 1
      BY <3>0
    <3> USE DEF m, k
    <3> QED BY <3>1, ConcatAdjacentSubSeq
  <2>3. SubSeq(a, 1, i - 1) \o <<a[i]>> = SubSeq(a, 1, i)
    <3>1. i \in 1..Len(a)
      BY <1>1, <1>2, PartType
    <3>2. 1 \in 1..Len(a)
      BY <1>1, <3>1
    <3> QED BY <3>1, <3>2, SubSeqRecursiveSecond
  <2> QED BY <1>2, <2>1, <2>2, <2>3
<1>11. NewSide(x.out) \o s \o <<c[n]>> = SubSeq(b, 1, j)
  <2>1. NewSide(x.out) = SubSeq(b, 1, x.j - 1)
    BY DEF MergedTo
  <2>2. SubSeq(b, 1, x.j - 1) \o s = SubSeq(b, 1, j - 1)
    <3> DEFINE m == Len(b) k == x.j
    <3>0. m \in Nat /\ k \in 1..m + 1 /\ j \in k..m
      BY <1>1, <1>3
    <3> HIDE DEF m, k
    <3>1. k - 1 \in 0..m /\ 1 - 1 = 0 /\ j - 1 \in k - 1..m /\ k - 1 + 1 = k /\ 1 \in 1..m + 1
      BY <3>0
    <3> USE DEF m, k
    <3> QED BY <3>1, ConcatAdjacentSubSeq
  <2>3. SubSeq(b, 1, j - 1) \o <<b[j]>> = SubSeq(b, 1, j)
    <3>1. j \in 1..Len(b)
      BY <1>1, <1>3, PartType
    <3>2. 1 \in 1..Len(b)
      BY <1>1, <3>1
    <3> QED BY <3>1, <3>2, SubSeqRecursiveSecond
  <2> QED BY <1>3, <2>1, <2>2, <2>3
<1>12. y.i = i + 1 /\ y.j = j + 1 /\ y.i - 1 = i /\ y.j - 1 = j /\ y.i \in 1..Len(a) + 1 /\ y.j \in 1..Len(b) + 1
  <2>1. y.i = i + 1 /\ y.j = j + 1
    BY <1>4
  <2>2. i \in 1..Len(a) /\ i + 1 - 1 = i /\ i + 1 \in 1..Len(a) + 1
    BY <1>1, <1>2, PartType
  <2>3. j \in 1..Len(b) /\ j + 1 - 1 = j /\ j + 1 \in 1..Len(b) + 1
    BY <1>1, <1>3, PartType
  <2> QED BY <2>1, <2>2, <2>3
<1>13. y \in Merging(a, b, Text)
  BY <1>4, <1>8, <1>12 DEF Merging
<1>14. MergedTo(y, n, c, a, b)
  BY <1>2, <1>3, <1>8, <1>9, <1>10, <1>11, <1>12 DEF MergedTo
<1> QED BY <1>13, <1>14 DEF y

Follows(f, c, a, b, Text) ==
  /\ f[0] = [i |-> 1, j |-> 1, out |-> <<>>]
  /\ \A n \in 1..Len(c) :
       f[n - 1] \in Merging(a, b, Text) /\ MergedTo(f[n - 1], n - 1, c, a, b)
         => f[n] = Merge(f[n - 1], c[n], a, b)

(* So merging keeps to both files all along.                                  *)
LEMMA MergeFollows ==
  ASSUME NEW Text, NEW a \in Seq(Text), NEW b \in Seq(Text), NEW c \in Seq(Text),
         Within(c, 1, a, 1), Within(c, 1, b, 1), NEW f, Follows(f, c, a, b, Text)
  PROVE  \A n \in 0..Len(c) : f[n] \in Merging(a, b, Text) /\ MergedTo(f[n], n, c, a, b)
<1> DEFINE N == Len(c) S == Merging(a, b, Text)
           T == {n \in 0..N : f[n] \in S /\ MergedTo(f[n], n, c, a, b)}
           x == [i |-> 1, j |-> 1, out |-> <<>>]
<1>1. N \in Nat /\ 0 \in 0..N
  OBVIOUS
<1>2. x \in S
  <2>1. 1 \in 1..Len(a) + 1 /\ 1 \in 1..Len(b) + 1
    OBVIOUS
  <2>2. <<>> \in Seq(Told(Text))
    OBVIOUS
  <2> QED BY <2>1, <2>2 DEF Merging
<1>3. MergedTo(x, 0, c, a, b)
  <2>1. x.i = 1 /\ x.j = 1 /\ x.out = <<>> /\ x.i - 1 = 0 /\ x.j - 1 = 0
    OBVIOUS
  <2>2. OldSide(<<>>) = <<>> /\ NewSide(<<>>) = <<>> /\ CommonLen(<<>>) = 0
    <3>1. \A M : Marked(<<>>, M) = <<>>
      BY MarkedOfNone
    <3>2. \A sign : Side(<<>>, sign) = <<>>
      <4>1. Texts(<<>>) = <<>>
        BY DEF Texts
      <4>2. \A sign : Side(<<>>, sign) = Texts(Marked(<<>>, {" ", sign}))
        BY DEF Side, Texts
      <4> QED BY <3>1, <4>1, <4>2
    <3>3. Len(<<>>) = 0
      OBVIOUS
    <3> QED BY <3>1, <3>2, <3>3 DEF OldSide, NewSide, CommonLen
  <2>3. SubSeq(a, 1, 0) = <<>> /\ SubSeq(b, 1, 0) = <<>>
    BY SubSeqEmpty
  <2> HIDE DEF x
  <2>4. OldSide(x.out) = SubSeq(a, 1, x.i - 1) /\ NewSide(x.out) = SubSeq(b, 1, x.j - 1) /\ CommonLen(x.out) = 0
    BY <2>1, <2>2, <2>3
  <2>5. Within(c, 0 + 1, a, x.i) /\ Within(c, 0 + 1, b, x.j)
    <3>1. 0 + 1 = 1
      OBVIOUS
    <3> QED BY <2>1, <3>1
  <2> QED BY <2>4, <2>5 DEF MergedTo
<1> HIDE DEF N, S, x
<1>4. 0 \in T
  BY <1>1, <1>2, <1>3 DEF Follows, x
<1>5. ASSUME NEW n \in 1..N, n - 1 \in T PROVE n \in T
  <2>1. f[n - 1] \in S /\ MergedTo(f[n - 1], n - 1, c, a, b)
    BY <1>5
  <2>2. f[n] = Merge(f[n - 1], c[n], a, b)
    BY <2>1 DEF Follows, N, S
  <2>3. Merge(f[n - 1], c[n], a, b) \in S /\ MergedTo(Merge(f[n - 1], c[n], a, b), n, c, a, b)
    <3> DEFINE y == f[n - 1]
    <3>1. y \in S /\ MergedTo(y, n - 1, c, a, b) /\ n \in 1..Len(c)
      BY <2>1 DEF N
    <3> HIDE DEF y
    <3>2. Merge(y, c[n], a, b) \in S /\ MergedTo(Merge(y, c[n], a, b), n, c, a, b)
      BY <3>1, MergeKeeps DEF S
    <3> QED BY <3>2 DEF y
  <2>4. n \in 0..N
    BY <1>1
  <2> QED BY <2>2, <2>3, <2>4
<1>6. \A n \in 0..N : n \in T
  <2> HIDE DEF T
  <2> QED BY <1>1, <1>4, <1>5, Upwards
<1> QED BY <1>6 DEF N, S

(* The merge keeps both files up to where it stops, and the common lines.     *)
LEMMA MergedIs ==
  ASSUME NEW Text, NEW a \in Seq(Text), NEW b \in Seq(Text)
  PROVE  /\ Merged(a, b) \in Merging(a, b, Text)
         /\ MergedTo(Merged(a, b), Len(lcs(a, b)), lcs(a, b), a, b)
<1> DEFINE c == lcs(a, b) N == Len(c) S == Merging(a, b, Text)
           x == [i |-> 1, j |-> 1, out |-> <<>>]
           Eq(f) == f = [n \in 0..N |-> IF n = 0 THEN x ELSE Merge(f[n - 1], c[n], a, b)]
           up == CHOOSE f : Eq(f)
           Ok(y, n) == MergedTo(y, n - 1, c, a, b)
           step == [n \in 1..N |-> [y \in S |-> IF Ok(y, n) THEN Merge(y, c[n], a, b) ELSE x]]
<1>1. Merged(a, b) = up[N]
  BY DEF Merged
<1>2. c \in Seq(Text) /\ Within(c, 1, a, 1) /\ Within(c, 1, b, 1)
  BY LcsIsLongest
<1>3. N \in Nat /\ N \in 0..N
  BY <1>2
<1>4. x \in S
  <2>1. 1 \in 1..Len(a) + 1 /\ 1 \in 1..Len(b) + 1
    OBVIOUS
  <2>2. <<>> \in Seq(Told(Text))
    OBVIOUS
  <2> QED BY <2>1, <2>2 DEF Merging
<1> HIDE DEF c, S, x
<1>5. ASSUME NEW n \in 1..N, NEW y \in S, Ok(y, n) PROVE Merge(y, c[n], a, b) \in S
  BY <1>2, <1>5, MergeKeeps DEF S
<1> HIDE DEF N, Ok
<1>6. step \in [1..N -> [S -> S]]
  BY <1>4, <1>5
<1>7. PICK f : StepsIn(f, step, x, N, S)
  <2> HIDE DEF step
  <2> QED BY <1>3, <1>4, <1>6, Iterates
<1>8. f \in [0..N -> S] /\ f[0] = x
  BY <1>7 DEF StepsIn, Steps
<1>9. ASSUME NEW n \in 1..N, Ok(f[n - 1], n) PROVE f[n] = Merge(f[n - 1], c[n], a, b)
  <2>1. n - 1 \in 0..N
    BY <1>3
  <2>2. f[n - 1] \in S
    BY <1>8, <2>1
  <2>3. f[n] = step[n][f[n - 1]]
    BY <1>7 DEF StepsIn, Steps
  <2> QED BY <1>9, <2>2, <2>3
<1> HIDE DEF step
<1>10. Follows(f, c, a, b, Text)
  BY <1>8, <1>9 DEF Follows, x, N, Ok
<1>11. \A n \in 0..N : MergedTo(f[n], n, c, a, b)
  BY <1>2, <1>10, MergeFollows DEF N
<1>12. Eq(f)
  <2>1. ASSUME NEW n \in 0..N, n # 0 PROVE f[n] = Merge(f[n - 1], c[n], a, b)
    <3>1. n \in 1..N /\ n - 1 \in 0..N
      BY <1>3, <2>1
    <3>2. Ok(f[n - 1], n)
      BY <1>11, <3>1 DEF Ok
    <3> QED BY <1>9, <3>1, <3>2
  <2>2. f = [n \in 0..N |-> f[n]]
    BY <1>8
  <2>3. \A n \in 0..N : f[n] = IF n = 0 THEN x ELSE Merge(f[n - 1], c[n], a, b)
    BY <1>8, <2>1
  <2> QED BY <2>2, <2>3
<1>13. Eq(up)
  <2> HIDE DEF Eq
  <2> QED BY <1>12
<1> HIDE DEF up
<1>14. Follows(up, c, a, b, Text)
  <2>1. \A n \in 0..N : up[n] = IF n = 0 THEN x ELSE Merge(up[n - 1], c[n], a, b)
    BY <1>13
  <2>2. up[0] = x
    BY <1>3, <2>1
  <2>3. \A n \in 1..N : up[n] = Merge(up[n - 1], c[n], a, b)
    <3>1. \A n \in 1..N : n \in 0..N /\ n # 0
      BY <1>3
    <3> QED BY <2>1, <3>1
  <2> HIDE DEF Eq
  <2> QED BY <2>2, <2>3 DEF Follows, N, x
<1>15. up[N] \in S /\ MergedTo(up[N], N, c, a, b)
  BY <1>2, <1>3, <1>14, MergeFollows DEF N, S
<1> QED BY <1>1, <1>15 DEF c, N, S

(* The two files, the common lines, and what is changed of them.              *)
LEMMA ChangesTell ==
  ASSUME NEW Text, NEW f \in [lines : Seq(Text), ended : BOOLEAN], NEW g \in [lines : Seq(Text), ended : BOOLEAN]
  PROVE  /\ changes(f, g) \in Seq(Told(Text))
         /\ OldSide(changes(f, g)) = f.lines /\ NewSide(changes(f, g)) = g.lines
         /\ CommonLen(changes(f, g)) = Len(lcs(f.lines, g.lines))
<1> DEFINE a == f.lines b == g.lines m == Merged(a, b) c == lcs(a, b)
           x == SubSeq(a, m.i, Len(a)) y == SubSeq(b, m.j, Len(b)) o == m.out
<1>1. a \in Seq(Text) /\ b \in Seq(Text)
  OBVIOUS
<1>2. changes(f, g) = Replacing(o, x, y)
  BY DEF changes, splitLines, Replacing
<1> HIDE DEF a, b
<1>3. m \in Merging(a, b, Text) /\ MergedTo(m, Len(c), c, a, b)
  BY <1>1, MergedIs
<1> HIDE DEF m, c
<1>4. m.i \in 1..Len(a) + 1 /\ m.j \in 1..Len(b) + 1 /\ o \in Seq(Told(Text)) /\ Len(a) \in Nat /\ Len(b) \in Nat
  BY <1>1, <1>3 DEF Merging
<1>5. x \in Seq(Text) /\ SubSeq(a, 1, m.i - 1) \o x = a
  <2> DEFINE n == Len(a) k == m.i
  <2>1. n \in Nat /\ k \in 1..n + 1
    BY <1>4
  <2> HIDE DEF n, k
  <2>2. k - 1 \in 0..n /\ 1 - 1 = 0 /\ n \in k - 1..n /\ k - 1 + 1 = k /\ 1 \in 1..n + 1 /\ k \in Nat
    BY <2>1
  <2> USE DEF n, k
  <2>3. SubSeq(a, 1, k - 1) \o SubSeq(a, k, n) = SubSeq(a, 1, n)
    BY <1>1, <2>2, ConcatAdjacentSubSeq
  <2>4. SubSeq(a, 1, n) = a
    BY <1>1, SubSeqFull
  <2>5. x \in Seq(Text)
    BY <1>1, <2>1
  <2> QED BY <2>3, <2>4, <2>5
<1>6. y \in Seq(Text) /\ SubSeq(b, 1, m.j - 1) \o y = b
  <2> DEFINE n == Len(b) k == m.j
  <2>1. n \in Nat /\ k \in 1..n + 1
    BY <1>4
  <2> HIDE DEF n, k
  <2>2. k - 1 \in 0..n /\ 1 - 1 = 0 /\ n \in k - 1..n /\ k - 1 + 1 = k /\ 1 \in 1..n + 1 /\ k \in Nat
    BY <2>1
  <2> USE DEF n, k
  <2>3. SubSeq(b, 1, k - 1) \o SubSeq(b, k, n) = SubSeq(b, 1, n)
    BY <1>1, <2>2, ConcatAdjacentSubSeq
  <2>4. SubSeq(b, 1, n) = b
    BY <1>1, SubSeqFull
  <2>5. y \in Seq(Text)
    BY <1>1, <2>1
  <2> QED BY <2>3, <2>4, <2>5
<1>7. OldSide(o) = SubSeq(a, 1, m.i - 1) /\ NewSide(o) = SubSeq(b, 1, m.j - 1) /\ CommonLen(o) = Len(c)
  BY <1>3 DEF MergedTo
<1> HIDE DEF o, x, y
<1>8. o \in Seq(Told(Text)) /\ x \in Seq(Text) /\ y \in Seq(Text)
  BY <1>4, <1>5, <1>6
<1>9. /\ Replacing(o, x, y) \in Seq(Told(Text)) /\ CommonLen(Replacing(o, x, y)) = CommonLen(o)
      /\ OldSide(Replacing(o, x, y)) = Then(OldSide(o), x) /\ NewSide(Replacing(o, x, y)) = Then(NewSide(o), y)
  BY <1>8, Replaced
<1> QED BY <1>2, <1>5, <1>6, <1>7, <1>9 DEF Then, a, b, c

-----------------------------------------------------------------------------
(* The trimming and the cut *)

(* Where none is marked no line has such a mark. *)
LEMMA MarkedEmpty ==
  ASSUME NEW L, NEW s \in Seq(L), NEW marks, Len(Marked(s, marks)) = 0
  PROVE  \A i \in 1..Len(s) : s[i][1] \notin marks
<1> DEFINE T == {x \in Seq(L) : Len(Marked(x, marks)) = 0 => \A i \in 1..Len(x) : x[i][1] \notin marks}
<1>1. <<>> \in T
  <2>1. <<>> \in Seq(L) /\ Len(<<>>) = 0
    OBVIOUS
  <2> QED BY <2>1
<1>2. ASSUME NEW x \in Seq(L), NEW l \in L, x \in T PROVE Append(x, l) \in T
  <2> DEFINE y == Append(x, l)
  <2>1. y \in Seq(L) /\ Len(y) = Len(x) + 1 /\ Len(x) \in Nat /\ y[Len(x) + 1] = l /\ \A i \in 1..Len(x) : y[i] = x[i]
    OBVIOUS
  <2>2. Marked(y, marks) = IF l[1] \in marks THEN Append(Marked(x, marks), l) ELSE Marked(x, marks)
    BY MarkedAppend
  <2>3. Len(Append(Marked(x, marks), l)) = Len(Marked(x, marks)) + 1 /\ Len(Marked(x, marks)) \in Nat
    <3>1. Marked(x, marks) \in Seq(L)
      BY MarkedType
    <3> QED BY <3>1
  <2> HIDE DEF y
  <2>4. ASSUME Len(Marked(y, marks)) = 0 PROVE \A i \in 1..Len(y) : y[i][1] \notin marks
    <3>1. l[1] \notin marks /\ Len(Marked(x, marks)) = 0
      BY <2>2, <2>3, <2>4
    <3>2. \A i \in 1..Len(x) : x[i][1] \notin marks
      BY <1>2, <3>1
    <3>3. \A i \in 1..Len(y) : i \in 1..Len(x) \/ i = Len(x) + 1
      BY <2>1
    <3> QED BY <2>1, <3>1, <3>2, <3>3
  <2> QED BY <2>1, <2>4 DEF y
<1>3. s \in T
  <2> HIDE DEF T
  <2> QED BY <1>1, <1>2, Lengthwise
<1> QED BY <1>3

Altered == {"+", "-"}

(* Trimming context keeps every line that is added or removed.                *)
LEMMA TrimKeeps ==
  ASSUME NEW Text, NEW lines \in Seq(Told(Text))
  PROVE  /\ trimContext(lines) \in Seq(Told(Text \cup {"..."}))
         /\ Marked(trimContext(lines), Altered) = Marked(lines, Altered)
<1> DEFINE N == Len(lines) L == Told(Text \cup {"..."}) S == Seq(L)
           keep == {i \in 1..Len(lines) :
                      \E k \in i - diffContext..i + diffContext : k \in 1..Len(lines) /\ IsChange(lines[k])}
           Gap(i) == IF i > 1 /\ i - 1 \notin keep THEN <<<<" ", "...">>>> ELSE <<>>
           Eq(f) == f = [n \in 0..N |-> IF n = 0 THEN <<>>
                                        ELSE IF n \notin keep THEN f[n - 1]
                                        ELSE f[n - 1] \o Gap(n) \o <<lines[n]>>]
           up == CHOOSE f : Eq(f)
           step == [n \in 1..N |-> [x \in S |-> IF n \notin keep THEN x ELSE x \o Gap(n) \o <<lines[n]>>]]
<1>1. trimContext(lines) = up[N]
  BY DEF trimContext
<1>2. N \in Nat /\ N \in 0..N /\ <<>> \in S /\ \A n \in 1..N : lines[n] \in Told(Text)
  OBVIOUS
<1>3. Told(Text) \subseteq L
  BY DEF Told
<1>4. \A n \in 1..N : lines[n] \in L /\ (IsChange(lines[n]) <=> lines[n][1] \in Altered)
  <2> TAKE n \in 1..N
  <2>1. lines[n] \in Told(Text)
    BY <1>2
  <2>2. lines[n][1] \in Mark
    BY <2>1 DEF Told
  <2> QED BY <1>3, <2>1, <2>2 DEF IsChange, Mark, Altered
<1>5. \A n \in 1..N : n \notin keep => lines[n][1] \notin Altered
  <2> SUFFICES ASSUME NEW n \in 1..N, lines[n][1] \in Altered PROVE n \in keep
    OBVIOUS
  <2>1. n \in n - diffContext..n + diffContext
    BY DiffAssumption
  <2>2. IsChange(lines[n])
    BY <1>4
  <2> QED BY <2>1, <2>2
<1>6. \A n : Gap(n) \in S /\ Marked(Gap(n), Altered) = <<>>
  <2> DEFINE z == <<" ", "...">> g == <<z>>
  <2>1. z \in L /\ z[1] \notin Altered
    BY DEF Told, Mark, Altered
  <2> HIDE DEF z, L
  <2>2. g \in S /\ Len(g) = 1 /\ \A i \in 1..1 : g[i] = z
    BY <2>1
  <2> HIDE DEF g
  <2>3. \A i \in 1..Len(g) : g[i][1] \notin Altered
    BY <2>1, <2>2
  <2>4. Marked(g, Altered) = <<>>
    BY <2>2, <2>3, MarkedNone
  <2>5. Marked(<<>>, Altered) = <<>>
    BY MarkedOfNone
  <2>6. \A n : Gap(n) = g \/ Gap(n) = <<>>
    BY DEF g, z
  <2> HIDE DEF Gap, S
  <2> QED BY <1>2, <2>2, <2>4, <2>5, <2>6
<1> HIDE DEF keep, Gap, L
<1>7. ASSUME NEW n \in 1..N, NEW x \in S
      PROVE  /\ x \o Gap(n) \in S
             /\ x \o Gap(n) \o <<lines[n]>> = Append(x \o Gap(n), lines[n])
             /\ x \o Gap(n) \o <<lines[n]>> \in S
  <2>1. x \o Gap(n) \in S
    BY <1>6, ConcatProperties
  <2>2. Append(x \o Gap(n), lines[n]) = x \o Gap(n) \o <<lines[n]>>
    BY <1>4, <2>1, AppendIsConcat
  <2>3. Append(x \o Gap(n), lines[n]) \in S
    BY <1>4, <2>1
  <2> QED BY <2>1, <2>2, <2>3
<1> HIDE DEF N, S
<1>8. step \in [1..N -> [S -> S]]
  BY <1>7
<1>9. PICK f : StepsIn(f, step, <<>>, N, S)
  <2> HIDE DEF step
  <2> QED BY <1>2, <1>8, Iterates
<1>10. Eq(f)
  <2>1. f \in [0..N -> S] /\ f[0] = <<>>
    BY <1>9 DEF StepsIn, Steps
  <2>2. ASSUME NEW n \in 0..N, n # 0
        PROVE  f[n] = IF n \notin keep THEN f[n - 1] ELSE f[n - 1] \o Gap(n) \o <<lines[n]>>
    <3>1. n \in 1..N /\ n - 1 \in 0..N
      BY <1>2, <2>2
    <3>2. f[n - 1] \in S /\ f[n] = step[n][f[n - 1]]
      BY <1>9, <2>1, <3>1 DEF StepsIn, Steps
    <3> QED BY <3>1, <3>2
  <2>3. f = [n \in 0..N |-> f[n]]
    BY <2>1
  <2> HIDE DEF step
  <2>4. \A n \in 0..N : f[n] = IF n = 0 THEN <<>>
                               ELSE IF n \notin keep THEN f[n - 1] ELSE f[n - 1] \o Gap(n) \o <<lines[n]>>
    BY <2>1, <2>2
  <2> QED BY <2>3, <2>4
<1>11. Eq(up)
  <2> HIDE DEF Eq
  <2> QED BY <1>10
<1> HIDE DEF up, step
<1>12. /\ up[0] = <<>>
       /\ \A n \in 1..N : up[n] = IF n \notin keep THEN up[n - 1] ELSE up[n - 1] \o Gap(n) \o <<lines[n]>>
  <2>1. \A n \in 0..N : up[n] = IF n = 0 THEN <<>>
                                ELSE IF n \notin keep THEN up[n - 1] ELSE up[n - 1] \o Gap(n) \o <<lines[n]>>
    BY <1>11
  <2>2. 0 \in 0..N /\ \A n \in 1..N : n \in 0..N /\ n # 0
    BY <1>2
  <2> HIDE DEF Eq
  <2> QED BY <2>1, <2>2
<1> DEFINE pre(n) == SubSeq(lines, 1, n)
           T == {n \in 0..N : up[n] \in S /\ Marked(up[n], Altered) = Marked(pre(n), Altered)}
<1>13. 0 \in T
  <2>1. pre(0) = <<>>
    BY SubSeqEmpty
  <2>2. 0 \in 0..N
    BY <1>2
  <2> HIDE DEF pre
  <2> QED BY <1>2, <1>12, <2>1, <2>2
<1>14. ASSUME NEW n \in 1..N, n - 1 \in T PROVE n \in T
  <2> DEFINE x == up[n - 1] l == lines[n] p == pre(n - 1)
  <2>1. x \in S /\ Marked(x, Altered) = Marked(p, Altered) /\ n \in 0..N
    BY <1>2, <1>14
  <2>2. p \in Seq(Told(Text)) /\ l \in Told(Text) /\ l \in L
    BY <1>2, <1>4 DEF N
  <2>3. pre(n) = Append(p, l)
    <3>1. 1 \in 1..Len(lines) /\ n \in 1..Len(lines)
      BY <1>2 DEF N
    <3>2. pre(n) = p \o <<l>>
      BY <3>1, SubSeqRecursiveSecond
    <3> HIDE DEF p, l
    <3> QED BY <2>2, <3>2, AppendIsConcat
  <2> HIDE DEF p, pre, x, l
  <2>4. Marked(Append(p, l), Altered) = IF l[1] \in Altered THEN Append(Marked(p, Altered), l) ELSE Marked(p, Altered)
    BY <2>2, MarkedAppend
  <2>5. CASE n \notin keep
    <3>1. up[n] = x
      BY <1>12, <2>5 DEF x
    <3>2. l[1] \notin Altered
      BY <1>5, <2>5 DEF l
    <3> QED BY <2>1, <2>3, <2>4, <3>1, <3>2
  <2>6. CASE n \in keep
    <3> DEFINE y == x \o Gap(n)
    <3>1. up[n] = Append(y, l) /\ up[n] \in S /\ y \in S
      BY <1>7, <1>12, <2>1, <2>6 DEF x, l
    <3>2. Marked(y, Altered) = Marked(x, Altered)
      <4>1. Marked(y, Altered) = Marked(x, Altered) \o Marked(Gap(n), Altered)
        <5>1. x \in Seq(L) /\ Gap(n) \in Seq(L)
          BY <1>6, <2>1 DEF S
        <5> QED BY <5>1, MarkedJoin
      <4>2. Marked(x, Altered) \in Seq(L)
        BY <2>1, MarkedType DEF S
      <4> QED BY <1>6, <4>1, <4>2, ConcatEmptySeq
    <3> HIDE DEF y
    <3>3. Marked(Append(y, l), Altered) = IF l[1] \in Altered THEN Append(Marked(y, Altered), l) ELSE Marked(y, Altered)
      BY <2>2, <3>1, MarkedAppend DEF S
    <3> QED BY <2>1, <2>3, <2>4, <3>1, <3>2, <3>3
  <2> QED BY <2>5, <2>6
<1>15. N \in T
  <2> HIDE DEF T
  <2> QED BY <1>2, <1>13, <1>14, Upwards
<1>16. pre(N) = lines
  BY SubSeqFull DEF N
<1> QED BY <1>1, <1>15, <1>16 DEF S, L

(* What is shown is the beginning, and all when nothing is cut.               *)
LEMMA RenderShows ==
  ASSUME NEW L, NEW lines \in Seq(L)
  PROVE  /\ render(lines).cut = 0 => Marked(render(lines).shown, Altered) = Marked(lines, Altered)
         /\ IsPrefix(Marked(render(lines).shown, Altered), Marked(lines, Altered))
         /\ render(lines).added + render(lines).removed = Len(Marked(lines, Altered))
<1> DEFINE N == Len(lines) k == Min({N, maxDiffLines}) s == SubSeq(lines, 1, k) r == SubSeq(lines, k + 1, N)
<1>1. N \in Nat /\ maxDiffLines \in Nat
  BY DiffAssumption
<1>2. k = IF N <= maxDiffLines THEN N ELSE maxDiffLines
  <2>1. \A x, y \in Nat : Min({x, y}) = IF x <= y THEN x ELSE y
    BY DEF Min
  <2> HIDE DEF N
  <2> QED BY <1>1, <2>1
<1>3. Max({0, N - maxDiffLines}) = IF N <= maxDiffLines THEN 0 ELSE N - maxDiffLines
  <2>1. \A x \in Int : Max({0, x}) = IF x <= 0 THEN 0 ELSE x
    BY DEF Max
  <2>2. N - maxDiffLines \in Int /\ (N - maxDiffLines <= 0 <=> N <= maxDiffLines)
    BY <1>1
  <2> HIDE DEF N
  <2> QED BY <2>1, <2>2
<1>4. render(lines) = [added   |-> Len(Marked(lines, {"+"})),
                       removed |-> Len(Marked(lines, {"-"})),
                       shown   |-> s,
                       cut     |-> Max({0, N - maxDiffLines})]
  BY DEF render
<1> HIDE DEF N, k
<1>5. k \in 0..N /\ k \in Nat
  BY <1>1, <1>2
<1>6. s \in Seq(L) /\ r \in Seq(L) /\ s \o r = lines
  <2>1. 1 \in 1..Len(lines) + 1 /\ k \in 1 - 1..Len(lines) /\ N \in k..Len(lines)
    BY <1>1, <1>5 DEF N
  <2>2. s \o r = SubSeq(lines, 1, N)
    BY <2>1, ConcatAdjacentSubSeq
  <2>3. SubSeq(lines, 1, N) = lines
    BY SubSeqFull DEF N
  <2>4. s \in Seq(L)
    BY <1>1, <1>5 DEF N
  <2>5. r \in Seq(L)
    BY <1>1, <1>5 DEF N
  <2> QED BY <2>2, <2>3, <2>4, <2>5
<1>7. render(lines).cut = 0 => s = lines
  <2>1. CASE N <= maxDiffLines
    <3>1. k = N
      BY <1>2, <2>1
    <3> QED BY <3>1, SubSeqFull DEF N
  <2>2. CASE ~(N <= maxDiffLines)
    <3>1. N - maxDiffLines # 0
      BY <1>1, <2>2
    <3> QED BY <1>3, <1>4, <2>2, <3>1
  <2> QED BY <2>1, <2>2
<1> HIDE DEF s, r
<1>8. Marked(lines, Altered) = Marked(s, Altered) \o Marked(r, Altered)
  <2>1. s \in Seq(L) /\ r \in Seq(L)
    BY <1>6
  <2>2. Marked(s \o r, Altered) = Marked(s, Altered) \o Marked(r, Altered)
    BY <2>1, MarkedJoin
  <2> QED BY <1>6, <2>2
<1>9. IsPrefix(Marked(s, Altered), Marked(lines, Altered))
  <2> DEFINE x == Marked(s, Altered) y == Marked(r, Altered)
  <2>1. x \in Seq(L) /\ y \in Seq(L)
    BY <1>6, MarkedType
  <2> HIDE DEF x, y
  <2>2. Len(x \o y) = Len(x) + Len(y) /\ Len(x) \in Nat /\ Len(y) \in Nat
    BY <2>1, ConcatProperties
  <2>3. SubSeq(x, 1, Len(x)) = SubSeq(x \o y, 1, Len(x))
    BY <2>1, SubSeqOfConcat1, SubSeqFull
  <2>4. IsPrefix(x, x \o y)
    BY <2>2, <2>3 DEF IsPrefix
  <2> QED BY <1>8, <2>4 DEF x, y
<1>10. Len(Marked(lines, {"+"})) + Len(Marked(lines, {"-"})) = Len(Marked(lines, Altered))
  <2> DEFINE A == {"+"} B == {"-"}
  <2>1. A \cap B = {} /\ Altered = A \cup B
    BY DEF Altered
  <2> HIDE DEF A, B
  <2>2. Len(Marked(lines, A)) + Len(Marked(lines, B)) = Len(Marked(lines, Altered))
    BY <2>1, MarkedLen
  <2> QED BY <2>2 DEF A, B
<1> QED BY <1>4, <1>7, <1>9, <1>10

-----------------------------------------------------------------------------
(* The diff *)

(* A side has as many lines as are told of it. *)
LEMMA SideLen ==
  ASSUME NEW Text, NEW lines \in Seq(Told(Text)), NEW sign, sign # " "
  PROVE  Len(Side(lines, sign)) = CommonLen(lines) + Len(Marked(lines, {sign}))
<1> DEFINE A == {" "} B == {sign} m == Marked(lines, {" ", sign})
<1>1. A \cap B = {} /\ {" ", sign} = A \cup B
  OBVIOUS
<1>2. Len(Marked(lines, A \cup B)) = Len(Marked(lines, A)) + Len(Marked(lines, B))
  <2> HIDE DEF A, B
  <2> QED BY <1>1, MarkedLen
<1>3. m \in Seq(Told(Text))
  BY MarkedType
<1>4. Side(lines, sign) = Texts(m)
  BY DEF Side, Texts
<1> HIDE DEF m
<1>5. Len(Texts(m)) = Len(m)
  BY <1>3, TextsJoin
<1> HIDE DEF A, B
<1> QED BY <1>1, <1>2, <1>4, <1>5 DEF CommonLen, A, B, m

(* Of two files with the same lines nothing is told. *)
LEMMA SameLines ==
  ASSUME NEW Text, NEW f \in [lines : Seq(Text), ended : BOOLEAN], NEW g \in [lines : Seq(Text), ended : BOOLEAN],
         f.lines = g.lines
  PROVE  Len(Marked(changes(f, g), Altered)) = 0
<1> DEFINE a == f.lines n == Len(a) l == changes(f, g) K == 1..n
<1>1. a \in Seq(Text) /\ n \in Nat /\ g.lines = a
  OBVIOUS
<1>2. l \in Seq(Told(Text)) /\ OldSide(l) = a /\ NewSide(l) = a /\ CommonLen(l) = Len(lcs(a, a))
  <2> HIDE DEF l
  <2> QED BY <1>1, ChangesTell DEF l
<1> HIDE DEF a, n, l
<1>3. n <= CommonLen(l)
  <2>1. InBoth(K, a, a)
    <3> DEFINE h == [i \in K |-> i]
    <3>1. h \in [K -> 1..Len(a)] /\ \A i \in K : h[i] = i
      BY DEF n
    <3> HIDE DEF h, K
    <3> QED BY <3>1 DEF InBoth
  <2>2. K \in SUBSET (1..Len(a))
    BY DEF n
  <2>3. Cardinality(K) = n
    <3>1. Cardinality(1..n) = IF 1 > n THEN 0 ELSE n - 1 + 1
      BY <1>1, FS_Interval
    <3> QED BY <1>1, <3>1
  <2> HIDE DEF K
  <2>4. Cardinality(K) <= Len(lcs(a, a))
    BY <1>1, <2>1, <2>2, LcsIsLongest
  <2> QED BY <1>2, <2>3, <2>4
<1> DEFINE A == {"+"} B == {"-"}
<1>4. /\ CommonLen(l) \in Nat
      /\ Len(Marked(l, A)) \in Nat /\ Len(Marked(l, B)) \in Nat
  <2>1. \A M : Len(Marked(l, M)) \in Nat
    <3> TAKE M
    <3>1. Marked(l, M) \in Seq(Told(Text))
      BY <1>2, MarkedType
    <3> QED BY <3>1
  <2> QED BY <2>1 DEF CommonLen
<1>5. n = CommonLen(l) + Len(Marked(l, B))
  <2> DEFINE sign == "-"
  <2>1. sign # " " /\ Len(Side(l, sign)) = n
    BY <1>2 DEF OldSide, n
  <2> HIDE DEF sign
  <2>2. Len(Side(l, sign)) = CommonLen(l) + Len(Marked(l, {sign}))
    BY <1>2, <2>1, SideLen
  <2> QED BY <2>1, <2>2 DEF sign
<1>6. n = CommonLen(l) + Len(Marked(l, A))
  <2> DEFINE sign == "+"
  <2>1. sign # " " /\ Len(Side(l, sign)) = n
    BY <1>2 DEF NewSide, n
  <2> HIDE DEF sign
  <2>2. Len(Side(l, sign)) = CommonLen(l) + Len(Marked(l, {sign}))
    BY <1>2, <2>1, SideLen
  <2> QED BY <2>1, <2>2 DEF sign
<1>7. A \cap B = {} /\ Altered = A \cup B
  BY DEF Altered
<1> HIDE DEF A, B
<1>8. Len(Marked(l, Altered)) = Len(Marked(l, A)) + Len(Marked(l, B))
  BY <1>2, <1>7, MarkedLen
<1>9. Len(Marked(l, Altered)) = 0
  BY <1>1, <1>3, <1>4, <1>5, <1>6, <1>8
<1> QED BY <1>9 DEF l

(* Where nothing is told the files are the same. *)
LEMMA NoChange ==
  ASSUME NEW Text, NEW lines \in Seq(Told(Text)), Len(Marked(lines, Altered)) = 0
  PROVE  OldSide(lines) = NewSide(lines)
<1>1. \A i \in 1..Len(lines) : lines[i][1] = " "
  <2>1. \A i \in 1..Len(lines) : lines[i][1] \notin Altered
    BY MarkedEmpty
  <2>2. \A i \in 1..Len(lines) : lines[i] \in Told(Text)
    OBVIOUS
  <2> QED BY <2>1, <2>2 DEF Told, Mark, Altered
<1>2. ASSUME NEW sign PROVE Side(lines, sign) = Texts(lines)
  <2>1. \A i \in 1..Len(lines) : lines[i][1] \in {" ", sign}
    BY <1>1
  <2>2. Marked(lines, {" ", sign}) = lines
    BY <2>1, MarkedAll
  <2> QED BY <2>2 DEF Side, Texts
<1> QED BY <1>2 DEF OldSide, NewSide

(* Whatever the two files, the diff an operator approves tells the change: it *)
(* keeps both files, is as short as can be, and no changed line is missing    *)
(* from what it shows or counts unless it says that it is cut.                *)
THEOREM DiffIsTrue ==
  ASSUME NEW Text, old \in [lines : Seq(Text), ended : BOOLEAN], new \in [lines : Seq(Text), ended : BOOLEAN]
  PROVE  DiffTellsTheChange
<1> DEFINE a == old.lines b == new.lines l == changes(old, new) d == unifiedDiff(old, new)
           t == trimContext(l)
<1>1. a \in Seq(Text) /\ b \in Seq(Text)
  OBVIOUS
<1>2. l \in Seq(Told(Text)) /\ OldSide(l) = a /\ NewSide(l) = b /\ CommonLen(l) = Len(lcs(a, b))
  BY ChangesTell
<1>3. d = IF old = new THEN NoDiff ELSE render(t)
  BY DEF unifiedDiff
<1>4. a = b => Len(Marked(l, Altered)) = 0
  BY SameLines
<1>5. Len(Marked(l, Altered)) = 0 => a = b
  BY <1>2, NoChange
<1>6. old = new => a = b
  OBVIOUS
<1> HIDE DEF a, b, l, d
<1>7. t \in Seq(Told(Text \cup {"..."})) /\ Marked(t, Altered) = Marked(l, Altered)
  BY <1>2, TrimKeeps
<1> HIDE DEF t
<1>8. /\ render(t).cut = 0 => Marked(render(t).shown, Altered) = Marked(l, Altered)
      /\ IsPrefix(Marked(render(t).shown, Altered), Marked(l, Altered))
      /\ render(t).added + render(t).removed = Len(Marked(l, Altered))
  BY <1>7, RenderShows
<1>9. /\ d.cut = 0 => Marked(d.shown, Altered) = Marked(l, Altered)
      /\ IsPrefix(Marked(d.shown, Altered), Marked(l, Altered))
      /\ d.added + d.removed = Len(Marked(l, Altered))
  <2>1. CASE old # new
    <3>1. d = render(t)
      BY <1>3, <2>1
    <3> QED BY <1>8, <3>1
  <2>2. CASE old = new
    <3>1. d.added = 0 /\ d.removed = 0 /\ d.shown = <<>>
      BY <1>3, <2>2 DEF NoDiff
    <3>2. Len(Marked(l, Altered)) = 0 /\ Marked(l, Altered) \in Seq(Told(Text))
      BY <1>2, <1>4, <1>6, <2>2, MarkedType
    <3>3. Marked(l, Altered) = <<>>
      <4> DEFINE m == Marked(l, Altered)
      <4> HIDE DEF m
      <4>1. m \in Seq(Told(Text)) /\ Len(m) = 0
        BY <3>2 DEF m
      <4>2. m = <<>>
        BY <4>1
      <4> QED BY <4>2 DEF m
    <3>4. Marked(<<>>, Altered) = <<>>
      BY MarkedOfNone
    <3>5. IsPrefix(<<>>, <<>>)
      BY DEF IsPrefix
    <3>6. 0 + 0 = 0
      OBVIOUS
    <3> QED BY <3>1, <3>2, <3>3, <3>4, <3>5, <3>6
  <2> QED BY <2>1, <2>2
<1>10. d.added + d.removed = 0 <=> a = b
  BY <1>4, <1>5, <1>9
<1>11. ASSUME NEW K \in SUBSET (1..Len(a)), Cardinality(K) > Len(Marked(l, {" "}))
       PROVE  ~InBoth(K, a, b)
  <2>1. Len(Marked(l, {" "})) = Len(lcs(a, b))
    BY <1>2 DEF CommonLen
  <2>2. InBoth(K, a, b) => Cardinality(K) <= Len(lcs(a, b))
    BY <1>1, LcsIsLongest
  <2>3. Cardinality(K) \in Nat /\ Len(lcs(a, b)) \in Nat
    <3>1. IsFiniteSet(1..Len(a)) /\ Len(a) \in Int
      BY <1>1, FS_Interval
    <3>2. IsFiniteSet(K)
      BY <3>1, FS_Subset
    <3>3. lcs(a, b) \in Seq(Text)
      BY <1>1, LcsIsLongest
    <3> QED BY <3>2, <3>3, FS_CardinalityType
  <2> DEFINE x == Cardinality(K) y == Len(lcs(a, b))
  <2>4. x > y /\ x \in Nat /\ y \in Nat
    BY <1>11, <2>1, <2>3
  <2>5. InBoth(K, a, b) => x <= y
    BY <2>2
  <2> HIDE DEF x, y
  <2>6. ~(x <= y)
    BY <2>4
  <2> QED BY <2>5, <2>6
<1>12. Side(l, "-") = a /\ Side(l, "+") = b
  BY <1>2 DEF OldSide, NewSide
<1> QED BY <1>9, <1>10, <1>11, <1>12 DEF DiffTellsTheChange, splitLines, a, b, l, d, Altered
=============================================================================
