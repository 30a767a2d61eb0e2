---------------------------- MODULE CompactProofs ----------------------------
(***************************************************************************)
(* What holds of Compact for every conversation, every target and every    *)
(* choice of protected turns, compaction after compaction: what it may     *)
(* touch, that it goes no further than it must, that it says so when it    *)
(* cannot reach the target, and when it grows what it was to shrink.       *)
(***************************************************************************)
EXTENDS Compact, SequenceLemmas

-----------------------------------------------------------------------------
(* Sums *)

(* f holds the partial sums of w, up to n. *)
Sums(f, w, n) == f[0] = 0 /\ \A k \in 1..n : f[k] = f[k - 1] + w[k]

Adds(f, w, n) == f \in [0..n -> Int] /\ Sums(f, w, n)

(* There are partial sums, by induction on how many. *)
LEMMA AddsExists ==
  ASSUME NEW w \in Seq(Int)
  PROVE  \E f : Adds(f, w, Len(w))
<1> DEFINE N == Len(w)
           T == {n \in 0..N : ~\E f : Adds(f, w, n)}
<1>1. N \in Nat /\ \A k \in 1..N : w[k] \in Int
  OBVIOUS
<1> HIDE DEF N
<1>2. SUFFICES ASSUME T # {} PROVE FALSE
  BY <1>1 DEF N
<1>3. PICK x \in T : \A y \in T : x <= y
  <2>1. T \in SUBSET Nat
    BY <1>1
  <2> HIDE DEF T
  <2> QED BY <1>2, <2>1, Least
<1>4. CASE x = 0
  <2>1. Adds([i \in 0..0 |-> 0], w, 0)
    BY DEF Adds, Sums
  <2> QED BY <1>3, <1>4, <2>1
<1>5. CASE x # 0
  <2>1. x - 1 \in 0..N /\ x - 1 \notin T /\ x \in 1..N
    BY <1>1, <1>3, <1>5
  <2>2. PICK f : Adds(f, w, x - 1)
    BY <2>1
  <2> DEFINE g == [k \in 0..x |-> IF k = x THEN f[x - 1] + w[x] ELSE f[k]]
  <2>3. f[x - 1] \in Int /\ w[x] \in Int
    BY <1>1, <2>1, <2>2 DEF Adds, Sums
  <2>4. g \in [0..x -> Int] /\ g[0] = 0
    BY <1>1, <2>1, <2>2, <2>3 DEF Adds, Sums
  <2>5. \A k \in 1..x : g[k] = g[k - 1] + w[k]
    <3> TAKE k \in 1..x
    <3>1. CASE k = x
      BY <1>1, <2>1, <3>1
    <3>2. CASE k # x
      <4>1. k \in 1..(x - 1) /\ k - 1 \in 0..(x - 1) /\ k - 1 # x
        BY <1>1, <2>1, <3>2
      <4>2. g[k] = f[k] /\ g[k - 1] = f[k - 1]
        BY <1>1, <2>1, <3>2, <4>1
      <4> QED BY <2>2, <4>1, <4>2 DEF Adds, Sums
    <3> QED BY <3>1, <3>2
  <2>6. Adds(g, w, x)
    BY <2>4, <2>5 DEF Adds, Sums
  <2> QED BY <1>3, <2>6
<1> QED BY <1>4, <1>5

(* and only one sequence of them. *)
LEMMA AddsUnique ==
  ASSUME NEW w, NEW N \in Nat, NEW f, NEW g, Adds(f, w, N), Sums(g, w, N)
  PROVE  \A n \in 0..N : g[n] = f[n]
<1> DEFINE T == {n \in 0..N : g[n] # f[n]}
<1> SUFFICES ASSUME T # {} PROVE FALSE
  OBVIOUS
<1>1. PICK x \in T : \A y \in T : x <= y
  <2>1. T \in SUBSET Nat
    OBVIOUS
  <2> HIDE DEF T
  <2> QED BY <2>1, Least
<1>2. x # 0
  BY DEF Adds, Sums
<1>3. x - 1 \in 0..N /\ x - 1 \notin T /\ x \in 1..N
  BY <1>1, <1>2
<1> QED BY <1>3 DEF Adds, Sums

(* Total is the last of the partial sums. *)
LEMMA TotalIs ==
  ASSUME NEW w \in Seq(Int), NEW f, Adds(f, w, Len(w))
  PROVE  Total(w) = f[Len(w)]
<1> DEFINE N == Len(w)
           up == CHOOSE g : g = [n \in 0..N |-> IF n = 0 THEN 0 ELSE g[n - 1] + w[n]]
<1>1. N \in Nat /\ Adds(f, w, N)
  OBVIOUS
<1>2. Total(w) = up[N]
  BY DEF Total
<1> HIDE DEF N
<1>3. f = [n \in 0..N |-> IF n = 0 THEN 0 ELSE f[n - 1] + w[n]]
  <2>1. \A n \in 0..N : f[n] = IF n = 0 THEN 0 ELSE f[n - 1] + w[n]
    BY <1>1 DEF Adds, Sums
  <2> QED BY <1>1, <2>1 DEF Adds, Sums
<1>4. up = [n \in 0..N |-> IF n = 0 THEN 0 ELSE up[n - 1] + w[n]]
  BY <1>3
<1> HIDE DEF up
<1>5. Sums(up, w, N)
  <2>1. \A n \in 0..N : up[n] = IF n = 0 THEN 0 ELSE up[n - 1] + w[n]
    BY <1>4
  <2> QED BY <1>1, <2>1 DEF Sums
<1>6. up[N] = f[N]
  <2>1. \A n \in 0..N : up[n] = f[n]
    BY <1>1, <1>5, AddsUnique
  <2> QED BY <1>1, <2>1
<1> QED BY <1>2, <1>6 DEF N

(* A sum of integers is one. *)
LEMMA TotalType ==
  ASSUME NEW w \in Seq(Int)
  PROVE  Total(w) \in Int
<1>1. PICK f : Adds(f, w, Len(w))
  BY AddsExists
<1>2. Len(w) \in 0..Len(w)
  OBVIOUS
<1> QED BY <1>1, <1>2, TotalIs DEF Adds, Sums

(* A sum of naturals is at least each of them. *)
LEMMA TotalNat ==
  ASSUME NEW w \in Seq(Nat)
  PROVE  Total(w) \in Nat /\ \A i \in 1..Len(w) : w[i] <= Total(w)
<1> DEFINE N == Len(w)
<1>1. w \in Seq(Int) /\ N \in Nat /\ \A k \in 1..N : w[k] \in Nat
  OBVIOUS
<1>2. PICK f : Adds(f, w, N) /\ Total(w) = f[N]
  BY <1>1, AddsExists, TotalIs
<1> HIDE DEF N
<1> DEFINE P(n) == f[n] >= 0 /\ \A i \in 1..n : w[i] <= f[n]
           T == {n \in 0..N : ~P(n)}
<1>3. T = {}
  <2> SUFFICES ASSUME T # {} PROVE FALSE
    OBVIOUS
  <2>1. PICK x \in T : \A y \in T : x <= y
    <3>1. T \in SUBSET Nat
      BY <1>1
    <3> HIDE DEF T
    <3> QED BY <3>1, Least
  <2>2. x # 0
    BY <1>2 DEF Adds, Sums
  <2>3. x - 1 \in 0..N /\ x - 1 \notin T /\ x \in 1..N
    BY <1>1, <2>1, <2>2
  <2>4. f[x] = f[x - 1] + w[x] /\ f[x] \in Int /\ f[x - 1] \in Int /\ w[x] \in Nat
    BY <1>1, <1>2, <2>3 DEF Adds, Sums
  <2>5. f[x - 1] >= 0 /\ \A i \in 1..(x - 1) : w[i] <= f[x - 1]
    BY <2>3
  <2>6. \A i \in 1..x : w[i] <= f[x]
    <3> TAKE i \in 1..x
    <3>1. CASE i = x
      BY <2>4, <2>5, <3>1
    <3>2. CASE i # x
      <4>1. i \in 1..(x - 1) /\ w[i] \in Nat
        BY <1>1, <2>3, <3>2
      <4> QED BY <2>4, <2>5, <4>1
    <3> QED BY <3>1, <3>2
  <2> QED BY <2>1, <2>4, <2>5, <2>6
<1>4. N \in 0..N /\ f[N] \in Int
  BY <1>1, <1>2 DEF Adds, Sums
<1>5. P(N)
  BY <1>3, <1>4
<1> QED BY <1>2, <1>4, <1>5 DEF N

(* Sums are subtracted term by term. *)
LEMMA TotalDifference ==
  ASSUME NEW u \in Seq(Int), NEW v \in Seq(Int), NEW w \in Seq(Int),
         Len(u) = Len(v), Len(w) = Len(v), \A k \in 1..Len(v) : u[k] = v[k] - w[k]
  PROVE  Total(u) = Total(v) - Total(w)
<1>1. PICK g : Adds(g, v, Len(v)) /\ Total(v) = g[Len(v)]
  BY AddsExists, TotalIs
<1>2. PICK h : Adds(h, w, Len(v)) /\ Total(w) = h[Len(v)]
  BY AddsExists, TotalIs
<1> DEFINE N == Len(v)
           f == [n \in 0..N |-> g[n] - h[n]]
<1>3. N \in Nat /\ \A k \in 1..N : v[k] \in Int /\ w[k] \in Int /\ u[k] = v[k] - w[k]
  OBVIOUS
<1> HIDE DEF N
<1>4. g \in [0..N -> Int] /\ h \in [0..N -> Int] /\ g[0] = 0 /\ h[0] = 0
  BY <1>1, <1>2 DEF Adds, Sums, N
<1>5. \A k \in 1..N : f[k] = f[k - 1] + u[k]
  <2> TAKE k \in 1..N
  <2>1. k \in 0..N /\ k - 1 \in 0..N
    BY <1>3
  <2>2. g[k] = g[k - 1] + v[k] /\ h[k] = h[k - 1] + w[k]
    BY <1>1, <1>2 DEF Adds, Sums, N
  <2>3. g[k - 1] \in Int /\ h[k - 1] \in Int
    BY <1>4, <2>1
  <2>4. f[k] = g[k] - h[k] /\ f[k - 1] = g[k - 1] - h[k - 1]
    BY <2>1
  <2> HIDE DEF f
  <2> QED BY <1>3, <2>2, <2>3, <2>4
<1>6. Adds(f, u, N)
  <2>1. f \in [0..N -> Int] /\ f[0] = 0
    <3>1. \A n \in 0..N : g[n] \in Int /\ h[n] \in Int
      BY <1>4
    <3> QED BY <1>3, <1>4, <3>1
  <2> HIDE DEF f
  <2> QED BY <1>5, <2>1 DEF Adds, Sums
<1>7. f[N] = g[N] - h[N]
  BY <1>3
<1> HIDE DEF f
<1> QED BY <1>1, <1>2, <1>6, <1>7, TotalIs DEF N

(* The sum of a sequence that is zero but for one element. *)
LEMMA TotalOfOne ==
  ASSUME NEW w \in Seq(Int), NEW i \in 1..Len(w), \A k \in 1..Len(w) : k # i => w[k] = 0
  PROVE  Total(w) = w[i]
<1> DEFINE N == Len(w)
           f == [n \in 0..N |-> IF n < i THEN 0 ELSE w[i]]
<1>1. N \in Nat /\ i \in 1..N /\ w[i] \in Int /\ \A k \in 1..N : k # i => w[k] = 0
  OBVIOUS
<1> HIDE DEF N
<1>2. \A k \in 1..N : f[k] = f[k - 1] + w[k]
  <2> TAKE k \in 1..N
  <2>1. CASE k = i
    BY <1>1, <2>1
  <2>2. CASE k # i
    BY <1>1, <2>2
  <2> QED BY <2>1, <2>2
<1>3. Adds(f, w, N) /\ f[N] = w[i]
  BY <1>1, <1>2 DEF Adds, Sums
<1> HIDE DEF f
<1> QED BY <1>3, TotalIs DEF N

(* What a sum becomes when one term does. *)
LEMMA TotalUpdate ==
  ASSUME NEW v \in Seq(Int), NEW w \in Seq(Int), Len(v) = Len(w), NEW i \in 1..Len(w),
         \A k \in 1..Len(w) : k # i => v[k] = w[k]
  PROVE  Total(w) - Total(v) = w[i] - v[i]
<1> DEFINE N == Len(w)
           d == [k \in 1..N |-> w[k] - v[k]]
<1>1. N \in Nat /\ \A k \in 1..N : w[k] \in Int /\ v[k] \in Int
  OBVIOUS
<1>2. d \in Seq(Int) /\ Len(d) = N /\ \A k \in 1..N : d[k] = w[k] - v[k]
  <2> HIDE DEF N
  <2>1. d \in [1..N -> Int]
    BY <1>1
  <2> QED BY <1>1, <2>1
<1> HIDE DEF d
<1>3. Total(d) = Total(w) - Total(v)
  BY <1>2, TotalDifference
<1>4. \A k \in 1..N : k # i => d[k] = 0
  BY <1>1, <1>2
<1>5. Total(d) = d[i]
  BY <1>2, <1>4, TotalOfOne
<1> QED BY <1>2, <1>3, <1>5

-----------------------------------------------------------------------------
(* Digits *)

(* f counts the digits of the numbers up to n. *)
Counts(f, n) ==
  f \in [0..n -> Nat] /\ \A k \in 0..n : f[k] = IF k < 10 THEN 1 ELSE f[k \div 10] + 1

(* What a number is divided by leaves a smaller one. *)
LEMMA Tenth ==
  ASSUME NEW n \in Nat, n >= 10
  PROVE  n \div 10 \in 0..(n - 1)
  OBVIOUS

(* The digits can be counted, by induction on the number, *)
LEMMA CountsExists ==
  ASSUME NEW n \in Nat
  PROVE  \E f : Counts(f, n)
<1> DEFINE T == {k \in Nat : ~\E f : Counts(f, k)}
<1> SUFFICES ASSUME T # {} PROVE FALSE
  OBVIOUS
<1>1. PICK x \in T : \A y \in T : x <= y
  <2>1. T \in SUBSET Nat
    OBVIOUS
  <2> HIDE DEF T
  <2> QED BY <2>1, Least
<1>2. x \in Nat
  OBVIOUS
<1>3. CASE x = 0
  <2>1. Counts([k \in 0..0 |-> 1], 0)
    BY DEF Counts
  <2> QED BY <1>1, <1>3, <2>1
<1>4. CASE x # 0
  <2>1. x - 1 \in Nat /\ x - 1 \notin T
    BY <1>1, <1>2, <1>4
  <2>2. PICK f : Counts(f, x - 1)
    BY <2>1
  <2> DEFINE last == IF x < 10 THEN 1 ELSE f[x \div 10] + 1
             g == [k \in 0..x |-> IF k = x THEN last ELSE f[k]]
  <2>3. \A k \in 0..(x - 1) : f[k] \in Nat /\ f[k] = IF k < 10 THEN 1 ELSE f[k \div 10] + 1
    BY <2>1, <2>2 DEF Counts
  <2>4. last \in Nat
    BY <1>2, <2>3, Tenth
  <2>5. \A k \in 0..(x - 1) : g[k] = f[k]
    BY <1>2
  <2>6. g[x] = last
    BY <1>2
  <2>7. \A k \in 0..x : g[k] = IF k < 10 THEN 1 ELSE g[k \div 10] + 1
    <3> TAKE k \in 0..x
    <3>1. k >= 10 => k \div 10 \in 0..(k - 1) /\ k \div 10 \in 0..(x - 1)
      BY <1>2, Tenth
    <3>2. k >= 10 => g[k \div 10] = f[k \div 10]
      BY <2>5, <3>1
    <3> HIDE DEF g
    <3>3. CASE k = x
      BY <1>2, <2>6, <3>2, <3>3
    <3>4. CASE k # x
      <4>1. k \in 0..(x - 1)
        BY <1>2, <3>4
      <4> QED BY <2>3, <2>5, <3>2, <4>1
    <3> QED BY <3>3, <3>4
  <2>8. g \in [0..x -> Nat]
    <3>1. \A k \in 0..x : k = x \/ k \in 0..(x - 1)
      BY <1>2
    <3> HIDE DEF last
    <3> QED BY <2>3, <2>4, <3>1
  <2>9. Counts(g, x)
    BY <2>7, <2>8 DEF Counts
  <2> QED BY <1>1, <2>9
<1> QED BY <1>3, <1>4

(* in one way only. *)
LEMMA CountsUnique ==
  ASSUME NEW m \in Nat, NEW n \in Nat, m <= n, NEW f, NEW g, Counts(f, m), Counts(g, n)
  PROVE  \A k \in 0..m : f[k] = g[k]
<1> DEFINE T == {k \in 0..m : f[k] # g[k]}
<1> SUFFICES ASSUME T # {} PROVE FALSE
  OBVIOUS
<1>1. PICK x \in T : \A y \in T : x <= y
  <2>1. T \in SUBSET Nat
    OBVIOUS
  <2> HIDE DEF T
  <2> QED BY <2>1, Least
<1>2. /\ x \in 0..m /\ x \in 0..n
      /\ f[x] = IF x < 10 THEN 1 ELSE f[x \div 10] + 1
      /\ g[x] = IF x < 10 THEN 1 ELSE g[x \div 10] + 1
  BY DEF Counts
<1>3. x >= 10
  BY <1>2
<1>4. x \div 10 \in 0..(x - 1)
  BY <1>2, <1>3, Tenth
<1>5. x \div 10 \in 0..m /\ x \div 10 \notin T
  BY <1>1, <1>2, <1>4
<1> QED BY <1>2, <1>5

(* Digits is what it says. *)
LEMMA DigitsDef ==
  \A n \in Nat : Digits[n] = IF n < 10 THEN 1 ELSE Digits[n \div 10] + 1
<1> DEFINE F(n) == CHOOSE f : Counts(f, n)
           D == [n \in Nat |-> F(n)[n]]
<1>1. \A n \in Nat : Counts(F(n), n)
  BY CountsExists
<1> HIDE DEF F
<1>2. \A n \in Nat : D[n] = IF n < 10 THEN 1 ELSE D[n \div 10] + 1
  <2> TAKE n \in Nat
  <2>1. F(n)[n] = IF n < 10 THEN 1 ELSE F(n)[n \div 10] + 1
    BY <1>1 DEF Counts
  <2>2. CASE n >= 10
    <3>1. n \div 10 \in Nat /\ n \div 10 <= n
      BY <2>2, Tenth
    <3>2. F(n \div 10)[n \div 10] = F(n)[n \div 10]
      BY <1>1, <3>1, CountsUnique
    <3> QED BY <2>1, <2>2, <3>1, <3>2
  <2>3. CASE n < 10
    BY <2>1, <2>3
  <2> QED BY <2>2, <2>3
<1>3. D = [n \in Nat |-> IF n < 10 THEN 1 ELSE D[n \div 10] + 1]
  BY <1>2
<1> HIDE DEF D
<1>4. Digits = [n \in Nat |-> IF n < 10 THEN 1 ELSE Digits[n \div 10] + 1]
  BY <1>3 DEF Digits
<1> QED BY <1>4

(* A number has at least one digit. *)
LEMMA DigitsType ==
  \A n \in Nat : Digits[n] \in Nat /\ Digits[n] > 0
<1> DEFINE T == {n \in Nat : ~(Digits[n] \in Nat /\ Digits[n] > 0)}
<1> SUFFICES ASSUME T # {} PROVE FALSE
  OBVIOUS
<1>1. PICK x \in T : \A y \in T : x <= y
  <2>1. T \in SUBSET Nat
    OBVIOUS
  <2> HIDE DEF T
  <2> QED BY <2>1, Least
<1>2. x \in Nat /\ Digits[x] = IF x < 10 THEN 1 ELSE Digits[x \div 10] + 1
  BY DigitsDef
<1>3. x >= 10
  BY <1>2
<1>4. x \div 10 \in 0..(x - 1)
  BY <1>2, <1>3, Tenth
<1>5. x \div 10 \in Nat /\ x \div 10 \notin T
  BY <1>1, <1>2, <1>4
<1> QED BY <1>2, <1>3, <1>5

(* The next number has as many digits, or one more. *)
LEMMA DigitsStep ==
  \A n \in Nat : Digits[n] <= Digits[n + 1] /\ Digits[n + 1] <= Digits[n] + 1
<1> DEFINE P(n) == Digits[n] <= Digits[n + 1] /\ Digits[n + 1] <= Digits[n] + 1
           T == {n \in Nat : ~P(n)}
<1> SUFFICES ASSUME T # {} PROVE FALSE
  OBVIOUS
<1>1. PICK x \in T : \A y \in T : x <= y
  <2>1. T \in SUBSET Nat
    OBVIOUS
  <2> HIDE DEF T
  <2> QED BY <2>1, Least
<1>2. /\ x \in Nat
      /\ Digits[x] = IF x < 10 THEN 1 ELSE Digits[x \div 10] + 1
      /\ Digits[x + 1] = IF x + 1 < 10 THEN 1 ELSE Digits[(x + 1) \div 10] + 1
  BY DigitsDef
<1>3. x >= 9
  BY <1>2
<1>4. CASE x = 9
  <2>1. Digits[10] = Digits[10 \div 10] + 1 /\ 10 \div 10 = 1 /\ Digits[1] = 1 /\ Digits[9] = 1
    BY DigitsDef
  <2> QED BY <1>4, <2>1
<1>5. CASE x >= 10
  <2> DEFINE q == x \div 10
  <2>1. q \in 0..(x - 1)
    BY <1>2, <1>5, Tenth
  <2>2. (x + 1) \div 10 = q \/ (x + 1) \div 10 = q + 1
    BY <1>2
  <2> HIDE DEF q
  <2>3. q \in Nat /\ q \notin T
    BY <1>1, <1>2, <2>1
  <2>4. Digits[q] <= Digits[q + 1] /\ Digits[q + 1] <= Digits[q] + 1
    BY <2>3
  <2>5. Digits[q] \in Nat /\ Digits[q + 1] \in Nat
    BY <2>3, DigitsType
  <2>6. Digits[x] = Digits[q] + 1
    BY <1>2, <1>5 DEF q
  <2>7. Digits[x + 1] = Digits[q] + 1 \/ Digits[x + 1] = Digits[q + 1] + 1
    BY <1>2, <1>5, <2>2
  <2>8. P(x)
    BY <2>4, <2>5, <2>6, <2>7
  <2> QED BY <2>8
<1> QED BY <1>2, <1>3, <1>4, <1>5

(* Digits grow no faster than the number. *)
LEMMA DigitsSlow ==
  ASSUME NEW m \in Nat, NEW n \in Nat, m <= n
  PROVE  Digits[n] - Digits[m] <= n - m
<1> DEFINE P(k) == Digits[k] - Digits[m] <= k - m
           T == {k \in Nat : m <= k /\ ~P(k)}
<1> SUFFICES ASSUME T # {} PROVE FALSE
  OBVIOUS
<1>1. PICK x \in T : \A y \in T : x <= y
  <2>1. T \in SUBSET Nat
    OBVIOUS
  <2> HIDE DEF T
  <2> QED BY <2>1, Least
<1>2. x \in Nat /\ m <= x /\ ~P(x)
  OBVIOUS
<1>3. Digits[m] \in Nat /\ Digits[x] \in Nat
  BY <1>2, DigitsType
<1>4. x # m
  BY <1>2, <1>3
<1>5. x - 1 \in Nat /\ m <= x - 1 /\ x - 1 \notin T
  BY <1>1, <1>2, <1>4
<1>6. Digits[x - 1] - Digits[m] <= (x - 1) - m
  BY <1>5
<1>7. Digits[x] <= Digits[x - 1] + 1
  <2>1. Digits[x - 1 + 1] <= Digits[x - 1] + 1
    BY <1>5, DigitsStep
  <2> QED BY <1>2, <2>1
<1>8. Digits[x - 1] \in Nat
  BY <1>5, DigitsType
<1> HIDE DEF T
<1> QED BY <1>2, <1>3, <1>6, <1>7, <1>8

-----------------------------------------------------------------------------
(* Weights *)

(* A message weighs at least its text. *)
LEMMA WeightType ==
  ASSUME NEW m \in Message
  PROVE  /\ messageChars(m) \in Nat
         /\ \A c \in Nat : messageChars([m EXCEPT !.chars = c]) = messageChars(m) - m.chars + c
<1> DEFINE w(x) == [k \in 1..Len(x.calls) |-> IdLen(x.calls[k].id) + NameChars + x.calls[k].args]
<1>1. m.chars \in Nat /\ m.calls \in Seq(ToolCall)
  BY DEF Message
<1>2. \A id : IdLen(id) \in Nat
  BY CompactAssumption DEF IdLen
<1>3. w(m) \in Seq(Nat)
  <2>1. \A k \in 1..Len(m.calls) : m.calls[k].args \in Nat
    <3>1. \A k \in 1..Len(m.calls) : m.calls[k] \in ToolCall
      BY <1>1
    <3> QED BY <3>1 DEF ToolCall
  <2>2. \A k \in 1..Len(m.calls) : IdLen(m.calls[k].id) + NameChars + m.calls[k].args \in Nat
    BY <1>2, <2>1, CompactAssumption
  <2>3. Len(m.calls) \in Nat
    BY <1>1
  <2> QED BY <2>2, <2>3
<1>4. messageChars(m) = m.chars + IdLen(m.callID) + Total(w(m))
  BY DEF messageChars
<1>5. Total(w(m)) \in Nat
  BY <1>3, TotalNat
<1>6. ASSUME NEW c \in Nat PROVE messageChars([m EXCEPT !.chars = c]) = c + IdLen(m.callID) + Total(w(m))
  <2> DEFINE n == [m EXCEPT !.chars = c]
  <2>1. n.chars = c /\ n.callID = m.callID /\ n.calls = m.calls
    BY DEF Message
  <2> HIDE DEF n
  <2>2. w(n) = w(m)
    BY <2>1
  <2> HIDE DEF w
  <2>3. messageChars(n) = n.chars + IdLen(n.callID) + Total(w(n))
    BY DEF messageChars, w
  <2> QED BY <2>1, <2>2, <2>3 DEF n
<1>7. IdLen(m.callID) \in Nat
  BY <1>2
<1> HIDE DEF w
<1> QED BY <1>1, <1>4, <1>5, <1>6, <1>7

(* The weights of a conversation. *)
Weights(ms) == [i \in 1..Len(ms) |-> messageChars(ms[i])]

(* They are natural numbers, one for each message. *)
LEMMA WeightsType ==
  ASSUME NEW ms \in Seq(Message)
  PROVE  /\ Weights(ms) \in Seq(Nat) /\ Weights(ms) \in Seq(Int)
         /\ Len(Weights(ms)) = Len(ms)
         /\ \A i \in 1..Len(ms) : Weights(ms)[i] = messageChars(ms[i])
         /\ conversationChars(ms) \in Nat
<1>1. Len(ms) \in Nat /\ \A i \in 1..Len(ms) : messageChars(ms[i]) \in Nat
  BY WeightType
<1>2. Weights(ms) \in [1..Len(ms) -> Nat]
  BY <1>1 DEF Weights
<1>3. Weights(ms) \in Seq(Nat) /\ Weights(ms) \in Seq(Int)
  <2> DEFINE n == Len(ms) f == Weights(ms)
  <2>1. n \in Nat /\ f \in [1..n -> Nat]
    BY <1>1, <1>2
  <2> HIDE DEF n, f
  <2>2. f \in Seq(Nat) /\ f \in Seq(Int)
    BY <2>1
  <2> QED BY <2>2 DEF f
<1>4. Len(Weights(ms)) = Len(ms)
  BY <1>1, <1>3 DEF Weights
<1> QED BY <1>3, <1>4, TotalNat DEF Weights, conversationChars

(* What a conversation weighs when one message is replaced. *)
LEMMA ConversationUpdate ==
  ASSUME NEW ms \in Seq(Message), NEW i \in 1..Len(ms), NEW m \in Message
  PROVE  /\ [ms EXCEPT ![i] = m] \in Seq(Message)
         /\ conversationChars([ms EXCEPT ![i] = m]) = conversationChars(ms) - messageChars(ms[i]) + messageChars(m)
<1> DEFINE ns == [ms EXCEPT ![i] = m]
<1>1. ns \in Seq(Message) /\ Len(ns) = Len(ms) /\ ns[i] = m /\ \A k \in 1..Len(ms) : k # i => ns[k] = ms[k]
  OBVIOUS
<1> HIDE DEF ns
<1>2. /\ Weights(ns) \in Seq(Int) /\ Weights(ms) \in Seq(Int)
      /\ Len(Weights(ms)) = Len(ms) /\ Len(Weights(ns)) = Len(ms)
  BY <1>1, WeightsType
<1>3. \A k \in 1..Len(ms) : Weights(ms)[k] = messageChars(ms[k]) /\ Weights(ns)[k] = messageChars(ns[k])
  BY <1>1, WeightsType
<1>4. \A k \in 1..Len(ms) : k # i => Weights(ms)[k] = Weights(ns)[k]
  BY <1>1, <1>3
<1>5. Total(Weights(ns)) - Total(Weights(ms)) = Weights(ns)[i] - Weights(ms)[i]
  BY <1>2, <1>4, TotalUpdate
<1>6. Weights(ns)[i] = messageChars(m) /\ Weights(ms)[i] = messageChars(ms[i])
  BY <1>1, <1>3
<1>7. conversationChars(ns) = Total(Weights(ns)) /\ conversationChars(ms) = Total(Weights(ms))
  BY DEF conversationChars, Weights
<1>8. conversationChars(ns) \in Nat /\ conversationChars(ms) \in Nat /\ messageChars(m) \in Nat /\ messageChars(ms[i]) \in Nat
  BY <1>1, WeightsType, WeightType
<1>9. conversationChars(ns) = conversationChars(ms) - messageChars(ms[i]) + messageChars(m)
  BY <1>5, <1>6, <1>7, <1>8
<1> QED BY <1>1, <1>9 DEF ns

(* What a message saves when its arguments are stubbed. *)
LEMMA SavedIs ==
  ASSUME NEW m \in Message, gone \subseteq CallID
  PROVE  /\ stubCallArgs(m) \in Message
         /\ Saved(m) \in Nat
         /\ messageChars(stubCallArgs(m)) = messageChars(m) - Saved(m)
         /\ \A k \in DOMAIN m.calls : ~Stubs(stubCallArgs(m).calls[k])
         /\ Saved(m) = 0 => \A k \in DOMAIN m.calls : ~Stubs(m.calls[k])
<1> DEFINE n == stubCallArgs(m)
           N == Len(m.calls)
           w(x) == [k \in 1..Len(x.calls) |-> IdLen(x.calls[k].id) + NameChars + x.calls[k].args]
           s == [k \in 1..N |-> IF Stubs(m.calls[k]) THEN m.calls[k].args - ArgsStubChars ELSE 0]
<1>1. m.chars \in Nat /\ m.calls \in Seq(ToolCall) /\ N \in Nat /\ DOMAIN m.calls = 1..N
  BY DEF Message
<1>2. \A k \in 1..N : m.calls[k] \in ToolCall /\ m.calls[k].args \in Nat
  <2>1. \A k \in 1..N : m.calls[k] \in ToolCall
    BY <1>1
  <2> QED BY <2>1 DEF ToolCall
<1>3. ArgsStubChars \in Nat /\ NameChars \in Nat /\ \A id : IdLen(id) \in Nat
  BY CompactAssumption DEF IdLen
<1> DEFINE c(k) == IF Stubs(m.calls[k]) THEN [m.calls[k] EXCEPT !.args = ArgsStubChars] ELSE m.calls[k]
<1>4. n = [m EXCEPT !.calls = [k \in 1..N |-> c(k)]]
  BY <1>1 DEF stubCallArgs
<1>5. \A k \in 1..N : c(k) \in ToolCall /\ c(k).id = m.calls[k].id
                      /\ c(k).args = IF Stubs(m.calls[k]) THEN ArgsStubChars ELSE m.calls[k].args
  BY <1>2, <1>3 DEF ToolCall
<1>6. n \in Message /\ n.chars = m.chars /\ n.callID = m.callID /\ n.calls = [k \in 1..N |-> c(k)] /\ Len(n.calls) = N
  <2> HIDE DEF c, n
  <2> DEFINE q == [k \in 1..N |-> c(k)]
  <2>1. q \in [1..N -> ToolCall]
    BY <1>5
  <2>2. q \in Seq(ToolCall) /\ Len(q) = N
    <3> HIDE DEF q
    <3> QED BY <1>1, <2>1
  <2> HIDE DEF q
  <2>3. n = [m EXCEPT !.calls = q]
    BY <1>4 DEF q
  <2>4. n \in Message /\ n.chars = m.chars /\ n.callID = m.callID /\ n.calls = q
    BY <2>2, <2>3 DEF Message
  <2> QED BY <2>2, <2>4 DEF q
<1>7. \A k \in 1..N : n.calls[k] = c(k)
  BY <1>6
<1> HIDE DEF n, c
<1>8. \A k \in 1..N : /\ w(m)[k] = IdLen(m.calls[k].id) + NameChars + m.calls[k].args
                      /\ w(n)[k] = IdLen(m.calls[k].id) + NameChars + c(k).args
                      /\ w(m)[k] \in Nat /\ w(n)[k] \in Nat
  <2>1. \A k \in 1..N : w(m)[k] = IdLen(m.calls[k].id) + NameChars + m.calls[k].args
    OBVIOUS
  <2>2. \A k \in 1..N : w(n)[k] = IdLen(m.calls[k].id) + NameChars + c(k).args
    BY <1>5, <1>6, <1>7
  <2>3. \A k \in 1..N : c(k).args \in Nat
    BY <1>2, <1>3, <1>5
  <2> SUFFICES ASSUME NEW k \in 1..N PROVE w(m)[k] \in Nat /\ w(n)[k] \in Nat
    BY <2>1, <2>2
  <2>4. /\ w(m)[k] = IdLen(m.calls[k].id) + NameChars + m.calls[k].args
        /\ w(n)[k] = IdLen(m.calls[k].id) + NameChars + c(k).args
    BY <2>1, <2>2
  <2>5. IdLen(m.calls[k].id) \in Nat /\ m.calls[k].args \in Nat /\ c(k).args \in Nat
    BY <1>2, <1>3, <2>3
  <2> HIDE DEF w, c, N
  <2> QED BY <1>3, <2>4, <2>5
<1>9. \A k \in 1..N : s[k] \in Nat /\ s[k] = w(m)[k] - w(n)[k]
  <2> TAKE k \in 1..N
  <2>1. m.calls[k].args \in Nat /\ IdLen(m.calls[k].id) \in Nat
    BY <1>2, <1>3
  <2>2. CASE Stubs(m.calls[k])
    <3>1. m.calls[k].args > ArgsStubChars /\ s[k] = m.calls[k].args - ArgsStubChars
      BY <2>2 DEF Stubs
    <3>2. c(k).args = ArgsStubChars
      BY <1>5, <2>2
    <3>3. w(m)[k] = IdLen(m.calls[k].id) + NameChars + m.calls[k].args
      BY <1>8
    <3>4. w(n)[k] = IdLen(m.calls[k].id) + NameChars + ArgsStubChars
      BY <1>8, <3>2
    <3> HIDE DEF w, s
    <3> QED BY <1>3, <2>1, <3>1, <3>3, <3>4
  <2>3. CASE ~Stubs(m.calls[k])
    <3>1. s[k] = 0 /\ c(k).args = m.calls[k].args
      BY <1>5, <2>3
    <3> HIDE DEF w, s
    <3> QED BY <1>3, <1>8, <2>1, <3>1
  <2> QED BY <2>2, <2>3
<1>10. /\ w(m) \in Seq(Int) /\ w(n) \in Seq(Int) /\ s \in Seq(Int) /\ s \in Seq(Nat)
       /\ Len(w(m)) = N /\ Len(w(n)) = N /\ Len(s) = N
  <2>1. w(m) \in [1..N -> Nat] /\ w(n) \in [1..N -> Nat] /\ s \in [1..N -> Nat]
    <3>1. w(n) = [k \in 1..N |-> IdLen(n.calls[k].id) + NameChars + n.calls[k].args]
      BY <1>6
    <3>2. \A k \in 1..N : IdLen(n.calls[k].id) + NameChars + n.calls[k].args \in Nat
      BY <1>8, <3>1
    <3>3. \A k \in 1..N : IdLen(m.calls[k].id) + NameChars + m.calls[k].args \in Nat
      BY <1>8
    <3>4. \A k \in 1..N : (IF Stubs(m.calls[k]) THEN m.calls[k].args - ArgsStubChars ELSE 0) \in Nat
      BY <1>9
    <3> QED BY <3>1, <3>2, <3>3, <3>4
  <2> HIDE DEF w, s, N
  <2> QED BY <1>1, <2>1
<1>11. messageChars(m) = m.chars + IdLen(m.callID) + Total(w(m))
  BY DEF messageChars
<1>12. messageChars(n) = n.chars + IdLen(n.callID) + Total(w(n))
  BY DEF messageChars
<1>13. Saved(m) = Total(s)
  BY DEF Saved
<1> HIDE DEF w, s
<1>14. Total(s) = Total(w(m)) - Total(w(n))
  BY <1>9, <1>10, TotalDifference
<1>15. Total(w(m)) \in Int /\ Total(w(n)) \in Int
  BY <1>10, TotalType
<1>16. Total(s) \in Nat /\ \A k \in 1..N : s[k] <= Total(s)
  BY <1>10, TotalNat
<1>17. messageChars(n) = messageChars(m) - Saved(m)
  <2>1. IdLen(m.callID) \in Nat
    BY <1>3
  <2> QED BY <1>1, <1>6, <1>11, <1>12, <1>13, <1>14, <1>15, <2>1
<1>18. \A k \in 1..N : ~Stubs(n.calls[k])
  <2> TAKE k \in 1..N
  <2>1. n.calls[k].id = m.calls[k].id /\ n.calls[k].args = IF Stubs(m.calls[k]) THEN ArgsStubChars ELSE m.calls[k].args
    BY <1>5, <1>7
  <2> QED BY <1>3, <2>1 DEF Stubs
<1>19. ASSUME Saved(m) = 0, NEW k \in 1..N, Stubs(m.calls[k]) PROVE FALSE
  <2>1. s[k] = m.calls[k].args - ArgsStubChars
    BY <1>19 DEF s
  <2>2. s[k] <= 0 /\ s[k] \in Nat
    BY <1>9, <1>13, <1>16, <1>19
  <2>3. m.calls[k].args > ArgsStubChars
    BY <1>19 DEF Stubs
  <2> QED BY <1>2, <1>3, <2>1, <2>2, <2>3
<1> QED BY <1>1, <1>6, <1>13, <1>16, <1>17, <1>18, <1>19 DEF n

(* A stub stands for a message, and weighs what its text weighs less or more. *)
LEMMA StubType ==
  ASSUME NEW m \in Message, opt.stub \in Nat
  PROVE  /\ stubResult(m) \in Message
         /\ stubResult(m).chars \in Nat
         /\ messageChars(stubResult(m)) = messageChars(m) - m.chars + stubResult(m).chars
<1> DEFINE c == (IF opt.stub = 0 THEN StubChars ELSE opt.stub) + NoteChars + Digits[m.chars]
<1>1. m.chars \in Nat
  BY DEF Message
<1>2. c \in Nat
  BY <1>1, DigitsType, CompactAssumption
<1>3. stubResult(m) = [m EXCEPT !.chars = c]
  BY DEF stubResult
<1> HIDE DEF c
<1>4. stubResult(m) \in Message /\ stubResult(m).chars = c
  BY <1>2, <1>3 DEF Message
<1> QED BY <1>2, <1>3, <1>4, WeightType

(* Where a stub is longer than a result, it is longer than a shorter result. *)
LEMMA StubGrows ==
  ASSUME NEW m \in Message, NEW n \in Message, opt.stub \in Nat,
         n.chars <= m.chars, stubResult(m).chars > m.chars
  PROVE  stubResult(n).chars > n.chars
<1> DEFINE c == (IF opt.stub = 0 THEN StubChars ELSE opt.stub) + NoteChars
<1>1. m.chars \in Nat /\ n.chars \in Nat /\ Digits[m.chars] \in Nat /\ Digits[n.chars] \in Nat
  BY DigitsType DEF Message
<1>2. c \in Nat
  BY CompactAssumption
<1>3. stubResult(m).chars = c + Digits[m.chars] /\ stubResult(n).chars = c + Digits[n.chars]
  BY DEF stubResult, Message
<1> HIDE DEF c
<1>4. Digits[m.chars] - Digits[n.chars] <= m.chars - n.chars
  BY <1>1, DigitsSlow
<1> QED BY <1>1, <1>2, <1>3, <1>4

-----------------------------------------------------------------------------
(* Turns *)

(* Turns are counted with natural numbers. *)
LEMMA TurnType ==
  ASSUME NEW ms, NEW i \in Nat
  PROVE  IsFiniteSet(UsersUpTo(ms, i)) /\ TurnOf(ms, i) \in Nat
<1>1. IsFiniteSet(1..i)
  BY FS_Interval
<1>2. UsersUpTo(ms, i) \subseteq 1..i
  BY DEF UsersUpTo
<1> QED BY <1>1, <1>2, FS_Subset, FS_CardinalityType DEF TurnOf

(* A user's message begins one, and nothing else does. *)
LEMMA TurnStep ==
  ASSUME NEW ms, NEW i \in Nat \ {0}
  PROVE  TurnOf(ms, i) = TurnOf(ms, i - 1) + (IF ms[i].role = "user" THEN 1 ELSE 0)
<1>1. IsFiniteSet(UsersUpTo(ms, i - 1)) /\ TurnOf(ms, i - 1) \in Nat
  BY TurnType
<1>2. CASE ms[i].role = "user"
  <2>1. UsersUpTo(ms, i) = UsersUpTo(ms, i - 1) \cup {i} /\ i \notin UsersUpTo(ms, i - 1)
    BY <1>2 DEF UsersUpTo
  <2>2. Cardinality(UsersUpTo(ms, i - 1) \cup {i}) = Cardinality(UsersUpTo(ms, i - 1)) + 1
    BY <1>1, <2>1, FS_AddElement
  <2> QED BY <1>2, <2>1, <2>2 DEF TurnOf
<1>3. CASE ms[i].role # "user"
  <2>1. UsersUpTo(ms, i) = UsersUpTo(ms, i - 1)
    BY <1>3 DEF UsersUpTo
  <2> QED BY <1>1, <1>3, <2>1 DEF TurnOf
<1> QED BY <1>2, <1>3

(* Turns follow each other. *)
LEMMA TurnMonotone ==
  ASSUME NEW ms, NEW i \in Nat, NEW j \in Nat, i <= j
  PROVE  TurnOf(ms, i) <= TurnOf(ms, j)
<1>1. UsersUpTo(ms, i) \subseteq UsersUpTo(ms, j)
  BY DEF UsersUpTo
<1> QED BY <1>1, TurnType, FS_Subset DEF TurnOf

(* Each turn was begun by some user's message. *)
LEMMA TurnBegins ==
  ASSUME NEW ms, NEW n \in Nat, NEW k \in 1..TurnOf(ms, n)
  PROVE  \E i \in UsersUpTo(ms, n) : TurnOf(ms, i) = k
<1> DEFINE T == {i \in 0..n : TurnOf(ms, i) >= k}
<1>1. PICK x \in T : \A y \in T : x <= y
  <2>1. n \in T
    BY TurnType
  <2>2. T \in SUBSET Nat
    OBVIOUS
  <2> HIDE DEF T
  <2> QED BY <2>1, <2>2, Least
<1>2. TurnOf(ms, 0) = 0
  <2>1. UsersUpTo(ms, 0) = {}
    BY DEF UsersUpTo
  <2> QED BY <2>1, FS_EmptySet DEF TurnOf
<1>3. k \in Nat /\ k > 0
  BY TurnType
<1>4. x # 0
  BY <1>2, <1>3
<1>5. x \in Nat \ {0} /\ x - 1 \in Nat /\ x \in 1..n
  BY <1>4
<1>6. x - 1 \notin T
  BY <1>1, <1>5
<1>7. TurnOf(ms, x - 1) \in Nat /\ TurnOf(ms, x) \in Nat
  BY <1>5, TurnType
<1>8. TurnOf(ms, x - 1) < k
  BY <1>3, <1>5, <1>6, <1>7
<1>9. TurnOf(ms, x) = TurnOf(ms, x - 1) + (IF ms[x].role = "user" THEN 1 ELSE 0)
  BY <1>5, TurnStep
<1>10. TurnOf(ms, x) = k /\ ms[x].role = "user"
  BY <1>3, <1>7, <1>8, <1>9
<1> QED BY <1>5, <1>10 DEF UsersUpTo

(* userAt says where. *)
LEMMA UserAt ==
  ASSUME NEW ms \in Seq(Message)
  PROVE  /\ userAt(ms) \in Seq(1..Len(ms)) /\ Len(userAt(ms)) = TurnOf(ms, Len(ms))
         /\ \A k \in 1..Len(userAt(ms)) :
              /\ userAt(ms)[k] \in 1..Len(ms)
              /\ \A i \in 1..Len(ms) : i < userAt(ms)[k] <=> TurnOf(ms, i) < k
<1> DEFINE N == Len(ms)
           U == TurnOf(ms, N)
           C(k) == CHOOSE i \in UsersUpTo(ms, N) : Cardinality(UsersUpTo(ms, i)) = k
<1>1. N \in Nat /\ U \in Nat
  BY TurnType
<1>2. userAt(ms) = [k \in 1..U |-> C(k)]
  BY DEF userAt, TurnOf
<1>3. \A k \in 1..U : C(k) \in UsersUpTo(ms, N) /\ TurnOf(ms, C(k)) = k
  <2> TAKE k \in 1..U
  <2>1. \E i \in UsersUpTo(ms, N) : Cardinality(UsersUpTo(ms, i)) = k
    BY <1>1, TurnBegins DEF TurnOf
  <2> QED BY <2>1 DEF TurnOf
<1> HIDE DEF C
<1>4. \A k \in 1..U : C(k) \in 1..N /\ ms[C(k)].role = "user"
  BY <1>3 DEF UsersUpTo
<1>5. userAt(ms) \in Seq(1..N) /\ Len(userAt(ms)) = U
  <2> DEFINE f == userAt(ms)
  <2>1. f \in [1..U -> 1..N]
    BY <1>2, <1>4
  <2> HIDE DEF f, U, N
  <2>2. f \in Seq(1..N) /\ Len(f) = U
    BY <1>1, <2>1
  <2> QED BY <2>2 DEF f
<1>6. ASSUME NEW k \in 1..U, NEW i \in 1..N PROVE i < C(k) <=> TurnOf(ms, i) < k
  <2>1. /\ C(k) \in Nat \ {0} /\ C(k) - 1 \in Nat /\ i \in Nat
        /\ TurnOf(ms, C(k)) = k /\ ms[C(k)].role = "user"
    BY <1>1, <1>3, <1>4
  <2>2. TurnOf(ms, i) \in Nat /\ TurnOf(ms, C(k) - 1) \in Nat /\ k \in Nat
    BY <1>1, <2>1, TurnType
  <2>3. k = TurnOf(ms, C(k) - 1) + 1
    BY <2>1, TurnStep
  <2>4. CASE i < C(k)
    <3>1. i <= C(k) - 1
      BY <2>1, <2>4
    <3>2. TurnOf(ms, i) <= TurnOf(ms, C(k) - 1)
      BY <2>1, <3>1, TurnMonotone
    <3> QED BY <2>2, <2>3, <2>4, <3>2
  <2>5. CASE i >= C(k)
    <3>1. TurnOf(ms, C(k)) <= TurnOf(ms, i)
      BY <2>1, <2>5, TurnMonotone
    <3> QED BY <2>1, <2>2, <2>5, <3>1
  <2> QED BY <2>1, <2>4, <2>5
<1> HIDE DEF U, N
<1>7. \A k \in 1..U : userAt(ms)[k] = C(k)
  BY <1>2
<1>8. \A k \in 1..Len(userAt(ms)) :
        userAt(ms)[k] \in 1..N /\ \A i \in 1..N : i < userAt(ms)[k] <=> TurnOf(ms, i) < k
  BY <1>4, <1>5, <1>6, <1>7
<1> QED BY <1>5, <1>8 DEF U, N

(* The smaller of two numbers. *)
LEMMA MinOfTwo ==
  ASSUME NEW m \in Nat, NEW n \in Nat
  PROVE  Min({m, n}) = IF m <= n THEN m ELSE n
<1>1. {m, n} \in SUBSET Nat /\ {m, n} # {}
  OBVIOUS
<1>2. Min({m, n}) \in {m, n} /\ \A y \in {m, n} : Min({m, n}) <= y
  BY <1>1, MinIsLeast
<1> QED BY <1>2

(* What lies in front of the protected tail. *)
LEMMA TailStart ==
  ASSUME NEW ms \in Seq(Message), NEW t \in Nat
  PROVE  /\ tailStart(ms, t) \in 1..(Len(ms) + 1)
         /\ \A i \in 1..Len(ms) : TurnOf(ms, i) > 0 =>
              (i < tailStart(ms, t) <=> TurnOf(ms, i) <= TurnOf(ms, Len(ms)) - t)
<1> DEFINE u == userAt(ms)
           N == Len(ms)
           U == TurnOf(ms, N)
<1>1. N \in Nat /\ U \in Nat
  BY TurnType
<1>2. u \in Seq(1..N) /\ Len(u) = U
  BY UserAt
<1>3. \A k \in 1..U : u[k] \in 1..N /\ \A i \in 1..N : i < u[k] <=> TurnOf(ms, i) < k
  BY <1>2, UserAt
<1>4. \A i \in 1..N : i \in Nat /\ TurnOf(ms, i) \in Nat /\ TurnOf(ms, i) <= U
  BY <1>1, TurnType, TurnMonotone
<1>5. tailStart(ms, t) = IF t > 0 /\ u # <<>> THEN u[U - Min({t, U}) + 1] ELSE N + 1
  BY <1>2 DEF tailStart
<1> HIDE DEF u, N, U
<1>6. CASE ~(t > 0 /\ u # <<>>)
  <2>1. u = <<>> => U = 0
    BY <1>2
  <2>2. tailStart(ms, t) = N + 1
    BY <1>5, <1>6
  <2>3. t = 0 \/ U = 0
    BY <1>6, <2>1
  <2>4. \A i \in 1..N : TurnOf(ms, i) > 0 => (i < N + 1 <=> TurnOf(ms, i) <= U - t)
    BY <1>1, <1>4, <2>3
  <2> QED BY <1>1, <2>2, <2>4 DEF N, U
<1>7. CASE t > 0 /\ u # <<>>
  <2>1. U > 0
    BY <1>1, <1>2, <1>7
  <2> DEFINE k == U - Min({t, U}) + 1
  <2>2. k \in 1..U /\ k = IF t <= U THEN U - t + 1 ELSE 1
    BY <1>1, <1>7, <2>1, MinOfTwo
  <2>3. tailStart(ms, t) = u[k]
    BY <1>5, <1>7
  <2> HIDE DEF k
  <2>4. u[k] \in 1..N /\ \A i \in 1..N : i < u[k] <=> TurnOf(ms, i) < k
    BY <1>3, <2>2
  <2>5. \A i \in 1..N : TurnOf(ms, i) > 0 => (i < u[k] <=> TurnOf(ms, i) <= U - t)
    BY <1>1, <1>4, <2>2, <2>4
  <2>6. u[k] \in 1..(N + 1)
    BY <1>1, <2>4
  <2> QED BY <2>3, <2>5, <2>6 DEF N, U
<1> QED BY <1>6, <1>7

(* What lies behind the protected head. *)
LEMMA HeadEnd ==
  ASSUME NEW ms \in Seq(Message), NEW h \in Nat, NEW t \in Nat
  PROVE  /\ headEnd(ms, h, t) \in 1..(Len(ms) + 1)
         /\ \A i \in 1..Len(ms) : TurnOf(ms, i) > 0 =>
              IF h >= TurnOf(ms, Len(ms)) THEN i >= headEnd(ms, h, t) => i >= tailStart(ms, t)
              ELSE i >= headEnd(ms, h, t) <=> TurnOf(ms, i) > h
<1> DEFINE u == userAt(ms)
           N == Len(ms)
           U == TurnOf(ms, N)
<1>1. N \in Nat /\ U \in Nat
  BY TurnType
<1>2. u \in Seq(1..N) /\ Len(u) = U
  BY UserAt
<1>3. \A k \in 1..U : u[k] \in 1..N /\ \A i \in 1..N : i < u[k] <=> TurnOf(ms, i) < k
  BY <1>2, UserAt
<1>4. \A i \in 1..N : i \in Nat /\ TurnOf(ms, i) \in Nat /\ TurnOf(ms, i) <= U
  BY <1>1, TurnType, TurnMonotone
<1>5. headEnd(ms, h, t) = IF h = 0 \/ u = <<>> THEN 1
                          ELSE IF h >= U THEN tailStart(ms, t) ELSE u[h + 1]
  BY <1>2 DEF headEnd
<1>6. tailStart(ms, t) \in 1..(N + 1)
  BY TailStart
<1> HIDE DEF u, N, U
<1>7. CASE h = 0 \/ u = <<>>
  <2>1. u = <<>> => U = 0
    BY <1>2
  <2>2. headEnd(ms, h, t) = 1
    BY <1>5, <1>7
  <2>3. ASSUME NEW i \in 1..N, TurnOf(ms, i) > 0 PROVE U > 0 /\ h = 0
    BY <1>1, <1>4, <1>7, <2>1, <2>3
  <2>4. \A i \in 1..N : TurnOf(ms, i) > 0 => h < U /\ (i >= 1 <=> TurnOf(ms, i) > h)
    BY <1>1, <1>4, <2>3
  <2>5. 1 \in 1..(N + 1)
    BY <1>1
  <2> QED BY <1>1, <2>2, <2>4, <2>5 DEF N, U
<1>8. CASE ~(h = 0 \/ u = <<>>) /\ h >= U
  <2>1. headEnd(ms, h, t) = tailStart(ms, t)
    BY <1>5, <1>8
  <2> QED BY <1>6, <1>8, <2>1 DEF N, U
<1>9. CASE ~(h = 0 \/ u = <<>>) /\ ~(h >= U)
  <2>1. h + 1 \in 1..U /\ headEnd(ms, h, t) = u[h + 1]
    BY <1>1, <1>5, <1>9
  <2>2. u[h + 1] \in 1..N /\ \A i \in 1..N : i < u[h + 1] <=> TurnOf(ms, i) < h + 1
    BY <1>3, <2>1
  <2>3. \A i \in 1..N : i >= u[h + 1] <=> TurnOf(ms, i) > h
    BY <1>1, <1>4, <2>2
  <2>4. u[h + 1] \in 1..(N + 1)
    BY <1>1, <2>2
  <2> QED BY <1>9, <2>1, <2>3, <2>4 DEF N, U
<1> QED BY <1>7, <1>8, <1>9

(* What may be elided is a result with a text that the caller does not        *)
(* protect; and of the turns there are, every such result.                    *)
LEMMA EligibleIs ==
  ASSUME NEW ms \in Seq(Message), opt.head \in Nat, opt.tail \in Nat
  PROVE  LET E == eligibleToolResults(ms, opt.head, opt.tail)
         IN  /\ \A i \in E : i \in 1..Len(ms) /\ ms[i].role = "tool" /\ ~Protected(ms, i)
             /\ \A i \in 1..Len(ms) :
                  ms[i].role = "tool" /\ ms[i].chars > 0 /\ TurnOf(ms, i) > 0 /\ ~Protected(ms, i) => i \in E
<1> DEFINE E == eligibleToolResults(ms, opt.head, opt.tail)
           h == opt.head
           t == opt.tail
           N == Len(ms)
           U == TurnOf(ms, N)
           he == headEnd(ms, h, t)
           ts == tailStart(ms, t)
<1>1. N \in Nat /\ U \in Nat /\ h \in Nat /\ t \in Nat
  BY TurnType
<1>2. \A i \in 1..N : i \in Nat /\ TurnOf(ms, i) \in Nat /\ TurnOf(ms, i) <= U
  BY <1>1, TurnType, TurnMonotone
<1>3. he \in 1..(N + 1) /\ ts \in 1..(N + 1)
  BY HeadEnd, TailStart
<1>4. \A i \in 1..N : TurnOf(ms, i) > 0 => (i < ts <=> TurnOf(ms, i) <= U - t)
  BY TailStart
<1>5. \A i \in 1..N : TurnOf(ms, i) > 0 =>
        IF h >= U THEN i >= he => i >= ts ELSE i >= he <=> TurnOf(ms, i) > h
  BY HeadEnd
<1>6. E = {i \in he..(ts - 1) : ms[i].role = "tool" /\ ms[i].chars > 0}
  BY DEF eligibleToolResults
<1>7. \A i \in 1..N : Protected(ms, i) <=> TurnOf(ms, i) > 0 /\ (TurnOf(ms, i) <= h \/ TurnOf(ms, i) > U - t)
  BY DEF Protected
<1> HIDE DEF E, h, t, N, U, he, ts
<1>8. ASSUME NEW i \in E PROVE i \in 1..N /\ ms[i].role = "tool" /\ ~Protected(ms, i)
  <2>1. i \in 1..N /\ i >= he /\ i < ts /\ ms[i].role = "tool"
    BY <1>1, <1>3, <1>6, <1>8
  <2>2. TurnOf(ms, i) > 0 => ~(h >= U) /\ TurnOf(ms, i) > h /\ TurnOf(ms, i) <= U - t
    BY <1>2, <1>3, <1>4, <1>5, <2>1
  <2> QED BY <1>1, <1>2, <1>7, <2>1, <2>2
<1>9. ASSUME NEW i \in 1..N, ms[i].role = "tool", ms[i].chars > 0, TurnOf(ms, i) > 0, ~Protected(ms, i)
      PROVE  i \in E
  <2>1. TurnOf(ms, i) > h /\ TurnOf(ms, i) <= U - t
    BY <1>1, <1>2, <1>7, <1>9
  <2>2. ~(h >= U)
    BY <1>1, <1>2, <2>1
  <2>3. i >= he /\ i < ts
    BY <1>4, <1>5, <1>9, <2>1, <2>2
  <2>4. i \in he..(ts - 1)
    BY <1>2, <1>3, <2>3
  <2> QED BY <1>6, <1>9, <2>4
<1> QED BY <1>8, <1>9 DEF E, h, t, N

-----------------------------------------------------------------------------
(* The sort *)

(* Among results there is a heaviest, and the sort puts it first. *)
LEMMA HeaviestIs ==
  ASSUME NEW S, S \subseteq 1..Len(msgs), S # {}, msgs \in Seq(Message)
  PROVE  /\ Heaviest(S) \in S
         /\ \A j \in S : messageChars(msgs[Heaviest(S)]) >= messageChars(msgs[j])
<1> DEFINE w(i) == messageChars(msgs[i])
           B == conversationChars(msgs)
           T == {B - w(i) : i \in S}
<1>1. \A i \in S : i \in Nat /\ w(i) \in Nat /\ w(i) <= B
  <2>1. B = Total(Weights(msgs)) /\ Weights(msgs) \in Seq(Nat) /\ Len(Weights(msgs)) = Len(msgs)
    BY WeightsType DEF conversationChars, Weights
  <2>2. \A i \in 1..Len(msgs) : Weights(msgs)[i] = w(i) /\ Weights(msgs)[i] <= B
    BY <2>1, WeightsType, TotalNat
  <2>3. \A i \in 1..Len(msgs) : i \in Nat /\ w(i) \in Nat
    BY WeightType
  <2> HIDE DEF w, B
  <2> QED BY <2>2, <2>3
<1>2. B \in Nat
  BY WeightsType
<1> HIDE DEF w, B
<1>3. PICK x \in T : \A y \in T : x <= y
  <2>1. \A i \in S : B - w(i) \in Nat
    BY <1>1, <1>2
  <2>2. T \in SUBSET Nat /\ T # {}
    BY <2>1
  <2> HIDE DEF T
  <2> QED BY <2>2, Least
<1>4. PICK m \in S : x = B - w(m)
  BY <1>3
<1>5. \A i \in S : w(m) >= w(i)
  <2>1. \A i \in S : B - w(m) <= B - w(i)
    BY <1>3, <1>4
  <2> QED BY <1>1, <1>2, <2>1
<1> DEFINE I == {i \in S : w(i) = w(m)}
<1>6. PICK h \in I : \A i \in I : h <= i
  <2>1. I \in SUBSET Nat /\ I # {}
    BY <1>1
  <2> HIDE DEF I
  <2> QED BY <2>1, Least
<1>7. h \in S /\ \A j \in S \ {h} : w(h) > w(j) \/ (w(h) = w(j) /\ h < j)
  BY <1>1, <1>5, <1>6
<1>8. Heaviest(S) = CHOOSE i \in S : \A j \in S \ {i} : w(i) > w(j) \/ (w(i) = w(j) /\ i < j)
  BY DEF Heaviest, w
<1>9. Heaviest(S) \in S /\ \A j \in S \ {Heaviest(S)} : w(Heaviest(S)) > w(j) \/ w(Heaviest(S)) = w(j)
  BY <1>7, <1>8
<1>10. \A j \in S : w(Heaviest(S)) >= w(j)
  <2> DEFINE g == Heaviest(S)
  <2>1. g \in S /\ \A j \in S \ {g} : w(g) > w(j) \/ w(g) = w(j)
    BY <1>9
  <2> HIDE DEF g
  <2>2. \A j \in S : w(g) >= w(j)
    BY <1>1, <2>1
  <2> QED BY <2>2 DEF g
<1> QED BY <1>9, <1>10 DEF w

-----------------------------------------------------------------------------
(* The invariant *)

OptionType == [target : Int, head : Nat, tail : Nat, args : BOOLEAN, stub : Nat]

TypeInv ==
  /\ chain \in Seq(Checkpoint) /\ chain # <<>>
  /\ opt \in OptionType
  /\ phase \in {"idle", "results", "args"}
  /\ msgs \in Seq(Message)
  /\ gone \subseteq CallID
  /\ cur \in Int /\ at \in Nat \ {0}
  /\ report \in [before : Int, after : Int, elided : Nat, fit : BOOLEAN]

Eligible == eligibleToolResults(src.messages, opt.head, opt.tail)

(* A message of the copy is the source's, or its stub, or it has lost the     *)
(* arguments of the calls whose results are gone.                             *)
CopyInv ==
  Working =>
    /\ Len(msgs) = Len(src.messages) /\ todo \subseteq Eligible
    /\ \A i \in Elided : msgs[i] = stubResult(src.messages[i])
    /\ \A i \in 1..Len(msgs) \ Elided :
         \/ msgs[i] = src.messages[i]
         \/ /\ phase = "args" /\ i < at /\ msgs[i].role = "assistant"
            /\ msgs[i] = stubCallArgs(src.messages[i])
    /\ gone = {src.messages[i].callID : i \in Elided} \ {NoId}
    /\ cur = conversationChars(msgs)

(* The second loop starts at the first message, when no result is left, and   *)
(* leaves nothing behind it that it could have taken.                         *)
LoopInv ==
  /\ phase = "results" => at = 1
  /\ phase = "args" =>
       /\ todo = {} /\ opt.args
       /\ \A i \in 1..Len(msgs) : i < at /\ msgs[i].role = "assistant" =>
            \A k \in DOMAIN msgs[i].calls : ~Stubs(msgs[i].calls[k])

CompactInv ==
  TypeInv /\ CopyInv /\ LoopInv /\ NoMoreThanNeeded /\ UnfitIsExhausted /\ GrowsOnlyInVain

(* What is compacted is a conversation, and what may go are results in it. *)
LEMMA SourceType ==
  ASSUME TypeInv
  PROVE  /\ src \in Checkpoint /\ src.messages \in Seq(Message)
         /\ \A i \in Eligible :
              i \in 1..Len(src.messages) /\ src.messages[i].role = "tool" /\ ~Protected(src.messages, i)
<1>1. src \in Checkpoint
  BY DEF TypeInv, src, Last
<1>2. src.messages \in Seq(Message)
  BY <1>1 DEF Checkpoint
<1>3. opt.head \in Nat /\ opt.tail \in Nat
  BY DEF TypeInv, OptionType
<1> QED BY <1>1, <1>2, <1>3, EligibleIs DEF Eligible

(* Compact starts with one of the sources. *)
LEMMA CompactInit ==
  Init => CompactInv
<1> SUFFICES ASSUME Init PROVE CompactInv
  OBVIOUS
<1>1. PICK cp \in Sources : chain = <<cp>>
  BY DEF Init
<1>2. chain \in Seq(Checkpoint) /\ chain # <<>> /\ Len(chain) = 1
  BY <1>1, CompactAssumption
<1>3. TypeInv
  BY <1>2 DEF Init, TypeInv, OptionType
<1>4. CopyInv /\ LoopInv /\ NoMoreThanNeeded /\ GrowsOnlyInVain
  BY DEF Init, CopyInv, LoopInv, NoMoreThanNeeded, GrowsOnlyInVain, Working
<1>5. UnfitIsExhausted
  BY <1>2 DEF UnfitIsExhausted
<1> QED BY <1>3, <1>4, <1>5 DEF CompactInv

(* A conversation that is small enough is chained on as it is. *)
LEMMA NothingToDoStep ==
  ASSUME CompactInv, NEW o \in Options, NothingToDo(o)
  PROVE  CompactInv'
<1>1. TypeInv /\ src \in Checkpoint /\ src.messages \in Seq(Message)
  BY SourceType DEF CompactInv
<1>2. o \in OptionType
  BY CompactAssumption DEF OptionType
<1>3. [src EXCEPT !.messages = src.messages] \in Checkpoint
  BY <1>1 DEF Checkpoint
<1>4. chain' \in Seq(Checkpoint) /\ chain' # <<>>
  BY <1>1, <1>3 DEF NothingToDo, rechained, TypeInv
<1>5. conversationChars(src.messages) \in Nat
  BY <1>1, WeightsType
<1>6. report' \in [before : Int, after : Int, elided : Nat, fit : BOOLEAN] /\ report'.fit
  BY <1>5 DEF NothingToDo
<1>7. TypeInv'
  BY <1>1, <1>2, <1>4, <1>6 DEF NothingToDo, TypeInv
<1>8. phase' = "idle"
  BY DEF NothingToDo
<1>9. CopyInv' /\ LoopInv' /\ NoMoreThanNeeded' /\ GrowsOnlyInVain'
  BY <1>8 DEF CopyInv, LoopInv, NoMoreThanNeeded, GrowsOnlyInVain, Working
<1>10. UnfitIsExhausted'
  BY <1>6 DEF UnfitIsExhausted
<1> QED BY <1>7, <1>9, <1>10 DEF CompactInv

(* The first loop begins with a copy and with all that may go. *)
LEMMA BeginStep ==
  ASSUME CompactInv, NEW o \in Options, Begin(o)
  PROVE  CompactInv'
<1>1. TypeInv /\ src \in Checkpoint /\ src.messages \in Seq(Message)
  BY SourceType DEF CompactInv
<1>2. o \in OptionType
  BY CompactAssumption DEF OptionType
<1>3. conversationChars(src.messages) \in Nat
  BY <1>1, WeightsType
<1>4. /\ chain' = chain /\ opt' = o /\ phase' = "results" /\ msgs' = src.messages
      /\ todo' = eligibleToolResults(src.messages, o.head, o.tail)
      /\ cur' = conversationChars(src.messages) /\ gone' = {} /\ at' = 1
      /\ report' = [before |-> cur', after |-> cur', elided |-> 0, fit |-> FALSE]
  BY DEF Begin
<1>5. TypeInv'
  BY <1>1, <1>2, <1>3, <1>4 DEF TypeInv
<1>6. src' = src
  BY <1>4 DEF src
<1>7. Eligible' = todo' /\ Elided' = {}
  BY <1>4, <1>6 DEF Eligible, Elided
<1>8. CopyInv'
  BY <1>4, <1>6, <1>7 DEF CopyInv
<1>9. LoopInv' /\ UnfitIsExhausted'
  BY <1>4 DEF LoopInv, UnfitIsExhausted
<1>10. NoMoreThanNeeded' /\ GrowsOnlyInVain'
  BY <1>7 DEF NoMoreThanNeeded, GrowsOnlyInVain
<1> QED BY <1>5, <1>8, <1>9, <1>10 DEF CompactInv

(* The result that goes next: it is still what it was, and no result that     *)
(* went before it was lighter, nor is one that is left heavier.               *)
LEMMA NextResult ==
  ASSUME CompactInv, phase = "results", todo # {}
  PROVE  LET h == Heaviest(todo) M == src.messages
         IN  /\ h \in todo /\ h \in 1..Len(msgs) /\ h \notin Elided
             /\ msgs[h] = M[h]
             /\ \A j \in todo : messageChars(M[h]) >= messageChars(M[j])
             /\ \A i \in Elided : messageChars(M[i]) >= messageChars(M[h])
<1> DEFINE h == Heaviest(todo)
           M == src.messages
<1>1. /\ TypeInv /\ CopyInv /\ NoMoreThanNeeded /\ Working
      /\ M \in Seq(Message) /\ msgs \in Seq(Message)
  BY SourceType DEF CompactInv, TypeInv, Working
<1>2. todo \subseteq Eligible /\ Len(msgs) = Len(M)
  BY <1>1 DEF CopyInv
<1>3. todo \subseteq 1..Len(msgs)
  BY <1>1, <1>2, SourceType
<1>4. h \in todo /\ \A j \in todo : messageChars(msgs[h]) >= messageChars(msgs[j])
  BY <1>1, <1>3, HeaviestIs
<1>5. \A j \in todo : j \notin Elided
  BY DEF Elided
<1>6. \A j \in todo : msgs[j] = M[j]
  BY <1>1, <1>3, <1>5 DEF CopyInv
<1>7. \A i \in Elided : messageChars(M[i]) >= messageChars(M[h])
  BY <1>1, <1>4 DEF NoMoreThanNeeded
<1> HIDE DEF h, M
<1> QED BY <1>3, <1>4, <1>5, <1>6, <1>7 DEF h, M

(* One result goes. *)
LEMMA ElideResultStep ==
  ASSUME CompactInv, ElideResult
  PROVE  CompactInv'
<1> DEFINE h == Heaviest(todo)
           M == src.messages
           w(m) == messageChars(m)
<1>1. phase = "results" /\ todo # {} /\ cur > opt.target
  BY DEF ElideResult, MoreResults, Over
<1>2. /\ TypeInv /\ CopyInv /\ LoopInv /\ NoMoreThanNeeded /\ GrowsOnlyInVain /\ Working
      /\ M \in Seq(Message) /\ msgs \in Seq(Message)
  BY <1>1, SourceType DEF CompactInv, TypeInv, Working
<1>3. /\ h \in todo /\ h \in 1..Len(msgs) /\ h \notin Elided /\ msgs[h] = M[h]
      /\ \A j \in todo : w(M[h]) >= w(M[j])
      /\ \A i \in Elided : w(M[i]) >= w(M[h])
  BY <1>1, NextResult
<1>4. /\ msgs' = [msgs EXCEPT ![h] = stubResult(@)]
      /\ cur' = cur - (w(msgs[h]) - w(msgs'[h]))
      /\ gone' = gone \cup ({msgs[h].callID} \ {NoId})
      /\ todo' = todo \ {h}
      /\ report' = [report EXCEPT !.elided = @ + 1]
      /\ UNCHANGED <<chain, opt, phase, at>>
  BY DEF ElideResult
<1> HIDE DEF h
<1>5. M[h] \in Message /\ opt.stub \in Nat /\ opt.target \in Int
  BY <1>2, <1>3 DEF TypeInv, OptionType
<1>6. /\ stubResult(M[h]) \in Message
      /\ w(stubResult(M[h])) = w(M[h]) - M[h].chars + stubResult(M[h]).chars
  BY <1>5, StubType
<1>7. msgs' = [msgs EXCEPT ![h] = stubResult(M[h])]
  BY <1>3, <1>4
<1>8. /\ msgs' \in Seq(Message) /\ Len(msgs') = Len(msgs)
      /\ msgs'[h] = stubResult(M[h])
      /\ \A i \in 1..Len(msgs) \ {h} : msgs'[i] = msgs[i]
  BY <1>2, <1>3, <1>6, <1>7
<1>9. src' = src /\ Eligible' = Eligible
  BY <1>4 DEF src, Eligible
<1>10. Elided' = Elided \cup {h} /\ todo \subseteq Eligible
  <2>1. todo \subseteq Eligible
    BY <1>2 DEF CopyInv
  <2>2. h \in Eligible
    BY <1>3, <2>1
  <2>3. Elided = Eligible \ todo /\ Elided' = Eligible' \ todo'
    BY DEF Elided, Eligible
  <2> QED BY <1>3, <1>4, <1>9, <2>1, <2>2, <2>3
<1>11. /\ conversationChars(msgs') = conversationChars(msgs) - w(M[h]) + w(stubResult(M[h]))
       /\ conversationChars(msgs) \in Nat /\ w(M[h]) \in Nat /\ w(stubResult(M[h])) \in Nat
  <2>1. conversationChars(msgs) \in Nat
    BY <1>2, WeightsType
  <2>2. w(M[h]) \in Nat /\ w(stubResult(M[h])) \in Nat
    BY <1>5, <1>6, WeightType
  <2>3. conversationChars([msgs EXCEPT ![h] = stubResult(M[h])])
          = conversationChars(msgs) - w(msgs[h]) + w(stubResult(M[h]))
    BY <1>2, <1>3, <1>6, ConversationUpdate
  <2> QED BY <1>3, <1>7, <2>1, <2>2, <2>3
<1>12. cur = conversationChars(msgs)
  BY <1>2 DEF CopyInv
<1>13. cur' = cur - w(M[h]) + w(stubResult(M[h])) /\ cur' = conversationChars(msgs')
  <2>1. cur' = cur - (w(M[h]) - w(stubResult(M[h])))
    BY <1>3, <1>4, <1>8
  <2> HIDE DEF w
  <2> QED BY <1>11, <1>12, <2>1
<1>14. M[h].callID \in CallID
  BY <1>5 DEF Message
<1>15. TypeInv'
  <2>1. gone' \subseteq CallID
    BY <1>2, <1>3, <1>4, <1>14 DEF TypeInv
  <2>2. cur' \in Int
    BY <1>11, <1>12, <1>13
  <2>3. report' \in [before : Int, after : Int, elided : Nat, fit : BOOLEAN]
    BY <1>2, <1>4 DEF TypeInv
  <2> QED BY <1>2, <1>4, <1>8, <2>1, <2>2, <2>3 DEF TypeInv
<1>16. CopyInv'
  <2>1. Len(msgs') = Len(M) /\ todo' \subseteq Eligible
    BY <1>2, <1>4, <1>8, <1>10 DEF CopyInv
  <2>2. \A i \in Elided : msgs'[i] = stubResult(M[i])
    <3> TAKE i \in Elided
    <3>1. i \in 1..Len(msgs) /\ i # h
      BY <1>2, <1>3, SourceType DEF Elided, Eligible, CopyInv
    <3>2. msgs[i] = stubResult(M[i])
      BY <1>2 DEF CopyInv
    <3> QED BY <1>8, <3>1, <3>2
  <2>4. \A i \in Elided' : msgs'[i] = stubResult(M[i])
    BY <1>8, <1>10, <2>2
  <2>5. \A i \in 1..Len(msgs') \ Elided' : msgs'[i] = M[i]
    BY <1>1, <1>2, <1>8, <1>10 DEF CopyInv
  <2>6. gone' = {M[i].callID : i \in Elided'} \ {NoId}
    BY <1>2, <1>3, <1>4, <1>10 DEF CopyInv
  <2> HIDE DEF M
  <2>8. \A i \in Elided' : (msgs[i] = stubResult(src.messages[i]))'
    <3> TAKE i \in Elided'
    <3>1. msgs'[i] = stubResult(M[i])
      BY <2>4
    <3>2. (msgs[i] = stubResult(src.messages[i]))' <=> msgs'[i] = stubResult(M[i])
      BY <1>4, <1>9 DEF M, stubResult
    <3> QED BY <3>1, <3>2
  <2> QED BY <1>9, <1>13, <2>1, <2>5, <2>6, <2>8 DEF CopyInv, M
<1>17. LoopInv' /\ UnfitIsExhausted'
  BY <1>1, <1>2, <1>4 DEF LoopInv, UnfitIsExhausted
<1>18. NoMoreThanNeeded'
  <2>1. \A i \in Elided', j \in todo' : w(M[i]) >= w(M[j])
    <3> TAKE i \in Elided', j \in todo'
    <3>1. j \in todo /\ (i = h \/ i \in Elided)
      BY <1>4, <1>10
    <3>2. i \in Elided => w(M[i]) >= w(M[j])
      BY <1>1, <1>2, <3>1 DEF NoMoreThanNeeded
    <3> QED BY <1>3, <3>1, <3>2
  <2>2. [msgs' EXCEPT ![h] = M[h]] = msgs
    <3> DEFINE n == Len(msgs) s == stubResult(M[h])
    <3>1. msgs \in [1..n -> Message] /\ h \in 1..n /\ msgs[h] = M[h] /\ msgs' = [msgs EXCEPT ![h] = s]
      BY <1>2, <1>3, <1>7
    <3> HIDE DEF n, s, M
    <3> QED BY <3>1
  <2>3. conversationChars([msgs' EXCEPT ![h] = M[h]]) > opt.target
    BY <1>1, <1>12, <2>2
  <2> QED BY <1>4, <1>9, <1>10, <2>1, <2>3 DEF NoMoreThanNeeded
<1>19. GrowsOnlyInVain'
  <2> SUFFICES ASSUME \A i, j \in Elided' \cup todo' : Wrapping(M[i]) = Wrapping(M[j]),
                      NEW g \in Elided', msgs'[g].chars > M[g].chars
               PROVE  cur' > opt.target
    BY <1>4, <1>9 DEF GrowsOnlyInVain, Over
  <2>1. g \in 1..Len(M) /\ M[g] \in Message
    BY <1>2, <1>3, <1>10, SourceType DEF Elided, Eligible, CopyInv
  <2>2. /\ M[g].chars \in Nat /\ M[h].chars \in Nat /\ stubResult(M[h]).chars \in Nat
        /\ w(M[g]) \in Nat /\ w(M[h]) \in Nat
    BY <1>5, <2>1, WeightType, StubType DEF Message
  <2>3. stubResult(M[g]).chars > M[g].chars
    <3>1. CASE g = h
      BY <1>8, <3>1
    <3>2. CASE g # h
      <4>1. g \in Elided /\ g \in 1..Len(msgs)
        BY <1>2, <1>10, <2>1, <3>2 DEF CopyInv
      <4>2. msgs'[g] = stubResult(M[g])
        BY <1>2, <1>8, <3>2, <4>1 DEF CopyInv
      <4> QED BY <4>2
    <3> QED BY <3>1, <3>2
  <2>4. M[h].chars <= M[g].chars
    <3>1. w(M[g]) >= w(M[h])
      BY <1>3, <1>10, <2>2
    <3>2. w(M[g]) - M[g].chars = w(M[h]) - M[h].chars
      BY <1>10 DEF Wrapping
    <3> HIDE DEF w
    <3> QED BY <2>2, <3>1, <3>2
  <2>5. stubResult(M[h]).chars > M[h].chars
    BY <1>5, <2>1, <2>3, <2>4, StubGrows
  <2> HIDE DEF w
  <2> QED BY <1>1, <1>5, <1>6, <1>11, <1>12, <1>13, <2>2, <2>5
<1> QED BY <1>15, <1>16, <1>17, <1>18, <1>19 DEF CompactInv

(* The second loop begins when no result is left. *)
LEMMA BeginArgsStep ==
  ASSUME CompactInv, BeginArgs
  PROVE  CompactInv'
<1>1. TypeInv /\ CopyInv /\ LoopInv /\ Working
  BY DEF CompactInv, Working, BeginArgs
<1>2. /\ phase = "results" /\ todo = {} /\ opt.args /\ phase' = "args"
      /\ UNCHANGED <<chain, opt, msgs, todo, cur, gone, at, report>>
  BY DEF BeginArgs, MoreResults
<1>3. at = 1
  BY <1>1, <1>2 DEF LoopInv
<1>4. src' = src /\ Eligible' = Eligible /\ Elided' = Elided
  BY <1>2 DEF src, Eligible, Elided
<1>5. TypeInv'
  BY <1>1, <1>2 DEF TypeInv
<1>6. CopyInv'
  <2>2. \A i \in Elided : (msgs[i] = stubResult(src.messages[i]))'
    <3> TAKE i \in Elided
    <3>1. msgs[i] = stubResult(src.messages[i])
      BY <1>1 DEF CopyInv
    <3> QED BY <1>2, <1>4, <3>1 DEF stubResult
  <2>3. \A i \in 1..Len(msgs) \ Elided : msgs[i] = src.messages[i]
    BY <1>1, <1>2 DEF CopyInv
  <2> QED BY <1>1, <1>2, <1>4, <2>2, <2>3 DEF CopyInv
<1>7. LoopInv'
  <2>1. \A i \in 1..Len(msgs) : ~(i < at)
    BY <1>3
  <2> QED BY <1>2, <2>1 DEF LoopInv
<1>8. NoMoreThanNeeded' /\ UnfitIsExhausted' /\ GrowsOnlyInVain'
  BY <1>2 DEF NoMoreThanNeeded, UnfitIsExhausted, GrowsOnlyInVain
<1> QED BY <1>5, <1>6, <1>7, <1>8 DEF CompactInv

(* The arguments of one message's calls go, where their results have gone. *)
LEMMA StubArgsStep ==
  ASSUME CompactInv, StubArgs
  PROVE  CompactInv'
<1> DEFINE M == src.messages
           m == msgs[at]
           saved == IF m.role = "assistant" THEN Saved(m) ELSE 0
<1>1. /\ TypeInv /\ CopyInv /\ LoopInv /\ Working
      /\ M \in Seq(Message) /\ msgs \in Seq(Message) /\ gone \subseteq CallID
  BY SourceType DEF CompactInv, TypeInv, Working, StubArgs
<1>2. /\ phase = "args" /\ at \in Nat /\ at \in 1..Len(msgs) /\ m \in Message
  BY <1>1 DEF StubArgs, TypeInv
<1>3. /\ msgs' = IF saved > 0 THEN [msgs EXCEPT ![at] = stubCallArgs(@)] ELSE msgs
      /\ cur' = cur - saved /\ at' = at + 1
      /\ report' = [report EXCEPT !.elided = IF saved > 0 THEN @ + 1 ELSE @]
      /\ UNCHANGED <<chain, opt, phase, todo, gone>>
  BY DEF StubArgs
<1>4. /\ stubCallArgs(m) \in Message /\ Saved(m) \in Nat
      /\ messageChars(stubCallArgs(m)) = messageChars(m) - Saved(m)
      /\ \A k \in DOMAIN m.calls : ~Stubs(stubCallArgs(m).calls[k])
      /\ Saved(m) = 0 => \A k \in DOMAIN m.calls : ~Stubs(m.calls[k])
  BY <1>1, <1>2, SavedIs
<1>5. stubCallArgs(m).role = m.role /\ DOMAIN stubCallArgs(m).calls = DOMAIN m.calls
  BY <1>2 DEF stubCallArgs, Message
<1>6. saved \in Nat
  BY <1>4
<1>7. /\ msgs' \in Seq(Message) /\ Len(msgs') = Len(msgs)
      /\ msgs'[at] = IF saved > 0 THEN stubCallArgs(m) ELSE m
      /\ \A i \in 1..Len(msgs) \ {at} : msgs'[i] = msgs[i]
  <2> HIDE DEF saved
  <2> QED BY <1>1, <1>2, <1>3, <1>4
<1>8. /\ src' = src /\ Eligible' = Eligible /\ Elided' = Elided
      /\ \A tc : Stubs(tc)' <=> Stubs(tc)
  BY <1>3 DEF src, Eligible, Elided, Stubs
<1>9. cur = conversationChars(msgs) /\ conversationChars(msgs) \in Nat
  BY <1>1, WeightsType DEF CopyInv
<1>10. cur' = conversationChars(msgs') /\ cur' \in Int
  <2>1. CASE saved > 0
    <3>1. msgs' = [msgs EXCEPT ![at] = stubCallArgs(m)] /\ saved = Saved(m)
      BY <1>3, <2>1
    <3>2. conversationChars([msgs EXCEPT ![at] = stubCallArgs(m)])
            = conversationChars(msgs) - messageChars(m) + messageChars(stubCallArgs(m))
      BY <1>1, <1>2, <1>4, ConversationUpdate
    <3>3. messageChars(m) \in Nat
      BY <1>2, WeightType
    <3> QED BY <1>3, <1>4, <1>9, <3>1, <3>2, <3>3
  <2>2. CASE ~(saved > 0)
    <3>1. saved = 0 /\ msgs' = msgs
      BY <1>3, <1>6, <2>2
    <3> QED BY <1>3, <1>9, <3>1
  <2> QED BY <2>1, <2>2
<1>11. TypeInv'
  <2>1. report' \in [before : Int, after : Int, elided : Nat, fit : BOOLEAN]
    BY <1>1, <1>3 DEF TypeInv
  <2>2. at' \in Nat \ {0}
    BY <1>2, <1>3
  <2> QED BY <1>1, <1>3, <1>7, <1>10, <2>1, <2>2 DEF TypeInv
<1>12. \A i \in Elided : msgs[i].role = "tool" /\ msgs[i] = stubResult(M[i])
  <2> TAKE i \in Elided
  <2>1. M[i].role = "tool" /\ M[i] \in Message
    BY <1>1, SourceType DEF Elided, Eligible
  <2>2. msgs[i] = stubResult(M[i])
    BY <1>1 DEF CopyInv
  <2> QED BY <2>1, <2>2 DEF stubResult, Message
<1>13. saved > 0 => at \notin Elided /\ m = M[at] /\ m.role = "assistant"
  <2> SUFFICES ASSUME saved > 0 PROVE at \notin Elided /\ m = M[at] /\ m.role = "assistant"
    OBVIOUS
  <2>1. m.role = "assistant"
    OBVIOUS
  <2>2. at \notin Elided
    BY <1>12, <2>1
  <2> QED BY <1>1, <1>2, <2>1, <2>2 DEF CopyInv
<1> HIDE DEF saved
<1>14. CopyInv'
  <2>1. \A i \in Elided : (msgs[i] = stubResult(src.messages[i]))'
    <3> TAKE i \in Elided
    <3>1. i \in 1..Len(msgs)
      BY <1>1, SourceType DEF Elided, Eligible, CopyInv
    <3>2. msgs'[i] = stubResult(M[i])
      BY <1>7, <1>12, <1>13, <3>1
    <3> QED BY <1>3, <1>8, <3>2 DEF stubResult
  <2>2. ASSUME NEW i \in 1..Len(msgs) \ Elided
        PROVE  (\/ msgs[i] = src.messages[i]
                \/ /\ phase = "args" /\ i < at /\ msgs[i].role = "assistant"
                   /\ msgs[i] = stubCallArgs(src.messages[i]))'
    <3>1. CASE i = at /\ saved > 0
      <4>1. msgs'[i] = stubCallArgs(M[i]) /\ msgs'[i].role = "assistant" /\ i < at'
        BY <1>2, <1>3, <1>5, <1>7, <1>13, <3>1
      <4> QED BY <1>2, <1>3, <1>8, <4>1 DEF stubCallArgs, Stubs
    <3>2. CASE ~(i = at /\ saved > 0)
      <4>1. msgs'[i] = msgs[i]
        BY <1>7, <3>2
      <4>2. CASE msgs[i] = M[i]
        BY <1>8, <4>1, <4>2
      <4>3. CASE i < at /\ msgs[i].role = "assistant" /\ msgs[i] = stubCallArgs(M[i])
        <5>1. i < at'
          BY <1>2, <1>3, <4>3
        <5>2. msgs'[i] = stubCallArgs(M[i]) /\ msgs'[i].role = "assistant"
          BY <4>1, <4>3
        <5> QED BY <1>2, <1>3, <1>8, <5>1, <5>2 DEF stubCallArgs, Stubs
      <4> QED BY <1>1, <4>2, <4>3 DEF CopyInv
    <3> QED BY <3>1, <3>2
  <2>3. Len(msgs') = Len(M) /\ todo \subseteq Eligible /\ gone = {M[i].callID : i \in Elided} \ {NoId}
    BY <1>1, <1>7 DEF CopyInv
  <2> QED BY <1>3, <1>7, <1>8, <1>10, <2>1, <2>2, <2>3 DEF CopyInv
<1>15. LoopInv'
  <2>1. \A i \in 1..Len(msgs') : i < at' /\ msgs'[i].role = "assistant" =>
          \A k \in DOMAIN msgs'[i].calls : ~Stubs(msgs'[i].calls[k])
    <3> SUFFICES ASSUME NEW i \in 1..Len(msgs), i < at + 1, msgs'[i].role = "assistant",
                        NEW k \in DOMAIN msgs'[i].calls
                 PROVE  ~Stubs(msgs'[i].calls[k])
      BY <1>3, <1>7
    <3>1. CASE i = at
      <4>1. CASE saved > 0
        <5>1. msgs'[i] = stubCallArgs(m)
          BY <1>7, <3>1, <4>1
        <5> QED BY <1>4, <1>5, <5>1
      <4>2. CASE ~(saved > 0)
        <5>1. msgs'[i] = m /\ saved = 0
          BY <1>6, <1>7, <3>1, <4>2
        <5>2. Saved(m) = 0
          BY <5>1 DEF saved
        <5> QED BY <1>4, <5>1, <5>2
      <4> QED BY <4>1, <4>2
    <3>2. CASE i # at
      <4>1. msgs'[i] = msgs[i] /\ i < at
        BY <1>2, <1>7, <3>2
      <4> QED BY <1>1, <1>2, <4>1 DEF LoopInv
    <3> QED BY <3>1, <3>2
  <2>2. todo' = {} /\ opt'.args /\ phase' = "args"
    BY <1>1, <1>2, <1>3 DEF LoopInv
  <2> QED BY <1>8, <2>1, <2>2 DEF LoopInv
<1>16. NoMoreThanNeeded' /\ UnfitIsExhausted' /\ GrowsOnlyInVain'
  BY <1>2, <1>3 DEF NoMoreThanNeeded, UnfitIsExhausted, GrowsOnlyInVain
<1> QED BY <1>11, <1>14, <1>15, <1>16 DEF CompactInv

(* A conversation is chained on, and if it is still too big nothing is left   *)
(* that could have gone.                                                      *)
LEMMA FinishStep ==
  ASSUME CompactInv, Finish
  PROVE  CompactInv'
<1> DEFINE M == src.messages
           after == conversationChars(msgs)
<1>1. /\ TypeInv /\ CopyInv /\ LoopInv /\ Working
      /\ src \in Checkpoint /\ M \in Seq(Message) /\ msgs \in Seq(Message)
  BY SourceType DEF CompactInv, TypeInv, Working, Finish
<1>2. /\ chain' = Append(chain, [src EXCEPT !.messages = msgs]) /\ phase' = "idle"
      /\ report' = [report EXCEPT !.after = after, !.fit = (after <= opt.target)]
      /\ UNCHANGED <<opt, msgs, todo, cur, gone, at>>
  BY DEF Finish, rechained
<1>3. after \in Nat /\ cur = after /\ opt.target \in Int
  BY <1>1, WeightsType DEF CopyInv, TypeInv, OptionType
<1>4. chain \in Seq(Checkpoint) /\ chain # <<>> /\ [src EXCEPT !.messages = msgs] \in Checkpoint
  BY <1>1 DEF TypeInv, Checkpoint
<1>5. /\ chain' \in Seq(Checkpoint) /\ chain' # <<>>
      /\ Len(chain') - 1 = Len(chain) /\ chain'[Len(chain)] = chain[Len(chain)]
  BY <1>2, <1>4
<1>6. chain'[Len(chain') - 1].messages = M
  BY <1>5 DEF src, Last
<1>7. report' \in [before : Int, after : Int, elided : Nat, fit : BOOLEAN] /\ report'.fit = (after <= opt.target)
  <2> DEFINE fit == (after <= opt.target)
  <2>1. after \in Int /\ fit \in BOOLEAN
    BY <1>3
  <2>2. report' = [report EXCEPT !.after = after, !.fit = fit]
    BY <1>2
  <2>3. report \in [before : Int, after : Int, elided : Nat, fit : BOOLEAN]
    BY <1>1 DEF TypeInv
  <2> HIDE DEF after, fit
  <2>4. report' \in [before : Int, after : Int, elided : Nat, fit : BOOLEAN] /\ report'.fit = fit
    BY <2>1, <2>2, <2>3
  <2> QED BY <2>4 DEF fit
<1>8. TypeInv'
  BY <1>1, <1>2, <1>5, <1>7 DEF TypeInv
<1>9. CopyInv' /\ LoopInv' /\ NoMoreThanNeeded' /\ GrowsOnlyInVain'
  BY <1>2 DEF CopyInv, LoopInv, NoMoreThanNeeded, GrowsOnlyInVain, Working
<1>10. UnfitIsExhausted'
  <2> SUFFICES ASSUME ~report'.fit
               PROVE  \A i \in 1..Len(msgs) :
                        /\ M[i].role = "tool" /\ M[i].chars > 0 /\ TurnOf(M, i) > 0 /\ ~Protected(M, i)
                             => msgs[i] = stubResult(M[i])
                        /\ opt.args /\ msgs[i].role = "assistant"
                             => \A k \in DOMAIN msgs[i].calls : ~Stubs(msgs[i].calls[k])
    BY <1>2, <1>6 DEF UnfitIsExhausted, Protected, stubResult, Stubs
  <2>1. Over
    BY <1>3, <1>7 DEF Over
  <2>2. todo = {}
    BY <1>1, <2>1 DEF Finish, MoreResults, LoopInv
  <2>3. opt.args => phase = "args" /\ at > Len(msgs)
    BY <2>1 DEF Finish
  <2> TAKE i \in 1..Len(msgs)
  <2>4. ASSUME M[i].role = "tool", M[i].chars > 0, TurnOf(M, i) > 0, ~Protected(M, i)
        PROVE  msgs[i] = stubResult(M[i])
    <3>1. opt.head \in Nat /\ opt.tail \in Nat /\ i \in 1..Len(M)
      BY <1>1 DEF TypeInv, OptionType, CopyInv
    <3>2. i \in Eligible
      BY <1>1, <2>4, <3>1, EligibleIs DEF Eligible
    <3>3. i \in Elided
      BY <2>2, <3>2 DEF Elided, Eligible
    <3> QED BY <1>1, <3>3 DEF CopyInv
  <2>5. ASSUME opt.args, msgs[i].role = "assistant"
        PROVE  \A k \in DOMAIN msgs[i].calls : ~Stubs(msgs[i].calls[k])
    <3>1. i < at
      BY <1>1, <2>3, <2>5 DEF TypeInv
    <3> QED BY <1>1, <2>3, <2>5, <3>1 DEF LoopInv
  <2> QED BY <2>4, <2>5
<1> QED BY <1>8, <1>9, <1>10 DEF CompactInv

(* A step that changes nothing. *)
LEMMA CompactStutter ==
  ASSUME CompactInv, UNCHANGED vars
  PROVE  CompactInv'
<1>1. UNCHANGED <<chain, opt, phase, msgs, todo, cur, gone, at, report>>
  BY DEF vars
<1>2. src' = src /\ Eligible' = Eligible /\ Elided' = Elided
  BY <1>1 DEF src, Eligible, Elided
<1>3. TypeInv' /\ LoopInv'
  BY <1>1 DEF CompactInv, TypeInv, LoopInv, Stubs
<1>4. CopyInv'
  BY <1>1, <1>2 DEF CompactInv, CopyInv, Working, stubResult, stubCallArgs, Stubs
<1>5. NoMoreThanNeeded' /\ UnfitIsExhausted' /\ GrowsOnlyInVain'
  BY <1>1, <1>2 DEF CompactInv, NoMoreThanNeeded, UnfitIsExhausted, GrowsOnlyInVain, Protected, stubResult, Stubs, Over
<1> QED BY <1>3, <1>4, <1>5 DEF CompactInv

(* Compact keeps its invariant. *)
THEOREM CompactKeepsInv == Spec => []CompactInv
<1>1. CompactInv /\ [Next]_vars => CompactInv'
  <2> SUFFICES ASSUME CompactInv, [Next]_vars PROVE CompactInv'
    OBVIOUS
  <2>1. CASE \E o \in Options : Refuse(o)
    BY <2>1, CompactStutter DEF Refuse
  <2>2. CASE \E o \in Options : NothingToDo(o)
    BY <2>2, NothingToDoStep
  <2>3. CASE \E o \in Options : Begin(o)
    BY <2>3, BeginStep
  <2>4. CASE ElideResult
    BY <2>4, ElideResultStep
  <2>5. CASE BeginArgs
    BY <2>5, BeginArgsStep
  <2>6. CASE StubArgs
    BY <2>6, StubArgsStep
  <2>7. CASE Finish
    BY <2>7, FinishStep
  <2>8. CASE UNCHANGED vars
    BY <2>8, CompactStutter
  <2> QED BY <2>1, <2>2, <2>3, <2>4, <2>5, <2>6, <2>7, <2>8 DEF Next
<1> QED BY <1>1, CompactInit, PTL DEF Spec

-----------------------------------------------------------------------------
(* What follows from it *)

(* Only results, and the arguments of calls whose results are gone, are       *)
(* touched, and none of a turn that is to be kept.                            *)
THEOREM CompactTouchesOnlyReDerivable == Spec => []OnlyReDerivable
<1>1. CompactInv => OnlyReDerivable
  <2> SUFFICES ASSUME CompactInv, Working PROVE OnlyReDerivable
    BY DEF OnlyReDerivable
  <2> DEFINE M == src.messages
  <2>1. /\ TypeInv /\ CopyInv /\ Len(msgs) = Len(M)
        /\ M \in Seq(Message) /\ msgs \in Seq(Message)
    BY SourceType DEF CompactInv, CopyInv, TypeInv
  <2>2. gone = {M[j].callID : j \in Elided} \ {NoId}
    BY <2>1 DEF CopyInv
  <2>3. \A j \in Elided : /\ j \in 1..Len(M) /\ M[j].role = "tool" /\ ~Protected(M, j) /\ M[j] \in Message
                          /\ msgs[j] = stubResult(M[j])
    BY <2>1, SourceType DEF Elided, Eligible, CopyInv
  <2>4. \A j \in Elided : /\ msgs[j].role = M[j].role /\ msgs[j].callID = M[j].callID
                          /\ msgs[j].calls = M[j].calls
    BY <2>3 DEF stubResult, Message
  <2> SUFFICES ASSUME NEW i \in 1..Len(msgs)
      PROVE  /\ msgs[i].role = M[i].role /\ msgs[i].callID = M[i].callID
             /\ msgs[i].chars # M[i].chars => M[i].role = "tool" /\ ~Protected(M, i)
             /\ DOMAIN msgs[i].calls = DOMAIN M[i].calls
             /\ \A k \in DOMAIN M[i].calls :
                  /\ msgs[i].calls[k].id = M[i].calls[k].id
                  /\ msgs[i].calls[k].args # M[i].calls[k].args =>
                       \E j \in Elided : msgs[j].callID = M[i].calls[k].id
    BY <2>1 DEF OnlyReDerivable
  <2>5. CASE i \in Elided
    BY <2>3, <2>4, <2>5
  <2>6. CASE i \notin Elided /\ msgs[i] = M[i]
    BY <2>6
  <2>7. CASE i \notin Elided /\ msgs[i] = stubCallArgs(M[i])
    <3>1. M[i] \in Message /\ M[i].calls \in Seq(ToolCall)
      <4>1. M[i] \in Message
        BY <2>1
      <4> QED BY <4>1 DEF Message
    <3>2. /\ msgs[i].role = M[i].role /\ msgs[i].callID = M[i].callID /\ msgs[i].chars = M[i].chars
          /\ msgs[i].calls = [k \in DOMAIN M[i].calls |->
               IF Stubs(M[i].calls[k]) THEN [M[i].calls[k] EXCEPT !.args = ArgsStubChars] ELSE M[i].calls[k]]
      BY <2>7, <3>1 DEF stubCallArgs, Message
    <3>3. ASSUME NEW k \in DOMAIN M[i].calls
          PROVE  /\ msgs[i].calls[k].id = M[i].calls[k].id
                 /\ msgs[i].calls[k].args # M[i].calls[k].args =>
                      \E j \in Elided : msgs[j].callID = M[i].calls[k].id
      <4>1. M[i].calls[k] \in ToolCall
        BY <3>1
      <4>2. CASE Stubs(M[i].calls[k])
        <5>1. PICK j \in Elided : M[j].callID = M[i].calls[k].id
          BY <2>2, <4>2 DEF Stubs
        <5>2. msgs[i].calls[k].id = M[i].calls[k].id
          BY <3>2, <4>1, <4>2 DEF ToolCall
        <5> QED BY <2>4, <5>1, <5>2
      <4>3. CASE ~Stubs(M[i].calls[k])
        BY <3>2, <4>3
      <4> QED BY <4>2, <4>3
    <3> QED BY <3>2, <3>3
  <2> QED BY <2>1, <2>5, <2>6, <2>7 DEF CopyInv
<1> QED BY <1>1, CompactKeepsInv, PTL

(* The heaviest results go first, and none that is not needed. *)
THEOREM CompactTakesNoMoreThanNeeded == Spec => []NoMoreThanNeeded
<1>1. CompactInv => NoMoreThanNeeded
  BY DEF CompactInv
<1> QED BY <1>1, CompactKeepsInv, PTL

(* A conversation that does not fit has nothing left to give. *)
THEOREM CompactUnfitIsExhausted == Spec => []UnfitIsExhausted
<1>1. CompactInv => UnfitIsExhausted
  BY DEF CompactInv
<1> QED BY <1>1, CompactKeepsInv, PTL

(* Elision makes a conversation heavier only where it cannot make it fit. *)
THEOREM CompactGrowsOnlyInVain == Spec => []GrowsOnlyInVain
<1>1. CompactInv => GrowsOnlyInVain
  BY DEF CompactInv
<1> QED BY <1>1, CompactKeepsInv, PTL
=============================================================================
