---------------------------- MODULE Foundations ----------------------------
(***************************************************************************)
(* What the proofs need of the natural numbers and of sequences.           *)
(*                                                                         *)
(* Induction is stated with sets and functions as its parameters: a        *)
(* property is the set of the numbers that have it, and a recursive        *)
(* definition is a function that satisfies an equation.                    *)
(***************************************************************************)
EXTENDS Integers, Sequences, WellFoundedInduction, SequenceTheorems, TLAPS

\* A set of natural numbers that is not empty has a least element.
LEMMA LeastNat ==
    ASSUME NEW T \in SUBSET Nat, T # {}
    PROVE  \E m \in T : \A k \in T : m <= k
<1> DEFINE R == {ss \in Nat \X Nat : ss[1] < ss[2]}
<1>1. IsWellFoundedOn(R, Nat)
  BY NatLessThanWellFounded DEF OpToRel
<1>2. \A x, y \in Nat : x < y => <<x, y>> \in R
  OBVIOUS
<1> HIDE DEF R
<1>3. \E x \in T : \A y \in T : ~(<<y, x>> \in R)
  BY <1>1, WFMin
<1>4. PICK x \in T : \A y \in T : ~(y < x)
  BY <1>2, <1>3
<1>5. QED
  BY <1>4

\* A set that contains 0, and with a number the next one, contains them all.
LEMMA SetInduction ==
    ASSUME NEW T, 0 \in T, \A n \in Nat : n \in T => n + 1 \in T
    PROVE  \A n \in Nat : n \in T
<1>1. SUFFICES ASSUME Nat \ T # {} PROVE FALSE
  OBVIOUS
<1>2. PICK m \in Nat \ T : \A k \in Nat \ T : m <= k
  BY <1>1, LeastNat
<1>3. m - 1 \in Nat
  BY <1>2
<1>4. m - 1 \in T
  BY <1>2, <1>3
<1>5. QED
  BY <1>2, <1>3, <1>4

\* What one step after another makes of a.
Iterates(f, X, a, step) ==
    /\ f \in [Nat -> X]
    /\ f[0] = a
    /\ \A n \in Nat : f[n + 1] = step[n][f[n]]

\* Functions may be defined by recursion over the natural numbers.
LEMMA RecursionExists ==
    ASSUME NEW X, NEW a \in X, NEW step \in [Nat -> [X -> X]]
    PROVE  \E f : Iterates(f, X, a, step)
<1> DEFINE Upto(f, n) == /\ f \in [0 .. n -> X]
                         /\ f[0] = a
                         /\ \A m \in 0 .. n - 1 : f[m + 1] = step[m][f[m]]
           Some == {n \in Nat : \E f : Upto(f, n)}
<1>1. 0 \in Some
  <2>1. Upto([i \in 0 .. 0 |-> a], 0)
    OBVIOUS
  <2>2. QED
    BY <2>1
<1>2. ASSUME NEW n \in Nat, n \in Some
      PROVE  n + 1 \in Some
  <2>1. PICK f : Upto(f, n)
    BY <1>2
  <2> DEFINE v == step[n][f[n]]
             g == [i \in 0 .. n + 1 |-> IF i = n + 1 THEN v ELSE f[i]]
  <2>2. v \in X
    BY <2>1
  <2> HIDE DEF v
  <2>3. g \in [0 .. n + 1 -> X]
    BY <2>1, <2>2
  <2>4. g[0] = a
    BY <2>1
  <2>5. ASSUME NEW m \in 0 .. n
        PROVE  g[m + 1] = step[m][g[m]]
    <3>1. CASE m = n
      <4>1. m + 1 = n + 1 /\ m # n + 1 /\ m \in 0 .. n + 1 /\ m + 1 \in 0 .. n + 1
        BY <3>1
      <4>2. g[m + 1] = v /\ g[m] = f[n]
        BY <3>1, <4>1
      <4>3. QED
        BY <3>1, <4>2 DEF v
    <3>2. CASE m \in 0 .. n - 1
      <4>1. g[m + 1] = f[m + 1] /\ g[m] = f[m]
        BY <3>2
      <4>2. QED
        BY <2>1, <3>2, <4>1
    <3>3. QED
      BY <3>1, <3>2
  <2> HIDE DEF g
  <2>6. (n + 1) - 1 = n
    OBVIOUS
  <2>7. Upto(g, n + 1)
    BY <2>3, <2>4, <2>5, <2>6
  <2> HIDE DEF Upto
  <2>8. QED
    BY <2>7
<1>3. \A n \in Nat : \E f : Upto(f, n)
  <2> HIDE DEF Some
  <2>1. \A n \in Nat : n \in Some
    BY <1>1, <1>2, SetInduction
  <2> USE DEF Some
  <2> HIDE DEF Upto
  <2>2. QED
    BY <2>1
<1>4. ASSUME NEW n \in Nat, NEW m \in 0 .. n, NEW f, NEW g, Upto(f, n), Upto(g, m)
      PROVE  f[m] = g[m]
  <2> DEFINE Same == {i \in Nat : i <= m => f[i] = g[i]}
  <2>1. 0 \in Same
    BY <1>4
  <2>2. ASSUME NEW i \in Nat, i \in Same
        PROVE  i + 1 \in Same
    <3>1. SUFFICES ASSUME i + 1 <= m
                   PROVE  f[i + 1] = g[i + 1]
      OBVIOUS
    <3>2. i \in 0 .. n - 1 /\ i \in 0 .. m - 1 /\ f[i] = g[i]
      BY <2>2, <3>1
    <3>3. QED
      BY <1>4, <3>2
  <2>3. \A i \in Nat : i \in Same
    <3> HIDE DEF Same
    <3>1. QED
      BY <2>1, <2>2, SetInduction
  <2>4. QED
    BY <2>3
<1> DEFINE of == [n \in Nat |-> CHOOSE f : Upto(f, n)]
           F  == [n \in Nat |-> of[n][n]]
<1>5. ASSUME NEW n \in Nat
      PROVE  Upto(of[n], n)
  <2> HIDE DEF Upto
  <2>1. QED
    BY <1>3
<1> HIDE DEF of
<1>6. F \in [Nat -> X]
  <2>1. ASSUME NEW n \in Nat
        PROVE  of[n][n] \in X
    BY <1>5
  <2>2. QED
    BY <2>1
<1>7. F[0] = a
  BY <1>5
<1>8. ASSUME NEW n \in Nat
      PROVE  F[n + 1] = step[n][F[n]]
  <2> DEFINE f == of[n + 1]
             g == of[n]
  <2>1. Upto(f, n + 1) /\ Upto(g, n) /\ n + 1 \in Nat /\ n \in 0 .. n + 1
    BY <1>5
  <2>2. F[n + 1] = f[n + 1] /\ F[n] = g[n]
    OBVIOUS
  <2> HIDE DEF f, g, F
  <2>3. f[n] = g[n]
    <3> HIDE DEF Upto
    <3>1. QED
      BY <1>4, <2>1
  <2>4. f[n + 1] = step[n][f[n]]
    BY <2>1
  <2>5. QED
    BY <2>2, <2>3, <2>4
<1> HIDE DEF F
<1>9. QED
  BY <1>6, <1>7, <1>8 DEF Iterates

-----------------------------------------------------------------------------
(* Slices of sequences.                                                    *)

\* A slice within a sequence, by its elements.
LEMMA Slice ==
    ASSUME NEW X, NEW s \in Seq(X), NEW a \in Int, NEW b \in Int,
           1 <= a, a <= b + 1, b <= Len(s)
    PROVE  /\ SubSeq(s, a, b) \in Seq(X)
           /\ Len(SubSeq(s, a, b)) = b - a + 1
           /\ DOMAIN SubSeq(s, a, b) = 1 .. b - a + 1
           /\ \A k \in 1 .. b - a + 1 : SubSeq(s, a, b)[k] = s[a + k - 1]
<1>1. Len(s) \in Nat /\ \A i \in a .. b : s[i] \in X
  BY LenProperties
<1>2. /\ SubSeq(s, a, b) \in Seq(X)
      /\ Len(SubSeq(s, a, b)) = IF a <= b THEN b - a + 1 ELSE 0
      /\ \A i \in 1 .. b - a + 1 : SubSeq(s, a, b)[i] = s[a + i - 1]
  BY <1>1, SubSeqProperties
<1>3. Len(SubSeq(s, a, b)) = b - a + 1
  BY <1>2
<1>4. QED
  BY <1>2, <1>3, LenProperties

\* A slice of a slice is a slice.
LEMMA SliceOfSlice ==
    ASSUME NEW X, NEW s \in Seq(X), NEW a \in Int, NEW b \in Int,
           1 <= a, a <= b + 1, b <= Len(s),
           NEW c \in Int, NEW d \in Int, 1 <= c, c <= d + 1, d <= b - a + 1
    PROVE  SubSeq(SubSeq(s, a, b), c, d) = SubSeq(s, a + c - 1, a + d - 1)
<1> DEFINE t == SubSeq(s, a, b)
           u == SubSeq(t, c, d)
           v == SubSeq(s, a + c - 1, a + d - 1)
<1>1. t \in Seq(X) /\ Len(t) = b - a + 1 /\ \A k \in 1 .. b - a + 1 : t[k] = s[a + k - 1]
  BY Slice
<1>2. Len(s) \in Nat
  BY LenProperties
<1> HIDE DEF t
<1>3. u \in Seq(X) /\ Len(u) = d - c + 1 /\ \A k \in 1 .. d - c + 1 : u[k] = t[c + k - 1]
  BY <1>1, Slice
<1>4. v \in Seq(X) /\ Len(v) = d - c + 1 /\ \A k \in 1 .. d - c + 1 : v[k] = s[a + c - 1 + k - 1]
  <2>1. /\ a + c - 1 \in Int /\ a + d - 1 \in Int
        /\ 1 <= a + c - 1 /\ a + c - 1 <= (a + d - 1) + 1 /\ a + d - 1 <= Len(s)
        /\ (a + d - 1) - (a + c - 1) + 1 = d - c + 1
    BY <1>2
  <2>2. QED
    BY <2>1, Slice
<1> HIDE DEF u, v
<1>5. ASSUME NEW k \in 1 .. Len(u)
      PROVE  u[k] = v[k]
  BY <1>1, <1>3, <1>4
<1>6. u = v
  BY <1>3, <1>4, <1>5, SeqEqual
<1>7. QED
  BY <1>6 DEF t, u, v

\* A sequence over a set is one over a wider set.
LEMMA WiderSeq ==
    ASSUME NEW S, NEW T, \A x \in S : x \in T, NEW s \in Seq(S)
    PROVE  s \in Seq(T)
<1>1. Len(s) \in Nat /\ DOMAIN s = 1 .. Len(s) /\ s = [i \in 1 .. Len(s) |-> s[i]]
  BY LenProperties
<1>2. \A i \in 1 .. Len(s) : s[i] \in T
  BY LenProperties
<1>3. s \in [1 .. Len(s) -> T]
  BY <1>1, <1>2
<1>4. QED
  BY <1>1, <1>3, SeqDef

-----------------------------------------------------------------------------
(* Sequences one behind the other.                                         *)

\* F[i] joins the first i of the sequences ss.
Joins(F, ss, X) ==
    /\ F \in [Nat -> Seq(X)]
    /\ F[0] = <<>>
    /\ \A i \in 0 .. Len(ss) - 1 : F[i + 1] = F[i] \o ss[i + 1]

\* Any sequences can be joined one by one.
LEMMA JoinsExist ==
    ASSUME NEW X, NEW ss \in Seq(Seq(X))
    PROVE  \E F : Joins(F, ss, X)
<1> DEFINE step == [i \in Nat |-> [v \in Seq(X) |-> IF i + 1 <= Len(ss) THEN v \o ss[i + 1] ELSE v]]
<1>1. Len(ss) \in Nat /\ \A i \in 1 .. Len(ss) : ss[i] \in Seq(X)
  BY LenProperties
<1>2. step \in [Nat -> [Seq(X) -> Seq(X)]]
  <2>1. ASSUME NEW i \in Nat, NEW v \in Seq(X)
        PROVE  (IF i + 1 <= Len(ss) THEN v \o ss[i + 1] ELSE v) \in Seq(X)
    <3>1. CASE i + 1 <= Len(ss)
      <4>1. ss[i + 1] \in Seq(X)
        BY <1>1, <3>1
      <4>2. QED
        BY <3>1, <4>1, ConcatProperties
    <3>2. QED
      BY <3>1
  <2>2. QED
    BY <2>1
<1>3. <<>> \in Seq(X)
  OBVIOUS
<1>4. PICK F : Iterates(F, Seq(X), <<>>, step)
  <2> HIDE DEF step
  <2>1. QED
    BY <1>2, <1>3, RecursionExists
<1>5. /\ F \in [Nat -> Seq(X)]
      /\ F[0] = <<>>
      /\ \A i \in Nat : F[i + 1] = step[i][F[i]]
  BY <1>4 DEF Iterates
<1>6. ASSUME NEW i \in 0 .. Len(ss) - 1
      PROVE  F[i + 1] = F[i] \o ss[i + 1]
  <2>1. i \in Nat /\ i + 1 <= Len(ss) /\ F[i] \in Seq(X)
    BY <1>1, <1>5
  <2>2. QED
    BY <1>5, <2>1
<1>7. QED
  BY <1>5, <1>6 DEF Joins

JoinedIs(ss, f) == f = [i \in 0 .. Len(ss) |-> IF i = 0 THEN <<>> ELSE f[i - 1] \o ss[i]]

\* They make this sequence, as the recursive function defines it.
Flat(ss) == (CHOOSE f : JoinedIs(ss, f))[Len(ss)]

\* However they are joined, the result is the same.
LEMMA JoinsFlat ==
    ASSUME NEW X, NEW ss \in Seq(Seq(X)), NEW F, Joins(F, ss, X)
    PROVE  Flat(ss) = F[Len(ss)]
<1> DEFINE n == Len(ss)
           h == [i \in 0 .. n |-> F[i]]
           g == CHOOSE f : JoinedIs(ss, f)
<1>1. n \in Nat
  BY LenProperties
<1>2. /\ F \in [Nat -> Seq(X)]
      /\ F[0] = <<>>
      /\ \A i \in 0 .. n - 1 : F[i + 1] = F[i] \o ss[i + 1]
  BY DEF Joins
<1>3. Flat(ss) = g[n]
  BY DEF Flat
<1> HIDE DEF n
<1>4. ASSUME NEW i \in 0 .. n
      PROVE  F[i] = IF i = 0 THEN <<>> ELSE F[i - 1] \o ss[i]
  <2>1. i # 0 => i - 1 \in 0 .. n - 1 /\ (i - 1) + 1 = i
    BY <1>1
  <2>2. QED
    BY <1>2, <2>1
<1>5. JoinedIs(ss, h)
  <2>1. ASSUME NEW i \in 0 .. n
        PROVE  h[i] = IF i = 0 THEN <<>> ELSE h[i - 1] \o ss[i]
    <3>1. h[i] = F[i]
      OBVIOUS
    <3>2. i # 0 => h[i - 1] = F[i - 1]
      BY <1>1
    <3>3. QED
      BY <1>4, <3>1, <3>2
  <2>2. h = [i \in 0 .. n |-> h[i]]
    OBVIOUS
  <2> HIDE DEF h
  <2>3. h = [i \in 0 .. n |-> IF i = 0 THEN <<>> ELSE h[i - 1] \o ss[i]]
    BY <2>1, <2>2, Zenon
  <2>4. QED
    BY <2>3 DEF JoinedIs, n
<1>6. JoinedIs(ss, g)
  <2> HIDE DEF h
  <2>1. QED
    BY <1>5
<1> HIDE DEF g, h
<1>7. ASSUME NEW i \in 0 .. n
      PROVE  g[i] = IF i = 0 THEN <<>> ELSE g[i - 1] \o ss[i]
  BY <1>6 DEF JoinedIs, n
<1> DEFINE T == {i \in Nat : i <= n => g[i] = F[i]}
<1>8. 0 \in T
  BY <1>1, <1>2, <1>7
<1>9. ASSUME NEW i \in Nat, i \in T PROVE i + 1 \in T
  <2>1. SUFFICES ASSUME i + 1 <= n PROVE g[i + 1] = F[i + 1]
    OBVIOUS
  <2> DEFINE j == i + 1
  <2>2. j \in 0 .. n /\ j # 0 /\ j - 1 = i /\ i <= n
    BY <1>1, <2>1
  <2>3. g[j - 1] = F[j - 1]
    BY <1>9, <2>2
  <2> HIDE DEF j
  <2>4. g[j] = F[j]
    BY <1>4, <1>7, <2>2, <2>3
  <2>5. QED
    BY <2>4 DEF j
<1>10. \A i \in Nat : i \in T
  <2> HIDE DEF T
  <2>1. QED
    BY <1>8, <1>9, SetInduction
<1>11. g[n] = F[n]
  BY <1>1, <1>10
<1>12. QED
  BY <1>3, <1>11 DEF n

\* The sequences ss lie in W one after the other, the one after the first k from
\* off[k] on.
Laid(ss, W, off) ==
    /\ off \in [0 .. Len(ss) -> Nat]
    /\ off[0] = 0
    /\ off[Len(ss)] = Len(W)
    /\ \A k \in 0 .. Len(ss) - 1 :
          /\ off[k + 1] = off[k] + Len(ss[k + 1])
          /\ off[k + 1] <= Len(W)
          /\ \A i \in 1 .. Len(ss[k + 1]) : W[off[k] + i] = ss[k + 1][i]

Marks(ss) == CHOOSE off : Laid(ss, Flat(ss), off)

\* So they lie in it one behind the other.
LEMMA FlatLaid ==
    ASSUME NEW X, NEW ss \in Seq(Seq(X))
    PROVE  /\ Flat(ss) \in Seq(X)
           /\ Laid(ss, Flat(ss), Marks(ss))
<1>1. PICK F : Joins(F, ss, X)
  BY JoinsExist
<1> DEFINE n == Len(ss)
           W == F[n]
           off == [k \in 0 .. n |-> Len(F[k])]
<1>2. Flat(ss) = W
  BY <1>1, JoinsFlat
<1> DEFINE l(k) == Len(F[k])
           w(k) == Len(ss[k + 1])
<1>3. n \in Nat /\ \A i \in 1 .. n : ss[i] \in Seq(X)
  BY LenProperties
<1>4. /\ F \in [Nat -> Seq(X)]
      /\ F[0] = <<>>
      /\ \A i \in 0 .. n - 1 : F[i + 1] = F[i] \o ss[i + 1]
  BY <1>1 DEF Joins
<1>5. \A k \in Nat : l(k) \in Nat
  BY <1>4, LenProperties
<1> HIDE DEF n
<1>6. ASSUME NEW k \in 0 .. n - 1
      PROVE  /\ w(k) \in Nat
             /\ l(k + 1) = l(k) + w(k)
             /\ \A i \in 1 .. l(k) : F[k + 1][i] = F[k][i]
             /\ \A i \in 1 .. w(k) : F[k + 1][l(k) + i] = ss[k + 1][i]
  <2> DEFINE a == F[k]
             b == ss[k + 1]
  <2>1. k \in Nat /\ k + 1 \in 1 .. n
    BY <1>3
  <2>2. a \in Seq(X)
    BY <1>4, <2>1
  <2>3. b \in Seq(X)
    BY <1>3, <2>1
  <2>4. F[k + 1] = a \o b
    BY <1>4
  <2> HIDE DEF a, b
  <2>5. /\ Len(a \o b) = Len(a) + Len(b)
        /\ \A i \in 1 .. Len(a) + Len(b) :
              (a \o b)[i] = IF i <= Len(a) THEN a[i] ELSE b[i - Len(a)]
    BY <2>2, <2>3, ConcatProperties
  <2>6. Len(a) \in Nat /\ Len(b) \in Nat
    BY <2>2, <2>3, LenProperties
  <2>7. ASSUME NEW i \in 1 .. Len(a) PROVE (a \o b)[i] = a[i]
    <3>1. i \in 1 .. Len(a) + Len(b) /\ i <= Len(a)
      BY <2>6
    <3>2. QED
      BY <2>5, <3>1
  <2>8. ASSUME NEW i \in 1 .. Len(b) PROVE (a \o b)[Len(a) + i] = b[i]
    <3>1. Len(a) + i \in 1 .. Len(a) + Len(b) /\ ~ (Len(a) + i <= Len(a)) /\ (Len(a) + i) - Len(a) = i
      BY <2>6
    <3>2. QED
      BY <2>5, <3>1
  <2>9. QED
    BY <2>4, <2>5, <2>6, <2>7, <2>8 DEF a, b
<1> HIDE DEF l, w
<1> DEFINE Begins(k, m) == l(k) <= l(m) /\ \A i \in 1 .. l(k) : F[m][i] = F[k][i]
           T == {m \in Nat : m <= n => \A k \in 0 .. m : Begins(k, m)}
<1>7. 0 \in T
  <2>1. l(0) <= l(0)
    BY <1>5
  <2>2. \A k \in 0 .. 0 : Begins(k, 0)
    BY <2>1
  <2>3. QED
    BY <2>2
<1>8. ASSUME NEW m \in Nat, m \in T PROVE m + 1 \in T
  <2>1. SUFFICES ASSUME m + 1 <= n, NEW k \in 0 .. m + 1 PROVE Begins(k, m + 1)
    OBVIOUS
  <2>2. m \in 0 .. n - 1 /\ m <= n /\ k \in Nat
    BY <1>3, <2>1
  <2>3. l(m) \in Nat /\ w(m) \in Nat /\ l(m + 1) = l(m) + w(m) /\ l(k) \in Nat
    BY <1>5, <1>6, <2>2
  <2>4. \A i \in 1 .. l(m) : F[m + 1][i] = F[m][i]
    BY <1>6, <2>2
  <2>5. CASE k = m + 1
    <3>1. l(m + 1) <= l(m + 1)
      BY <2>3
    <3>2. QED
      BY <2>5, <3>1
  <2>6. CASE k \in 0 .. m
    <3>1. Begins(k, m)
      BY <1>8, <2>2, <2>6
    <3>2. \A i \in 1 .. l(k) : i \in 1 .. l(m)
      BY <2>3, <3>1
    <3>3. l(k) <= l(m + 1)
      BY <2>3, <3>1
    <3>4. QED
      BY <2>4, <3>1, <3>2, <3>3
  <2>7. k = m + 1 \/ k \in 0 .. m
    BY <2>1
  <2>8. QED
    BY <2>5, <2>6, <2>7
<1>9. \A m \in Nat : m \in T
  <2> HIDE DEF T
  <2>1. QED
    BY <1>7, <1>8, SetInduction
<1>10. \A k \in 0 .. n : Begins(k, n)
  <2>1. n \in T /\ n <= n
    BY <1>3, <1>9
  <2>2. QED
    BY <2>1
<1> HIDE DEF T
<1>11. \A k \in 0 .. n : off[k] = l(k)
  BY DEF l
<1>12. off \in [0 .. n -> Nat]
  <2>1. \A k \in 0 .. n : l(k) \in Nat
    BY <1>3, <1>5
  <2>2. QED
    BY <2>1 DEF l
<1> HIDE DEF off
<1>13. ASSUME NEW k \in 0 .. n - 1
       PROVE  /\ off[k + 1] = off[k] + w(k)
              /\ off[k + 1] <= l(n)
              /\ \A i \in 1 .. w(k) : F[n][off[k] + i] = ss[k + 1][i]
  <2>1. k \in 0 .. n /\ k + 1 \in 0 .. n /\ k \in Nat
    BY <1>3
  <2>2. off[k] = l(k) /\ off[k + 1] = l(k + 1)
    BY <1>11, <2>1
  <2>3. l(k) \in Nat /\ w(k) \in Nat /\ l(k + 1) = l(k) + w(k)
    BY <1>5, <1>6, <2>1
  <2>4. Begins(k + 1, n)
    BY <1>10, <2>1
  <2>5. ASSUME NEW i \in 1 .. w(k) PROVE F[n][off[k] + i] = ss[k + 1][i]
    <3>1. l(k) + i \in 1 .. l(k + 1)
      BY <2>3
    <3>2. F[k + 1][l(k) + i] = ss[k + 1][i]
      BY <1>6
    <3>3. QED
      BY <2>2, <2>4, <3>1, <3>2
  <2>6. QED
    BY <2>2, <2>3, <2>4, <2>5
<1>14. off[0] = 0 /\ off[n] = Len(W)
  <2>1. l(0) = 0
    BY <1>4 DEF l
  <2>2. 0 \in 0 .. n /\ n \in 0 .. n
    BY <1>3
  <2>3. QED
    BY <1>11, <2>1, <2>2 DEF l
<1>15. l(n) = Len(W) /\ \A k : w(k) = Len(ss[k + 1])
  BY DEF l, w
<1>16. W = F[n]
  OBVIOUS
<1> HIDE DEF W
<1>17. Laid(ss, W, off)
  BY <1>12, <1>13, <1>14, <1>15, <1>16 DEF Laid, n
<1>18. Laid(ss, W, Marks(ss))
  BY <1>2, <1>17 DEF Marks
<1>19. W \in Seq(X)
  BY <1>3, <1>4, <1>16
<1>20. QED
  BY <1>2, <1>18, <1>19

\* x is a part of W, from behind its first m elements on.
Part(x, X, W, m) ==
    /\ x \in Seq(X) /\ m \in Nat /\ Len(W) \in Nat
    /\ m + Len(x) <= Len(W)
    /\ \A i \in 1 .. Len(x) : x[i] = W[m + i]

\* A piece of a part is a part.
LEMMA PartCut ==
    ASSUME NEW X, NEW x, NEW W, NEW m, Part(x, X, W, m),
           NEW a \in Nat, NEW b \in Nat, 1 <= a, a <= b + 1, b <= Len(x)
    PROVE  /\ Part(SubSeq(x, a, b), X, W, m + (a - 1))
           /\ Len(SubSeq(x, a, b)) = b - a + 1
<1>1. x \in Seq(X) /\ m \in Nat /\ m + Len(x) <= Len(W)
  BY DEF Part
<1>2. \A i \in 1 .. Len(x) : x[i] = W[m + i]
  BY DEF Part
<1>3. Len(x) \in Nat /\ \A i \in 1 .. Len(x) : x[i] \in X
  BY <1>1, LenProperties
<1> DEFINE y == SubSeq(x, a, b)
<1>4. \A i \in a .. b : x[i] \in X
  BY <1>3
<1>5. /\ y \in Seq(X)
      /\ Len(y) = IF a <= b THEN b - a + 1 ELSE 0
      /\ \A i \in 1 .. b - a + 1 : y[i] = x[a + i - 1]
  BY <1>4, SubSeqProperties
<1> HIDE DEF y
<1>6. Len(y) = b - a + 1
  BY <1>5
<1>7. ASSUME NEW i \in 1 .. Len(y) PROVE y[i] = W[(m + (a - 1)) + i]
  <2>1. i \in 1 .. b - a + 1 /\ a + i - 1 \in 1 .. Len(x)
    BY <1>3, <1>6
  <2>2. m + (a + i - 1) = (m + (a - 1)) + i
    BY <1>1
  <2>3. QED
    BY <1>2, <1>5, <2>1, <2>2
<1>8. m + (a - 1) \in Nat /\ (m + (a - 1)) + Len(y) <= Len(W)
  <2>1. Len(W) \in Nat
    BY DEF Part
  <2>2. QED
    BY <1>1, <1>3, <1>6, <2>1
<1>9. QED
  <2>1. Len(W) \in Nat
    BY DEF Part
  <2>2. QED
    BY <1>5, <1>6, <1>7, <1>8, <2>1 DEF Part, y

\* Two parts, one behind the other, make a part.
LEMMA PartJoin ==
    ASSUME NEW X, NEW x, NEW y, NEW W, NEW m, Part(x, X, W, m), Part(y, X, W, m + Len(x))
    PROVE  /\ Part(x \o y, X, W, m)
           /\ Len(x \o y) = Len(x) + Len(y)
<1>1. x \in Seq(X) /\ y \in Seq(X) /\ m \in Nat /\ m + Len(x) + Len(y) <= Len(W) /\ Len(W) \in Nat
  BY DEF Part
<1>2. Len(x) \in Nat /\ Len(y) \in Nat
  BY <1>1, LenProperties
<1>3. \A i \in 1 .. Len(x) : x[i] = W[m + i]
  BY DEF Part
<1>4. \A i \in 1 .. Len(y) : y[i] = W[(m + Len(x)) + i]
  BY DEF Part
<1> DEFINE z == x \o y
<1>5. /\ z \in Seq(X)
      /\ Len(z) = Len(x) + Len(y)
      /\ \A i \in 1 .. Len(x) + Len(y) : z[i] = IF i <= Len(x) THEN x[i] ELSE y[i - Len(x)]
  BY <1>1, ConcatProperties
<1> HIDE DEF z
<1>6. ASSUME NEW i \in 1 .. Len(z) PROVE z[i] = W[m + i]
  <2>1. i \in 1 .. Len(x) + Len(y)
    BY <1>5
  <2>2. CASE i <= Len(x)
    <3>1. i \in 1 .. Len(x)
      BY <1>2, <2>1, <2>2
    <3>2. QED
      BY <1>3, <1>5, <2>1, <2>2, <3>1
  <2>3. CASE ~ (i <= Len(x))
    <3>1. i - Len(x) \in 1 .. Len(y) /\ (m + Len(x)) + (i - Len(x)) = m + i
      BY <1>1, <1>2, <2>1, <2>3
    <3>2. QED
      BY <1>4, <1>5, <2>1, <2>3, <3>1
  <2>4. QED
    BY <2>2, <2>3
<1>7. m + Len(z) <= Len(W)
  <2>1. m + Len(z) = m + Len(x) + Len(y)
    BY <1>1, <1>2, <1>5
  <2>2. QED
    BY <1>1, <2>1
<1>8. QED
  BY <1>1, <1>5, <1>6, <1>7 DEF Part, z

\* Nothing is a part of anything.
LEMMA PartEmpty ==
    ASSUME NEW X, NEW W, NEW m \in Nat, Len(W) \in Nat, m <= Len(W)
    PROVE  Part(<<>>, X, W, m)
BY DEF Part

\* A part from the beginning is a prefix.
LEMMA PartPrefix ==
    ASSUME NEW X, NEW x, NEW W, Part(x, X, W, 0)
    PROVE  Len(x) <= Len(W) /\ x = SubSeq(W, 1, Len(x))
<1>1. x \in Seq(X) /\ Len(x) <= Len(W) /\ Len(x) \in Nat
  BY LenProperties DEF Part
<1>2. \A i \in 1 .. Len(x) : x[i] = W[i]
  <2>1. \A i \in 1 .. Len(x) : x[i] = W[0 + i]
    BY DEF Part
  <2>2. \A i \in 1 .. Len(x) : 0 + i = i
    BY <1>1
  <2>3. QED
    BY <2>1, <2>2
<1>3. \A i \in 1 .. Len(x) : x[i] \in X /\ W[i] \in X
  BY <1>1, <1>2, LenProperties
<1> DEFINE q == SubSeq(W, 1, Len(x))
<1>4. /\ q \in Seq(X)
      /\ Len(q) = IF 1 <= Len(x) THEN Len(x) - 1 + 1 ELSE 0
      /\ \A i \in 1 .. Len(x) - 1 + 1 : q[i] = W[1 + i - 1]
  BY <1>1, <1>3, SubSeqProperties
<1> HIDE DEF q
<1>5. Len(q) = Len(x)
  BY <1>1, <1>4
<1>6. ASSUME NEW i \in 1 .. Len(x) PROVE x[i] = q[i]
  <2>1. i \in 1 .. Len(x) - 1 + 1 /\ 1 + i - 1 = i
    BY <1>1
  <2>2. QED
    BY <1>2, <1>4, <2>1
<1>7. x = q
  BY <1>1, <1>4, <1>5, <1>6, SeqEqual
<1>8. QED
  BY <1>1, <1>7 DEF q

\* The first m elements of W have been taken, in is to be taken next, then u.
Stream(W, m, in, u) ==
    /\ Part(in, Nat, W, m)
    /\ Part(u, Nat, W, m + Len(in))
    /\ m + Len(in) + Len(u) = Len(W)

\* The first elements of u are added to in.
LEMMA StreamSends ==
    ASSUME NEW W, NEW m, NEW in, NEW u, Stream(W, m, in, u), NEW n \in 1 .. Len(u)
    PROVE  Stream(W, m, in \o SubSeq(u, 1, n), SubSeq(u, n + 1, Len(u)))
<1> DEFINE x == SubSeq(u, 1, n)
           y == SubSeq(u, n + 1, Len(u))
           z == in \o x
<1>1. Part(in, Nat, W, m) /\ Part(u, Nat, W, m + Len(in)) /\ m + Len(in) + Len(u) = Len(W)
  BY DEF Stream
<1>2. m \in Nat /\ Len(in) \in Nat /\ Len(u) \in Nat
  BY <1>1, LenProperties DEF Part
<1>3. n \in Nat /\ 1 <= n /\ n <= Len(u)
  BY <1>2
<1>4. Part(x, Nat, W, m + Len(in)) /\ Len(x) = n
  <2>1. 1 \in Nat /\ 1 <= n + 1
    BY <1>3
  <2>2. Part(x, Nat, W, (m + Len(in)) + (1 - 1)) /\ Len(x) = n - 1 + 1
    BY <1>1, <1>3, <2>1, PartCut
  <2>3. (m + Len(in)) + (1 - 1) = m + Len(in) /\ n - 1 + 1 = n
    BY <1>2, <1>3
  <2>4. QED
    BY <2>2, <2>3
<1>5. Part(y, Nat, W, m + Len(in) + n) /\ Len(y) = Len(u) - n
  <2> DEFINE a == n + 1
             b == Len(u)
             h == m + Len(in)
  <2>1. a \in Nat /\ b \in Nat /\ 1 <= a /\ a <= b + 1 /\ b <= Len(u)
    BY <1>2, <1>3
  <2>2. h + (a - 1) = m + Len(in) + n /\ b - a + 1 = Len(u) - n
    BY <1>2, <1>3
  <2>3. y = SubSeq(u, a, b) /\ Part(u, Nat, W, h)
    BY <1>1
  <2> HIDE DEF a, b, h, y
  <2>4. Part(y, Nat, W, h + (a - 1)) /\ Len(y) = b - a + 1
    BY <2>1, <2>3, PartCut
  <2>5. QED
    BY <2>2, <2>4
<1> HIDE DEF x, y
<1>6. Part(z, Nat, W, m) /\ Len(z) = Len(in) + n
  BY <1>1, <1>4, PartJoin
<1> HIDE DEF z
<1>7. m + Len(z) = m + Len(in) + n /\ m + Len(z) + Len(y) = Len(W)
  BY <1>1, <1>2, <1>3, <1>5, <1>6
<1>8. Stream(W, m, z, y)
  BY <1>5, <1>6, <1>7 DEF Stream
<1>9. QED
  BY <1>8 DEF x, y, z
=============================================================================
