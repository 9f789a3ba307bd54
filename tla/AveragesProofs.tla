-------------------------- MODULE AveragesProofs ----------------------------
(***************************************************************************)
(* Proofs about the master's averages, for any set of slaves and any       *)
(* widths of the types that satisfy the assumptions of Averages.           *)
(*                                                                         *)
(* The first part is about sums over finite sets: the recursion behind     *)
(* SumFunctionOnSet has exactly one solution, any number may be taken out  *)
(* of a sum, and the quotient of a sum and its size is a mean.  The second *)
(* part shows that the running sums never wrap, that the divisions are     *)
(* exact where the conversions allow it, and that every change is told.    *)
(***************************************************************************)
EXTENDS Averages, FiniteSetTheorems, Foundations, TLAPS

\* The element with which a sum over the set T begins.
Pick(T) == CHOOSE a \in T : TRUE

\* f adds up the numbers of h over every subset of S.
Sums(h, S, f) ==
    f = [T \in SUBSET S |-> IF T = {} THEN 0 ELSE h[Pick(T)] + f[T \ {Pick(T)}]]

Numbers(h, S) == IsFiniteSet(S) /\ \A a \in S : h[a] \in Int

\* Without the element picked, a finite set has one element less.
LEMMA Picked ==
    ASSUME NEW S, IsFiniteSet(S), NEW T \in SUBSET S
    PROVE  /\ IsFiniteSet(T)
           /\ Cardinality(T) \in Nat
           /\ Cardinality(T) = 0 <=> T = {}
           /\ T # {} => /\ Pick(T) \in T
                        /\ T \ {Pick(T)} \in SUBSET S
                        /\ Cardinality(T \ {Pick(T)}) = Cardinality(T) - 1
<1>1. IsFiniteSet(T)
  BY FS_Subset
<1>2. Cardinality(T) \in Nat
  BY <1>1, FS_CardinalityType
<1>3. Cardinality(T) = 0 <=> T = {}
  BY <1>1, FS_EmptySet
<1>4. ASSUME T # {}
      PROVE  /\ Pick(T) \in T
             /\ T \ {Pick(T)} \in SUBSET S
             /\ Cardinality(T \ {Pick(T)}) = Cardinality(T) - 1
  <2>1. Pick(T) \in T
    BY <1>4 DEF Pick
  <2>2. QED
    BY <1>1, <2>1, FS_RemoveElement
<1>5. QED
  BY <1>1, <1>2, <1>3, <1>4

\* The recursion that adds up the numbers of a finite set has a solution.
LEMMA SumsExist ==
    ASSUME NEW h, NEW S, Numbers(h, S)
    PROVE  \E f \in [SUBSET S -> Int] : Sums(h, S, f)
<1> DEFINE X == [SUBSET S -> Int]
           More(f) == [T \in SUBSET S |-> IF T = {} THEN 0 ELSE h[Pick(T)] + f[T \ {Pick(T)}]]
           step == [n \in Nat |-> [f \in X |-> More(f)]]
           none == [T \in SUBSET S |-> 0]
<1>0. ASSUME NEW T \in SUBSET S, T # {}
      PROVE  /\ h[Pick(T)] \in Int
             /\ T \ {Pick(T)} \in SUBSET S
             /\ Cardinality(T) - 1 \in Nat
             /\ Cardinality(T \ {Pick(T)}) = Cardinality(T) - 1
  <2>1. IsFiniteSet(S) /\ \A a \in S : h[a] \in Int
    BY DEF Numbers
  <2>2. /\ Pick(T) \in T
        /\ T \ {Pick(T)} \in SUBSET S
        /\ Cardinality(T) \in Nat /\ Cardinality(T) # 0
        /\ Cardinality(T \ {Pick(T)}) = Cardinality(T) - 1
    BY <1>0, <2>1, Picked
  <2>3. QED
    BY <2>1, <2>2
<1>1. ASSUME NEW f \in X
      PROVE  More(f) \in X
  <2>1. ASSUME NEW T \in SUBSET S, T # {}
        PROVE  h[Pick(T)] \in Int /\ f[T \ {Pick(T)}] \in Int
    BY <1>0, <2>1
  <2>2. QED
    BY <2>1
<1>2. none \in X
  OBVIOUS
<1>3. step \in [Nat -> [X -> X]]
  BY <1>1
<1>4. PICK F : Iterates(F, X, none, step)
  <2> HIDE DEF X, step, none
  <2>1. QED
    BY <1>2, <1>3, RecursionExists
<1>5. F \in [Nat -> X] /\ \A n \in Nat : F[n + 1] = More(F[n])
  BY <1>4 DEF Iterates
<1> DEFINE f == [T \in SUBSET S |-> F[Cardinality(T)][T]]
<1>6. ASSUME NEW T \in SUBSET S
      PROVE  f[T] \in Int
  <2>1. Cardinality(T) \in Nat
    BY Picked DEF Numbers
  <2>2. QED
    BY <1>5, <2>1
<1>7. ASSUME NEW T \in SUBSET S
      PROVE  f[T] = IF T = {} THEN 0 ELSE h[Pick(T)] + f[T \ {Pick(T)}]
  <2>1. CASE T = {}
    <3>1. Cardinality(T) = 0
      BY <2>1, FS_EmptySet
    <3>2. F[0] = none
      BY <1>4 DEF Iterates
    <3>3. QED
      BY <2>1, <3>1, <3>2
  <2>2. CASE T # {}
    <3> DEFINE n == Cardinality(T) - 1
    <3>1. n \in Nat /\ n + 1 = Cardinality(T) /\ Cardinality(T \ {Pick(T)}) = n
          /\ T \ {Pick(T)} \in SUBSET S
      <4>1. Cardinality(T) \in Nat
        BY Picked DEF Numbers
      <4>2. QED
        BY <1>0, <2>2, <4>1
    <3> HIDE DEF n
    <3>2. F[n + 1] = More(F[n])
      BY <1>5, <3>1
    <3>3. QED
      BY <2>2, <3>1, <3>2
  <2>3. QED
    BY <2>1, <2>2
<1>8. f \in X
  BY <1>6
<1>9. f = [T \in SUBSET S |-> IF T = {} THEN 0 ELSE h[Pick(T)] + f[T \ {Pick(T)}]]
  <2> DEFINE g == [T \in SUBSET S |-> IF T = {} THEN 0 ELSE h[Pick(T)] + f[T \ {Pick(T)}]]
  <2>1. ASSUME NEW T \in SUBSET S PROVE f[T] = g[T]
    <3> HIDE DEF f
    <3>1. QED
      BY <1>7
  <2>2. f = [T \in SUBSET S |-> f[T]]
    OBVIOUS
  <2>3. g = [T \in SUBSET S |-> g[T]]
    OBVIOUS
  <2> HIDE DEF f, g
  <2>4. f = g
    BY <2>1, <2>2, <2>3
  <2>5. QED
    BY <2>4 DEF g
<1>10. QED
  <2> HIDE DEF f
  <2>1. QED
    BY <1>8, <1>9 DEF Sums

\* Two solutions agree where both are defined.
LEMMA SumsAgree ==
    ASSUME NEW h, NEW S, Numbers(h, S), NEW T \in SUBSET S,
           NEW f, Sums(h, S, f), NEW g, Sums(h, T, g)
    PROVE  \A R \in SUBSET T : f[R] = g[R]
<1> DEFINE Good == {n \in Nat : \A R \in SUBSET T : Cardinality(R) = n => f[R] = g[R]}
<1>1. ASSUME NEW R \in SUBSET T
      PROVE  /\ f[R] = IF R = {} THEN 0 ELSE h[Pick(R)] + f[R \ {Pick(R)}]
             /\ g[R] = IF R = {} THEN 0 ELSE h[Pick(R)] + g[R \ {Pick(R)}]
             /\ Cardinality(R) \in Nat
             /\ Cardinality(R) = 0 <=> R = {}
             /\ R # {} => /\ R \ {Pick(R)} \in SUBSET T
                          /\ Cardinality(R \ {Pick(R)}) = Cardinality(R) - 1
  <2>1. R \in SUBSET S
    OBVIOUS
  <2>2. f[R] = IF R = {} THEN 0 ELSE h[Pick(R)] + f[R \ {Pick(R)}]
    BY <2>1 DEF Sums
  <2>3. g[R] = IF R = {} THEN 0 ELSE h[Pick(R)] + g[R \ {Pick(R)}]
    BY DEF Sums
  <2>4. IsFiniteSet(S)
    BY DEF Numbers
  <2>5. QED
    BY <2>1, <2>2, <2>3, <2>4, Picked
<1>2. 0 \in Good
  BY <1>1
<1>3. ASSUME NEW n \in Nat, n \in Good
      PROVE  n + 1 \in Good
  <2>1. SUFFICES ASSUME NEW R \in SUBSET T, Cardinality(R) = n + 1
                 PROVE  f[R] = g[R]
    OBVIOUS
  <2> DEFINE Q == R \ {Pick(R)}
  <2>2. R # {} /\ Q \in SUBSET T /\ Cardinality(Q) = n
    BY <1>1, <2>1
  <2>3. f[R] = h[Pick(R)] + f[Q] /\ g[R] = h[Pick(R)] + g[Q]
    BY <1>1, <2>2
  <2> HIDE DEF Q
  <2>4. f[Q] = g[Q]
    BY <1>3, <2>2
  <2>5. QED
    BY <2>3, <2>4
<1>4. \A n \in Nat : n \in Good
  <2> HIDE DEF Good
  <2>1. QED
    BY <1>2, <1>3, SetInduction
<1>5. QED
  BY <1>1, <1>4

SumIs(h, S) ==
    /\ SumFunctionOnSet(h, S) \in Int
    /\ S = {} => SumFunctionOnSet(h, S) = 0
    /\ S # {} => /\ Pick(S) \in S
                 /\ SumFunctionOnSet(h, S) =
                       h[Pick(S)] + SumFunctionOnSet(h, S \ {Pick(S)})

\* What a sum over a finite set is: nothing, or the number picked and the sum
\* over the others.
LEMMA SumRecursion ==
    ASSUME NEW h, NEW S, Numbers(h, S)
    PROVE  SumIs(h, S)
<1>1. PICK f \in [SUBSET S -> Int] : Sums(h, S, f)
  BY SumsExist
<1>2. ASSUME NEW T \in SUBSET S
      PROVE  SumFunctionOnSet(h, T) = f[T]
  <2> DEFINE g == CHOOSE g : Sums(h, T, g)
  <2>1. Numbers(h, T)
    BY FS_Subset DEF Numbers
  <2>2. \E e : Sums(h, T, e)
    BY <2>1, SumsExist
  <2>3. Sums(h, T, g)
    BY <2>2
  <2>4. SumFunctionOnSet(h, T) = g[T]
    BY DEF SumFunctionOnSet, FoldFunctionOnSet, MapThenFoldSet, Sums, Pick
  <2> HIDE DEF g
  <2>5. \A R \in SUBSET T : f[R] = g[R]
    BY <1>1, <2>3, SumsAgree
  <2>6. QED
    BY <2>4, <2>5
<1>3. f[S] = IF S = {} THEN 0 ELSE h[Pick(S)] + f[S \ {Pick(S)}]
  BY <1>1 DEF Sums
<1>4. S # {} => Pick(S) \in S
  BY DEF Pick
<1>5. f[S] = SumFunctionOnSet(h, S)
      /\ f[S \ {Pick(S)}] = SumFunctionOnSet(h, S \ {Pick(S)})
  BY <1>2
<1>6. QED
  BY <1>1, <1>3, <1>4, <1>5 DEF SumIs

SumSplits(h, S, a) ==
    /\ SumFunctionOnSet(h, S) \in Int
    /\ SumFunctionOnSet(h, S \ {a}) \in Int
    /\ SumFunctionOnSet(h, S) = h[a] + SumFunctionOnSet(h, S \ {a})

\* Any number may be taken out of a sum, not only the one picked.
LEMMA SumWithout ==
    ASSUME NEW h, NEW S, Numbers(h, S), NEW a \in S
    PROVE  SumSplits(h, S, a)
<1> DEFINE Sum(T) == SumFunctionOnSet(h, T)
           Good == {n \in Nat : \A T \in SUBSET S : \A b \in T :
                       Cardinality(T) = n => Sum(T) = h[b] + Sum(T \ {b})}
<1>1. IsFiniteSet(S) /\ \A b \in S : h[b] \in Int
  BY DEF Numbers
<1>2. ASSUME NEW T \in SUBSET S
      PROVE  Numbers(h, T) /\ Sum(T) \in Int /\ Cardinality(T) \in Nat
  <2>1. Numbers(h, T)
    BY FS_Subset DEF Numbers
  <2>2. QED
    BY <1>1, <2>1, SumRecursion, Picked DEF SumIs
<1>3. ASSUME NEW T \in SUBSET S, T # {}
      PROVE  Pick(T) \in T /\ Sum(T) = h[Pick(T)] + Sum(T \ {Pick(T)})
  BY <1>2, <1>3, SumRecursion DEF SumIs
<1>4. ASSUME NEW T \in SUBSET S, NEW b \in T
      PROVE  Cardinality(T) # 0 /\ Cardinality(T \ {b}) = Cardinality(T) - 1
  <2>1. Cardinality(T) \in Nat /\ Cardinality(T) # 0 /\ IsFiniteSet(T)
    BY <1>1, Picked
  <2>2. Cardinality(T \ {b}) = Cardinality(T) - 1
    BY <2>1, FS_RemoveElement
  <2>3. QED
    BY <2>1, <2>2
<1>5. 0 \in Good
  <2>1. ASSUME NEW T \in SUBSET S, NEW b \in T PROVE Cardinality(T) # 0
    BY <1>4
  <2>2. QED
    BY <2>1
<1>6. ASSUME NEW n \in Nat, n \in Good
      PROVE  n + 1 \in Good
  <2>1. SUFFICES ASSUME NEW T \in SUBSET S, NEW b \in T, Cardinality(T) = n + 1
                 PROVE  Sum(T) = h[b] + Sum(T \ {b})
    BY DEF Good
  <2> DEFINE c == Pick(T)
  <2>2. c \in T /\ Sum(T) = h[c] + Sum(T \ {c})
    BY <1>3
  <2>3. CASE b = c
    BY <2>2, <2>3
  <2>4. CASE b # c
    <3> DEFINE B == T \ {b}
               C == T \ {c}
               R == T \ {b, c}
    <3> HIDE DEF c, Sum
    <3>1. /\ B \in SUBSET S /\ C \in SUBSET S /\ R \in SUBSET S
          /\ b \in C /\ c \in B /\ B \ {c} = R /\ C \ {b} = R
      BY <2>2, <2>4
    <3>2. Cardinality(B) = n /\ Cardinality(C) = n
      BY <1>4, <2>1, <2>2
    <3> HIDE DEF B, C, R
    <3>3. Sum(C) = h[b] + Sum(R)
      BY <1>6, <3>1, <3>2 DEF Good
    <3>4. Sum(B) = h[c] + Sum(R)
      BY <1>6, <3>1, <3>2 DEF Good
    <3>5. Sum(R) \in Int /\ h[b] \in Int /\ h[c] \in Int
      BY <1>1, <1>2, <2>2, <3>1
    <3>6. Sum(T) = h[c] + Sum(C)
      BY <2>2 DEF C
    <3>7. Sum(T) = h[b] + Sum(B)
      BY <3>3, <3>4, <3>5, <3>6
    <3>8. QED
      BY <3>7 DEF B
  <2>5. QED
    BY <2>3, <2>4
<1>7. \A n \in Nat : n \in Good
  <2> HIDE DEF Good
  <2>1. QED
    BY <1>5, <1>6, SetInduction
<1>8. Sum(S) = h[a] + Sum(S \ {a})
  BY <1>2, <1>7
<1>9. QED
  BY <1>2, <1>8 DEF SumSplits

\* A sum depends on nothing but the numbers that are added.
LEMMA SumSame ==
    ASSUME NEW S, NEW h, NEW k, Numbers(h, S), \A a \in S : k[a] = h[a]
    PROVE  SumFunctionOnSet(k, S) = SumFunctionOnSet(h, S)
<1> DEFINE A(T) == SumFunctionOnSet(h, T)
           B(T) == SumFunctionOnSet(k, T)
           Good == {n \in Nat : \A T \in SUBSET S : Cardinality(T) = n => A(T) = B(T)}
<1>1. ASSUME NEW T \in SUBSET S
      PROVE  /\ T = {} => A(T) = 0 /\ B(T) = 0
             /\ T # {} => /\ A(T) = h[Pick(T)] + A(T \ {Pick(T)})
                          /\ B(T) = h[Pick(T)] + B(T \ {Pick(T)})
  <2>1. Numbers(h, T) /\ Numbers(k, T)
    BY FS_Subset DEF Numbers
  <2>2. SumIs(h, T) /\ SumIs(k, T)
    BY <2>1, SumRecursion
  <2>3. Pick(T) \in T => k[Pick(T)] = h[Pick(T)]
    OBVIOUS
  <2>4. QED
    BY <2>2, <2>3 DEF SumIs
<1> HIDE DEF A, B
<1>2. ASSUME NEW T \in SUBSET S
      PROVE  /\ Cardinality(T) \in Nat
             /\ Cardinality(T) = 0 <=> T = {}
             /\ T # {} => /\ T \ {Pick(T)} \in SUBSET S
                          /\ Cardinality(T \ {Pick(T)}) = Cardinality(T) - 1
  BY Picked DEF Numbers
<1>3. 0 \in Good
  BY <1>1, <1>2
<1>4. ASSUME NEW n \in Nat, n \in Good
      PROVE  n + 1 \in Good
  <2>1. SUFFICES ASSUME NEW T \in SUBSET S, Cardinality(T) = n + 1
                 PROVE  A(T) = B(T)
    OBVIOUS
  <2> DEFINE R == T \ {Pick(T)}
  <2>2. T # {} /\ R \in SUBSET S /\ Cardinality(R) = n
    <3>1. T # {}
      BY <2>1, FS_EmptySet
    <3>2. QED
      BY <1>2, <2>1, <3>1
  <2>3. A(T) = h[Pick(T)] + A(R) /\ B(T) = h[Pick(T)] + B(R)
    BY <1>1, <2>2
  <2> HIDE DEF R
  <2>4. A(R) = B(R)
    BY <1>4, <2>2
  <2>5. QED
    BY <2>3, <2>4
<1>5. \A n \in Nat : n \in Good
  <2> HIDE DEF Good
  <2>1. QED
    BY <1>3, <1>4, SetInduction
<1>6. QED
  BY <1>2, <1>5 DEF A, B

AtLeast(h, S, low) == \A a \in S : low <= h[a]
AtMost(h, S, high) == \A a \in S : h[a] <= high

\* A sum of numbers between two bounds lies between as many times those bounds.
LEMMA SumBounds ==
    ASSUME NEW S, NEW h, Numbers(h, S), NEW low \in Int, NEW high \in Int
    PROVE  /\ AtLeast(h, S, low) => Cardinality(S) * low <= SumFunctionOnSet(h, S)
           /\ AtMost(h, S, high) => SumFunctionOnSet(h, S) <= Cardinality(S) * high
<1> DEFINE Sum(T) == SumFunctionOnSet(h, T)
           Good == {n \in Nat : \A T \in SUBSET S :
                       Cardinality(T) = n =>
                          /\ AtLeast(h, S, low) => n * low <= Sum(T)
                          /\ AtMost(h, S, high) => Sum(T) <= n * high}
<1>1. ASSUME NEW T \in SUBSET S
      PROVE  /\ Sum(T) \in Int
             /\ T = {} => Sum(T) = 0
             /\ T # {} => Sum(T) = h[Pick(T)] + Sum(T \ {Pick(T)})
  <2>1. Numbers(h, T)
    BY FS_Subset DEF Numbers
  <2>2. QED
    BY <2>1, SumRecursion DEF SumIs
<1> HIDE DEF Sum
<1>2. ASSUME NEW T \in SUBSET S
      PROVE  /\ Cardinality(T) \in Nat
             /\ Cardinality(T) = 0 <=> T = {}
             /\ T # {} => /\ Pick(T) \in S
                          /\ T \ {Pick(T)} \in SUBSET S
                          /\ Cardinality(T \ {Pick(T)}) = Cardinality(T) - 1
  BY Picked DEF Numbers
<1>3. 0 \in Good
  <2>1. ASSUME NEW T \in SUBSET S, Cardinality(T) = 0 PROVE Sum(T) = 0
    BY <1>1, <1>2, <2>1
  <2>2. 0 * low = 0 /\ 0 * high = 0
    OBVIOUS
  <2>3. QED
    BY <2>1, <2>2
<1>4. ASSUME NEW n \in Nat, n \in Good
      PROVE  n + 1 \in Good
  <2>1. SUFFICES ASSUME NEW T \in SUBSET S, Cardinality(T) = n + 1
                 PROVE  /\ AtLeast(h, S, low) => (n + 1) * low <= Sum(T)
                        /\ AtMost(h, S, high) => Sum(T) <= (n + 1) * high
    OBVIOUS
  <2> DEFINE R == T \ {Pick(T)}
             x == h[Pick(T)]
             s == Sum(R)
             l == n * low
             u == n * high
  <2>2. T # {} /\ R \in SUBSET S /\ Cardinality(R) = n /\ Pick(T) \in S
    BY <1>2, <2>1
  <2>3. Sum(T) = x + s
    BY <1>1, <2>2
  <2>4. /\ x \in Int
        /\ AtLeast(h, S, low) => low <= x
        /\ AtMost(h, S, high) => x <= high
    BY <2>2 DEF Numbers, AtLeast, AtMost
  <2> HIDE DEF R
  <2>5. /\ s \in Int
        /\ AtLeast(h, S, low) => l <= s
        /\ AtMost(h, S, high) => s <= u
    BY <1>1, <1>4, <2>2
  <2>6. (n + 1) * low = l + low /\ (n + 1) * high = u + high /\ l \in Int /\ u \in Int
    OBVIOUS
  <2> HIDE DEF x, s, l, u
  <2>7. QED
    BY <2>3, <2>4, <2>5, <2>6
<1>5. \A n \in Nat : n \in Good
  <2> HIDE DEF Good
  <2>1. QED
    BY <1>3, <1>4, SetInduction
<1>6. QED
  BY <1>2, <1>5 DEF Sum

IsMean(h, S, q) == \E a, b \in S : h[a] <= q /\ q <= h[b]

\* The quotient of a sum and the number of its numbers lies between two of them.
LEMMA MeanLies ==
    ASSUME NEW S, NEW h, Numbers(h, S), S # {}
    PROVE  IsMean(h, S, SumFunctionOnSet(h, S) \div Cardinality(S))
<1> DEFINE s == SumFunctionOnSet(h, S)
           n == Cardinality(S)
           q == s \div n
<1>1. s \in Int /\ n \in Nat /\ n > 0
  <2>1. s \in Int
    BY SumRecursion DEF SumIs
  <2>2. n \in Nat /\ n # 0
    BY Picked DEF Numbers
  <2>3. QED
    BY <2>1, <2>2
<1>2. \A a \in S : h[a] \in Int
  BY DEF Numbers
<1>3. q \in Int /\ n * q <= s /\ s < n * (q + 1)
  <2> HIDE DEF s, n
  <2>1. s = n * q + (s % n) /\ s % n \in 0 .. n - 1 /\ q \in Int
    BY <1>1
  <2>2. n * (q + 1) = n * q + n /\ n * q \in Int
    BY <1>1, <2>1
  <2> HIDE DEF q
  <2>3. QED
    BY <1>1, <2>1, <2>2
<1> HIDE DEF q
<1>4. \E b \in S : q <= h[b]
  <2>1. SUFFICES ASSUME \A b \in S : h[b] < q
                 PROVE  FALSE
    BY <1>2, <1>3
  <2>2. AtMost(h, S, q - 1)
    BY <1>2, <1>3, <2>1 DEF AtMost
  <2>3. s <= n * (q - 1)
    BY <1>3, <2>2, SumBounds
  <2> HIDE DEF s, n
  <2>4. n * (q - 1) = n * q - n /\ n * q \in Int
    BY <1>1, <1>3
  <2>5. QED
    BY <1>1, <1>3, <2>3, <2>4
<1>5. \E a \in S : h[a] <= q
  <2>1. SUFFICES ASSUME \A a \in S : q < h[a]
                 PROVE  FALSE
    BY <1>2, <1>3
  <2>2. AtLeast(h, S, q + 1)
    BY <1>2, <1>3, <2>1 DEF AtLeast
  <2>3. n * (q + 1) <= s
    BY <1>3, <2>2, SumBounds
  <2> HIDE DEF s, n
  <2>4. n * (q + 1) \in Int
    BY <1>1, <1>3
  <2>5. QED
    BY <1>1, <1>3, <2>3, <2>4
<1>6. QED
  BY <1>4, <1>5 DEF IsMean, q

\* A number has one quotient and one remainder.
LEMMA Division ==
    ASSUME NEW m \in Nat, m > 0, NEW q \in Int, NEW r \in 0 .. m - 1
    PROVE  /\ (m * q + r) \div m = q
           /\ (m * q + r) % m = r
<1> DEFINE y == m * q + r
           p == y \div m
           u == y % m
<1>1. y \in Int /\ p \in Int /\ u \in 0 .. m - 1 /\ y = m * p + u
  BY SMT
<1>2. m * q + r = m * p + u
  BY <1>1
<1> HIDE DEF p, u
<1>3. ~(p + 1 <= q)
  <2>1. SUFFICES ASSUME p + 1 <= q PROVE FALSE
    OBVIOUS
  <2>2. m * (p + 1) <= m * q /\ m * (p + 1) = m * p + m /\ m * p \in Int /\ m * q \in Int
    BY <1>1, <2>1
  <2>3. QED
    BY <1>1, <1>2, <2>2
<1>4. ~(q + 1 <= p)
  <2>1. SUFFICES ASSUME q + 1 <= p PROVE FALSE
    OBVIOUS
  <2>2. m * (q + 1) <= m * p /\ m * (q + 1) = m * q + m /\ m * p \in Int /\ m * q \in Int
    BY <1>1, <2>1
  <2>3. QED
    BY <1>1, <1>2, <2>2
<1>5. p = q
  BY <1>1, <1>3, <1>4
<1>6. u = r
  BY <1>1, <1>2, <1>5
<1>7. QED
  BY <1>5, <1>6 DEF p, u

\* A number that the type can hold is not changed by the conversion.
LEMMA UnsignedHolds ==
    ASSUME NEW m \in Nat, NEW x \in 0 .. m - 1
    PROVE  Unsigned(x, m) = x
BY DEF Unsigned

\* The same for a signed type of 2 * k values.
LEMMA SignedHolds ==
    ASSUME NEW m \in Nat, NEW k \in Nat, m = 2 * k, m > 0, NEW x \in -k .. k - 1
    PROVE  Signed(x, m) = x
<1>1. m \div 2 = k
  OBVIOUS
<1>2. CASE x >= 0
  <2>1. x % m = x
    BY <1>2
  <2>2. QED
    BY <1>1, <1>2, <2>1 DEF Signed
<1>3. CASE x < 0
  <2>1. x % m = x + m
    BY <1>3
  <2>2. QED
    BY <1>1, <1>3, <2>1 DEF Signed
<1>4. QED
  BY <1>2, <1>3

\* Whole turns of the type do not matter.
LEMMA SignedTurns ==
    ASSUME NEW m \in Nat, m > 0, NEW x \in Int, NEW k \in Int
    PROVE  Signed(m * k + x, m) = Signed(x, m)
<1> DEFINE q == x \div m
           r == x % m
<1>1. q \in Int /\ r \in 0 .. m - 1 /\ x = m * q + r
  BY SMT
<1> HIDE DEF q, r
<1>2. m * k + x = m * (k + q) + r
  BY <1>1
<1>3. (m * k + x) % m = r
  BY <1>1, <1>2, Division
<1>4. QED
  BY <1>3 DEF Signed, r

\* The sum when one number is replaced by v, or v is a number more.
LEMMA SumUpdated ==
    ASSUME NEW D, NEW h, DOMAIN h = D, Numbers(h, D), NEW a, NEW v \in Int
    PROVE  LET k == [b \in D \cup {a} |-> IF b = a THEN v ELSE h[b]] IN
           /\ SumFunction(h) \in Int
           /\ SumFunction(k) = SumFunction(h) - (IF a \in D THEN h[a] ELSE 0) + v
<1> DEFINE E == D \cup {a}
           k == [b \in E |-> IF b = a THEN v ELSE h[b]]
           R == D \ {a}
<1>1. IsFiniteSet(D) /\ \A b \in D : h[b] \in Int
  BY DEF Numbers
<1>2. IsFiniteSet(E) /\ IsFiniteSet(R)
  BY <1>1, FS_AddElement, FS_RemoveElement
<1>3. \A b \in E : k[b] \in Int
  BY <1>1
<1>4. k[a] = v /\ E \ {a} = R /\ \A b \in R : k[b] = h[b]
  OBVIOUS
<1>5. DOMAIN k = E /\ a \in E
  OBVIOUS
<1> HIDE DEF k, E
<1>6. Numbers(k, E) /\ Numbers(h, R)
  BY <1>1, <1>2, <1>3 DEF Numbers
<1>7. /\ SumFunctionOnSet(k, E) = v + SumFunctionOnSet(k, R)
      /\ SumFunctionOnSet(k, R) \in Int
  BY <1>4, <1>5, <1>6, SumWithout DEF SumSplits
<1>8. SumFunctionOnSet(k, R) = SumFunctionOnSet(h, R)
  BY <1>4, <1>6, SumSame
<1>9. SumFunctionOnSet(h, D) = SumFunctionOnSet(h, R) + (IF a \in D THEN h[a] ELSE 0)
  <2>1. CASE a \in D
    <3>1. SumSplits(h, D, a)
      BY <2>1, SumWithout
    <3>2. h[a] \in Int
      BY <1>1, <2>1
    <3>3. QED
      BY <2>1, <3>1, <3>2 DEF SumSplits
  <2>2. CASE a \notin D
    <3>1. R = D
      BY <2>2
    <3>2. SumFunctionOnSet(h, R) \in Int
      BY <1>7, <1>8
    <3> HIDE DEF R
    <3>3. QED
      BY <2>2, <3>1, <3>2
  <2>3. QED
    BY <2>1, <2>2
<1>10. (IF a \in D THEN h[a] ELSE 0) \in Int
  BY <1>1
<1>11. SumFunction(h) = SumFunctionOnSet(h, D) /\ SumFunction(k) = SumFunctionOnSet(k, E)
  BY <1>5 DEF SumFunction
<1>12. /\ SumFunction(h) \in Int
       /\ SumFunction(k) = SumFunction(h) - (IF a \in D THEN h[a] ELSE 0) + v
  BY <1>7, <1>8, <1>9, <1>10, <1>11
<1>13. QED
  BY <1>12 DEF k, E

-----------------------------------------------------------------------------
(* The invariant.                                                          *)

Description == [temperature : int8, illumination : uint8]

Table(s) == DOMAIN s \in SUBSET Addr /\ s \in [DOMAIN s -> Description]

\* The table holds what the types can hold; the sums are those of the table, the
\* averages those of the sums, and the last message tells the averages.
IInv ==
    /\ Table(slaves)
    /\ SumsExact
    /\ avg = master_calculate_averages(sum, Cardinality(DOMAIN slaves))
    /\ ToldIsCurrent

Half(x) == x \div 2

\* The assumptions on the sizes, in the form in which they are used.
LEMMA Sizes ==
    /\ Byte \in Nat /\ Half(Byte) \in Nat /\ Byte = 2 * Half(Byte) /\ Byte > 0
    /\ Word \in Nat /\ Half(Word) \in Nat /\ Word = 2 * Half(Word)
    /\ Size \in Nat /\ Word <= Size /\ Word > 0
<1>1. /\ Byte \in Nat /\ Word \in Nat /\ Size \in Nat
      /\ Byte % 2 = 0 /\ Byte > 0 /\ Word % Byte = 0 /\ Size % Word = 0 /\ Size > 0
  BY AveragesAssumption
<1>2. Half(Byte) \in Nat /\ Byte = 2 * Half(Byte)
  BY <1>1 DEF Half
<1>3. Word > 0
  BY AveragesAssumption
<1>4. Word <= Size
  BY <1>1, <1>3
<1>5. Half(Word) \in Nat /\ Word = 2 * Half(Word)
  <2> DEFINE j == Word \div Byte
             h == Half(Byte)
  <2>1. j \in Nat /\ Word = Byte * j
    BY <1>1
  <2>2. h \in Nat /\ Byte = 2 * h
    BY <1>2
  <2> HIDE DEF j, h
  <2>3. Word = 2 * (h * j) + 0 /\ h * j \in Nat
    BY <2>1, <2>2
  <2>4. Word \div 2 = h * j
    BY <2>3
  <2>5. QED
    BY <2>3, <2>4 DEF Half
<1>6. QED
  BY <1>1, <1>2, <1>3, <1>4, <1>5

\* The sums of any table fit into their types.
LEMMA SumFits ==
    ASSUME NEW D \in SUBSET Addr, D # {}, NEW h, Numbers(h, D)
    PROVE  /\ AtLeast(h, D, -Half(Byte)) /\ AtMost(h, D, Half(Byte) - 1)
                 => SumFunctionOnSet(h, D) \in -Half(Word) .. Half(Word) - 1
           /\ AtLeast(h, D, 0) /\ AtMost(h, D, Byte - 1)
                 => SumFunctionOnSet(h, D) \in 0 .. Word - 1
<1> DEFINE n == Cardinality(D)
           N == Cardinality(Addr)
           b == Half(Byte)
           w == Half(Word)
           s == SumFunctionOnSet(h, D)
<1>1. n \in Nat /\ n # 0 /\ N \in Nat /\ n <= N
  <2>1. IsFiniteSet(Addr)
    BY AveragesAssumption
  <2>2. n \in Nat /\ n # 0
    BY <2>1, Picked
  <2>3. N \in Nat
    BY <2>1, FS_CardinalityType
  <2>4. n <= N
    BY <2>1, FS_Subset
  <2>5. QED
    BY <2>2, <2>3, <2>4
<1>2. /\ b \in Nat /\ w \in Nat /\ Byte = 2 * b /\ Word = 2 * w
      /\ Byte \in Nat /\ Word \in Nat
  BY Sizes
<1>3. N * Byte <= Word
  BY SumsFit
<1>4. s \in Int
  BY SumRecursion DEF SumIs
<1>5. /\ AtLeast(h, D, -b) => n * (-b) <= s
      /\ AtMost(h, D, b - 1) => s <= n * (b - 1)
  BY <1>2, SumBounds
<1>6. /\ AtLeast(h, D, 0) => n * 0 <= s
      /\ AtMost(h, D, Byte - 1) => s <= n * (Byte - 1)
  BY <1>2, SumBounds
<1> HIDE DEF n, N, b, w, s
<1>7. /\ n * (-b) = -(n * b) /\ n * (b - 1) = n * b - n /\ n * b \in Nat
      /\ n * (Byte - 1) = n * Byte - n /\ n * Byte \in Nat /\ n * 0 = 0
  BY <1>1, <1>2
<1>8. n * b <= N * b /\ N * Byte = 2 * (N * b) /\ n * Byte = 2 * (n * b) /\ N * b \in Nat
  BY <1>1, <1>2
<1>9. n * b <= w /\ n * Byte <= Word
  BY <1>2, <1>3, <1>7, <1>8
<1>10. AtLeast(h, D, -b) /\ AtMost(h, D, b - 1) => s \in -w .. w - 1
  BY <1>1, <1>2, <1>4, <1>5, <1>7, <1>9
<1>11. AtLeast(h, D, 0) /\ AtMost(h, D, Byte - 1) => s \in 0 .. Word - 1
  BY <1>1, <1>2, <1>4, <1>6, <1>7, <1>9
<1>12. QED
  BY <1>10, <1>11 DEF b, w, s

\* The columns of a table.
Temps(s) == [a \in DOMAIN s |-> s[a].temperature]
Lights(s) == [a \in DOMAIN s |-> s[a].illumination]

ColumnsFit(s) ==
    /\ IsFiniteSet(DOMAIN s)
    /\ DOMAIN Temps(s) = DOMAIN s
    /\ Numbers(Temps(s), DOMAIN s)
    /\ AtLeast(Temps(s), DOMAIN s, -Half(Byte))
    /\ AtMost(Temps(s), DOMAIN s, Half(Byte) - 1)
    /\ DOMAIN Lights(s) = DOMAIN s
    /\ Numbers(Lights(s), DOMAIN s)
    /\ AtLeast(Lights(s), DOMAIN s, 0)
    /\ AtMost(Lights(s), DOMAIN s, Byte - 1)

\* The columns of a table are numbers that their types can hold.
LEMMA Columns ==
    ASSUME NEW s, Table(s)
    PROVE  ColumnsFit(s)
<1>1. IsFiniteSet(DOMAIN s)
  BY AveragesAssumption, FS_Subset DEF Table
<1>2. int8 = -Half(Byte) .. Half(Byte) - 1 /\ Half(Byte) \in Nat /\ Byte \in Nat
  BY Sizes DEF int8, Half
<1>3. ASSUME NEW a \in DOMAIN s
      PROVE  /\ Temps(s)[a] \in -Half(Byte) .. Half(Byte) - 1
             /\ Lights(s)[a] \in 0 .. Byte - 1
  BY <1>2 DEF Temps, Lights, Table, Description, uint8
<1>4. DOMAIN Temps(s) = DOMAIN s /\ DOMAIN Lights(s) = DOMAIN s
  BY DEF Temps, Lights
<1>5. QED
  BY <1>1, <1>2, <1>3, <1>4 DEF ColumnsFit, Numbers, AtLeast, AtMost

\* The table s after a response of the slave at a.
Entered(s, a, sd) == [b \in DOMAIN s \cup {a} |-> IF b = a THEN sd ELSE s[b]]
Before(s, a) == IF a \in DOMAIN s THEN s[a] ELSE Zero

\* The sums of the new table are the old ones, without what the slave said before
\* and with what it says now; they fit into their types.
LEMMA Entering ==
    ASSUME NEW s, Table(s), NEW a \in Addr, NEW sd \in Description
    PROVE  /\ Table(Entered(s, a, sd))
           /\ SumFunction(Temps(Entered(s, a, sd))) =
                 SumFunction(Temps(s)) - Before(s, a).temperature + sd.temperature
           /\ SumFunction(Lights(Entered(s, a, sd))) =
                 SumFunction(Lights(s)) - Before(s, a).illumination + sd.illumination
           /\ SumFunction(Temps(Entered(s, a, sd))) \in -Half(Word) .. Half(Word) - 1
           /\ SumFunction(Lights(Entered(s, a, sd))) \in 0 .. Word - 1
<1> DEFINE D == DOMAIN s
           e == Entered(s, a, sd)
           x == sd.temperature
           y == sd.illumination
           T == Temps(s)
           L == Lights(s)
<1>1. ColumnsFit(s)
  BY Columns
<1>2. x \in Int /\ y \in Int
  BY Sizes DEF Description, int8, uint8
<1>3. Table(e) /\ DOMAIN e = D \cup {a}
  BY DEF Table, Entered
<1>4. Temps(e) = [b \in D \cup {a} |-> IF b = a THEN x ELSE T[b]]
  BY DEF Temps, Entered
<1>5. Lights(e) = [b \in D \cup {a} |-> IF b = a THEN y ELSE L[b]]
  BY DEF Lights, Entered
<1>6. /\ Before(s, a).temperature = IF a \in D THEN T[a] ELSE 0
      /\ Before(s, a).illumination = IF a \in D THEN L[a] ELSE 0
  BY DEF Before, Temps, Lights, Zero
<1> HIDE DEF x, y, T, L, e
<1>7. SumFunction(Temps(e)) = SumFunction(T) - (IF a \in D THEN T[a] ELSE 0) + x
  BY <1>1, <1>2, <1>4, SumUpdated DEF ColumnsFit, T
<1>8. SumFunction(Lights(e)) = SumFunction(L) - (IF a \in D THEN L[a] ELSE 0) + y
  BY <1>1, <1>2, <1>5, SumUpdated DEF ColumnsFit, L
<1>9. /\ SumFunction(Temps(e)) \in -Half(Word) .. Half(Word) - 1
      /\ SumFunction(Lights(e)) \in 0 .. Word - 1
  <2>1. ColumnsFit(e)
    BY <1>3, Columns
  <2>2. DOMAIN e \in SUBSET Addr /\ DOMAIN e # {}
    BY <1>3 DEF Table
  <2>3. SumFunctionOnSet(Temps(e), DOMAIN e) \in -Half(Word) .. Half(Word) - 1
    BY <2>1, <2>2, SumFits DEF ColumnsFit
  <2>4. SumFunctionOnSet(Lights(e), DOMAIN e) \in 0 .. Word - 1
    BY <2>1, <2>2, SumFits DEF ColumnsFit
  <2>5. QED
    BY <2>1, <2>3, <2>4 DEF ColumnsFit, SumFunction
<1>10. QED
  BY <1>3, <1>6, <1>7, <1>8, <1>9 DEF e, x, y, T, L

\* The division of the temperatures: the quotient is exact when the sum is not
\* negative, and also when the number of slaves divides Size.
LEMMA Quotient ==
    ASSUME NEW n \in 1 .. Cardinality(Addr), NEW t \in -Half(Word) .. Half(Word) - 1,
           t \div n \in -Half(Byte) .. Half(Byte) - 1,
           t >= 0 \/ Size % n = 0
    PROVE  Signed(Unsigned(t, Size) \div n, Byte) = t \div n
<1> DEFINE q == t \div n
           r == t % n
<1>1. Cardinality(Addr) \in Nat /\ n \in Nat /\ n > 0
  BY AveragesAssumption, FS_CardinalityType
<1>2. /\ Half(Word) \in Nat /\ Word = 2 * Half(Word) /\ Word \in Nat /\ Word > 0
      /\ Size \in Nat /\ Word <= Size
      /\ Half(Byte) \in Nat /\ Byte = 2 * Half(Byte) /\ Byte \in Nat /\ Byte > 0
  BY Sizes
<1>3. t \in Int /\ -Size <= t /\ t < Size
  BY <1>2
<1>4. q \in Int /\ r \in 0 .. n - 1 /\ t = n * q + r
  BY <1>1, <1>3
<1>5. Signed(q, Byte) = q
  BY <1>2, SignedHolds
<1>6. CASE t >= 0
  <2>1. Unsigned(t, Size) = t
    BY <1>2, <1>3, <1>6, UnsignedHolds
  <2>2. QED
    BY <1>5, <2>1
<1>7. CASE t < 0
  <2> DEFINE m == n * Byte
             j == Size \div m
  <2>1. m \in Nat /\ m > 0
    BY <1>1, <1>2
  <2>2. Size % m = 0
    BY <1>1, <1>2, <1>7, AveragesAssumption
  <2> HIDE DEF m
  <2>3. j \in Int /\ Size = m * j
    BY <1>2, <2>1, <2>2
  <2> HIDE DEF j, q, r
  <2>4. Size = n * (Byte * j)
    BY <1>1, <1>2, <2>3 DEF m
  <2> DEFINE k == Byte * j
  <2>5. k \in Int
    BY <1>2, <2>3
  <2>6. Unsigned(t, Size) = t + Size
    BY <1>2, <1>3, <1>7 DEF Unsigned
  <2> HIDE DEF k
  <2>7. t + Size = n * (k + q) + r
    <3>1. Size = n * k
      BY <2>4 DEF k
    <3>2. n * (k + q) = n * k + n * q /\ n * k \in Int /\ n * q \in Int
      BY <1>1, <1>4, <2>5
    <3>3. QED
      BY <1>1, <1>4, <3>1, <3>2
  <2>8. Unsigned(t, Size) \div n = k + q
    BY <1>1, <1>4, <2>5, <2>6, <2>7, Division
  <2>9. Signed(k + q, Byte) = Signed(q, Byte)
    BY <1>2, <1>4, <2>3, SignedTurns DEF k
  <2>10. QED
    BY <1>5, <2>8, <2>9 DEF q
<1>8. QED
  BY <1>3, <1>6, <1>7

\* A mean of bounded numbers is bounded alike.
LEMMA MeanBounds ==
    ASSUME NEW S, NEW h, Numbers(h, S), NEW low \in Int, NEW high \in Int, NEW q \in Int,
           AtLeast(h, S, low), AtMost(h, S, high), IsMean(h, S, q)
    PROVE  q \in low .. high
<1>1. PICK a, b \in S : h[a] <= q /\ q <= h[b]
  BY DEF IsMean
<1>2. h[a] \in Int /\ h[b] \in Int /\ low <= h[a] /\ h[b] <= high
  BY DEF Numbers, AtLeast, AtMost
<1>3. QED
  BY <1>1, <1>2

\* The averages computed from the sums of a table are means of its columns.
LEMMA Means ==
    ASSUME NEW s, Table(s), DOMAIN s # {}, NEW r,
           r.temperature = SumFunction(Temps(s)),
           r.illumination = SumFunction(Lights(s)),
           NEW av, av = master_calculate_averages(r, Cardinality(DOMAIN s))
    PROVE  /\ IsMean(Lights(s), DOMAIN s, av.illumination)
           /\ r.temperature >= 0 \/ Size % Cardinality(DOMAIN s) = 0 =>
                 IsMean(Temps(s), DOMAIN s, av.temperature)
<1> DEFINE D == DOMAIN s
           n == Cardinality(D)
           t == r.temperature
           l == r.illumination
<1>1. ColumnsFit(s)
  BY Columns
<1>2. n \in Nat /\ n # 0 /\ n \in 1 .. Cardinality(Addr) /\ D \in SUBSET Addr
  <2>1. IsFiniteSet(Addr) /\ D \in SUBSET Addr
    BY AveragesAssumption DEF Table
  <2>2. n \in Nat /\ n # 0
    BY <2>1, Picked
  <2>3. n <= Cardinality(Addr)
    BY <2>1, FS_Subset
  <2>4. Cardinality(Addr) \in Nat
    BY <2>1, FS_CardinalityType
  <2>5. QED
    BY <2>1, <2>2, <2>3, <2>4
<1>3. t = SumFunctionOnSet(Temps(s), D) /\ l = SumFunctionOnSet(Lights(s), D)
  BY <1>1 DEF ColumnsFit, SumFunction
<1>4. t \in -Half(Word) .. Half(Word) - 1 /\ l \in 0 .. Word - 1
  BY <1>1, <1>2, <1>3, SumFits DEF ColumnsFit
<1>5. IsMean(Temps(s), D, t \div n) /\ IsMean(Lights(s), D, l \div n)
  BY <1>1, <1>3, MeanLies DEF ColumnsFit
<1>6. /\ av.temperature = Signed(Unsigned(t, Size) \div n, Byte)
      /\ av.illumination = Unsigned(l \div n, Byte)
  BY <1>2 DEF master_calculate_averages
<1>7. t \in Int /\ l \in Int /\ Half(Byte) \in Nat /\ Byte \in Nat
  BY <1>4, Sizes
<1> HIDE DEF n, t, l, D
<1>8. t \div n \in Int /\ l \div n \in Int
  BY <1>2, <1>7
<1>9. t \div n \in -Half(Byte) .. Half(Byte) - 1
  BY <1>1, <1>5, <1>7, <1>8, MeanBounds DEF ColumnsFit, D
<1>10. l \div n \in 0 .. Byte - 1
  BY <1>1, <1>5, <1>7, <1>8, MeanBounds DEF ColumnsFit, D
<1>11. av.illumination = l \div n
  BY <1>6, <1>7, <1>10, UnsignedHolds
<1>12. t >= 0 \/ Size % n = 0 => av.temperature = t \div n
  BY <1>2, <1>4, <1>6, <1>9, Quotient
<1>13. QED
  BY <1>5, <1>11, <1>12 DEF n, t, D

\* An empty table has no sums and no averages.
LEMMA EmptyTable ==
    /\ Table(<< >>)
    /\ DOMAIN << >> = {}
    /\ SumFunction(Temps(<< >>)) = 0
    /\ SumFunction(Lights(<< >>)) = 0
    /\ \A r : master_calculate_averages(r, Cardinality(DOMAIN << >>)) = Zero
<1>1. DOMAIN << >> = {} /\ << >> \in [{} -> Description]
  OBVIOUS
<1>2. Table(<< >>)
  BY <1>1 DEF Table
<1>3. DOMAIN Temps(<< >>) = {} /\ DOMAIN Lights(<< >>) = {}
  BY <1>1 DEF Temps, Lights
<1>4. Numbers(Temps(<< >>), {}) /\ Numbers(Lights(<< >>), {})
  BY FS_EmptySet DEF Numbers
<1>5. SumFunctionOnSet(Temps(<< >>), {}) = 0 /\ SumFunctionOnSet(Lights(<< >>), {}) = 0
  BY <1>4, SumRecursion DEF SumIs
<1>6. SumFunction(Temps(<< >>)) = 0 /\ SumFunction(Lights(<< >>)) = 0
  BY <1>3, <1>5 DEF SumFunction
<1>7. \A r : master_calculate_averages(r, Cardinality(DOMAIN << >>)) = Zero
  BY <1>1, FS_EmptySet DEF master_calculate_averages
<1>8. QED
  BY <1>1, <1>2, <1>6, <1>7

\* A master begins with an empty table (master_init_).
LEMMA InitIInv == Init => IInv
<1>1. SUFFICES ASSUME Init PROVE IInv
  OBVIOUS
<1>2. slaves = << >> /\ sum = Zero /\ avg = Zero /\ told = {}
  BY <1>1 DEF Init
<1>3. Temperatures = Temps(slaves) /\ Illuminations = Lights(slaves)
  BY DEF Temperatures, Illuminations, Temps, Lights
<1>4. SumsExact
  BY <1>2, <1>3, EmptyTable DEF SumsExact, Zero
<1>5. ToldIsCurrent
  BY <1>2 DEF ToldIsCurrent
<1>6. avg = master_calculate_averages(sum, Cardinality(DOMAIN slaves))
  BY <1>2, EmptyTable
<1>7. QED
  BY <1>2, <1>4, <1>5, <1>6, EmptyTable DEF IInv

\* A response keeps the invariant (master_act): its sums do not wrap, so they are
\* exact, and an average that changes is told.
LEMMA ResponseIInv ==
    ASSUME IInv, NEW a \in Addr, NEW sd \in Description, master_act_response(a, sd)
    PROVE  IInv'
<1> DEFINE b == Before(slaves, a)
           t == SumFunction(Temps(slaves'))
           l == SumFunction(Lights(slaves'))
<1>1. /\ slaves' = Entered(slaves, a, sd)
      /\ sum' = [temperature  |-> Signed(sum.temperature - b.temperature + sd.temperature, Word),
                 illumination |-> Unsigned(sum.illumination - b.illumination + sd.illumination, Word)]
  BY DEF master_act_response, master_update_slave, Entered, Before
<1>2. Table(slaves) /\ sum.temperature = SumFunction(Temps(slaves))
      /\ sum.illumination = SumFunction(Lights(slaves))
  BY DEF IInv, SumsExact, Temperatures, Illuminations, Temps, Lights
<1>3. Table(slaves')
      /\ t = sum.temperature - b.temperature + sd.temperature
      /\ l = sum.illumination - b.illumination + sd.illumination
      /\ t \in -Half(Word) .. Half(Word) - 1
      /\ l \in 0 .. Word - 1
  BY <1>1, <1>2, Entering
<1>4. Temperatures' = Temps(slaves') /\ Illuminations' = Lights(slaves')
  BY DEF Temperatures, Illuminations, Temps, Lights
<1>5. SumsExact'
  <2> HIDE DEF b, t, l
  <2>1. sum'.temperature = Signed(t, Word) /\ sum'.illumination = Unsigned(l, Word)
    BY <1>1, <1>3
  <2>2. Signed(t, Word) = t
    BY <1>3, Sizes, SignedHolds
  <2>3. Unsigned(l, Word) = l
    BY <1>3, Sizes, UnsignedHolds
  <2>4. QED
    BY <1>4, <2>1, <2>2, <2>3 DEF SumsExact, t, l
<1>6. avg' = master_calculate_averages(sum', Cardinality(DOMAIN slaves'))
  BY DEF master_act_response
<1>7. ToldIsCurrent'
  <2>1. CASE avg' = avg
    BY <2>1 DEF master_act_response, IInv, ToldIsCurrent
  <2>2. CASE avg' # avg
    BY <2>2 DEF master_act_response, send_info_message, master_calculate_brightenss,
                Unsigned, ToldIsCurrent
  <2>3. QED
    BY <2>1, <2>2
<1>8. QED
  BY <1>3, <1>5, <1>6, <1>7 DEF IInv

\* So does every step.
LEMMA NextIInv == IInv /\ [Next]_vars => IInv'
<1>1. SUFFICES ASSUME IInv, [Next]_vars PROVE IInv'
  OBVIOUS
<1>2. ASSUME NEW a \in Addr, NEW t \in int8, NEW il \in uint8, NEW beyond \in uint8,
             Response(a, t, il, beyond)
      PROVE  IInv'
  <2> DEFINE sd == [temperature |-> Signed(il, Byte), illumination |-> beyond]
  <2>1. Signed(il, Byte) \in int8
    BY Sizes DEF Signed, int8, uint8, Half
  <2>2. sd \in Description
    BY <2>1 DEF Description
  <2>3. master_act_response(a, sd)
    BY <1>2 DEF Response
  <2> HIDE DEF sd
  <2>4. QED
    BY <1>1, <2>2, <2>3, ResponseIInv
<1>3. CASE Restart
  <2>1. slaves' = << >> /\ sum' = Zero /\ avg' = Zero /\ told' = {}
    BY <1>3 DEF Restart
  <2>2. Temperatures' = Temps(slaves') /\ Illuminations' = Lights(slaves')
    BY DEF Temperatures, Illuminations, Temps, Lights
  <2>3. SumsExact'
    BY <2>1, <2>2, EmptyTable DEF SumsExact, Zero
  <2>4. ToldIsCurrent'
    BY <2>1 DEF ToldIsCurrent
  <2>5. avg' = master_calculate_averages(sum', Cardinality(DOMAIN slaves'))
    BY <2>1, EmptyTable
  <2>6. QED
    BY <2>1, <2>3, <2>4, <2>5, EmptyTable DEF IInv
<1>4. CASE UNCHANGED vars
  BY <1>1, <1>4 DEF IInv, vars, SumsExact, ToldIsCurrent, Temperatures, Illuminations
<1>5. QED
  BY <1>1, <1>2, <1>3, <1>4 DEF Next

\* The averages of the invariant are means.
LEMMA MeansInvariant == IInv => AveragesAreMeans
<1>1. SUFFICES ASSUME IInv, slaves # << >>
               PROVE  /\ Lies(avg.illumination, Range(Illuminations))
                      /\ sum.temperature >= 0 \/ Size % Cardinality(DOMAIN slaves) = 0 =>
                            Lies(avg.temperature, Range(Temperatures))
  BY DEF AveragesAreMeans
<1>2. Temperatures = Temps(slaves) /\ Illuminations = Lights(slaves)
  BY DEF Temperatures, Illuminations, Temps, Lights
<1>3. /\ Table(slaves)
      /\ sum.temperature = SumFunction(Temps(slaves))
      /\ sum.illumination = SumFunction(Lights(slaves))
      /\ avg = master_calculate_averages(sum, Cardinality(DOMAIN slaves))
  BY <1>1, <1>2 DEF IInv, SumsExact
<1>4. DOMAIN slaves # {}
  BY <1>1, <1>3 DEF Table
<1>5. /\ IsMean(Lights(slaves), DOMAIN slaves, avg.illumination)
      /\ sum.temperature >= 0 \/ Size % Cardinality(DOMAIN slaves) = 0 =>
            IsMean(Temps(slaves), DOMAIN slaves, avg.temperature)
  BY <1>3, <1>4, Means
<1>6. DOMAIN Temps(slaves) = DOMAIN slaves /\ DOMAIN Lights(slaves) = DOMAIN slaves
  BY DEF Temps, Lights
<1>7. QED
  BY <1>2, <1>5, <1>6 DEF IsMean, Lies, Range

\* The invariant is one.
THEOREM Invariance == Spec => []IInv
BY InitIInv, NextIInv, PTL DEF Spec

\* Whatever slaves say, and however often, the running sums are the sums over the
\* table (master_update_slave).
THEOREM SumsStayExact == Spec => []SumsExact
<1>1. IInv => SumsExact
  BY DEF IInv
<1>2. QED
  BY <1>1, Invariance, PTL

\* No change of an average goes unannounced (master_act).
THEOREM ToldStaysCurrent == Spec => []ToldIsCurrent
<1>1. IInv => ToldIsCurrent
  BY DEF IInv
<1>2. QED
  BY <1>1, Invariance, PTL

\* The averages lie between values of the table, but for a negative sum of
\* temperatures whose divisor does not divide 2^64 (master_calculate_averages).
THEOREM AveragesStayMeans == Spec => []AveragesAreMeans
BY MeansInvariant, Invariance, PTL
=============================================================================
