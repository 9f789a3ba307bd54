------------------------- MODULE ParenthesesProofs -------------------------
(***************************************************************************)
(* Every line of every text gets the verdict the test expects, however     *)
(* read cuts the text into blocks.  The checker is shown to count what is  *)
(* open in a line, part by part, and the input to hand out the parts of    *)
(* the lines one after the other.                                          *)
(***************************************************************************)
EXTENDS Parentheses, FiniteSetTheorems, Foundations

\* Zenon is asked first; a leaf with arithmetic or sequences cites SMT.
USE Zenon
USE DEF Opening, Closing, Delim

-----------------------------------------------------------------------------
(* The checker.                                                            *)

Count(L, chr, n) == Cardinality({i \in 1 .. n : L[i] = chr})

LEMMA Counting ==
    ASSUME NEW L, NEW chr, NEW n \in Nat
    PROVE  /\ Count(L, chr, n) \in Nat
           /\ L[n + 1] = chr => Count(L, chr, n + 1) = Count(L, chr, n) + 1
           /\ L[n + 1] # chr => Count(L, chr, n + 1) = Count(L, chr, n)
<1> DEFINE S == {i \in 1 .. n : L[i] = chr}
           T == {i \in 1 .. n + 1 : L[i] = chr}
<1>1. IsFiniteSet(1 .. n)
  BY FS_Interval, SMT
<1>2. S \subseteq 1 .. n
  OBVIOUS
<1>3. IsFiniteSet(S)
  BY <1>1, <1>2, FS_Subset
<1>4. Cardinality(S) \in Nat
  BY <1>3, FS_CardinalityType
<1>5. L[n + 1] = chr => T = S \cup {n + 1} /\ n + 1 \notin S
  BY SMT
<1>6. L[n + 1] # chr => T = S
  BY SMT
<1>7. Count(L, chr, n) = Cardinality(S) /\ Count(L, chr, n + 1) = Cardinality(T)
  BY DEF Count
<1> HIDE DEF S, T
<1>8. L[n + 1] = chr => Cardinality(T) = Cardinality(S) + 1
  BY <1>3, <1>5, FS_AddElement
<1>9. QED
  BY <1>4, <1>6, <1>7, <1>8

\* A character changes what is open by one, or not at all.
LEMMA OpenedStep ==
    ASSUME NEW L, NEW n \in Nat
    PROVE  /\ Opened(L, n) \in Int
           /\ Opened(L, n + 1) = Opened(L, n) + IF L[n + 1] = "(" THEN 1 ELSE IF L[n + 1] = ")" THEN -1 ELSE 0
<1>1. /\ Count(L, "(", n) \in Nat
      /\ L[n + 1] = "(" => Count(L, "(", n + 1) = Count(L, "(", n) + 1
      /\ L[n + 1] # "(" => Count(L, "(", n + 1) = Count(L, "(", n)
  BY Counting
<1>2. /\ Count(L, ")", n) \in Nat
      /\ L[n + 1] = ")" => Count(L, ")", n + 1) = Count(L, ")", n) + 1
      /\ L[n + 1] # ")" => Count(L, ")", n + 1) = Count(L, ")", n)
  BY Counting
<1>3. /\ Opened(L, n) = Count(L, "(", n) - Count(L, ")", n)
      /\ Opened(L, n + 1) = Count(L, "(", n + 1) - Count(L, ")", n + 1)
  BY DEF Opened, Count
<1>4. QED
  BY <1>1, <1>2, <1>3, SMT

LEMMA NothingOpened ==
    ASSUME NEW L
    PROVE  Opened(L, 0) = 0
<1>1. \A chr : {i \in 1 .. 0 : L[i] = chr} = {}
  BY SMT
<1>2. QED
  BY <1>1, FS_EmptySet, SMT DEF Opened

CheckerType ==
    [state : {"wait_for_open", "wait_for_any"}, openIndex : Int, position : Int, valid : BOOLEAN]

\* The checker after the first n characters of the line L, and after the first
\* superfluous parenthesis.
CountsOpen(c, L, n) ==
    /\ c.valid = TRUE
    /\ \A i \in 1 .. n : Opened(L, i) >= 0
    /\ c.position = n
    /\ c.openIndex = Opened(L, n)
    /\ c.openIndex >= 0
    /\ c.state = IF Opened(L, n) = 0 THEN "wait_for_open" ELSE "wait_for_any"

HasFailed(c, L, n) ==
    /\ c.valid = FALSE
    /\ c.openIndex = 0
    /\ c.position \in 1 .. n
    /\ Opened(L, c.position) < 0
    /\ \A i \in 1 .. c.position - 1 : Opened(L, i) >= 0

CheckerIs(c, L, n) == c \in CheckerType /\ (CountsOpen(c, L, n) \/ HasFailed(c, L, n))

LEMMA NextIs ==
    ASSUME NEW c, NEW L, NEW n \in Nat, CheckerIs(c, L, n)
    PROVE  CheckerIs(validateNext(c, L[n + 1]), L, n + 1)
<1> DEFINE chr == L[n + 1]
           d == IF c.state = "wait_for_open" THEN validateWaitForOpen(c, chr) ELSE validateWaitForAny(c, chr)
           r == validateNext(c, chr)
<1> SUFFICES CheckerIs(r, L, n + 1)
  OBVIOUS
<1>1. c \in CheckerType
  BY DEF CheckerIs
<1>2. CASE HasFailed(c, L, n)
  <2>1. r = c
    BY <1>2 DEF validateNext, HasFailed
  <2>2. HasFailed(c, L, n + 1)
    BY <1>2, SMT DEF HasFailed
  <2>3. QED
    BY <1>1, <2>1, <2>2 DEF CheckerIs
<1>3. CASE CountsOpen(c, L, n)
  <2> DEFINE o == Opened(L, n)
             q == Opened(L, n + 1)
  <2>1. c.valid = TRUE /\ c.position = n /\ c.openIndex = o /\ o >= 0 /\ o \in Int
        /\ c.state = IF o = 0 THEN "wait_for_open" ELSE "wait_for_any"
    BY <1>3, OpenedStep DEF CountsOpen
  <2>2. q \in Int /\ q = o + IF chr = "(" THEN 1 ELSE IF chr = ")" THEN -1 ELSE 0
    BY OpenedStep, SMT
  <2>3. \A i \in 1 .. n : Opened(L, i) >= 0
    BY <1>3 DEF CountsOpen
  <2>4. r = [d EXCEPT !.position = d.position + 1]
    BY <2>1 DEF validateNext
  <2>5. ASSUME d \in CheckerType, d.position = n, d.valid = TRUE, d.openIndex = q, q >= 0,
               d.state = IF q = 0 THEN "wait_for_open" ELSE "wait_for_any"
        PROVE  CheckerIs(r, L, n + 1)
    <3> HIDE DEF d, r, q
    <3>1. /\ r \in CheckerType /\ r.position = n + 1 /\ r.valid = TRUE /\ r.openIndex = q
          /\ r.state = IF q = 0 THEN "wait_for_open" ELSE "wait_for_any"
      BY <2>4, <2>5, SMT DEF CheckerType
    <3>2. \A i \in 1 .. n + 1 : Opened(L, i) >= 0
      BY <2>3, <2>5, SMT DEF q
    <3>3. CountsOpen(r, L, n + 1)
      BY <2>2, <2>5, <3>1, <3>2 DEF CountsOpen, q
    <3>4. QED
      BY <3>1, <3>3 DEF CheckerIs
  <2>6. CASE o = 0 /\ chr = ")"
    <3>1. d = [c EXCEPT !.valid = FALSE]
      BY <2>1, <2>6 DEF validateWaitForOpen
    <3>2. q = -1
      BY <2>2, <2>6, SMT
    <3> HIDE DEF d, r, q
    <3>9. d \in CheckerType /\ d.valid = FALSE /\ d.openIndex = 0 /\ d.position = n
      BY <1>1, <2>1, <2>6, <3>1 DEF CheckerType
    <3>3. r \in CheckerType /\ r.valid = FALSE /\ r.openIndex = 0 /\ r.position = n + 1
      BY <2>4, <3>9, SMT DEF CheckerType
    <3>4. HasFailed(r, L, n + 1)
      BY <2>3, <3>2, <3>3, SMT DEF HasFailed, q
    <3>5. QED
      BY <3>3, <3>4 DEF CheckerIs
  <2>7. CASE o = 0 /\ chr = "("
    <3>1. d = [c EXCEPT !.openIndex = c.openIndex + 1, !.state = "wait_for_any"]
      BY <2>1, <2>7 DEF validateWaitForOpen
    <3>2. q = 1 /\ q >= 0
      BY <2>2, <2>7, SMT
    <3> DEFINE g == [c EXCEPT !.openIndex = c.openIndex + 1]
               z == "wait_for_any"
    <3>5. d = [g EXCEPT !.state = z]
      BY <3>1
    <3> HIDE DEF d, r, q, o
    <3>6. g \in CheckerType /\ g.position = n /\ g.valid = TRUE /\ g.openIndex = q
      BY <1>1, <2>1, <2>7, <3>2, SMT DEF CheckerType
    <3>7. z = IF q = 0 THEN "wait_for_open" ELSE "wait_for_any"
      BY <2>1, <2>7, <3>2, SMT
    <3> HIDE DEF g, z
    <3>3. /\ d \in CheckerType /\ d.position = n /\ d.valid = TRUE /\ d.openIndex = q
          /\ d.state = IF q = 0 THEN "wait_for_open" ELSE "wait_for_any"
      BY <3>5, <3>6, <3>7 DEF CheckerType
    <3>4. QED
      BY <2>5, <3>2, <3>3
  <2>8. CASE o = 0 /\ chr # "(" /\ chr # ")"
    <3>1. d = c
      BY <2>1, <2>8 DEF validateWaitForOpen
    <3>2. q = 0
      BY <2>2, <2>8, SMT
    <3>3. QED
      BY <1>1, <2>1, <2>5, <2>8, <3>1, <3>2
  <2>9. CASE o # 0 /\ chr = ")"
    <3>1. d = [c EXCEPT !.openIndex = c.openIndex - 1,
                        !.state = IF c.openIndex = 1 THEN "wait_for_open" ELSE c.state]
      BY <2>1, <2>9 DEF validateWaitForAny
    <3>2. q = o - 1 /\ q >= 0
      BY <2>1, <2>2, <2>9, SMT
    <3> DEFINE g == [c EXCEPT !.openIndex = c.openIndex - 1]
               z == IF c.openIndex = 1 THEN "wait_for_open" ELSE c.state
    <3>5. d = [g EXCEPT !.state = z]
      BY <3>1
    <3> HIDE DEF d, r, q, o
    <3>6. g \in CheckerType /\ g.position = n /\ g.valid = TRUE /\ g.openIndex = q
      BY <1>1, <2>1, <2>9, <3>2, SMT DEF CheckerType
    <3>7. z = IF q = 0 THEN "wait_for_open" ELSE "wait_for_any"
      BY <2>1, <2>9, <3>2, SMT
    <3> HIDE DEF g, z
    <3>3. /\ d \in CheckerType /\ d.position = n /\ d.valid = TRUE /\ d.openIndex = q
          /\ d.state = IF q = 0 THEN "wait_for_open" ELSE "wait_for_any"
      BY <3>5, <3>6, <3>7 DEF CheckerType
    <3>4. QED
      BY <2>5, <3>2, <3>3
  <2>10. CASE o # 0 /\ chr = "("
    <3>1. d = [c EXCEPT !.openIndex = c.openIndex + 1]
      BY <2>1, <2>10 DEF validateWaitForAny
    <3>2. q = o + 1 /\ q >= 0 /\ q # 0
      BY <2>1, <2>2, <2>10, SMT
    <3> HIDE DEF d, r, q, o
    <3>3. /\ d \in CheckerType /\ d.position = n /\ d.valid = TRUE /\ d.openIndex = q
          /\ d.state = IF q = 0 THEN "wait_for_open" ELSE "wait_for_any"
      BY <1>1, <2>1, <2>10, <3>1, <3>2, SMT DEF CheckerType
    <3>4. QED
      BY <2>5, <3>2, <3>3
  <2>11. CASE o # 0 /\ chr # "(" /\ chr # ")"
    <3>1. d = c
      BY <2>1, <2>11 DEF validateWaitForAny
    <3>2. q = o
      BY <2>1, <2>2, <2>11, SMT
    <3>3. QED
      BY <1>1, <2>1, <2>5, <2>11, <3>1, <3>2
  <2>12. QED
    BY <2>6, <2>7, <2>8, <2>9, <2>10, <2>11
<1>4. QED
  BY <1>2, <1>3 DEF CheckerIs

LEMMA NextTyped ==
    ASSUME NEW c \in CheckerType, NEW chr
    PROVE  validateNext(c, chr) \in CheckerType
<1> DEFINE d == IF c.state = "wait_for_open" THEN validateWaitForOpen(c, chr) ELSE validateWaitForAny(c, chr)
           up == [c EXCEPT !.openIndex = c.openIndex + 1]
           down == [c EXCEPT !.openIndex = c.openIndex - 1]
           z == IF c.openIndex = 1 THEN "wait_for_open" ELSE c.state
<1>1. up \in CheckerType /\ down \in CheckerType /\ z \in {"wait_for_open", "wait_for_any"}
  BY SMT DEF CheckerType
<1>2. validateWaitForOpen(c, chr) \in {c, [c EXCEPT !.valid = FALSE], [up EXCEPT !.state = "wait_for_any"]}
  BY DEF validateWaitForOpen
<1>3. validateWaitForAny(c, chr) \in {c, up, [down EXCEPT !.state = z]}
  BY DEF validateWaitForAny
<1>4. validateNext(c, chr) \in {c, [d EXCEPT !.position = d.position + 1]}
  BY DEF validateNext
<1> HIDE DEF up, down, z
<1>5. d \in CheckerType
  <2>1. validateWaitForOpen(c, chr) \in CheckerType
    BY <1>1, <1>2 DEF CheckerType
  <2>2. validateWaitForAny(c, chr) \in CheckerType
    BY <1>1, <1>3 DEF CheckerType
  <2>3. QED
    BY <2>1, <2>2
<1> HIDE DEF d
<1>6. [d EXCEPT !.position = d.position + 1] \in CheckerType
  BY <1>5, SMT DEF CheckerType
<1>7. QED
  BY <1>4, <1>6

\* A line checked part by part is checked as a whole.
LEMMA ValidateIs ==
    ASSUME NEW L \in Seq(STRING), NEW a \in Nat, NEW b \in Nat, a <= b, b <= Len(L),
           NEW c, CheckerIs(c, L, a)
    PROVE  CheckerIs(validate(c, SubSeq(L, a + 1, b)), L, b)
<1> DEFINE chars == SubSeq(L, a + 1, b)
           F(k, v) == validateNext(v, chars[k + 1])
           step == [k \in Nat |-> [v \in CheckerType |-> F(k, v)]]
           Is(f) == f = [k \in Nat |-> IF k = 0 THEN c ELSE validateNext(f[k - 1], chars[k])]
           after == CHOOSE f : Is(f)
<1>1. validate(c, chars) = after[Len(chars)]
  BY DEF validate
<1>2. Len(chars) = b - a /\ \A k \in Nat : k < b - a => chars[k + 1] = L[a + k + 1]
  <2>1. /\ Len(chars) = b - a
        /\ \A i \in 1 .. b - a : chars[i] = L[a + i]
    BY Slice, SMT
  <2> HIDE DEF chars
  <2>2. ASSUME NEW k \in Nat, k < b - a
        PROVE  chars[k + 1] = L[a + k + 1]
    <3>1. k + 1 \in 1 .. b - a
      BY <2>2, SMT
    <3>2. chars[k + 1] = L[a + (k + 1)]
      BY <2>1, <3>1
    <3>3. a + (k + 1) = a + k + 1
      BY SMT
    <3>4. QED
      BY <3>2, <3>3
  <2>3. QED
    BY <2>1, <2>2
<1>3. c \in CheckerType
  BY DEF CheckerIs
<1> HIDE DEF chars
<1>4. \A k \in Nat, v \in CheckerType : F(k, v) \in CheckerType
  BY NextTyped
<1>5. step \in [Nat -> [CheckerType -> CheckerType]]
  BY <1>4
<1> HIDE DEF step
<1>6. PICK f : Iterates(f, CheckerType, c, step)
  BY <1>3, <1>5, RecursionExists
<1>7. f \in [Nat -> CheckerType] /\ f[0] = c /\ \A k \in Nat : f[k + 1] = step[k][f[k]]
  BY <1>6 DEF Iterates
<1>8. \A k \in Nat : f[k + 1] = validateNext(f[k], chars[k + 1])
  BY <1>7 DEF step
<1>9. Is(f)
  <2>1. \A k \in Nat : f[k] = IF k = 0 THEN c ELSE validateNext(f[k - 1], chars[k])
    <3>1. TAKE k \in Nat
    <3>2. CASE k = 0
      BY <1>7, <3>2
    <3>3. CASE k # 0
      <4>1. k - 1 \in Nat /\ (k - 1) + 1 = k
        BY <3>3, SMT
      <4>2. f[(k - 1) + 1] = validateNext(f[k - 1], chars[(k - 1) + 1])
        BY <1>8, <4>1
      <4>3. QED
        BY <3>3, <4>1, <4>2
    <3>4. QED
      BY <3>2, <3>3
  <2>2. QED
    BY <1>7, <2>1
<1> HIDE DEF Is
<1>10. Is(after)
  BY <1>9
<1> HIDE DEF after
<1>11. after = [k \in Nat |-> IF k = 0 THEN c ELSE validateNext(after[k - 1], chars[k])]
  BY <1>10 DEF Is
<1>12. after[0] = c /\ \A k \in Nat : after[k + 1] = validateNext(after[k], chars[k + 1])
  <2>1. after[0] = c
    BY <1>11
  <2>2. ASSUME NEW k \in Nat
        PROVE  after[k + 1] = validateNext(after[k], chars[k + 1])
    <3>1. k + 1 \in Nat /\ k + 1 # 0 /\ (k + 1) - 1 = k
      BY SMT
    <3>2. after[k + 1] = validateNext(after[(k + 1) - 1], chars[k + 1])
      BY <1>11, <3>1
    <3>3. QED
      BY <3>1, <3>2
  <2>3. QED
    BY <2>1, <2>2
<1> DEFINE T == {k \in Nat : k <= b - a => CheckerIs(after[k], L, a + k)}
<1>13. 0 \in T
  <2>1. a + 0 = a
    BY SMT
  <2>2. CheckerIs(after[0], L, a + 0)
    BY <1>12, <2>1
  <2>3. QED
    BY <2>2
<1>14. ASSUME NEW k \in Nat, k \in T
       PROVE  k + 1 \in T
  <2>1. SUFFICES ASSUME k + 1 <= b - a
                 PROVE  CheckerIs(after[k + 1], L, a + (k + 1))
    BY SMT
  <2>2. CheckerIs(after[k], L, a + k) /\ a + k \in Nat /\ a + (k + 1) = (a + k) + 1
    BY <1>14, <2>1, SMT
  <2>3. CheckerIs(validateNext(after[k], L[(a + k) + 1]), L, (a + k) + 1)
    BY <2>2, NextIs
  <2>4. chars[k + 1] = L[(a + k) + 1]
    <3>1. k < b - a
      BY <2>1, SMT
    <3>2. QED
      BY <1>2, <3>1
  <2>5. after[k + 1] = validateNext(after[k], L[(a + k) + 1])
    BY <1>12, <2>4
  <2>6. QED
    BY <2>2, <2>3, <2>5
<1>15. \A k \in Nat : k \in T
  <2> HIDE DEF T
  <2>1. QED
    BY <1>13, <1>14, SetInduction
<1>16. b - a \in Nat /\ a + (b - a) = b /\ b - a <= b - a
  BY SMT
<1>17. CheckerIs(after[b - a], L, a + (b - a))
  BY <1>15, <1>16
<1>18. QED
  BY <1>1, <1>2, <1>16, <1>17 DEF chars

\* A failed checker stands at the first superfluous parenthesis of the line, and
\* what it reports is expected.
FailureExpected(n, L, c) ==
    /\ Superfluous(L) # {}
    /\ Expected(n, L) = [line |-> n, ok |-> FALSE, position |-> c.position, lack |-> FALSE]
    /\ c.openIndex = 0
    /\ c.position \in Nat

LEMMA FailedVerdict ==
    ASSUME NEW L \in Seq(STRING), NEW n \in Nat, NEW m \in Nat, m <= Len(L),
           NEW c, CheckerIs(c, L, m), c.valid = FALSE
    PROVE  FailureExpected(n, L, c)
<1> DEFINE p == c.position
<1>1. HasFailed(c, L, m)
  BY DEF CheckerIs, CountsOpen
<1>2. /\ c.openIndex = 0 /\ p \in 1 .. m /\ Opened(L, p) < 0
      /\ \A i \in 1 .. p - 1 : Opened(L, i) >= 0
  BY <1>1 DEF HasFailed
<1> HIDE DEF p
<1>3. p \in Superfluous(L)
  BY <1>2, SMT DEF Superfluous
<1>4. \A i \in Superfluous(L) : p <= i
  BY <1>2, OpenedStep, SMTT(30) DEF Superfluous
<1>5. Min(Superfluous(L)) = p
  <2>1. Superfluous(L) \subseteq Nat
    BY SMT DEF Superfluous
  <2> HIDE DEF Superfluous
  <2>2. QED
    BY <1>3, <1>4, <2>1, SMT DEF Min
<1>6. QED
  BY <1>2, <1>3, <1>5, SMT DEF Expected, FailureExpected, p

\* So is what a checker reports at the end of a line.
VerdictExpected(n, L, c) ==
    /\ Superfluous(L) = {}
    /\ Expected(n, L) = [line |-> n, ok |-> (c.openIndex = 0),
                         position |-> IF c.openIndex = 0 THEN 0 ELSE c.position,
                         lack |-> (c.openIndex > 0)]
    /\ c.openIndex \in Nat
    /\ c.position \in Nat

LEMMA LineVerdict ==
    ASSUME NEW L \in Seq(STRING), NEW n \in Nat, NEW m, m = Len(L),
           NEW c, CheckerIs(c, L, m), c.valid = TRUE
    PROVE  VerdictExpected(n, L, c)
<1> DEFINE n0 == Len(L)
<1>1. n0 \in Nat
  BY SMT
<1> HIDE DEF n0
<1>2. CountsOpen(c, L, n0)
  BY DEF CheckerIs, HasFailed, n0
<1>3. /\ \A i \in 1 .. n0 : Opened(L, i) >= 0
      /\ c.position = n0 /\ c.openIndex = Opened(L, n0) /\ c.openIndex >= 0
  BY <1>2 DEF CountsOpen
<1>4. Opened(L, n0) \in Int /\ \A i \in 1 .. n0 : Opened(L, i) \in Int
  BY <1>1, OpenedStep, SMT
<1>5. Superfluous(L) = {}
  BY <1>3, <1>4, SMT DEF Superfluous, n0
<1>6. c.openIndex \in Nat /\ c.position \in Nat
  BY <1>1, <1>3, <1>4, SMT
<1> DEFINE g == (c.openIndex = 0)
           h == (c.openIndex > 0)
           p == IF c.openIndex = 0 THEN 0 ELSE c.position
<1>7. Expected(n, L) = [line |-> n, ok |-> g, position |-> p, lack |-> h]
  <2>1. CASE c.openIndex = 0
    <3>1. g = TRUE /\ h = FALSE /\ p = 0
      BY <2>1, SMT
    <3>2. Expected(n, L) = [line |-> n, ok |-> TRUE, position |-> 0, lack |-> FALSE]
      BY <1>3, <1>5, <2>1, SMT DEF Expected, n0
    <3> HIDE DEF g, h, p
    <3>3. QED
      BY <3>1, <3>2
  <2>2. CASE c.openIndex # 0
    <3>1. g = FALSE /\ h = TRUE /\ p = n0
      BY <1>3, <1>6, <2>2, SMT
    <3>2. Expected(n, L) = [line |-> n, ok |-> FALSE, position |-> n0, lack |-> TRUE]
      BY <1>3, <1>5, <1>6, <2>2, SMT DEF Expected, n0
    <3> HIDE DEF g, h, p
    <3>3. QED
      BY <3>1, <3>2
  <2>3. QED
    BY <2>1, <2>2
<1>8. QED
  BY <1>5, <1>6, <1>7 DEF VerdictExpected

LEMMA FreshIs ==
    ASSUME NEW L
    PROVE  CheckerIs(Fresh, L, 0)
<1>1. Fresh \in CheckerType
  BY SMT DEF Fresh, CheckerType
<1>2. CountsOpen(Fresh, L, 0)
  BY NothingOpened, SMT DEF Fresh, CountsOpen
<1>3. QED
  BY <1>1, <1>2 DEF CheckerIs

-----------------------------------------------------------------------------
(* The lines of a text.                                                    *)

LEMMA LeastIs ==
    ASSUME NEW S \in SUBSET Nat, NEW m \in S, \A k \in S : m <= k
    PROVE  Min(S) = m
<1>1. \A k \in S : k \in Nat
  OBVIOUS
<1>2. \A k \in S : (\A j \in S : k <= j) => k = m
  BY <1>1, SMT
<1>3. QED
  BY <1>2 DEF Min

\* The end of a line is beyond its beginning, and the line has no delimiter.
LEMMA EndOfLine ==
    ASSUME NEW t \in Seq(STRING), NEW i \in Nat
    PROVE  /\ NextEnd(t, i) \in Nat
           /\ NextEnd(t, i) <= Len(t) + 1
           /\ i <= Len(t) => i < NextEnd(t, i)
           /\ \A j \in i + 1 .. Len(t) : t[j] = Delim => NextEnd(t, i) <= j
           /\ NextEnd(t, i) <= Len(t) => i < NextEnd(t, i) /\ t[NextEnd(t, i)] = Delim
<1> DEFINE Delims == {e \in i + 1 .. Len(t) : t[e] = Delim}
<1>1. Len(t) \in Nat
  BY SMT
<1>2. NextEnd(t, i) = IF Delims = {} THEN Len(t) + 1 ELSE Min(Delims)
  BY DEF NextEnd
<1>3. CASE Delims = {}
  <2>1. \A j \in i + 1 .. Len(t) : t[j] # Delim
    BY <1>3
  <2>2. NextEnd(t, i) = Len(t) + 1
    BY <1>2, <1>3
  <2>3. QED
    BY <1>1, <2>1, <2>2, SMT
<1>4. CASE Delims # {}
  <2>1. Delims \in SUBSET Nat
    BY SMT
  <2>2. PICK m \in Delims : \A k \in Delims : m <= k
    <3> HIDE DEF Delims
    <3>1. QED
      BY <1>4, <2>1, LeastNat
  <2>3. NextEnd(t, i) = m
    <3> HIDE DEF Delims
    <3>1. QED
      BY <1>2, <1>4, <2>1, <2>2, LeastIs
  <2>4. QED
    BY <1>1, <2>2, <2>3, SMT
<1>5. QED
  BY <1>3, <1>4

LEMMA EndsRecursion ==
    ASSUME NEW t \in Seq(STRING)
    PROVE  /\ Ends(t) \in [Nat -> Nat]
           /\ Ends(t)[0] = 0
           /\ \A k \in Nat : Ends(t)[k + 1] = NextEnd(t, Ends(t)[k])
<1> DEFINE step == [n \in Nat |-> [i \in Nat |-> NextEnd(t, i)]]
           Is(f) == f = [k \in Nat |-> IF k = 0 THEN 0 ELSE NextEnd(t, f[k - 1])]
           end == CHOOSE f : Is(f)
<1>1. Ends(t) = end
  BY DEF Ends
<1>2. \A i \in Nat : NextEnd(t, i) \in Nat
  BY EndOfLine
<1>3. step \in [Nat -> [Nat -> Nat]]
  BY <1>2
<1>4. \A k \in Nat, v \in Nat : step[k][v] = NextEnd(t, v)
  OBVIOUS
<1> HIDE DEF step
<1>5. PICK f : Iterates(f, Nat, 0, step)
  BY <1>3, RecursionExists
<1>6. Is(f)
  <2>1. f \in [Nat -> Nat] /\ f[0] = 0
    BY <1>5 DEF Iterates
  <2>2. ASSUME NEW n \in Nat, n # 0
        PROVE  f[n] = NextEnd(t, f[n - 1])
    <3>1. n - 1 \in Nat /\ (n - 1) + 1 = n
      BY <2>2, SMT
    <3>2. f[n] = step[n - 1][f[n - 1]]
      BY <1>5, <3>1 DEF Iterates
    <3>3. f[n - 1] \in Nat
      BY <2>1, <3>1
    <3>4. QED
      BY <1>4, <3>1, <3>2, <3>3
  <2>3. QED
    BY <2>1, <2>2
<1> HIDE DEF Is
<1>7. Is(end)
  BY <1>6
<1> HIDE DEF end
<1> USE DEF Is
<1>8. end[0] = 0 /\ \A k \in Nat : end[k + 1] = NextEnd(t, end[k])
  BY <1>7, SMT
<1>9. \A k \in Nat : end[k] \in Nat
  <2> DEFINE T == {k \in Nat : end[k] \in Nat}
  <2>1. 0 \in T
    BY <1>8, SMT
  <2>2. ASSUME NEW k \in Nat, k \in T
        PROVE  k + 1 \in T
    <3>1. end[k + 1] = NextEnd(t, end[k]) /\ end[k] \in Nat
      BY <1>8, <2>2
    <3>2. end[k + 1] \in Nat
      BY <1>2, <3>1
    <3>3. QED
      BY <3>2, SMT
  <2> HIDE DEF T
  <2>3. \A k \in Nat : k \in T
    BY <2>1, <2>2, SetInduction
  <2>4. QED
    BY <2>3 DEF T
<1>10. end \in [Nat -> Nat]
  BY <1>7, <1>9
<1>11. QED
  BY <1>1, <1>8, <1>10

\* A part of the text that lies in its n-th line is a part of that line.
LEMMA PartOfLine ==
    ASSUME NEW t \in Seq(STRING), NEW n \in Nat, n # 0, Ends(t)[n - 1] <= Len(t)
    PROVE  LET s == Ends(t)[n - 1]
               e == Ends(t)[n]
           IN  /\ s \in Nat /\ e \in Nat
               /\ e = NextEnd(t, s) /\ s < e /\ e <= Len(t) + 1
               /\ Line(t, n) \in Seq(STRING)
               /\ Len(Line(t, n)) = e - 1 - s
               /\ \A x, y \in Nat : s <= x /\ x <= y /\ y < e =>
                      SubSeq(t, x + 1, y) = SubSeq(Line(t, n), (x - s) + 1, y - s)
<1> DEFINE s == Ends(t)[n - 1]
           e == Ends(t)[n]
<1>1. n - 1 \in Nat /\ (n - 1) + 1 = n
  BY SMT
<1>2. s \in Nat /\ e = NextEnd(t, s)
  BY <1>1, EndsRecursion
<1>3. e \in Nat /\ s < e /\ e <= Len(t) + 1
  BY <1>2, EndOfLine
<1>4. Line(t, n) = SubSeq(t, s + 1, e - 1)
  BY DEF Line
<1> HIDE DEF s, e
<1>5. Len(t) \in Nat
  BY SMT
<1>6. Line(t, n) \in Seq(STRING) /\ Len(Line(t, n)) = e - 1 - s
  <2> DEFINE a == s + 1
             b == e - 1
  <2>1. a \in Nat /\ b \in Nat /\ 1 <= a /\ a <= b + 1 /\ b <= Len(t)
    BY <1>2, <1>3, <1>5, SMT
  <2>2. Line(t, n) = SubSeq(t, a, b)
    BY <1>4
  <2> HIDE DEF a, b
  <2>3. Line(t, n) \in Seq(STRING) /\ Len(Line(t, n)) = b - a + 1
    BY <2>1, <2>2, Slice, SMT
  <2>4. QED
    BY <1>2, <1>3, <2>3, SMT DEF a, b
<1>7. ASSUME NEW x \in Nat, NEW y \in Nat, s <= x, x <= y, y < e
      PROVE  SubSeq(t, x + 1, y) = SubSeq(Line(t, n), (x - s) + 1, y - s)
  <2>1. QED
    BY <1>2, <1>3, <1>4, <1>5, <1>7, SliceOfSlice, SMT
<1>8. QED
  BY <1>2, <1>3, <1>6, <1>7 DEF s, e

-----------------------------------------------------------------------------
(* The input.  At is how much of the text main has been given.             *)

ReadSoFar == Len(text) - Len(unread)
At == ReadSoFar - (Len(buffer) - prevNewline)

\* What is left of the buffer is what comes before the unread part of the text.
InputOk ==
    /\ text \in Seq(STRING)
    /\ unread \in Seq(STRING)
    /\ Len(unread) <= Len(text)
    /\ unread = SubSeq(text, ReadSoFar + 1, Len(text))
    /\ Len(buffer) \in Nat
    /\ prevNewline \in 0 .. Len(buffer)
    /\ prevNewline < Len(buffer) =>
          /\ Len(buffer) <= ReadSoFar
          /\ buffer = SubSeq(text, (ReadSoFar - Len(buffer)) + 1, ReadSoFar)
    /\ errno \in BOOLEAN

LEMMA MemchrIs ==
    ASSUME NEW chars \in Seq(STRING), NEW chr
    PROVE  LET nl == memchr(chars, chr) IN
           /\ nl \in 0 .. Len(chars)
           /\ nl > 0 => chars[nl] = chr /\ \A k \in 1 .. nl - 1 : chars[k] # chr
           /\ nl = 0 => \A k \in 1 .. Len(chars) : chars[k] # chr
<1> DEFINE S == {i \in 1 .. Len(chars) : chars[i] = chr}
<1>1. memchr(chars, chr) = IF S = {} THEN 0 ELSE Min(S)
  BY DEF memchr
<1>2. Len(chars) \in Nat
  BY SMT
<1>3. CASE S = {}
  BY <1>1, <1>2, <1>3, SMT
<1>4. CASE S # {}
  <2>1. S \in SUBSET Nat
    BY SMT
  <2>2. PICK m \in S : \A k \in S : m <= k
    <3> HIDE DEF S
    <3>1. QED
      BY <1>4, <2>1, LeastNat
  <2>3. memchr(chars, chr) = m
    <3> HIDE DEF S
    <3>1. QED
      BY <1>1, <1>4, <2>1, <2>2, LeastIs
  <2>4. m \in 1 .. Len(chars) /\ chars[m] = chr
    OBVIOUS
  <2>5. \A k \in 1 .. m - 1 : chars[k] # chr
    BY <1>2, <2>2, <2>4, SMT
  <2>6. QED
    BY <1>2, <2>3, <2>4, <2>5, SMT
<1>5. QED
  BY <1>3, <1>4

\* From a place within a line, a block of the text leads to the end of the line or
\* to the end of the block.
LEMMA Detected ==
    ASSUME NEW t \in Seq(STRING), NEW b \in Nat, NEW m \in Nat, b + m <= Len(t),
           NEW from \in Nat, from < m, NEW s \in Nat, s <= b + from, b + from < NextEnd(t, s),
           detectNewline(SubSeq(t, b + 1, b + m), from)
    PROVE  LET e == NextEnd(t, s)
               c == b + from
           IN  /\ buffer' = SubSeq(t, b + 1, b + m)
               /\ prevNewline' \in 0 .. m
               /\ \/ /\ newLineFound' = TRUE
                     /\ e <= Len(t)
                     /\ line' = {SubSeq(t, c + 1, e - 1)}
                     /\ b + prevNewline' = e
                  \/ /\ newLineFound' = FALSE
                     /\ line' = {SubSeq(t, c + 1, b + m)}
                     /\ prevNewline' = m
                     /\ b + m < e
<1> DEFINE e == NextEnd(t, s)
           c == b + from
           block == SubSeq(t, b + 1, b + m)
           rest == SubSeq(block, from + 1, Len(block))
           nl == memchr(rest, Delim)
<1>1. Len(t) \in Nat /\ c \in Nat
  BY SMT
<1>2. Len(block) = m /\ block \in Seq(STRING)
  <2> DEFINE x == b + 1
             y == b + m
  <2>1. x \in Int /\ y \in Int /\ 1 <= x /\ x <= y + 1 /\ y <= Len(t) /\ y - x + 1 = m
    BY SMT
  <2> HIDE DEF x, y
  <2>2. Len(SubSeq(t, x, y)) = m /\ SubSeq(t, x, y) \in Seq(STRING)
    BY <2>1, Slice
  <2>3. QED
    BY <2>2 DEF x, y
<1>3. rest = SubSeq(t, c + 1, b + m)
  <2> DEFINE x == b + 1
             y == b + m
             z == from + 1
  <2>1. x \in Int /\ y \in Int /\ 1 <= x /\ x <= y + 1 /\ y <= Len(t) /\ y - x + 1 = m /\ x + m - 1 = y
        /\ z \in Int /\ 1 <= z /\ z <= m + 1 /\ x + z - 1 = c + 1 /\ m \in Int /\ m <= y - x + 1
    BY SMT
  <2> HIDE DEF x, y, z, c
  <2>2. SubSeq(SubSeq(t, x, y), z, m) = SubSeq(t, x + z - 1, x + m - 1)
    BY <2>1, SliceOfSlice, SMT
  <2>3. rest = SubSeq(SubSeq(t, x, y), z, m)
    BY <1>2 DEF x, y, z
  <2>4. QED
    BY <2>1, <2>2, <2>3 DEF y
<1>4. /\ rest \in Seq(STRING) /\ Len(rest) = m - from
      /\ \A k \in 1 .. m - from : rest[k] = t[c + k]
  <2> DEFINE x == c + 1
             y == b + m
  <2>1. x \in Int /\ y \in Int /\ 1 <= x /\ x <= y + 1 /\ y <= Len(t) /\ y - x + 1 = m - from
        /\ x = c + 1 /\ c \in Nat
    BY SMT
  <2>2. rest = SubSeq(t, x, y)
    BY <1>3
  <2> HIDE DEF x, y, rest
  <2>3. /\ rest \in Seq(STRING) /\ Len(rest) = y - x + 1
        /\ \A k \in 1 .. y - x + 1 : rest[k] = t[x + k - 1]
    BY <2>1, <2>2, Slice, SMT
  <2> HIDE DEF c
  <2>4. ASSUME NEW k \in 1 .. m - from
        PROVE  rest[k] = t[c + k]
    <3>1. k \in 1 .. y - x + 1 /\ x + k - 1 = c + k
      BY <2>1, SMT
    <3>2. QED
      BY <2>3, <3>1
  <2>5. QED
    BY <2>1, <2>3, <2>4
<1>5. /\ buffer' = block
      /\ newLineFound' = (nl > 0)
      /\ line' = {IF nl > 0 THEN SubSeq(rest, 1, nl - 1) ELSE rest}
      /\ prevNewline' = IF nl > 0 THEN from + nl ELSE m
  BY <1>2 DEF detectNewline
<1> HIDE DEF rest, block
<1>6. /\ nl \in 0 .. m - from
      /\ nl > 0 => rest[nl] = Delim /\ \A k \in 1 .. nl - 1 : rest[k] # Delim
      /\ nl = 0 => \A k \in 1 .. m - from : rest[k] # Delim
  BY <1>4, MemchrIs
<1> HIDE DEF nl
<1>7. /\ e \in Nat /\ e <= Len(t) + 1 /\ c < e
      /\ \A j \in s + 1 .. Len(t) : t[j] = Delim => e <= j
      /\ e <= Len(t) => t[e] = Delim
  BY EndOfLine
<1> HIDE DEF e
<1>8. CASE nl > 0
  <2>1. nl \in 1 .. m - from /\ rest[nl] = t[c + nl] /\ rest[nl] = Delim
    BY <1>4, <1>6, <1>8, SMT
  <2>2. e <= c + nl
    <3>1. c + nl \in s + 1 .. Len(t)
      BY <1>1, <2>1, SMT
    <3>2. t[c + nl] = Delim
      BY <2>1
    <3>3. QED
      BY <1>7, <3>1, <3>2
  <2>3. e <= Len(t)
    BY <1>1, <1>7, <2>1, <2>2, SMT
  <2>4. ~ (e < c + nl)
    <3>1. SUFFICES ASSUME e < c + nl PROVE FALSE
      OBVIOUS
    <3> DEFINE k == e - c
    <3>2. k \in 1 .. nl - 1 /\ k \in 1 .. m - from /\ c + k = e
      BY <1>1, <1>7, <2>1, <3>1, SMT
    <3> HIDE DEF k
    <3>3. rest[k] = t[c + k] /\ rest[k] # Delim
      BY <1>4, <1>6, <1>8, <3>2
    <3>4. QED
      BY <1>7, <2>3, <3>2, <3>3
  <2>5. e = c + nl
    BY <1>1, <1>7, <2>1, <2>2, <2>4, SMT
  <2>6. SubSeq(rest, 1, nl - 1) = SubSeq(t, c + 1, e - 1)
    <3> DEFINE x == c + 1
               y == b + m
               z == nl - 1
    <3>1. x \in Int /\ y \in Int /\ 1 <= x /\ x <= y + 1 /\ y <= Len(t)
          /\ z \in Int /\ 1 <= z + 1 /\ z <= y - x + 1 /\ x + 1 - 1 = x /\ x + z - 1 = e - 1
      BY <1>1, <2>1, <2>5, SMT
    <3>2. rest = SubSeq(t, x, y)
      BY <1>3
    <3>3. x = c + 1 /\ z = nl - 1
      OBVIOUS
    <3> HIDE DEF x, y, z
    <3>4. SubSeq(SubSeq(t, x, y), 1, z) = SubSeq(t, x + 1 - 1, x + z - 1)
      BY <3>1, SliceOfSlice, SMT
    <3>5. QED
      BY <3>1, <3>2, <3>3, <3>4
  <2>7. newLineFound' = TRUE /\ line' = {SubSeq(rest, 1, nl - 1)} /\ prevNewline' = from + nl
    BY <1>5, <1>8
  <2>8. prevNewline' \in 0 .. m /\ b + prevNewline' = e
    BY <2>1, <2>5, <2>7, SMT
  <2>9. QED
    BY <1>5, <2>3, <2>6, <2>7, <2>8 DEF block, e
<1>9. CASE nl = 0
  <2>5. (nl > 0) = FALSE
    BY <1>9, SMT
  <2>1. newLineFound' = FALSE /\ line' = {rest} /\ prevNewline' = m
    BY <1>5, <2>5
  <2>2. ~ (e <= b + m)
    <3>1. SUFFICES ASSUME e <= b + m PROVE FALSE
      OBVIOUS
    <3> DEFINE k == e - c
    <3>2. k \in 1 .. m - from /\ c + k = e /\ e <= Len(t)
      BY <1>1, <1>7, <3>1, SMT
    <3> HIDE DEF k
    <3>3. rest[k] = t[c + k] /\ rest[k] # Delim
      BY <1>4, <1>6, <1>9, <3>2
    <3>4. QED
      BY <1>7, <3>2, <3>3
  <2>3. b + m < e /\ m \in 0 .. m
    BY <1>7, <2>2, SMT
  <2>4. QED
    BY <1>3, <1>5, <2>1, <2>3 DEF block, e
<1>10. nl > 0 \/ nl = 0
  BY <1>6, SMT
<1>11. QED
  BY <1>8, <1>9, <1>10

\* What readAndDetectNewline does from a place within a line: it hands out the
\* next part of the line, or nothing when the text has ended or read has failed.
GivesNothing ==
    /\ line' = NULL
    /\ At' = At
    /\ errno' = FALSE => At = Len(text)

GivesTheEnd(e) ==
    /\ newLineFound' = TRUE
    /\ e <= Len(text)
    /\ line' = {SubSeq(text, At + 1, e - 1)}
    /\ At' = e

GivesAPart(e) ==
    /\ newLineFound' = FALSE
    /\ line' = {SubSeq(text, At + 1, At')}
    /\ At' \in Nat
    /\ At' > At
    /\ At' < e

LEMMA AtTyped ==
    ASSUME InputOk
    PROVE  At \in Nat /\ At <= ReadSoFar /\ ReadSoFar \in Nat /\ ReadSoFar <= Len(text)
<1>1. Len(text) \in Nat /\ Len(unread) \in Nat /\ Len(buffer) \in Nat /\ Len(unread) <= Len(text)
      /\ prevNewline \in 0 .. Len(buffer) /\ (prevNewline < Len(buffer) => Len(buffer) <= ReadSoFar)
  BY SMT DEF InputOk
<1>2. QED
  BY <1>1, SMT DEF At, ReadSoFar

LEMMA ReadStep ==
    ASSUME InputOk, text' = text, readAndDetectNewline,
           NEW s \in Nat, s <= At, At < NextEnd(text, s)
    PROVE  InputOk' /\ (GivesNothing \/ GivesTheEnd(NextEnd(text, s)) \/ GivesAPart(NextEnd(text, s)))
<1> DEFINE e == NextEnd(text, s)
           n == Len(text)
           r == ReadSoFar
           size == Len(buffer)
           u == Len(unread)
           Given == GivesNothing \/ GivesTheEnd(e) \/ GivesAPart(e)
<1>1. /\ text \in Seq(STRING) /\ unread \in Seq(STRING) /\ Len(buffer) \in Nat
      /\ n \in Nat /\ Len(unread) \in Nat /\ size \in Nat /\ Len(unread) <= n
      /\ prevNewline \in 0 .. size
      /\ unread = SubSeq(text, r + 1, n)
      /\ prevNewline < size => size <= r /\ buffer = SubSeq(text, (r - size) + 1, r)
      /\ errno \in BOOLEAN
  BY SMT DEF InputOk
<1>2. r = n - Len(unread) /\ r \in Nat /\ At = r - (size - prevNewline) /\ At \in Nat /\ At <= r
  BY AtTyped DEF At, ReadSoFar
<1>7. n = Len(text) /\ u = Len(unread) /\ size = Len(buffer) /\ Len(text') = n /\ r = ReadSoFar
  OBVIOUS
<1>8. /\ n \in Nat /\ u \in Nat /\ size \in Nat /\ u <= n /\ prevNewline \in Nat /\ prevNewline <= size
      /\ r = n - u /\ r \in Nat /\ At = r - (size - prevNewline) /\ At \in Nat /\ r <= n
  BY <1>1, <1>2, SMT
<1> HIDE DEF n, r, size, u
<1>3. CASE prevNewline < size /\ detectNewline(buffer, prevNewline) /\ UNCHANGED <<unread, errno>>
  <2> DEFINE b == r - size
  <2>1. b \in Nat /\ b + size = r /\ b + prevNewline = At /\ b + size <= n
    <3>1. size <= r
      BY <1>1, <1>3
    <3>2. QED
      BY <1>8, <3>1, SMT
  <2>2. buffer = SubSeq(text, b + 1, b + size)
    BY <1>1, <1>3, <2>1
  <2> HIDE DEF b
  <2>3. /\ buffer' = SubSeq(text, b + 1, b + size)
        /\ prevNewline' \in 0 .. size
        /\ \/ /\ newLineFound' = TRUE
              /\ e <= Len(text)
              /\ line' = {SubSeq(text, (b + prevNewline) + 1, e - 1)}
              /\ b + prevNewline' = e
           \/ /\ newLineFound' = FALSE
              /\ line' = {SubSeq(text, (b + prevNewline) + 1, b + size)}
              /\ prevNewline' = size
              /\ b + size < e
    <3>1. /\ prevNewline \in Nat /\ prevNewline < size /\ size \in Nat
          /\ s <= b + prevNewline /\ b + prevNewline < NextEnd(text, s) /\ b + size <= Len(text)
      BY <1>3, <1>7, <1>8, <2>1
    <3>2. detectNewline(SubSeq(text, b + 1, b + size), prevNewline)
      BY <1>3, <2>2
    <3>3. QED
      BY <1>1, <2>1, <3>1, <3>2, Detected
  <2>4. buffer' = buffer /\ unread' = unread /\ errno' = errno
    BY <1>3, <2>2, <2>3
  <2>5. Len(text') = n /\ Len(buffer') = size /\ ReadSoFar' = r
    BY <1>7, <2>4 DEF ReadSoFar
  <2>6. At' = b + prevNewline'
    <3>1. prevNewline' \in Nat
      BY <1>8, <2>3, SMT
    <3>2. At' = ReadSoFar' - (Len(buffer') - prevNewline')
      BY DEF At
    <3>3. QED
      BY <1>8, <2>1, <2>5, <3>1, <3>2, SMTT(30)
  <2>7. InputOk'
    <3>1. prevNewline' < size => size <= r /\ buffer' = SubSeq(text', (r - size) + 1, r)
      BY <1>1, <1>3, <2>4
    <3>2. QED
      BY <1>1, <1>7, <2>3, <2>4, <2>5, <3>1 DEF InputOk
  <2>8. Given
    <3>1. (At = b + prevNewline) /\ At < b + size
      BY <1>3, <1>8, <2>1, SMT
    <3> HIDE DEF e
    <3>2. CASE /\ newLineFound' = TRUE
               /\ e <= Len(text)
               /\ line' = {SubSeq(text, (b + prevNewline) + 1, e - 1)}
               /\ b + prevNewline' = e
      BY <2>6, <3>1, <3>2 DEF GivesTheEnd
    <3>3. CASE /\ newLineFound' = FALSE
               /\ line' = {SubSeq(text, (b + prevNewline) + 1, b + size)}
               /\ prevNewline' = size
               /\ b + size < e
      <4>1. At' = b + size /\ b + size \in Nat
        BY <1>8, <2>1, <2>6, <3>3
      <4>2. QED
        BY <3>1, <3>3, <4>1 DEF GivesAPart
    <3>4. QED
      BY <2>3, <3>2, <3>3
  <2>9. QED
    BY <2>7, <2>8
<1>4. CASE /\ prevNewline >= size /\ unread # <<>> /\ errno' = FALSE
           /\ \E k \in 1 .. Min({maxBufferSize, Len(unread)}) :
                 /\ detectNewline(SubSeq(unread, 1, k), 0)
                 /\ unread' = SubSeq(unread, k + 1, Len(unread))
  <2>1. PICK k \in 1 .. Min({maxBufferSize, Len(unread)}) :
                 /\ detectNewline(SubSeq(unread, 1, k), 0)
                 /\ unread' = SubSeq(unread, k + 1, Len(unread))
    BY <1>4
  <2>2. Min({maxBufferSize, Len(unread)}) \in Nat /\ Min({maxBufferSize, Len(unread)}) <= Len(unread)
    <3>1. maxBufferSize \in Nat
      BY ParenthesesAssumption
    <3>2. u \in Nat /\ u = Len(unread)
      BY <1>7, <1>8
    <3>3. \E x \in {maxBufferSize, u} : \A y \in {maxBufferSize, u} : x <= y
      BY <3>1, <3>2, SMT
    <3>4. Min({maxBufferSize, u}) \in {maxBufferSize, u} /\ Min({maxBufferSize, u}) <= u
      BY <3>3 DEF Min
    <3>5. QED
      BY <3>1, <3>2, <3>4
  <2>3. k \in Nat /\ 1 <= k /\ k <= Len(unread) /\ r + k <= n /\ r <= n /\ At = r
    <3> DEFINE w == Min({maxBufferSize, Len(unread)})
    <3>1. w \in Nat /\ w <= u /\ k \in 1 .. w
      BY <1>7, <2>1, <2>2
    <3> HIDE DEF w
    <3>2. k \in Nat /\ 1 <= k /\ k <= u
      BY <1>8, <3>1, SMT
    <3>3. prevNewline >= size
      BY <1>4
    <3>4. QED
      BY <1>7, <1>8, <3>2, <3>3, SMT
  <2>4. SubSeq(unread, 1, k) = SubSeq(text, r + 1, r + k)
    <3> DEFINE a == r + 1
    <3>1. a \in Int /\ n \in Int /\ 1 <= a /\ a <= n + 1 /\ n <= Len(text) /\ k <= n - a + 1
          /\ a + 1 - 1 = r + 1 /\ a + k - 1 = r + k /\ 1 <= k + 1 /\ k \in Int
      BY <1>7, <1>8, <2>3, SMT
    <3>2. unread = SubSeq(text, a, n)
      BY <1>1
    <3> HIDE DEF a
    <3>3. SubSeq(SubSeq(text, a, n), 1, k) = SubSeq(text, a + 1 - 1, a + k - 1)
      BY <1>1, <3>1, SliceOfSlice, SMT
    <3>4. QED
      BY <3>1, <3>2, <3>3
  <2>5. unread' = SubSeq(text, (r + k) + 1, n)
    <3> DEFINE a == r + 1
               c == k + 1
               d == u
    <3>1. a \in Int /\ n \in Int /\ 1 <= a /\ a <= n + 1 /\ n <= Len(text) /\ d <= n - a + 1
          /\ c \in Int /\ d \in Int /\ 1 <= c /\ c <= d + 1
          /\ a + c - 1 = (r + k) + 1 /\ a + d - 1 = n
      BY <1>7, <1>8, <2>3, SMT
    <3>2. unread = SubSeq(text, a, n)
      BY <1>1
    <3>3. unread' = SubSeq(unread, c, d)
      BY <1>7, <2>1
    <3> HIDE DEF a, c, d
    <3>4. SubSeq(SubSeq(text, a, n), c, d) = SubSeq(text, a + c - 1, a + d - 1)
      BY <1>1, <3>1, SliceOfSlice, SMT
    <3>5. QED
      BY <3>1, <3>2, <3>3, <3>4
  <2>6. /\ unread' \in Seq(STRING) /\ Len(unread') = n - (r + k)
    <3> DEFINE a == (r + k) + 1
    <3>1. a \in Int /\ n \in Int /\ 1 <= a /\ a <= n + 1 /\ n <= Len(text) /\ n - a + 1 = n - (r + k)
      BY <1>7, <1>8, <2>3, SMT
    <3>2. unread' = SubSeq(text, a, n)
      BY <2>5
    <3> HIDE DEF a
    <3>3. SubSeq(text, a, n) \in Seq(STRING) /\ Len(SubSeq(text, a, n)) = n - a + 1
      BY <1>1, <3>1, Slice, SMT
    <3>4. QED
      BY <3>1, <3>2, <3>3
  <2>7. SubSeq(text, r + 1, r + k) \in Seq(STRING) /\ Len(SubSeq(text, r + 1, r + k)) = k
    <3> DEFINE a == r + 1
               d == r + k
    <3>1. a \in Int /\ d \in Int /\ 1 <= a /\ a <= d + 1 /\ d <= Len(text) /\ d - a + 1 = k
      BY <1>7, <1>8, <2>3, SMT
    <3> HIDE DEF a, d
    <3>2. SubSeq(text, a, d) \in Seq(STRING) /\ Len(SubSeq(text, a, d)) = k
      BY <1>1, <3>1, Slice
    <3>3. QED
      BY <3>2 DEF a, d
  <2>8. ReadSoFar' = r + k
    <3>1. Len(text') = n
      BY <1>7
    <3>2. ReadSoFar' = Len(text') - Len(unread')
      BY DEF ReadSoFar
    <3>3. QED
      BY <1>8, <2>3, <2>6, <3>1, <3>2, SMT
  <2>9. /\ buffer' = SubSeq(text, r + 1, r + k)
        /\ prevNewline' \in 0 .. k
        /\ \/ /\ newLineFound' = TRUE
              /\ e <= Len(text)
              /\ line' = {SubSeq(text, (r + 0) + 1, e - 1)}
              /\ r + prevNewline' = e
           \/ /\ newLineFound' = FALSE
              /\ line' = {SubSeq(text, (r + 0) + 1, r + k)}
              /\ prevNewline' = k
              /\ r + k < e
    <3>1. /\ 0 \in Nat /\ 0 < k /\ s <= r + 0 /\ r + 0 < NextEnd(text, s) /\ r + k <= Len(text)
      BY <1>7, <1>8, <2>3, SMTT(30)
    <3>2. detectNewline(SubSeq(text, r + 1, r + k), 0)
      BY <2>1, <2>4
    <3>3. QED
      BY <1>1, <1>2, <2>3, <3>1, <3>2, Detected
  <2>10. buffer' \in Seq(STRING) /\ Len(buffer') = k
    BY <2>7, <2>9
  <2>11. At' = r + prevNewline'
    <3>1. prevNewline' \in Nat
      BY <2>3, <2>9, SMT
    <3>2. At' = ReadSoFar' - (Len(buffer') - prevNewline')
      BY DEF At
    <3>3. QED
      BY <1>8, <2>3, <2>8, <2>10, <3>1, <3>2, SMT
  <2>12. InputOk'
    <3>1. /\ ReadSoFar' - Len(buffer') = r /\ Len(buffer') <= ReadSoFar' /\ Len(text') = n
          /\ n - (r + k) <= n
      BY <1>7, <1>8, <2>3, <2>8, <2>10, SMT
    <3>2. buffer' = SubSeq(text', (ReadSoFar' - Len(buffer')) + 1, ReadSoFar')
      BY <2>8, <2>9, <3>1
    <3>3. unread' = SubSeq(text', ReadSoFar' + 1, Len(text'))
      BY <2>5, <2>8, <3>1
    <3>4. QED
      <4>1. /\ text' \in Seq(STRING) /\ unread' \in Seq(STRING) /\ Len(unread') <= Len(text')
            /\ Len(buffer') \in Nat /\ prevNewline' \in 0 .. Len(buffer') /\ errno' \in BOOLEAN
        BY <1>1, <1>4, <2>3, <2>6, <2>9, <2>10, <3>1
      <4>2. QED
        BY <3>1, <3>2, <3>3, <4>1 DEF InputOk
  <2>13. Given
    <3>1. At = r /\ r + 0 = r /\ r < r + k
      BY <1>8, <2>3, SMT
    <3> HIDE DEF e
    <3>2. CASE /\ newLineFound' = TRUE
               /\ e <= Len(text)
               /\ line' = {SubSeq(text, (r + 0) + 1, e - 1)}
               /\ r + prevNewline' = e
      BY <2>11, <3>1, <3>2 DEF GivesTheEnd
    <3>3. CASE /\ newLineFound' = FALSE
               /\ line' = {SubSeq(text, (r + 0) + 1, r + k)}
               /\ prevNewline' = k
               /\ r + k < e
      <4>1. At' = r + k /\ r + k \in Nat
        BY <1>8, <2>3, <2>11, <3>3, SMT
      <4>2. QED
        BY <3>1, <3>3, <4>1 DEF GivesAPart
    <3>4. QED
      BY <2>9, <3>2, <3>3
  <2>14. QED
    BY <2>12, <2>13
<1>5. CASE prevNewline >= size /\ noLine /\ unread' = unread /\ errno' \in BOOLEAN /\ (errno' = FALSE => unread = <<>>)
  <2>1. buffer' = buffer /\ prevNewline' = prevNewline /\ line' = NULL
    BY <1>5 DEF noLine
  <2>2. ReadSoFar' = ReadSoFar /\ At' = At
    BY <1>5, <2>1 DEF At, ReadSoFar
  <2>3. InputOk'
    BY <1>5, <2>1, <2>2 DEF InputOk
  <2>4. errno' = FALSE => At = Len(text)
    <3>1. unread = <<>> => u = 0
      BY <1>7
    <3>2. prevNewline >= size
      BY <1>5
    <3>3. u = 0 => At = n
      BY <1>8, <3>2, SMT
    <3>4. QED
      BY <1>5, <1>7, <3>1, <3>3
  <2>5. QED
    BY <2>1, <2>2, <2>3, <2>4 DEF GivesNothing
<1>6. QED
  BY <1>3, <1>4, <1>5 DEF readAndDetectNewline, readAnotherBlock, size

-----------------------------------------------------------------------------
(* The program.                                                            *)

ReportType == [line : Nat, ok : BOOLEAN, position : Nat, lack : BOOLEAN]

Begin == Ends(text)[lineCounter - 1]
End == Ends(text)[lineCounter]
Current == Line(text, lineCounter)

\* A part of the line is to be checked, up to y; the checker has seen what comes
\* before it.
ToValidate(x, y) ==
    /\ line = {SubSeq(text, x + 1, y)}
    /\ Begin <= x /\ x <= y /\ y < End
    /\ CheckerIs(checker, Current, x - Begin)
    /\ checker.valid = TRUE
    /\ \/ newLineFound = TRUE /\ y = End - 1 /\ At = End /\ End <= Len(text)
       \/ newLineFound = FALSE /\ At = y

\* Where main is in the text.
Place ==
    /\ pc = "validate" =>
          /\ Begin <= Len(text)
          /\ Len(out) = lineCounter - 1
          /\ \E x, y \in Nat : ToValidate(x, y)
    /\ pc = "read" =>
          /\ Begin <= Len(text)
          /\ Len(out) = lineCounter - 1
          /\ Begin <= At /\ At < End
          /\ CheckerIs(checker, Current, At - Begin)
          /\ checker.valid = TRUE
    /\ pc = "skip" =>
          /\ Begin <= Len(text)
          /\ Len(out) = lineCounter
          /\ Begin <= At /\ At < End
    /\ pc = "skipped" =>
          /\ Len(out) = lineCounter
          /\ At = End /\ End <= Len(text)
    /\ pc = "end" => errno = TRUE \/ ~ Reportable(text, Len(out) + 1)

AllOk == allOk = (\A i \in DOMAIN out : out[i].ok)

\* The inductive invariant: the input is in order, main is where the checker and
\* the reports say, and what has been reported is right.
IInv ==
    /\ InputOk
    /\ lineCounter \in Nat \ {0}
    /\ out \in Seq(ReportType)
    /\ pc \in {"validate", "read", "skip", "skipped", "end", "exited"}
    /\ Place
    /\ AllOk
    /\ Reported
    /\ ExitTells

LEMMA InitIInv ==
    ASSUME Init
    PROVE  IInv
<1>1. text \in Seq(STRING) /\ Len(text) \in Nat
  BY ParenthesesAssumption, LenProperties DEF Init
<1>2. InputOk /\ At = 0
  <2>1. ReadSoFar = 0
    BY <1>1, SMT DEF Init, ReadSoFar
  <2>2. SubSeq(text, 0 + 1, Len(text)) = text
    BY <1>1, SMT
  <2>6. buffer = <<"0">> /\ prevNewline = 1 /\ unread = text /\ errno = FALSE
    BY DEF Init
  <2>3. Len(buffer) = 1
    BY <2>6
  <2>4. At = 0
    BY <2>1, <2>3, <2>6, SMT DEF At
  <2>5. QED
    <3>1. unread = SubSeq(text, ReadSoFar + 1, Len(text)) /\ Len(unread) <= Len(text) /\ unread \in Seq(STRING)
      BY <1>1, <2>1, <2>2, <2>6, SMT
    <3>2. Len(buffer) \in Nat /\ prevNewline \in 0 .. Len(buffer) /\ ~ (prevNewline < Len(buffer))
      BY <2>3, <2>6, SMT
    <3>3. QED
      BY <1>1, <2>4, <2>6, <3>1, <3>2 DEF InputOk
<1>3. Begin = 0 /\ Begin <= Len(text) /\ End \in Nat /\ 0 < End
  <2>1. lineCounter - 1 = 0 /\ lineCounter \in Nat /\ lineCounter # 0
    BY SMT DEF Init
  <2>2. Ends(text)[lineCounter - 1] = 0
    BY <1>1, <2>1, EndsRecursion
  <2>3. QED
    BY <1>1, <2>1, <2>2, PartOfLine, SMT DEF Begin, End
<1>4. out = <<>> /\ lineCounter = 1 /\ pc = "validate" /\ allOk = TRUE /\ checker = Fresh
      /\ line = {<<>>} /\ newLineFound = FALSE
  BY DEF Init
<1>5. ToValidate(0, 0)
  <2>1. SubSeq(text, 0 + 1, 0) = <<>>
    BY <1>1, SubSeqEmpty, SMT
  <2>2. CheckerIs(checker, Current, 0 - Begin)
    BY <1>3, <1>4, FreshIs, SMT
  <2>3. checker.valid = TRUE
    BY <1>4 DEF Fresh
  <2>4. line = {SubSeq(text, 0 + 1, 0)}
    BY <1>4, <2>1
  <2>5. QED
    BY <1>2, <1>3, <1>4, <2>2, <2>3, <2>4, SMT DEF ToValidate
<1>6. Len(out) = 0 /\ DOMAIN out = {} /\ out \in Seq(ReportType)
  BY <1>4, SMT
<1>7. Place
  BY <1>3, <1>4, <1>5, <1>6, SMT DEF Place
<1>8. AllOk /\ Reported /\ ExitTells
  BY <1>4, <1>6 DEF AllOk, Reported, ExitTells
<1>9. QED
  BY <1>2, <1>4, <1>6, <1>7, <1>8, SMT DEF IInv

\* Reporting one more line as expected.
LEMMA ReportStep ==
    ASSUME out \in Seq(ReportType), Reported, AllOk, text' = text,
           NEW R \in ReportType, out' = Append(out, R), allOk' = (allOk /\ R.ok),
           Reportable(text, Len(out) + 1), R = Expected(Len(out) + 1, Line(text, Len(out) + 1))
    PROVE  out' \in Seq(ReportType) /\ Len(out') = Len(out) + 1 /\ Reported' /\ AllOk'
<1> DEFINE K == Len(out)
<1>1. K \in Nat /\ DOMAIN out = 1 .. K
  BY LenProperties
<1>2. /\ out' \in Seq(ReportType) /\ Len(out') = K + 1 /\ DOMAIN out' = 1 .. K + 1
      /\ out'[K + 1] = R /\ \A i \in 1 .. K : out'[i] = out[i]
  BY AppendProperties, LenProperties, SMT
<1>3. \A i \in 1 .. K : Reportable(text, i) /\ out[i] = Expected(i, Line(text, i))
  BY <1>1 DEF Reported
<1>4. allOk = \A i \in 1 .. K : out[i].ok
  BY <1>1 DEF AllOk
<1>5. Reportable(text, K + 1) /\ R = Expected(K + 1, Line(text, K + 1))
  OBVIOUS
<1> HIDE DEF K
<1>6. \A i \in 1 .. K + 1 : i \in 1 .. K \/ i = K + 1
  BY <1>1, SMT
<1>7. \A i \in 1 .. K + 1 : Reportable(text, i) /\ out'[i] = Expected(i, Line(text, i))
  BY <1>2, <1>3, <1>5, <1>6
<1>8. Reported'
  BY <1>2, <1>7 DEF Reported
<1>9. 1 .. K \subseteq 1 .. K + 1 /\ K + 1 \in 1 .. K + 1
  BY <1>1, SMT
<1>10. (\A i \in 1 .. K + 1 : out'[i].ok) <=> (\A i \in 1 .. K : out[i].ok) /\ R.ok
  BY <1>2, <1>6, <1>9
<1>11. AllOk'
  <2>1. allOk' = (\A i \in 1 .. K + 1 : out'[i].ok)
    BY <1>4, <1>10
  <2>2. QED
    BY <1>2, <2>1 DEF AllOk
<1>12. QED
  BY <1>2, <1>8, <1>11 DEF K

\* The line main is in, and the next one.
LEMMA Here ==
    ASSUME text \in Seq(STRING), lineCounter \in Nat \ {0}, Begin <= Len(text)
    PROVE  /\ Begin \in Nat /\ End \in Nat
           /\ End = NextEnd(text, Begin) /\ Begin < End /\ End <= Len(text) + 1
           /\ Current \in Seq(STRING)
           /\ Len(Current) = End - 1 - Begin
           /\ \A x, y \in Nat : Begin <= x /\ x <= y /\ y < End =>
                  SubSeq(text, x + 1, y) = SubSeq(Current, (x - Begin) + 1, y - Begin)
<1>1. lineCounter \in Nat /\ lineCounter # 0 /\ Ends(text)[lineCounter - 1] <= Len(text)
  BY DEF Begin
<1>2. QED
  BY <1>1, PartOfLine DEF Begin, End, Current

LEMMA ValidateStep ==
    ASSUME IInv, Validate
    PROVE  IInv'
<1> DEFINE N == lineCounter
           b == Begin
           e == End
           L == Current
           K == Len(out)
<1>1. /\ text \in Seq(STRING) /\ N \in Nat \ {0} /\ out \in Seq(ReportType) /\ K \in Nat
      /\ InputOk /\ AllOk /\ Reported /\ b <= Len(text) /\ K = N - 1
  BY LenProperties DEF IInv, Validate, Place, InputOk
<1>2. pc = "validate" /\ \E x, y \in Nat : ToValidate(x, y)
  BY DEF IInv, Validate, Place
<1>3. /\ b \in Nat /\ e \in Nat /\ e = NextEnd(text, b) /\ b < e /\ e <= Len(text) + 1
      /\ L \in Seq(STRING) /\ Len(L) = e - 1 - b
      /\ \A x, y \in Nat : b <= x /\ x <= y /\ y < e =>
             SubSeq(text, x + 1, y) = SubSeq(L, (x - b) + 1, y - b)
  BY <1>1, Here
<1>4. PICK x \in Nat, y \in Nat : ToValidate(x, y)
  BY <1>2
<1>5. /\ line = {SubSeq(text, x + 1, y)} /\ b <= x /\ x <= y /\ y < e
      /\ CheckerIs(checker, L, x - b)
      /\ \/ newLineFound = TRUE /\ y = e - 1 /\ At = e /\ e <= Len(text)
         \/ newLineFound = FALSE /\ At = y
  BY <1>4 DEF ToValidate
<1>6. text' = text /\ InputOk' /\ At' = At /\ newLineFound' = newLineFound /\ ReadSoFar' = ReadSoFar
  <2>1. /\ text' = text /\ unread' = unread /\ errno' = errno /\ buffer' = buffer
        /\ prevNewline' = prevNewline /\ newLineFound' = newLineFound
    BY DEF Validate, input
  <2>2. ReadSoFar' = ReadSoFar
    BY <2>1 DEF ReadSoFar
  <2>3. QED
    BY <1>1, <2>1, <2>2 DEF At, InputOk
<1> DEFINE c == validate(checker, SubSeq(text, x + 1, y))
           m == y - b
<1>7. m \in Nat /\ m <= Len(L) /\ CheckerIs(c, L, m)
  <2> DEFINE k == x - b
  <2>1. k \in Nat /\ m \in Nat /\ k <= m /\ m <= Len(L)
    BY <1>3, <1>5, SMT
  <2>2. SubSeq(text, x + 1, y) = SubSeq(L, k + 1, m) /\ CheckerIs(checker, L, k)
    BY <1>3, <1>5
  <2> HIDE DEF k, m, L
  <2>3. CheckerIs(validate(checker, SubSeq(L, k + 1, m)), L, m)
    BY <1>3, <2>1, <2>2, ValidateIs
  <2>4. QED
    BY <2>1, <2>2, <2>3
<1>8. c.valid \in BOOLEAN
  BY <1>7 DEF CheckerIs, CheckerType
<1>9. /\ \/ /\ ~ c.valid
            /\ printStatus(FALSE, c)
            /\ allOk' = FALSE
            /\ pc' = IF newLineFound THEN "skipped" ELSE "skip"
            /\ lineCounter' = lineCounter
         \/ /\ c.valid /\ newLineFound
            /\ printStatus(done(c), c)
            /\ allOk' = (allOk /\ done(c))
            /\ checker' = Fresh
            /\ lineCounter' = lineCounter + 1
            /\ pc' = "read"
         \/ /\ c.valid /\ ~ newLineFound
            /\ checker' = c
            /\ pc' = "read"
            /\ lineCounter' = lineCounter /\ allOk' = allOk /\ out' = out
  <2>1. PICK chars \in line : \E d \in {validate(checker, chars)} :
           \/ /\ ~ d.valid
              /\ printStatus(FALSE, d)
              /\ allOk' = FALSE
              /\ checker' = d
              /\ pc' = IF newLineFound THEN "skipped" ELSE "skip"
              /\ UNCHANGED lineCounter
           \/ /\ d.valid /\ newLineFound
              /\ printStatus(done(d), d)
              /\ allOk' = (allOk /\ done(d))
              /\ checker' = reset(d)
              /\ lineCounter' = lineCounter + 1
              /\ pc' = "read"
           \/ /\ d.valid /\ ~ newLineFound
              /\ checker' = d
              /\ pc' = "read"
              /\ UNCHANGED <<lineCounter, allOk, out>>
    BY DEF Validate
  <2>2. validate(checker, chars) = c
    BY <1>5
  <2> HIDE DEF c
  <2>3. QED
    BY <2>1, <2>2 DEF reset
<1>10. pc' # "exited" => ExitTells'
  BY DEF ExitTells
<1>11. Begin' = Ends(text)[lineCounter' - 1] /\ End' = Ends(text)[lineCounter'] /\ Current' = Line(text, lineCounter')
  BY <1>6 DEF Begin, End, Current
<1>12. b = Ends(text)[N - 1] /\ e = Ends(text)[N] /\ L = Line(text, N) /\ N = lineCounter /\ K = Len(out)
  BY DEF Begin, End, Current
<1>13. Len(text) \in Nat /\ N = K + 1 /\ N - 1 = K
  BY <1>1, SMT
<1> HIDE DEF N, b, e, L, K, c, m
<1>14. CASE /\ ~ c.valid
            /\ printStatus(FALSE, c)
            /\ allOk' = FALSE
            /\ pc' = IF newLineFound THEN "skipped" ELSE "skip"
            /\ lineCounter' = lineCounter
  <2> DEFINE R == [line |-> N, ok |-> FALSE, position |-> c.position, lack |-> FALSE]
  <2>1. c.valid = FALSE
    BY <1>8, <1>14
  <2>2. /\ Superfluous(L) # {} /\ Expected(N, L) = R /\ c.openIndex = 0 /\ c.position \in Nat
    <3>1. N \in Nat
      BY <1>1
    <3>2. FailureExpected(N, L, c)
      BY <1>3, <1>7, <2>1, <3>1, FailedVerdict
    <3>3. QED
      BY <3>2 DEF FailureExpected
  <2>3. (c.openIndex > 0) = FALSE
    BY <2>2, SMT
  <2>4. out' = Append(out, R)
    BY <1>12, <1>14, <2>3 DEF printStatus
  <2>5. R \in ReportType /\ R.ok = FALSE
    BY <1>1, <2>2 DEF ReportType
  <2>6. Reportable(text, N)
    BY <1>1, <1>12, <2>2 DEF Reportable
  <2> HIDE DEF R
  <2>7. allOk' = (allOk /\ R.ok)
    BY <1>14, <2>5
  <2>8. Reportable(text, Len(out) + 1) /\ R = Expected(Len(out) + 1, Line(text, Len(out) + 1))
    BY <1>12, <1>13, <2>2, <2>6
  <2>9. out' \in Seq(ReportType) /\ Len(out') = Len(out) + 1 /\ Reported' /\ AllOk'
    BY <1>1, <1>6, <2>4, <2>5, <2>7, <2>8, ReportStep
  <2>10. Begin' = b /\ End' = e /\ lineCounter' = N /\ Len(out') = N
    BY <1>11, <1>12, <1>13, <1>14, <2>9
  <2>11. pc' \in {"skip", "skipped"} /\ (pc' = "skip" => newLineFound = FALSE) /\ (pc' = "skipped" => newLineFound = TRUE)
    BY <1>5, <1>14
  <2>12. Place'
    <3>1. pc' = "skip" => b <= Len(text') /\ Len(out') = lineCounter' /\ b <= At' /\ At' < e
      BY <1>1, <1>3, <1>5, <1>6, <2>10, <2>11, SMT
    <3>2. pc' = "skipped" => Len(out') = lineCounter' /\ At' = e /\ e <= Len(text')
      BY <1>5, <1>6, <2>10, <2>11
    <3>3. QED
      BY <2>10, <2>11, <3>1, <3>2 DEF Place
  <2>13. QED
    BY <1>1, <1>6, <1>10, <2>9, <2>10, <2>11, <2>12 DEF IInv
<1>15. CASE /\ c.valid /\ newLineFound
            /\ printStatus(done(c), c)
            /\ allOk' = (allOk /\ done(c))
            /\ checker' = Fresh
            /\ lineCounter' = lineCounter + 1
            /\ pc' = "read"
  <2> DEFINE g == (c.openIndex = 0)
             h == (c.openIndex > 0)
             q == IF c.openIndex = 0 THEN 0 ELSE c.position
             R == [line |-> N, ok |-> g, position |-> q, lack |-> h]
  <2>1. c.valid = TRUE /\ newLineFound = TRUE
    BY <1>5, <1>8, <1>15
  <2>2. y = e - 1 /\ At = e /\ e <= Len(text) /\ m = Len(L)
    <3>1. y = e - 1 /\ At = e /\ e <= Len(text)
      BY <1>5, <2>1
    <3>2. m = Len(L)
      BY <1>3, <3>1 DEF m
    <3>3. QED
      BY <3>1, <3>2
  <2>3. Expected(N, L) = R /\ c.openIndex \in Nat /\ c.position \in Nat
    <3>1. N \in Nat
      BY <1>1
    <3>2. VerdictExpected(N, L, c)
      BY <1>3, <1>7, <2>1, <2>2, <3>1, LineVerdict
    <3>3. QED
      BY <3>2 DEF VerdictExpected
  <2>4. out' = Append(out, R)
    BY <1>12, <1>15 DEF printStatus, done
  <2>5. allOk' = (allOk /\ g)
    BY <1>15 DEF done
  <2>6. q \in Nat /\ g \in BOOLEAN /\ h \in BOOLEAN
    BY <2>3, SMT
  <2> HIDE DEF g, h, q
  <2>7. R \in ReportType /\ R.ok = g
    BY <1>1, <2>6 DEF ReportType
  <2>8. Reportable(text, N)
    BY <1>12, <2>2 DEF Reportable
  <2> HIDE DEF R
  <2>9. allOk' = (allOk /\ R.ok)
    BY <2>5, <2>7
  <2>10. Reportable(text, Len(out) + 1) /\ R = Expected(Len(out) + 1, Line(text, Len(out) + 1))
    BY <1>12, <1>13, <2>3, <2>8
  <2>11. out' \in Seq(ReportType) /\ Len(out') = Len(out) + 1 /\ Reported' /\ AllOk'
    BY <1>1, <1>6, <2>4, <2>7, <2>9, <2>10, ReportStep
  <2>12. lineCounter' = N + 1 /\ lineCounter' \in Nat \ {0} /\ lineCounter' - 1 = N /\ Len(out') = N
    <3>1. lineCounter' = N + 1
      BY <1>12, <1>15
    <3>2. Len(out') = K + 1
      BY <1>12, <2>11
    <3>3. QED
      BY <1>1, <1>13, <3>1, <3>2, SMT
  <2>13. Begin' = e /\ End' = Ends(text)[N + 1]
    BY <1>11, <1>12, <2>12
  <2>14. End' = NextEnd(text, e) /\ End' \in Nat /\ e < End'
    <3>1. Ends(text)[N + 1] = NextEnd(text, Ends(text)[N])
      BY <1>1, EndsRecursion
    <3>2. NextEnd(text, e) \in Nat /\ e < NextEnd(text, e)
      BY <1>1, <1>3, <2>2, EndOfLine
    <3>3. QED
      BY <1>12, <2>13, <3>1, <3>2
  <2>15. CheckerIs(checker', Current', At' - Begin') /\ checker'.valid = TRUE
    <3>1. At' - Begin' = 0
      BY <1>3, <1>6, <2>2, <2>13, SMT
    <3>2. CheckerIs(Fresh, Current', 0)
      BY FreshIs
    <3>3. Fresh.valid = TRUE
      BY DEF Fresh
    <3>4. QED
      BY <1>15, <3>1, <3>2, <3>3
  <2>16. pc' = "read" /\ Begin' <= Len(text') /\ Begin' <= At' /\ At' < End'
    BY <1>3, <1>6, <1>15, <2>2, <2>13, <2>14, SMT
  <2>17. Place'
    BY <2>12, <2>15, <2>16 DEF Place
  <2>18. QED
    BY <1>6, <1>10, <2>11, <2>12, <2>16, <2>17 DEF IInv
<1>16. CASE /\ c.valid /\ ~ newLineFound
            /\ checker' = c
            /\ pc' = "read"
            /\ lineCounter' = lineCounter /\ allOk' = allOk /\ out' = out
  <2>1. c.valid = TRUE /\ At = y
    BY <1>5, <1>8, <1>16
  <2>2. Begin' = b /\ End' = e /\ Current' = L /\ lineCounter' = N
    BY <1>11, <1>12, <1>16
  <2>3. AllOk' /\ Reported'
    BY <1>1, <1>6, <1>16 DEF AllOk, Reported
  <2>4. CheckerIs(checker', L, At' - b)
    BY <1>6, <1>7, <1>16, <2>1 DEF m
  <2>5. b <= At' /\ At' < e
    BY <1>3, <1>5, <1>6, <2>1, SMT
  <2>6. Place'
    <3>1. b <= Len(text') /\ Len(out') = lineCounter' - 1 /\ checker'.valid = TRUE
      BY <1>1, <1>6, <1>12, <1>16, <2>1, <2>2
    <3>2. QED
      BY <1>16, <2>2, <2>4, <2>5, <3>1 DEF Place
  <2>7. QED
    BY <1>1, <1>6, <1>10, <1>16, <2>2, <2>3, <2>6 DEF IInv
<1>17. QED
  BY <1>9, <1>14, <1>15, <1>16

\* What the steps that read have in common.
LEMMA ReadKeeps ==
    ASSUME IInv, text' = text, out' = out, allOk' = allOk
    PROVE  /\ text \in Seq(STRING) /\ Len(text) \in Nat
           /\ lineCounter \in Nat \ {0} /\ lineCounter \in Nat /\ InputOk
           /\ out' \in Seq(ReportType) /\ AllOk' /\ Reported'
           /\ (pc' # "exited" => ExitTells')
           /\ Begin' = Ends(text)[lineCounter' - 1] /\ End' = Ends(text)[lineCounter']
           /\ Current' = Line(text, lineCounter')
           /\ At \in Nat
<1>1. text \in Seq(STRING) /\ lineCounter \in Nat \ {0} /\ InputOk /\ AllOk /\ Reported /\ out \in Seq(ReportType)
  BY DEF IInv, InputOk
<1>2. AllOk' /\ Reported'
  BY <1>1 DEF AllOk, Reported
<1>3. (pc' # "exited" => ExitTells')
  BY DEF ExitTells
<1>4. Begin' = Ends(text)[lineCounter' - 1] /\ End' = Ends(text)[lineCounter'] /\ Current' = Line(text, lineCounter')
  BY DEF Begin, End, Current
<1>5. Len(text) \in Nat /\ At \in Nat
  BY <1>1, AtTyped, SMT
<1>6. QED
  BY <1>1, <1>2, <1>3, <1>4, <1>5

\* Nothing is left to report beyond the end of the text.
LEMMA NoMoreLines ==
    ASSUME NEW t \in Seq(STRING), NEW n \in Nat, Ends(t)[n] > Len(t)
    PROVE  ~ Reportable(t, n + 1)
<1>1. Ends(t)[n] \in Nat /\ Ends(t)[n + 1] = NextEnd(t, Ends(t)[n]) /\ Len(t) \in Nat
  <2>1. /\ Ends(t) \in [Nat -> Nat]
        /\ \A k \in Nat : Ends(t)[k + 1] = NextEnd(t, Ends(t)[k])
    BY EndsRecursion
  <2>2. Len(t) \in Nat
    BY SMT
  <2>3. QED
    BY <2>1, <2>2
<1> DEFINE i == Ends(t)[n]
           j == Ends(t)[n + 1]
<1>2. j \in Nat /\ (j <= Len(t) => i < j)
  BY <1>1, EndOfLine
<1>3. n + 1 - 1 = n
  BY SMT
<1>4. i \in Nat /\ i > Len(t)
  BY <1>1
<1> HIDE DEF i, j
<1>5. ~ (j <= Len(t)) /\ ~ (i <= Len(t))
  BY <1>1, <1>2, <1>4, SMT
<1>6. QED
  BY <1>3, <1>5, SMT DEF Reportable, i, j

LEMMA ReadKeepsIInv ==
    ASSUME IInv, Read
    PROVE  IInv'
<1> DEFINE N == lineCounter
           b == Begin
           e == End
           L == Current
<1>1. /\ text' = text /\ out' = out /\ allOk' = allOk /\ lineCounter' = N /\ checker' = checker
      /\ pc = "read" /\ readAndDetectNewline /\ Continue
  BY DEF Read, verdict
<1>2. /\ text \in Seq(STRING) /\ Len(text) \in Nat
      /\ lineCounter \in Nat \ {0} /\ lineCounter \in Nat /\ InputOk
      /\ out' \in Seq(ReportType) /\ AllOk' /\ Reported'
      /\ (pc' # "exited" => ExitTells')
      /\ At \in Nat
  BY <1>1, ReadKeeps
<1>3. Begin' = b /\ End' = e /\ Current' = L
  BY <1>1 DEF Begin, End, Current
<1>4. /\ b <= Len(text) /\ Len(out) = N - 1 /\ b <= At /\ At < e
      /\ CheckerIs(checker, L, At - b) /\ checker.valid = TRUE
  BY <1>1 DEF IInv, Place
<1>5. /\ b \in Nat /\ e \in Nat /\ e = NextEnd(text, b) /\ b < e /\ e <= Len(text) + 1
      /\ L \in Seq(STRING) /\ Len(L) = e - 1 - b
  BY <1>2, <1>4, Here
<1>6. InputOk' /\ (GivesNothing \/ GivesTheEnd(e) \/ GivesAPart(e))
  BY <1>1, <1>2, <1>4, <1>5, ReadStep
<1>7. L = Line(text, N) /\ b = Ends(text)[N - 1] /\ e = Ends(text)[N]
  BY DEF Begin, End, Current
<1>8. pc' = IF line' = NULL THEN "end" ELSE "validate"
  BY <1>1 DEF Continue
<1> HIDE DEF b, e, L
<1>9. CASE GivesNothing
  <2>1. pc' = "end" /\ (errno' = FALSE => At = Len(text)) /\ errno' \in BOOLEAN
    BY <1>6, <1>8, <1>9 DEF GivesNothing, InputOk
  <2>2. ASSUME At = Len(text)
        PROVE  ~ Reportable(text, Len(out) + 1)
    <3>1. e > Len(text) /\ At - b = Len(L) /\ Len(out) + 1 = N
      <4>1. e \in Nat /\ b \in Nat /\ At \in Nat /\ e <= At + 1 /\ At < e /\ Len(L) = e - 1 - b
        BY <1>2, <1>4, <1>5, <2>2
      <4>2. e = At + 1 /\ At - b = Len(L)
        BY <4>1, SMT
      <4>3. Len(out) = N - 1 /\ N \in Nat
        BY <1>2, <1>4
      <4>4. QED
        BY <1>2, <2>2, <4>1, <4>2, <4>3, SMT
    <3>2. N \in Nat
      BY <1>2
    <3>3. VerdictExpected(N, L, checker)
      BY <1>4, <1>5, <3>1, <3>2, LineVerdict
    <3>4. Superfluous(L) = {}
      BY <3>3 DEF VerdictExpected
    <3>5. ~ (e <= Len(text))
      BY <1>2, <1>5, <3>1, SMT
    <3>6. ~ Reportable(text, N)
      BY <1>7, <3>4, <3>5 DEF Reportable
    <3>7. QED
      BY <3>1, <3>6
  <2>3. Place'
    <3>1. errno' = TRUE \/ ~ Reportable(text', Len(out') + 1)
      BY <1>1, <2>1, <2>2
    <3>2. QED
      BY <2>1, <3>1 DEF Place
  <2>4. QED
    BY <1>1, <1>2, <1>6, <2>1, <2>3 DEF IInv
<1>10. CASE GivesTheEnd(e) \/ GivesAPart(e)
  <2>1. PICK y \in Nat : /\ line' = {SubSeq(text, At + 1, y)} /\ At <= y /\ y < e
                         /\ \/ newLineFound' = TRUE /\ y = e - 1 /\ At' = e /\ e <= Len(text)
                            \/ newLineFound' = FALSE /\ At' = y
    <3>1. CASE GivesTheEnd(e)
      <4>1. e - 1 \in Nat /\ At <= e - 1 /\ e - 1 < e
        BY <1>2, <1>4, <1>5, SMT
      <4>2. QED
        BY <3>1, <4>1 DEF GivesTheEnd
    <3>2. CASE GivesAPart(e)
      <4>1. At' \in Nat /\ At <= At' /\ At' < e
        BY <1>2, <3>2, SMT DEF GivesAPart
      <4>2. QED
        BY <3>2, <4>1 DEF GivesAPart
    <3>3. QED
      BY <1>10, <3>1, <3>2
  <2>2. pc' = "validate"
    BY <1>8, <2>1 DEF NULL
  <2>3. \E x, z \in Nat : ToValidate(x, z)'
    <3>1. PICK x \in Nat : x = At
      BY <1>2
    <3>2. /\ line' = {SubSeq(text', x + 1, y)}
          /\ Begin' <= x /\ x <= y /\ y < End'
          /\ CheckerIs(checker', Current', x - Begin')
          /\ checker'.valid = TRUE
          /\ \/ newLineFound' = TRUE /\ y = End' - 1 /\ At' = End' /\ End' <= Len(text')
             \/ newLineFound' = FALSE /\ At' = y
      BY <1>1, <1>3, <1>4, <2>1, <3>1
    <3>3. ToValidate(x, y)'
      BY <3>2 DEF ToValidate
    <3>4. QED
      BY <3>3
  <2>4. Place'
    <3>1. b <= Len(text') /\ Len(out') = lineCounter' - 1
      BY <1>1, <1>4
    <3>2. QED
      BY <1>3, <2>2, <2>3, <3>1 DEF Place
  <2>5. QED
    BY <1>1, <1>2, <1>6, <2>2, <2>4 DEF IInv
<1>11. QED
  BY <1>6, <1>9, <1>10

LEMMA SkipKeepsIInv ==
    ASSUME IInv, Skip
    PROVE  IInv'
<1> DEFINE N == lineCounter
           b == Begin
           e == End
<1>1. /\ text' = text /\ out' = out /\ allOk' = allOk
      /\ pc = "skip" /\ readAndDetectNewline
      /\ IF line' = NULL
         THEN pc' = "end" /\ lineCounter' = N + 1
         ELSE pc' = (IF newLineFound' THEN "skipped" ELSE "skip") /\ lineCounter' = N
  BY DEF Skip
<1>2. /\ text \in Seq(STRING) /\ Len(text) \in Nat
      /\ lineCounter \in Nat \ {0} /\ N \in Nat /\ InputOk
      /\ out' \in Seq(ReportType) /\ AllOk' /\ Reported'
      /\ (pc' # "exited" => ExitTells')
      /\ At \in Nat
  BY <1>1, ReadKeeps
<1>3. Begin' = Ends(text)[lineCounter' - 1] /\ End' = Ends(text)[lineCounter']
  BY <1>1 DEF Begin, End
<1>4. b <= Len(text) /\ Len(out) = N /\ b <= At /\ At < e
  BY <1>1 DEF IInv, Place
<1>5. b \in Nat /\ e \in Nat /\ e = NextEnd(text, b) /\ b < e /\ e <= Len(text) + 1
  BY <1>2, <1>4, Here
<1>6. InputOk' /\ (GivesNothing \/ GivesTheEnd(e) \/ GivesAPart(e))
  BY <1>1, <1>2, <1>4, <1>5, ReadStep
<1>7. b = Ends(text)[N - 1] /\ e = Ends(text)[N]
  BY DEF Begin, End
<1> HIDE DEF b, e, N
<1>8. CASE GivesNothing
  <2>1. pc' = "end" /\ lineCounter' = N + 1 /\ (errno' = FALSE => At = Len(text)) /\ errno' \in BOOLEAN
    BY <1>1, <1>6, <1>8 DEF GivesNothing, InputOk
  <2>2. ASSUME At = Len(text)
        PROVE  ~ Reportable(text, Len(out) + 1)
    <3>1. Ends(text)[N] > Len(text)
      BY <1>2, <1>4, <1>5, <1>7, <2>2
    <3>2. QED
      BY <1>2, <1>4, <3>1, NoMoreLines
  <2>3. Place'
    <3>1. errno' = TRUE \/ ~ Reportable(text', Len(out') + 1)
      BY <1>1, <2>1, <2>2
    <3>2. QED
      BY <2>1, <3>1 DEF Place
  <2>4. lineCounter' \in Nat \ {0}
    BY <1>2, <2>1, SMT
  <2>5. QED
    BY <1>2, <1>6, <2>1, <2>3, <2>4 DEF IInv
<1>9. CASE GivesTheEnd(e)
  <2>1. line' # NULL /\ newLineFound' = TRUE /\ At' = e /\ e <= Len(text)
    BY <1>9 DEF GivesTheEnd, NULL
  <2>2. pc' = "skipped" /\ lineCounter' = N
    BY <1>1, <2>1
  <2>3. End' = e /\ Len(out') = lineCounter'
    BY <1>1, <1>3, <1>4, <1>7, <2>2
  <2>4. Place'
    BY <1>1, <2>1, <2>2, <2>3 DEF Place
  <2>5. QED
    BY <1>2, <1>6, <2>2, <2>4 DEF IInv, N
<1>10. CASE GivesAPart(e)
  <2>1. line' # NULL /\ newLineFound' = FALSE /\ At' < e /\ At' > At /\ At' \in Nat
    BY <1>10 DEF GivesAPart, NULL
  <2>2. pc' = "skip" /\ lineCounter' = N
    BY <1>1, <2>1
  <2>3. Begin' = b /\ End' = e /\ Len(out') = lineCounter'
    BY <1>1, <1>3, <1>4, <1>7, <2>2
  <2>4. b <= At'
    BY <1>2, <1>4, <1>5, <2>1, SMT
  <2>5. Place'
    BY <1>1, <1>4, <2>1, <2>2, <2>3, <2>4 DEF Place
  <2>6. QED
    BY <1>2, <1>6, <2>2, <2>5 DEF IInv, N
<1>11. QED
  BY <1>6, <1>8, <1>9, <1>10

LEMMA SkippedKeepsIInv ==
    ASSUME IInv, Skipped
    PROVE  IInv'
<1> DEFINE N == lineCounter
           b == End
           e == NextEnd(text, End)
<1>1. /\ text' = text /\ out' = out /\ allOk' = allOk /\ lineCounter' = N + 1 /\ checker' = Fresh
      /\ pc = "skipped" /\ readAndDetectNewline /\ Continue
  BY DEF Skipped, reset
<1>2. /\ text \in Seq(STRING) /\ Len(text) \in Nat
      /\ lineCounter \in Nat \ {0} /\ N \in Nat /\ InputOk
      /\ out' \in Seq(ReportType) /\ AllOk' /\ Reported'
      /\ (pc' # "exited" => ExitTells')
      /\ At \in Nat
  BY <1>1, ReadKeeps
<1>3. Len(out) = N /\ At = b /\ b <= Len(text) /\ b \in Nat
  BY <1>1, <1>2 DEF IInv, Place
<1>4. Begin' = b /\ End' = e
  <2>1. lineCounter' - 1 = N
    BY <1>1, <1>2, SMT
  <2>2. Ends(text)[N + 1] = NextEnd(text, Ends(text)[N])
    BY <1>2, EndsRecursion
  <2>3. QED
    BY <1>1, <2>1, <2>2 DEF Begin, End
<1>5. e \in Nat /\ b < e /\ e <= Len(text) + 1
  BY <1>2, <1>3, EndOfLine
<1>6. InputOk' /\ (GivesNothing \/ GivesTheEnd(e) \/ GivesAPart(e))
  <2>1. b <= At /\ At < NextEnd(text, b)
    BY <1>2, <1>3, <1>5, SMT
  <2>2. QED
    BY <1>1, <1>2, <1>3, <2>1, ReadStep
<1>7. pc' = IF line' = NULL THEN "end" ELSE "validate"
  BY <1>1 DEF Continue
<1>8. b = Ends(text)[N] /\ Ends(text)[N + 1] = e
  <2>1. Ends(text)[N + 1] = NextEnd(text, Ends(text)[N])
    BY <1>2, EndsRecursion
  <2>2. QED
    BY <2>1 DEF End
<1>9. lineCounter' \in Nat \ {0}
  BY <1>1, <1>2, SMT
<1> HIDE DEF b, e, N
<1>10. CASE GivesNothing
  <2>1. pc' = "end" /\ (errno' = FALSE => At = Len(text)) /\ errno' \in BOOLEAN
    BY <1>6, <1>7, <1>10 DEF GivesNothing, InputOk
  <2>2. ASSUME At = Len(text)
        PROVE  ~ Reportable(text, N + 1)
    <3>1. b = Len(text) /\ e = Len(text) + 1 /\ e - 1 = Len(text) /\ ~ (e <= Len(text))
      BY <1>2, <1>3, <1>5, <2>2, SMT
    <3>2. N + 1 - 1 = N
      BY <1>2, SMT
    <3>3. Line(text, N + 1) = SubSeq(text, Len(text) + 1, Len(text))
      <4> DEFINE k == N + 1
                 i == Ends(text)[k - 1]
                 j == Ends(text)[k]
      <4>1. k - 1 = N
        BY <1>2, SMT
      <4>2. j - 1 = Len(text)
        BY <1>8, <3>1
      <4> HIDE DEF k
      <4>3. i = Len(text)
        BY <1>8, <3>1, <4>1
      <4>4. Line(text, k) = SubSeq(text, i + 1, j - 1)
        BY DEF Line
      <4> HIDE DEF i, j
      <4>5. Line(text, k) = SubSeq(text, Len(text) + 1, Len(text))
        BY <4>2, <4>3, <4>4
      <4>6. QED
        BY <4>5 DEF k
    <3>4. SubSeq(text, Len(text) + 1, Len(text)) = <<>>
      BY <1>2, SubSeqEmpty, SMT
    <3>5. Superfluous(Line(text, N + 1)) = {}
      BY <3>3, <3>4, SMT DEF Superfluous
    <3>6. QED
      BY <1>8, <3>1, <3>5 DEF Reportable
  <2>3. Place'
    <3>1. errno' = TRUE \/ ~ Reportable(text', Len(out') + 1)
      BY <1>1, <1>3, <2>1, <2>2
    <3>2. QED
      BY <2>1, <3>1 DEF Place
  <2>4. QED
    BY <1>2, <1>6, <1>9, <2>1, <2>3 DEF IInv
<1>11. CASE GivesTheEnd(e) \/ GivesAPart(e)
  <2>1. PICK y \in Nat : /\ line' = {SubSeq(text, b + 1, y)} /\ b <= y /\ y < e
                         /\ \/ newLineFound' = TRUE /\ y = e - 1 /\ At' = e /\ e <= Len(text)
                            \/ newLineFound' = FALSE /\ At' = y
    <3>1. CASE GivesTheEnd(e)
      <4>1. e - 1 \in Nat /\ b <= e - 1 /\ e - 1 < e
        BY <1>3, <1>5, SMT
      <4>2. QED
        BY <1>3, <3>1, <4>1 DEF GivesTheEnd
    <3>2. CASE GivesAPart(e)
      <4>1. At' \in Nat /\ b <= At' /\ At' < e
        BY <1>3, <3>2, SMT DEF GivesAPart
      <4>2. QED
        BY <1>3, <3>2, <4>1 DEF GivesAPart
    <3>3. QED
      BY <1>11, <3>1, <3>2
  <2>2. pc' = "validate"
    BY <1>7, <2>1 DEF NULL
  <2>3. CheckerIs(checker', Current', b - b) /\ checker'.valid = TRUE
    <3>1. b - b = 0
      BY <1>3, SMT
    <3>2. CheckerIs(Fresh, Current', 0) /\ Fresh.valid = TRUE
      BY FreshIs DEF Fresh
    <3>3. QED
      BY <1>1, <3>1, <3>2
  <2>4. \E x, z \in Nat : ToValidate(x, z)'
    <3>1. PICK x \in Nat : x = b
      BY <1>3
    <3>2. /\ line' = {SubSeq(text', x + 1, y)}
          /\ Begin' <= x /\ x <= y /\ y < End'
          /\ CheckerIs(checker', Current', x - Begin')
          /\ checker'.valid = TRUE
          /\ \/ newLineFound' = TRUE /\ y = End' - 1 /\ At' = End' /\ End' <= Len(text')
             \/ newLineFound' = FALSE /\ At' = y
      BY <1>1, <1>3, <1>4, <2>1, <2>3, <3>1, SMT
    <3>3. ToValidate(x, y)'
      BY <3>2 DEF ToValidate
    <3>4. QED
      BY <3>3
  <2>5. Place'
    <3>1. b <= Len(text') /\ Len(out') = lineCounter' - 1
      BY <1>1, <1>2, <1>3, SMT
    <3>2. QED
      BY <1>4, <2>2, <2>4, <3>1 DEF Place
  <2>6. QED
    BY <1>2, <1>6, <1>9, <2>2, <2>5 DEF IInv
<1>12. QED
  BY <1>6, <1>10, <1>11

LEMMA NextIInv ==
    ASSUME IInv, [Next]_vars
    PROVE  IInv'
<1>1. CASE Validate
  BY <1>1, ValidateStep
<1>2. CASE Read
  BY <1>2, ReadKeepsIInv
<1>3. CASE Skip
  BY <1>3, SkipKeepsIInv
<1>4. CASE Skipped
  BY <1>4, SkippedKeepsIInv
<1>5. CASE Exit
  <2>1. /\ pc = "end" /\ pc' = "exited" /\ text' = text /\ UNCHANGED input /\ UNCHANGED verdict
        /\ status' = {IF errno THEN RET_READ_FAILURE ELSE IF allOk THEN RET_OK ELSE RET_NOT_ALL_OK}
    BY <1>5 DEF Exit
  <2>2. /\ unread' = unread /\ errno' = errno /\ buffer' = buffer /\ prevNewline' = prevNewline
        /\ lineCounter' = lineCounter /\ allOk' = allOk /\ out' = out
    BY <2>1 DEF input, verdict
  <2>3. /\ InputOk /\ lineCounter \in Nat \ {0} /\ out \in Seq(ReportType) /\ AllOk /\ Reported
        /\ (errno = TRUE \/ ~ Reportable(text, Len(out) + 1)) /\ errno \in BOOLEAN
    BY <2>1 DEF IInv, Place, InputOk
  <2>4. InputOk'
    BY <2>1, <2>2, <2>3 DEF InputOk, ReadSoFar
  <2>5. AllOk' /\ Reported'
    BY <2>1, <2>2, <2>3 DEF AllOk, Reported
  <2>6. Place'
    BY <2>1 DEF Place
  <2>7. ExitTells'
    <3>1. CASE errno
      BY <2>1, <2>2, <3>1 DEF ExitTells
    <3>2. CASE ~ errno
      <4>1. ~ Reportable(text, Len(out) + 1)
        BY <2>3, <3>2
      <4>2. status' = {IF \A i \in DOMAIN out' : out'[i].ok THEN RET_OK ELSE RET_NOT_ALL_OK}
        BY <2>1, <2>2, <2>3, <3>2 DEF AllOk
      <4>3. QED
        BY <2>1, <2>2, <3>2, <4>1, <4>2 DEF ExitTells
    <3>3. QED
      BY <3>1, <3>2
  <2>8. QED
    BY <2>1, <2>2, <2>3, <2>4, <2>5, <2>6, <2>7 DEF IInv
<1>6. CASE UNCHANGED vars
  <2>1. UNCHANGED <<text, unread, errno, buffer, prevNewline, line, newLineFound, checker, lineCounter, allOk, out, pc, status>>
    BY <1>6 DEF vars, input, verdict
  <2>2. ReadSoFar' = ReadSoFar /\ Begin' = Begin /\ End' = End /\ Current' = Current
    BY <2>1 DEF ReadSoFar, Begin, End, Current
  <2>3. At' = At
    BY <2>1, <2>2 DEF At
  <2>4. InputOk' = InputOk /\ AllOk' = AllOk /\ Reported' = Reported /\ ExitTells' = ExitTells
    BY <2>1, <2>2 DEF InputOk, AllOk, Reported, ExitTells
  <2>5. \A x, y \in Nat : ToValidate(x, y)' = ToValidate(x, y)
    BY <2>1, <2>2, <2>3 DEF ToValidate
  <2>6. Place => Place'
    BY <2>1, <2>2, <2>3, <2>5 DEF Place
  <2>7. QED
    BY <2>1, <2>4, <2>6 DEF IInv
<1>7. QED
  BY <1>1, <1>2, <1>3, <1>4, <1>5, <1>6 DEF Next

-----------------------------------------------------------------------------
(* The theorems.                                                           *)

\* The invariant holds throughout.
THEOREM Invariance == Spec => []IInv
<1>1. Init => IInv
  BY InitIInv
<1>2. IInv /\ [Next]_vars => IInv'
  BY NextIInv
<1>3. QED
  BY <1>1, <1>2, PTL DEF Spec

\* Every line is reported once, in order and as the test expects it, for every text
\* and every buffer size, however read cuts the text (Input.cpp,
\* ParenthesisChecker.cpp).
THEOREM LinesReported == Spec => []Reported
<1>1. IInv => Reported
  BY DEF IInv
<1>2. QED
  BY <1>1, Invariance, PTL

\* The exit code tells a read failure from the end of the text, and at the end of
\* the text nothing is left to report and the code tells whether all was well
\* (main).
THEOREM ExitCodeTells == Spec => []ExitTells
<1>1. IInv => ExitTells
  BY DEF IInv
<1>2. QED
  BY <1>1, Invariance, PTL
=============================================================================
