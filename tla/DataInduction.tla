---------------------------- MODULE DataInduction ----------------------------
(***************************************************************************)
(* Induction and recursion over the natural numbers, with sets and         *)
(* functions where the library's theorems take an operator as a parameter: *)
(* a property is the set of the numbers that have it, a recursive          *)
(* definition's step a function.                                           *)
(***************************************************************************)
EXTENDS Integers, SequencesExt, SequenceTheorems, WellFoundedInduction, TLAPS

\* A set of natural numbers that is not empty has a least element.
LEMMA LeastNatural ==
    ASSUME NEW T \in SUBSET Nat, T # {}
    PROVE  \E x \in T : \A y \in T : x <= y
<1> DEFINE R == {ss \in Nat \X Nat : ss[1] < ss[2]}
<1>1. IsWellFoundedOn(R, Nat)
    BY NatLessThanWellFounded DEF OpToRel
<1>2. PICK x \in T : \A y \in T : <<y, x>> \notin R
    <2> HIDE DEF R
    <2> QED
        BY <1>1, WFMin
<1>3. \A y \in T : ~(y < x)
    BY <1>2
<1> QED
    BY <1>3

\* Induction: a set that contains 0 and, with a number, the next one contains all.
LEMMA NaturalInduction ==
    ASSUME NEW T, 0 \in T, \A n \in Nat : n \in T => n + 1 \in T
    PROVE  \A n \in Nat : n \in T
<1> SUFFICES ASSUME NEW m \in Nat, m \notin T
             PROVE  FALSE
    OBVIOUS
<1> DEFINE Others == {n \in Nat : n \notin T}
<1>1. PICK least \in Others : \A y \in Others : least <= y
    <2>1. Others # {} /\ Others \in SUBSET Nat
        OBVIOUS
    <2> HIDE DEF Others
    <2> QED
        BY <2>1, LeastNatural
<1>2. least # 0 /\ least \in Nat /\ least \notin T
    OBVIOUS
<1>3. least - 1 \in Nat /\ least - 1 \notin Others
    BY <1>1, <1>2
<1>4. (least - 1) + 1 \in T
    BY <1>3
<1> QED
    BY <1>2, <1>4

\* The same up to a bound.
LEMMA BoundedInduction ==
    ASSUME NEW N \in Nat, NEW T, 0 \in T, \A n \in 0 .. N - 1 : n \in T => n + 1 \in T
    PROVE  \A n \in 0 .. N : n \in T
<1> DEFINE U == {n \in Nat : n <= N => n \in T}
<1>1. 0 \in U
    OBVIOUS
<1>2. \A n \in Nat : n \in U => n + 1 \in U
    OBVIOUS
<1>3. \A n \in Nat : n \in U
    <2> HIDE DEF U
    <2> QED
        BY <1>1, <1>2, NaturalInduction
<1> QED
    BY <1>3

\* f begins with a, and each of its values comes from the one before.
Recurses(f, S, a, step, n) ==
    /\ f \in [0 .. n -> S]
    /\ f[0] = a
    /\ \A i \in 1 .. n : f[i] = step[<<i, f[i - 1]>>]

\* Primitive recursion on 0 .. n defines a function.
LEMMA PrimitiveRecursion ==
    ASSUME NEW S, NEW a \in S, NEW step \in [Nat \X S -> S], NEW n \in Nat
    PROVE  \E f : Recurses(f, S, a, step, n)
<1> DEFINE Is(f, m) == f[0] = a /\ \A i \in 1 .. m : f[i] = step[<<i, f[i - 1]>>]
           T == {m \in Nat : \E f \in [0 .. m -> S] : Is(f, m)}
<1>1. 0 \in T
    <2>1. [k \in 0 .. 0 |-> a] \in [0 .. 0 -> S] /\ Is([k \in 0 .. 0 |-> a], 0)
        OBVIOUS
    <2> QED
        BY <2>1
<1>2. ASSUME NEW m \in Nat, m \in T
      PROVE  m + 1 \in T
    <2>1. PICK f \in [0 .. m -> S] : Is(f, m)
        BY <1>2
    <2>2. f[m] \in S /\ <<m + 1, f[m]>> \in Nat \X S
        OBVIOUS
    <2> DEFINE b == step[<<m + 1, f[m]>>]
    <2>3. b \in S
        BY <2>2
    <2> HIDE DEF b
    <2> DEFINE g == [k \in 0 .. m + 1 |-> IF k = m + 1 THEN b ELSE f[k]]
    <2>4. g \in [0 .. m + 1 -> S]
        BY <2>3
    <2>5. g[0] = a
        BY <2>1
    <2>6. ASSUME NEW i \in 1 .. m + 1
          PROVE  g[i] = step[<<i, g[i - 1]>>]
        <3>1. CASE i = m + 1
            <4>1. g[i] = b /\ g[i - 1] = f[m] /\ i = m + 1
                BY <3>1
            <4> HIDE DEF g
            <4> QED
                BY <4>1 DEF b
        <3>2. CASE i # m + 1
            <4>1. i \in 1 .. m /\ g[i] = f[i] /\ g[i - 1] = f[i - 1]
                BY <3>2
            <4>2. f[i] = step[<<i, f[i - 1]>>]
                BY <4>1, <2>1
            <4> HIDE DEF g
            <4> QED
                BY <4>1, <4>2
        <3> QED
            BY <3>1, <3>2
    <2>7. Is(g, m + 1)
        <3> HIDE DEF g
        <3> QED
            BY <2>5, <2>6
    <2> HIDE DEF g, Is
    <2> QED
        BY <2>4, <2>7
<1>3. n \in T
    <2> HIDE DEF T
    <2> QED
        BY <1>1, <1>2, NaturalInduction
<1> QED
    BY <1>3 DEF Recurses

-----------------------------------------------------------------------------
\* F[k] is the concatenation of the first k of the sequences ss.
Concatenates(F, S, ss) ==
    /\ F \in [0 .. Len(ss) -> Seq(S)]
    /\ F[0] = <<>>
    /\ \A k \in 1 .. Len(ss) : F[k] = F[k - 1] \o ss[k]

\* FlattenSeq concatenates them all.
LEMMA FlattenConcatenates ==
    ASSUME NEW S, NEW ss \in Seq(Seq(S))
    PROVE  \E F : Concatenates(F, S, ss) /\ FlattenSeq(ss) = F[Len(ss)]
<1> DEFINE n == Len(ss)
           Q == Seq(S)
           step == [x \in Nat \X Q |-> IF x[1] \in 1 .. n THEN x[2] \o ss[x[1]] ELSE x[2]]
<1>1. n \in Nat /\ \A k \in 1 .. n : ss[k] \in Q
    BY LenProperties, ElementOfSeq
<1>2. \A x \in Q, y \in Q : x \o y \in Q
    BY ConcatProperties
<1>3. <<>> \in Q /\ \A x \in Q : <<>> \o x = x
    BY EmptySeq, ConcatEmptySeq
<1> HIDE DEF Q, n
<1>4. step \in [Nat \X Q -> Q]
    BY <1>1, <1>2
<1>5. PICK F \in [0 .. n -> Q] : F[0] = <<>> /\ \A i \in 1 .. n : F[i] = step[<<i, F[i - 1]>>]
    <2> DEFINE empty == <<>>
    <2>1. empty \in Q
        BY <1>3
    <2> HIDE DEF step, empty
    <2>2. \E F : Recurses(F, Q, empty, step, n)
        BY <1>1, <1>4, <2>1, PrimitiveRecursion
    <2> QED
        BY <2>2 DEF Recurses, empty
<1>6. \A i \in 1 .. n : F[i] = F[i - 1] \o ss[i]
    <2> SUFFICES ASSUME NEW i \in 1 .. n
                 PROVE  F[i] = F[i - 1] \o ss[i]
        OBVIOUS
    <2>1. i - 1 \in 0 .. n /\ F[i - 1] \in Q /\ i \in Nat
        BY <1>1
    <2>2. <<i, F[i - 1]>> \in Nat \X Q
        BY <2>1
    <2>3. step[<<i, F[i - 1]>>] = F[i - 1] \o ss[i]
        BY <2>2
    <2> QED
        BY <1>5, <2>3
<1> HIDE DEF step
<1>61. ASSUME NEW m \in 0 .. n - 1
       PROVE  F[m + 1] = F[m] \o ss[m + 1] /\ ss[m + 1] \in Q
    <2>1. m + 1 \in 1 .. n /\ (m + 1) - 1 = m
        BY <1>1
    <2>2. F[m + 1] = F[(m + 1) - 1] \o ss[m + 1]
        BY <1>6, <2>1
    <2>3. ss[m + 1] \in Q
        BY <1>1, <2>1
    <2> QED
        BY <2>1, <2>2, <2>3
<1>7. Concatenates(F, S, ss)
    BY <1>5, <1>6 DEF Concatenates, Q, n
<1>8. FlattenSeq(ss) = F[n]
    <2>1. CASE n = 0
        <3>1. ss = <<>>
            BY <2>1, EmptySeq DEF n
        <3> QED
            BY <1>5, <2>1, <3>1 DEF FlattenSeq, n
    <2>2. CASE n # 0
        <3> DEFINE Is(g) == g = [i \in 1 .. n |-> IF i = 1 THEN ss[i] ELSE g[i - 1] \o ss[i]]
                   flatten == CHOOSE g : Is(g)
        <3>1. FlattenSeq(ss) = flatten[n]
            BY <2>2 DEF FlattenSeq, n
        <3>2. Is([i \in 1 .. n |-> F[i]])
            <4> DEFINE g == [i \in 1 .. n |-> F[i]]
            <4>1. \A i \in 1 .. n : g[i] = IF i = 1 THEN ss[i] ELSE g[i - 1] \o ss[i]
                <5> SUFFICES ASSUME NEW i \in 1 .. n
                             PROVE  g[i] = IF i = 1 THEN ss[i] ELSE g[i - 1] \o ss[i]
                    OBVIOUS
                <5>1. g[i] = F[i] /\ F[i] = F[i - 1] \o ss[i] /\ ss[i] \in Q
                    BY <1>1, <1>6
                <5>2. CASE i = 1
                    <6>1. F[i - 1] = <<>>
                        BY <5>2, <1>5
                    <6>2. F[i] = ss[i]
                        BY <5>1, <6>1, <1>3
                    <6> HIDE DEF g
                    <6> QED
                        BY <5>1, <5>2, <6>2
                <5>3. CASE i # 1
                    <6>1. i - 1 \in 1 .. n
                        BY <5>3, <1>1
                    <6>2. g[i - 1] = F[i - 1]
                        BY <6>1
                    <6> HIDE DEF g
                    <6> QED
                        BY <5>1, <5>3, <6>2
                <5> QED
                    BY <5>2, <5>3
            <4> QED
                BY <4>1
        <3>3. Is(flatten)
            <4> HIDE DEF Is
            <4> QED
                BY <3>2
        <3> HIDE DEF flatten
        <3>30. \A i \in 1 .. n : flatten[i] = IF i = 1 THEN ss[i] ELSE flatten[i - 1] \o ss[i]
            BY <3>3, Zenon
        <3> DEFINE T == {m \in Nat : m \in 1 .. n => flatten[m] = F[m]}
        <3>4. 0 \in T
            OBVIOUS
        <3>5. \A m \in 0 .. n - 1 : m \in T => m + 1 \in T
            <4> SUFFICES ASSUME NEW m \in 0 .. n - 1, m \in T
                         PROVE  m + 1 \in T
                OBVIOUS
            <4>0. m + 1 \in 1 .. n /\ m + 1 - 1 = m /\ (m + 1 = 1 <=> m = 0)
                BY <1>1
            <4>1. flatten[m + 1] = IF m = 0 THEN ss[m + 1] ELSE flatten[m] \o ss[m + 1]
                BY <3>30, <4>0
            <4>2. F[m + 1] = F[m] \o ss[m + 1] /\ ss[m + 1] \in Q
                BY <1>61
            <4>3. CASE m = 0
                BY <4>1, <4>2, <4>3, <1>3, <1>5
            <4>4. CASE m # 0
                <5>1. m \in 1 .. n
                    BY <4>4, <1>1
                <5>2. flatten[m] = F[m]
                    BY <5>1
                <5>3. flatten[m + 1] = F[m + 1]
                    BY <4>1, <4>2, <4>4, <5>2
                <5> QED
                    BY <5>3, <1>1
            <4> QED
                BY <4>3, <4>4
        <3>6. n \in T
            <4> HIDE DEF T
            <4>1. \A k \in 0 .. n : k \in T
                BY <1>1, <3>4, <3>5, BoundedInduction
            <4> QED
                BY <4>1, <1>1
        <3> QED
            BY <1>1, <2>2, <3>1, <3>6
    <2> QED
        BY <2>1, <2>2
<1> QED
    BY <1>7, <1>8 DEF n

\* w has the elements of u, and then those of v.
Joins(w, u, v) ==
    /\ Len(w) = Len(u) + Len(v)
    /\ \A i \in 1 .. Len(u) : w[i] = u[i]
    /\ \A j \in 1 .. Len(v) : w[Len(u) + j] = v[j]

\* Two sequences joined by \o.
LEMMA ConcatParts ==
    ASSUME NEW S, NEW x \in Seq(S), NEW y \in Seq(S)
    PROVE  Joins(x \o y, x, y)
<1>1. /\ Len(x \o y) = Len(x) + Len(y)
      /\ \A i \in 1 .. Len(x) + Len(y) :
           (x \o y)[i] = IF i <= Len(x) THEN x[i] ELSE y[i - Len(x)]
    BY ConcatProperties
<1>2. Len(x) \in Nat /\ Len(y) \in Nat
    BY LenProperties
<1>3. ASSUME NEW j \in 1 .. Len(y)
      PROVE  (x \o y)[Len(x) + j] = y[j]
    <2>1. Len(x) + j \in 1 .. Len(x) + Len(y) /\ ~(Len(x) + j <= Len(x)) /\ (Len(x) + j) - Len(x) = j
        BY <1>2
    <2> QED
        BY <1>1, <2>1
<1> QED
    BY <1>1, <1>2, <1>3 DEF Joins

\* The parts of a concatenation: flat has the elements of ss[k] behind position at[k - 1].
Parts(at, S, ss, flat) ==
    /\ flat \in Seq(S)
    /\ at \in [0 .. Len(ss) -> Nat]
    /\ at[0] = 0 /\ at[Len(ss)] = Len(flat)
    /\ \A k \in 1 .. Len(ss) :
         /\ at[k] = at[k - 1] + Len(ss[k])
         /\ at[k] <= Len(flat)
         /\ \A j \in 1 .. Len(ss[k]) : flat[at[k - 1] + j] = ss[k][j]

\* What FlattenSeq returns, part by part.
LEMMA FlattenParts ==
    ASSUME NEW S, NEW ss \in Seq(Seq(S))
    PROVE  \E at : Parts(at, S, ss, FlattenSeq(ss))
<1> DEFINE n == Len(ss)
           Q == Seq(S)
<1>1. n \in Nat /\ \A k \in 1 .. n : ss[k] \in Q
    BY LenProperties, ElementOfSeq
<1>2. \A x \in Q : Len(x) \in Nat
    BY LenProperties
<1>3. \A x \in Q, y \in Q : Joins(x \o y, x, y)
    BY ConcatParts
<1>4. PICK F : Concatenates(F, S, ss) /\ FlattenSeq(ss) = F[Len(ss)]
    BY FlattenConcatenates
<1>5. /\ F \in [0 .. n -> Q] /\ F[0] = <<>>
      /\ \A k \in 1 .. n : F[k] = F[k - 1] \o ss[k]
    BY <1>4 DEF Concatenates
<1>6. Len(<<>>) = 0 /\ FlattenSeq(ss) = F[n]
    BY <1>4, EmptySeq
<1> HIDE DEF Q, n
<1>7. \A k \in 0 .. n : F[k] \in Q /\ Len(F[k]) \in Nat
    BY <1>2, <1>5
<1>8. \A k \in 1 .. n : Joins(F[k], F[k - 1], ss[k])
    <2> SUFFICES ASSUME NEW k \in 1 .. n
                 PROVE  Joins(F[k], F[k - 1], ss[k])
        OBVIOUS
    <2>1. k - 1 \in 0 .. n
        BY <1>1
    <2>2. F[k - 1] \in Q /\ ss[k] \in Q /\ F[k] = F[k - 1] \o ss[k]
        BY <1>1, <1>5, <1>7, <2>1
    <2> QED
        BY <1>3, <2>2
\* What is in F[k] stays at its place.
<1> DEFINE Within(k, m) == Len(F[k]) <= Len(F[m]) /\ \A i \in 1 .. Len(F[k]) : F[m][i] = F[k][i]
           T == {m \in Nat : m \in 0 .. n => \A k \in 0 .. m : Within(k, m)}
<1>9. 0 \in T
    BY <1>6, <1>7
<1>10. ASSUME NEW m \in 0 .. n - 1, m \in T
       PROVE  m + 1 \in T
    <2>1. m + 1 \in 1 .. n /\ m \in 0 .. n /\ (m + 1) - 1 = m
        BY <1>1
    <2>2. Joins(F[m + 1], F[m], ss[m + 1])
        <3>1. Joins(F[m + 1], F[(m + 1) - 1], ss[m + 1])
            BY <1>8, <2>1
        <3> QED
            BY <2>1, <3>1
    <2>3. Len(ss[m + 1]) \in Nat /\ Len(F[m]) \in Nat /\ Len(F[m + 1]) \in Nat
        BY <1>1, <1>2, <1>7, <2>1
    <2>4. ASSUME NEW k \in 0 .. m + 1
          PROVE  Within(k, m + 1)
        <3>1. CASE k = m + 1
            BY <2>3, <3>1
        <3>2. CASE k # m + 1
            <4>1. k \in 0 .. m
                BY <3>2
            <4>2. Within(k, m)
                BY <1>10, <2>1, <4>1
            <4>3. Len(F[k]) \in Nat
                BY <1>7, <2>1, <4>1
            <4> QED
                <5>1. /\ Len(F[m + 1]) = Len(F[m]) + Len(ss[m + 1])
                      /\ \A i \in 1 .. Len(F[m]) : F[m + 1][i] = F[m][i]
                    BY <2>2 DEF Joins
                <5>2. Len(F[k]) <= Len(F[m]) /\ \A i \in 1 .. Len(F[k]) : F[m][i] = F[k][i]
                    BY <4>2
                <5>3. Len(F[k]) <= Len(F[m + 1])
                    <6> DEFINE a == Len(F[k])
                               b == Len(F[m])
                               c == Len(ss[m + 1])
                               d == Len(F[m + 1])
                    <6>1. a \in Nat /\ b \in Nat /\ c \in Nat /\ d = b + c /\ a <= b
                        BY <2>3, <4>3, <5>1, <5>2
                    <6> HIDE DEF a, b, c, d
                    <6>2. a <= d
                        BY <6>1
                    <6> QED
                        BY <6>2 DEF a, d
                <5>4. ASSUME NEW i \in 1 .. Len(F[k])
                      PROVE  F[m + 1][i] = F[k][i]
                    <6>1. i \in 1 .. Len(F[m])
                        BY <2>3, <4>3, <5>2
                    <6> QED
                        BY <5>1, <5>2, <6>1
                <5> QED
                    BY <5>3, <5>4
        <3> QED
            BY <3>1, <3>2
    <2> HIDE DEF Within
    <2> QED
        BY <2>4
<1>11. \A k \in 0 .. n : Within(k, n)
    <2>1. \A m \in 0 .. n : m \in T
        <3> HIDE DEF T
        <3> QED
            BY <1>1, <1>9, <1>10, BoundedInduction
    <2> HIDE DEF Within
    <2> QED
        BY <1>1, <2>1
<1> DEFINE at == [k \in 0 .. n |-> Len(F[k])]
<1>12. ASSUME NEW k \in 1 .. n
       PROVE  /\ at[k] = at[k - 1] + Len(ss[k])
              /\ at[k] <= Len(F[n])
              /\ \A j \in 1 .. Len(ss[k]) : F[n][at[k - 1] + j] = ss[k][j]
    <2>1. k - 1 \in 0 .. n /\ k \in 0 .. n
        BY <1>1
    <2>2. at[k] = Len(F[k]) /\ at[k - 1] = Len(F[k - 1])
        BY <2>1
    <2> HIDE DEF at
    <2>3. Within(k, n)
        BY <1>11, <2>1
    <2>4. Len(ss[k]) \in Nat /\ Len(F[k - 1]) \in Nat /\ Len(F[k]) \in Nat
        BY <1>1, <1>2, <1>7, <2>1
    <2>5. /\ Len(F[k]) = Len(F[k - 1]) + Len(ss[k])
          /\ \A j \in 1 .. Len(ss[k]) : F[k][Len(F[k - 1]) + j] = ss[k][j]
        BY <1>8 DEF Joins
    <2>6. ASSUME NEW j \in 1 .. Len(ss[k])
          PROVE  F[n][at[k - 1] + j] = ss[k][j]
        <3>1. at[k - 1] + j \in 1 .. Len(F[k])
            <4> DEFINE a == Len(F[k - 1])
                       b == Len(ss[k])
            <4>1. a \in Nat /\ b \in Nat /\ Len(F[k]) = a + b /\ at[k - 1] = a /\ j \in 1 .. b
                BY <2>2, <2>4, <2>5
            <4> HIDE DEF a, b
            <4> QED
                BY <4>1
        <3>2. F[k][at[k - 1] + j] = ss[k][j]
            BY <2>2, <2>5
        <3> QED
            BY <2>3, <3>1, <3>2
    <2> QED
        BY <2>2, <2>3, <2>5, <2>6
<1>13. at \in [0 .. n -> Nat] /\ at[0] = 0 /\ at[n] = Len(F[n])
    BY <1>1, <1>5, <1>6, <1>7
<1>14. F[n] \in Seq(S)
    BY <1>1, <1>7 DEF Q
<1> HIDE DEF at
<1>15. Parts(at, S, ss, F[n])
    BY <1>12, <1>13, <1>14 DEF Parts, n
<1> QED
    BY <1>6, <1>15
=============================================================================
