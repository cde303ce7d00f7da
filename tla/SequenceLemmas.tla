--------------------------- MODULE SequenceLemmas ---------------------------
(***************************************************************************)
(* Facts about sequences that the proofs about queues and loops need: a    *)
(* channel, the pump's slices and the posted closures are cut at the front *)
(* and extended at the back, one element at a time; a loop over a sequence *)
(* is a function defined by recursion, and what holds after every turn of  *)
(* it follows by induction; what a sort returns is given by the number of  *)
(* elements before each.                                                   *)
(***************************************************************************)
EXTENDS Integers, Sequences, FiniteSets, Functions, Subsequences,
        SequenceTheorems, FiniteSetTheorems, WellFoundedInduction, TLAPS

\* The first element and the rest.
LEMMA HeadTail ==
    ASSUME NEW S, NEW s \in Seq(S), s # << >>
    PROVE  /\ Head(s) \in S /\ Tail(s) \in Seq(S) /\ Len(s) \in Nat \ {0}
           /\ Len(Tail(s)) = Len(s) - 1 /\ Head(s) = s[1]
           /\ \A i \in 1..(Len(s) - 1) : Tail(s)[i] = s[i + 1]
<1>1. Head(s) = s[1]  OBVIOUS
<1>2. /\ Head(s) \in S /\ Tail(s) \in Seq(S) /\ Len(s) \in Nat \ {0}
      /\ Len(Tail(s)) = Len(s) - 1
      /\ \A i \in 1..Len(Tail(s)) : Tail(s)[i] = s[i + 1]
      BY HeadTailProperties, EmptySeq
<1>3. QED  BY <1>1, <1>2

\* A sequence is its first n elements and the rest.
LEMMA CutSeq ==
    ASSUME NEW S, NEW s \in Seq(S), NEW n \in 0..Len(s)
    PROVE  /\ SubSeq(s, 1, n) \in Seq(S) /\ SubSeq(s, n + 1, Len(s)) \in Seq(S)
           /\ Len(SubSeq(s, 1, n)) = n /\ Len(SubSeq(s, n + 1, Len(s))) = Len(s) - n
           /\ \A i \in 1..n : SubSeq(s, 1, n)[i] = s[i]
           /\ \A i \in 1..(Len(s) - n) : SubSeq(s, n + 1, Len(s))[i] = s[i + n]
<1>1. Len(s) \in Nat /\ \A i \in 1..Len(s) : s[i] \in S
      BY LenProperties, ElementOfSeq
<1>2. QED  BY <1>1, SubSeqProperties

\* Taking the first element of t over to s leaves their concatenation alone.
LEMMA TakeOver ==
    ASSUME NEW S, NEW s \in Seq(S), NEW t \in Seq(S), t # << >>
    PROVE  Append(s, Head(t)) \o Tail(t) = s \o t
<1>1. /\ Head(t) \in S /\ Tail(t) \in Seq(S) /\ Len(t) \in Nat \ {0}
      /\ Len(Tail(t)) = Len(t) - 1 /\ Head(t) = t[1]
      /\ \A i \in 1..(Len(t) - 1) : Tail(t)[i] = t[i + 1]
      BY HeadTail
<1>2. /\ Append(s, Head(t)) \in Seq(S) /\ Len(Append(s, Head(t))) = Len(s) + 1
      /\ \A i \in 1..Len(s) : Append(s, Head(t))[i] = s[i]
      /\ Append(s, Head(t))[Len(s) + 1] = t[1] /\ Len(s) \in Nat
      BY <1>1, AppendProperties, LenProperties
<1> DEFINE l == Append(s, Head(t)) \o Tail(t)
<1>3. /\ l \in Seq(S) /\ Len(l) = Len(s) + Len(t)
      /\ \A i \in 1..(Len(s) + Len(t)) :
            l[i] = IF i <= Len(s) + 1 THEN Append(s, Head(t))[i] ELSE Tail(t)[i - (Len(s) + 1)]
      <2>1. /\ l \in Seq(S) /\ Len(l) = Len(Append(s, Head(t))) + Len(Tail(t))
            /\ \A i \in 1..(Len(Append(s, Head(t))) + Len(Tail(t))) :
                  l[i] = IF i <= Len(Append(s, Head(t))) THEN Append(s, Head(t))[i]
                         ELSE Tail(t)[i - Len(Append(s, Head(t)))]
            BY <1>1, <1>2, ConcatProperties
      <2>2. QED  BY <1>1, <1>2, <2>1
<1>4. /\ s \o t \in Seq(S) /\ Len(s \o t) = Len(s) + Len(t)
      /\ \A i \in 1..(Len(s) + Len(t)) :
            (s \o t)[i] = IF i <= Len(s) THEN s[i] ELSE t[i - Len(s)]
      BY ConcatProperties
<1>5. ASSUME NEW i \in 1..(Len(s) + Len(t))  PROVE l[i] = (s \o t)[i]
      <2>1. CASE i <= Len(s)  BY <1>2, <1>3, <1>4, <2>1
      <2>2. CASE i = Len(s) + 1  BY <1>1, <1>2, <1>3, <1>4, <2>2
      <2>3. CASE i > Len(s) + 1
            <3>1. /\ i - (Len(s) + 1) \in 1..(Len(t) - 1)
                  /\ (i - (Len(s) + 1)) + 1 = i - Len(s)
                  BY <1>1, <1>2, <2>3
            <3>2. Tail(t)[i - (Len(s) + 1)] = t[i - Len(s)]
                  BY <1>1, <3>1
            <3>3. QED  BY <1>2, <1>3, <1>4, <2>3, <3>2
      <2>4. QED  BY <1>2, <2>1, <2>2, <2>3
<1>6. QED  BY <1>3, <1>4, <1>5, SeqEqual

\* A place in s is a place in s \o t.
LEMMA PlaceConcat ==
    ASSUME NEW S, NEW s \in Seq(S), NEW t \in Seq(S), NEW n \in 0..Len(s)
    PROVE  n \in 0..Len(s \o t)
<1>1. Len(s \o t) = Len(s) + Len(t) /\ Len(s) \in Nat /\ Len(t) \in Nat
      BY ConcatProperties, LenProperties
<1>2. QED  BY <1>1

\* A cut within s is a cut of s \o t.
LEMMA CutConcat ==
    ASSUME NEW S, NEW s \in Seq(S), NEW t \in Seq(S), NEW n \in 0..Len(s)
    PROVE  /\ SubSeq(s \o t, 1, n) = SubSeq(s, 1, n)
           /\ SubSeq(s \o t, n + 1, Len(s \o t)) = SubSeq(s, n + 1, Len(s)) \o t
<1>1. /\ s \o t \in Seq(S) /\ Len(s \o t) = Len(s) + Len(t)
      /\ Len(s) \in Nat /\ Len(t) \in Nat
      /\ \A i \in 1..(Len(s) + Len(t)) :
            (s \o t)[i] = IF i <= Len(s) THEN s[i] ELSE t[i - Len(s)]
      BY ConcatProperties, LenProperties
<1>2. n \in 0..Len(s \o t)  BY <1>1
<1> DEFINE a == SubSeq(s, n + 1, Len(s))
           b == SubSeq(s \o t, n + 1, Len(s \o t))
<1>3. /\ a \in Seq(S) /\ Len(a) = Len(s) - n
      /\ \A i \in 1..(Len(s) - n) : a[i] = s[i + n]
      /\ SubSeq(s, 1, n) \in Seq(S) /\ Len(SubSeq(s, 1, n)) = n
      /\ \A i \in 1..n : SubSeq(s, 1, n)[i] = s[i]
      BY CutSeq
<1>4. /\ b \in Seq(S) /\ Len(b) = Len(s) + Len(t) - n
      /\ \A i \in 1..(Len(s) + Len(t) - n) : b[i] = (s \o t)[i + n]
      /\ SubSeq(s \o t, 1, n) \in Seq(S) /\ Len(SubSeq(s \o t, 1, n)) = n
      /\ \A i \in 1..n : SubSeq(s \o t, 1, n)[i] = (s \o t)[i]
      BY <1>1, <1>2, CutSeq
<1> HIDE DEF a, b
<1>5. SubSeq(s \o t, 1, n) = SubSeq(s, 1, n)
      <2>1. \A i \in 1..n : SubSeq(s \o t, 1, n)[i] = SubSeq(s, 1, n)[i]
            BY <1>1, <1>3, <1>4
      <2>2. QED  BY <1>3, <1>4, <2>1, SeqEqual
<1>6. b = a \o t
      <2>1. /\ a \o t \in Seq(S) /\ Len(a \o t) = Len(a) + Len(t)
            /\ \A i \in 1..(Len(a) + Len(t)) :
                  (a \o t)[i] = IF i <= Len(a) THEN a[i] ELSE t[i - Len(a)]
            <3>1. a \in Seq(S)  BY <1>3
            <3>2. QED  BY <3>1, ConcatProperties
      <2>2. ASSUME NEW i \in 1..(Len(s) + Len(t) - n)  PROVE b[i] = (a \o t)[i]
            <3>1. CASE i <= Len(s) - n  BY <1>1, <1>3, <1>4, <2>1, <3>1
            <3>2. CASE ~(i <= Len(s) - n)
                  <4>1. i - Len(a) = i + n - Len(s)  BY <1>1, <1>3
                  <4>2. (a \o t)[i] = t[i + n - Len(s)]
                        BY <1>1, <1>3, <1>4, <2>1, <3>2, <4>1
                  <4>3. i + n \in 1..(Len(s) + Len(t)) /\ ~(i + n <= Len(s))
                        BY <1>1, <3>2
                  <4>5. b[i] = t[i + n - Len(s)]
                        BY <1>1, <1>4, <4>3
                  <4>4. QED  BY <4>2, <4>5
            <3>3. QED  BY <3>1, <3>2
      <2>3. Len(b) = Len(a \o t)  BY <1>1, <1>3, <1>4, <2>1
      <2>4. QED  BY <1>4, <2>1, <2>2, <2>3, SeqEqual
<1>7. QED  BY <1>5, <1>6 DEF a, b

-----------------------------------------------------------------------------
(* Induction and recursion.                                                *)

\* The least number principle: what induction over numbers rests on here.
LEMMA LeastNumber ==
    ASSUME NEW T \in SUBSET Nat, T # {}
    PROVE  \E m \in T : \A k \in T : m <= k
<1>1. PICK m \in T : \A k \in T : ~(<<k, m>> \in OpToRel(<, Nat))
      BY NatLessThanWellFounded, WFMin
<1>2. ASSUME NEW k \in T PROVE m <= k
      <2>1. ~(k < m) BY <1>1 DEF OpToRel
      <2>2. QED BY <2>1
<1>3. QED BY <1>2

\* The turns of a loop are counted from 1; 0 is before the first.
LEMMA TurnNumbers ==
    ASSUME NEW n \in Nat
    PROVE  /\ 0 \in 0..n /\ n \in 0..n
           /\ \A k \in 0..n : k = 0 \/ k \in 1..n
           /\ \A k \in 1..n :
                 /\ k \in Nat /\ k \in 0..n /\ k # 0 /\ k - 1 \in 0..n
                 /\ \A j : j \in 1..k <=> j \in 1..(k - 1) \/ j = k
                 /\ \A j \in 1..(k - 1) : j \in 1..n /\ j # k
OBVIOUS

\* A loop of n turns, the k-th taking an accumulator of A to another.
Turns(n, A) == [1..n -> [A -> A]]

\* acc[k] is what it has accumulated after k turns.
Accumulates(acc, b, step, n) ==
    acc[0] = b /\ \A k \in 1..n : acc[k] = step[k][acc[k - 1]]

\* Such a function exists: it is the value of its recursive definition.
LEMMA Recursion ==
    ASSUME NEW A, NEW n \in Nat, NEW b \in A, NEW step \in Turns(n, A)
    PROVE  \E acc \in [0..n -> A] : Accumulates(acc, b, step, n)
<1> USE DEF Turns, Accumulates
<1> DEFINE Upto(m) == \E f \in [0..m -> A] : f[0] = b /\ \A k \in 1..m : f[k] = step[k][f[k - 1]]
           T == {m \in 0..n : ~Upto(m)}
<1>1. SUFFICES ASSUME T # {}  PROVE FALSE
      <2>1. ASSUME T = {}  PROVE Upto(n)
            <3>1. n \in 0..n  OBVIOUS
            <3>2. QED  BY <2>1, <3>1
      <2>2. QED  BY <2>1
<1>2. PICK m \in T : \A k \in T : m <= k
      <2>1. T \in SUBSET Nat OBVIOUS
      <2> HIDE DEF T
      <2>2. QED BY <1>1, <2>1, LeastNumber
<1>3. CASE m = 0
      <2>1. [k \in 0..0 |-> b] \in [0..0 -> A]  OBVIOUS
      <2>2. Upto(0)
            <3> DEFINE g == [k \in 0..0 |-> b]
            <3>1. g[0] = b /\ 1..0 = {}  OBVIOUS
            <3> HIDE DEF g
            <3>2. g \in [0..0 -> A] /\ g[0] = b /\ \A k \in 1..0 : g[k] = step[k][g[k - 1]]
                  BY <2>1, <3>1 DEF g
            <3>3. QED  BY <3>2
      <2>3. QED BY <2>2, <1>3
<1>4. CASE m # 0
      <2>1. m - 1 \in 0..n /\ m \in 1..n /\ ~(m <= m - 1)  BY <1>4
      <2>2. Upto(m - 1)  BY <2>1, <1>2
      <2>3. PICK f \in [0..(m-1) -> A] : f[0] = b /\ \A k \in 1..(m-1) : f[k] = step[k][f[k - 1]]
            BY <2>2
      <2> DEFINE g == [k \in 0..m |-> IF k = m THEN step[m][f[m - 1]] ELSE f[k]]
      <2>4. f[m-1] \in A BY <2>1
      <2>5. step[m][f[m - 1]] \in A BY <2>1, <2>4
      <2>6. g \in [0..m -> A]
            <3>1. ASSUME NEW k \in 0..m, k # m  PROVE k \in 0..(m-1) BY <3>1, <2>1
            <3>2. QED BY <3>1, <2>5
      <2>7. g[0] = b BY <2>1, <2>3
      <2>8. ASSUME NEW k \in 1..m PROVE g[k] = step[k][g[k - 1]]
            <3>1. k - 1 \in 0..(m-1) /\ k - 1 # m /\ k-1 \in 0..m /\ k \in 0..m BY <2>1
            <3>2. g[k-1] = f[k-1] BY <3>1
            <3>3. CASE k = m BY <3>1, <3>2, <3>3
            <3>4. CASE k # m
                  <4>1. k \in 1..(m-1) BY <3>4, <2>1
                  <4>2. QED BY <3>1, <3>2, <4>1, <2>3, <3>4
            <3>5. QED BY <3>3, <3>4
      <2>9. Upto(m) BY <2>6, <2>7, <2>8
      <2>10. QED BY <2>9
<1>5. QED BY <1>3, <1>4

\* What holds at 0 and goes on from k - 1 to k holds up to n.
LEMMA Induction ==
    ASSUME NEW n \in Nat, NEW T, 0 \in T, \A k \in 1..n : k - 1 \in T => k \in T
    PROVE  0..n \subseteq T
<1> DEFINE F == (0..n) \ T
<1>1. SUFFICES ASSUME F # {}  PROVE FALSE
      OBVIOUS
<1>2. F \in SUBSET Nat  OBVIOUS
<1>3. PICK m \in F : \A k \in F : m <= k
      <2> HIDE DEF F
      <2>1. QED  BY <1>1, <1>2, LeastNumber
<1>4. m \in 1..n /\ m - 1 \in 0..n /\ ~(m <= m - 1)
      <2>1. m # 0  OBVIOUS
      <2>2. QED  BY <2>1
<1>5. m - 1 \in T  BY <1>3, <1>4
<1>6. QED  BY <1>4, <1>5

Preceding(S, R, x) == {y \in S : <<y, x>> \in R}

\* In a finite set under a strict total order each element has a place of its own,
\* the number of those before it, and no place is empty.
LEMMA Places ==
    ASSUME NEW S, IsFiniteSet(S), NEW R,
           \A x \in S : <<x, x>> \notin R,
           \A x, y, z \in S : <<x, y>> \in R /\ <<y, z>> \in R => <<x, z>> \in R,
           \A x, y \in S : x # y => <<x, y>> \in R \/ <<y, x>> \in R
    PROVE  /\ Cardinality(S) \in Nat
           /\ \A x \in S : Cardinality(Preceding(S, R, x)) \in 0..(Cardinality(S) - 1)
           /\ \A x, z \in S : <<x, z>> \in R =>
                 Cardinality(Preceding(S, R, x)) < Cardinality(Preceding(S, R, z))
           /\ \A k \in 0..(Cardinality(S) - 1) :
                 \E x \in S : Cardinality(Preceding(S, R, x)) = k
<1> DEFINE D(x) == Preceding(S, R, x)
           c == Cardinality(S)
<1>1. c \in Nat  BY FS_CardinalityType
<1>2. ASSUME NEW x \in S
      PROVE  /\ D(x) \in SUBSET S /\ x \notin D(x)
             /\ IsFiniteSet(D(x)) /\ Cardinality(D(x)) \in Nat
      <2>1. D(x) \in SUBSET S /\ x \notin D(x)  BY DEF Preceding
      <2> HIDE DEF D
      <2>2. QED  BY <2>1, FS_Subset, FS_CardinalityType
<1>3. ASSUME NEW x \in S, NEW z \in S, <<x, z>> \in R
      PROVE  Cardinality(D(x)) < Cardinality(D(z))
      <2>1. D(x) \in SUBSET D(z) /\ x \in D(z)  BY <1>3 DEF Preceding
      <2> HIDE DEF D
      <2>2. D(x) # D(z)  BY <1>2, <2>1
      <2>3. Cardinality(D(x)) <= Cardinality(D(z)) /\ Cardinality(D(x)) # Cardinality(D(z))
            BY <1>2, <2>1, <2>2, FS_Subset
      <2>4. QED  BY <1>2, <2>3
<1> HIDE DEF D
<1>4. ASSUME NEW x \in S  PROVE Cardinality(D(x)) \in 0..(c - 1)
      <2>1. D(x) # S  BY <1>2
      <2>2. Cardinality(D(x)) <= c /\ Cardinality(D(x)) # c
            BY <1>2, <2>1, FS_Subset
      <2>3. QED  BY <1>1, <1>2, <2>2
<1> DEFINE f == [x \in S |-> Cardinality(D(x))]
<1>5. f \in [S -> 0..(c - 1)]  BY <1>4
<1>6. \A x, z \in S : f[x] = f[z] => x = z
      <2>1. ASSUME NEW x \in S, NEW z \in S, x # z
            PROVE  Cardinality(D(x)) # Cardinality(D(z))
            <3>1. <<x, z>> \in R \/ <<z, x>> \in R  BY <2>1
            <3>2. QED  BY <1>2, <1>3, <3>1
      <2>2. QED  BY <2>1
<1>7. f \in Injection(S, 0..(c - 1))  BY <1>5, <1>6 DEF Injection, IsInjective
<1>8. IsFiniteSet(0..(c - 1)) /\ Cardinality(0..(c - 1)) = c
      <2>1. Cardinality(0..(c - 1)) = IF 0 > c - 1 THEN 0 ELSE (c - 1) - 0 + 1
            BY <1>1, FS_Interval
      <2>2. QED  BY <1>1, <2>1, FS_Interval
<1>9. f \in Surjection(S, 0..(c - 1))  BY <1>7, <1>8, FS_Injection
<1>10. \A k \in 0..(c - 1) : \E x \in S : f[x] = k  BY <1>9 DEF Surjection
<1>11. \A x \in S : f[x] = Cardinality(D(x))  OBVIOUS
<1> HIDE DEF f
<1>12. QED  BY <1>1, <1>3, <1>4, <1>10, <1>11 DEF D

-----------------------------------------------------------------------------
(* Sets of numbers in ascending order.                                     *)

Rank(S, x) == Cardinality({y \in S : y <= x})

\* The ranks are the places 1..Cardinality(S), each taken once.
LEMMA Ranks ==
    ASSUME NEW S \in SUBSET Int, IsFiniteSet(S)
    PROVE  /\ Cardinality(S) \in Nat
           /\ \A x \in S : Rank(S, x) \in 1..Cardinality(S)
           /\ \A x, z \in S : x < z => Rank(S, x) < Rank(S, z)
           /\ \A k \in 1..Cardinality(S) : \E x \in S : Rank(S, x) = k
<1> DEFINE D(x) == {y \in S : y <= x}
           c == Cardinality(S)
<1>1. c \in Nat  BY FS_CardinalityType
<1>2. ASSUME NEW x \in S
      PROVE  IsFiniteSet(D(x)) /\ Cardinality(D(x)) \in Nat /\ Cardinality(D(x)) <= c
      <2>1. D(x) \in SUBSET S  OBVIOUS
      <2> HIDE DEF D
      <2>2. QED  BY <2>1, FS_Subset, FS_CardinalityType
<1>3. ASSUME NEW x \in S, NEW z \in S, x < z
      PROVE  Cardinality(D(x)) < Cardinality(D(z))
      <2>1. D(x) \in SUBSET D(z) /\ z \in D(z) /\ z \notin D(x)
            <3>1. x \in Int /\ z \in Int  OBVIOUS
            <3>2. ASSUME NEW y \in S, y <= x  PROVE y <= z
                  BY <1>3, <3>1, <3>2
            <3>3. z <= z /\ ~(z <= x)  BY <1>3, <3>1
            <3>4. QED  BY <3>2, <3>3
      <2> HIDE DEF D
      <2>2. D(x) # D(z)  BY <2>1
      <2>3. Cardinality(D(x)) <= Cardinality(D(z)) /\ Cardinality(D(x)) # Cardinality(D(z))
            BY <1>2, <2>1, <2>2, FS_Subset
      <2>4. QED  BY <1>2, <2>3
<1>4. ASSUME NEW x \in S  PROVE Cardinality(D(x)) \in 1..c
      <2>1. x \in D(x)  OBVIOUS
      <2> HIDE DEF D
      <2>2. Cardinality(D(x)) # 0  BY <1>2, <2>1, FS_EmptySet
      <2>3. QED  BY <1>1, <1>2, <2>2
<1> DEFINE f == [x \in S |-> Cardinality(D(x))]
<1>5. \A x \in S : Rank(S, x) = Cardinality(D(x))  BY DEF Rank
<1> HIDE DEF D
<1>6. f \in [S -> 1..c]  BY <1>4
<1>7. \A x, z \in S : f[x] = f[z] => x = z
      <2>1. ASSUME NEW x \in S, NEW z \in S, x # z
            PROVE  Cardinality(D(x)) # Cardinality(D(z))
            <3>1. x < z \/ z < x  BY <2>1
            <3>2. QED  BY <1>2, <1>3, <3>1
      <2>2. QED  BY <2>1
<1>8. f \in Injection(S, 1..c)  BY <1>6, <1>7 DEF Injection, IsInjective
<1>9. IsFiniteSet(1..c) /\ Cardinality(1..c) = c
      <2>1. Cardinality(1..c) = IF 1 > c THEN 0 ELSE c - 1 + 1
            BY <1>1, FS_Interval
      <2>2. QED  BY <1>1, <2>1, FS_Interval
<1>10. f \in Surjection(S, 1..c)  BY <1>8, <1>9, FS_Injection
<1>11. \A k \in 1..c : \E x \in S : f[x] = k  BY <1>10 DEF Surjection
<1>12. \A x \in S : f[x] = Cardinality(D(x))  OBVIOUS
<1> HIDE DEF f
<1>13. QED  BY <1>1, <1>3, <1>4, <1>5, <1>11, <1>12

\* Different numbers have different ranks.
LEMMA RanksDiffer ==
    ASSUME NEW S \in SUBSET Int, IsFiniteSet(S)
    PROVE  \A x, z \in S : Rank(S, x) = Rank(S, z) => x = z
<1> SUFFICES ASSUME NEW x \in S, NEW z \in S, Rank(S, x) = Rank(S, z)
             PROVE  x = z
    OBVIOUS
<1>1. x \in Int /\ z \in Int /\ Cardinality(S) \in Nat  BY Ranks
<1>2. Rank(S, x) \in Int
      <2>1. Rank(S, x) \in 1..Cardinality(S)  BY Ranks
      <2>2. QED  BY <1>1, <2>1
<1>3. x < z => Rank(S, x) < Rank(S, z)  BY Ranks
<1>4. z < x => Rank(S, z) < Rank(S, x)  BY Ranks
<1>5. QED  BY <1>1, <1>2, <1>3, <1>4

\* Ascending(S) has the elements of S, in increasing order.
LEMMA AscendingSorted ==
    ASSUME NEW S \in SUBSET Int, IsFiniteSet(S)
    PROVE  /\ Ascending(S) \in Seq(S) /\ Len(Ascending(S)) = Cardinality(S)
           /\ \A i, j \in 1..Cardinality(S) : i < j => Ascending(S)[i] < Ascending(S)[j]
           /\ \A k \in 1..Cardinality(S) : Rank(S, Ascending(S)[k]) = k
<1> DEFINE c == Cardinality(S)
<1>1. c \in Nat  BY Ranks
<1>2. ASSUME NEW k \in 1..c
      PROVE  Ascending(S)[k] \in S /\ Rank(S, Ascending(S)[k]) = k
      <2>1. Ascending(S)[k] = CHOOSE x \in S : Rank(S, x) = k  BY DEF Ascending, Rank
      <2>2. \E x \in S : Rank(S, x) = k  BY Ranks
      <2>3. QED  BY <2>1, <2>2
<1>3. Ascending(S) \in [1..c -> S]
      <2> DEFINE a == Ascending(S)
      <2>1. a = [k \in DOMAIN a |-> a[k]] /\ DOMAIN a = 1..c  BY DEF Ascending
      <2> HIDE DEF a
      <2>2. QED  BY <1>2, <2>1 DEF a
<1>4. Ascending(S) \in Seq(S) /\ Len(Ascending(S)) = c  BY <1>1, <1>3
<1>5. ASSUME NEW i \in 1..c, NEW j \in 1..c, i < j
      PROVE  Ascending(S)[i] < Ascending(S)[j]
      <2> DEFINE a == Ascending(S)[i]
                 b == Ascending(S)[j]
      <2>1. a \in S /\ b \in S /\ Rank(S, a) = i /\ Rank(S, b) = j  BY <1>2
      <2> HIDE DEF a, b
      <2>2. a # b  BY <1>5, <2>1
      <2>3. ~(b < a)
            <3>1. ASSUME b < a  PROVE FALSE
                  <4>1. Rank(S, b) < Rank(S, a)  BY <2>1, <3>1, Ranks
                  <4>2. QED  BY <1>5, <2>1, <4>1
            <3>2. QED  BY <3>1
      <2>4. a < b  BY <2>1, <2>2, <2>3
      <2>5. QED  BY <2>4 DEF a, b
<1>6. QED  BY <1>2, <1>4, <1>5

\* Picked(s, P) goes through the places P of s from left to right.
LEMMA PickedPlaces ==
    ASSUME NEW P \in SUBSET Int, IsFiniteSet(P), NEW s
    PROVE  \E a \in [1..Cardinality(P) -> P] :
              /\ Cardinality(P) \in Nat
              /\ Picked(s, P) = [k \in 1..Cardinality(P) |-> s[a[k]]]
              /\ \A i, j \in 1..Cardinality(P) : i < j => a[i] < a[j]
              /\ \A p \in P : \E k \in 1..Cardinality(P) : a[k] = p
<1> DEFINE a == Ascending(P)
           c == Cardinality(P)
<1>1. /\ c \in Nat /\ a \in Seq(P) /\ Len(a) = c
      /\ \A i, j \in 1..c : i < j => a[i] < a[j]
      /\ \A k \in 1..c : Rank(P, a[k]) = k
      BY Ranks, AscendingSorted
<1>2. Picked(s, P) = [k \in 1..c |-> s[a[k]]]  BY DEF Picked
<1> HIDE DEF a
<1>3. DOMAIN a = 1..c /\ a \in [1..c -> P]
      <2>1. DOMAIN a = 1..Len(a) /\ a \in [1..Len(a) -> P]  BY <1>1, LenProperties
      <2>2. QED  BY <1>1, <2>1
<1>4. ASSUME NEW p \in P  PROVE \E k \in 1..c : a[k] = p
      <2>1. Rank(P, p) \in 1..c  BY Ranks
      <2>2. PICK k \in 1..c : k = Rank(P, p)  BY <2>1
      <2>3. a[k] \in P /\ Rank(P, a[k]) = Rank(P, p)  BY <1>1, <1>3, <2>2
      <2>4. \A y, z \in P : Rank(P, y) = Rank(P, z) => y = z  BY RanksDiffer
      <2>5. QED  BY <2>3, <2>4
<1>5. QED  BY <1>1, <1>2, <1>3, <1>4

\* s has each element of S once and no other.
Arranges(s, S) ==
    /\ s \in Seq(S)
    /\ \A i, j \in DOMAIN s : s[i] = s[j] => i = j
    /\ \A x \in S : \E i \in DOMAIN s : s[i] = x

\* In s there is an a with a b somewhere behind it.
Ahead(s, a, b) == \E p, q \in DOMAIN s : p < q /\ s[p] = a /\ s[q] = b

\* What is arranged is finite, and the arrangement as long as it is large.
LEMMA ArrangedLength ==
    ASSUME NEW S, NEW s, Arranges(s, S)
    PROVE  IsFiniteSet(S) /\ Len(s) = Cardinality(S) /\ Cardinality(S) \in Nat
<1>1. Len(s) \in Nat /\ DOMAIN s = 1..Len(s) /\ s \in [1..Len(s) -> S]
      BY LenProperties DEF Arranges
<1>2. s \in Bijection(1..Len(s), S)
      BY <1>1 DEF Arranges, Bijection, Injection, Surjection, IsInjective
<1>3. ExistsBijection(1..Len(s), S)  BY <1>2 DEF ExistsBijection
<1>4. Cardinality(S) = Len(s)  BY <1>1, <1>3, FS_CountingElements
<1>5. IsFiniteSet(S)  BY <1>1, <1>3, FS_NatBijection
<1>6. QED  BY <1>1, <1>4, <1>5

\* Places with different elements give each of these once, in their order.
LEMMA PickedArranges ==
    ASSUME NEW s, NEW P \in SUBSET Int, IsFiniteSet(P),
           \A p, q \in P : s[p] = s[q] => p = q
    PROVE  /\ Arranges(Picked(s, P), {s[p] : p \in P})
           /\ DOMAIN Picked(s, P) = 1..Cardinality(P)
           /\ \A x, y : Ahead(Picked(s, P), x, y) <=>
                 \E p, q \in P : p < q /\ s[p] = x /\ s[q] = y
<1> DEFINE c == Cardinality(P)
           t == Picked(s, P)
           S == {s[p] : p \in P}
<1>1. PICK a \in [1..c -> P] :
         /\ c \in Nat
         /\ t = [k \in 1..c |-> s[a[k]]]
         /\ \A i, j \in 1..c : i < j => a[i] < a[j]
         /\ \A p \in P : \E k \in 1..c : a[k] = p
      BY PickedPlaces
<1>2. DOMAIN t = 1..c /\ \A k \in 1..c : a[k] \in P /\ t[k] = s[a[k]]
      BY <1>1
<1>3. \A k \in 1..c : t[k] \in S  BY <1>2
<1>4. t \in Seq(S)
      <2>1. t = [k \in 1..c |-> t[k]]  BY <1>1
      <2> HIDE DEF t, S
      <2>2. t \in [1..c -> S]  BY <1>3, <2>1
      <2>3. QED  BY <1>1, <2>2
<1> HIDE DEF t
<1>5. \A i, j \in 1..c : i # j => i < j \/ j < i  BY <1>1
<1>6. \A i, j \in 1..c : a[i] = a[j] => i = j
      <2>1. \A i \in 1..c : a[i] \in Int  BY <1>2
      <2>2. QED  BY <1>1, <1>5, <2>1
<1>7. \A i, j \in 1..c : t[i] = t[j] => i = j
      <2>1. ASSUME NEW i \in 1..c, NEW j \in 1..c, t[i] = t[j]  PROVE i = j
            <3>1. a[i] \in P /\ a[j] \in P /\ s[a[i]] = s[a[j]]  BY <1>2, <2>1
            <3>2. a[i] = a[j]  BY <3>1
            <3>3. QED  BY <1>6, <3>2
      <2>2. QED  BY <2>1
<1>8. \A x \in S : \E i \in 1..c : t[i] = x  BY <1>1, <1>2
<1>9. \A i, j \in 1..c : a[i] < a[j] => i < j
      <2>1. ASSUME NEW i \in 1..c, NEW j \in 1..c, a[i] < a[j]  PROVE i < j
            <3>1. a[i] \in Int /\ a[j] \in Int  BY <1>2
            <3>2. i # j  BY <2>1, <3>1
            <3>3. ~(j < i)
                  <4>1. j < i => a[j] < a[i]  BY <1>1
                  <4>2. QED  BY <2>1, <3>1, <4>1
            <3>4. QED  BY <1>5, <3>2, <3>3
      <2>2. QED  BY <2>1
<1>10. ASSUME NEW x, NEW y
       PROVE  Ahead(t, x, y) <=> \E p, q \in P : p < q /\ s[p] = x /\ s[q] = y
       <2>1. ASSUME Ahead(t, x, y)
             PROVE  \E p, q \in P : p < q /\ s[p] = x /\ s[q] = y
             <3>1. PICK i \in 1..c, j \in 1..c : i < j /\ t[i] = x /\ t[j] = y
                   BY <1>2, <2>1 DEF Ahead
             <3>2. a[i] < a[j]  BY <1>1, <3>1
             <3>3. a[i] \in P /\ a[j] \in P /\ s[a[i]] = x /\ s[a[j]] = y
                   BY <1>2, <3>1
             <3>4. QED  BY <3>2, <3>3
       <2>2. ASSUME NEW p \in P, NEW q \in P, p < q, s[p] = x, s[q] = y
             PROVE  Ahead(t, x, y)
             <3>1. PICK i \in 1..c, j \in 1..c : a[i] = p /\ a[j] = q  BY <1>1
             <3>2. i < j  BY <1>9, <2>2, <3>1
             <3>3. t[i] = x /\ t[j] = y  BY <1>2, <2>2, <3>1
             <3>4. QED  BY <1>2, <3>2, <3>3 DEF Ahead
       <2>3. QED  BY <2>1, <2>2
<1>11. QED  BY <1>2, <1>4, <1>7, <1>8, <1>10 DEF t, Arranges

\* In an arrangement an element has one place.
LEMMA AheadPlaces ==
    ASSUME NEW S, NEW s, Arranges(s, S), NEW p \in DOMAIN s, NEW q \in DOMAIN s
    PROVE  Ahead(s, s[p], s[q]) <=> p < q
<1>1. \A i, j \in DOMAIN s : s[i] = s[j] => i = j  BY DEF Arranges
<1>2. QED  BY <1>1 DEF Ahead

\* Renaming the elements one to one renames their arrangement.
LEMMA RenamedArranges ==
    ASSUME NEW S, NEW s, Arranges(s, S), NEW f, S \subseteq DOMAIN f,
           \A x, y \in S : f[x] = f[y] => x = y
    PROVE  /\ Arranges([p \in DOMAIN s |-> f[s[p]]], {f[x] : x \in S})
           /\ \A x, y \in S : Ahead([p \in DOMAIN s |-> f[s[p]]], f[x], f[y]) <=> Ahead(s, x, y)
<1> DEFINE t == [p \in DOMAIN s |-> f[s[p]]]
           T == {f[x] : x \in S}
<1>1. PICK n \in Nat : DOMAIN s = 1..n /\ s \in [1..n -> S]
      BY LenProperties DEF Arranges
<1>2. /\ \A i, j \in 1..n : s[i] = s[j] => i = j
      /\ \A x \in S : \E i \in 1..n : s[i] = x
      BY <1>1 DEF Arranges
<1>3. DOMAIN t = 1..n /\ t = [p \in 1..n |-> t[p]]  BY <1>1
<1>4. \A p \in 1..n : s[p] \in S /\ t[p] = f[s[p]] /\ t[p] \in T  BY <1>1
<1>5. \A y \in T : \E x \in S : y = f[x]  OBVIOUS
<1> HIDE DEF t, T
<1>6. t \in Seq(T)
      <2>1. t \in [1..n -> T]  BY <1>3, <1>4
      <2>2. QED  BY <2>1
<1>7. \A i, j \in 1..n : t[i] = t[j] => i = j
      <2>1. ASSUME NEW i \in 1..n, NEW j \in 1..n, t[i] = t[j]  PROVE i = j
            <3>1. f[s[i]] = f[s[j]] /\ s[i] \in S /\ s[j] \in S  BY <1>4, <2>1
            <3>2. s[i] = s[j]  BY <3>1
            <3>3. QED  BY <1>2, <3>2
      <2>2. QED  BY <2>1
<1>8. \A y \in T : \E i \in 1..n : t[i] = y
      <2>1. ASSUME NEW y \in T  PROVE \E i \in 1..n : t[i] = y
            <3>1. PICK x \in S : y = f[x]  BY <1>5
            <3>2. PICK i \in 1..n : s[i] = x  BY <1>2
            <3>3. QED  BY <1>4, <3>1, <3>2
      <2>2. QED  BY <2>1
<1>9. Arranges(t, T)  BY <1>3, <1>6, <1>7, <1>8 DEF Arranges
<1>10. ASSUME NEW x \in S, NEW y \in S  PROVE Ahead(t, f[x], f[y]) <=> Ahead(s, x, y)
       <2>1. \A i \in 1..n, z \in S : t[i] = f[z] <=> s[i] = z
             <3>1. ASSUME NEW i \in 1..n, NEW z \in S, t[i] = f[z]  PROVE s[i] = z
                   <4>1. f[s[i]] = f[z] /\ s[i] \in S  BY <1>4, <3>1
                   <4>2. QED  BY <4>1
             <3>2. QED  BY <1>4, <3>1
       <2>2. QED  BY <1>1, <1>3, <2>1 DEF Ahead
<1>11. QED  BY <1>9, <1>10 DEF t, T

=============================================================================
