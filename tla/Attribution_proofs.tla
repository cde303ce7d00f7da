------------------------- MODULE Attribution_proofs -------------------------
(***************************************************************************)
(* What an event is attributed to, for every table, event and dump.  That  *)
(* no rule that merely fits comes before one with a higher claim holds by  *)
(* the weights of ruleScore.  What Match and PossibleMatches say follows   *)
(* from what the sort and the loop compute, and what the filter table      *)
(* holds from what the scanner does with the tags of an item: each by      *)
(* induction over its loop.                                                *)
(***************************************************************************)
EXTENDS Attribution, SequenceLemmas, SequenceTheorems, FiniteSetTheorems, TLAPS

\* ruleScore is a sum of five weights, each all or nothing.
LEMMA ScoreIsSum ==
    ASSUME NEW u
    PROVE  \E p \in {0, 8}, d \in {0, 4}, q \in {0, 4}, l \in {0, 2}, m \in {0, 2} :
              /\ RuleScore(u) = p + d + q + l + m
              /\ p = 8 <=> u.program # ""
              /\ d = 4 <=> u.direction # 0
              /\ q = 4 <=> u.protocol # AnyProtocol
              /\ l = 2 <=> ~u.local.any
              /\ m = 2 <=> ~u.remote.any
<1> DEFINE p == IF u.program # "" THEN 8 ELSE 0
           d == IF u.direction # 0 THEN 4 ELSE 0
           q == IF u.protocol # AnyProtocol THEN 4 ELSE 0
           l == IF ~u.local.any THEN 2 ELSE 0
           m == IF ~u.remote.any THEN 2 ELSE 0
<1>1. p \in {0, 8} /\ (p = 8 <=> u.program # "")
  <2>1. 0 # 8
    OBVIOUS
  <2>2. QED
    BY <2>1, Zenon
<1>2. d \in {0, 4} /\ (d = 4 <=> u.direction # 0)
  OBVIOUS
<1>3. q \in {0, 4} /\ (q = 4 <=> u.protocol # AnyProtocol)
  OBVIOUS
<1>4. l \in {0, 2} /\ (l = 2 <=> ~u.local.any)
  BY SMT
<1>5. m \in {0, 2} /\ (m = 2 <=> ~u.remote.any)
  BY SMT
<1>6. RuleScore(u) = p + d + q + l + m
  BY Zenon DEF RuleScore
<1> HIDE DEF p, d, q, l, m
<1>7. QED
  BY <1>1, <1>2, <1>3, <1>4, <1>5, <1>6, Zenon

\* ruleScore: a rule that applies strongly scores at least 8.  It is scoped
\* to a program (8), or has a direction, a protocol and a port list (4 + 4 + 2).
LEMMA StrongScores ==
    ASSUME NEW u, NEW e, Strong(u, e)
    PROVE  RuleScore(u) \in Int /\ RuleScore(u) >= 8
<1>1. \/ u.program # ""
      \/ /\ u.direction # 0 /\ u.protocol # AnyProtocol
         /\ ~u.local.any \/ ~u.remote.any
  BY Zenon DEF Strong, SpecificPort
<1>2. PICK p \in {0, 8}, d \in {0, 4}, q \in {0, 4}, l \in {0, 2}, m \in {0, 2} :
          /\ RuleScore(u) = p + d + q + l + m
          /\ p = 8 <=> u.program # ""
          /\ d = 4 <=> u.direction # 0
          /\ q = 4 <=> u.protocol # AnyProtocol
          /\ l = 2 <=> ~u.local.any
          /\ m = 2 <=> ~u.remote.any
  BY ScoreIsSum, Zenon
<1>3. p = 8 \/ (d = 4 /\ q = 4 /\ (l = 2 \/ m = 2))
  BY <1>1, <1>2, Zenon
<1>4. RuleScore(u) = p + d + q + l + m
  BY <1>2, Zenon
<1>5. QED
  BY <1>3, <1>4

\* ruleScore: a rule that applies but not strongly scores at most 8.  It is
\* not scoped to a program, and lacks the direction, the protocol or both ports.
LEMMA BroadScores ==
    ASSUME NEW u, NEW e, Applies(u, e), ~Strong(u, e)
    PROVE  RuleScore(u) \in Int /\ RuleScore(u) <= 8
<1>1. u.program = ""
  BY Zenon DEF Applies, Strong
<1>2. \/ ~(u.direction # 0)
      \/ ~(u.protocol # AnyProtocol)
      \/ ~(~u.local.any) /\ ~(~u.remote.any)
  BY Zenon DEF Applies, Strong, SpecificPort
<1>3. PICK p \in {0, 8}, d \in {0, 4}, q \in {0, 4}, l \in {0, 2}, m \in {0, 2} :
          /\ RuleScore(u) = p + d + q + l + m
          /\ p = 8 <=> u.program # ""
          /\ d = 4 <=> u.direction # 0
          /\ q = 4 <=> u.protocol # AnyProtocol
          /\ l = 2 <=> ~u.local.any
          /\ m = 2 <=> ~u.remote.any
  BY ScoreIsSum, Zenon
<1>4. p # 8 /\ (d # 4 \/ q # 4 \/ (l # 2 /\ m # 2))
  BY <1>1, <1>2, <1>3, Zenon
<1>5. RuleScore(u) = p + d + q + l + m
  BY <1>3, Zenon
<1>6. QED
  BY <1>4, <1>5

\* candidates, sorted by ruleScore, lists no rule that merely fits before a
\* stronger one but for ties, whatever the rules and the events are.
THEOREM StrongRulesLead == Spec => []BroadNeverOutranks
<1>1. BroadNeverOutranks
  <2> SUFFICES ASSUME NEW r \in rows, NEW i \in DOMAIN rules, NEW j \in DOMAIN rules,
                      Applies(rules[i], AsShown(r)), Strong(rules[i], AsShown(r)),
                      Applies(rules[j], AsShown(r)), ~Strong(rules[j], AsShown(r))
               PROVE  RuleScore(rules[i]) >= RuleScore(rules[j])
    BY DEF BroadNeverOutranks
  <2>1. RuleScore(rules[i]) \in Int /\ RuleScore(rules[i]) >= 8
    BY StrongScores
  <2>2. RuleScore(rules[j]) \in Int /\ RuleScore(rules[j]) <= 8
    BY BroadScores
  <2>3. QED
    BY <2>1, <2>2
<1>2. QED
  BY <1>1, PTL

-----------------------------------------------------------------------------
(* The order of the candidates.                                            *)

LEMMA ScoreIsNat ==
    ASSUME NEW u
    PROVE  RuleScore(u) \in Nat
<1>1. PICK p \in {0, 8}, d \in {0, 4}, q \in {0, 4}, l \in {0, 2}, m \in {0, 2} :
          /\ RuleScore(u) = p + d + q + l + m
          /\ p = 8 <=> u.program # ""
          /\ d = 4 <=> u.direction # 0
          /\ q = 4 <=> u.protocol # AnyProtocol
          /\ l = 2 <=> ~u.local.any
          /\ m = 2 <=> ~u.remote.any
  BY ScoreIsSum, Zenon
<1>2. p \in Nat /\ d \in Nat /\ q \in Nat /\ l \in Nat /\ m \in Nat
  OBVIOUS
<1>3. p + d + q + l + m \in Nat
  BY <1>2
<1>4. RuleScore(u) = p + d + q + l + m
  BY <1>1, Zenon
<1>5. QED
  BY <1>3, <1>4

Fit(table, e) == {i \in DOMAIN table : Applies(table[i], e)}

Precedes(table, i, j) ==
    \/ RuleScore(table[i]) > RuleScore(table[j])
    \/ RuleScore(table[i]) = RuleScore(table[j]) /\ i < j

Order(table, S) == {p \in S \X S : Precedes(table, p[1], p[2])}

\* By score, then by place in the table, is a strict total order.
LEMMA PrecedesIsOrder ==
    ASSUME NEW table, NEW S \in SUBSET Nat
    PROVE  /\ \A x, y \in S : <<x, y>> \in Order(table, S) <=> Precedes(table, x, y)
           /\ \A x \in S : <<x, x>> \notin Order(table, S)
           /\ \A x, y, z \in S : <<x, y>> \in Order(table, S) /\ <<y, z>> \in Order(table, S)
                 => <<x, z>> \in Order(table, S)
           /\ \A x, y \in S : x # y =>
                 <<x, y>> \in Order(table, S) \/ <<y, x>> \in Order(table, S)
<1>1. \A x, y \in S : <<x, y>> \in Order(table, S) <=> Precedes(table, x, y)
      BY DEF Order
<1>2. ASSUME NEW x \in S, NEW y \in S, NEW z \in S
      PROVE  /\ ~Precedes(table, x, x)
             /\ Precedes(table, x, y) /\ Precedes(table, y, z) => Precedes(table, x, z)
             /\ x # y => Precedes(table, x, y) \/ Precedes(table, y, x)
      <2>1. PICK a \in Nat, b \in Nat, c \in Nat :
               /\ a = RuleScore(table[x]) /\ b = RuleScore(table[y])
               /\ c = RuleScore(table[z])
            BY ScoreIsNat
      <2>2. x \in Nat /\ y \in Nat /\ z \in Nat  OBVIOUS
      <2>3. /\ ~(a > a \/ (a = a /\ x < x))
            /\ (a > b \/ (a = b /\ x < y)) /\ (b > c \/ (b = c /\ y < z))
                  => (a > c \/ (a = c /\ x < z))
            /\ x # y => (a > b \/ (a = b /\ x < y)) \/ (b > a \/ (b = a /\ y < x))
            BY <2>2
      <2>4. QED  BY <2>1, <2>3 DEF Precedes
<1>3. QED  BY <1>1, <1>2

\* What candidates returns: the rules that apply, each once, sorted.
LEMMA CandidatesSorted ==
    ASSUME NEW n \in Nat, NEW table, DOMAIN table = 1..n, NEW e,
           NEW cands, cands = Candidates(table, e)
    PROVE  /\ Fit(table, e) \in SUBSET (1..n) /\ IsFiniteSet(Fit(table, e))
           /\ Cardinality(Fit(table, e)) \in Nat
           /\ cands \in [1..Cardinality(Fit(table, e)) -> Fit(table, e)]
           /\ Len(cands) = Cardinality(Fit(table, e))
           /\ \A i \in Fit(table, e) : \E k \in 1..Len(cands) : cands[k] = i
           /\ \A k, l \in 1..Len(cands) : k < l => Precedes(table, cands[k], cands[l])
<1> DEFINE S == Fit(table, e)
           R == Order(table, S)
           m == Cardinality(S)
           P(i) == Cardinality(Preceding(S, R, i))
<1>1. S \in SUBSET (1..n)  BY DEF Fit
<1>2. IsFiniteSet(S) /\ S \in SUBSET Nat
      <2> HIDE DEF S
      <2>1. IsFiniteSet(1..n)  BY FS_Interval
      <2>2. IsFiniteSet(S)  BY <1>1, <2>1, FS_Subset
      <2>3. QED  BY <1>1, <2>2
<1>3. /\ \A x, y \in S : <<x, y>> \in R <=> Precedes(table, x, y)
      /\ \A x \in S : <<x, x>> \notin R
      /\ \A x, y, z \in S : <<x, y>> \in R /\ <<y, z>> \in R => <<x, z>> \in R
      /\ \A x, y \in S : x # y => <<x, y>> \in R \/ <<y, x>> \in R
      BY <1>2, PrecedesIsOrder
<1>4. cands = [k \in 1..m |->
                 CHOOSE i \in S : Cardinality({j \in S : Precedes(table, j, i)}) = k - 1]
      BY DEF Candidates, Fit, Precedes
<1> HIDE DEF S, R
<1>5. /\ m \in Nat
      /\ \A x \in S : P(x) \in 0..(m - 1)
      /\ \A x, z \in S : <<x, z>> \in R => P(x) < P(z)
      /\ \A k \in 0..(m - 1) : \E x \in S : P(x) = k
      BY <1>2, <1>3, Places
<1>6. \A i \in S : {j \in S : Precedes(table, j, i)} = Preceding(S, R, i)
      BY <1>3 DEF Preceding
<1>7. \A i \in S : Cardinality({j \in S : Precedes(table, j, i)}) = P(i)
      BY <1>6
<1> HIDE DEF P, m
<1>8. ASSUME NEW k \in 1..m  PROVE cands[k] \in S /\ P(cands[k]) = k - 1
      <2>1. cands[k] = CHOOSE i \in S : Cardinality({j \in S : Precedes(table, j, i)}) = k - 1
            BY <1>4
      <2>2. k - 1 \in 0..(m - 1)  BY <1>5
      <2>3. \E i \in S : Cardinality({j \in S : Precedes(table, j, i)}) = k - 1
            BY <1>5, <1>7, <2>2
      <2>4. QED  BY <1>7, <2>1, <2>3
<1>9. cands \in [1..m -> S]  BY <1>4, <1>8
<1>10. Len(cands) = m  BY <1>5, <1>9
<1>11. ASSUME NEW x \in S, NEW y \in S, P(x) = P(y)  PROVE x = y
       <2>1. P(x) \in Int /\ P(y) \in Int  BY <1>5
       <2>2. ASSUME NEW a \in S, NEW b \in S, <<a, b>> \in R  PROVE P(a) # P(b)
             BY <1>5, <2>2
       <2>3. QED  BY <1>3, <1>11, <2>2
<1>12. ASSUME NEW i \in S  PROVE \E k \in 1..m : cands[k] = i
       <2>1. P(i) \in 0..(m - 1)  BY <1>5
       <2>2. PICK k \in 1..m : k - 1 = P(i)
             <3>1. P(i) + 1 \in 1..m /\ (P(i) + 1) - 1 = P(i)  BY <1>5, <2>1
             <3>2. QED  BY <3>1
       <2>3. cands[k] \in S /\ P(cands[k]) = P(i)  BY <1>8, <2>2
       <2>4. cands[k] = i  BY <1>11, <2>3
       <2>5. QED  BY <2>4
<1>13. ASSUME NEW k \in 1..m, NEW l \in 1..m, k < l
       PROVE  Precedes(table, cands[k], cands[l])
       <2>1. /\ cands[k] \in S /\ P(cands[k]) = k - 1
             /\ cands[l] \in S /\ P(cands[l]) = l - 1
             BY <1>8
       <2>2. cands[k] # cands[l]
             <3>1. k - 1 # l - 1  BY <1>13
             <3>2. QED  BY <2>1, <3>1
       <2>3. <<cands[l], cands[k]>> \notin R
             <3>1. ASSUME <<cands[l], cands[k]>> \in R  PROVE FALSE
                   <4>1. P(cands[l]) < P(cands[k])  BY <1>5, <2>1, <3>1
                   <4>2. l - 1 < k - 1  BY <2>1, <4>1
                   <4>3. QED  BY <1>13, <4>2
             <3>2. QED  BY <3>1
       <2>4. <<cands[k], cands[l]>> \in R  BY <1>3, <2>1, <2>2, <2>3
       <2>5. QED  BY <1>3, <2>1, <2>4
<1>14. QED  BY <1>1, <1>2, <1>5, <1>9, <1>10, <1>12, <1>13 DEF S, m

-----------------------------------------------------------------------------
(* The loop of Match.                                                      *)

Indices(m, n) == {cands \in [1..m -> 1..n] : Len(cands) = m}

Loop(best, table, cands, e, m) ==
    /\ best[0] = NoBest /\ BestStrong(table, cands, e) = best[m]
    /\ \A k \in 1..m : best[k] = Better(best[k - 1], table[cands[k]], e)

\* BestStrong is what the last turn leaves: best[k] is what turn k does.
LEMMA LoopOfMatch ==
    ASSUME NEW n \in Nat, NEW table, DOMAIN table = 1..n, NEW e,
           NEW m \in Nat, NEW cands \in Indices(m, n)
    PROVE  \E best : Loop(best, table, cands, e, m)
<1> USE DEF Indices
<1> DEFINE Texts == {table[i].name : i \in 1..n} \cup {""}
           A     == [name : Texts, score : Int, count : Nat]
           step  == [k \in 1..m |-> [b \in A |-> Better(b, table[cands[k]], e)]]
<1>1. NoBest \in A
      <2>1. -1 \in Int /\ 0 \in Nat /\ "" \in Texts  OBVIOUS
      <2> HIDE DEF Texts
      <2>2. QED  BY <2>1 DEF NoBest
<1>2. ASSUME NEW k \in 1..m, NEW b \in A
      PROVE  Better(b, table[cands[k]], e) \in A
      <2>1. cands[k] \in 1..n  OBVIOUS
      <2>2. table[cands[k]].name \in Texts  BY <2>1
      <2> HIDE DEF Texts
      <2>3. RuleScore(table[cands[k]]) \in Int  BY ScoreIsNat
      <2>4. b.count + 1 \in Nat /\ b.score \in Int /\ b.name \in Texts  OBVIOUS
      <2>5. QED  BY <2>2, <2>3, <2>4 DEF Better
<1> HIDE DEF A
<1>3. step \in Turns(m, A)  BY <1>2 DEF Turns
<1>4. \A k \in 1..m : \A b \in A : step[k][b] = Better(b, table[cands[k]], e)  OBVIOUS
<1> HIDE DEF step
<1>5. PICK f \in [0..m -> A] : f[0] = NoBest /\ \A k \in 1..m : f[k] = step[k][f[k - 1]]
      <2>1. \E f \in [0..m -> A] : Accumulates(f, NoBest, step, m)
            BY <1>1, <1>3, Recursion
      <2>2. QED  BY <2>1 DEF Accumulates
<1>6. \A k \in 1..m : f[k] = Better(f[k - 1], table[cands[k]], e)
      <2>1. ASSUME NEW k \in 1..m  PROVE f[k - 1] \in A
            <3>1. k - 1 \in 0..m  OBVIOUS
            <3>2. QED  BY <3>1
      <2>2. QED  BY <1>4, <1>5, <2>1
<1> DEFINE Runs(best) ==
              best = [k \in 0..Len(cands) |->
                        IF k = 0 THEN NoBest ELSE Better(best[k - 1], table[cands[k]], e)]
           best == CHOOSE b : Runs(b)
<1>7. Runs(f)
      <2>1. ASSUME NEW k \in 0..m
            PROVE  f[k] = IF k = 0 THEN NoBest ELSE Better(f[k - 1], table[cands[k]], e)
            <3>1. k = 0 \/ k \in 1..m  OBVIOUS
            <3>2. QED  BY <1>5, <1>6, <3>1
      <2>2. QED  BY <2>1
<1>8. BestStrong(table, cands, e) = best[m]  BY DEF BestStrong
<1>9. Runs(best)
      <2> HIDE DEF Runs
      <2>1. QED  BY <1>7
<1> HIDE DEF best
<1>10. best[0] = NoBest /\ \A k \in 1..m : best[k] = Better(best[k - 1], table[cands[k]], e)
       <2>1. 0 \in 0..Len(cands) /\ \A k \in 1..m : k \in 0..Len(cands) /\ k # 0
             OBVIOUS
       <2>2. QED  BY <1>9, <2>1
<1>11. QED  BY <1>8, <1>10 DEF Loop

Strongs(table, e) == {i \in Fit(table, e) : Strong(table[i], e)}

\* After k turns the accumulator counts the strong candidates among the first k
\* and has the name and the score of the first of them.
TurnsTold(table, e, cands, best, k) ==
    LET seen == {j \in 1..k : Strong(table[cands[j]], e)}
    IN  /\ best.count = Cardinality(seen)
        /\ seen = {} => best = NoBest
        /\ seen # {} => \E j \in seen : /\ \A l \in seen : j <= l
                                      /\ best.name = table[cands[j]].name
                                      /\ best.score = RuleScore(table[cands[j]])

\* The loop finds the first of the strong rules in the candidates' order, and
\* counts them all.
LEMMA BestIsFirst ==
    ASSUME NEW n \in Nat, NEW table, DOMAIN table = 1..n, NEW e,
           NEW cands, cands = Candidates(table, e)
    PROVE  /\ TurnsTold(table, e, cands, BestStrong(table, cands, e), Len(cands))
           /\ Len(cands) \in Nat
<1> DEFINE S == Fit(table, e)
           m == Len(cands)
           seen(k) == {j \in 1..k : Strong(table[cands[j]], e)}
<1>1. /\ S \in SUBSET (1..n) /\ m \in Nat /\ cands \in [1..m -> S]
      /\ \A k, l \in 1..m : k < l => Precedes(table, cands[k], cands[l])
      BY CandidatesSorted
<1> HIDE DEF S, m
<1>2. PICK best : Loop(best, table, cands, e, m)
      <2>1. cands \in Indices(m, n)
            <3>1. cands \in [1..m -> 1..n]  BY <1>1
            <3>2. QED  BY <3>1 DEF Indices, m
      <2>2. m \in Nat  BY <1>1
      <2>3. QED  BY <2>1, <2>2, LoopOfMatch, Zenon
<1>3. ASSUME NEW k \in 0..m
      PROVE  IsFiniteSet(seen(k)) /\ Cardinality(seen(k)) \in Nat
      <2>1. seen(k) \in SUBSET (1..k)  OBVIOUS
      <2>2. IsFiniteSet(1..k)  BY FS_Interval
      <2> HIDE DEF seen
      <2>3. IsFiniteSet(seen(k))  BY <2>1, <2>2, FS_Subset
      <2>4. QED  BY <2>3, FS_CardinalityType
<1> DEFINE Told(k) == TurnsTold(table, e, cands, best[k], k)
<1>4. Told(0)
      <2>1. seen(0) = {}  OBVIOUS
      <2>2. Cardinality({}) = 0 /\ NoBest.count = 0  BY FS_EmptySet DEF NoBest
      <2>3. QED  BY <1>2, <2>1, <2>2 DEF TurnsTold, Loop
<1>5. ASSUME NEW k \in 1..m, Told(k - 1)  PROVE Told(k)
      <2> DEFINE b == best[k - 1]
                 r == table[cands[k]]
      <2>1. best[k] = Better(b, r, e)  BY <1>2 DEF Loop
      <2>2. k - 1 \in 0..m /\ k \notin seen(k - 1)
            /\ \A j \in seen(k - 1) : j < k /\ j \in 1..m
            BY <1>1
      <2>3. /\ b.count = Cardinality(seen(k - 1))
            /\ seen(k - 1) = {} => b = NoBest
            /\ seen(k - 1) # {} => \E j \in seen(k - 1) :
                                    /\ \A l \in seen(k - 1) : j <= l
                                    /\ b.name = table[cands[j]].name
                                    /\ b.score = RuleScore(table[cands[j]])
            BY <1>5 DEF TurnsTold
      <2>4. CASE ~Strong(r, e)
            <3>1. seen(k) = seen(k - 1)  BY <2>4
            <3>2. best[k] = b  BY <2>1, <2>4 DEF Better
            <3> HIDE DEF b, r, seen
            <3>3. QED  BY <2>3, <3>1, <3>2 DEF TurnsTold, seen
      <2>5. CASE Strong(r, e)
            <3>1. seen(k) = seen(k - 1) \cup {k}  BY <2>5
            <3> DEFINE better == RuleScore(r) > b.score
            <3>2. best[k] = [name  |-> IF better THEN r.name ELSE b.name,
                             score |-> IF better THEN RuleScore(r) ELSE b.score,
                             count |-> b.count + 1]
                  BY <2>1, <2>5 DEF Better
            <3>3. best[k].count = Cardinality(seen(k))
                  <4> HIDE DEF seen, b, r, better
                  <4>1. Cardinality(seen(k - 1) \cup {k}) = Cardinality(seen(k - 1)) + 1
                        BY <1>3, <2>2, FS_AddElement
                  <4>2. QED  BY <2>3, <3>1, <3>2, <4>1
            <3>4. CASE seen(k - 1) = {}
                  <4>1. b.score = -1
                        <5>1. b = NoBest  BY <2>3, <3>4
                        <5>2. NoBest.score = -1  BY DEF NoBest
                        <5> HIDE DEF b
                        <5>3. QED  BY <5>1, <5>2
                  <4>2. better  BY <4>1, ScoreIsNat
                  <4>3. best[k].name = r.name /\ best[k].score = RuleScore(r)
                        <5> HIDE DEF better, b, r
                        <5>1. QED  BY <3>2, <4>2
                  <4>4. seen(k) = {k}  BY <3>1, <3>4
                  <4>5. k <= k  OBVIOUS
                  <4> HIDE DEF seen
                  <4>6. QED  BY <3>3, <4>3, <4>4, <4>5 DEF TurnsTold, seen
            <3>5. CASE seen(k - 1) # {}
                  <4>1. PICK j \in seen(k - 1) : /\ \A l \in seen(k - 1) : j <= l
                                                /\ b.name = table[cands[j]].name
                                                /\ b.score = RuleScore(table[cands[j]])
                        BY <2>3, <3>5
                  <4>2. Precedes(table, cands[j], cands[k])
                        BY <1>1, <2>2
                  <4>3. ~better
                        <5>1. PICK x \in Nat, y \in Nat :
                                 x = RuleScore(table[cands[j]]) /\ y = RuleScore(r)
                              BY ScoreIsNat
                        <5>2. x > y \/ x = y  BY <4>2, <5>1 DEF Precedes
                        <5>3. ~(y > x)  BY <5>2
                        <5>4. QED  BY <4>1, <5>1, <5>3
                  <4>4. best[k].name = b.name /\ best[k].score = b.score
                        <5> HIDE DEF better, b, r
                        <5>1. QED  BY <3>2, <4>3
                  <4>5. j \in seen(k) /\ \A l \in seen(k) : j <= l
                        <5>1. j < k /\ j \in 1..m  BY <2>2
                        <5>2. j <= k  BY <5>1
                        <5> HIDE DEF seen
                        <5>3. QED  BY <3>1, <4>1, <5>2
                  <4> HIDE DEF seen, b, r
                  <4>6. QED  BY <3>3, <4>1, <4>4, <4>5 DEF TurnsTold, seen
            <3>6. QED  BY <3>4, <3>5
      <2>6. QED  BY <2>4, <2>5
<1>6. Told(m)
      <2> DEFINE T == {k \in 0..m : Told(k)}
      <2> HIDE DEF Told
      <2>1. 0 \in T  BY <1>1, <1>4
      <2>2. ASSUME NEW k \in 1..m, k - 1 \in T  PROVE k \in T
            <3>1. Told(k)  BY <1>5, <2>2
            <3>2. QED  BY <3>1
      <2> HIDE DEF T
      <2>3. 0..m \subseteq T  BY <1>1, <2>1, <2>2, Induction
      <2>4. m \in T  BY <1>1, <2>3
      <2>5. QED  BY <2>4 DEF T
<1>7. QED  BY <1>1, <1>2, <1>6 DEF m, Loop

Seen(table, e, cands, k) == {j \in 1..k : Strong(table[cands[j]], e)}

\* The strong rules are found at the places of the strong candidates.
LEMMA SeenAreStrong ==
    ASSUME NEW n \in Nat, NEW table, DOMAIN table = 1..n, NEW e,
           NEW cands, cands = Candidates(table, e),
           NEW seen, seen = Seen(table, e, cands, Len(cands))
    PROVE  /\ \A j \in seen : cands[j] \in Strongs(table, e)
           /\ \A i \in Strongs(table, e) : \E j \in seen : cands[j] = i
           /\ IsFiniteSet(seen) /\ Cardinality(seen) \in Nat
           /\ Cardinality(Strongs(table, e)) = Cardinality(seen)
<1> DEFINE S == Fit(table, e)
           W == Strongs(table, e)
           m == Len(cands)
<1>1. /\ S \in SUBSET (1..n) /\ m \in Nat /\ cands \in [1..m -> S]
      /\ \A i \in S : \E k \in 1..m : cands[k] = i
      /\ \A k, l \in 1..m : k < l => Precedes(table, cands[k], cands[l])
      BY CandidatesSorted
<1>2. seen = {j \in 1..m : Strong(table[cands[j]], e)}  BY DEF Seen
<1>3. W = {i \in S : Strong(table[i], e)}  BY DEF Strongs
<1> HIDE DEF S, W, m
<1>4. \A j \in seen : cands[j] \in W  BY <1>1, <1>2, <1>3
<1>5. \A i \in W : \E j \in seen : cands[j] = i  BY <1>1, <1>2, <1>3
<1>6. ASSUME NEW k \in seen, NEW l \in seen, cands[k] = cands[l]  PROVE k = l
      <2>1. ASSUME NEW x \in 1..m, NEW y \in 1..m, x < y  PROVE cands[x] # cands[y]
            <3>1. Precedes(table, cands[x], cands[y])  BY <1>1, <2>1
            <3>2. cands[x] \in Nat
                  <4>1. cands[x] \in S  BY <1>1
                  <4>2. S \in SUBSET Nat  BY <1>1
                  <4>3. QED  BY <4>1, <4>2
            <3>3. ~Precedes(table, cands[x], cands[x])
                  <4>1. PICK a \in Nat, c \in Nat :
                           a = RuleScore(table[cands[x]]) /\ c = cands[x]
                        BY <3>2, ScoreIsNat
                  <4>2. ~(a > a) /\ ~(c < c)  OBVIOUS
                  <4>3. QED  BY <4>1, <4>2 DEF Precedes
            <3>4. QED  BY <3>1, <3>3
      <2>2. k \in 1..m /\ l \in 1..m  BY <1>2
      <2>3. k = l \/ k < l \/ l < k  BY <1>1, <2>2
      <2>4. QED  BY <1>6, <2>1, <2>2, <2>3
<1>7. IsFiniteSet(seen)
      <2>1. seen \in SUBSET (1..m)  BY <1>2
      <2>2. IsFiniteSet(1..m)  BY <1>1, FS_Interval
      <2>3. QED  BY <2>1, <2>2, FS_Subset
<1>8. Cardinality(W) = Cardinality(seen)
      <2> DEFINE f == [j \in seen |-> cands[j]]
      <2>1. f \in [seen -> W] /\ \A j \in seen : f[j] = cands[j]  BY <1>4
      <2> HIDE DEF f
      <2>2. \A k, l \in seen : f[k] = f[l] => k = l  BY <1>6, <2>1
      <2>3. \A i \in W : \E j \in seen : f[j] = i  BY <1>5, <2>1
      <2>4. f \in Injection(seen, W)  BY <2>1, <2>2 DEF Injection, IsInjective
      <2>5. f \in Surjection(seen, W)  BY <2>1, <2>3 DEF Surjection
      <2>6. QED  BY <1>7, <2>4, <2>5, FS_Surjection
<1>9. QED  BY <1>4, <1>5, <1>7, <1>8, FS_CardinalityType DEF W

\* What Match says of an event: the first strong candidate and how many more.
LEMMA MatchTells ==
    ASSUME NEW n \in Nat, NEW table, DOMAIN table = 1..n, table # <<>>, NEW e,
           NEW cands, cands = Candidates(table, e),
           NEW seen, seen = Seen(table, e, cands, Len(cands))
    PROVE  /\ seen = {} => Match(table, e) = Plain("(No matching rule)")
           /\ seen # {} =>
                 /\ Match(table, e).more = Cardinality(seen) - 1
                 /\ \E j \in seen : /\ \A l \in seen : j <= l
                                    /\ Match(table, e).name = table[cands[j]].name
<1> DEFINE best == BestStrong(table, cands, e)
<1>1. TurnsTold(table, e, cands, best, Len(cands))  BY BestIsFirst
<1>2. Match(table, e) = IF best.count = 0 THEN Plain("(No matching rule)")
                        ELSE [name |-> best.name, more |-> best.count - 1]
      BY DEF Match
<1> HIDE DEF best
<1>3. /\ best.count = Cardinality(seen)
      /\ seen # {} => \E j \in seen : /\ \A l \in seen : j <= l
                                     /\ best.name = table[cands[j]].name
      BY <1>1 DEF TurnsTold, Seen
<1>4. IsFiniteSet(seen) /\ Cardinality(seen) \in Nat  BY SeenAreStrong
<1>5. Cardinality(seen) = 0 <=> seen = {}  BY <1>4, FS_EmptySet
<1>6. CASE seen = {}
      <2>1. best.count = 0  BY <1>3, <1>5, <1>6
      <2>2. QED  BY <1>2, <1>6, <2>1
<1>7. CASE seen # {}
      <2>1. best.count # 0  BY <1>3, <1>5, <1>7
      <2>2. Match(table, e) = [name |-> best.name, more |-> best.count - 1]
            BY <1>2, <2>1
      <2>3. /\ Match(table, e).name = best.name
            /\ Match(table, e).more = Cardinality(seen) - 1
            BY <1>3, <2>2
      <2>4. QED  BY <1>3, <1>7, <2>3
<1>8. QED  BY <1>6, <1>7

\* The column names the strong rule that precedes all others, and counts them.
LEMMA MatchedRule ==
    ASSUME NEW n \in Nat, NEW table, DOMAIN table = 1..n, table # <<>>, NEW e
    PROVE  LET W == Strongs(table, e)
           IN  /\ Cardinality(W) \in Nat
               /\ W = {} => Match(table, e) = Plain("(No matching rule)")
               /\ W # {} =>
                    /\ Match(table, e).more = Cardinality(W) - 1 /\ Cardinality(W) # 0
                    /\ \E i \in W : /\ table[i].name = Match(table, e).name
                                    /\ \A j \in W \ {i} : Precedes(table, i, j)
<1> DEFINE cands == Candidates(table, e)
           m == Len(cands)
           seen == Seen(table, e, cands, m)
           W == Strongs(table, e)
           u == Match(table, e)
<1>1. /\ m \in Nat
      /\ \A k, l \in 1..m : k < l => Precedes(table, cands[k], cands[l])
      BY CandidatesSorted
<1>2. /\ \A j \in seen : cands[j] \in W
      /\ \A i \in W : \E j \in seen : cands[j] = i
      /\ IsFiniteSet(seen) /\ Cardinality(seen) \in Nat
      /\ Cardinality(W) = Cardinality(seen)
      BY SeenAreStrong
<1>3. /\ seen = {} => u = Plain("(No matching rule)")
      /\ seen # {} =>
           /\ u.more = Cardinality(seen) - 1
           /\ \E j \in seen : /\ \A l \in seen : j <= l
                              /\ u.name = table[cands[j]].name
      BY MatchTells
<1>4. seen \in SUBSET (1..m)  BY DEF Seen
<1> HIDE DEF cands, m, seen, W, u
<1>5. CASE W = {}
      <2>1. seen = {}  BY <1>2, <1>5
      <2>2. QED  BY <1>2, <1>3, <1>5, <2>1 DEF W, u
<1>6. CASE W # {}
      <2>1. seen # {} /\ Cardinality(W) # 0
            <3>1. seen # {}  BY <1>2, <1>6
            <3>2. Cardinality(seen) # 0  BY <1>2, <3>1, FS_EmptySet
            <3>3. QED  BY <1>2, <3>1, <3>2
      <2>2. PICK j \in seen : /\ \A l \in seen : j <= l
                              /\ u.name = table[cands[j]].name
            BY <1>3, <2>1
      <2>3. ASSUME NEW i \in W \ {cands[j]}  PROVE Precedes(table, cands[j], i)
            <3>1. PICK l \in seen : cands[l] = i  BY <1>2
            <3>2. j \in 1..m /\ l \in 1..m /\ j <= l /\ j # l
                  BY <1>4, <2>2, <3>1
            <3>3. j < l  BY <3>2
            <3>4. QED  BY <1>1, <3>1, <3>2, <3>3
      <2>4. cands[j] \in W  BY <1>2, <2>2
      <2>5. u.more = Cardinality(W) - 1  BY <1>2, <1>3, <2>1
      <2>6. QED  BY <1>2, <1>6, <2>1, <2>2, <2>3, <2>4, <2>5 DEF W, u
<1>7. QED  BY <1>5, <1>6

\* The lines of the detail view against the column, for one event and one table.
LEMMA DetailTells ==
    ASSUME NEW n \in Nat, NEW table, DOMAIN table = 1..n, table # <<>>, NEW e,
           NEW d, d = PossibleMatches(table, e),
           NEW u, u = Match(table, e),
           NEW strong, strong = {k \in DOMAIN d.lines : d.lines[k].strong}
    PROVE  IF strong # {}
           THEN /\ \E k \in strong : /\ \A j \in strong : k <= j
                                    /\ d.lines[k].name = u.name
                /\ Cardinality(strong) <= u.more + 1
                /\ u.more + 1 <= Cardinality(strong) + d.more
           ELSE RuleNamed(u) => d.more > u.more
<1> DEFINE cands == Candidates(table, e)
           m == Len(cands)
           shown == IF m > Limit THEN Limit ELSE m
           seen == Seen(table, e, cands, m)
           told == Match(table, e)
<1>1. m \in Nat /\ shown \in Nat /\ shown <= m
      <2>1. m \in Nat  BY CandidatesSorted
      <2>2. Limit \in Nat  BY ConstantsAssumption
      <2> HIDE DEF m
      <2>3. CASE m > Limit  BY <2>1, <2>2, <2>3
      <2>4. CASE ~(m > Limit)  BY <2>1, <2>4
      <2>5. QED  BY <2>3, <2>4
<1>2. IsFiniteSet(seen) /\ Cardinality(seen) \in Nat  BY SeenAreStrong
<1>3. /\ seen = {} => u = Plain("(No matching rule)")
      /\ seen # {} =>
           /\ u.more = Cardinality(seen) - 1
           /\ \E j \in seen : /\ \A l \in seen : j <= l
                              /\ u.name = table[cands[j]].name
      <2>1. /\ seen = {} => told = Plain("(No matching rule)")
            /\ seen # {} =>
                 /\ told.more = Cardinality(seen) - 1
                 /\ \E j \in seen : /\ \A l \in seen : j <= l
                                    /\ told.name = table[cands[j]].name
            BY MatchTells
      <2>2. told = u  OBVIOUS
      <2> HIDE DEF seen, cands, told
      <2>3. QED  BY <2>1, <2>2
<1>4. seen = {j \in 1..m : Strong(table[cands[j]], e)}  BY DEF Seen
<1>5. /\ d.lines = [i \in 1..shown |-> [name   |-> table[cands[i]].name,
                                      strong |-> Strong(table[cands[i]], e)]]
      /\ d.more = m - shown
      BY DEF PossibleMatches
<1> HIDE DEF cands, m, shown, seen, told
<1>6. /\ DOMAIN d.lines = 1..shown
      /\ \A k \in 1..shown : /\ d.lines[k].name = table[cands[k]].name
                            /\ d.lines[k].strong = Strong(table[cands[k]], e)
      BY <1>5
<1>7. strong = {k \in seen : k <= shown}
      <2>1. \A k : k \in 1..shown <=> k \in 1..m /\ k <= shown  BY <1>1
      <2>2. \A k : k \in strong <=> k \in 1..shown /\ d.lines[k].strong  BY <1>6
      <2>3. \A k : k \in strong <=> k \in 1..shown /\ Strong(table[cands[k]], e)
            BY <1>6, <2>2
      <2>4. QED  BY <1>4, <2>1, <2>3
<1> DEFINE cut == (shown + 1)..m
<1>8. IsFiniteSet(cut) /\ Cardinality(cut) = m - shown
      <2>1. IsFiniteSet(cut) /\ Cardinality(cut) =
               IF shown + 1 > m THEN 0 ELSE m - (shown + 1) + 1
            BY <1>1, FS_Interval
      <2>2. QED  BY <1>1, <2>1
<1>9. seen \in SUBSET (strong \cup cut)
      <2>1. \A k \in 1..m : k <= shown \/ k \in cut  BY <1>1
      <2>2. QED  BY <1>4, <1>7, <2>1
<1> HIDE DEF cut
<1>10. /\ IsFiniteSet(strong) /\ Cardinality(strong) \in Nat
       /\ Cardinality(strong) <= Cardinality(seen)
       <2>1. strong \in SUBSET seen  BY <1>7
       <2>2. QED  BY <1>2, <2>1, FS_Subset, FS_CardinalityType
<1>11. Cardinality(seen) <= Cardinality(strong) + d.more
       <2>1. /\ IsFiniteSet(strong \cup cut)
             /\ Cardinality(strong \cup cut) =
                   Cardinality(strong) + Cardinality(cut) - Cardinality(strong \cap cut)
             BY <1>8, <1>10, FS_Union
       <2>2. Cardinality(strong \cap cut) \in Nat
             <3>1. strong \cap cut \in SUBSET strong  OBVIOUS
             <3>2. QED  BY <1>10, <3>1, FS_Subset, FS_CardinalityType
       <2>3. Cardinality(seen) <= Cardinality(strong \cup cut)
             BY <1>9, <2>1, FS_Subset
       <2>4. PICK a \in Nat, b \in Nat, c \in Nat, f \in Nat :
                /\ a = Cardinality(strong) /\ b = Cardinality(strong \cap cut)
                /\ c = Cardinality(seen) /\ f = m - shown
             <3>1. m - shown \in Nat  BY <1>1
             <3>2. QED  BY <1>2, <1>10, <2>2, <3>1
       <2>5. Cardinality(strong \cup cut) = a + f - b  BY <1>8, <2>1, <2>4
       <2>6. c <= a + f - b  BY <2>3, <2>4, <2>5
       <2>7. c <= a + f  BY <2>6
       <2>8. d.more = f  BY <1>5, <2>4
       <2>9. QED  BY <2>4, <2>7, <2>8
<1>12. CASE strong # {}
       <2>1. seen # {}  BY <1>7, <1>12
       <2>2. PICK j \in seen : /\ \A l \in seen : j <= l
                               /\ u.name = table[cands[j]].name
             BY <1>3, <2>1
       <2>3. j \in strong /\ \A k \in strong : j <= k
             <3>1. PICK k \in strong : TRUE  BY <1>12
             <3>2. j <= k /\ k <= shown  BY <1>7, <2>2
             <3>3. j \in 1..m /\ k \in 1..m  BY <1>4, <1>7
             <3>4. j <= shown  BY <1>1, <3>2, <3>3
             <3>5. QED  BY <1>7, <2>2, <3>4
       <2>4. d.lines[j].name = u.name
             <3>1. j \in 1..m /\ j <= shown  BY <1>4, <1>7, <2>3
             <3>2. j \in 1..shown  BY <1>1, <3>1
             <3>3. QED  BY <1>6, <2>2, <3>2
       <2>5. u.more + 1 = Cardinality(seen)
             <3>1. u.more = Cardinality(seen) - 1  BY <1>3, <2>1
             <3>2. PICK c \in Nat : c = Cardinality(seen)  BY <1>2
             <3>3. (c - 1) + 1 = c  OBVIOUS
             <3>4. QED  BY <3>1, <3>2, <3>3
       <2>6. /\ Cardinality(strong) <= u.more + 1
             /\ u.more + 1 <= Cardinality(strong) + d.more
             BY <1>10, <1>11, <2>5
       <2>7. QED  BY <1>12, <2>3, <2>4, <2>6
<1>13. CASE strong = {}
       <2>1. ASSUME seen = {}  PROVE ~RuleNamed(u)
             <3>1. u = Plain("(No matching rule)")  BY <1>3, <2>1
             <3>2. Plain("(No matching rule)").name = "(No matching rule)"
                   BY DEF Plain
             <3>3. u.name = "(No matching rule)"  BY <3>1, <3>2
             <3>4. QED  BY <3>3 DEF RuleNamed
       <2>2. ASSUME seen # {}  PROVE d.more > u.more
             <3>1. Cardinality(seen) <= d.more
                   <4>1. Cardinality(strong) = 0  BY <1>13, FS_EmptySet
                   <4>2. QED  BY <1>1, <1>5, <1>11, <4>1
             <3>2. u.more = Cardinality(seen) - 1  BY <1>3, <2>2
             <3>3. QED  BY <1>1, <1>2, <1>5, <3>1, <3>2
       <2>3. QED  BY <1>13, <2>1, <2>2
<1>14. QED  BY <1>12, <1>13

-----------------------------------------------------------------------------
(* The scan of the filter dump.                                            *)

Texts(items) == {items[i].name : i \in DOMAIN items} \cup {""}

TagSet(T) == [is : {"name"}, text : T] \cup [is : {"filterId"}, num : Int]

Printing(p, items) ==
    /\ p[0] = <<>> /\ p[Len(items)] = Printed(items)
    /\ \A k \in 0..Len(items) : p[k] \in Seq(TagSet(Texts(items)))
    /\ \A k \in 1..Len(items) : p[k] = p[k - 1] \o Tags(items[k])

\* An item's tags are tags.
LEMMA TagsAreTags ==
    ASSUME NEW items \in Seq(Items), NEW k \in 1..Len(items)
    PROVE  Tags(items[k]) \in Seq(TagSet(Texts(items)))
<1> DEFINE T == Texts(items)
           it == items[k]
<1>1. it \in Items  BY ElementOfSeq
<1>2. it.name \in T
      <2>1. k \in DOMAIN items  BY LenProperties
      <2>2. QED  BY <2>1 DEF Texts
<1>3. it.id \in Int  BY <1>1 DEF Items
<1> HIDE DEF it, T
<1>4. NameTag(it.name) \in TagSet(T)  BY <1>2 DEF NameTag, TagSet
<1>5. IdTag(it.id) \in TagSet(T)  BY <1>3 DEF IdTag, TagSet
<1>6. Tags(it) \in Seq(TagSet(T))
      <2> DEFINE x == NameTag(it.name)
                 y == IdTag(it.id)
                 G == TagSet(T)
      <2>1. x \in G /\ y \in G  BY <1>4, <1>5
      <2>2. Tags(it) = <<y>> \/ Tags(it) = <<x, y>>  BY DEF Tags
      <2> HIDE DEF x, y, G
      <2>3. <<y>> \in Seq(G) /\ <<x, y>> \in Seq(G)  BY <2>1
      <2>4. QED  BY <2>2, <2>3 DEF G
<1>7. QED  BY <1>6 DEF it, T

\* The dump is printed item by item.
LEMMA DumpIsPrinted ==
    ASSUME NEW items \in Seq(Items)
    PROVE  \E p : Printing(p, items)
<1> DEFINE n == Len(items)
           A == Seq(TagSet(Texts(items)))
           step == [k \in 1..n |-> [s \in A |-> s \o Tags(items[k])]]
<1>1. n \in Nat  BY LenProperties
<1>2. ASSUME NEW k \in 1..n, NEW s \in A  PROVE s \o Tags(items[k]) \in A
      BY TagsAreTags, ConcatProperties
<1>3. <<>> \in A  OBVIOUS
<1> HIDE DEF A, n
<1>4. step \in Turns(n, A)  BY <1>2 DEF Turns
<1>5. \A k \in 1..n : \A s \in A : step[k][s] = s \o Tags(items[k])  OBVIOUS
<1> HIDE DEF step
<1>6. PICK f \in [0..n -> A] : f[0] = <<>> /\ \A k \in 1..n : f[k] = step[k][f[k - 1]]
      <2>1. \E f \in [0..n -> A] : Accumulates(f, <<>>, step, n)
            BY <1>1, <1>3, <1>4, Recursion
      <2>2. QED  BY <2>1 DEF Accumulates
<1>7. \A k \in 1..n : f[k] = f[k - 1] \o Tags(items[k])
      <2>1. ASSUME NEW k \in 1..n  PROVE f[k - 1] \in A
            <3>1. k - 1 \in 0..n  BY <1>1
            <3>2. QED  BY <1>6, <3>1
      <2>2. QED  BY <1>5, <1>6, <2>1
<1> DEFINE Runs(p) ==
              p = [k \in 0..Len(items) |->
                     IF k = 0 THEN <<>> ELSE p[k - 1] \o Tags(items[k])]
           p == CHOOSE b : Runs(b)
<1>8. Runs(f)
      <2>1. ASSUME NEW k \in 0..n
            PROVE  f[k] = IF k = 0 THEN <<>> ELSE f[k - 1] \o Tags(items[k])
            <3>1. k = 0 \/ k \in 1..n  BY <1>1
            <3>2. QED  BY <1>6, <1>7, <3>1
      <2>2. QED  BY <1>6, <2>1 DEF n
<1>9. Printed(items) = p[n]  BY DEF Printed, n
<1>10. Runs(p)
       <2> HIDE DEF Runs
       <2>1. QED  BY <1>8
<1> HIDE DEF p
<1>11. p[0] = <<>> /\ \A k \in 1..n : p[k] = p[k - 1] \o Tags(items[k])
       <2>1. 0 \in 0..n /\ \A k \in 1..n : k \in 0..n /\ k # 0
             BY <1>1
       <2>2. QED  BY <1>10, <2>1 DEF n
<1> HIDE DEF Runs
<1>12. \A k \in 0..n : p[k] \in A
       <2> DEFINE U == {k \in 0..n : p[k] \in A}
       <2>1. 0 \in U  BY <1>1, <1>3, <1>11
       <2>2. ASSUME NEW k \in 1..n, k - 1 \in U  PROVE k \in U
             <3>1. k \in 0..n  BY <1>1
             <3>2. p[k] \in A  BY <1>2, <1>11, <2>2
             <3>3. QED  BY <3>1, <3>2
       <2> HIDE DEF U
       <2>3. 0..n \subseteq U  BY <1>1, <2>1, <2>2, Induction
       <2>4. QED  BY <2>3 DEF U
<1>13. QED  BY <1>9, <1>11, <1>12 DEF Printing, n, A

\* What was printed up to an item stays in place.
LEMMA PrintedInPlace ==
    ASSUME NEW items \in Seq(Items), NEW p, Printing(p, items)
    PROVE  \A j \in 0..Len(items) :
              /\ Len(p[j]) \in 0..Len(Printed(items))
              /\ \A i \in 1..Len(p[j]) : Printed(items)[i] = p[j][i]
<1> DEFINE n == Len(items)
           A == TagSet(Texts(items))
           Kept(k) == \A j \in 0..k : /\ Len(p[j]) \in 0..Len(p[k])
                                     /\ \A i \in 1..Len(p[j]) : p[k][i] = p[j][i]
           U == {k \in 0..n : Kept(k)}
<1>1. n \in Nat  BY LenProperties
<1>2. /\ p[n] = Printed(items)
      /\ \A k \in 0..n : p[k] \in Seq(A)
      /\ \A k \in 1..n : p[k] = p[k - 1] \o Tags(items[k]) /\ Tags(items[k]) \in Seq(A)
      BY TagsAreTags DEF Printing
<1> HIDE DEF n, A
<1>3. \A k \in 0..n : Len(p[k]) \in Nat  BY <1>2, LenProperties
<1>4. 0 \in U
      <2>1. 0 \in 0..n /\ \A j \in 0..0 : j = 0  BY <1>1
      <2>2. Len(p[0]) \in 0..Len(p[0])  BY <1>3, <2>1
      <2>3. Kept(0)  BY <2>1, <2>2
      <2>4. QED  BY <2>1, <2>3
<1>5. ASSUME NEW k \in 1..n, k - 1 \in U  PROVE k \in U
      <2>1. k - 1 \in 0..n /\ k \in 0..n  BY <1>1
      <2>2. Kept(k - 1)  BY <1>5
      <2> DEFINE s == p[k - 1]
                 t == Tags(items[k])
      <2>3. s \in Seq(A) /\ t \in Seq(A) /\ p[k] = s \o t  BY <1>2, <2>1
      <2>4. /\ Len(p[k]) = Len(s) + Len(t) /\ Len(s) \in Nat /\ Len(t) \in Nat
            /\ \A i \in 1..Len(s) : p[k][i] = s[i]
            <3> HIDE DEF s, t
            <3>1. /\ Len(s \o t) = Len(s) + Len(t)
                  /\ \A i \in 1..(Len(s) + Len(t)) :
                        (s \o t)[i] = IF i <= Len(s) THEN s[i] ELSE t[i - Len(s)]
                  /\ Len(s) \in Nat /\ Len(t) \in Nat
                  BY <2>3, ConcatProperties, LenProperties
            <3>2. \A i \in 1..Len(s) : i \in 1..(Len(s) + Len(t)) /\ i <= Len(s)
                  BY <3>1
            <3>3. QED  BY <2>3, <3>1, <3>2
      <2>5. ASSUME NEW j \in 0..k
            PROVE  /\ Len(p[j]) \in 0..Len(p[k])
                   /\ \A i \in 1..Len(p[j]) : p[k][i] = p[j][i]
            <3>1. CASE j = k
                  <4>1. Len(p[k]) \in Nat  BY <1>3, <2>1
                  <4>2. QED  BY <3>1, <4>1
            <3>2. CASE j # k
                  <4>1. j \in 0..(k - 1)  BY <3>2, <2>1
                  <4>2. /\ Len(p[j]) \in 0..Len(s)
                        /\ \A i \in 1..Len(p[j]) : s[i] = p[j][i]
                        BY <2>2, <4>1
                  <4>3. Len(p[j]) \in 0..Len(p[k])
                        /\ \A i \in 1..Len(p[j]) : i \in 1..Len(s)
                        <5>1. PICK a \in Nat, b \in Nat, c \in Nat :
                                 /\ a = Len(s) /\ b = Len(t) /\ c = Len(p[j])
                              BY <2>4, <4>2
                        <5>2. c <= a /\ Len(p[k]) = a + b  BY <2>4, <4>2, <5>1
                        <5> HIDE DEF s, t
                        <5>3. c \in 0..(a + b) /\ \A i \in 1..c : i \in 1..a
                              BY <5>2
                        <5>4. QED  BY <5>1, <5>2, <5>3
                  <4>4. QED  BY <2>4, <4>2, <4>3
            <3>3. QED  BY <3>1, <3>2
      <2>6. QED  BY <2>1, <2>5
<1> HIDE DEF Kept
<1>6. n \in U
      <2> HIDE DEF U
      <2>1. 0..n \subseteq U  BY <1>1, <1>4, <1>5, Induction
      <2>2. n \in 0..n  BY <1>1
      <2>3. QED  BY <2>1, <2>2
<1>7. Kept(n)  BY <1>6
<1>8. QED  BY <1>2, <1>7 DEF Kept, n

Nothing == [lastName |-> "", names |-> <<>>]

Scanning(acc, tags) ==
    /\ acc[0] = Nothing /\ ParseWFPFilters(tags) = acc[Len(tags)].names
    /\ \A k \in 1..Len(tags) : acc[k] = Scan(acc[k - 1], tags[k])

\* The dump is scanned tag by tag.
LEMMA DumpIsScanned ==
    ASSUME NEW items, NEW tags \in Seq(TagSet(Texts(items)))
    PROVE  \E acc : Scanning(acc, tags)
<1> DEFINE n == Len(tags)
           T == Texts(items)
           Maps == UNION {[D -> T] : D \in SUBSET Int}
           A == [lastName : T, names : Maps]
           step == [k \in 1..n |-> [a \in A |-> Scan(a, tags[k])]]
<1>1. n \in Nat  BY LenProperties
<1>0. "" \in T  BY DEF Texts
<1> HIDE DEF T
<1>2. ASSUME NEW m \in Maps, NEW id \in Int, NEW name \in T
      PROVE  Named(m, id, name) \in Maps
      <2>1. PICK D \in SUBSET Int : m \in [D -> T]  OBVIOUS
      <2>2. Named(m, id, name) \in [D \cup {id} -> T]  BY <2>1 DEF Named
      <2>3. D \cup {id} \in SUBSET Int  OBVIOUS
      <2>4. QED  BY <2>2, <2>3
<1>3. <<>> \in Maps
      <2>1. <<>> \in [{} -> T]
            <3>1. <<>> \in Seq(T) /\ Len(<<>>) = 0  OBVIOUS
            <3>2. <<>> \in [1..0 -> T]  BY <3>1, LenProperties
            <3>3. 1..0 = {}  OBVIOUS
            <3>4. QED  BY <3>2, <3>3
      <2>2. {} \in SUBSET Int  OBVIOUS
      <2>3. QED  BY <2>1, <2>2
<1> HIDE DEF Maps, n
<1>4. Nothing \in A  BY <1>0, <1>3 DEF Nothing
<1>5. ASSUME NEW k \in 1..n, NEW a \in A  PROVE Scan(a, tags[k]) \in A
      <2> DEFINE t == tags[k]
      <2>1. t \in TagSet(T)  BY ElementOfSeq DEF n, T
      <2> HIDE DEF t
      <2> DEFINE r == Scan(a, t)
      <2>0. a.lastName \in T /\ a.names \in Maps  OBVIOUS
      <2>2. ASSUME t.is = "name"  PROVE r \in A
            <3>1. t.text \in T  BY <2>1, <2>2 DEF TagSet
            <3>2. r = [lastName |-> t.text, names |-> a.names]
                  BY <2>2 DEF Scan
            <3> HIDE DEF r
            <3>3. QED  BY <2>0, <3>1, <3>2
      <2>3. ASSUME t.is # "name"  PROVE r \in A
            <3>1. t.num \in Int  BY <2>1, <2>3 DEF TagSet
            <3>2. Named(a.names, t.num, a.lastName) \in Maps  BY <1>2, <3>1
            <3>3. r = [lastName |-> "",
                       names |-> IF t.num > 0 /\ a.lastName # ""
                                 THEN Named(a.names, t.num, a.lastName) ELSE a.names]
                  BY <2>3 DEF Scan
            <3> HIDE DEF r
            <3>4. PICK m \in Maps : r = [lastName |-> "", names |-> m]
                  BY <2>0, <3>2, <3>3
            <3>5. [lastName |-> "", names |-> m] \in A  BY <1>0
            <3>6. QED  BY <3>4, <3>5
      <2>4. r \in A  BY <2>2, <2>3
      <2>5. QED  BY <2>4 DEF r, t
<1> HIDE DEF A
<1>6. step \in Turns(n, A)  BY <1>5 DEF Turns
<1>7. \A k \in 1..n : \A a \in A : step[k][a] = Scan(a, tags[k])  OBVIOUS
<1> HIDE DEF step
<1>8. PICK f \in [0..n -> A] : f[0] = Nothing /\ \A k \in 1..n : f[k] = step[k][f[k - 1]]
      <2>1. \E f \in [0..n -> A] : Accumulates(f, Nothing, step, n)
            BY <1>1, <1>4, <1>6, Recursion
      <2>2. QED  BY <2>1 DEF Accumulates
<1>9. \A k \in 1..n : f[k] = Scan(f[k - 1], tags[k])
      <2>1. ASSUME NEW k \in 1..n  PROVE f[k - 1] \in A
            <3>1. k - 1 \in 0..n  BY <1>1, TurnNumbers
            <3>2. QED  BY <1>8, <3>1
      <2>2. QED  BY <1>7, <1>8, <2>1
<1> DEFINE Runs(acc) ==
              acc = [k \in 0..Len(tags) |->
                       IF k = 0 THEN [lastName |-> "", names |-> <<>>]
                       ELSE Scan(acc[k - 1], tags[k])]
           acc == CHOOSE b : Runs(b)
<1>10. Runs(f)
      <2>1. ASSUME NEW k \in 0..n
            PROVE  f[k] = IF k = 0 THEN [lastName |-> "", names |-> <<>>]
                          ELSE Scan(f[k - 1], tags[k])
            <3>1. k = 0 \/ k \in 1..n  BY <1>1, TurnNumbers
            <3>2. QED  BY <1>8, <1>9, <3>1 DEF Nothing
      <2>2. QED  BY <1>8, <2>1 DEF n
<1>11. ParseWFPFilters(tags) = acc[n].names  BY DEF ParseWFPFilters, n
<1>12. Runs(acc)
       <2> HIDE DEF Runs
       <2>1. QED  BY <1>10
<1> HIDE DEF acc
<1>13. acc[0] = Nothing /\ \A k \in 1..n : acc[k] = Scan(acc[k - 1], tags[k])
       <2>1. 0 \in 0..n /\ \A k \in 1..n : k \in 0..n /\ k # 0
             BY <1>1, TurnNumbers
       <2>2. QED  BY <1>12, <2>1 DEF n, Nothing
<1>14. QED  BY <1>11, <1>13 DEF Scanning, n

Good(item) == item.name # "" /\ item.id > 0

Distinct(items) == \A i, j \in DOMAIN items :
                      i # j /\ items[i].id > 0 => items[i].id # items[j].id

ScanItem(a, item) == IF item.name = "" THEN Scan(a, IdTag(item.id))
                     ELSE Scan(Scan(a, NameTag(item.name)), IdTag(item.id))

\* The table a holds the good items among the first k, and no name is left over.
ItemsTold(items, a, k) ==
    /\ a.lastName = ""
    /\ DOMAIN a.names = {items[j].id : j \in {i \in 1..k : Good(items[i])}}
    /\ \A j \in 1..k : Good(items[j]) => a.names[items[j].id] = items[j].name

LEMMA Fields ==
    ASSUME NEW x, NEW y, NEW r, r = [lastName |-> x, names |-> y]
    PROVE  r.lastName = x /\ r.names = y
OBVIOUS

\* Scanning the tags of one more item tells it.
LEMMA ItemTold ==
    ASSUME NEW items \in Seq(Items), NEW k \in 1..Len(items), NEW a,
           Distinct(items), ItemsTold(items, a, k - 1)
    PROVE  ItemsTold(items, ScanItem(a, items[k]), k)
<1> DEFINE it == items[k]
           b == ScanItem(a, it)
<1> HIDE DEF b
<1>1. Len(items) \in Nat /\ DOMAIN items = 1..Len(items)  BY LenProperties
<1>2. k \in Nat /\ \A j : j \in 1..k <=> j \in 1..(k - 1) \/ j = k
      BY <1>1, TurnNumbers
<1>3. \A j \in 1..(k - 1) : items[j].id > 0 => items[j].id # it.id
      <2>1. \A j \in 1..(k - 1) : j \in 1..Len(items) /\ j # k
            BY <1>1, TurnNumbers
      <2>2. QED  BY <1>1, <2>1 DEF Distinct
<1>4. /\ b.lastName = ""
      /\ b.names = IF Good(it) THEN Named(a.names, it.id, it.name) ELSE a.names
      <2>1. CASE it.name = ""
            <3>1. b = Scan(a, IdTag(it.id))  BY <2>1 DEF ScanItem, b
            <3>2. IdTag(it.id).is = "filterId" /\ "filterId" # "name"  BY DEF IdTag
            <3>3. a.lastName = ""  BY DEF ItemsTold
            <3>4. b = [lastName |-> "", names |-> a.names]
                  <4> HIDE DEF it
                  <4>1. QED  BY <3>1, <3>2, <3>3 DEF Scan
            <3>5. ~Good(it)  BY <2>1 DEF Good
            <3>6. b.lastName = "" /\ b.names = a.names  BY <3>4, Fields
            <3>7. QED  BY <3>5, <3>6
      <2>2. CASE it.name # ""
            <3> DEFINE c == Scan(a, NameTag(it.name))
            <3>1. b = Scan(c, IdTag(it.id))  BY <2>2 DEF ScanItem, b
            <3>2. c = [lastName |-> it.name, names |-> a.names]
                  BY DEF Scan, NameTag
            <3>3. IdTag(it.id).is = "filterId" /\ "filterId" # "name"
                  /\ IdTag(it.id).num = it.id
                  BY DEF IdTag
            <3>4. b = [lastName |-> "",
                       names    |-> IF it.id > 0 /\ it.name # ""
                                    THEN Named(a.names, it.id, it.name) ELSE a.names]
                  <4>1. c.lastName = it.name /\ c.names = a.names
                        <5> HIDE DEF c, it
                        <5>1. QED  BY <3>2
                  <4> HIDE DEF c, it
                  <4>2. Scan(c, IdTag(it.id)) =
                          [lastName |-> "",
                           names    |-> IF it.id > 0 /\ c.lastName # ""
                                        THEN Named(c.names, it.id, c.lastName) ELSE c.names]
                        BY <3>3 DEF Scan
                  <4>3. QED  BY <3>1, <4>1, <4>2
            <3>5. Good(it) <=> it.id > 0 /\ it.name # ""  BY DEF Good
            <3> HIDE DEF it
            <3>6. b.lastName = ""  BY <3>4, Fields
            <3>7. b.names = IF it.id > 0 /\ it.name # ""
                            THEN Named(a.names, it.id, it.name) ELSE a.names
                  BY <3>4, Fields
            <3>8. QED  BY <3>5, <3>6, <3>7
      <2>3. QED  BY <2>1, <2>2
<1>5. /\ DOMAIN a.names = {items[j].id : j \in {i \in 1..(k - 1) : Good(items[i])}}
      /\ \A j \in 1..(k - 1) : Good(items[j]) => a.names[items[j].id] = items[j].name
      BY DEF ItemsTold
<1>6. ASSUME ~Good(it)  PROVE ItemsTold(items, b, k)
      <2>1. {i \in 1..k : Good(items[i])} = {i \in 1..(k - 1) : Good(items[i])}
            BY <1>2, <1>6
      <2>2. b.names = a.names  BY <1>4, <1>6
      <2>3. ItemsTold(items, b, k)
            BY <1>2, <1>4, <1>5, <1>6, <2>1, <2>2 DEF ItemsTold
      <2>4. QED  BY <2>3
<1>7. ASSUME Good(it)  PROVE ItemsTold(items, b, k)
      <2>1. b.names = Named(a.names, it.id, it.name)  BY <1>4, <1>7
      <2>2. /\ DOMAIN b.names = DOMAIN a.names \cup {it.id}
            /\ b.names[it.id] = it.name
            /\ \A i \in DOMAIN a.names : i # it.id => b.names[i] = a.names[i]
            <3> HIDE DEF it
            <3>1. QED  BY <2>1 DEF Named
      <2>3. {i \in 1..k : Good(items[i])} = {i \in 1..(k - 1) : Good(items[i])} \cup {k}
            BY <1>2, <1>7
      <2>4. DOMAIN b.names = {items[j].id : j \in {i \in 1..k : Good(items[i])}}
            <3> DEFINE G(m) == {i \in 1..m : Good(items[i])}
            <3>1. G(k) = G(k - 1) \cup {k}  BY <2>3
            <3>2. DOMAIN a.names = {items[j].id : j \in G(k - 1)}  BY <1>5
            <3> HIDE DEF G
            <3>3. DOMAIN b.names = {items[j].id : j \in G(k)}
                  BY <2>2, <3>1, <3>2
            <3>4. QED  BY <3>3 DEF G
      <2>5. ASSUME NEW j \in 1..(k - 1), Good(items[j])
            PROVE  b.names[items[j].id] = items[j].name
            <3>1. items[j].id \in DOMAIN a.names  BY <1>5, <2>5
            <3>2. items[j].id # it.id  BY <1>3, <2>5 DEF Good
            <3>3. QED  BY <1>5, <2>2, <2>5, <3>1, <3>2
      <2>6. \A j \in 1..k : Good(items[j]) => b.names[items[j].id] = items[j].name
            BY <1>2, <2>2, <2>5
      <2>7. QED  BY <1>4, <2>4, <2>6 DEF ItemsTold
<1>8. ItemsTold(items, b, k)  BY <1>6, <1>7
<1>9. QED  BY <1>8 DEF b

\* Every item of the dump is told.
LEMMA DumpIsTold ==
    ASSUME NEW items \in Seq(Items), Distinct(items)
    PROVE  \E a : /\ a.names = ParseWFPFilters(Printed(items))
                 /\ ItemsTold(items, a, Len(items))
<1> DEFINE n == Len(items)
           tags == Printed(items)
           T == TagSet(Texts(items))
<1>1. n \in Nat  BY LenProperties
<1>2. PICK p : Printing(p, items)  BY DumpIsPrinted
<1>3. /\ p[0] = <<>> /\ p[n] = tags /\ \A k \in 0..n : p[k] \in Seq(T)
      /\ \A k \in 1..n : p[k] = p[k - 1] \o Tags(items[k]) /\ Tags(items[k]) \in Seq(T)
      BY <1>2, TagsAreTags DEF Printing
<1>4. \A j \in 0..n : /\ Len(p[j]) \in 0..Len(tags)
                      /\ \A i \in 1..Len(p[j]) : tags[i] = p[j][i]
      BY <1>2, PrintedInPlace
<1>5. tags \in Seq(T) /\ Len(tags) \in Nat
      <2> HIDE DEF tags, T, n
      <2>1. n \in 0..n  BY <1>1, TurnNumbers
      <2>2. QED  BY <1>3, <2>1, LenProperties
<1>6. PICK acc : Scanning(acc, tags)  BY <1>5, DumpIsScanned
<1> DEFINE Told(k) == ItemsTold(items, acc[Len(p[k])], k)
           U == {k \in 0..n : Told(k)}
<1> HIDE DEF n, tags, T
<1>7. 0 \in U
      <2>1. Len(p[0]) = 0  BY <1>3
      <2>2. acc[0] = Nothing  BY <1>6 DEF Scanning
      <2>3. Nothing.lastName = "" /\ Nothing.names = <<>>  BY Fields DEF Nothing
      <2>4. DOMAIN (<<>>) = {} /\ 1..0 = {}
            <3>1. <<>> \in Seq(Nat) /\ Len(<<>>) = 0  OBVIOUS
            <3>2. QED  BY <3>1, LenProperties
      <2> DEFINE a == acc[Len(p[0])]
      <2>5. a = Nothing  BY <2>1, <2>2
      <2> HIDE DEF a
      <2>6. a.lastName = "" /\ a.names = <<>>  BY <2>3, <2>5
      <2>7. ItemsTold(items, a, 0)
            <3>1. {i \in 1..0 : Good(items[i])} = {}  BY <2>4
            <3>2. {items[j].id : j \in {i \in 1..0 : Good(items[i])}} = {}  BY <3>1
            <3>3. DOMAIN a.names = {}  BY <2>4, <2>6
            <3>4. QED  BY <2>4, <2>6, <3>2, <3>3 DEF ItemsTold
      <2>8. 0 \in 0..n  BY <1>1, TurnNumbers
      <2>9. QED  BY <2>7, <2>8 DEF a
<1>8. ASSUME NEW k \in 1..n, k - 1 \in U  PROVE k \in U
      <2> DEFINE it == items[k]
                 s == p[k - 1]
                 t == Tags(it)
                 l == Len(s)
                 a == acc[l]
      <2>1. k \in 0..n /\ k - 1 \in 0..n  BY <1>1, TurnNumbers
      <2>2. ItemsTold(items, a, k - 1)  BY <1>8
      <2>3. ItemsTold(items, ScanItem(a, it), k)
            <3>1. k \in 1..Len(items)  BY DEF n
            <3> HIDE DEF a
            <3>2. QED  BY <2>2, <3>1, ItemTold
      <2>4. s \in Seq(T) /\ t \in Seq(T) /\ p[k] = s \o t  BY <1>3, <2>1
      <2> HIDE DEF s, t
      <2>5. /\ l \in Nat /\ Len(t) \in Nat /\ Len(p[k]) = l + Len(t)
            /\ \A i \in 1..(l + Len(t)) : p[k][i] = IF i <= l THEN s[i] ELSE t[i - l]
            BY <2>4, ConcatProperties, LenProperties
      <2>6. /\ Len(p[k]) \in 0..Len(tags)
            /\ \A i \in 1..Len(p[k]) : tags[i] = p[k][i]
            BY <1>4, <2>1
      <2> HIDE DEF l
      <2>7. ASSUME NEW i \in 1..Len(t)
            PROVE  acc[l + i] = Scan(acc[(l + i) - 1], t[i])
            <3>1. PICK x \in Nat, y \in Nat : x = Len(t) /\ y = Len(tags)
                  BY <1>5, <2>5
            <3>2. l + x <= y  BY <1>5, <2>5, <2>6, <3>1
            <3>3. /\ l + i \in 1..(l + x) /\ l + i \in 1..y
                  /\ ~(l + i <= l) /\ (l + i) - l = i
                  BY <2>5, <3>1, <3>2
            <3>4. tags[l + i] = t[i]  BY <2>5, <2>6, <3>1, <3>3
            <3>5. acc[l + i] = Scan(acc[(l + i) - 1], tags[l + i])
                  BY <1>6, <3>1, <3>3 DEF Scanning
            <3>6. QED  BY <3>4, <3>5
      <2>8. acc[Len(p[k])] = ScanItem(a, it)
            <3>1. CASE it.name = ""
                  <4> DEFINE y == IdTag(it.id)
                  <4>1. t = <<y>>  BY <3>1 DEF t, Tags
                  <4> HIDE DEF y
                  <4>2. Len(t) = 1 /\ t[1] = y  BY <4>1
                  <4>3. 1 \in 1..1 /\ (l + 1) - 1 = l  BY <2>5
                  <4>4. acc[l + 1] = Scan(a, y)  BY <2>7, <4>2, <4>3 DEF a
                  <4>5. QED  BY <2>5, <3>1, <4>2, <4>4 DEF ScanItem, y
            <3>2. CASE it.name # ""
                  <4> DEFINE x == NameTag(it.name)
                             y == IdTag(it.id)
                  <4>1. t = <<x, y>>  BY <3>2 DEF t, Tags
                  <4> HIDE DEF x, y
                  <4>2. Len(t) = 2 /\ t[1] = x /\ t[2] = y  BY <4>1
                  <4>3. /\ 1 \in 1..2 /\ 2 \in 1..2
                        /\ (l + 1) - 1 = l /\ (l + 2) - 1 = l + 1
                        BY <2>5
                  <4>4. acc[l + 1] = Scan(a, x)  BY <2>7, <4>2, <4>3 DEF a
                  <4>5. acc[l + 2] = Scan(acc[l + 1], y)  BY <2>7, <4>2, <4>3
                  <4>6. QED  BY <2>5, <3>2, <4>2, <4>4, <4>5 DEF ScanItem, x, y
            <3>3. QED  BY <3>1, <3>2
      <2>9. QED  BY <2>1, <2>3, <2>8
<1> HIDE DEF Told
<1>9. Told(n)
      <2> HIDE DEF U
      <2>1. 0..n \subseteq U  BY <1>1, <1>7, <1>8, Induction
      <2>2. n \in U  BY <1>1, <2>1, TurnNumbers
      <2>3. QED  BY <2>2 DEF U
<1>10. ItemsTold(items, acc[Len(tags)], n)  BY <1>3, <1>9 DEF Told
<1>11. acc[Len(tags)].names = ParseWFPFilters(tags)  BY <1>6 DEF Scanning
<1>12. QED  BY <1>10, <1>11 DEF tags, n

-----------------------------------------------------------------------------
(* The invariant.                                                          *)

Parsed(s) == [i \in DOMAIN s |-> ParseRule(s[i])]

\* The table is a parsed snapshot.
RulesParsed == rules = <<>> \/ \E s \in Snapshots : rules = Parsed(s)

\* What Match says of the table the column was resolved with.
ColumnTold == \A r \in rows : fresh => r.rule = Match(rules, r.event)

IInv == TypeOK /\ RulesParsed /\ ColumnTold /\ FiltersKeepTheirNames

\* A parsed snapshot is a table of parsed lines, and not empty.
LEMMA ParsedLines ==
    ASSUME NEW s \in Snapshots, NEW table, table = Parsed(s)
    PROVE  /\ table # <<>> /\ \E n \in Nat : DOMAIN table = 1..n
           /\ \A i \in DOMAIN table :
                 /\ s[i] \in Lines /\ s[i].name \in Names /\ table[i] = ParseRule(s[i])
<1>1. s \in Seq(Lines) /\ s # <<>>  BY ConstantsAssumption
<1>2. Len(s) \in Nat /\ DOMAIN s = 1..Len(s)  BY <1>1, LenProperties
<1>3. DOMAIN table = DOMAIN s /\ \A i \in DOMAIN s : table[i] = ParseRule(s[i])
      BY DEF Parsed
<1>4. table # <<>>
      <2>1. Len(s) # 0  BY <1>1, EmptySeq
      <2>2. 1 \in DOMAIN table  BY <1>2, <1>3, <2>1
      <2>3. DOMAIN (<<>>) = {}
            <3>1. <<>> \in Seq(Nat) /\ Len(<<>>) = 0 /\ 1..0 = {}  OBVIOUS
            <3>2. QED  BY <3>1, LenProperties
      <2>4. QED  BY <2>2, <2>3
<1>5. ASSUME NEW i \in DOMAIN s  PROVE s[i] \in Lines /\ s[i].name \in Names
      <2>1. s[i] \in Lines  BY <1>1, <1>2, ElementOfSeq
      <2>2. s[i] \in ToSet(s)  BY DEF ToSet
      <2>3. s[i] \in UNION {ToSet(d) : d \in Snapshots}  BY <2>2
      <2>4. QED  BY <2>1, <2>3 DEF Names
<1>6. QED  BY <1>2, <1>3, <1>4, <1>5

\* The column holds a text of its kind, whatever the table and the event are.
LEMMA ColumnTyped ==
    ASSUME NEW table, table = <<>> \/ \E s \in Snapshots : table = Parsed(s), NEW e
    PROVE  /\ Match(table, e).name \in Names \cup {"(Rules not loaded)", "(No matching rule)"}
           /\ Match(table, e).more \in Nat
<1> DEFINE u == Match(table, e)
<1>1. \A text : Plain(text).name = text /\ Plain(text).more \in Nat  BY DEF Plain
<1>2. CASE table = <<>>
      <2>1. u = Plain("(Rules not loaded)")  BY <1>2 DEF Match
      <2> HIDE DEF u
      <2>2. u.name = "(Rules not loaded)" /\ u.more \in Nat
            BY <1>1, <2>1
      <2>3. QED  BY <2>2, Zenon DEF u
<1>3. ASSUME NEW s \in Snapshots, table = Parsed(s)
      PROVE  /\ u.name \in Names \cup {"(Rules not loaded)", "(No matching rule)"}
             /\ u.more \in Nat
      <2>1. /\ table # <<>> /\ \E n \in Nat : DOMAIN table = 1..n
            /\ \A i \in DOMAIN table : s[i].name \in Names /\ table[i] = ParseRule(s[i])
            BY <1>3, ParsedLines
      <2>2. \A i \in DOMAIN table : table[i].name \in Names
            BY <2>1 DEF ParseRule
      <2> DEFINE W == Strongs(table, e)
      <2>3. /\ Cardinality(W) \in Nat
            /\ W = {} => u = Plain("(No matching rule)")
            /\ W # {} =>
                 /\ u.more = Cardinality(W) - 1 /\ Cardinality(W) # 0
                 /\ \E i \in W : table[i].name = u.name
            BY <2>1, MatchedRule
      <2>4. \A i \in W : i \in DOMAIN table  BY DEF Strongs, Fit
      <2> HIDE DEF W, u
      <2>5. CASE W = {}
            <3>1. u.name = "(No matching rule)" /\ u.more \in Nat
                  BY <1>1, <2>3, <2>5
            <3>2. QED  BY <3>1, Zenon
      <2>6. CASE W # {}
            <3>1. u.more \in Nat
                  <4>1. PICK c \in Nat : c = Cardinality(W)  BY <2>3
                  <4>2. u.more = c - 1 /\ c # 0  BY <2>3, <2>6, <4>1
                  <4>3. c # 0 => c - 1 \in Nat  OBVIOUS
                  <4>4. QED  BY <4>2, <4>3
            <3>2. u.name \in Names  BY <2>2, <2>3, <2>4, <2>6
            <3>3. QED  BY <3>1, <3>2
      <2>7. QED  BY <2>5, <2>6
<1>4. QED  BY <1>2, <1>3

LEMMA PositiveIsNat ==
    ASSUME NEW x \in Int, x > 0
    PROVE  x \in Nat \ {0}
OBVIOUS

\* The filters parsed from a dump are the named items of it.
LEMMA FiltersParsed ==
    ASSUME NEW d \in Dumps, NEW names, names = ParseWFPFilters(Printed(d)),
           NEW named, named = {item \in ToSet(d) : item.name # "" /\ item.id > 0}
    PROVE  /\ DOMAIN names = {item.id : item \in named}
           /\ \A item \in named : names[item.id] = item.name
           /\ DOMAIN names \subseteq Nat \ {0}
<1>1. d \in Seq(Items) /\ Distinct(d)  BY ConstantsAssumption DEF Distinct
<1>2. PICK a : a.names = ParseWFPFilters(Printed(d)) /\ ItemsTold(d, a, Len(d))
      BY <1>1, DumpIsTold
<1> DEFINE G == {i \in 1..Len(d) : Good(d[i])}
<1>3. /\ DOMAIN names = {d[j].id : j \in G}
      /\ \A j \in G : names[d[j].id] = d[j].name
      BY <1>2 DEF ItemsTold
<1>4. DOMAIN d = 1..Len(d)  BY <1>1, LenProperties
<1>5. /\ \A j \in G : d[j] \in named
      /\ \A item \in named : \E j \in G : item = d[j]
      BY <1>4 DEF ToSet, Good
<1>6. ASSUME NEW j \in G  PROVE d[j].id \in Nat \ {0}
      <2>1. d[j] \in Items  BY <1>1, ElementOfSeq
      <2>2. d[j].id \in Int  BY <2>1 DEF Items
      <2>3. d[j].id > 0  BY DEF Good
      <2>4. PICK x \in Int : x = d[j].id  BY <2>2
      <2>5. x > 0  BY <2>3, <2>4
      <2>6. QED  BY <2>4, <2>5, PositiveIsNat
<1> HIDE DEF G
<1>7. \A j \in G : d[j].id \in {item.id : item \in named}  BY <1>5
<1>8. \A item \in named : \E j \in G : item.id = d[j].id /\ item.name = d[j].name
      BY <1>5
<1>9. DOMAIN names = {item.id : item \in named}
      <2>1. \A x \in DOMAIN names : x \in {item.id : item \in named}  BY <1>3, <1>7
      <2>2. \A item \in named : item.id \in DOMAIN names  BY <1>3, <1>8
      <2>3. QED  BY <2>1, <2>2
<1>10. \A item \in named : names[item.id] = item.name  BY <1>3, <1>8
<1>11. DOMAIN names \subseteq Nat \ {0}  BY <1>3, <1>6
<1>12. QED  BY <1>9, <1>10, <1>11

LEMMA MaxLoadsIsNat == MaxLoads \in Nat
BY Zenon, ConstantsAssumption

LEMMA Initially == Init => IInv
<1> SUFFICES ASSUME Init  PROVE IInv
    OBVIOUS
<1>1. /\ rules = <<>> /\ filters = <<>> /\ dump = <<>>
      /\ rows = {} /\ fresh = FALSE /\ loads = 0
      BY DEF Init
<1>2. DOMAIN (<<>>) = {}
      <2>1. <<>> \in Seq(Nat) /\ Len(<<>>) = 0 /\ 1..0 = {}  OBVIOUS
      <2>2. QED  BY <2>1, LenProperties
<1>3. TypeOK
      <2>1. Cardinality(rows) <= 1  BY <1>1, FS_EmptySet
      <2>2. loads \in 0..MaxLoads  BY <1>1, MaxLoadsIsNat
      <2>3. DOMAIN rules = {} /\ DOMAIN filters = {}  BY <1>1, <1>2
      <2>4. QED  BY <1>1, <2>1, <2>2, <2>3 DEF TypeOK
<1>4. RulesParsed /\ ColumnTold  BY <1>1 DEF RulesParsed, ColumnTold
<1>5. FiltersKeepTheirNames
      <2>1. ToSet(dump) = {}  BY <1>1, <1>2 DEF ToSet
      <2>2. DOMAIN filters = {}  BY <1>1, <1>2
      <2>3. QED  BY <2>1, <2>2 DEF FiltersKeepTheirNames
<1>6. QED  BY <1>3, <1>4, <1>5 DEF IInv

\* A load of rules: the column keeps what it was resolved to.
LEMMA LoadRulesKeeps == IInv /\ LoadRules => IInv'
<1> SUFFICES ASSUME IInv, LoadRules  PROVE IInv'
    OBVIOUS
<1>1. PICK s \in Snapshots : rules' = Parsed(s)
      BY DEF LoadRules, Parsed
<1>2. /\ loads < MaxLoads /\ fresh' = FALSE /\ loads' = loads + 1
      /\ filters' = filters /\ dump' = dump /\ rows' = rows
      BY DEF LoadRules
<1>3. RulesParsed' /\ ColumnTold'  BY <1>1, <1>2 DEF RulesParsed, ColumnTold
<1>4. FiltersKeepTheirNames'
      BY <1>2 DEF FiltersKeepTheirNames, IInv
<1>5. TypeOK'
      <2>1. \A i \in DOMAIN rules' : rules'[i].name \in Names
            <3>1. \A i \in DOMAIN rules' :
                     s[i].name \in Names /\ rules'[i] = ParseRule(s[i])
                  BY <1>1, ParsedLines
            <3>2. QED  BY <3>1 DEF ParseRule
      <2>2. loads' \in 0..MaxLoads
            <3>1. loads \in 0..MaxLoads  BY DEF IInv, TypeOK
            <3>2. QED  BY <1>2, <3>1, MaxLoadsIsNat
      <2>3. fresh' \in BOOLEAN  BY <1>2
      <2>4. QED  BY <1>2, <2>1, <2>2, <2>3 DEF TypeOK, IInv
<1>6. QED  BY <1>3, <1>4, <1>5 DEF IInv

\* A load of filters: the table and the dump change together.
LEMMA LoadFiltersKeeps == IInv /\ LoadFilters => IInv'
<1> SUFFICES ASSUME IInv, LoadFilters  PROVE IInv'
    OBVIOUS
<1>1. PICK d \in Dumps : filters' = ParseWFPFilters(Printed(d)) /\ dump' = d
      BY DEF LoadFilters
<1>2. /\ loads < MaxLoads /\ loads' = loads + 1
      /\ rules' = rules /\ rows' = rows /\ fresh' = fresh
      BY DEF LoadFilters
<1>3. RulesParsed' /\ ColumnTold'  BY <1>2 DEF RulesParsed, ColumnTold, IInv
<1> DEFINE named == {item \in ToSet(d) : item.name # "" /\ item.id > 0}
<1>4. /\ DOMAIN filters' = {item.id : item \in named}
      /\ \A item \in named : filters'[item.id] = item.name
      /\ DOMAIN filters' \subseteq Nat \ {0}
      <2> DEFINE names == ParseWFPFilters(Printed(d))
      <2>1. /\ DOMAIN names = {item.id : item \in named}
            /\ \A item \in named : names[item.id] = item.name
            /\ DOMAIN names \subseteq Nat \ {0}
            BY FiltersParsed
      <2>2. filters' = names  BY <1>1
      <2> HIDE DEF names, named
      <2>3. QED  BY <2>1, <2>2
<1>5. FiltersKeepTheirNames'
      <2>1. {item \in ToSet(dump') : item.name # "" /\ item.id > 0} = named
            BY <1>1
      <2>2. QED  BY <1>4, <2>1 DEF FiltersKeepTheirNames
<1>6. TypeOK'
      <2>1. loads' \in 0..MaxLoads
            <3>1. loads \in 0..MaxLoads  BY DEF IInv, TypeOK
            <3>2. QED  BY <1>2, <3>1, MaxLoadsIsNat
      <2>2. DOMAIN filters' \subseteq Nat \ {0}  BY <1>4
      <2>3. dump' \in Dumps \cup {<<>>}  BY <1>1
      <2>4. QED  BY <1>2, <2>1, <2>2, <2>3 DEF TypeOK, IInv
<1>7. QED  BY <1>3, <1>5, <1>6 DEF IInv

\* The pump resolves an event: the column says what Match says.
LEMMA ResolveKeeps == IInv /\ Resolve => IInv'
<1> SUFFICES ASSUME IInv, Resolve  PROVE IInv'
    OBVIOUS
<1>0. PICK e \in Events :
         \E name : /\ name \in Processes \cup {"", e.process}
                   /\ rows' = {[event |-> e, rule |-> Match(rules, e),
                                wfp |-> FilterName(e.filter), process |-> name]}
      <2>1. PICK e \in Events :
               \E name \in (IF e.process = "" THEN Name(e.pid) ELSE {e.process}) :
                  rows' = {[event |-> e, rule |-> Match(rules, e),
                            wfp |-> FilterName(e.filter), process |-> name]}
            BY DEF Resolve
      <2>2. (IF e.process = "" THEN Name(e.pid) ELSE {e.process})
                \subseteq Processes \cup {"", e.process}
            BY DEF Name
      <2>3. QED  BY <2>1, <2>2
<1>1. PICK name :
         /\ name \in Processes \cup {"", e.process}
         /\ rows' = {[event |-> e, rule |-> Match(rules, e),
                      wfp |-> FilterName(e.filter), process |-> name]}
      BY <1>0
<1>2. /\ fresh' = TRUE
      /\ rules' = rules /\ filters' = filters /\ dump' = dump /\ loads' = loads
      BY DEF Resolve
<1> DEFINE r == [event |-> e, rule |-> Match(rules, e),
                 wfp |-> FilterName(e.filter), process |-> name]
<1>3. r.event = e /\ r.rule = Match(rules, e) /\ r.process = name
      OBVIOUS
<1>4. rows' = {r}  BY <1>1
<1> HIDE DEF r
<1>5. RulesParsed'  BY <1>2 DEF RulesParsed, IInv
<1>6. ColumnTold'
      <2>1. \A x \in rows' : x.rule = Match(rules, x.event)  BY <1>3, <1>4
      <2>2. QED  BY <1>2, <2>1 DEF ColumnTold
<1>7. FiltersKeepTheirNames'
      BY <1>2 DEF FiltersKeepTheirNames, IInv
<1>8. TypeOK'
      <2>1. /\ r.rule.name \in Names \cup {"(Rules not loaded)", "(No matching rule)"}
            /\ r.rule.more \in Nat
            <3>1. rules = <<>> \/ \E s \in Snapshots : rules = Parsed(s)
                  BY DEF IInv, RulesParsed
            <3>2. QED  BY <1>3, <3>1, ColumnTyped
      <2>2. r.event \in Events /\ r.process \in Processes \cup {"", r.event.process}
            BY <1>1, <1>3
      <2>3. Cardinality(rows') <= 1
            <3>1. Cardinality({r}) = 1  BY FS_Singleton
            <3>2. QED  BY <1>4, <3>1
      <2>4. \A x \in rows' : x = r  BY <1>4
      <2>5. fresh' \in BOOLEAN  BY <1>2
      <2>6. QED  BY <1>2, <2>1, <2>2, <2>3, <2>4, <2>5 DEF TypeOK, IInv
<1>9. QED  BY <1>5, <1>6, <1>7, <1>8 DEF IInv

\* What every load and every event resolved preserves (src/rules.go,
\* src/wfpfilters.go): the table is a snapshot parsed, the column says what
\* Match said of it, and the filters are the named items of the last dump.
THEOREM Invariant == Spec => []IInv
<1>1. Init => IInv  BY Initially
<1>2. IInv /\ [Next]_vars => IInv'
      <2> SUFFICES ASSUME IInv, [Next]_vars  PROVE IInv'
          OBVIOUS
      <2>1. CASE LoadRules  BY <2>1, LoadRulesKeeps
      <2>2. CASE LoadFilters  BY <2>2, LoadFiltersKeeps
      <2>3. CASE Resolve  BY <2>3, ResolveKeeps
      <2>4. CASE UNCHANGED vars
            BY <2>4 DEF vars, IInv, TypeOK, RulesParsed, ColumnTold, FiltersKeepTheirNames
      <2>5. QED  BY <2>1, <2>2, <2>3, <2>4 DEF Next
<1>3. QED  BY <1>1, <1>2, PTL DEF Spec

\* Every column holds a text of its kind, and no count is negative.
THEOREM TypeCorrect == Spec => []TypeOK
<1>1. IInv => TypeOK  BY DEF IInv
<1>2. QED  BY <1>1, Invariant, PTL

\* Every filter of the table goes by its own name, for every dump.
THEOREM FiltersNamed == Spec => []FiltersKeepTheirNames
<1>1. IInv => FiltersKeepTheirNames  BY DEF IInv
<1>2. QED  BY <1>1, Invariant, PTL

\* A column that names a rule was matched against a parsed snapshot, and a
\* strong rule of it is the one named.
LEMMA NamedRule ==
    ASSUME IInv, NEW r \in rows, fresh, RuleNamed(r.rule)
    PROVE  LET W == Strongs(rules, r.event)
           IN  /\ r.rule = Match(rules, r.event) /\ r.event \in Events
               /\ \E s \in Snapshots : rules = Parsed(s)
               /\ r.rule.more = Cardinality(W) - 1
               /\ \E i \in W : /\ rules[i].name = r.rule.name
                              /\ \A j \in W \ {i} : Precedes(rules, i, j)
<1>1. r.rule = Match(rules, r.event) /\ r.event \in Events
      BY DEF IInv, ColumnTold, TypeOK
<1>2. \A text : Plain(text).name = text  BY DEF Plain
<1>3. rules # <<>>
      <2>1. rules = <<>> => r.rule = Plain("(Rules not loaded)")  BY <1>1 DEF Match
      <2>2. QED  BY <1>2, <2>1 DEF RuleNamed
<1>4. PICK s \in Snapshots : rules = Parsed(s)
      BY <1>3 DEF IInv, RulesParsed
<1>5. \E n \in Nat : DOMAIN rules = 1..n  BY <1>4, ParsedLines
<1> DEFINE W == Strongs(rules, r.event)
<1> DEFINE told == Match(rules, r.event)
<1>6. /\ W = {} => told = Plain("(No matching rule)")
      /\ W # {} =>
           /\ told.more = Cardinality(W) - 1
           /\ \E i \in W : /\ rules[i].name = told.name
                          /\ \A j \in W \ {i} : Precedes(rules, i, j)
      <2>1. PICK n \in Nat : DOMAIN rules = 1..n  BY <1>5
      <2>2. \A table, e : DOMAIN table = 1..n /\ table # <<>> =>
               LET V == Strongs(table, e)
               IN  /\ V = {} => Match(table, e) = Plain("(No matching rule)")
                   /\ V # {} =>
                        /\ Match(table, e).more = Cardinality(V) - 1
                        /\ \E i \in V : /\ table[i].name = Match(table, e).name
                                       /\ \A j \in V \ {i} : Precedes(table, i, j)
            BY MatchedRule
      <2>3. QED  BY <1>3, <2>1, <2>2
<1>7. told = r.rule  BY <1>1
<1> HIDE DEF W, told
<1>8. W # {}  BY <1>2, <1>6, <1>7 DEF RuleNamed
<1>9. QED  BY <1>1, <1>4, <1>6, <1>7, <1>8 DEF W

\* Match names the first rule of the highest score among the strong ones and
\* counts the others: candidates sorts, and the loop keeps the first best.
THEOREM BestIsNamed == Spec => []MatchedIsBest
<1>1. IInv => MatchedIsBest
      <2> SUFFICES ASSUME IInv, NEW r \in rows, fresh, RuleNamed(r.rule)
                   PROVE  LET strong == {i \in DOMAIN rules : /\ Applies(rules[i], r.event)
                                                            /\ Strong(rules[i], r.event)}
                          IN  /\ r.rule.more = Cardinality(strong) - 1
                              /\ \E i \in strong :
                                  /\ rules[i].name = r.rule.name
                                  /\ \A j \in strong \ {i} :
                                      \/ RuleScore(rules[i]) > RuleScore(rules[j])
                                      \/ RuleScore(rules[i]) = RuleScore(rules[j]) /\ i < j
          BY DEF MatchedIsBest
      <2> DEFINE W == {i \in DOMAIN rules : /\ Applies(rules[i], r.event)
                                           /\ Strong(rules[i], r.event)}
      <2>1. Strongs(rules, r.event) = W  BY DEF Strongs, Fit
      <2>2. /\ r.rule.more = Cardinality(W) - 1
            /\ \E i \in W : /\ rules[i].name = r.rule.name
                           /\ \A j \in W \ {i} : Precedes(rules, i, j)
            BY <2>1, NamedRule
      <2> HIDE DEF W
      <2>3. \E i \in W :
               /\ rules[i].name = r.rule.name
               /\ \A j \in W \ {i} :
                   \/ RuleScore(rules[i]) > RuleScore(rules[j])
                   \/ RuleScore(rules[i]) = RuleScore(rules[j]) /\ i < j
            BY <2>2 DEF Precedes
      <2>4. QED  BY <2>2, <2>3 DEF W
<1>2. QED  BY <1>1, Invariant, PTL

\* The number of a protocol comes back from its name, or it fits no rule with a
\* protocol of its own.
LEMMA ProtocolsComeBack ==
    ASSUME NEW n \in Nat
    PROVE  LET p == ProtocolToInt(ProtocolNumberToName(n))
           IN  p # 0 /\ (p = n \/ p = AnyProtocol)
<1> DEFINE p == ProtocolToInt(ProtocolNumberToName(n))
<1>0. /\ \A w \in {"ICMP", "TCP", "UDP", "ICMPv6"} :
            Word(w).word # "" /\ Word(w).word \in DOMAIN Known /\ Word(w).word = w
      /\ Known["ICMP"] = 1 /\ Known["TCP"] = 6 /\ Known["UDP"] = 17
      /\ Known["ICMPv6"] = 58
      BY DEF Known, Word
<1>1. AnyProtocol # 0  BY DEF AnyProtocol
<1>2. CASE n = 1
      <2>1. ProtocolNumberToName(n) = Word("ICMP")  BY <1>2 DEF ProtocolNumberToName
      <2>2. p = 1  BY <2>1, <1>0 DEF ProtocolToInt
      <2>3. QED  BY <1>2, <2>2
<1>3. CASE n = 2
      <2>1. ProtocolNumberToName(n) = Word("IGMP")  BY <1>3 DEF ProtocolNumberToName
      <2>2. p = AnyProtocol  BY <2>1 DEF ProtocolToInt, Word, Known
      <2>3. QED  BY <1>1, <2>2
<1>4. CASE n = 6
      <2>1. ProtocolNumberToName(n) = Word("TCP")  BY <1>4 DEF ProtocolNumberToName
      <2>2. p = 6  BY <2>1, <1>0 DEF ProtocolToInt
      <2>3. QED  BY <1>4, <2>2
<1>5. CASE n = 17
      <2>1. ProtocolNumberToName(n) = Word("UDP")  BY <1>5 DEF ProtocolNumberToName
      <2>2. p = 17  BY <2>1, <1>0 DEF ProtocolToInt
      <2>3. QED  BY <1>5, <2>2
<1>6. CASE n = 58
      <2>1. ProtocolNumberToName(n) = Word("ICMPv6")  BY <1>6 DEF ProtocolNumberToName
      <2>2. p = 58  BY <2>1, <1>0 DEF ProtocolToInt
      <2>3. QED  BY <1>6, <2>2
<1>7. CASE n \notin {1, 2, 6, 17, 58}
      <2>1. ProtocolNumberToName(n) = [word |-> "proto", num |-> n]
            BY <1>7 DEF ProtocolNumberToName
      <2>2. p = AnyProtocol  BY <2>1 DEF ProtocolToInt, Known
      <2>3. QED  BY <1>1, <2>2
<1>8. QED  BY <1>2, <1>3, <1>4, <1>5, <1>6, <1>7

\* A list that is specific and matches a port holds it, or the event has none.
LEMMA PortsHold ==
    ASSUME NEW spec \in Lists, NEW port \in Nat, SpecificPort(spec, port)
    PROVE  ~spec.any /\ (port = 0 \/ \E x \in spec.ranges : port \in x[1]..x[2])
<1>1. ~spec.any /\ (port = 0 \/ \E x \in spec.ranges : x[1] <= port /\ port <= x[2])
      BY DEF SpecificPort, PortMatches
<1>2. \A x \in spec.ranges : x[1] \in Nat /\ x[2] \in Nat  BY DEF Lists
<1>3. ASSUME NEW a \in Nat, NEW b \in Nat, a <= port, port <= b  PROVE port \in a..b
      BY <1>3
<1>4. QED  BY <1>1, <1>2, <1>3

\* The column never misleads: what the rule it names says holds of the event,
\* the protocol too, although Match compares it by way of a name.
THEOREM ColumnNeverMisleads == Spec => []NeverMisleads
<1> DEFINE Holds(spec, port) ==
              ~spec.any /\ (port = 0 \/ \E x \in spec.ranges : port \in x[1]..x[2])
<1>1. IInv => NeverMisleads
      <2> SUFFICES ASSUME IInv, NEW r \in rows, fresh, RuleNamed(r.rule)
                   PROVE  \E i \in DOMAIN rules :
                            LET u == rules[i] IN
                            /\ u.name = r.rule.name /\ u.enabled
                            /\ (u.action = 1) = (r.event.action # "DROP")
                            /\ \/ u.program # "" /\ u.program = r.event.process
                               \/ /\ u.direction # 0
                                  /\ u.direction = DirectionToInt(r.event.direction)
                                  /\ u.protocol = r.event.protocol
                                  /\ \/ Holds(u.local, Local(r.event))
                                     \/ Holds(u.remote, Remote(r.event))
          BY DEF NeverMisleads
      <2> DEFINE e == r.event
      <2>1. /\ e \in Events /\ \E s \in Snapshots : rules = Parsed(s)
            /\ \E i \in Strongs(rules, e) : rules[i].name = r.rule.name
            BY NamedRule
      <2>2. PICK s \in Snapshots : rules = Parsed(s)  BY <2>1
      <2>3. PICK i \in Strongs(rules, e) : rules[i].name = r.rule.name  BY <2>1
      <2> DEFINE u == rules[i]
      <2>4. i \in DOMAIN rules /\ Applies(u, e) /\ Strong(u, e)
            BY <2>3 DEF Strongs, Fit
      <2>5. u.local \in Lists /\ u.remote \in Lists
            <3>1. s[i] \in Lines /\ u = ParseRule(s[i])  BY <2>2, <2>4, ParsedLines
            <3>2. u.local = s[i].local /\ u.remote = s[i].remote
                  BY <3>1 DEF ParseRule
            <3>3. QED  BY <3>1, <3>2 DEF Lines
      <2>6. e \in Entries  BY <2>1, ConstantsAssumption
      <2>7. Local(e) \in Nat /\ Remote(e) \in Nat /\ e.protocol \in Nat
            BY <2>6 DEF Entries, Local, Remote
      <2> HIDE DEF u, e
      <2>8. u.enabled /\ (u.action = 1) = (e.action # "DROP")
            <3>1. u.enabled /\ u.action = (IF e.action = "DROP" THEN 0 ELSE 1)
                  BY <2>4 DEF Applies
            <3>2. u.action = 1 <=> e.action # "DROP"  BY <3>1
            <3>3. QED  BY <3>1, <3>2
      <2>9. \/ u.program # "" /\ u.program = e.process
            \/ /\ u.direction # 0 /\ u.direction = DirectionToInt(e.direction)
               /\ u.protocol = e.protocol
               /\ Holds(u.local, Local(e)) \/ Holds(u.remote, Remote(e))
            <3>1. CASE u.program # "" /\ e.process # "" /\ ProgramMatches(u.program, e.process)
                  BY <3>1 DEF ProgramMatches
            <3>2. CASE /\ u.direction # 0 /\ u.protocol # AnyProtocol
                       /\ SpecificPort(u.local, Local(e)) \/ SpecificPort(u.remote, Remote(e))
                  <4>1. u.direction = DirectionToInt(e.direction)
                        BY <2>4, <3>2 DEF Applies
                  <4> DEFINE p == ProtocolToInt(ProtocolNumberToName(e.protocol))
                  <4>2. p # 0 /\ (p = e.protocol \/ p = AnyProtocol)
                        BY <2>7, ProtocolsComeBack
                  <4>3. (u.protocol # AnyProtocol /\ p # 0) => u.protocol = p
                        BY <2>4 DEF Applies
                  <4> HIDE DEF p
                  <4>4. u.protocol = e.protocol  BY <3>2, <4>2, <4>3
                  <4>5. Holds(u.local, Local(e)) \/ Holds(u.remote, Remote(e))
                        BY <2>5, <2>7, <3>2, PortsHold
                  <4>6. QED  BY <3>2, <4>1, <4>4, <4>5
            <3>3. QED  BY <2>4, <3>1, <3>2 DEF Strong
      <2> HIDE DEF Holds
      <2>10. QED  BY <2>3, <2>4, <2>8, <2>9 DEF u, e
<1>2. QED  BY <1>1, Invariant, PTL

\* Opened with the table the column was resolved with, the detail view tells
\* the same, whatever the cut.
THEOREM DetailTellsTheSame == Spec => []DetailAgrees
<1>1. IInv => DetailAgrees
      <2> SUFFICES ASSUME IInv, NEW r \in rows, fresh, rules # <<>>,
                          r.process = r.event.process
                   PROVE  LET d      == PossibleMatches(rules, AsShown(r))
                              strong == {k \in DOMAIN d.lines : d.lines[k].strong}
                          IN  IF strong # {}
                              THEN /\ \E k \in strong : /\ \A j \in strong : k <= j
                                                       /\ d.lines[k].name = r.rule.name
                                   /\ Cardinality(strong) <= r.rule.more + 1
                                   /\ r.rule.more + 1 <= Cardinality(strong) + d.more
                              ELSE RuleNamed(r.rule) => d.more > r.rule.more
          BY DEF DetailAgrees
      <2>1. r.rule = Match(rules, r.event) /\ r.event \in Events
            BY DEF IInv, ColumnTold, TypeOK
      <2>2. AsShown(r) = r.event
            <3>1. r.event \in Entries  BY <2>1, ConstantsAssumption
            <3>2. QED  BY <3>1 DEF AsShown, Entries
      <2>3. PICK n \in Nat : DOMAIN rules = 1..n
            BY ParsedLines DEF IInv, RulesParsed
      <2> DEFINE d == PossibleMatches(rules, r.event)
                 strong == {k \in DOMAIN d.lines : d.lines[k].strong}
                 u == Match(rules, r.event)
      <2>4. IF strong # {}
            THEN /\ \E k \in strong : /\ \A j \in strong : k <= j
                                     /\ d.lines[k].name = u.name
                 /\ Cardinality(strong) <= u.more + 1
                 /\ u.more + 1 <= Cardinality(strong) + d.more
            ELSE RuleNamed(u) => d.more > u.more
            BY <2>3, DetailTells
      <2>5. u = r.rule  BY <2>1
      <2> HIDE DEF u
      <2>6. QED  BY <2>2, <2>4, <2>5
<1>2. QED  BY <1>1, Invariant, PTL
=============================================================================
