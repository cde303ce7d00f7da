------------------------ MODULE EventWindow_proofs ------------------------
(***************************************************************************)
(* Proofs about EventWindow, for every window size, set of kinds and bound.*)
(* First what trimming does to a finite set of numbers, then the shape of  *)
(* the display, then the invariants of the specification.                  *)
(***************************************************************************)
EXTENDS EventWindow, FiniteSetTheorems, WellFoundedInduction, TLAPS

-----------------------------------------------------------------------------
(* Sets of entry numbers and trimming.                                     *)

\* A nonempty set of naturals has a least element.
LEMMA LeastElement ==
    ASSUME NEW T \in SUBSET Nat, T # {}
    PROVE  \E x \in T : \A y \in T : x <= y
<1>1. PICK x \in T : \A y \in T : ~(<<y, x>> \in OpToRel(<, Nat))
      BY NatLessThanWellFounded, WFMin
<1>2. \A y \in T : <<y, x>> \in Nat \X Nat /\ ~(y < x)
      BY <1>1 DEF OpToRel
<1>3. ASSUME NEW y \in T PROVE x <= y
      <2>1. x \in Nat /\ y \in Nat  OBVIOUS
      <2>2. ~(y < x)  BY <1>2
      <2>3. QED  BY <2>1, <2>2
<1>4. QED  BY <1>3

\* A nonempty set of numbers up to n has a greatest element.
LEMMA GreatestElement ==
    ASSUME NEW n \in Nat, NEW T \in SUBSET (1..n), T # {}
    PROVE  \E x \in T : \A y \in T : y <= x
<1> DEFINE M == {n - x : x \in T}
<1>1. M \in SUBSET Nat /\ M # {}
      <2>1. \A x \in T : x \in Int /\ n - x \in Nat  OBVIOUS
      <2>2. QED  BY <2>1
<1>2. PICK m \in M : \A z \in M : m <= z  BY <1>1, LeastElement
<1>3. PICK x \in T : m = n - x  BY <1>2
<1>4. ASSUME NEW y \in T PROVE y <= x
      <2>1. n - y \in M  BY <1>4
      <2>2. n - x <= n - y  BY <2>1, <1>2, <1>3
      <2>3. QED  BY <2>2, <1>3, <1>4
<1>5. QED  BY <1>4

\* Sets of entry numbers are finite, and so are their subsets.
LEMMA EntriesFinite ==
    ASSUME NEW n \in Nat, NEW S \in SUBSET (1..n)
    PROVE  /\ IsFiniteSet(S)
           /\ Cardinality(S) \in Nat
           /\ \A T \in SUBSET S : /\ IsFiniteSet(T)
                                  /\ Cardinality(T) \in Nat
                                  /\ Cardinality(T) <= Cardinality(S)
<1>1. IsFiniteSet(1..n)  BY FS_Interval
<1>2. IsFiniteSet(S)  BY <1>1, FS_Subset
<1>3. QED  BY <1>2, FS_Subset, FS_CardinalityType

\* trimOldest keeps at most k entries.
LEMMA NewestBounded ==
    ASSUME NEW n \in Nat, NEW S \in SUBSET (1..n), NEW k \in Nat
    PROVE  Cardinality(Newest(S, k)) <= k
<1> DEFINE T == Newest(S, k)
<1>1. T \subseteq S /\ T \in SUBSET Nat
      <2>1. \A x \in S : x \in Nat  OBVIOUS
      <2>2. QED  BY <2>1 DEF Newest
<1>2. CASE T = {}
      BY <1>2, FS_EmptySet
<1>3. CASE T # {}
      <2>1. PICK x \in T : \A y \in T : x <= y
            BY <1>1, <1>3, LeastElement
      <2> DEFINE U == {y \in S : y >= x}
      <2>2. Cardinality(U) <= k
            <3>1. x \in Newest(S, k)  OBVIOUS
            <3>2. Newest(S, k) = {e \in S : Cardinality({y \in S : y >= e}) <= k}
                  BY DEF Newest
            <3> HIDE DEF T
            <3>3. QED  BY <3>1, <3>2, Zenon
      <2>3. T \subseteq U  BY <1>1, <2>1
      <2>4. U \in SUBSET (1..n)  OBVIOUS
      <2> HIDE DEF U
      <2>5. Cardinality(T) <= Cardinality(U) /\ Cardinality(T) \in Nat /\ Cardinality(U) \in Nat
            BY <2>3, <2>4, EntriesFinite
      <2>6. QED  BY <2>2, <2>5
<1>4. QED  BY <1>2, <1>3

\* What trimOldest keeps is newer than what it drops.
LEMMA NewestUpward ==
    ASSUME NEW n \in Nat, NEW S \in SUBSET (1..n), NEW k \in Nat,
           NEW e \in Newest(S, k), NEW y \in S, y >= e
    PROVE  y \in Newest(S, k)
<1> DEFINE A == {x \in S : x >= e}
           B == {x \in S : x >= y}
<1>1. e \in S /\ Cardinality(A) <= k  BY DEF Newest
<1>2. B \subseteq A /\ A \in SUBSET (1..n)
      <2>1. e \in Nat /\ y \in Nat /\ \A x \in S : x \in Nat  BY <1>1
      <2>2. \A x \in S : x >= y => x >= e  BY <2>1
      <2>3. QED  BY <2>2
<1>3. Cardinality(B) <= Cardinality(A) /\ Cardinality(A) \in Nat /\ Cardinality(B) \in Nat
      <2> HIDE DEF A, B
      <2> QED  BY <1>2, EntriesFinite
<1>4. Cardinality(B) <= k  BY <1>1, <1>3
<1>5. QED  BY <1>4 DEF Newest

\* trimOldest never empties a slice, and always keeps the newest entry.
LEMMA NewestKeepsLast ==
    ASSUME NEW n \in Nat, NEW S \in SUBSET (1..n), NEW k \in Nat \ {0},
           NEW e \in S, \A x \in S : x <= e
    PROVE  e \in Newest(S, k)
<1>1. {x \in S : x >= e} = {e}
      <2>1. \A x \in S : x \in Nat  OBVIOUS
      <2>2. \A x \in S : x >= e <=> x = e  BY <2>1
      <2>3. QED  BY <2>2
<1>2. Cardinality({x \in S : x >= e}) = 1  BY <1>1, FS_Singleton
<1>3. QED  BY <1>2 DEF Newest

\* 90 % of a window, at least one row, is never more than the window.
LEMMA KeepRowsRange ==
    ASSUME NEW n \in Nat \ {0}
    PROVE  KeepRows(n) \in Nat \ {0} /\ KeepRows(n) <= n
BY DEF KeepRows

\* The bulk cut that follows an insertion or a smaller window: at most n
\* entries stay, the newest ones, and never none of them.
LEMMA TrimProperties ==
    ASSUME NEW m \in Nat, NEW S \in SUBSET (1..m), NEW n \in Nat \ {0}
    PROVE  /\ Trim(S, n) \subseteq S
           /\ Cardinality(Trim(S, n)) <= n
           /\ \A e \in Trim(S, n) : \A y \in S : y >= e => y \in Trim(S, n)
           /\ S # {} => Trim(S, n) # {}
           /\ Cardinality(S) <= n => Trim(S, n) = S
<1> DEFINE k == KeepRows(n)
<1>1. k \in Nat \ {0} /\ k <= n  BY KeepRowsRange
<1> HIDE DEF k
<1>2. Cardinality(S) \in Nat /\ Cardinality(Newest(S, k)) \in Nat
      <2>1. Newest(S, k) \in SUBSET S  BY DEF Newest
      <2>2. QED  BY <2>1, EntriesFinite
<1>3. CASE Cardinality(S) > n
      <2>1. Trim(S, n) = Newest(S, k)  BY <1>3 DEF Trim, k
      <2>2. Newest(S, k) \subseteq S  BY DEF Newest
      <2>3. Cardinality(Newest(S, k)) <= n  BY <1>1, <1>2, NewestBounded
      <2>4. \A e \in Newest(S, k) : \A y \in S : y >= e => y \in Newest(S, k)
            BY <1>1, NewestUpward
      <2>5. S # {} => Newest(S, k) # {}
            BY <1>1, GreatestElement, NewestKeepsLast
      <2>6. ~(Cardinality(S) <= n)  BY <1>2, <1>3
      <2>7. QED  BY <2>1, <2>2, <2>3, <2>4, <2>5, <2>6
<1>4. CASE ~(Cardinality(S) > n)
      <2>1. Trim(S, n) = S  BY <1>4 DEF Trim
      <2>2. QED  BY <1>2, <1>4, <2>1
<1>5. QED  BY <1>3, <1>4

\* Trimming a run of consecutive entries leaves a run with the same end.
LEMMA TrimRun ==
    ASSUME NEW a \in Nat \ {0}, NEW b \in Nat, a <= b + 1, NEW n \in Nat \ {0}
    PROVE  Trim(a..b, n) = (b - Cardinality(Trim(a..b, n)) + 1)..b
<1> DEFINE k == KeepRows(n)
           c == IF a > b - k + 1 THEN a ELSE b - k + 1
<1>1. k \in Nat \ {0} /\ k <= n  BY KeepRowsRange
<1> HIDE DEF k
<1>2. c \in Nat \ {0} /\ c <= b + 1 /\ c >= a  BY <1>1
<1>3. Newest(a..b, k) = c..b
      <2>1. ASSUME NEW e \in a..b
            PROVE  Cardinality({x \in a..b : x >= e}) = b - e + 1
            <3>1. {x \in a..b : x >= e} = e..b  BY <2>1
            <3>2. Cardinality(e..b) = b - e + 1  BY <2>1, FS_Interval
            <3>3. QED  BY <3>1, <3>2
      <2>2. Newest(a..b, k) = {e \in a..b : b - e + 1 <= k}
            BY <2>1 DEF Newest
      <2>3. {e \in a..b : b - e + 1 <= k} = c..b  BY <1>1, <1>2
      <2>4. QED  BY <2>2, <2>3
<1>4. Trim(a..b, n) = a..b \/ Trim(a..b, n) = c..b
      BY <1>3 DEF Trim, k
<1> HIDE DEF c
<1>5. ASSUME NEW d \in Nat \ {0}, d <= b + 1, Trim(a..b, n) = d..b
      PROVE  d = b - Cardinality(Trim(a..b, n)) + 1
      <2>1. d \in Int /\ b \in Int /\ ~(d > b /\ d # b + 1)  BY <1>5
      <2>2. Cardinality(d..b) = IF d > b THEN 0 ELSE b - d + 1
            BY <2>1, FS_Interval
      <2>3. Cardinality(d..b) = b - d + 1  BY <2>1, <2>2
      <2>4. QED  BY <1>5, <2>1, <2>3
<1>6. QED  BY <1>2, <1>4, <1>5

-----------------------------------------------------------------------------
(* The display.                                                            *)

\* Whatever rebuildDisplay does, rows are named by listed entries and merge
\* listed entries only, so there are at most as many rows as listed entries.
LEMMA DisplayShape ==
    ASSUME NEW n \in Nat, NEW S \in SUBSET (1..n), NEW f, NEW c
    PROVE  /\ DOMAIN DisplayOf(S, f, c) \subseteq S
           /\ \A e \in DOMAIN DisplayOf(S, f, c) : DisplayOf(S, f, c)[e] \subseteq S
           /\ RowCount(DisplayOf(S, f, c)) \in Nat
           /\ RowCount(DisplayOf(S, f, c)) <= Cardinality(S)
<1> DEFINE D == DisplayOf(S, f, c)
<1>1. DOMAIN D \subseteq S /\ \A e \in DOMAIN D : D[e] \subseteq S
      <2>1. CASE c
            BY <2>1 DEF DisplayOf, CollapseNoise
      <2>2. CASE ~c
            BY <2>2 DEF DisplayOf
      <2>3. QED  BY <2>1, <2>2
<1> HIDE DEF D
<1>2. RowCount(D) \in Nat /\ RowCount(D) <= Cardinality(S)
      BY <1>1, EntriesFinite DEF RowCount
<1>3. QED  BY <1>1, <1>2 DEF D

\* The rows d account for the listed entries S: RowsAccountForVisible, but for
\* the moment it speaks of.
Accounts(d, S, f, c) ==
    /\ UNION {d[e] : e \in DOMAIN d} = S
    /\ \A e \in DOMAIN d : e \in d[e]
    /\ \A e \in DOMAIN d : \A x \in d[e] :
          x # e => /\ e < x /\ Key[kind[x]] = Key[kind[e]]
                   /\ kind[x] \in f.noise /\ kind[e] \in f.noise
    /\ \A x, e \in DOMAIN d : x # e => d[x] \cap d[e] = {}
    /\ c => \A x, e \in DOMAIN d :
          (/\ x # e /\ kind[x] \in f.noise /\ kind[e] \in f.noise)
              => Key[kind[x]] # Key[kind[e]]

\* The rows collapseNoise makes are the classes of the noise entries with one key
\* and the other entries one by one, each named by its least entry.
LEMMA CollapseAccounts ==
    ASSUME NEW n \in Nat, NEW S \in SUBSET (1..n), NEW f
    PROVE  Accounts(CollapseNoise(S, f), S, f, TRUE)
<1> DEFINE noise  == {e \in S : kind[e] \in f.noise}
           Row(e) == IF e \in noise THEN {x \in noise : Key[kind[x]] = Key[kind[e]]} ELSE {e}
           rows   == {e \in S : \A x \in Row(e) : e <= x}
           D      == CollapseNoise(S, f)
<1>1. D = [e \in rows |-> Row(e)]  BY DEF CollapseNoise
<1>2. \A e \in S : e \in Nat /\ e \in Row(e) /\ Row(e) \in SUBSET S
      <2>1. \A e \in S : e \in Nat  OBVIOUS
      <2>2. \A e \in S : e \in Row(e) /\ Row(e) \in SUBSET S  OBVIOUS
      <2>3. QED  BY <2>1, <2>2
<1>3. \A e \in S : \A x \in Row(e) : Row(x) = Row(e)  OBVIOUS
<1>4. \A e \in S : \A x \in Row(e) :
         x # e => /\ Key[kind[x]] = Key[kind[e]]
                  /\ kind[x] \in f.noise /\ kind[e] \in f.noise
      OBVIOUS
<1>5. \A x, e \in S : /\ kind[x] \in f.noise /\ kind[e] \in f.noise
                      /\ Key[kind[x]] = Key[kind[e]]
                      => e \in Row(x)
      OBVIOUS
<1>6. rows \subseteq S /\ \A e \in rows : \A x \in Row(e) : e <= x  OBVIOUS
<1>7. \A e \in S : (\A x \in Row(e) : e <= x) => e \in rows  OBVIOUS
<1> HIDE DEF noise, Row, rows, D
<1>8. DOMAIN D = rows /\ \A e \in rows : D[e] = Row(e)  BY <1>1
<1>9. ASSUME NEW e \in S  PROVE \E x \in rows : e \in D[x]
      <2>1. Row(e) \in SUBSET Nat /\ Row(e) # {}  BY <1>2
      <2>2. PICK x \in Row(e) : \A y \in Row(e) : x <= y  BY <2>1, LeastElement
      <2>3. x \in S /\ Row(x) = Row(e)  BY <1>2, <1>3
      <2>4. x \in rows  BY <1>7, <2>2, <2>3
      <2>5. QED  BY <1>2, <1>8, <2>3, <2>4
<1>10. UNION {D[e] : e \in DOMAIN D} = S
       <2>1. \A e \in rows : D[e] \subseteq S  BY <1>2, <1>6, <1>8
       <2>2. QED  BY <1>8, <1>9, <2>1
<1>11. ASSUME NEW x \in rows, NEW e \in rows, Row(x) = Row(e)  PROVE x = e
       <2>1. x \in Row(e) /\ e \in Row(x) /\ x \in Nat /\ e \in Nat
             BY <1>2, <1>6, <1>11
       <2>2. e <= x /\ x <= e  BY <1>6, <2>1
       <2>3. QED  BY <2>1, <2>2
<1>12. ASSUME NEW x \in rows, NEW e \in rows, x # e  PROVE D[x] \cap D[e] = {}
       <2>1. ASSUME NEW z \in Row(x), z \in Row(e)  PROVE FALSE
             <3>1. Row(x) = Row(e)  BY <1>3, <1>6, <2>1
             <3>2. QED  BY <1>11, <1>12, <3>1
       <2>2. QED  BY <1>8, <2>1
<1>13. ASSUME NEW e \in rows, NEW x \in D[e], x # e
       PROVE  /\ e < x /\ Key[kind[x]] = Key[kind[e]]
              /\ kind[x] \in f.noise /\ kind[e] \in f.noise
       <2>1. x \in Row(e) /\ e \in S /\ x \in Nat /\ e \in Nat
             BY <1>2, <1>6, <1>8
       <2>2. e <= x  BY <1>6, <2>1
       <2>3. e < x  BY <1>13, <2>1, <2>2
       <2>4. QED  BY <1>4, <1>13, <2>1, <2>3
<1>14. ASSUME NEW x \in rows, NEW e \in rows, x # e,
              kind[x] \in f.noise, kind[e] \in f.noise
       PROVE  Key[kind[x]] # Key[kind[e]]
       <2>1. ASSUME Key[kind[x]] = Key[kind[e]]  PROVE FALSE
             <3>1. e \in Row(x)  BY <1>5, <1>6, <1>14, <2>1
             <3>2. Row(e) = Row(x)  BY <1>3, <1>6, <3>1
             <3>3. QED  BY <1>11, <1>14, <3>2
       <2>2. QED  BY <2>1
<1>15. \A e \in rows : e \in D[e]  BY <1>2, <1>6, <1>8
<1>16. QED
       BY <1>8, <1>10, <1>12, <1>13, <1>14, <1>15 DEF Accounts, D

\* rebuildDisplay accounts for what it is given, collapsed or not.
LEMMA DisplayAccounts ==
    ASSUME NEW n \in Nat, NEW S \in SUBSET (1..n), NEW f, NEW c \in BOOLEAN
    PROVE  Accounts(DisplayOf(S, f, c), S, f, c)
<1>1. CASE c
      <2>1. DisplayOf(S, f, c) = CollapseNoise(S, f) /\ c = TRUE  BY <1>1 DEF DisplayOf
      <2>2. QED  BY <2>1, CollapseAccounts
<1>2. CASE ~c
      <2> DEFINE D == DisplayOf(S, f, c)
      <2>1. D = [e \in S |-> {e}]  BY <1>2 DEF DisplayOf
      <2> HIDE DEF D
      <2>2. DOMAIN D = S /\ \A e \in S : D[e] = {e}  BY <2>1
      <2>3. UNION {D[e] : e \in DOMAIN D} = S
            <3>1. ASSUME NEW x \in S  PROVE \E e \in DOMAIN D : x \in D[e]
                  BY <2>2
            <3>2. ASSUME NEW e \in S  PROVE D[e] \subseteq S
                  <4>1. D[e] = {e}  BY <2>2
                  <4>2. QED  BY <4>1
            <3>3. DOMAIN D = S  BY <2>2
            <3>4. QED  BY <3>1, <3>2, <3>3
      <2>4. QED  BY <1>2, <2>2, <2>3 DEF Accounts, D
<1>3. QED  BY <1>1, <1>2

\* A cleared model shows no row.
LEMMA EmptyDisplay ==
    /\ DOMAIN [e \in {} |-> {}] = {}
    /\ RowCount([e \in {} |-> {}]) = 0
<1>1. DOMAIN [e \in {} |-> {}] = {}  OBVIOUS
<1>2. QED  BY <1>1, FS_EmptySet DEF RowCount

\* Clamped sizes are window sizes.
LEMMA ClampRange ==
    ASSUME NEW r \in Requests
    PROVE  Clamp(r) \in MinWindowSize..MaxWindowSize
BY LimitsAssumption, RequestsAssumption DEF Clamp

\* Window sizes are positive, so trimming to one is covered by TrimProperties.
LEMMA WindowPositive ==
    ASSUME NEW n \in MinWindowSize..MaxWindowSize
    PROVE  n \in Nat \ {0}
BY LimitsAssumption, RequestsAssumption

-----------------------------------------------------------------------------
(* Type correctness.                                                       *)

\* What ApplyFilter, the common end of five handlers, does to the types.
LEMMA ApplyFilterTypes ==
    ASSUME TypeOK, NEW f \in Filters, NEW c \in BOOLEAN, ApplyFilter(f, c),
           collapseCheck' \in BOOLEAN
    PROVE  TypeOK'
<1>0. all \in SUBSET (1..Len(kind)) /\ Len(kind) \in Nat
      BY DEF TypeOK
<1>1. visible' \in SUBSET (1..Len(kind))
      <2>1. visible' = Matching(all, f)  BY DEF ApplyFilter
      <2>2. Matching(all, f) \subseteq all  BY DEF Matching
      <2>3. QED  BY <1>0, <2>1, <2>2
<1>2. /\ DOMAIN display' \subseteq 1..Len(kind)
      /\ \A e \in DOMAIN display' : display'[e] \subseteq 1..Len(kind)
      /\ RowCount(display') \in Nat
      <2>1. display' = DisplayOf(visible', f, c)  BY DEF ApplyFilter
      <2>2. QED  BY <1>0, <1>1, <2>1, DisplayShape
<1>3. published' \in Nat /\ countLabel' \in Nat \X Nat
      BY <1>2 DEF ApplyFilter, Republish, UpdateCount, TypeOK
<1>4. /\ kind' = kind /\ all' = all /\ maxRows' = maxRows /\ paused' = paused
      /\ historyMode' = historyMode /\ totalCount' = totalCount /\ batch' = batch
      /\ filter' = f /\ collapse' = c
      BY DEF ApplyFilter
<1>5. QED  BY <1>1, <1>2, <1>3, <1>4 DEF TypeOK

\* The initial state has the declared types.
LEMMA InitTypes == Init => TypeOK
<1> SUFFICES ASSUME Init PROVE TypeOK  OBVIOUS
<1> USE DEF Init
<1>1. kind \in Seq(Kinds) /\ Len(kind) = 0  OBVIOUS
<1>2. maxRows \in MinWindowSize..MaxWindowSize  BY ClampRange
<1>3. display = [e \in {} |-> {}] /\ DOMAIN display = {}  BY EmptyDisplay
<1>4. batch.left = 0 /\ batch \in [left : Nat, paused : BOOLEAN, changed : BOOLEAN, running : BOOLEAN]
      BY DEF NoBatch
<1>5. /\ collapse \in BOOLEAN /\ collapseCheck \in BOOLEAN /\ paused \in BOOLEAN
      /\ historyMode \in BOOLEAN /\ filter \in Filters
      OBVIOUS
<1>6. all = {} /\ visible = {} /\ totalCount = 0 /\ published = 0 /\ countLabel = <<0, 0>>
      OBVIOUS
<1> QED  BY ONLY <1>1, <1>2, <1>3, <1>4, <1>5, <1>6, BoundsAssumption DEF TypeOK

\* Every step keeps the declared types.
LEMMA StepTypes == TypeOK /\ [Next]_vars => TypeOK'
<1> SUFFICES ASSUME TypeOK, [Next]_vars PROVE TypeOK'  OBVIOUS
<1> USE DEF TypeOK
<1>0. Len(kind) \in Nat /\ maxRows \in Nat \ {0}
      BY WindowPositive
<1>1. ASSUME NEW n \in 1..MaxBatch, BatchStart(n) PROVE TypeOK'
      <2>1. batch' \in [left : Nat, paused : BOOLEAN, changed : BOOLEAN, running : BOOLEAN]
            BY <1>1, BoundsAssumption DEF BatchStart
      <2>2. totalCount' \in Nat /\ Len(kind) + batch'.left <= MaxArrivals
            BY <1>1, BoundsAssumption DEF BatchStart
      <2>3. UNCHANGED <<model, collapseCheck, paused, historyMode, published, countLabel>>
            BY <1>1 DEF BatchStart
      <2>4. /\ kind' = kind /\ all' = all /\ visible' = visible /\ display' = display
            /\ filter' = filter /\ collapse' = collapse /\ maxRows' = maxRows
            /\ collapseCheck' = collapseCheck /\ paused' = paused
            /\ historyMode' = historyMode /\ published' = published
            /\ countLabel' = countLabel
            BY <2>3 DEF model
      <2>5. QED  BY <2>1, <2>2, <2>4
<1>2. ASSUME NEW k \in Kinds, AddEntry(k) PROVE TypeOK'
      <2> DEFINE e == Len(kind) + 1
      <2>1. /\ kind' = Append(kind, k) /\ kind' \in Seq(Kinds) /\ Len(kind') = e
            BY <1>2 DEF AddEntry, Shown
      <2>2. e \in Nat /\ all \cup {e} \in SUBSET (1..e) /\ visible \cup {e} \in SUBSET (1..e)
            <3>1. e \in Nat /\ 1..Len(kind) \subseteq 1..e /\ e \in 1..e  BY <1>0
            <3>2. all \subseteq 1..Len(kind) /\ visible \subseteq 1..Len(kind)  OBVIOUS
            <3>3. QED  BY <3>1, <3>2
      <2>3. all' \subseteq 1..e
            <3>1. all' = Trim(all \cup {e}, maxRows)  BY <1>2 DEF AddEntry, Shown
            <3> HIDE DEF e
            <3>2. QED  BY <1>0, <2>2, <3>1, TrimProperties
      <2>4. visible' \subseteq 1..e
            <3>1. visible' = Trim(visible \cup {e}, maxRows) \/ visible' = visible
                  BY <1>2 DEF AddEntry, Shown
            <3> HIDE DEF e
            <3>2. Trim(visible \cup {e}, maxRows) \subseteq 1..e
                  BY <1>0, <2>2, TrimProperties
            <3>3. visible \subseteq 1..e  BY <2>2
            <3>4. QED  BY <3>1, <3>2, <3>3
      <2>5. batch' \in [left : Nat, paused : BOOLEAN, changed : BOOLEAN, running : BOOLEAN]
            <3> DEFINE c == batch.changed \/ (~batch.paused /\ Matches(filter, k))
            <3>1. c \in BOOLEAN  OBVIOUS
            <3>2. batch.left - 1 \in Nat  BY <1>2 DEF AddEntry, Shown
            <3>3. batch' = [batch EXCEPT !.left = batch.left - 1, !.changed = c]
                  BY <1>2 DEF AddEntry, Shown
            <3> HIDE DEF c
            <3>4. QED  BY <3>1, <3>2, <3>3
      <2>6. Len(kind') + batch'.left <= MaxArrivals
            <3>1. batch.left \in Nat /\ batch'.left = batch.left - 1  BY <1>2 DEF AddEntry, Shown
            <3>2. QED  BY <1>0, <2>1, <3>1
      <2>7. UNCHANGED <<display, filter, collapse, maxRows, ui>>
            BY <1>2 DEF AddEntry, Shown
      <2>8. DOMAIN display' \subseteq 1..e /\ \A d \in DOMAIN display' : display'[d] \subseteq 1..e
            BY <1>0, <2>7
      <2>9. QED  BY <2>1, <2>3, <2>4, <2>5, <2>6, <2>7, <2>8 DEF ui
<1>3. ASSUME BatchEnd PROVE TypeOK'
      <2>1. /\ kind' = kind /\ all' = all /\ visible' = visible /\ filter' = filter
            /\ collapse' = collapse /\ maxRows' = maxRows /\ collapseCheck' = collapseCheck
            /\ paused' = paused /\ historyMode' = historyMode /\ totalCount' = totalCount
            /\ batch' = NoBatch
            BY <1>3 DEF BatchEnd
      <2>2. /\ DOMAIN display' \subseteq 1..Len(kind)
            /\ \A e \in DOMAIN display' : display'[e] \subseteq 1..Len(kind)
            /\ RowCount(display') \in Nat /\ published' \in Nat
            <3>1. CASE batch.changed
                  <4>1. display' = DisplayOf(visible, filter, collapse)
                        BY <1>3, <3>1 DEF BatchEnd
                  <4>2. published' = RowCount(display')
                        BY <1>3, <3>1 DEF BatchEnd, Republish
                  <4>3. QED  BY <1>0, <4>1, <4>2, DisplayShape
            <3>2. CASE ~batch.changed
                  <4>1. display' = display /\ published' = published
                        BY <1>3, <3>2 DEF BatchEnd
                  <4>2. RowCount(display) \in Nat
                        BY <1>0, EntriesFinite DEF RowCount
                  <4>3. QED  BY <4>1, <4>2
            <3>3. QED  BY <3>1, <3>2
      <2>3. countLabel' \in Nat \X Nat
            BY <1>3, <2>1, <2>2 DEF BatchEnd, UpdateCount
      <2>4. batch' \in [left : Nat, paused : BOOLEAN, changed : BOOLEAN, running : BOOLEAN]
            /\ Len(kind) + batch'.left <= MaxArrivals
            <3>1. batch.left \in Nat /\ MaxArrivals \in Nat  BY BoundsAssumption
            <3>2. batch'.left = 0  BY <2>1 DEF NoBatch
            <3>3. Len(kind) + batch'.left <= MaxArrivals  BY <1>0, <3>1, <3>2
            <3>4. QED  BY <2>1, <3>3 DEF NoBatch
      <2>5. QED  BY <2>1, <2>2, <2>3, <2>4
<1>4. ASSUME TogglePause PROVE TypeOK'
      <2>1. /\ kind' = kind /\ all' = all /\ filter' = filter /\ batch' = batch
            /\ collapse' = collapse /\ maxRows' = maxRows /\ collapseCheck' = collapseCheck
            /\ paused' = ~paused /\ historyMode' = historyMode /\ totalCount' = totalCount
            BY <1>4 DEF TogglePause
      <2>2. CASE paused
            <3>1. visible' = Matching(all, filter)
                  /\ display' = DisplayOf(visible', filter, collapse)
                  /\ published' = RowCount(display') /\ countLabel' = <<RowCount(display'), totalCount'>>
                  BY <1>4, <2>2 DEF TogglePause, Republish, UpdateCount
            <3>2. visible' \in SUBSET (1..Len(kind))
                  BY <3>1 DEF Matching
            <3>3. /\ DOMAIN display' \subseteq 1..Len(kind)
                  /\ \A e \in DOMAIN display' : display'[e] \subseteq 1..Len(kind)
                  /\ RowCount(display') \in Nat
                  BY <1>0, <3>1, <3>2, DisplayShape
            <3>4. QED  BY <2>1, <3>1, <3>2, <3>3
      <2>3. CASE ~paused
            <3>1. UNCHANGED <<visible, display, published, countLabel>>
                  BY <1>4, <2>3 DEF TogglePause
            <3>2. QED  BY <2>1, <3>1
      <2>4. QED  BY <2>2, <2>3
<1>5. ASSUME NEW p \in PassSets, SetFilters(p) PROVE TypeOK'
      <2>1. [filter EXCEPT !.pass = p] \in Filters  BY DEF Filters
      <2>2. QED  BY <1>5, <2>1, ApplyFilterTypes DEF SetFilters
<1>6. ASSUME ClearFilters PROVE TypeOK'
      BY <1>5, <1>6, KindsAssumption DEF ClearFilters
<1>7. ASSUME NEW s \in NoiseSets, NoiseDialog(s) PROVE TypeOK'
      <2>1. [filter EXCEPT !.noise = s] \in Filters  BY DEF Filters
      <2>2. QED  BY <1>7, <2>1, ApplyFilterTypes DEF NoiseDialog
<1>8. ASSUME OnNoiseToggle PROVE TypeOK'
      <2> DEFINE hide == ~filter.hideNoise
                 c == ~hide /\ collapseCheck
      <2>1. hide \in BOOLEAN /\ c \in BOOLEAN  OBVIOUS
      <2>2. ApplyFilter([filter EXCEPT !.hideNoise = hide], c)
            /\ collapseCheck' = collapseCheck
            BY <1>8 DEF OnNoiseToggle
      <2> HIDE DEF hide, c
      <2>3. [filter EXCEPT !.hideNoise = hide] \in Filters
            BY <2>1 DEF Filters
      <2>4. QED  BY <2>1, <2>2, <2>3, ApplyFilterTypes
<1>9. ASSUME OnCollapseToggle PROVE TypeOK'
      <2>1. /\ kind' = kind /\ all' = all /\ visible' = visible /\ filter' = filter
            /\ maxRows' = maxRows /\ paused' = paused /\ historyMode' = historyMode
            /\ totalCount' = totalCount /\ batch' = batch
            /\ collapseCheck' = ~collapseCheck /\ collapse' = collapseCheck'
            /\ display' = DisplayOf(visible, filter, collapse')
            /\ published' = RowCount(display') /\ countLabel' = <<RowCount(display'), totalCount'>>
            BY <1>9 DEF OnCollapseToggle, Republish, UpdateCount
      <2>2. /\ DOMAIN display' \subseteq 1..Len(kind)
            /\ \A e \in DOMAIN display' : display'[e] \subseteq 1..Len(kind)
            /\ RowCount(display') \in Nat
            <3> DEFINE c == collapse'
            <3>1. display' = DisplayOf(visible, filter, c)  BY <2>1
            <3>2. visible \in SUBSET (1..Len(kind))  OBVIOUS
            <3> HIDE DEF c
            <3>3. QED  BY <1>0, <3>1, <3>2, DisplayShape
      <2>3. collapseCheck' \in BOOLEAN /\ collapse' \in BOOLEAN
            BY <2>1
      <2>4. published' \in Nat /\ countLabel' \in Nat \X Nat
            BY <2>1, <2>2
      <2>5. kind' = kind /\ all' = all /\ visible' = visible /\ filter' = filter
            /\ maxRows' = maxRows /\ paused' = paused /\ historyMode' = historyMode
            /\ totalCount' = totalCount /\ batch' = batch
            BY <2>1
      <2>6. QED  BY <2>2, <2>3, <2>4, <2>5
<1>10. ASSUME ClearLog PROVE TypeOK'
      <2>1. /\ kind' = kind /\ filter' = filter /\ collapse' = collapse
            /\ maxRows' = maxRows /\ collapseCheck' = collapseCheck /\ paused' = paused
            /\ historyMode' = historyMode /\ batch' = batch
            /\ all' = {} /\ visible' = {} /\ display' = [e \in {} |-> {}] /\ totalCount' = 0
            /\ published' = RowCount(display') /\ countLabel' = <<RowCount(display'), totalCount'>>
            BY <1>10 DEF ClearLog, Clear, Republish, UpdateCount
      <2>2. DOMAIN display' = {} /\ RowCount(display') = 0
            BY <2>1, EmptyDisplay
      <2>3. QED  BY <2>1, <2>2
<1>11. ASSUME NEW r \in Requests, ApplyEventWindowSize(r) PROVE TypeOK'
      <2> DEFINE n == Clamp(r)
      <2>1. /\ kind' = kind /\ filter' = filter /\ collapse' = collapse
            /\ collapseCheck' = collapseCheck /\ paused' = paused
            /\ historyMode' = historyMode /\ batch' = batch
            /\ maxRows' = n /\ published' = RowCount(display')
            BY <1>11 DEF ApplyEventWindowSize, SetWindowSize, Republish
      <2>2. n \in MinWindowSize..MaxWindowSize /\ n \in Nat \ {0}
            BY ClampRange, WindowPositive
      <2> HIDE DEF n
      <2>3. /\ all' \subseteq 1..Len(kind) /\ visible' \subseteq 1..Len(kind)
            /\ DOMAIN display' \subseteq 1..Len(kind)
            /\ \A e \in DOMAIN display' : display'[e] \subseteq 1..Len(kind)
            /\ RowCount(display') \in Nat
            /\ totalCount' \in Nat /\ countLabel' \in Nat \X Nat
            <3>1. CASE historyMode /\ n # maxRows
                  <4>1. /\ all' = {} /\ visible' = {} /\ display' = [e \in {} |-> {}]
                        /\ totalCount' = 0 /\ countLabel' = countLabel
                        BY <1>11, <3>1 DEF ApplyEventWindowSize, Clear, n
                  <4>2. QED  BY <4>1, EmptyDisplay
            <3>2. CASE ~(historyMode /\ n # maxRows)
                  <4>1. /\ all' = Trim(all, n) /\ visible' = Trim(visible, n)
                        /\ display' = IF Cardinality(visible) > n
                                      THEN DisplayOf(visible', filter, collapse) ELSE display
                        /\ totalCount' = totalCount
                        /\ countLabel' = <<RowCount(display'), totalCount'>>
                        BY <1>11, <3>2 DEF ApplyEventWindowSize, SetWindowSize, UpdateCount, n
                  <4>2. all' \subseteq 1..Len(kind) /\ visible' \in SUBSET (1..Len(kind))
                        BY <1>0, <2>2, <4>1, TrimProperties
                  <4>3. /\ DOMAIN display' \subseteq 1..Len(kind)
                        /\ \A e \in DOMAIN display' : display'[e] \subseteq 1..Len(kind)
                        /\ RowCount(display') \in Nat
                        <5>1. CASE display' = display
                              BY <1>0, <5>1, EntriesFinite DEF RowCount
                        <5>2. CASE display' = DisplayOf(visible', filter, collapse)
                              BY <1>0, <4>2, <5>2, DisplayShape
                        <5>3. QED  BY <4>1, <5>1, <5>2
                  <4>4. QED  BY <4>1, <4>2, <4>3
            <3>3. QED  BY <3>1, <3>2
      <2>4. QED  BY <2>1, <2>2, <2>3
<1>12. CASE UNCHANGED vars
      BY <1>12 DEF vars, model, ui
<1>13. QED
      BY <1>1, <1>2, <1>3, <1>4, <1>5, <1>6, <1>7, <1>8, <1>9, <1>10, <1>11, <1>12 DEF Next

\* The window's state keeps its shape: entry numbers stay within what was
\* ingested, the size within its bounds, counters and labels naturals.
THEOREM TypeCorrect == Spec => []TypeOK
BY InitTypes, StepTypes, PTL DEF Spec

-----------------------------------------------------------------------------
(* What the handlers between two batches do to the model, in five forms.   *)

\* The table is rebuilt from all: a filter change, or a resume.
Rebuilds ==
    /\ Idle
    /\ kind' = kind /\ all' = all /\ maxRows' = maxRows
    /\ batch' = batch /\ totalCount' = totalCount
    /\ visible' = Matching(all, filter')
    /\ display' = DisplayOf(visible', filter', collapse')
    /\ published' = RowCount(display')

\* The model is emptied: Clear Log, or a history re-read.
Empties ==
    /\ Idle
    /\ kind' = kind /\ filter' = filter /\ batch' = batch
    /\ maxRows' \in MinWindowSize..MaxWindowSize /\ totalCount' = 0
    /\ all' = {} /\ visible' = {} /\ display' = [e \in {} |-> {}]
    /\ published' = RowCount(display')

\* Both slices are trimmed to a new size.
Resizes ==
    /\ Idle
    /\ kind' = kind /\ filter' = filter /\ batch' = batch
    /\ totalCount' = totalCount /\ paused' = paused /\ collapse' = collapse
    /\ maxRows' \in MinWindowSize..MaxWindowSize
    /\ all' = Trim(all, maxRows') /\ visible' = Trim(visible, maxRows')
    /\ display' = IF Cardinality(visible) > maxRows'
                  THEN DisplayOf(visible', filter, collapse) ELSE display
    /\ published' = RowCount(display')

\* Only the rows are recomputed: the collapse box.
Recollapses ==
    /\ Idle
    /\ kind' = kind /\ all' = all /\ visible' = visible /\ filter' = filter
    /\ maxRows' = maxRows /\ batch' = batch /\ totalCount' = totalCount
    /\ paused' = paused
    /\ display' = DisplayOf(visible, filter, collapse')
    /\ published' = RowCount(display')

\* The display is frozen.
Pauses ==
    /\ Idle /\ paused'
    /\ kind' = kind /\ all' = all /\ visible' = visible /\ filter' = filter
    /\ maxRows' = maxRows /\ batch' = batch /\ totalCount' = totalCount
    /\ collapse' = collapse
    /\ display' = display /\ published' = published

\* Every step is a step of a batch closure or has one of the five forms.
LEMMA StepForms ==
    ASSUME TypeOK, Next
    PROVE  \/ \E n \in 1..MaxBatch : BatchStart(n)
           \/ \E k \in Kinds : AddEntry(k)
           \/ BatchEnd
           \/ Rebuilds \/ Empties \/ Resizes \/ Recollapses \/ Pauses
<1>1. ASSUME NEW f, NEW c, ApplyFilter(f, c), Idle PROVE Rebuilds
      BY <1>1 DEF ApplyFilter, Rebuilds, Republish
<1>2. ASSUME NEW p \in PassSets, SetFilters(p) PROVE Rebuilds
      BY <1>1, <1>2 DEF SetFilters
<1>3. ASSUME ClearFilters PROVE Rebuilds
      BY <1>2, <1>3, KindsAssumption DEF ClearFilters
<1>4. ASSUME NEW s \in NoiseSets, NoiseDialog(s) PROVE Rebuilds
      BY <1>1, <1>4 DEF NoiseDialog
<1>5. ASSUME OnNoiseToggle PROVE Rebuilds
      BY <1>1, <1>5 DEF OnNoiseToggle
<1>6. ASSUME TogglePause PROVE Rebuilds \/ Pauses
      <2>1. CASE paused
            BY <1>6, <2>1 DEF TogglePause, Rebuilds, Republish
      <2>2. CASE ~paused
            BY <1>6, <2>2 DEF TogglePause, Pauses
      <2>3. QED  BY <2>1, <2>2
<1>7. ASSUME OnCollapseToggle PROVE Recollapses
      BY <1>7 DEF OnCollapseToggle, Recollapses, Republish
<1>8. ASSUME ClearLog PROVE Empties
      BY <1>8 DEF ClearLog, Clear, Empties, Republish, TypeOK
<1>9. ASSUME NEW r \in Requests, ApplyEventWindowSize(r) PROVE Empties \/ Resizes
      <2>1. Clamp(r) \in MinWindowSize..MaxWindowSize  BY ClampRange
      <2>2. CASE historyMode /\ Clamp(r) # maxRows
            BY <1>9, <2>1, <2>2 DEF ApplyEventWindowSize, Clear, Empties, Republish
      <2>3. CASE ~(historyMode /\ Clamp(r) # maxRows)
            BY <1>9, <2>1, <2>3 DEF ApplyEventWindowSize, SetWindowSize, Resizes, Republish
      <2>4. QED  BY <2>2, <2>3
<1>10. QED
      BY <1>2, <1>3, <1>4, <1>5, <1>6, <1>7, <1>8, <1>9 DEF Next

-----------------------------------------------------------------------------
(* The inductive invariant.                                                *)

\* No closure is running, or it was started under the present pause state
\* and has marked the table changed only if that is live.
BatchSync ==
    /\ ~batch.running => batch = NoBatch
    /\ batch.running => batch.paused = paused
    /\ batch.changed => ~batch.paused
    /\ batch.left <= totalCount

\* Unless the running closure has yet to refresh them, rows name listed entries.
RowsListed == ~batch.changed => DOMAIN display \subseteq visible

IInv == /\ TypeOK
        /\ BatchSync
        /\ WindowBounded /\ RowsPublished /\ RowsListed
        /\ CaptureContiguous
        /\ ClearedStayCleared
        /\ NoHoles /\ VisiblePasses
        /\ RowsAccountForVisible

\* The invariant holds of the empty window.
LEMMA InitInv == Init => IInv
<1> SUFFICES ASSUME Init PROVE IInv  OBVIOUS
<1>1. TypeOK  BY InitTypes
<1>2. BatchSync  BY DEF Init, BatchSync, NoBatch, Idle
<1>3. /\ all = {} /\ visible = {} /\ DOMAIN display = {} /\ RowCount(display) = 0
      /\ Cardinality({}) = 0 /\ maxRows \in Nat \ {0} /\ published = 0
      /\ Len(kind) = 0
      <2>1. maxRows \in MinWindowSize..MaxWindowSize  BY <1>1 DEF TypeOK
      <2>2. QED  BY <2>1, EmptyDisplay, FS_EmptySet, WindowPositive DEF Init
<1>4. WindowBounded /\ RowsPublished /\ RowsListed
      BY <1>3 DEF WindowBounded, RowsPublished, RowsListed
<1>5. CaptureContiguous
      <2>1. (0 - 0 + 1)..0 = {}  OBVIOUS
      <2>2. QED  BY <1>3, <2>1 DEF CaptureContiguous
<1>6. ClearedStayCleared  BY <1>3 DEF ClearedStayCleared
<1>7. NoHoles /\ VisiblePasses  BY <1>3 DEF NoHoles, VisiblePasses, Matching
<1>8. RowsAccountForVisible
      BY <1>3 DEF RowsAccountForVisible
<1>9. QED  BY <1>1, <1>2, <1>4, <1>5, <1>6, <1>7, <1>8 DEF IInv

\* The closure's record follows the pause state: no handler runs inside it.
LEMMA StepBatchSync == IInv /\ Next => BatchSync'
<1> SUFFICES ASSUME IInv, Next PROVE BatchSync'  OBVIOUS
<1>0. TypeOK /\ BatchSync  BY DEF IInv
<1>1. ASSUME NEW n \in 1..MaxBatch, BatchStart(n) PROVE BatchSync'
      BY <1>0, <1>1, BoundsAssumption DEF BatchStart, BatchSync, TypeOK
<1>2. ASSUME NEW k \in Kinds, AddEntry(k) PROVE BatchSync'
      <2>1. /\ batch'.running = batch.running /\ batch'.paused = batch.paused
            /\ batch'.changed = (batch.changed \/ (~batch.paused /\ Matches(filter, k)))
            BY <1>0, <1>2 DEF AddEntry, Shown, TypeOK
      <2>2. batch.running /\ paused' = paused  BY <1>2 DEF AddEntry, Shown, ui
      <2>3. batch'.left <= totalCount'
            BY <1>0, <1>2 DEF AddEntry, Shown, ui, TypeOK, BatchSync
      <2>4. QED  BY <1>0, <2>1, <2>2, <2>3 DEF BatchSync
<1>3. ASSUME BatchEnd PROVE BatchSync'
      BY <1>0, <1>3 DEF BatchEnd, BatchSync, NoBatch, TypeOK
<1>4. ASSUME Idle, batch' = batch, totalCount' \in Nat PROVE BatchSync'
      BY <1>0, <1>4 DEF BatchSync, Idle, NoBatch
<1>5. QED
      BY <1>0, <1>1, <1>2, <1>3, <1>4, StepForms
         DEF Rebuilds, Empties, Resizes, Recollapses, Pauses, TypeOK

\* No slice and no table outgrows the window, and walk knows the row count.
LEMMA StepSizes == IInv /\ Next => (WindowBounded /\ RowsPublished /\ RowsListed)'
<1> DEFINE Goal == WindowBounded /\ RowsPublished /\ RowsListed
<1> SUFFICES ASSUME IInv, Next PROVE Goal'  OBVIOUS
<1>0. /\ TypeOK /\ BatchSync /\ WindowBounded /\ RowsPublished /\ RowsListed
      /\ TypeOK' BY StepTypes DEF IInv
<1>1. /\ Len(kind) \in Nat /\ maxRows \in Nat \ {0} /\ maxRows' \in Nat \ {0}
      /\ all \in SUBSET (1..Len(kind)) /\ visible \in SUBSET (1..Len(kind))
      BY <1>0, WindowPositive DEF TypeOK
<1>2. /\ Cardinality(all) \in Nat /\ Cardinality(visible) \in Nat
      /\ Cardinality(all) <= maxRows /\ Cardinality(visible) <= maxRows
      /\ RowCount(display) <= maxRows /\ published = RowCount(display)
      BY <1>0, <1>1, EntriesFinite DEF WindowBounded, RowsPublished
<1>3. ASSUME NEW n \in 1..MaxBatch, BatchStart(n) PROVE Goal'
      <2>1. /\ all' = all /\ visible' = visible /\ display' = display
            /\ maxRows' = maxRows /\ published' = published
            BY <1>3 DEF BatchStart, model
      <2>2. ~batch.changed
            BY <1>0, <1>3 DEF BatchStart, BatchSync, Idle, NoBatch
      <2>3. DOMAIN display \subseteq visible  BY <1>0, <2>2 DEF RowsListed
      <2>4. QED  BY <1>2, <2>1, <2>3 DEF WindowBounded, RowsPublished, RowsListed
<1>4. ASSUME NEW k \in Kinds, AddEntry(k) PROVE Goal'
      <2> DEFINE e == Len(kind) + 1
      <2>1. /\ all' = Trim(all \cup {e}, maxRows)
            /\ visible' = visible \/ (batch'.changed /\ visible' = Trim(visible \cup {e}, maxRows))
            /\ maxRows' = maxRows /\ display' = display /\ published' = published
            /\ batch.changed => batch'.changed
            BY <1>0, <1>4 DEF AddEntry, Shown, ui, TypeOK
      <2>2. e \in Nat /\ all \cup {e} \in SUBSET (1..e) /\ visible \cup {e} \in SUBSET (1..e)
            <3>1. e \in Nat /\ 1..Len(kind) \subseteq 1..e /\ e \in 1..e  BY <1>1
            <3>2. QED  BY <1>1, <3>1
      <2> HIDE DEF e
      <2>3. Cardinality(all') <= maxRows'
            BY <1>1, <2>1, <2>2, TrimProperties
      <2>4. Cardinality(visible') <= maxRows'
            BY <1>1, <1>2, <2>1, <2>2, TrimProperties
      <2>5. RowsListed'
            <3>1. SUFFICES ASSUME ~batch'.changed PROVE DOMAIN display' \subseteq visible'
                  BY DEF RowsListed
            <3>2. visible' = visible /\ ~batch.changed  BY <2>1, <3>1
            <3>3. QED  BY <1>0, <2>1, <3>2 DEF RowsListed
      <2>6. QED  BY <1>2, <2>1, <2>3, <2>4, <2>5 DEF WindowBounded, RowsPublished
<1>5. ASSUME BatchEnd PROVE Goal'
      <2>1. all' = all /\ visible' = visible /\ maxRows' = maxRows
            BY <1>5 DEF BatchEnd
      <2>2. CASE batch.changed
            <3>1. display' = DisplayOf(visible, filter, collapse) /\ published' = RowCount(display')
                  BY <1>5, <2>2 DEF BatchEnd, Republish
            <3>2. DOMAIN display' \subseteq visible /\ RowCount(display') \in Nat
                  /\ RowCount(display') <= Cardinality(visible)
                  BY <1>1, <3>1, DisplayShape
            <3>3. RowCount(display') <= maxRows  BY <1>1, <1>2, <3>2
            <3>4. QED  BY <1>2, <2>1, <3>1, <3>2, <3>3 DEF WindowBounded, RowsPublished, RowsListed
      <2>3. CASE ~batch.changed
            <3>1. display' = display /\ published' = published
                  BY <1>5, <2>3 DEF BatchEnd
            <3>2. DOMAIN display \subseteq visible  BY <1>0, <2>3 DEF RowsListed
            <3>3. QED  BY <1>2, <2>1, <3>1, <3>2 DEF WindowBounded, RowsPublished, RowsListed
      <2>4. QED  BY <2>2, <2>3
<1>6. ASSUME Idle PROVE DOMAIN display \subseteq visible
      BY <1>0, <1>6 DEF RowsListed, BatchSync, Idle, NoBatch
<1>7. ASSUME Rebuilds PROVE Goal'
      <2>1. /\ all' = all /\ maxRows' = maxRows /\ published' = RowCount(display')
            /\ visible' = Matching(all, filter')
            BY <1>7 DEF Rebuilds
      <2>2. visible' \subseteq all  BY <2>1 DEF Matching
      <2>3. visible' \in SUBSET (1..Len(kind)) /\ Cardinality(visible') \in Nat
            /\ Cardinality(visible') <= Cardinality(all)
            BY <1>1, <2>2, EntriesFinite
      <2> DEFINE f == filter'
                 c == collapse'
      <2>4. display' = DisplayOf(visible', f, c)  BY <1>7 DEF Rebuilds
      <2> HIDE DEF f, c
      <2>5. DOMAIN display' \subseteq visible' /\ RowCount(display') \in Nat
            /\ RowCount(display') <= Cardinality(visible')
            BY <1>1, <2>3, <2>4, DisplayShape
      <2>6. Cardinality(visible') <= maxRows /\ RowCount(display') <= maxRows
            BY <1>1, <1>2, <2>3, <2>5
      <2>7. QED  BY <1>2, <2>1, <2>5, <2>6 DEF WindowBounded, RowsPublished, RowsListed
<1>8. ASSUME Empties PROVE Goal'
      <2>1. all' = {} /\ visible' = {} /\ DOMAIN display' = {} /\ RowCount(display') = 0
            /\ published' = RowCount(display') /\ Cardinality({}) = 0
            BY <1>8, EmptyDisplay, FS_EmptySet DEF Empties
      <2>2. QED  BY <1>1, <2>1 DEF WindowBounded, RowsPublished, RowsListed
<1>9. ASSUME Resizes PROVE Goal'
      <2> DEFINE n == maxRows'
      <2>1. /\ all' = Trim(all, n) /\ visible' = Trim(visible, n)
            /\ display' = IF Cardinality(visible) > n
                          THEN DisplayOf(visible', filter, collapse) ELSE display
            /\ published' = RowCount(display') /\ n \in Nat \ {0}
            BY <1>1, <1>9 DEF Resizes
      <2> HIDE DEF n
      <2>2. /\ Cardinality(all') <= n /\ Cardinality(visible') <= n
            /\ visible' \in SUBSET (1..Len(kind))
            BY <1>1, <2>1, TrimProperties
      <2>3. DOMAIN display' \subseteq visible' /\ RowCount(display') <= n
            <3>1. CASE Cardinality(visible) > n
                  <4>1. display' = DisplayOf(visible', filter, collapse)  BY <2>1, <3>1
                  <4>2. DOMAIN display' \subseteq visible' /\ RowCount(display') \in Nat
                        /\ RowCount(display') <= Cardinality(visible')
                        BY <1>1, <2>2, <4>1, DisplayShape
                  <4>3. Cardinality(visible') \in Nat  BY <1>1, <2>2, EntriesFinite
                  <4>4. QED  BY <2>1, <2>2, <4>2, <4>3
            <3>2. CASE ~(Cardinality(visible) > n)
                  <4>1. display' = display  BY <2>1, <3>2
                  <4>2. Cardinality(visible) <= n  BY <1>2, <2>1, <3>2
                  <4>3. visible' = visible  BY <1>1, <2>1, <4>2, TrimProperties
                  <4>4. DOMAIN display \subseteq visible
                        BY <1>6, <1>9 DEF Resizes
                  <4>5. RowCount(display) \in Nat /\ RowCount(display) <= Cardinality(visible)
                        BY <1>1, <4>4, EntriesFinite DEF RowCount
                  <4>6. RowCount(display) <= n  BY <1>2, <2>1, <4>2, <4>5
                  <4>7. QED  BY <4>1, <4>3, <4>4, <4>6
            <3>3. QED  BY <3>1, <3>2
      <2>4. QED  BY <2>1, <2>2, <2>3 DEF WindowBounded, RowsPublished, RowsListed, n
<1>10. ASSUME Recollapses PROVE Goal'
      <2>1. all' = all /\ visible' = visible /\ maxRows' = maxRows
            /\ published' = RowCount(display')
            BY <1>10 DEF Recollapses
      <2> DEFINE c == collapse'
      <2>2. display' = DisplayOf(visible, filter, c)  BY <1>10 DEF Recollapses
      <2> HIDE DEF c
      <2>3. DOMAIN display' \subseteq visible /\ RowCount(display') \in Nat
            /\ RowCount(display') <= Cardinality(visible)
            BY <1>1, <2>2, DisplayShape
      <2>4. RowCount(display') <= maxRows  BY <1>1, <1>2, <2>3
      <2>5. QED  BY <1>2, <2>1, <2>3, <2>4 DEF WindowBounded, RowsPublished, RowsListed
<1>11. ASSUME Pauses PROVE Goal'
      <2>1. /\ all' = all /\ visible' = visible /\ maxRows' = maxRows
            /\ display' = display /\ published' = published
            BY <1>11 DEF Pauses
      <2>2. DOMAIN display \subseteq visible  BY <1>6, <1>11 DEF Pauses
      <2>3. QED  BY <1>2, <2>1, <2>2 DEF WindowBounded, RowsPublished, RowsListed
<1>12. QED
      BY <1>0, <1>3, <1>4, <1>5, <1>7, <1>8, <1>9, <1>10, <1>11, StepForms

\* all stays a run of consecutive entries that ends at the last one ingested.
LEMMA StepCapture == IInv /\ Next => CaptureContiguous'
<1> SUFFICES ASSUME IInv, Next PROVE CaptureContiguous'  OBVIOUS
<1> DEFINE N == Len(kind)
           a == N - Cardinality(all) + 1
<1>0. TypeOK /\ TypeOK'  BY StepTypes DEF IInv
<1>1. /\ N \in Nat /\ maxRows \in Nat \ {0} /\ maxRows' \in Nat \ {0}
      /\ all \in SUBSET (1..N)
      BY <1>0, WindowPositive DEF TypeOK
<1>2. Cardinality(all) \in Nat /\ Cardinality(all) <= N
      <2> HIDE DEF N
      <2>1. 1 \in Int /\ N \in Int  BY <1>1
      <2>2. Cardinality(1..N) = (IF 1 > N THEN 0 ELSE N - 1 + 1) /\ IsFiniteSet(1..N)
            BY <2>1, FS_Interval
      <2>3. Cardinality(1..N) = N  BY <1>1, <2>2
      <2>4. Cardinality(all) <= Cardinality(1..N)  BY <1>1, <2>2, FS_Subset
      <2>5. Cardinality(all) \in Nat  BY <1>1, EntriesFinite
      <2>6. QED  BY <2>3, <2>4, <2>5
<1>3. a \in Nat \ {0} /\ a <= N + 1 /\ all = a..N
      BY <1>1, <1>2 DEF IInv, CaptureContiguous
<1>4. ASSUME all' = all, kind' = kind PROVE CaptureContiguous'
      BY <1>3, <1>4 DEF CaptureContiguous
<1>5. ASSUME NEW k \in Kinds, AddEntry(k) PROVE CaptureContiguous'
      <2>1. Len(kind') = N + 1 /\ all' = Trim(all \cup {N + 1}, maxRows)
            BY <1>0, <1>5 DEF AddEntry, Shown, TypeOK
      <2> HIDE DEF N, a
      <2>2. all \cup {N + 1} = a..(N + 1) /\ N + 1 \in Nat /\ a <= N + 1 + 1
            <3>1. a..N \cup {N + 1} = a..(N + 1)  BY <1>1, <1>3
            <3>2. QED  BY <1>1, <1>3, <3>1
      <2> DEFINE b == N + 1
      <2>3. all' = Trim(a..b, maxRows)  BY <2>1, <2>2
      <2>4. b \in Nat /\ a \in Nat \ {0} /\ a <= b + 1 /\ Len(kind') = b
            BY <1>3, <2>1, <2>2
      <2> HIDE DEF b
      <2>5. Trim(a..b, maxRows) = (b - Cardinality(Trim(a..b, maxRows)) + 1)..b
            BY <1>1, <2>4, TrimRun
      <2>6. all' = (b - Cardinality(all') + 1)..b
            BY <2>3, <2>5
      <2>7. QED  BY <2>4, <2>6 DEF CaptureContiguous
<1>6. ASSUME Resizes PROVE CaptureContiguous'
      <2> DEFINE n == maxRows'
      <2>1. all' = Trim(all, n) /\ kind' = kind  BY <1>6 DEF Resizes
      <2> HIDE DEF n, a
      <2>2. all' = (N - Cardinality(all') + 1)..N
            <3> HIDE DEF N
            <3>1. n \in Nat \ {0}  BY <1>1 DEF n
            <3>2. QED  BY <1>1, <1>3, <2>1, <3>1, TrimRun
      <2>3. QED  BY <2>1, <2>2 DEF CaptureContiguous
<1>7. ASSUME Empties PROVE CaptureContiguous'
      <2>1. all' = {} /\ kind' = kind /\ Cardinality({}) = 0
            BY <1>7, FS_EmptySet DEF Empties
      <2>2. (N - 0 + 1)..N = {}  BY <1>1
      <2>3. QED  BY <2>1, <2>2 DEF CaptureContiguous
<1>8. QED
      BY <1>0, <1>4, <1>5, <1>6, <1>7, StepForms
         DEF BatchStart, BatchEnd, Rebuilds, Recollapses, Pauses, model

\* Entries of before the last clear stay out of the model.
LEMMA StepCleared == IInv /\ Next => ClearedStayCleared'
<1> SUFFICES ASSUME IInv, Next PROVE ClearedStayCleared'  OBVIOUS
<1> DEFINE N == Len(kind)
<1>0. TypeOK /\ BatchSync /\ ClearedStayCleared  BY DEF IInv
<1>1. /\ N \in Nat /\ maxRows \in Nat \ {0} /\ maxRows' \in Nat \ {0}
      /\ all \in SUBSET (1..N) /\ visible \in SUBSET (1..N)
      /\ totalCount \in Nat /\ batch.left \in Nat
      <2>1. maxRows' \in MinWindowSize..MaxWindowSize
            BY <1>0, StepTypes DEF TypeOK
      <2>2. N \in Nat /\ totalCount \in Nat /\ batch.left \in Nat
            BY <1>0 DEF TypeOK
      <2>3. QED  BY <1>0, <2>1, <2>2, WindowPositive DEF TypeOK
<1>2. /\ all \subseteq SinceClear /\ visible \subseteq SinceClear
      /\ \A e \in DOMAIN display : display[e] \subseteq SinceClear
      BY <1>0 DEF ClearedStayCleared
<1>3. ASSUME NEW n \in 1..MaxBatch, BatchStart(n) PROVE ClearedStayCleared'
      <2>1. /\ all' = all /\ visible' = visible /\ display' = display /\ kind' = kind
            BY <1>3 DEF BatchStart, model
      <2>2. batch.left = 0  BY <1>0, <1>3 DEF BatchStart, Idle, BatchSync, NoBatch
      <2>3. totalCount' - batch'.left = totalCount - batch.left
            BY <1>1, <1>3, <2>2, BoundsAssumption DEF BatchStart
      <2>4. SinceClear' = SinceClear  BY <2>1, <2>3 DEF SinceClear
      <2>5. QED  BY <1>2, <2>1, <2>4 DEF ClearedStayCleared
<1>4. ASSUME NEW k \in Kinds, AddEntry(k) PROVE ClearedStayCleared'
      <2> DEFINE e == N + 1
      <2>1. /\ Len(kind') = e /\ all' = Trim(all \cup {e}, maxRows) /\ display' = display
            /\ visible' = visible \/ visible' = Trim(visible \cup {e}, maxRows)
            /\ totalCount' = totalCount /\ batch'.left = batch.left - 1
            BY <1>0, <1>4 DEF AddEntry, Shown, TypeOK, ui
      <2>2. SinceClear \cup {e} \subseteq SinceClear'
            BY <1>0, <1>1, <2>1 DEF SinceClear, BatchSync
      <2>3. all \cup {e} \in SUBSET (1..e) /\ visible \cup {e} \in SUBSET (1..e) /\ e \in Nat
            <3>1. e \in Nat /\ 1..N \subseteq 1..e /\ e \in 1..e  BY <1>1
            <3>2. QED  BY <1>1, <3>1
      <2> HIDE DEF e
      <2>4. all' \subseteq all \cup {e} /\ visible' \subseteq visible \cup {e}
            BY <1>1, <2>1, <2>3, TrimProperties
      <2>5. QED  BY <1>2, <2>1, <2>2, <2>4 DEF ClearedStayCleared
<1>5. ASSUME kind' = kind, batch' = batch, totalCount' = totalCount
      PROVE  SinceClear' = SinceClear
      BY <1>5 DEF SinceClear
<1>6. ASSUME BatchEnd PROVE ClearedStayCleared'
      <2>1. all' = all /\ visible' = visible /\ kind' = kind /\ totalCount' = totalCount
            /\ batch.left = 0 /\ batch'.left = 0
            BY <1>6 DEF BatchEnd, NoBatch
      <2>2. SinceClear' = SinceClear  BY <2>1 DEF SinceClear
      <2>3. display' = display \/ display' = DisplayOf(visible, filter, collapse)
            BY <1>6 DEF BatchEnd
      <2>4. \A e \in DOMAIN display' : display'[e] \subseteq SinceClear
            BY <1>1, <1>2, <2>3, DisplayShape
      <2>5. QED  BY <1>2, <2>1, <2>2, <2>4 DEF ClearedStayCleared
<1>7. ASSUME Rebuilds PROVE ClearedStayCleared'
      <2>1. SinceClear' = SinceClear /\ all' = all  BY <1>5, <1>7 DEF Rebuilds
      <2>2. visible' = Matching(all, filter')  BY <1>7 DEF Rebuilds
      <2>3. visible' \subseteq all  BY <2>2 DEF Matching
      <2> DEFINE f == filter'
                 c == collapse'
      <2>4. display' = DisplayOf(visible', f, c)  BY <1>7 DEF Rebuilds
      <2> HIDE DEF f, c
      <2>5. visible' \in SUBSET (1..N)  BY <1>1, <2>3
      <2>6. \A e \in DOMAIN display' : display'[e] \subseteq visible'
            BY <1>1, <2>4, <2>5, DisplayShape
      <2>7. QED  BY <1>2, <2>1, <2>3, <2>6 DEF ClearedStayCleared
<1>8. ASSUME Empties PROVE ClearedStayCleared'
      <2>1. all' = {} /\ visible' = {} /\ DOMAIN display' = {}
            BY <1>8, EmptyDisplay DEF Empties
      <2>2. QED  BY <2>1 DEF ClearedStayCleared
<1>9. ASSUME Resizes PROVE ClearedStayCleared'
      <2> DEFINE n == maxRows'
      <2>1. /\ all' = Trim(all, n) /\ visible' = Trim(visible, n) /\ n \in Nat \ {0}
            /\ display' = display \/ display' = DisplayOf(visible', filter, collapse)
            /\ SinceClear' = SinceClear
            BY <1>1, <1>5, <1>9 DEF Resizes
      <2> HIDE DEF n
      <2>2. all' \subseteq all /\ visible' \subseteq visible
            BY <1>1, <2>1, TrimProperties
      <2>3. visible' \in SUBSET (1..N)  BY <1>1, <2>2
      <2>4. \A e \in DOMAIN display' : display'[e] \subseteq SinceClear
            <3>1. CASE display' = display  BY <1>2, <3>1
            <3>2. CASE display' = DisplayOf(visible', filter, collapse)
                  BY <1>1, <1>2, <2>2, <2>3, <3>2, DisplayShape
            <3>3. QED  BY <2>1, <3>1, <3>2
      <2>5. QED  BY <1>2, <2>1, <2>2, <2>4 DEF ClearedStayCleared
<1>10. ASSUME Recollapses PROVE ClearedStayCleared'
      <2>1. SinceClear' = SinceClear /\ all' = all /\ visible' = visible
            BY <1>5, <1>10 DEF Recollapses
      <2> DEFINE c == collapse'
      <2>2. display' = DisplayOf(visible, filter, c)  BY <1>10 DEF Recollapses
      <2> HIDE DEF c
      <2>3. \A e \in DOMAIN display' : display'[e] \subseteq visible
            BY <1>1, <2>2, DisplayShape
      <2>4. QED  BY <1>2, <2>1, <2>3 DEF ClearedStayCleared
<1>11. ASSUME Pauses PROVE ClearedStayCleared'
      <2>1. SinceClear' = SinceClear /\ all' = all /\ visible' = visible /\ display' = display
            BY <1>5, <1>11 DEF Pauses
      <2>2. QED  BY <1>2, <2>1 DEF ClearedStayCleared
<1>12. QED
      BY <1>0, <1>3, <1>4, <1>6, <1>7, <1>8, <1>9, <1>10, <1>11, StepForms

\* The list passes the filter, and while live it has no holes.
LEMMA StepTable == IInv /\ Next => (NoHoles /\ VisiblePasses)'
<1> DEFINE Goal == NoHoles /\ VisiblePasses
           N == Len(kind)
<1> SUFFICES ASSUME IInv, Next PROVE Goal'  OBVIOUS
<1>0. TypeOK /\ BatchSync /\ NoHoles /\ VisiblePasses  BY DEF IInv
<1>1. /\ N \in Nat /\ maxRows \in Nat \ {0} /\ maxRows' \in Nat \ {0}
      /\ all \in SUBSET (1..N) /\ visible \in SUBSET (1..N)
      <2>1. maxRows' \in MinWindowSize..MaxWindowSize
            BY <1>0, StepTypes DEF TypeOK
      <2>2. QED  BY <1>0, <2>1, WindowPositive DEF TypeOK
<1>2. ASSUME kind' = kind, all' = all, visible' = visible, filter' = filter, paused' = paused
      PROVE  Goal'
      BY <1>0, <1>2 DEF NoHoles, VisiblePasses, Matching
<1>3. ASSUME NEW k \in Kinds, AddEntry(k) PROVE Goal'
      <2> DEFINE e == N + 1
      <2>1. /\ Len(kind') = e /\ kind'[e] = k /\ \A x \in 1..N : kind'[x] = kind[x]
            /\ all' = Trim(all \cup {e}, maxRows)
            /\ filter' = filter /\ paused' = paused
            /\ batch.paused = paused
            BY <1>0, <1>3 DEF AddEntry, Shown, TypeOK, ui, BatchSync
      <2>2. /\ e \in Nat /\ all \cup {e} \in SUBSET (1..e) /\ visible \cup {e} \in SUBSET (1..e)
            /\ \A x \in all \cup visible : x \in 1..N /\ x < e
            <3>1. e \in Nat /\ 1..N \subseteq 1..e /\ e \in 1..e /\ \A x \in 1..N : x < e
                  BY <1>1
            <3>2. QED  BY <1>1, <3>1
      <2>3. CASE ~paused /\ Matches(filter, k)
            <3>1. visible' = Trim(visible \cup {e}, maxRows)
                  BY <1>3, <2>1, <2>3 DEF AddEntry, Shown
            <3> HIDE DEF e, N
            <3>2. /\ visible' \subseteq visible \cup {e} /\ visible' # {}
                  /\ \A x \in visible' : \A y \in visible \cup {e} : y >= x => y \in visible'
                  /\ all' \subseteq all \cup {e}
                  BY <1>1, <2>1, <2>2, <3>1, TrimProperties
            <3>3. VisiblePasses'
                  BY <1>0, <1>1, <2>1, <2>2, <2>3, <3>2 DEF VisiblePasses
            <3>4. e \in visible'
                  <4>1. PICK x \in visible' : TRUE  BY <3>2
                  <4>2. x \in visible \cup {e} /\ x \in Nat /\ e >= x  BY <2>2, <3>2, <4>1
                  <4>3. QED  BY <3>2, <4>2
            <3>5. ASSUME NEW y \in Matching(all, filter)', y \notin visible'
                  PROVE  \A x \in visible' : y < x
                  <4>1. y \in all' /\ Matches(filter, kind'[y])  BY <2>1 DEF Matching
                  <4>2. y \in all /\ y # e  BY <3>2, <3>4, <3>5, <4>1
                  <4>3. y \in Matching(all, filter)
                        BY <1>1, <2>1, <2>2, <4>1, <4>2 DEF Matching
                  <4>4. SUFFICES ASSUME NEW x \in visible' PROVE y < x  OBVIOUS
                  <4>5. x \in visible \cup {e} /\ x \in Nat /\ y \in Nat /\ y < e
                        BY <2>2, <3>2, <4>2
                  <4>6. CASE y \in visible
                        BY <3>2, <3>5, <4>5, <4>6
                  <4>7. CASE y \notin visible
                        BY <1>0, <2>3, <4>3, <4>5, <4>7 DEF NoHoles
                  <4>8. QED  BY <4>6, <4>7
            <3>6. QED  BY <3>2, <3>3, <3>5 DEF NoHoles
      <2>4. CASE ~(~paused /\ Matches(filter, k))
            <3>1. visible' = visible
                  BY <1>3, <2>1, <2>4 DEF AddEntry, Shown
            <3> HIDE DEF e, N
            <3>2. all' \subseteq all \cup {e}
                  BY <1>1, <2>1, <2>2, TrimProperties
            <3>3. VisiblePasses'
                  BY <1>0, <2>1, <2>2, <3>1 DEF VisiblePasses
            <3>4. NoHoles'
                  <4>1. SUFFICES ASSUME ~paused, NEW y \in Matching(all, filter)', y \notin visible
                                 PROVE  visible # {} /\ \A x \in visible : y < x
                        BY <2>1, <3>1 DEF NoHoles
                  <4>2. y \in all' /\ Matches(filter, kind'[y])  BY <2>1 DEF Matching
                  <4>3. y \in all  BY <2>1, <2>4, <3>2, <4>1, <4>2
                  <4>4. y \in Matching(all, filter)
                        BY <2>1, <2>2, <4>2, <4>3 DEF Matching
                  <4>5. QED  BY <1>0, <4>1, <4>4 DEF NoHoles
            <3>5. QED  BY <3>3, <3>4
      <2>5. QED  BY <2>3, <2>4
<1>4. ASSUME Rebuilds PROVE Goal'
      BY <1>4 DEF Rebuilds, NoHoles, VisiblePasses, Matching
<1>5. ASSUME Empties PROVE Goal'
      BY <1>5 DEF Empties, NoHoles, VisiblePasses, Matching
<1>6. ASSUME Resizes PROVE Goal'
      <2> DEFINE n == maxRows'
      <2>1. /\ all' = Trim(all, n) /\ visible' = Trim(visible, n) /\ n \in Nat \ {0}
            /\ kind' = kind /\ filter' = filter /\ paused' = paused
            BY <1>1, <1>6 DEF Resizes
      <2> HIDE DEF n, N
      <2>2. /\ all' \subseteq all /\ visible' \subseteq visible
            /\ visible # {} => visible' # {}
            /\ \A x \in visible' : \A y \in visible : y >= x => y \in visible'
            BY <1>1, <2>1, TrimProperties
      <2>3. VisiblePasses'  BY <1>0, <2>1, <2>2 DEF VisiblePasses
      <2>4. NoHoles'
            <3>1. SUFFICES ASSUME ~paused, NEW y \in Matching(all, filter)', y \notin visible'
                           PROVE  visible' # {} /\ \A x \in visible' : y < x
                  BY <2>1 DEF NoHoles
            <3>2. y \in Matching(all, filter) /\ y \in Nat
                  BY <1>1, <2>1, <2>2 DEF Matching
            <3>3. CASE y \in visible
                  <4>1. ASSUME NEW x \in visible' PROVE y < x
                        <5>1. x \in Nat /\ ~(y >= x)  BY <1>1, <2>2, <3>1, <3>3
                        <5>2. QED  BY <3>2, <5>1
                  <4>2. QED  BY <2>2, <3>3, <4>1
            <3>4. CASE y \notin visible
                  BY <1>0, <2>2, <3>1, <3>2, <3>4 DEF NoHoles
            <3>5. QED  BY <3>3, <3>4
      <2>5. QED  BY <2>3, <2>4
<1>7. ASSUME Pauses PROVE Goal'
      BY <1>0, <1>7 DEF Pauses, NoHoles, VisiblePasses
<1>8. QED
      BY <1>0, <1>2, <1>3, <1>4, <1>5, <1>6, <1>7, StepForms
         DEF BatchStart, BatchEnd, Recollapses, model

\* A step keeps the rows exact: it rebuilds them, leaves them and what is listed
\* alone, or marks the batch, which rebuilds them at its end.
LEMMA StepRows == IInv /\ Next => RowsAccountForVisible'
<1> SUFFICES ASSUME IInv, Next PROVE RowsAccountForVisible'  OBVIOUS
<1>0. /\ TypeOK /\ BatchSync /\ RowsAccountForVisible /\ TypeOK'
      BY StepTypes DEF IInv
<1>1. /\ Len(kind) \in Nat /\ visible \in SUBSET (1..Len(kind))
      /\ all \in SUBSET (1..Len(kind)) /\ kind \in Seq(Kinds)
      /\ DOMAIN display \subseteq 1..Len(kind)
      /\ \A e \in DOMAIN display : display[e] \subseteq 1..Len(kind)
      /\ collapse \in BOOLEAN /\ collapse' \in BOOLEAN
      BY <1>0 DEF TypeOK
<1>2. ~batch.changed => Accounts(display, visible, filter, collapse)
      BY <1>0 DEF RowsAccountForVisible, Accounts
<1>3. RowsAccountForVisible' <=>
         (~batch'.changed => Accounts(display, visible, filter, collapse)')
      BY DEF RowsAccountForVisible, Accounts
<1>4. ASSUME UNCHANGED <<kind, display, visible, filter, collapse>>, ~batch.changed
      PROVE  RowsAccountForVisible'
      <2>1. Accounts(display, visible, filter, collapse)'  BY <1>2, <1>4 DEF Accounts
      <2>2. QED  BY <1>3, <2>1
<1>5. ASSUME kind' = kind, visible' \in SUBSET (1..Len(kind)),
             display' = DisplayOf(visible', filter', collapse')
      PROVE  RowsAccountForVisible'
      <2>1. Accounts(DisplayOf(visible', filter', collapse'), visible', filter', collapse')
            BY <1>1, <1>5, DisplayAccounts
      <2>2. Accounts(display', visible', filter', collapse')  BY <1>5, <2>1
      <2>3. Accounts(display, visible, filter, collapse)'  BY <1>5, <2>2 DEF Accounts
      <2>4. QED  BY <1>3, <2>3
<1>6. ASSUME NEW n \in 1..MaxBatch, BatchStart(n) PROVE RowsAccountForVisible'
      <2>1. ~batch.changed  BY <1>0, <1>6 DEF BatchStart, BatchSync, Idle, NoBatch
      <2>2. QED  BY <1>4, <1>6, <2>1 DEF BatchStart, model
<1>7. ASSUME NEW k \in Kinds, AddEntry(k) PROVE RowsAccountForVisible'
      <2>1. /\ kind' = Append(kind, k) /\ UNCHANGED <<display, filter, collapse>>
            /\ batch'.changed \/ (~batch.changed /\ visible' = visible)
            BY <1>0, <1>7 DEF AddEntry, TypeOK
      <2>2. CASE batch'.changed  BY <1>3, <2>2
      <2>3. CASE ~batch.changed /\ visible' = visible
            <3>1. \A x \in 1..Len(kind) : kind'[x] = kind[x]  BY <1>1, <2>1
            <3>2. /\ \A e \in DOMAIN display : kind'[e] = kind[e]
                  /\ \A e \in DOMAIN display : \A x \in display[e] : kind'[x] = kind[x]
                  BY <1>1, <3>1
            <3>3. Accounts(display, visible, filter, collapse)'
                  <4>1. Accounts(display, visible, filter, collapse)  BY <1>2, <2>3
                  <4> DEFINE d == display
                             K == kind'
                  <4>2. /\ UNION {d[e] : e \in DOMAIN d} = visible
                        /\ \A e \in DOMAIN d : e \in d[e]
                        /\ \A x, e \in DOMAIN d : x # e => d[x] \cap d[e] = {}
                        BY <4>1 DEF Accounts
                  <4>3. \A e \in DOMAIN d : \A x \in d[e] :
                           x # e => /\ e < x /\ Key[K[x]] = Key[K[e]]
                                    /\ K[x] \in filter.noise /\ K[e] \in filter.noise
                        <5>1. \A e \in DOMAIN d : \A x \in d[e] :
                                 x # e => /\ e < x /\ Key[kind[x]] = Key[kind[e]]
                                          /\ kind[x] \in filter.noise
                                          /\ kind[e] \in filter.noise
                              BY <4>1 DEF Accounts
                        <5>2. QED  BY <3>2, <5>1
                  <4>4. collapse => \A x, e \in DOMAIN d :
                           (/\ x # e /\ K[x] \in filter.noise /\ K[e] \in filter.noise)
                               => Key[K[x]] # Key[K[e]]
                        <5>1. collapse => \A x, e \in DOMAIN d :
                                 (/\ x # e /\ kind[x] \in filter.noise
                                  /\ kind[e] \in filter.noise)
                                     => Key[kind[x]] # Key[kind[e]]
                              BY <4>1 DEF Accounts
                        <5>2. QED  BY <3>2, <5>1
                  <4> HIDE DEF d, K
                  <4>5. /\ display' = d /\ visible' = visible /\ kind' = K
                        /\ filter' = filter /\ collapse' = collapse
                        BY <2>1, <2>3 DEF d, K
                  <4>6. QED  BY <4>2, <4>3, <4>4, <4>5 DEF Accounts
            <3>4. QED  BY <1>3, <3>3
      <2>4. QED  BY <2>1, <2>2, <2>3
<1>8. ASSUME BatchEnd PROVE RowsAccountForVisible'
      <2>1. UNCHANGED <<kind, visible, filter, collapse>>  BY <1>8 DEF BatchEnd
      <2>2. CASE batch.changed
            BY <1>1, <1>5, <1>8, <2>1, <2>2 DEF BatchEnd
      <2>3. CASE ~batch.changed
            BY <1>4, <1>8, <2>1, <2>3 DEF BatchEnd
      <2>4. QED  BY <2>2, <2>3
<1>9. ASSUME Idle PROVE ~batch.changed  BY <1>0, <1>9 DEF Idle, BatchSync, NoBatch
<1>10. ASSUME Rebuilds PROVE RowsAccountForVisible'
       <2>1. visible' \in SUBSET (1..Len(kind))
             BY <1>1, <1>10 DEF Rebuilds, Matching
       <2>2. QED  BY <1>5, <1>10, <2>1 DEF Rebuilds
<1>11. ASSUME Empties PROVE RowsAccountForVisible'
       <2>1. visible' = {} /\ DOMAIN display' = {}
             BY <1>11, EmptyDisplay DEF Empties
       <2>2. QED  BY <2>1 DEF RowsAccountForVisible
<1>12. ASSUME Resizes PROVE RowsAccountForVisible'
       <2>1. kind' = kind /\ filter' = filter /\ collapse' = collapse /\ Idle
             /\ visible' = Trim(visible, maxRows')
             BY <1>12 DEF Resizes
       <2>2. CASE Cardinality(visible) > maxRows'
             <3>1. display' = DisplayOf(visible', filter', collapse')
                   BY <1>12, <2>1, <2>2 DEF Resizes
             <3>2. visible' \in SUBSET (1..Len(kind))
                   BY <1>0, <2>1 DEF TypeOK
             <3>3. QED  BY <1>5, <2>1, <3>1, <3>2
       <2>3. CASE ~(Cardinality(visible) > maxRows')
             BY <1>4, <1>9, <1>12, <2>1, <2>3 DEF Resizes, Trim
       <2>4. QED  BY <2>2, <2>3
<1>13. ASSUME Recollapses PROVE RowsAccountForVisible'
       BY <1>1, <1>5, <1>13 DEF Recollapses
<1>14. ASSUME Pauses PROVE RowsAccountForVisible'
       BY <1>4, <1>9, <1>14 DEF Pauses
<1>15. QED
       BY <1>0, <1>6, <1>7, <1>8, <1>10, <1>11, <1>12, <1>13, <1>14, StepForms

\* The invariant is inductive.
LEMMA StepInv == IInv /\ [Next]_vars => IInv'
<1> SUFFICES ASSUME IInv, [Next]_vars PROVE IInv'  OBVIOUS
<1>1. CASE Next
      <2>1. TypeOK'  BY StepTypes DEF IInv
      <2>2. QED
            BY <1>1, <2>1, StepBatchSync, StepSizes, StepCapture, StepCleared, StepTable,
               StepRows DEF IInv
<1>2. CASE UNCHANGED vars
      <2>1. UNCHANGED <<kind, all, visible, display, filter, collapse, maxRows, paused,
                        totalCount, published, batch>>
            BY <1>2 DEF vars, model, ui
      <2>2. TypeOK'  BY <1>2, StepTypes DEF IInv
      <2>3. /\ WindowBounded' /\ RowsPublished' /\ RowsListed' /\ BatchSync'
            /\ CaptureContiguous' /\ NoHoles' /\ VisiblePasses'
            BY <2>1 DEF IInv, WindowBounded, RowsPublished, RowsListed, BatchSync,
                        CaptureContiguous, NoHoles, VisiblePasses, Matching
      <2>4. ClearedStayCleared'
            BY <2>1 DEF IInv, ClearedStayCleared, SinceClear
      <2>5. RowsAccountForVisible'
            BY <2>1 DEF IInv, RowsAccountForVisible
      <2>6. QED  BY <2>2, <2>3, <2>4, <2>5 DEF IInv
<1>3. QED  BY <1>1, <1>2

\* The conjunction the theorems below take their properties from.
THEOREM Invariant == Spec => []IInv
BY InitInv, StepInv, PTL DEF Spec

\* Neither slice, and so no table, outgrows the window, for every window size
\* and every order of batches, pauses, filters, clears and resizes.
THEOREM WindowIsBounded == Spec => []WindowBounded
<1>1. IInv => WindowBounded  BY DEF IInv
<1>2. QED  BY <1>1, Invariant, PTL

\* The unfiltered slice is always a gapless run ending at the last entry.
THEOREM CaptureIsContiguous == Spec => []CaptureContiguous
<1>1. IInv => CaptureContiguous  BY DEF IInv
<1>2. QED  BY <1>1, Invariant, PTL

\* No entry ingested before a clear is shown or held again.
THEOREM ClearIsFinal == Spec => []ClearedStayCleared
<1>1. IInv => ClearedStayCleared  BY DEF IInv
<1>2. QED  BY <1>1, Invariant, PTL

\* A live table lists every held entry that passes the filter and is not older
\* than all it lists.
THEOREM TableHasNoHoles == Spec => []NoHoles
<1>1. IInv => NoHoles  BY DEF IInv
<1>2. QED  BY <1>1, Invariant, PTL

\* Everything listed passes the filter in force.
THEOREM ListPassesFilter == Spec => []VisiblePasses
<1>1. IInv => VisiblePasses  BY DEF IInv
<1>2. QED  BY <1>1, Invariant, PTL

\* Between two handlers every listed entry is in exactly one row, and a row of
\* several is all the listed noise with one key, whether collapsing is on or off.
THEOREM RowsAreExact == Spec => []RowsAccountForVisible
<1>1. IInv => RowsAccountForVisible  BY DEF IInv
<1>2. QED  BY <1>1, Invariant, PTL

\* walk never has a row count other than the model's.
THEOREM RowCountIsPublished == Spec => []RowsPublished
<1>1. IInv => RowsPublished  BY DEF IInv
<1>2. QED  BY <1>1, Invariant, PTL

\* A batch that began paused changes nothing the table paints, however many
\* entries it has.
THEOREM PauseFreezesDisplay == Spec => PausedFrozen
<1> DEFINE A == batch.running /\ batch.paused => UNCHANGED <<visible, display, published>>
<1>1. IInv /\ [Next]_vars => [A]_vars
      <2> SUFFICES ASSUME IInv, Next, batch.running, batch.paused
                   PROVE  UNCHANGED <<visible, display, published>>
            OBVIOUS
      <2>1. ~batch.changed /\ TypeOK  BY DEF IInv, BatchSync
      <2>2. ASSUME NEW k \in Kinds, AddEntry(k) PROVE UNCHANGED <<visible, display, published>>
            BY <2>2 DEF AddEntry, Shown, ui
      <2>3. ASSUME BatchEnd PROVE UNCHANGED <<visible, display, published>>
            BY <2>1, <2>3 DEF BatchEnd
      <2>4. ~Idle  BY DEF Idle
      <2>5. QED
            BY <2>1, <2>2, <2>3, <2>4, StepForms
               DEF BatchStart, Rebuilds, Empties, Resizes, Recollapses, Pauses
<1>2. QED  BY <1>1, Invariant, PTL DEF Spec, PausedFrozen

=============================================================================
