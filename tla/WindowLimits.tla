---------------------------- MODULE WindowLimits ----------------------------
(***************************************************************************)
(* The limits of the event window (src/main.go): the clamp every requested *)
(* size goes through, and how much a bulk trim keeps.                      *)
(***************************************************************************)
EXTENDS Integers, FiniteSets

CONSTANTS
    MinWindowSize,
    MaxWindowSize

ASSUME LimitsAssumption == /\ MinWindowSize \in Nat \ {0}
                           /\ MaxWindowSize \in Nat
                           /\ MinWindowSize <= MaxWindowSize

\* An operator named ...Mutant is a plausible mistake in the one after it; no
\* specification uses it.
ClampMutant(n) == IF n < MinWindowSize THEN MinWindowSize ELSE n

Clamp(n) == IF n < MinWindowSize THEN MinWindowSize
            ELSE IF n > MaxWindowSize THEN MaxWindowSize ELSE n

\* int(float64(n) * trimKeepFraction), at least 1.
KeepRows(n) == IF (9 * n) \div 10 < 1 THEN 1 ELSE (9 * n) \div 10

\* (keeps the head of the slice)
NewestMutant(S, k) == {e \in S : Cardinality({x \in S : x <= e}) <= k}

\* trimOldest: the last k entries of S.
Newest(S, k) == {e \in S : Cardinality({x \in S : x >= e}) <= k}

=============================================================================
