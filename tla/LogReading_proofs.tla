-------------------------- MODULE LogReading_proofs --------------------------
(***************************************************************************)
(* What a pull source hands over, what it misses, and what of it the       *)
(* window of history mode ends up with.  The argument has three parts:     *)
(* the marks a poll leaves behind (cursor, missed, seeded), the events in  *)
(* the source's hand or sent, and the way of the sent ones into the window.*)
(***************************************************************************)
EXTENDS LogReading, SequenceLemmas, SequenceTheorems, FiniteSetTheorems, TLAPS

-----------------------------------------------------------------------------
(* Finite sets of integers and their maximum.                               *)

\* A finite set of integers that is not empty has a maximum.
LEMMA MaxOfFinite ==
    ASSUME NEW S \in SUBSET Int, IsFiniteSet(S), S # {}
    PROVE  Max(S) \in S /\ \A y \in S : Max(S) >= y
<1> DEFINE c == Cardinality(S)
<1>1. c \in Nat \ {0}  BY FS_CardinalityType, FS_EmptySet
<1>2. PICK x \in S : Rank(S, x) = c
      <2>1. c \in 1..c  BY <1>1
      <2>2. QED  BY <2>1, Ranks
<1>3. {y \in S : y <= x} = S
      <2> DEFINE D == {y \in S : y <= x}
      <2>1. D \in SUBSET S /\ Cardinality(D) = c  BY <1>2 DEF Rank
      <2> HIDE DEF D
      <2>2. D = S  BY <2>1, FS_Subset
      <2>3. QED  BY <2>2 DEF D
<1>4. \A y \in S : x >= y
      <2>1. ASSUME NEW y \in S  PROVE x >= y
            <3>1. y <= x  BY <1>3
            <3>2. QED  BY <3>1
      <2>2. QED  BY <2>1
<1>5. QED  BY <1>4 DEF Max

LEMMA RangeFinite ==
    ASSUME NEW a \in Int, NEW b \in Int, NEW S \in SUBSET (a..b)
    PROVE  IsFiniteSet(S) /\ S \in SUBSET Int
<1>1. IsFiniteSet(S)  BY FS_Interval, FS_Subset
<1>2. QED  BY <1>1

\* The newest of an interval are an interval that ends where it ends,
LEMMA NewestOfInterval ==
    ASSUME NEW a \in Nat \ {0}, NEW h \in Nat, NEW k \in Nat
    PROVE  \E m \in Nat \ {0} : Newest(a..h, k) = m..h
<1> DEFINE m == IF h - k + 1 > a THEN h - k + 1 ELSE a
<1>1. m \in Nat \ {0} /\ m >= a /\ m >= h - k + 1  OBVIOUS
<1>2. ASSUME NEW e \in a..h
      PROVE  Cardinality({x \in a..h : x >= e}) <= k <=> e >= m
      <2>1. {x \in a..h : x >= e} = e..h  OBVIOUS
      <2>2. Cardinality(e..h) = h - e + 1
            <3>1. e \in Int /\ h \in Int /\ ~(e > h)  OBVIOUS
            <3>2. QED  BY <3>1, FS_Interval
      <2>3. h - e + 1 <= k <=> e >= m  OBVIOUS
      <2>4. QED  BY <2>1, <2>2, <2>3
<1>3. {e \in a..h : e >= m} = m..h  BY <1>1
<1> HIDE DEF m
<1>4. Newest(a..h, k) = {e \in a..h : e >= m}  BY <1>2 DEF Newest
<1>5. QED  BY <1>1, <1>3, <1>4

\* whose ascending order is plain counting.
LEMMA AscendingInterval ==
    ASSUME NEW m \in Nat \ {0}, NEW h \in Nat
    PROVE  LET s == Ascending(m..h)
           IN  \A i \in 1..Len(s) : s[i] = h - Len(s) + i
<1> DEFINE s == Ascending(m..h)
           c == Cardinality(m..h)
<1>1. /\ c = IF m > h THEN 0 ELSE h - m + 1
      /\ IsFiniteSet(m..h) /\ m..h \in SUBSET Int
      BY FS_Interval
<1>2. /\ s \in Seq(m..h) /\ Len(s) = c
      /\ \A k \in 1..c : Rank(m..h, s[k]) = k
      BY <1>1, AscendingSorted
<1>3. \A x \in m..h : Rank(m..h, x) = x - m + 1
      <2>1. ASSUME NEW x \in m..h  PROVE Rank(m..h, x) = x - m + 1
            <3>1. {y \in m..h : y <= x} = m..x  OBVIOUS
            <3>2. Cardinality(m..x) = x - m + 1
                  <4>1. m \in Int /\ x \in Int /\ ~(m > x)  OBVIOUS
                  <4>2. QED  BY <4>1, FS_Interval
            <3>3. QED  BY <3>1, <3>2 DEF Rank
      <2>2. QED  BY <2>1
<1> HIDE DEF s, c
<1>4. ASSUME NEW i \in 1..Len(s)  PROVE s[i] = h - Len(s) + i
      <2>1. s[i] \in m..h  BY <1>2, ElementOfSeq
      <2>2. s[i] - m + 1 = i  BY <1>2, <1>3, <2>1
      <2>3. c = h - m + 1  BY <1>1, <2>1
      <2>4. s[i] \in Int /\ i \in Int  BY <2>1
      <2>5. Len(s) = h - m + 1  BY <1>2, <2>3
      <2>6. QED  BY <2>2, <2>4, <2>5
<1>5. QED  BY <1>4 DEF s

-----------------------------------------------------------------------------
(* The invariant.                                                          *)

\* An event is stamped neither in the future, nor, by the order of RecordIds,
\* more than Lag before an earlier one.
Stamps ==
    /\ \A r \in 1..Len(log) : log[r] \in 0..clock
    /\ \A x, r \in 1..Len(log) : x < r => log[r] >= log[x] - Lag

\* A source that has not polled yet knows and misses nothing.
FirstPoll == cursor.first => /\ cursor.rid = 0 /\ cursor.time = NoTime
                             /\ seeded = NoTime /\ DOMAIN missed = {}

\* An event that the RecordId mark leaves to later polls is within reach of the
\* time mark too, unless the end of an empty first poll has been made that mark.
AheadInTime ==
    ~cursor.first => \A r \in 1..Len(log) : r > cursor.rid =>
        \/ log[r] >= cursor.time - Guard
        \/ seeded # NoTime /\ log[r] < seeded - Guard

\* A source reads with empty hands, and in history mode once.
ReadsOnce ==
    /\ phase # "sending" => hand = << >>
    /\ HistoryMode /\ phase \in {"reading", "queried"} => cursor.first /\ sent = << >>

Taken == sent \o hand

\* A poll has taken nothing above its RecordId mark.
BelowMark ==
    kind # "evtQuery" => \A i \in 1..Len(Taken) : Taken[i] <= cursor.rid

\* A history read takes the last events before its query, without a gap.
TakesLatest ==
    HistoryMode /\ (phase = "sending" \/ (phase = "off" /\ ~stopping)) =>
        \A i \in 1..Len(Taken) : Taken[i] = horizon - Len(Taken) + i

\* In history mode the window is the end of what was there at the start of this
\* source and of what it has sent since, without what is still in the feed; what
\* came before the window was trimmed.
Follows(before, old) ==
    /\ Len(old) = leftover
    /\ (before \o window) \o feed = old \o sent
    /\ Len(window) <= maxRows
    /\ before # << >> => /\ Len(window) >= KeepRows(maxRows)
                         /\ Len(before) + Len(window) > maxRows

WindowFollows ==
    HistoryMode => IF stopping THEN window = << >>
                   ELSE \E before, old \in Seq(Nat) : Follows(before, old)

Marks == Stamps /\ FirstPoll /\ AheadInTime /\ MissedOnlyAtStart
Hands == ReadsOnce /\ OncePerSource /\ BelowMark /\ TakesLatest

IInv  == TypeOK /\ Marks /\ Hands /\ WindowFollows

-----------------------------------------------------------------------------
(* The data of a read.                                                     *)

Cursors == [rid : 0..Len(log), time : {NoTime} \cup 0..clock, first : BOOLEAN]

\* TypeOK as single facts.
LEMMA Types ==
    ASSUME TypeOK
    PROVE  /\ log \in Seq(0..MaxClock) /\ Len(log) \in Nat /\ Len(log) <= MaxLog
           /\ clock \in 0..MaxClock /\ clock \in Nat /\ MaxClock \in Nat
           /\ cursor \in Cursors /\ cursor.rid \in 0..Len(log)
           /\ cursor.time \in {NoTime} \cup 0..clock /\ cursor.time \in Int
           /\ cursor.first \in BOOLEAN
           /\ limit \in Nat /\ horizon \in 0..Len(log) /\ horizon \in Nat
           /\ hand \in Seq(1..Len(log)) /\ feed \in Seq(1..Len(log))
           /\ window \in Seq(1..Len(log)) /\ sent \in Seq(1..Len(log))
           /\ maxRows \in Nat \ {0} /\ DOMAIN missed \subseteq 1..Len(log)
           /\ seeded \in {NoTime} \cup 0..clock /\ leftover \in Nat
           /\ Guard \in Nat /\ Lag \in Nat /\ Lag <= Guard /\ Cap \in Nat \ {0}
           /\ Backlog \in Nat /\ MaxLog \in Nat
<1>1. /\ log \in Seq(0..MaxClock) /\ Len(log) <= MaxLog /\ clock \in 0..MaxClock
      /\ cursor \in Cursors /\ limit \in Nat /\ horizon \in 0..Len(log)
      /\ {hand, feed, window, sent} \subseteq Seq(1..Len(log))
      /\ maxRows \in MinWindowSize..MaxWindowSize
      /\ DOMAIN missed \subseteq 1..Len(log)
      /\ seeded \in {NoTime} \cup 0..clock /\ leftover \in Nat
      BY DEF TypeOK, Cursors
<1>2. /\ Guard \in Nat /\ Lag \in Nat /\ Lag <= Guard /\ Cap \in Nat \ {0}
      /\ Backlog \in Nat /\ MaxLog \in Nat /\ MaxClock \in Nat
      /\ MinWindowSize \in Nat \ {0} /\ MaxWindowSize \in Nat
      BY CursorAssumption, LimitsAssumption
<1>3. Len(log) \in Nat  BY <1>1, LenProperties
<1>4. /\ cursor.rid \in 0..Len(log) /\ cursor.time \in {NoTime} \cup 0..clock
      /\ cursor.first \in BOOLEAN
      BY <1>1 DEF Cursors
<1>5. clock \in Nat /\ horizon \in Nat /\ maxRows \in Nat \ {0}  BY <1>1, <1>2, <1>3
<1>6. cursor.time \in Int  BY <1>4, <1>5 DEF NoTime
<1>7. QED  BY <1>1, <1>2, <1>3, <1>4, <1>5, <1>6

\* A query finds events of the log, and after the first run only new ones.
LEMMA FoundFacts ==
    ASSUME TypeOK
    PROVE  /\ Found \in SUBSET (1..horizon) /\ Found \in SUBSET (1..Len(log))
           /\ IsFiniteSet(Found) /\ Found \in SUBSET Int
           /\ ~cursor.first => \A r \in Found : r > cursor.rid
<1>1. horizon \in Nat /\ horizon \in 0..Len(log) /\ Len(log) \in Nat  BY Types
<1>2. Found \in SUBSET (1..horizon)  BY DEF Found, Newest
<1>3. IsFiniteSet(Found) /\ Found \in SUBSET Int
      <2>1. 1 \in Int /\ horizon \in Int  BY <1>1
      <2>2. QED  BY <1>2, <2>1, RangeFinite
<1>4. \A r \in 1..horizon : r \in 1..Len(log)  BY <1>1
<1>5. ~cursor.first => \A r \in Found : r > cursor.rid  BY DEF Found
<1>6. QED  BY <1>2, <1>3, <1>4, <1>5

\* It passes over a new event because it is stamped before the time mark's guard
\* interval, or because Cap newer ones are there.
LEMMA FoundMisses ==
    ASSUME TypeOK, ~cursor.first, NEW r \in ((cursor.rid + 1)..horizon) \ Found
    PROVE  \/ horizon - r >= Cap
           \/ ~(log[r] >= cursor.time - Guard)
<1> DEFINE T == {x \in 1..horizon : log[x] >= cursor.time - Guard}
<1>1. /\ horizon \in Nat /\ cursor.rid \in Nat /\ Cap \in Nat
      /\ r \in Int /\ r > cursor.rid /\ r <= horizon /\ r \in 1..horizon
      <2>1. /\ horizon \in Nat /\ cursor.rid \in 0..Len(log) /\ Cap \in Nat
            /\ Len(log) \in Nat
            BY Types
      <2>2. QED  BY <2>1
<1>2. r \notin Newest(T, Cap)
      <2>1. Found = {x \in Newest(T, Cap) : x > cursor.rid}  BY DEF Found
      <2>2. QED  BY <1>1, <2>1
<1>3. CASE r \in T
      <2> DEFINE U == {x \in T : x >= r}
      <2>1. ~(Cardinality(U) <= Cap)  BY <1>2, <1>3 DEF Newest
      <2>2. U \in SUBSET (r..horizon)  BY <1>1
      <2> HIDE DEF U
      <2>3. IsFiniteSet(r..horizon) /\ Cardinality(r..horizon) = horizon - r + 1
            <3>1. r \in Int /\ horizon \in Int /\ ~(r > horizon)  BY <1>1
            <3>2. QED  BY <3>1, FS_Interval
      <2>4. /\ Cardinality(U) <= Cardinality(r..horizon)
            /\ IsFiniteSet(U) /\ Cardinality(U) \in Nat
            BY <2>2, <2>3, FS_Subset, FS_CardinalityType
      <2>5. horizon - r >= Cap  BY <1>1, <2>1, <2>3, <2>4
      <2>6. QED  BY <2>5
<1>4. CASE r \notin T  BY <1>1, <1>4
<1>5. QED  BY <1>3, <1>4

\* What a poll makes of its marks, R being what the script printed.
PollMarks(R, newest) ==
    /\ R \in SUBSET (1..horizon) /\ R \in SUBSET Int /\ IsFiniteSet(R)
    /\ ~cursor.first => \A r \in R : r > cursor.rid
    /\ newest \in {log[r] : r \in R} \cup {cursor.time}
    /\ newest >= cursor.time /\ \A r \in R : newest >= log[r]
    /\ cursor'.rid \in R \cup {cursor.rid}
    /\ cursor'.rid >= cursor.rid /\ \A r \in R : cursor'.rid >= r
    /\ cursor'.time = IF cursor.first /\ newest = NoTime THEN clock ELSE newest
    /\ cursor'.first = FALSE
    /\ seeded' = IF cursor.first /\ newest = NoTime THEN clock ELSE seeded

LEMMA PollSetsMarks ==
    ASSUME TypeOK, Stamps, NEW R, EndPoll(R)
    PROVE  \E newest \in Int : PollMarks(R, newest)
<1>1. R \in SUBSET (1..horizon) /\ R \in SUBSET Int /\ IsFiniteSet(R)
      /\ (~cursor.first => \A r \in R : r > cursor.rid)
      <2>1. R \in {Found, {}}  BY DEF EndPoll
      <2>2. QED  BY <2>1, FoundFacts, FS_EmptySet
<1>2. /\ horizon \in Nat /\ horizon \in 0..Len(log) /\ Len(log) \in Nat
      /\ clock \in Nat /\ cursor.rid \in 0..Len(log)
      /\ cursor.time \in {NoTime} \cup 0..clock
      BY Types
<1>3. \A r \in R : r \in 1..Len(log) /\ log[r] \in 0..clock
      <2>1. \A r \in 1..horizon : r \in 1..Len(log)  BY <1>2
      <2>2. QED  BY <1>1, <2>1 DEF Stamps
<1> DEFINE A == {log[r] : r \in R} \cup {cursor.time}
           B == R \cup {cursor.rid}
<1>4. A \in SUBSET ((-1)..clock)  BY <1>2, <1>3 DEF NoTime
<1>5. IsFiniteSet(A) /\ A \in SUBSET Int /\ A # {}
      <2>1. -1 \in Int /\ clock \in Int /\ A # {}  BY <1>2
      <2> HIDE DEF A
      <2>2. IsFiniteSet(A) /\ A \in SUBSET Int  BY <1>4, <2>1, RangeFinite
      <2>3. QED  BY <2>1, <2>2
<1>6. B \in SUBSET (0..Len(log))  BY <1>2, <1>3
<1>7. IsFiniteSet(B) /\ B \in SUBSET Int /\ B # {}
      <2>1. 0 \in Int /\ Len(log) \in Int  BY <1>2
      <2>2. IsFiniteSet(B) /\ B \in SUBSET Int  BY <1>6, <2>1, RangeFinite
      <2>3. QED  BY <2>2
<1>8. Max(A) \in A /\ (\A y \in A : Max(A) >= y) /\ Max(A) \in Int
      <2> HIDE DEF A
      <2>1. Max(A) \in A /\ \A y \in A : Max(A) >= y  BY <1>5, MaxOfFinite
      <2>2. QED  BY <1>5, <2>1
<1>9. Max(B) \in B /\ \A y \in B : Max(B) >= y
      <2> HIDE DEF B
      <2>1. QED  BY <1>7, MaxOfFinite
<1>10. /\ cursor' = [rid   |-> Max(B),
                     time  |-> IF cursor.first /\ Max(A) = NoTime THEN clock ELSE Max(A),
                     first |-> FALSE]
       /\ seeded' = IF cursor.first /\ Max(A) = NoTime THEN clock ELSE seeded
       BY DEF EndPoll
<1> DEFINE n == Max(A)
           m == Max(B)
<1>11. /\ n \in {log[r] : r \in R} \cup {cursor.time} /\ n >= cursor.time
       /\ \A r \in R : n >= log[r]
       BY <1>8
<1>12. /\ m \in R \cup {cursor.rid} /\ m >= cursor.rid
       /\ \A r \in R : m >= r
       BY <1>9
<1>13. n \in Int  BY <1>8
<1>14. /\ cursor'.rid = m /\ cursor'.first = FALSE
       /\ cursor'.time = IF cursor.first /\ n = NoTime THEN clock ELSE n
       /\ seeded' = IF cursor.first /\ n = NoTime THEN clock ELSE seeded
       BY <1>10
<1> HIDE DEF n, m, A, B
<1>15. PollMarks(R, n)  BY <1>1, <1>11, <1>12, <1>14 DEF PollMarks
<1>16. QED  BY <1>13, <1>15

-----------------------------------------------------------------------------
(* The marks of the polls.                                                 *)

\* The steps that touch neither the log, nor the clock, nor the marks.
OtherStep ==
    \/ Query \/ (\E k \in 0..MaxLog : EndBacklogRead(k)) \/ EndPollFailed
    \/ Send \/ SendDone \/ Abort \/ Apply
    \/ (\E n \in Requests : Resize(n)) \/ Restart
    \/ UNCHANGED vars

WriteStep == \E lag \in (IF HistoryMode THEN {0} ELSE 0..Lag) : Write(lag)

StartStep == ReRead \/ Restarted

LEMMA NextCases ==
    ASSUME [Next]_vars
    PROVE  \/ WriteStep \/ Tick \/ (\E R \in {Found, {}} : EndPoll(R))
           \/ StartStep \/ OtherStep
BY DEF Next, WriteStep, StartStep, OtherStep

LEMMA OtherKeepsMarks ==
    ASSUME OtherStep
    PROVE  UNCHANGED <<log, clock, cursor, missed, seeded>>
<1>1. CASE Query  BY <1>1 DEF Query, world, seen
<1>2. CASE \E k \in 0..MaxLog : EndBacklogRead(k)  BY <1>2 DEF EndBacklogRead, world, seen
<1>3. CASE EndPollFailed  BY <1>3 DEF EndPollFailed, world, seen
<1>4. CASE Send  BY <1>4 DEF Send, world, seen
<1>5. CASE SendDone  BY <1>5 DEF SendDone, world, seen
<1>6. CASE Abort  BY <1>6 DEF Abort, world, seen
<1>7. CASE Apply  BY <1>7 DEF Apply, world, seen, source
<1>8. CASE \E n \in Requests : Resize(n)  BY <1>8 DEF Resize, world, seen, source
<1>9. CASE Restart  BY <1>9 DEF Restart, world, seen, source
<1>10. CASE UNCHANGED vars  BY <1>10 DEF vars, world, seen, source
<1>11. QED
       BY <1>1, <1>2, <1>3, <1>4, <1>5, <1>6, <1>7, <1>8, <1>9, <1>10 DEF OtherStep

\* One more event in the log.
LEMMA WriteEffect ==
    ASSUME TypeOK, WriteStep
    PROVE  \E t \in 0..clock :
              /\ t >= clock - Lag /\ log' = Append(log, t)
              /\ Len(log') = Len(log) + 1 /\ Len(log') <= MaxLog
              /\ log' \in Seq(0..MaxClock) /\ log'[Len(log) + 1] = t
              /\ \A r \in 1..Len(log) : log'[r] = log[r]
              /\ UNCHANGED <<clock, kind, source, stopping, view, seen>>
<1>1. PICK lag \in (IF HistoryMode THEN {0} ELSE 0..Lag) : Write(lag)
      BY DEF WriteStep
<1>2. /\ Len(log) < MaxLog /\ lag <= clock /\ log' = Append(log, clock - lag)
      /\ UNCHANGED <<clock, kind, source, stopping, view, seen>>
      BY <1>1 DEF Write
<1>3. /\ log \in Seq(0..MaxClock) /\ Len(log) \in Nat /\ MaxLog \in Nat
      /\ clock \in 0..MaxClock /\ Lag \in Nat /\ MaxClock \in Nat
      BY Types
<1>4. lag \in 0..Lag  BY <1>3
<1>5. clock - lag \in 0..clock /\ clock - lag >= clock - Lag
      /\ clock - lag \in 0..MaxClock
      BY <1>2, <1>3, <1>4
<1> DEFINE t == clock - lag
<1>6. /\ t \in 0..clock /\ t >= clock - Lag /\ t \in 0..MaxClock
      /\ log' = Append(log, t)
      BY <1>2, <1>5
<1> HIDE DEF t
<1>7. /\ Len(log') = Len(log) + 1 /\ log' \in Seq(0..MaxClock)
      /\ log'[Len(log) + 1] = t /\ \A r \in 1..Len(log) : log'[r] = log[r]
      BY <1>3, <1>6, AppendProperties
<1>8. Len(log') <= MaxLog  BY <1>2, <1>3, <1>7
<1>9. QED  BY <1>2, <1>6, <1>7, <1>8

LEMMA StampsStep ==
    ASSUME TypeOK, Stamps, [Next]_vars
    PROVE  Stamps'
<1>0. /\ Len(log) \in Nat /\ clock \in Nat /\ Lag \in Nat  BY Types
<1>1. CASE WriteStep
      <2>1. PICK t \in 0..clock :
               /\ t >= clock - Lag
               /\ Len(log') = Len(log) + 1 /\ log'[Len(log) + 1] = t
               /\ \A r \in 1..Len(log) : log'[r] = log[r]
               /\ clock' = clock
            BY <1>1, WriteEffect
      <2>2. \A r \in 1..(Len(log) + 1) : r \in 1..Len(log) \/ r = Len(log) + 1
            BY <1>0
      <2>3. \A r \in 1..(Len(log) + 1) : log'[r] \in 0..clock
            BY <2>1, <2>2 DEF Stamps
      <2>4. ASSUME NEW x \in 1..(Len(log) + 1), NEW r \in 1..(Len(log) + 1), x < r
            PROVE  log'[r] >= log'[x] - Lag
            <3>1. x \in 1..Len(log)  BY <1>0, <2>4
            <3>2. CASE r \in 1..Len(log)  BY <2>1, <2>4, <3>1, <3>2 DEF Stamps
            <3>3. CASE r = Len(log) + 1
                  <4>1. log[x] \in 0..clock  BY <3>1 DEF Stamps
                  <4>2. log'[r] = t /\ log'[x] = log[x]  BY <2>1, <3>1, <3>3
                  <4>3. t >= log[x] - Lag  BY <1>0, <2>1, <4>1
                  <4>4. QED  BY <4>2, <4>3
            <3>4. QED  BY <2>2, <3>2, <3>3
      <2>5. QED  BY <2>1, <2>3, <2>4 DEF Stamps
<1>2. CASE Tick
      <2>1. log' = log /\ clock' = clock + 1  BY <1>2 DEF Tick
      <2>2. \A n \in 0..clock : n \in 0..(clock + 1)  BY <1>0
      <2>3. QED  BY <2>1, <2>2 DEF Stamps
<1>3. CASE UNCHANGED <<log, clock>>  BY <1>3 DEF Stamps
<1>4. ASSUME NEW R \in {Found, {}}, EndPoll(R)  PROVE UNCHANGED <<log, clock>>
      BY <1>4 DEF EndPoll, world
<1>5. ASSUME StartStep  PROVE UNCHANGED <<log, clock>>
      BY <1>5 DEF StartStep, ReRead, Restarted, world
<1>6. QED  BY <1>1, <1>2, <1>3, <1>4, <1>5, NextCases, OtherKeepsMarks

LEMMA MarksStep ==
    ASSUME TypeOK, Marks, [Next]_vars
    PROVE  Marks'
<1>0. /\ Len(log) \in Nat /\ clock \in Nat /\ Lag \in Nat /\ Guard \in Nat
      /\ Lag <= Guard /\ cursor.time \in {NoTime} \cup 0..clock /\ cursor.time \in Int
      /\ cursor.rid \in 0..Len(log) /\ DOMAIN missed \subseteq 1..Len(log)
      /\ horizon \in 0..Len(log)
      BY Types
<1>1. Stamps /\ FirstPoll /\ AheadInTime /\ MissedOnlyAtStart  BY DEF Marks
<1>2. Stamps'  BY <1>1, StampsStep
<1>3. CASE WriteStep
      <2>1. PICK t \in 0..clock :
               /\ t >= clock - Lag
               /\ Len(log') = Len(log) + 1 /\ log'[Len(log) + 1] = t
               /\ \A r \in 1..Len(log) : log'[r] = log[r]
               /\ UNCHANGED <<cursor, missed, seeded>>
            BY <1>3, WriteEffect DEF source, seen
      <2>2. FirstPoll'  BY <1>1, <2>1 DEF FirstPoll
      <2>3. t >= cursor.time - Guard  BY <1>0, <2>1 DEF NoTime
      <2>4. AheadInTime'
            <3>1. ASSUME ~cursor.first, NEW r \in 1..(Len(log) + 1), r > cursor.rid
                  PROVE  \/ log'[r] >= cursor.time - Guard
                         \/ seeded # NoTime /\ log'[r] < seeded - Guard
                  <4>1. CASE r \in 1..Len(log)
                        BY <1>1, <2>1, <3>1, <4>1 DEF AheadInTime
                  <4>2. CASE r = Len(log) + 1  BY <2>1, <2>3, <4>2
                  <4>3. QED  BY <1>0, <4>1, <4>2
            <3>2. QED  BY <2>1, <3>1 DEF AheadInTime
      <2>5. MissedOnlyAtStart'
            <3>1. \A r \in DOMAIN missed : log'[r] = log[r]  BY <1>0, <2>1
            <3>2. QED  BY <1>1, <2>1, <3>1 DEF MissedOnlyAtStart
      <2>6. QED  BY <1>2, <2>2, <2>4, <2>5 DEF Marks
<1>4. ASSUME UNCHANGED <<log, cursor, missed, seeded>>
      PROVE  FirstPoll' /\ AheadInTime' /\ MissedOnlyAtStart'
      BY <1>1, <1>4 DEF FirstPoll, AheadInTime, MissedOnlyAtStart
<1>5. CASE Tick
      <2>1. UNCHANGED <<log, cursor, missed, seeded>>  BY <1>5 DEF Tick, source, seen
      <2>2. QED  BY <1>2, <1>4, <2>1 DEF Marks
<1>6. CASE OtherStep  BY <1>2, <1>4, <1>6, OtherKeepsMarks DEF Marks
<1>7. CASE StartStep
      <2>1. cursor' = Fresh /\ missed' = << >> /\ seeded' = NoTime
            BY <1>7 DEF StartStep, ReRead, Restarted, NewSource
      <2>2. DOMAIN missed' = {}  BY <2>1
      <2>3. FirstPoll' /\ AheadInTime'  BY <2>1, <2>2 DEF FirstPoll, AheadInTime, Fresh
      <2>4. MissedOnlyAtStart'  BY <2>2 DEF MissedOnlyAtStart
      <2>5. QED  BY <1>2, <2>3, <2>4 DEF Marks
<1>8. ASSUME NEW R \in {Found, {}}, EndPoll(R)  PROVE Marks'
      <2>1. PICK newest \in Int : PollMarks(R, newest)
            BY <1>1, <1>8, PollSetsMarks
      <2>2. log' = log /\ clock' = clock  BY <1>8 DEF EndPoll, world
      <2>3. FirstPoll'  BY <2>1 DEF FirstPoll, PollMarks
      <2>4. \A r \in R : r \in 1..Len(log) /\ log[r] \in 0..clock
            <3>1. R \in SUBSET (1..horizon)  BY <2>1 DEF PollMarks
            <3>2. \A r \in 1..horizon : r \in 1..Len(log)  BY <1>0
            <3>3. QED  BY <1>1, <3>1, <3>2 DEF Stamps
      <2>5. AheadInTime'
            <3>1. ASSUME NEW r \in 1..Len(log), r > cursor'.rid
                  PROVE  \/ log[r] >= cursor'.time - Guard
                         \/ seeded' # NoTime /\ log[r] < seeded' - Guard
                  <4>0. log[r] \in 0..clock /\ r \in Int  BY <1>1 DEF Stamps
                  <4>1. CASE cursor.first /\ newest = NoTime
                        <5>1. cursor'.time = clock /\ seeded' = clock
                              BY <2>1, <4>1 DEF PollMarks
                        <5>2. log[r] >= clock - Guard \/ log[r] < clock - Guard
                              BY <1>0, <4>0
                        <5>3. clock # NoTime  BY <1>0 DEF NoTime
                        <5>4. QED  BY <5>1, <5>2, <5>3
                  <4>2. CASE ~(cursor.first /\ newest = NoTime)
                        <5>1. cursor'.time = newest /\ seeded' = seeded
                              BY <2>1, <4>2 DEF PollMarks
                        <5>2. CASE \E x \in R : newest = log[x]
                              <6>1. PICK x \in R : newest = log[x]  BY <5>2
                              <6>2. /\ x \in 1..Len(log) /\ log[x] \in 0..clock
                                    /\ cursor'.rid >= x
                                    /\ cursor'.rid \in R \cup {cursor.rid}
                                    BY <2>1, <2>4 DEF PollMarks
                              <6>3. cursor'.rid \in Int /\ x \in Int
                                    <7>1. R \in SUBSET Int  BY <2>1 DEF PollMarks
                                    <7>2. cursor.rid \in Int  BY <1>0
                                    <7>3. QED  BY <6>2, <7>1, <7>2
                              <6>4. x < r  BY <3>1, <4>0, <6>2, <6>3
                              <6>5. log[r] >= log[x] - Lag  BY <1>1, <6>2, <6>4 DEF Stamps
                              <6>6. log[r] >= newest - Guard
                                    BY <1>0, <4>0, <6>1, <6>2, <6>5
                              <6>7. QED  BY <5>1, <6>6
                        <5>3. CASE newest = cursor.time /\ ~cursor.first
                              <6>1. /\ cursor'.rid >= cursor.rid
                                    /\ cursor'.rid \in R \cup {cursor.rid}
                                    BY <2>1 DEF PollMarks
                              <6>2. cursor'.rid \in Int /\ cursor.rid \in Int
                                    BY <1>0, <2>4, <6>1
                              <6>3. r > cursor.rid  BY <3>1, <4>0, <6>1, <6>2
                              <6>4. QED  BY <1>1, <5>1, <5>3, <6>3 DEF AheadInTime
                        <5>4. CASE newest = cursor.time /\ cursor.first
                              BY <1>1, <4>2, <5>4 DEF FirstPoll
                        <5>5. newest \in {log[x] : x \in R} \cup {cursor.time}
                              BY <2>1 DEF PollMarks
                        <5>6. cursor.first \in BOOLEAN  BY Types
                        <5>7. QED  BY <5>2, <5>3, <5>4, <5>5, <5>6
                  <4>3. QED  BY <4>1, <4>2
            <3>2. QED  BY <2>2, <3>1 DEF AheadInTime
      <2> DEFINE passed == IF cursor.first \/ R # Found THEN {}
                           ELSE ((cursor.rid + 1)..horizon) \ R
      <2>6. missed' = [r \in passed \cup DOMAIN missed |->
                         IF r \in DOMAIN missed THEN missed[r] ELSE horizon]
            BY <1>8 DEF EndPoll
      <2>7. MissedOnlyAtStart'
            <3>1. CASE cursor.first
                  <4>1. DOMAIN missed' = {}
                        <5>1. DOMAIN missed = {}  BY <1>1, <3>1 DEF FirstPoll
                        <5>2. QED  BY <2>6, <3>1, <5>1
                  <4>2. QED  BY <4>1 DEF MissedOnlyAtStart
            <3>2. CASE ~cursor.first
                  <4>1. seeded' = seeded  BY <2>1, <3>2 DEF PollMarks
                  <4>2. ASSUME NEW r \in DOMAIN missed'
                        PROVE  \/ missed'[r] - r >= Cap
                               \/ seeded # NoTime /\ log[r] < seeded - Guard
                        <5>1. CASE r \in DOMAIN missed
                              <6>1. missed'[r] = missed[r]  BY <2>6, <5>1
                              <6>2. QED  BY <1>1, <5>1, <6>1 DEF MissedOnlyAtStart
                        <5>2. CASE r \notin DOMAIN missed
                              <6>1. missed'[r] = horizon /\ r \in passed
                                    BY <2>6, <4>2, <5>2
                              <6>2. r \in ((cursor.rid + 1)..horizon) \ Found
                                    BY <6>1
                              <6>3. CASE horizon - r >= Cap  BY <6>1, <6>3
                              <6>4. CASE ~(log[r] >= cursor.time - Guard)
                                    <7>1. r \in 1..Len(log) /\ r > cursor.rid
                                          BY <1>0, <6>2
                                    <7>2. QED  BY <1>1, <3>2, <6>4, <7>1 DEF AheadInTime
                              <6>5. QED  BY <3>2, <6>2, <6>3, <6>4, FoundMisses
                        <5>3. QED  BY <5>1, <5>2
                  <4>3. QED  BY <2>2, <4>1, <4>2 DEF MissedOnlyAtStart
            <3>3. cursor.first \in BOOLEAN  BY Types
            <3>4. QED  BY <3>1, <3>2
      <2>8. QED  BY <1>2, <2>3, <2>5, <2>7 DEF Marks
<1>9. QED  BY <1>3, <1>5, <1>6, <1>7, <1>8, NextCases

-----------------------------------------------------------------------------
(* What a source hands over.                                               *)

Sorted(s) == \A i, j \in 1..Len(s) : i < j => s[i] < s[j]

LEMMA SortedConcat ==
    ASSUME NEW s \in Seq(Int), NEW t \in Seq(Int), Sorted(s), Sorted(t),
           \A i \in 1..Len(s), j \in 1..Len(t) : s[i] < t[j]
    PROVE  Sorted(s \o t)
<1>1. /\ Len(s \o t) = Len(s) + Len(t) /\ Len(s) \in Nat /\ Len(t) \in Nat
      /\ \A i \in 1..(Len(s) + Len(t)) :
            (s \o t)[i] = IF i <= Len(s) THEN s[i] ELSE t[i - Len(s)]
      BY ConcatProperties, LenProperties
<1>2. ASSUME NEW i \in 1..(Len(s) + Len(t)), NEW j \in 1..(Len(s) + Len(t)), i < j
      PROVE  (s \o t)[i] < (s \o t)[j]
      <2>1. CASE j <= Len(s)
            <3>1. i \in 1..Len(s) /\ j \in 1..Len(s) /\ i <= Len(s)
                  BY <1>1, <1>2, <2>1
            <3>2. s[i] < s[j]  BY <1>2, <3>1 DEF Sorted
            <3>3. QED  BY <1>1, <2>1, <3>1, <3>2
      <2>2. CASE ~(j <= Len(s)) /\ i <= Len(s)
            <3>1. i \in 1..Len(s) /\ j - Len(s) \in 1..Len(t)  BY <1>1, <2>2
            <3>2. s[i] < t[j - Len(s)]  BY <3>1
            <3>3. QED  BY <1>1, <2>2, <3>2
      <2>3. CASE ~(i <= Len(s))
            <3>1. /\ i - Len(s) \in 1..Len(t) /\ j - Len(s) \in 1..Len(t)
                  /\ i - Len(s) < j - Len(s) /\ ~(j <= Len(s))
                  BY <1>1, <1>2, <2>3
            <3>2. t[i - Len(s)] < t[j - Len(s)]  BY <3>1 DEF Sorted
            <3>3. QED  BY <1>1, <2>3, <3>1, <3>2
      <2>4. QED  BY <2>1, <2>2, <2>3
<1>3. QED  BY <1>1, <1>2 DEF Sorted

\* The types of what is in hand and sent.
LEMMA TakenTypes ==
    ASSUME TypeOK
    PROVE  /\ sent \in Seq(Int) /\ hand \in Seq(Int) /\ Taken \in Seq(Int)
           /\ Len(sent) \in Nat /\ Len(Taken) = Len(sent) + Len(hand)
           /\ Len(hand) \in Nat
           /\ \A i \in 1..Len(sent) : sent[i] \in 1..Len(log) /\ Taken[i] = sent[i]
           /\ sent \o << >> = sent
<1>1. sent \in Seq(1..Len(log)) /\ hand \in Seq(1..Len(log)) /\ Len(log) \in Nat
      BY Types
<1>2. /\ Len(sent) \in Nat /\ Len(hand) \in Nat
      /\ \A i \in 1..Len(sent) : sent[i] \in 1..Len(log)
      /\ \A i \in 1..Len(hand) : hand[i] \in 1..Len(log)
      BY <1>1, LenProperties, ElementOfSeq
<1>3. 1..Len(log) \subseteq Int  OBVIOUS
<1>4. sent \in Seq(Int) /\ hand \in Seq(Int)  BY <1>1, <1>3, SeqMonotonic
<1>5. /\ Taken \in Seq(Int) /\ Len(Taken) = Len(sent) + Len(hand)
      /\ \A i \in 1..(Len(sent) + Len(hand)) :
            Taken[i] = IF i <= Len(sent) THEN sent[i] ELSE hand[i - Len(sent)]
      BY <1>4, ConcatProperties DEF Taken
<1>6. \A i \in 1..Len(sent) : i \in 1..(Len(sent) + Len(hand)) /\ i <= Len(sent)
      BY <1>2
<1>7. sent \o << >> = sent  BY <1>4, ConcatEmptySeq
<1>8. QED  BY <1>2, <1>4, <1>5, <1>6, <1>7

\* A read whose events all lie above what was sent before.
LEMMA ReadTakes ==
    ASSUME TypeOK, OncePerSource, NEW R \in SUBSET Int, IsFiniteSet(R),
           \A i \in 1..Len(sent), r \in R : sent[i] < r,
           hand' = Ascending(R), sent' = sent
    PROVE  /\ OncePerSource'
           /\ \A i \in 1..Len(Taken') :
                 \/ i \in 1..Len(sent) /\ Taken'[i] = Taken[i]
                 \/ Taken'[i] \in R
<1> DEFINE t == Ascending(R)
<1>1. /\ sent \in Seq(Int) /\ Len(sent) \in Nat
      /\ Len(Taken) = Len(sent) + Len(hand) /\ Len(hand) \in Nat
      /\ \A i \in 1..Len(sent) : Taken[i] = sent[i]
      BY TakenTypes
<1>2. /\ t \in Seq(R) /\ \A i, j \in 1..Len(t) : i < j => t[i] < t[j]
      BY AscendingSorted
<1>3. Len(t) \in Nat /\ \A i \in 1..Len(t) : t[i] \in R
      BY <1>2, LenProperties, ElementOfSeq
<1> HIDE DEF t
<1>4. t \in Seq(Int)  BY <1>2, SeqMonotonic
<1>5. Sorted(t)  BY <1>2 DEF Sorted
<1>6. Sorted(sent)
      <2>1. ASSUME NEW i \in 1..Len(sent), NEW j \in 1..Len(sent), i < j
            PROVE  sent[i] < sent[j]
            <3>1. i \in 1..Len(Taken) /\ j \in 1..Len(Taken)  BY <1>1
            <3>2. Taken[i] < Taken[j]  BY <2>1, <3>1 DEF OncePerSource, Taken
            <3>3. QED  BY <1>1, <3>2
      <2>2. QED  BY <2>1 DEF Sorted
<1>7. \A i \in 1..Len(sent), j \in 1..Len(t) : sent[i] < t[j]  BY <1>3
<1>8. Sorted(sent \o t)  BY <1>1, <1>4, <1>5, <1>6, <1>7, SortedConcat
<1>9. /\ Len(sent \o t) = Len(sent) + Len(t)
      /\ \A i \in 1..(Len(sent) + Len(t)) :
            (sent \o t)[i] = IF i <= Len(sent) THEN sent[i] ELSE t[i - Len(sent)]
      BY <1>1, <1>4, ConcatProperties
<1>10. hand' = t /\ Taken' = sent \o t  BY DEF t, Taken
<1>11. ASSUME NEW i \in 1..Len(Taken')
       PROVE  \/ i \in 1..Len(sent) /\ Taken'[i] = Taken[i]
              \/ Taken'[i] \in R
       <2>1. CASE i <= Len(sent)
             <3>1. i \in 1..Len(sent) /\ i \in 1..(Len(sent) + Len(t))
                   BY <1>1, <1>3, <2>1, <1>9, <1>10
             <3>2. QED  BY <1>1, <1>9, <1>10, <2>1, <3>1
       <2>2. CASE ~(i <= Len(sent))
             <3>1. i - Len(sent) \in 1..Len(t) /\ i \in 1..(Len(sent) + Len(t))
                   BY <1>1, <1>3, <1>9, <1>10, <2>2
             <3>2. Taken'[i] = t[i - Len(sent)]  BY <1>9, <1>10, <2>2, <3>1
             <3>3. QED  BY <1>3, <3>1, <3>2
       <2>3. QED  BY <2>1, <2>2
<1>12. OncePerSource'
       <2>1. sent' \o hand' = sent \o t  BY <1>10
       <2>2. QED  BY <1>8, <2>1 DEF OncePerSource, Sorted
<1>13. QED  BY <1>11, <1>12

\* The events of a history read have no gap.
LEMMA ReadTakesLatest ==
    ASSUME TypeOK, HistoryMode, cursor.first, sent = << >>,
           NEW R, R = Found \/ R = {} \/ \E k \in Nat : R = Newest(Found, k),
           hand' = Ascending(R), sent' = sent, horizon' = horizon
    PROVE  \A i \in 1..Len(Taken') : Taken'[i] = horizon' - Len(Taken') + i
<1>1. horizon \in Nat /\ limit \in Nat  BY Types
<1>2. PICK m \in Nat \ {0} : Found = m..horizon
      <2>1. Found = Newest(1..horizon, limit)  BY DEF Found
      <2>2. QED  BY <1>1, <2>1, NewestOfInterval
<1>3. PICK n \in Nat \ {0} : R = n..horizon
      <2>1. CASE R = Found  BY <1>2, <2>1
      <2>2. CASE R = {}
            <3>1. {} = (horizon + 1)..horizon /\ horizon + 1 \in Nat \ {0}  BY <1>1
            <3>2. QED  BY <2>2, <3>1
      <2>3. CASE \E k \in Nat : R = Newest(Found, k)
            BY <1>1, <1>2, <2>3, NewestOfInterval
      <2>4. QED  BY <2>1, <2>2, <2>3
<1> DEFINE t == Ascending(n..horizon)
<1>4. \A i \in 1..Len(t) : t[i] = horizon - Len(t) + i  BY <1>1, AscendingInterval
<1>5. t \in Seq(n..horizon)
      <2>1. IsFiniteSet(n..horizon) /\ n..horizon \in SUBSET Int
            BY <1>1, FS_Interval
      <2>2. QED  BY <2>1, AscendingSorted
<1>6. hand' = t /\ sent' = << >>  BY <1>3
<1> HIDE DEF t
<1>7. << >> \o t = t  BY <1>5, ConcatEmptySeq
<1>8. Taken' = t  BY <1>6, <1>7 DEF Taken
<1>9. QED  BY <1>4, <1>8

\* Nothing is taken, and nothing said of a read that had not ended.
LEMMA HandsKept ==
    ASSUME Hands, UNCHANGED <<kind, phase, hand, sent, cursor, horizon>>,
           stopping' = stopping \/ stopping'
    PROVE  Hands'
<1>1. Taken' = Taken /\ (HistoryMode' <=> HistoryMode)  BY DEF Taken, HistoryMode
<1>2. ReadsOnce' /\ OncePerSource'
      BY <1>1 DEF Hands, ReadsOnce, OncePerSource
<1>3. BelowMark'  BY <1>1 DEF Hands, BelowMark
<1>4. TakesLatest'  BY <1>1 DEF Hands, TakesLatest
<1>5. QED  BY <1>2, <1>3, <1>4 DEF Hands

LEMMA HandsStep ==
    ASSUME TypeOK, Marks, Hands, [Next]_vars
    PROVE  Hands'
<1>0. /\ ReadsOnce /\ OncePerSource /\ BelowMark /\ TakesLatest /\ FirstPoll
      /\ kind \in {"poll", "runOnce", "evtQuery"}
      /\ cursor.first \in BOOLEAN
      BY Types DEF Hands, Marks, TypeOK
<1>1. CASE WriteStep
      <2>1. UNCHANGED <<kind, phase, hand, sent, cursor, horizon, stopping>>
            BY <1>1 DEF WriteStep, Write, source, seen
      <2>2. QED  BY <2>1, HandsKept
<1>2. CASE Tick
      <2>1. UNCHANGED <<kind, phase, hand, sent, cursor, horizon, stopping>>
            BY <1>2 DEF Tick, source, seen
      <2>2. QED  BY <2>1, HandsKept
<1>3. CASE Apply
      <2>1. UNCHANGED <<kind, phase, hand, sent, cursor, horizon, stopping>>
            BY <1>3 DEF Apply, source, seen
      <2>2. QED  BY <2>1, HandsKept
<1>4. CASE (\E n \in Requests : Resize(n)) \/ Restart
      <2>1. UNCHANGED <<kind, phase, hand, sent, cursor, horizon>> /\ stopping' = TRUE
            BY <1>4 DEF Resize, Restart, source, seen
      <2>2. QED  BY <2>1, HandsKept
<1>5. CASE UNCHANGED vars
      <2>1. UNCHANGED <<kind, phase, hand, sent, cursor, horizon, stopping>>
            BY <1>5 DEF vars, source, seen
      <2>2. QED  BY <2>1, HandsKept
<1>6. CASE Query
      <2>1. /\ phase = "reading" /\ phase' = "queried"
            /\ UNCHANGED <<kind, hand, sent, cursor>>
            BY <1>6 DEF Query, seen
      <2>2. Taken' = Taken /\ (HistoryMode' <=> HistoryMode)
            BY <2>1 DEF Taken, HistoryMode
      <2>3. ReadsOnce' /\ OncePerSource'
            BY <1>0, <2>1, <2>2 DEF ReadsOnce, OncePerSource
      <2>4. BelowMark' /\ TakesLatest'  BY <1>0, <2>1, <2>2 DEF BelowMark, TakesLatest
      <2>5. QED  BY <2>3, <2>4 DEF Hands
<1>7. CASE StartStep
      <2>1. /\ phase' = "reading" /\ sent' = << >> /\ hand' = << >> /\ cursor' = Fresh
            BY <1>7 DEF StartStep, ReRead, Restarted, NewSource
      <2>2. Taken' = << >> /\ Len(<< >>) = 0 /\ 1..0 = {}
            BY <2>1 DEF Taken
      <2>3. ReadsOnce'  BY <2>1 DEF ReadsOnce, Fresh
      <2>4. OncePerSource' /\ BelowMark' /\ TakesLatest'
            BY <2>1, <2>2 DEF OncePerSource, BelowMark, TakesLatest, Taken
      <2>5. QED  BY <2>3, <2>4 DEF Hands
<1>8. ASSUME NEW k \in 0..MaxLog, EndBacklogRead(k)  PROVE Hands'
      <2> DEFINE R == Newest(Found, k)
      <2>1. /\ kind = "evtQuery" /\ phase = "queried" /\ phase' = "sending"
            /\ hand' = Ascending(R) /\ UNCHANGED <<kind, cursor, horizon, sent>>
            BY <1>8 DEF EndBacklogRead, InOrder, seen
      <2>2. HistoryMode /\ cursor.first /\ sent = << >>
            BY <1>0, <2>1 DEF ReadsOnce, HistoryMode
      <2>3. R \in SUBSET Int /\ IsFiniteSet(R)
            <3>1. R \in SUBSET Found  BY DEF Newest
            <3> HIDE DEF R
            <3>2. QED  BY <3>1, FoundFacts, FS_Subset
      <2>4. k \in Nat  BY Types
      <2> HIDE DEF R
      <2>5. \A i \in 1..Len(sent), r \in R : sent[i] < r
            <3>1. 1..Len(sent) = {}  BY <2>2
            <3>2. QED  BY <3>1
      <2>6. OncePerSource'  BY <1>0, <2>1, <2>3, <2>5, ReadTakes
      <2>7. \A i \in 1..Len(Taken') : Taken'[i] = horizon' - Len(Taken') + i
            BY <2>1, <2>2, <2>4, ReadTakesLatest DEF R
      <2>8. ReadsOnce' /\ BelowMark' /\ TakesLatest'
            BY <2>1, <2>7 DEF ReadsOnce, BelowMark, TakesLatest
      <2>9. QED  BY <2>6, <2>8 DEF Hands
<1>9. ASSUME NEW R \in {Found, {}}, EndPoll(R)  PROVE Hands'
      <2>1. /\ kind # "evtQuery" /\ phase = "queried" /\ phase' = "sending"
            /\ hand' = Ascending(R) /\ UNCHANGED <<kind, horizon, sent>>
            BY <1>9 DEF EndPoll, InOrder
      <2>2. PICK newest \in Int : PollMarks(R, newest)
            BY <1>9, PollSetsMarks DEF Marks
      <2>3. /\ R \in SUBSET Int /\ IsFiniteSet(R)
            /\ ~cursor.first => \A r \in R : r > cursor.rid
            /\ cursor'.rid \in R \cup {cursor.rid} /\ cursor'.rid >= cursor.rid
            /\ \A r \in R : cursor'.rid >= r
            BY <2>2 DEF PollMarks
      <2>4. cursor.rid \in Int /\ cursor'.rid \in Int
            <3>1. cursor.rid \in Int  BY Types
            <3>2. QED  BY <2>3, <3>1
      <2>5. ASSUME NEW i \in 1..Len(sent)
            PROVE  /\ ~cursor.first /\ Taken[i] = sent[i] /\ sent[i] \in Int
                   /\ sent[i] <= cursor.rid
            <3>1. i \in 1..Len(Taken) /\ sent[i] \in 1..Len(log) /\ Taken[i] = sent[i]
                  BY TakenTypes
            <3>2. sent[i] <= cursor.rid  BY <1>0, <2>1, <3>1 DEF BelowMark
            <3>3. cursor.rid # 0  BY <3>1, <3>2
            <3>4. QED  BY <1>0, <3>1, <3>2, <3>3 DEF FirstPoll
      <2>6. \A i \in 1..Len(sent), r \in R : sent[i] < r
            <3>1. ASSUME NEW i \in 1..Len(sent), NEW r \in R  PROVE sent[i] < r
                  <4>1. sent[i] \in Int /\ sent[i] <= cursor.rid /\ r > cursor.rid /\ r \in Int
                        BY <2>3, <2>5
                  <4>2. QED  BY <2>4, <4>1
            <3>2. QED  BY <3>1
      <2>7. /\ OncePerSource'
            /\ \A i \in 1..Len(Taken') : \/ i \in 1..Len(sent) /\ Taken'[i] = Taken[i]
                                         \/ Taken'[i] \in R
            BY <1>0, <2>1, <2>3, <2>6, ReadTakes
      <2>8. BelowMark'
            <3>1. ASSUME NEW i \in 1..Len(Taken')  PROVE Taken'[i] <= cursor'.rid
                  <4>1. CASE i \in 1..Len(sent) /\ Taken'[i] = Taken[i]
                        <5>1. Taken'[i] \in Int /\ Taken'[i] <= cursor.rid
                              BY <2>5, <4>1
                        <5>2. QED  BY <2>3, <2>4, <5>1
                  <4>2. CASE Taken'[i] \in R
                        <5>1. Taken'[i] \in Int /\ cursor'.rid >= Taken'[i]
                              BY <2>3, <4>2
                        <5>2. QED  BY <2>4, <5>1
                  <4>3. QED  BY <2>7, <4>1, <4>2
            <3>2. QED  BY <3>1 DEF BelowMark
      <2>9. TakesLatest'
            <3>1. ASSUME HistoryMode
                  PROVE  \A i \in 1..Len(Taken') : Taken'[i] = horizon' - Len(Taken') + i
                  <4>1. cursor.first /\ sent = << >>  BY <1>0, <2>1, <3>1 DEF ReadsOnce
                  <4>2. QED  BY <2>1, <3>1, <4>1, ReadTakesLatest
            <3>2. HistoryMode' <=> HistoryMode  BY <2>1 DEF HistoryMode
            <3>3. QED  BY <3>1, <3>2 DEF TakesLatest
      <2>10. ReadsOnce'  BY <2>1 DEF ReadsOnce
      <2>11. QED  BY <2>7, <2>8, <2>9, <2>10 DEF Hands
<1>10. CASE EndPollFailed
      <2>1. /\ kind # "evtQuery" /\ phase = "queried" /\ phase' = "sending"
            /\ hand' = << >> /\ UNCHANGED <<kind, cursor, horizon, sent>>
            BY <1>10 DEF EndPollFailed, seen
      <2>2. hand = << >>  BY <1>0, <2>1 DEF ReadsOnce
      <2>3. Taken' = Taken /\ (HistoryMode' <=> HistoryMode)
            BY <2>1, <2>2 DEF Taken, HistoryMode
      <2>4. ReadsOnce' /\ OncePerSource' /\ BelowMark'
            BY <1>0, <2>1, <2>2, <2>3 DEF ReadsOnce, OncePerSource, BelowMark
      <2>5. HistoryMode => Len(Taken') = 0
            <3>1. ASSUME HistoryMode  PROVE Len(Taken') = 0
                  <4>1. sent = << >> /\ sent' = << >>  BY <1>0, <2>1, <3>1 DEF ReadsOnce
                  <4>2. Taken' = << >>  BY <2>1, <4>1 DEF Taken
                  <4>3. QED  BY <4>2
            <3>2. QED  BY <3>1
      <2>6. TakesLatest'
            <3>1. HistoryMode => 1..Len(Taken') = {}  BY <2>5
            <3>2. QED  BY <2>3, <3>1 DEF TakesLatest
      <2>7. QED  BY <2>4, <2>6 DEF Hands
<1>11. CASE Send
      <2>1. /\ phase = "sending" /\ hand # << >> /\ hand' = Tail(hand)
            /\ sent' = Append(sent, Head(hand))
            /\ UNCHANGED <<kind, phase, cursor, horizon, stopping>>
            BY <1>11 DEF Send
      <2>2. Taken' = Taken
            <3>1. Taken' = Append(sent, Head(hand)) \o Tail(hand)  BY <2>1 DEF Taken
            <3>2. sent \in Seq(Int) /\ hand \in Seq(Int) /\ hand # << >>
                  BY <2>1, TakenTypes
            <3>3. Append(sent, Head(hand)) \o Tail(hand) = sent \o hand
                  BY <3>2, TakeOver
            <3>4. QED  BY <3>1, <3>3 DEF Taken
      <2>3. HistoryMode' <=> HistoryMode  BY <2>1 DEF HistoryMode
      <2>4. ReadsOnce'  BY <1>0, <2>1 DEF ReadsOnce
      <2>5. OncePerSource'  BY <1>0, <2>2 DEF OncePerSource, Taken
      <2>6. BelowMark' /\ TakesLatest'
            BY <1>0, <2>1, <2>2, <2>3 DEF BelowMark, TakesLatest
      <2>7. QED  BY <2>4, <2>5, <2>6 DEF Hands
<1>12. CASE SendDone
      <2>1. /\ phase = "sending" /\ hand = << >>
            /\ phase' = (IF HistoryMode \/ stopping THEN "off" ELSE "reading")
            /\ UNCHANGED <<kind, cursor, horizon, hand, stopping, sent>>
            BY <1>12 DEF SendDone, seen
      <2>2. Taken' = Taken /\ (HistoryMode' <=> HistoryMode)
            BY <2>1 DEF Taken, HistoryMode
      <2>3. ReadsOnce'  BY <2>1, <2>2 DEF ReadsOnce
      <2>4. OncePerSource'  BY <1>0, <2>1 DEF OncePerSource
      <2>5. BelowMark'  BY <1>0, <2>1, <2>2 DEF BelowMark
      <2>6. TakesLatest'  BY <1>0, <2>1, <2>2 DEF TakesLatest
      <2>7. QED  BY <2>3, <2>4, <2>5, <2>6 DEF Hands
<1>13. CASE Abort
      <2>1. /\ stopping /\ phase' = "off" /\ hand' = << >>
            /\ UNCHANGED <<kind, cursor, horizon, stopping, sent>>
            BY <1>13 DEF Abort, seen
      <2>2. Taken' = sent
            <3>1. Taken' = sent \o << >>  BY <2>1 DEF Taken
            <3>2. QED  BY <3>1, TakenTypes
      <2>3. \A i \in 1..Len(sent) : i \in 1..Len(Taken) /\ Taken[i] = sent[i]
            BY TakenTypes
      <2>4. OncePerSource'
            <3>1. ASSUME NEW i \in 1..Len(sent), NEW j \in 1..Len(sent), i < j
                  PROVE  sent[i] < sent[j]
                  <4>1. Taken[i] < Taken[j]  BY <1>0, <2>3, <3>1 DEF OncePerSource, Taken
                  <4>2. QED  BY <2>3, <4>1
            <3>2. sent' \o hand' = sent  BY <2>2 DEF Taken
            <3>3. QED  BY <3>1, <3>2 DEF OncePerSource
      <2>5. BelowMark'  BY <1>0, <2>1, <2>2, <2>3 DEF BelowMark
      <2>6. ReadsOnce' /\ TakesLatest'  BY <2>1 DEF ReadsOnce, TakesLatest
      <2>7. QED  BY <2>4, <2>5, <2>6 DEF Hands
<1>14. QED
       BY <1>1, <1>2, <1>3, <1>4, <1>5, <1>6, <1>7, <1>8, <1>9, <1>10, <1>11, <1>12,
          <1>13, NextCases DEF OtherStep

-----------------------------------------------------------------------------
(* Types.                                                                  *)

LEMMA KeepRowsRange ==
    ASSUME NEW n \in Nat \ {0}
    PROVE  KeepRows(n) \in Nat \ {0} /\ KeepRows(n) <= n
BY DEF KeepRows

LEMMA ClampRange ==
    ASSUME NEW n \in Int
    PROVE  Clamp(n) \in MinWindowSize..MaxWindowSize
BY LimitsAssumption DEF Clamp

\* The last k of a sequence, and what is before them.
LEMMA LastOfSeq ==
    ASSUME NEW S, NEW s \in Seq(S), NEW k \in 0..Len(s)
    PROVE  /\ LastOf(s, k) \in Seq(S) /\ Len(LastOf(s, k)) = k
           /\ \A i \in 1..k : LastOf(s, k)[i] = s[Len(s) - k + i]
           /\ \E c \in Seq(S) : Len(c) = Len(s) - k /\ s = c \o LastOf(s, k)
<1> DEFINE n == Len(s) - k
<1>1. Len(s) \in Nat /\ n \in 0..Len(s) /\ Len(s) - n = k
      /\ \A i \in 1..k : i + n = Len(s) - k + i
      BY LenProperties
<1> DEFINE c == SubSeq(s, 1, n)
           t == SubSeq(s, n + 1, Len(s))
<1>2. LastOf(s, k) = t  BY DEF LastOf
<1> HIDE DEF n
<1>3. /\ c \in Seq(S) /\ t \in Seq(S) /\ Len(c) = n /\ Len(t) = k
      /\ \A i \in 1..n : c[i] = s[i]
      /\ \A i \in 1..k : t[i] = s[i + n]
      BY <1>1, CutSeq
<1> HIDE DEF c, t
<1>4. s = c \o t
      <2>1. /\ c \o t \in Seq(S) /\ Len(c \o t) = Len(c) + Len(t)
            /\ \A i \in 1..(Len(c) + Len(t)) :
                  (c \o t)[i] = IF i <= Len(c) THEN c[i] ELSE t[i - Len(c)]
            <3>1. c \in Seq(S) /\ t \in Seq(S)  BY <1>3
            <3>2. QED  BY <3>1, ConcatProperties
      <2>2. Len(c) + Len(t) = Len(s) /\ n \in Int  BY <1>1, <1>3
      <2>3. ASSUME NEW i \in 1..Len(s)  PROVE s[i] = (c \o t)[i]
            <3>1. CASE i <= n
                  <4>1. i \in 1..n  BY <1>1, <3>1
                  <4>2. QED  BY <1>3, <2>1, <2>2, <3>1, <4>1
            <3>2. CASE ~(i <= n)
                  <4>1. i - n \in 1..k /\ (i - n) + n = i  BY <1>1, <2>2, <3>2
                  <4>2. t[i - n] = s[i]  BY <1>3, <4>1
                  <4>3. QED  BY <1>3, <2>1, <2>2, <3>2, <4>2
            <3>3. QED  BY <3>1, <3>2
      <2>4. Len(s) = Len(c \o t)  BY <2>1, <2>2
      <2>5. QED  BY <2>1, <2>3, <2>4, SeqEqual
<1>5. Len(c) = Len(s) - k  BY <1>3 DEF n
<1>6. \A i \in 1..k : t[i] = s[Len(s) - k + i]  BY <1>1, <1>3
<1>7. QED  BY <1>2, <1>3, <1>4, <1>5, <1>6

\* addEntry, as a step of the window.
LEMMA ApplyEffect ==
    ASSUME TypeOK, Apply
    PROVE  LET w == Append(window, Head(feed))
           IN  /\ w \in Seq(1..Len(log)) /\ Len(w) = Len(window) + 1
               /\ KeepRows(maxRows) \in 1..maxRows
               /\ \/ Len(w) <= maxRows /\ window' = w
                  \/ /\ Len(w) > maxRows /\ KeepRows(maxRows) \in 0..Len(w)
                     /\ window' = LastOf(w, KeepRows(maxRows))
               /\ window' \in Seq(1..Len(log)) /\ feed' \in Seq(1..Len(log))
<1> DEFINE w == Append(window, Head(feed))
           k == KeepRows(maxRows)
<1>1. /\ feed \in Seq(1..Len(log)) /\ window \in Seq(1..Len(log))
      /\ maxRows \in Nat \ {0} /\ Len(window) \in Nat
      BY Types, LenProperties
<1>2. feed # << >> /\ feed' = Tail(feed)
      /\ window' = (IF Len(w) > maxRows THEN LastOf(w, k) ELSE w)
      BY DEF Apply
<1>3. Head(feed) \in 1..Len(log) /\ feed' \in Seq(1..Len(log))
      BY <1>1, <1>2, HeadTail
<1>4. w \in Seq(1..Len(log)) /\ Len(w) = Len(window) + 1
      BY <1>1, <1>3, AppendProperties
<1>5. k \in Nat \ {0} /\ k <= maxRows  BY <1>1, KeepRowsRange
<1> HIDE DEF w, k
<1>6. k \in 1..maxRows /\ (Len(w) > maxRows => k \in 0..Len(w))
      BY <1>1, <1>4, <1>5
<1>7. \/ Len(w) <= maxRows /\ window' = w
      \/ Len(w) > maxRows /\ k \in 0..Len(w) /\ window' = LastOf(w, k)
      BY <1>1, <1>2, <1>4, <1>6
<1>8. window' \in Seq(1..Len(log))  BY <1>4, <1>7, LastOfSeq
<1>9. QED  BY <1>3, <1>4, <1>6, <1>7, <1>8 DEF w, k

\* The rest of TypeOK, for a step that leaves the log and the clock alone.
TypeRest ==
    /\ kind \in {"poll", "runOnce", "evtQuery"}
    /\ phase \in {"reading", "queried", "sending", "off"}
    /\ limit \in Nat /\ horizon \in 0..Len(log)
    /\ stopping \in BOOLEAN
    /\ maxRows \in MinWindowSize..MaxWindowSize /\ resizes \in 0..MaxResizes
    /\ leftover \in Nat

TypeSeqs == {hand, feed, window, sent} \subseteq Seq(1..Len(log))

TypeMarks == /\ cursor \in Cursors /\ DOMAIN missed \subseteq 1..Len(log)
             /\ seeded \in {NoTime} \cup 0..clock

TypeWorld == log \in Seq(0..MaxClock) /\ Len(log) <= MaxLog /\ clock \in 0..MaxClock

LEMMA TypeParts == TypeOK <=> TypeWorld /\ TypeMarks /\ TypeSeqs /\ TypeRest
BY DEF TypeOK, TypeWorld, TypeMarks, TypeSeqs, TypeRest, Cursors

LEMMA TypePartsAfter == TypeOK' <=> TypeWorld' /\ TypeMarks' /\ TypeSeqs' /\ TypeRest'
BY DEF TypeOK, TypeWorld, TypeMarks, TypeSeqs, TypeRest, Cursors

LEMMA TypeStep ==
    ASSUME TypeOK, Marks, [Next]_vars
    PROVE  TypeOK'
<1>0. TypeWorld /\ TypeMarks /\ TypeSeqs /\ TypeRest  BY TypeParts
<1>1. /\ Len(log) \in Nat /\ clock \in Nat /\ MaxClock \in Nat
      /\ maxRows \in Nat /\ Backlog \in Nat
      /\ hand \in Seq(1..Len(log)) /\ feed \in Seq(1..Len(log))
      /\ window \in Seq(1..Len(log)) /\ sent \in Seq(1..Len(log))
      /\ horizon \in 0..Len(log) /\ << >> \in Seq(1..Len(log))
      BY Types, EmptySeq
<1>2. ASSUME NEW R \in SUBSET (1..Len(log)), IsFiniteSet(R)
      PROVE  Ascending(R) \in Seq(1..Len(log))
      <2>1. R \in SUBSET Int  OBVIOUS
      <2>2. Ascending(R) \in Seq(R)  BY <1>2, <2>1, AscendingSorted
      <2>3. R \subseteq 1..Len(log)  OBVIOUS
      <2>4. QED  BY <2>2, <2>3, SeqMonotonic
<1>3. ASSUME UNCHANGED <<log, clock, cursor, missed, seeded>>, TypeSeqs', TypeRest'
      PROVE  TypeOK'
      <2>1. TypeWorld'  BY <1>0, <1>3 DEF TypeWorld
      <2>2. TypeMarks'  BY <1>0, <1>3 DEF TypeMarks, Cursors
      <2>3. QED  BY <1>3, <2>1, <2>2, TypePartsAfter
<1>4. CASE WriteStep
      <2>1. /\ Len(log') = Len(log) + 1 /\ Len(log') <= MaxLog
            /\ log' \in Seq(0..MaxClock)
            /\ UNCHANGED <<clock, kind, source, stopping, view, seen>>
            BY <1>4, WriteEffect
      <2>2. TypeWorld'  BY <1>0, <2>1 DEF TypeWorld
      <2>3. /\ 1..Len(log) \subseteq 1..Len(log') /\ 0..Len(log) \subseteq 0..Len(log')
            BY <1>1, <2>1
      <2>4. TypeMarks'  BY <1>0, <2>1, <2>3 DEF TypeMarks, Cursors, source, seen
      <2>5. TypeSeqs'
            <3>1. ASSUME NEW q \in Seq(1..Len(log))  PROVE q \in Seq(1..Len(log'))
                  BY <2>3, SeqMonotonic
            <3>2. UNCHANGED <<hand, feed, window, sent>>  BY <2>1 DEF source, view, seen
            <3>3. QED  BY <1>1, <3>1, <3>2 DEF TypeSeqs
      <2>6. TypeRest'  BY <1>0, <2>1, <2>3 DEF TypeRest, source, view, seen
      <2>7. QED  BY <2>2, <2>4, <2>5, <2>6, TypePartsAfter
<1>5. CASE Tick
      <2>1. /\ clock' = clock + 1 /\ clock < MaxClock
            /\ UNCHANGED <<log, kind, source, stopping, view, seen>>
            BY <1>5 DEF Tick
      <2>2. clock' \in 0..MaxClock /\ 0..clock \subseteq 0..clock'  BY <1>1, <2>1
      <2>3. TypeWorld'  BY <1>0, <2>1, <2>2 DEF TypeWorld
      <2>4. TypeMarks'  BY <1>0, <2>1, <2>2 DEF TypeMarks, Cursors, source, seen
      <2>5. TypeSeqs' /\ TypeRest'
            BY <1>0, <2>1 DEF TypeSeqs, TypeRest, source, view, seen
      <2>6. QED  BY <2>3, <2>4, <2>5, TypePartsAfter
<1>6. ASSUME NEW R \in {Found, {}}, EndPoll(R)  PROVE TypeOK'
      <2>1. /\ phase' = "sending" /\ hand' = Ascending(R)
            /\ UNCHANGED <<log, clock, kind, limit, horizon, stopping, view, sent, leftover>>
            /\ DOMAIN missed' \subseteq ((cursor.rid + 1)..horizon) \cup DOMAIN missed
            BY <1>6 DEF EndPoll, InOrder, world
      <2>2. PICK newest \in Int : PollMarks(R, newest)
            BY <1>6, PollSetsMarks DEF Marks
      <2>3. R \in SUBSET (1..Len(log)) /\ IsFiniteSet(R)
            BY FoundFacts, FS_EmptySet
      <2>4. TypeSeqs'
            BY <1>1, <1>2, <2>1, <2>3 DEF TypeSeqs, view
      <2>5. TypeRest'  BY <1>0, <2>1 DEF TypeRest, view
      <2>6. TypeWorld'  BY <1>0, <2>1 DEF TypeWorld
      <2>7. cursor.rid \in 0..Len(log) /\ cursor.time \in {NoTime} \cup 0..clock
            /\ seeded \in {NoTime} \cup 0..clock
            BY Types
      <2>8. newest \in {NoTime} \cup 0..clock
            <3>1. newest \in {log[r] : r \in R} \cup {cursor.time}  BY <2>2 DEF PollMarks
            <3>2. \A r \in R : log[r] \in 0..clock  BY <2>3 DEF Marks, Stamps
            <3>3. QED  BY <2>7, <3>1, <3>2
      <2>9. /\ cursor'.rid \in 0..Len(log)
            /\ cursor'.time \in {NoTime} \cup 0..clock /\ cursor'.first \in BOOLEAN
            /\ seeded' \in {NoTime} \cup 0..clock
            <3>1. cursor'.rid \in R \cup {cursor.rid}  BY <2>2 DEF PollMarks
            <3>2. cursor'.rid \in 0..Len(log)
                  <4>1. CASE cursor'.rid \in R
                        <5>1. cursor'.rid \in 1..Len(log)  BY <2>3, <4>1
                        <5>2. QED  BY <5>1
                  <4>2. CASE cursor'.rid = cursor.rid  BY <2>7, <4>2
                  <4>3. QED  BY <3>1, <4>1, <4>2
            <3>3. /\ cursor'.time = IF cursor.first /\ newest = NoTime THEN clock ELSE newest
                  /\ cursor'.first = FALSE
                  /\ seeded' = IF cursor.first /\ newest = NoTime THEN clock ELSE seeded
                  BY <2>2 DEF PollMarks
            <3>4. clock \in 0..clock  BY <1>1
            <3>5. QED  BY <2>7, <2>8, <3>2, <3>3, <3>4
      <2>10. cursor' \in Cursors
            <3>1. PICK a, b, c : cursor' = [rid |-> a, time |-> b, first |-> c]
                  BY <1>6 DEF EndPoll
            <3>2. a \in 0..Len(log) /\ b \in {NoTime} \cup 0..clock /\ c \in BOOLEAN
                  BY <2>9, <3>1
            <3>3. QED  BY <3>1, <3>2 DEF Cursors
      <2>11. DOMAIN missed' \subseteq 1..Len(log)
            <3>1. (cursor.rid + 1)..horizon \subseteq 1..Len(log)  BY <1>1, <2>7
            <3>2. QED  BY <1>0, <2>1, <3>1 DEF TypeMarks
      <2>12. TypeMarks'  BY <2>1, <2>9, <2>10, <2>11 DEF TypeMarks, Cursors
      <2>13. QED  BY <2>4, <2>5, <2>6, <2>12, TypePartsAfter
<1>7. CASE StartStep
      <2>1. /\ UNCHANGED <<log, clock, kind, feed, window, maxRows, resizes>>
            /\ stopping' = FALSE
            /\ phase' = "reading" /\ cursor' = Fresh /\ limit' \in {maxRows, Backlog}
            /\ horizon' = 0 /\ hand' = << >> /\ sent' = << >> /\ missed' = << >>
            /\ seeded' = NoTime /\ leftover' = Len(feed)
            BY <1>7 DEF StartStep, ReRead, Restarted, NewSource, world, view
      <2>2. TypeWorld'  BY <1>0, <2>1 DEF TypeWorld
      <2>3. TypeSeqs'  BY <1>1, <2>1 DEF TypeSeqs
      <2>4. Len(feed) \in Nat /\ 0 \in 0..Len(log)  BY <1>1, LenProperties
      <2>5. TypeRest'  BY <1>0, <1>1, <2>1, <2>4 DEF TypeRest
      <2>6. Fresh \in Cursors  BY <2>4 DEF Fresh, Cursors
      <2>7. DOMAIN missed' = {}  BY <2>1
      <2>8. TypeMarks'  BY <2>1, <2>6, <2>7 DEF TypeMarks, Cursors
      <2>9. QED  BY <2>2, <2>3, <2>5, <2>8, TypePartsAfter
<1>8. CASE OtherStep
      <2>1. UNCHANGED <<log, clock, cursor, missed, seeded>>  BY <1>8, OtherKeepsMarks
      <2>2. CASE Query
            <3>1. TypeSeqs'  BY <1>0, <2>1, <2>2 DEF Query, TypeSeqs, view, seen
            <3>2. Len(log) \in 0..Len(log)  BY <1>1
            <3>3. TypeRest'  BY <1>0, <2>1, <2>2, <3>2 DEF Query, TypeRest, view, seen
            <3>4. QED  BY <1>3, <2>1, <3>1, <3>3
      <2>3. ASSUME NEW k \in 0..MaxLog, EndBacklogRead(k)  PROVE TypeOK'
            <3>1. /\ hand' = Ascending(Newest(Found, k)) /\ phase' = "sending"
                  /\ UNCHANGED <<kind, limit, horizon, stopping, view, sent, leftover>>
                  BY <2>3 DEF EndBacklogRead, InOrder, seen
            <3>2. Newest(Found, k) \in SUBSET Found  BY DEF Newest
            <3>3. Newest(Found, k) \in SUBSET (1..Len(log)) /\ IsFiniteSet(Newest(Found, k))
                  BY <3>2, FoundFacts, FS_Subset
            <3>4. TypeSeqs'  BY <1>1, <1>2, <2>1, <3>1, <3>3 DEF TypeSeqs, view
            <3>5. TypeRest'  BY <1>0, <2>1, <3>1 DEF TypeRest, view
            <3>6. QED  BY <1>3, <2>1, <3>4, <3>5
      <2>4. CASE EndPollFailed \/ SendDone \/ Abort
            <3>1. /\ phase' \in {"reading", "sending", "off"} /\ hand' \in {hand, << >>}
                  /\ UNCHANGED <<kind, limit, horizon, stopping, view, sent, leftover>>
                  BY <2>4 DEF EndPollFailed, SendDone, Abort, seen
            <3>2. TypeSeqs'  BY <1>1, <2>1, <3>1 DEF TypeSeqs, view
            <3>3. TypeRest'  BY <1>0, <2>1, <3>1 DEF TypeRest, view
            <3>4. QED  BY <1>3, <2>1, <3>2, <3>3
      <2>5. CASE Send
            <3>1. /\ hand # << >> /\ hand' = Tail(hand) /\ sent' = Append(sent, Head(hand))
                  /\ feed' \in {feed, Append(feed, Head(hand))}
                  /\ UNCHANGED <<kind, phase, limit, horizon, stopping, window, maxRows,
                                 resizes, leftover>>
                  BY <2>5 DEF Send
            <3>2. Head(hand) \in 1..Len(log) /\ Tail(hand) \in Seq(1..Len(log))
                  BY <1>1, <3>1, HeadTail
            <3>3. /\ Append(sent, Head(hand)) \in Seq(1..Len(log))
                  /\ Append(feed, Head(hand)) \in Seq(1..Len(log))
                  BY <1>1, <3>2, AppendProperties
            <3>4. TypeSeqs'  BY <1>1, <2>1, <3>1, <3>2, <3>3 DEF TypeSeqs
            <3>5. TypeRest'  BY <1>0, <2>1, <3>1 DEF TypeRest
            <3>6. QED  BY <1>3, <2>1, <3>4, <3>5
      <2>6. CASE Apply
            <3>1. window' \in Seq(1..Len(log)) /\ feed' \in Seq(1..Len(log))
                  BY <2>6, ApplyEffect
            <3>2. UNCHANGED <<kind, source, stopping, maxRows, resizes, seen>>
                  BY <2>6 DEF Apply
            <3>3. TypeSeqs'  BY <1>1, <2>1, <3>1, <3>2 DEF TypeSeqs, source, seen
            <3>4. TypeRest'  BY <1>0, <2>1, <3>2 DEF TypeRest, source, seen
            <3>5. QED  BY <1>3, <2>1, <3>3, <3>4
      <2>7. ASSUME NEW n \in Requests, Resize(n)  PROVE TypeOK'
            <3>1. /\ resizes < MaxResizes /\ resizes' = resizes + 1
                  /\ maxRows' = Clamp(n) /\ window' = << >> /\ stopping' = TRUE
                  /\ UNCHANGED <<kind, source, feed, seen>>
                  BY <2>7 DEF Resize
            <3>2. maxRows' \in MinWindowSize..MaxWindowSize
                  BY <3>1, ClampRange, CursorAssumption
            <3>3. resizes' \in 0..MaxResizes
                  <4>1. resizes \in 0..MaxResizes /\ MaxResizes \in Nat
                        BY <1>0, CursorAssumption DEF TypeRest
                  <4>2. QED  BY <3>1, <4>1
            <3>4. TypeSeqs'  BY <1>1, <2>1, <3>1 DEF TypeSeqs, source, seen
            <3>5. TypeRest'  BY <1>0, <2>1, <3>1, <3>2, <3>3 DEF TypeRest, source, seen
            <3>6. QED  BY <1>3, <2>1, <3>4, <3>5
      <2>8. CASE Restart \/ UNCHANGED vars
            <3>1. /\ stopping' \in {stopping, TRUE}
                  /\ UNCHANGED <<kind, source, view, seen>>
                  BY <2>8 DEF Restart, vars
            <3>2. TypeSeqs'  BY <1>1, <2>1, <3>1 DEF TypeSeqs, source, view, seen
            <3>3. TypeRest'  BY <1>0, <2>1, <3>1 DEF TypeRest, source, view, seen
            <3>4. QED  BY <1>3, <2>1, <3>2, <3>3
      <2>9. QED
            BY <1>8, <2>2, <2>3, <2>4, <2>5, <2>6, <2>7, <2>8 DEF OtherStep
<1>9. QED  BY <1>4, <1>5, <1>6, <1>7, <1>8, NextCases

-----------------------------------------------------------------------------
(* The way into the window.                                                *)

\* What is in the window, the feed and sent are numbers.
LEMMA Numbers ==
    ASSUME TypeOK
    PROVE  /\ window \in Seq(Nat) /\ feed \in Seq(Nat) /\ sent \in Seq(Nat)
           /\ hand \in Seq(Nat) /\ << >> \in Seq(Nat)
<1>1. 1..Len(log) \subseteq Nat  OBVIOUS
<1>2. QED  BY <1>1, Types, SeqMonotonic, EmptySeq

\* The first element of t goes over to s, behind q.
LEMMA TakeOverBehind ==
    ASSUME NEW q \in Seq(Nat), NEW s \in Seq(Nat), NEW t \in Seq(Nat), t # << >>
    PROVE  (q \o Append(s, Head(t))) \o Tail(t) = (q \o s) \o t
<1>1. Head(t) \in Nat /\ Tail(t) \in Seq(Nat)  BY HeadTail
<1>2. <<Head(t)>> \in Seq(Nat)  BY <1>1
<1>3. Append(s, Head(t)) = s \o <<Head(t)>>  BY <1>1, AppendIsConcat
<1>4. q \o (s \o <<Head(t)>>) = (q \o s) \o <<Head(t)>>
      BY <1>2, ConcatAssociative
<1>5. q \o s \in Seq(Nat)  BY ConcatProperties
<1>6. (q \o s) \o <<Head(t)>> = Append(q \o s, Head(t))  BY <1>1, <1>5, AppendIsConcat
<1>7. Append(q \o s, Head(t)) \o Tail(t) = (q \o s) \o t  BY <1>5, TakeOver
<1>8. QED  BY <1>3, <1>4, <1>6, <1>7

LEMMA AppendBehind ==
    ASSUME NEW q \in Seq(Nat), NEW s \in Seq(Nat), NEW e \in Nat
    PROVE  q \o Append(s, e) = (q \o s) \o <<e>>
<1>1. <<e>> \in Seq(Nat)  OBVIOUS
<1>2. Append(s, e) = s \o <<e>>  BY AppendIsConcat
<1>3. QED  BY <1>1, <1>2, ConcatAssociative

\* addEntry, without and with a bulk trim.
LEMMA FollowsApply ==
    ASSUME TypeOK, Apply, NEW before \in Seq(Nat), NEW old \in Seq(Nat),
           Follows(before, old)
    PROVE  \E b \in Seq(Nat) : Follows(b, old)'
<1> DEFINE w == Append(window, Head(feed))
           k == KeepRows(maxRows)
<1>1. /\ k \in 1..maxRows /\ Len(w) = Len(window) + 1
      /\ \/ Len(w) <= maxRows /\ window' = w
         \/ Len(w) > maxRows /\ k \in 0..Len(w) /\ window' = LastOf(w, k)
      BY ApplyEffect
<1>2. /\ feed # << >> /\ feed' = Tail(feed)
      /\ UNCHANGED <<sent, maxRows, leftover>>
      BY DEF Apply, seen
<1>3. /\ window \in Seq(Nat) /\ feed \in Seq(Nat) /\ sent \in Seq(Nat)
      /\ maxRows \in Nat /\ Len(window) \in Nat /\ Len(before) \in Nat
      BY Numbers, Types, LenProperties
<1>4. /\ Len(old) = leftover /\ (before \o window) \o feed = old \o sent
      /\ before # << >> => Len(window) >= k /\ Len(before) + Len(window) > maxRows
      BY DEF Follows
<1>5. w \in Seq(Nat)
      <2>1. Head(feed) \in Nat  BY <1>2, <1>3, HeadTail
      <2>2. QED  BY <1>3, <2>1, AppendProperties
<1>6. (before \o w) \o feed' = old \o sent'
      BY <1>2, <1>3, <1>4, TakeOverBehind
<1> HIDE DEF w
<1>7. k = KeepRows(maxRows) /\ k' = k /\ k \in Nat  BY <1>1, <1>2, <1>3 DEF KeepRows
<1> HIDE DEF k
<1>8. CASE Len(w) <= maxRows /\ window' = w
      <2>1. before # << >> => Len(w) >= k /\ Len(before) + Len(w) > maxRows
            BY <1>1, <1>3, <1>4, <1>7
      <2>2. Follows(before, old)'
            BY <1>2, <1>4, <1>6, <1>7, <1>8, <2>1 DEF Follows
      <2>3. QED  BY <2>2
<1>9. CASE Len(w) > maxRows /\ k \in 0..Len(w) /\ window' = LastOf(w, k)
      <2> DEFINE t == LastOf(w, k)
      <2>1. t \in Seq(Nat) /\ Len(t) = k
            BY <1>5, <1>9, LastOfSeq
      <2>2. PICK c \in Seq(Nat) : Len(c) = Len(w) - k /\ w = c \o t
            BY <1>5, <1>9, LastOfSeq
      <2>0. window' = t  BY <1>9
      <2> HIDE DEF t
      <2>3. before \o c \in Seq(Nat) /\ Len(before \o c) = Len(before) + Len(c)
            BY ConcatProperties
      <2>4. (before \o c) \o t = before \o w
            <3>1. t \in Seq(Nat)  BY <2>1
            <3>2. (before \o c) \o t = before \o (c \o t)
                  BY ONLY before \in Seq(Nat), c \in Seq(Nat), <3>1, ConcatAssociative
            <3>3. w = c \o t  BY <2>2
            <3>4. QED  BY <3>2, <3>3, Zenon
      <2>5. ((before \o c) \o window') \o feed' = old \o sent'
            BY <1>6, <2>0, <2>4
      <2>6. Len(window') = k /\ k <= maxRows  BY <1>1, <1>3, <2>0, <2>1
      <2>7. Len(before \o c) + k > maxRows
            <3>1. /\ Len(before \o c) = Len(before) + (Len(w) - k)
                  /\ Len(before) \in Nat /\ Len(w) \in Nat /\ k \in Nat
                  /\ maxRows \in Nat /\ Len(w) > maxRows
                  BY <1>3, <1>5, <1>7, <1>9, <2>2, <2>3, LenProperties
            <3>2. QED  BY <3>1
      <2>8. Len(window') >= k /\ Len(before \o c) + Len(window') > maxRows
            BY <1>7, <2>6, <2>7
      <2>9. Follows(before \o c, old)'
            BY <1>2, <1>4, <1>7, <2>5, <2>6, <2>8 DEF Follows
      <2>10. QED  BY <2>3, <2>9
<1>10. QED  BY <1>1, <1>8, <1>9

\* Nothing of the feed and the window changes.
LEMMA WindowKept ==
    ASSUME WindowFollows,
           UNCHANGED <<kind, stopping, window, feed, sent, leftover, maxRows>>
    PROVE  WindowFollows'
<1>1. HistoryMode' <=> HistoryMode  BY DEF HistoryMode
<1>2. CASE ~HistoryMode  BY <1>1, <1>2 DEF WindowFollows
<1>3. CASE HistoryMode /\ stopping  BY <1>3 DEF WindowFollows
<1>4. CASE HistoryMode /\ ~stopping
      <2>1. PICK before, old \in Seq(Nat) : Follows(before, old)
            BY <1>4 DEF WindowFollows
      <2>2. Follows(before, old)'  BY <2>1 DEF Follows
      <2>3. QED  BY <1>4, <2>2 DEF WindowFollows
<1>5. QED  BY <1>2, <1>3, <1>4

LEMMA WindowStep ==
    ASSUME TypeOK, WindowFollows, [Next]_vars
    PROVE  WindowFollows'
<1>1. kind' = kind  
      BY NextCases DEF WriteStep, StartStep, OtherStep, Write, Tick, Query, EndBacklogRead,
         EndPollFailed, EndPoll, Send, SendDone, Abort, Apply, Resize, ReRead, Restart,
         Restarted, vars
<1>2. CASE ~HistoryMode  BY <1>1, <1>2 DEF WindowFollows, HistoryMode
<1> SUFFICES ASSUME HistoryMode  PROVE WindowFollows'
    BY <1>2
<1>3. HistoryMode' /\ kind # "poll"  BY <1>1 DEF HistoryMode
<1>4. CASE WriteStep \/ Tick \/ (\E R \in {Found, {}} : EndPoll(R))
      BY <1>4, WindowKept DEF WriteStep, Write, Tick, EndPoll, view, seen
<1>5. CASE StartStep
      <2>1. /\ stopping /\ stopping' = FALSE /\ sent' = << >> /\ leftover' = Len(feed)
            /\ UNCHANGED <<feed, window, maxRows>>
            BY <1>3, <1>5 DEF StartStep, ReRead, Restarted, NewSource, view
      <2>2. window = << >>  BY <2>1 DEF WindowFollows
      <2>3. feed \in Seq(Nat) /\ << >> \in Seq(Nat) /\ maxRows \in Nat
            BY Numbers, Types
      <2>4. (<< >> \o << >>) \o feed = feed \o << >>
            BY <2>3, ConcatEmptySeq
      <2>5. Len(<< >>) = 0  OBVIOUS
      <2>6. Follows(<< >>, feed)'
            BY <2>1, <2>2, <2>3, <2>4, <2>5 DEF Follows
      <2>7. PICK f : f = feed  OBVIOUS
      <2>8. Follows(<< >>, f)' /\ f \in Seq(Nat)  BY <2>1, <2>3, <2>6, <2>7
      <2>9. QED  BY <2>1, <2>3, <2>8 DEF WindowFollows
<1>6. CASE Query \/ (\E k \in 0..MaxLog : EndBacklogRead(k)) \/ EndPollFailed
           \/ SendDone \/ Abort \/ Restart \/ UNCHANGED vars
      BY <1>3, <1>6, WindowKept
      DEF Query, EndBacklogRead, EndPollFailed, SendDone, Abort, Restart, vars, view, seen
<1>7. CASE Send
      <2>1. /\ hand # << >> /\ sent' = Append(sent, Head(hand))
            /\ feed' = Append(feed, Head(hand))
            /\ UNCHANGED <<stopping, window, maxRows, leftover>>
            BY <1>7 DEF Send
      <2>2. CASE stopping  BY <2>1, <2>2 DEF WindowFollows
      <2>3. CASE ~stopping
            <3>1. PICK before, old \in Seq(Nat) : Follows(before, old)
                  BY <2>3 DEF WindowFollows
            <3>2. /\ feed \in Seq(Nat) /\ sent \in Seq(Nat) /\ window \in Seq(Nat)
                  /\ Head(hand) \in Nat
                  <4>1. hand \in Seq(Nat)  BY Numbers
                  <4>2. Head(hand) \in Nat  BY <2>1, <4>1, HeadTail
                  <4>3. QED  BY <4>2, Numbers
            <3>3. before \o window \in Seq(Nat)  BY <3>2, ConcatProperties
            <3>4. (before \o window) \o feed = old \o sent  BY <3>1 DEF Follows
            <3>5. (before \o window) \o feed' = old \o sent'
                  <4>1. PICK p \in Seq(Nat), e \in Nat :
                           p = before \o window /\ e = Head(hand)
                        BY <3>2, <3>3
                  <4>2. p \o feed = old \o sent  BY <3>4, <4>1
                  <4>3. p \o Append(feed, e) = (p \o feed) \o <<e>>
                        BY <3>2, <4>1, AppendBehind
                  <4>4. old \o Append(sent, e) = (old \o sent) \o <<e>>
                        BY <3>1, <3>2, <4>1, AppendBehind
                  <4>5. QED  BY <2>1, <4>1, <4>2, <4>3, <4>4
            <3>6. Follows(before, old)'  BY <2>1, <3>1, <3>5 DEF Follows
            <3>7. QED  BY <2>1, <2>3, <3>6 DEF WindowFollows
      <2>4. QED  BY <2>2, <2>3
<1>8. CASE Apply
      <2>1. ~stopping /\ stopping' = stopping  BY <1>8 DEF Apply
      <2>2. PICK before, old \in Seq(Nat) : Follows(before, old)
            BY <2>1 DEF WindowFollows
      <2>3. \E b \in Seq(Nat) : Follows(b, old)'  BY <1>8, <2>2, FollowsApply
      <2>4. QED  BY <2>1, <2>3 DEF WindowFollows
<1>9. CASE \E n \in Requests : Resize(n)
      <2>1. window' = << >> /\ stopping' = TRUE  BY <1>9 DEF Resize
      <2>2. QED  BY <2>1 DEF WindowFollows
<1>10. QED  BY <1>4, <1>5, <1>6, <1>7, <1>8, <1>9, NextCases DEF OtherStep

-----------------------------------------------------------------------------
(* The theorems.                                                           *)

LEMMA InitHolds ==
    ASSUME Init
    PROVE  IInv
<1>1. /\ log = << >> /\ clock = 0 /\ kind \in {"poll", "runOnce", "evtQuery"}
      /\ phase = "reading" /\ cursor = Fresh /\ limit \in {Backlog, maxRows}
      /\ horizon = 0 /\ hand = << >> /\ resizes = 0
      /\ stopping = FALSE /\ feed = << >> /\ window = << >>
      /\ sent = << >> /\ missed = << >> /\ seeded = NoTime /\ leftover = 0
      BY DEF Init
<1>2. PICK n \in Requests : maxRows = Clamp(n)  BY DEF Init
<1>3. maxRows \in MinWindowSize..MaxWindowSize
      BY <1>2, ClampRange, CursorAssumption
<1>4. /\ maxRows \in Nat /\ Backlog \in Nat /\ MaxLog \in Nat /\ MaxClock \in Nat
      /\ MaxResizes \in Nat
      BY <1>3, LimitsAssumption, CursorAssumption
<1>5. Len(<< >>) = 0 /\ DOMAIN << >> = {} /\ << >> \o << >> = << >>  OBVIOUS
<1>6. TypeOK
      <2>1. TypeWorld  BY <1>1, <1>4, <1>5, EmptySeq DEF TypeWorld
      <2>2. cursor \in Cursors  BY <1>1, <1>5 DEF Cursors, Fresh
      <2>3. TypeMarks  BY <1>1, <1>5, <2>2 DEF TypeMarks
      <2>4. TypeSeqs  BY <1>1, EmptySeq DEF TypeSeqs
      <2>5. limit \in Nat /\ horizon \in 0..Len(log) /\ resizes \in 0..MaxResizes
            /\ leftover \in Nat /\ stopping \in BOOLEAN
            <3>1. limit \in Nat  BY <1>1, <1>4
            <3>2. 0 \in 0..0 /\ 0 \in 0..MaxResizes  BY <1>4
            <3>3. QED  BY <1>1, <1>5, <3>1, <3>2
      <2>6. TypeRest  BY <1>1, <1>3, <2>5 DEF TypeRest
      <2>7. QED  BY <2>1, <2>3, <2>4, <2>6, TypeParts
<1>7. Marks
      <2>1. Stamps  BY <1>1, <1>5 DEF Stamps
      <2>2. FirstPoll /\ AheadInTime /\ MissedOnlyAtStart
            BY <1>1, <1>5 DEF FirstPoll, AheadInTime, MissedOnlyAtStart, Fresh
      <2>3. QED  BY <2>1, <2>2 DEF Marks
<1>8. Hands
      <2>1. Taken = << >>  BY <1>1, <1>5 DEF Taken
      <2>2. ReadsOnce  BY <1>1 DEF ReadsOnce, Fresh
      <2>3. OncePerSource  BY <1>5, <2>1 DEF OncePerSource, Taken
      <2>4. BelowMark  BY <1>5, <2>1 DEF BelowMark
      <2>5. TakesLatest  BY <1>1 DEF TakesLatest
      <2>6. QED  BY <2>2, <2>3, <2>4, <2>5 DEF Hands
<1>9. WindowFollows
      <2>1. Follows(<< >>, << >>)  BY <1>1, <1>4, <1>5 DEF Follows
      <2>2. << >> \in Seq(Nat)  BY EmptySeq
      <2>3. QED  BY <1>1, <2>1, <2>2 DEF WindowFollows
<1>10. QED  BY <1>6, <1>7, <1>8, <1>9 DEF IInv

\* The marks, the events in hand and the window's share in what was sent are
\* right after every step of a source, the UI thread and the log.
THEOREM Invariant == Spec => []IInv
<1>1. Init => IInv  BY InitHolds
<1>2. IInv /\ [Next]_vars => IInv'
      BY TypeStep, MarksStep, HandsStep, WindowStep DEF IInv
<1>3. QED  BY <1>1, <1>2, PTL DEF Spec

\* Every variable keeps its shape, and no cursor of an EventSource gets ahead
\* of the log.
THEOREM TypeCorrect == Spec => []TypeOK
<1>1. IInv => TypeOK  BY DEF IInv
<1>2. QED  BY <1>1, Invariant, PTL

\* However often poll reads the same seconds again, a source sends no event
\* twice and none before an older one.
THEOREM HandedOverOnce == Spec => []OncePerSource
<1>1. IInv => OncePerSource  BY DEF IInv, Hands
<1>2. QED  BY <1>1, Invariant, PTL

\* A poll loses an event in two ways and no third: by its cap on a burst, as
\* eventlog.go says, and by the time mark an empty first poll sets, which it does
\* not say; late stamps, overlaps and failing polls lose none.
THEOREM LossesAreNamed == Spec => []MissedOnlyAtStart
<1>1. IInv => MissedOnlyAtStart  BY DEF IInv, Marks
<1>2. QED  BY <1>1, Invariant, PTL

LEMMA MinOfTwo ==
    ASSUME NEW a \in Nat, NEW b \in Nat
    PROVE  Min({a, b}) \in Nat /\ Min({a, b}) <= a /\ Min({a, b}) <= b
<1>1. Min({a, b}) = CHOOSE x \in {a, b} : \A y \in {a, b} : x <= y  BY DEF Min
<1>2. \E x \in {a, b} : \A y \in {a, b} : x <= y  OBVIOUS
<1>3. QED  BY <1>1, <1>2

\* The last events of a settled window are the last ones that were sent.
LEMMA WindowEnds ==
    ASSUME TypeOK, NEW before \in Seq(Nat), NEW old \in Seq(Nat),
           Follows(before, old), feed = << >>
    PROVE  /\ Len(before) + Len(window) = leftover + Len(sent)
           /\ \A k \in 0..Len(sent) : k <= Len(window) => \A i \in 1..k :
                 window[Len(window) - k + i] = sent[Len(sent) - k + i]
<1>1. /\ window \in Seq(Nat) /\ sent \in Seq(Nat)
      /\ Len(before) \in Nat /\ Len(window) \in Nat /\ Len(old) \in Nat
      /\ Len(sent) \in Nat
      BY Numbers, LenProperties
<1>2. /\ before \o window \in Seq(Nat)
      /\ Len(before \o window) = Len(before) + Len(window)
      /\ \A j \in 1..(Len(before) + Len(window)) : (before \o window)[j] =
            IF j <= Len(before) THEN before[j] ELSE window[j - Len(before)]
      BY <1>1, ConcatProperties
<1>3. /\ Len(old \o sent) = Len(old) + Len(sent)
      /\ \A j \in 1..(Len(old) + Len(sent)) : (old \o sent)[j] =
            IF j <= Len(old) THEN old[j] ELSE sent[j - Len(old)]
      BY <1>1, ConcatProperties
<1>4. before \o window = old \o sent
      <2>1. (before \o window) \o << >> = before \o window  BY <1>2, ConcatEmptySeq
      <2>2. QED  BY <2>1 DEF Follows
<1>5. Len(old) = leftover  BY DEF Follows
<1>6. Len(before) + Len(window) = Len(old) + Len(sent)  BY <1>2, <1>3, <1>4
<1>7. ASSUME NEW k \in 0..Len(sent), k <= Len(window), NEW i \in 1..k
      PROVE  window[Len(window) - k + i] = sent[Len(sent) - k + i]
      <2> DEFINE j == Len(before) + (Len(window) - k + i)
      <2>1. /\ j \in 1..(Len(before) + Len(window)) /\ ~(j <= Len(before))
            /\ j - Len(before) = Len(window) - k + i
            BY <1>1, <1>7
      <2>2. /\ j \in 1..(Len(old) + Len(sent)) /\ ~(j <= Len(old))
            /\ j - Len(old) = Len(sent) - k + i
            <3>1. k \in Nat /\ i \in Nat /\ 1 <= i /\ i <= k /\ k <= Len(sent)
                  BY <1>1
            <3>2. j - Len(old) = Len(sent) - k + i
                  <4>1. PICK b, w, o, t \in Nat :
                           /\ b = Len(before) /\ w = Len(window)
                           /\ o = Len(old) /\ t = Len(sent)
                        BY <1>1
                  <4>2. b + w = o + t  BY <1>6, <4>1
                  <4>3. (b + (w - k + i)) - o = t - k + i  BY <3>1, <4>1, <4>2
                  <4>4. QED  BY <4>1, <4>3
            <3>3. Len(sent) - k + i \in 1..Len(sent)  BY <1>1, <3>1
            <3>4. j \in Int  BY <1>1, <3>1
            <3> HIDE DEF j
            <3>5. QED  BY <1>1, <3>2, <3>3, <3>4
      <2> HIDE DEF j
      <2>3. (before \o window)[j] = window[Len(window) - k + i]  BY <1>2, <2>1
      <2>4. (old \o sent)[j] = sent[Len(sent) - k + i]  BY <1>3, <2>2
      <2>5. QED  BY <1>4, <2>3, <2>4
<1>8. QED  BY <1>5, <1>6, <1>7

LEMMA Latest ==
    ASSUME IInv
    PROVE  HistoryShowsLatest
<1> SUFFICES ASSUME Settled  PROVE HistoryShowsLatest
    BY DEF HistoryShowsLatest
<1> DEFINE got  == Len(sent)
           kept == IF leftover + got <= maxRows THEN got
                   ELSE Min({got, KeepRows(maxRows)})
<1>0. TypeOK  BY DEF IInv
<1>1. HistoryMode /\ phase = "off" /\ ~stopping /\ feed = << >>  BY DEF Settled
<1>2. PICK before, old \in Seq(Nat) : Follows(before, old)
      BY <1>1 DEF IInv, WindowFollows
<1>3. /\ window \in Seq(Nat) /\ sent \in Seq(Nat) /\ got \in Nat
      /\ Len(window) \in Nat /\ Len(before) \in Nat /\ leftover \in Nat
      /\ maxRows \in Nat \ {0} /\ horizon \in Nat
      BY <1>0, Numbers, Types, LenProperties
<1>4. /\ Len(before) + Len(window) = leftover + got
      /\ \A k \in 0..got : k <= Len(window) => \A i \in 1..k :
            window[Len(window) - k + i] = sent[got - k + i]
      BY <1>0, <1>1, <1>2, WindowEnds
<1>5. \A i \in 1..got : sent[i] = horizon - got + i
      <2>1. hand = << >>  BY <1>1 DEF IInv, Hands, ReadsOnce
      <2>2. Taken = sent  BY <1>3, <2>1, ConcatEmptySeq DEF Taken
      <2>3. QED  BY <1>1, <2>2 DEF IInv, Hands, TakesLatest
<1>6. KeepRows(maxRows) \in Nat  BY <1>3, KeepRowsRange
<1>7. before = << >> => Len(before) = 0  OBVIOUS
<1>8. before # << >> => /\ Len(window) >= KeepRows(maxRows)
                        /\ leftover + got > maxRows
      BY <1>2, <1>4 DEF Follows
<1>9. kept \in 0..got /\ kept <= Len(window)
      <2>1. CASE leftover + got <= maxRows
            <3>1. kept = got /\ Len(before) = 0  BY <1>3, <1>7, <1>8, <2>1
            <3>2. QED  BY <1>3, <1>4, <3>1
      <2>2. CASE ~(leftover + got <= maxRows)
            <3>1. kept = Min({got, KeepRows(maxRows)})  BY <2>2
            <3> HIDE DEF kept
            <3>2. kept \in Nat /\ kept <= got /\ kept <= KeepRows(maxRows)
                  BY <1>3, <1>6, <3>1, MinOfTwo
            <3>3. CASE before = << >>  BY <1>3, <1>4, <1>7, <3>2, <3>3
            <3>4. CASE before # << >>  BY <1>3, <1>6, <1>8, <3>2, <3>4
            <3>5. QED  BY <3>3, <3>4
      <2>3. QED  BY <2>1, <2>2
<1> HIDE DEF kept
<1>10. /\ LastOf(window, kept) \in Seq(Nat) /\ Len(LastOf(window, kept)) = kept
       /\ \A i \in 1..kept : LastOf(window, kept)[i] = window[Len(window) - kept + i]
       <2>1. kept \in 0..Len(window)  BY <1>3, <1>9
       <2>2. QED  BY <1>3, <2>1, LastOfSeq
<1>11. ASSUME NEW i \in 1..kept
       PROVE  LastOf(window, kept)[i] = horizon - kept + i
       <2>1. LastOf(window, kept)[i] = window[Len(window) - kept + i]  BY <1>10
       <2>2. window[Len(window) - kept + i] = sent[got - kept + i]  BY <1>4, <1>9
       <2>3. got - kept + i \in 1..got
             /\ horizon - got + (got - kept + i) = horizon - kept + i
             BY <1>3, <1>9
       <2>4. sent[got - kept + i] = horizon - got + (got - kept + i)
             BY <1>5, <2>3
       <2>5. QED  BY <2>1, <2>2, <2>3, <2>4
<1>12. LastOf(window, kept) = [i \in 1..kept |-> horizon - kept + i]
       <2>1. LastOf(window, kept) = [i \in 1..kept |-> LastOf(window, kept)[i]]
             BY <1>10, LenProperties
       <2>2. QED  BY <1>11, <2>1
<1>13. Len(window) <= leftover + got  BY <1>3, <1>4
<1>14. QED  BY <1>9, <1>12, <1>13 DEF HistoryShowsLatest, kept

\* What a history read leaves in model.all once everything has settled: the last
\* events of the log as of its query, at least a bulk trim's share of them even
\* when entries of an earlier read were still on their way.
THEOREM HistoryIsLatest == Spec => []HistoryShowsLatest
<1>1. IInv => HistoryShowsLatest  BY Latest
<1>2. QED  BY <1>1, Invariant, PTL
=============================================================================
