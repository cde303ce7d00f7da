------------------------ MODULE EventPipeline_proofs ------------------------
(***************************************************************************)
(* EventPipeline implements EventFeed: whatever sources, channel, pump and *)
(* closures do, accepted entries reach the model exactly once and in the   *)
(* order of acceptance.  The argument follows the entries by their number: *)
(* where an entry is (in a source's hand, in the pipe, applied, lost) is   *)
(* decided once, for no number is given out twice.                         *)
(***************************************************************************)
EXTENDS EventPipeline, SequenceLemmas, SequenceTheorems, TLAPS

\* The entries whose fate is decided.
Known == lost \cup Elems(InPipe) \cup Elems(applied)

\* No number is ahead of what the sources have obtained.
Numbered == /\ Known \subseteq 1..offered
            /\ \A i \in 1..Len(srcs) : Elems(srcs[i].held) \subseteq 1..offered

\* What a source holds has not been accepted or lost,
HeldUnknown == \A i \in 1..Len(srcs) : Elems(srcs[i].held) \cap Known = {}

\* and no two sources, replaced ones included, hold the same entry.
HeldApart ==
    /\ \A i, j \in 1..Len(srcs) :
          i # j => Elems(srcs[i].held) \cap Elems(srcs[j].held) = {}
    /\ \A i \in 1..Len(srcs) : \A a, b \in 1..Len(srcs[i].held) :
          a # b => srcs[i].held[a] # srcs[i].held[b]

\* A batch is under way, and a callback has an event, only in their moment.
InHand ==
    /\ pump.pc # "post" => pump.batch = << >>
    /\ \A i \in 1..Len(srcs) : srcs[i].pc = "deliver" => Len(srcs[i].held) = 1

\* A Stop that will start a source still has room for it.
StopReady ==
    ui.pc = "stopping" => /\ ui.then \in Kinds \cup {"exit"}
                          /\ ui.then # "exit" => Len(srcs) < MaxSources

Size(c) == IF c.what = "batch" THEN c.n ELSE 0

\* The posted closures take up exactly the posted entries: ends[j] is where the
\* share of the j-th one ends.
Shares(ends) ==
    /\ ends \in [0..Len(uiQueue) -> 0..Len(posted)]
    /\ ends[0] = 0 /\ ends[Len(uiQueue)] = Len(posted)
    /\ \A j \in 1..Len(uiQueue) : ends[j] = ends[j - 1] + Size(uiQueue[j])
    /\ \A j, k \in 0..Len(uiQueue) : j <= k => ends[j] <= ends[k]

ClosuresCover == \E ends : Shares(ends)

\* Only the current source has a goroutine, and none has one after the exit.
OneGoroutine ==
    \A i \in 1..Len(srcs) : Running(i) => i = cur /\ ui.pc # "exited"

IInv == /\ TypeOK /\ OneGoroutine /\ StopReady
        /\ Numbered /\ HeldUnknown /\ HeldApart /\ InHand /\ ClosuresCover

-----------------------------------------------------------------------------
(* Sequences.                                                              *)

\* The elements of a longer, a joined and a shortened sequence.
LEMMA ElemsAppend ==
    ASSUME NEW S, NEW s \in Seq(S), NEW e \in S
    PROVE  Elems(Append(s, e)) = Elems(s) \cup {e}
<1>1. /\ Len(Append(s, e)) = Len(s) + 1 /\ Len(s) \in Nat
      /\ \A i \in 1..Len(s) : Append(s, e)[i] = s[i]
      /\ Append(s, e)[Len(s) + 1] = e
      BY AppendProperties
<1>2. 1..(Len(s) + 1) = 1..Len(s) \cup {Len(s) + 1}  BY <1>1
<1>3. QED  BY <1>1, <1>2 DEF Elems

LEMMA ElemsConcat ==
    ASSUME NEW S, NEW s \in Seq(S), NEW t \in Seq(S)
    PROVE  Elems(s \o t) = Elems(s) \cup Elems(t)
<1>1. /\ Len(s \o t) = Len(s) + Len(t) /\ Len(s) \in Nat /\ Len(t) \in Nat
      /\ \A i \in 1..(Len(s) + Len(t)) :
            (s \o t)[i] = IF i <= Len(s) THEN s[i] ELSE t[i - Len(s)]
      BY ConcatProperties
<1>2. Elems(s \o t) \subseteq Elems(s) \cup Elems(t)
      <2>1. ASSUME NEW i \in 1..(Len(s) + Len(t))
            PROVE  (s \o t)[i] \in Elems(s) \cup Elems(t)
            BY <1>1 DEF Elems
      <2>2. QED  BY <1>1, <2>1 DEF Elems
<1>3. ASSUME NEW i \in 1..Len(s)  PROVE s[i] \in Elems(s \o t)
      BY <1>1 DEF Elems
<1>4. ASSUME NEW i \in 1..Len(t)  PROVE t[i] \in Elems(s \o t)
      <2>1. Len(s) + i \in 1..(Len(s) + Len(t)) /\ (s \o t)[Len(s) + i] = t[i]
            BY <1>1
      <2>2. QED  BY <1>1, <2>1 DEF Elems
<1>5. QED  BY <1>2, <1>3, <1>4 DEF Elems

LEMMA ElemsCut ==
    ASSUME NEW S, NEW s \in Seq(S), NEW n \in 0..Len(s)
    PROVE  Elems(s) = Elems(SubSeq(s, 1, n)) \cup Elems(SubSeq(s, n + 1, Len(s)))
<1>1. Len(s) \in Nat  BY LenProperties
<1>2. ASSUME NEW i \in 1..Len(s)
      PROVE  s[i] \in Elems(SubSeq(s, 1, n)) \cup Elems(SubSeq(s, n + 1, Len(s)))
      <2>1. CASE i <= n  BY <1>1, <2>1, CutSeq DEF Elems
      <2>2. CASE i > n
            <3>1. /\ i - n \in 1..(Len(s) - n)
                  /\ SubSeq(s, n + 1, Len(s))[i - n] = s[i]
                  BY <1>1, <2>2, CutSeq
            <3>2. QED  BY <3>1, CutSeq DEF Elems
      <2>3. QED  BY <1>1, <2>1, <2>2
<1>3. Elems(SubSeq(s, 1, n)) \subseteq Elems(s)
      BY <1>1, CutSeq DEF Elems
<1>4. ASSUME NEW i \in 1..(Len(s) - n)
      PROVE  SubSeq(s, n + 1, Len(s))[i] \in Elems(s)
      <2>1. i + n \in 1..Len(s)  BY <1>1
      <2>2. QED  BY <2>1, CutSeq DEF Elems
<1>5. Elems(SubSeq(s, n + 1, Len(s))) \subseteq Elems(s)
      BY <1>1, <1>4, CutSeq DEF Elems
<1>6. Elems(s) \subseteq Elems(SubSeq(s, 1, n)) \cup Elems(SubSeq(s, n + 1, Len(s)))
      <2>1. ASSUME NEW x \in Elems(s)
            PROVE  x \in Elems(SubSeq(s, 1, n)) \cup Elems(SubSeq(s, n + 1, Len(s)))
            <3>1. PICK i \in 1..Len(s) : x = s[i]  BY DEF Elems
            <3>2. QED  BY <1>2, <3>1
      <2>2. QED  BY <2>1
<1>7. QED  BY <1>3, <1>5, <1>6

LEMMA ElemsHeadTail ==
    ASSUME NEW S, NEW s \in Seq(S), s # << >>
    PROVE  /\ Head(s) \in S /\ Tail(s) \in Seq(S) /\ Len(s) \in Nat \ {0}
           /\ Len(Tail(s)) = Len(s) - 1 /\ Head(s) = s[1]
           /\ \A i \in 1..(Len(s) - 1) : Tail(s)[i] = s[i + 1]
           /\ Elems(s) = {Head(s)} \cup Elems(Tail(s))
<1>1. Head(s) = s[1]  BY HeadTail
<1>2. /\ Head(s) \in S /\ Tail(s) \in Seq(S) /\ Len(s) \in Nat \ {0}
      /\ Len(Tail(s)) = Len(s) - 1
      /\ \A i \in 1..Len(Tail(s)) : Tail(s)[i] = s[i + 1]
      BY HeadTail
<1>3. ASSUME NEW i \in 1..Len(s)  PROVE s[i] \in {Head(s)} \cup Elems(Tail(s))
      <2>1. CASE i = 1  BY <1>1, <2>1
      <2>2. CASE i # 1
            <3>1. i - 1 \in 1..Len(Tail(s)) /\ Tail(s)[i - 1] = s[i]  BY <1>2, <2>2
            <3>2. QED  BY <3>1 DEF Elems
      <2>3. QED  BY <2>1, <2>2
<1>4. ASSUME NEW i \in 1..Len(Tail(s))  PROVE Tail(s)[i] \in Elems(s)
      <2>1. i + 1 \in 1..Len(s)  BY <1>2
      <2>2. QED  BY <1>2, <2>1 DEF Elems
<1>5. Head(s) \in Elems(s)  BY <1>1, <1>2 DEF Elems
<1>6. QED  BY <1>1, <1>2, <1>3, <1>4, <1>5 DEF Elems

\* Taking the first element of t over to s, behind q.
LEMMA TakeOverBehind ==
    ASSUME NEW q \in Seq(Entries), NEW s \in Seq(Entries), NEW t \in Seq(Entries),
           t # << >>
    PROVE  (q \o Append(s, Head(t))) \o Tail(t) = (q \o s) \o t
<1>1. Head(t) \in Entries /\ Tail(t) \in Seq(Entries)  BY ElemsHeadTail
<1>2. <<Head(t)>> \in Seq(Entries)  BY <1>1
<1>3. Append(s, Head(t)) = s \o <<Head(t)>>  BY <1>1, AppendIsConcat
<1>4. q \o (s \o <<Head(t)>>) = (q \o s) \o <<Head(t)>>
      BY <1>2, ConcatAssociative
<1>5. q \o s \in Seq(Entries)  BY ConcatProperties
<1>6. (q \o s) \o <<Head(t)>> = Append(q \o s, Head(t))  BY <1>1, <1>5, AppendIsConcat
<1>7. Append(q \o s, Head(t)) \o Tail(t) = (q \o s) \o t  BY <1>5, TakeOver
<1>8. QED  BY <1>3, <1>4, <1>6, <1>7

-----------------------------------------------------------------------------
(* What the steps do to the sources.                                       *)

\* Replacing one source of the list.
LEMMA SourceReplaced ==
    ASSUME NEW i \in 1..Len(srcs), NEW x \in Sources, srcs \in Seq(Sources),
           srcs' = [srcs EXCEPT ![i] = x]
    PROVE  /\ srcs' \in Seq(Sources) /\ Len(srcs') = Len(srcs) /\ srcs'[i] = x
           /\ \A j \in 1..Len(srcs) : j # i => srcs'[j] = srcs[j]
BY ExceptSeq

\* n new entries, in a source's hand.
NewEntries(n) == [j \in 1..n |-> offered + j]

\* The fate of what source i holds, x being the source after its step: it gets
\* new entries, keeps what it has, gets the first accepted, or has all refused.
Fate(i, x) ==
    \/ /\ offered' \in offered..MaxEntries
       /\ x.held = NewEntries(offered' - offered)
       /\ UNCHANGED <<entryChan, lost>>
    \/ x.held = srcs[i].held /\ UNCHANGED <<offered, entryChan, lost>>
    \/ /\ srcs[i].held # << >> /\ x.held = Tail(srcs[i].held)
       /\ entryChan' = Append(entryChan, Head(srcs[i].held))
       /\ Len(entryChan) < ChanCap
       /\ UNCHANGED <<offered, lost>>
    \/ /\ x.held = << >> /\ lost' = lost \cup Elems(srcs[i].held)
       /\ UNCHANGED <<offered, entryChan>>

SourceEffect(i, x) ==
    /\ srcs' = [srcs EXCEPT ![i] = x]
    /\ x.kind = srcs[i].kind
    /\ x.pc = "deliver" => Len(x.held) = 1
    /\ x.kind = "EvtSubscribe" \/ srcs[i].pc # "done"
    /\ Fate(i, x)
    /\ UNCHANGED <<historyMode, cur, pumpVars, posted, applied, ui>>
    /\ \/ UNCHANGED uiQueue
       \/ uiQueue' = Append(uiQueue, [what |-> "report", n |-> srcs[i].sent])

\* An assignment to the program counter alone.
LEMMA GotoEffect ==
    ASSUME TypeOK, NEW i \in 1..Len(srcs), NEW pc \in PCs, Goto(i, pc), pc # "deliver",
           srcs[i].kind = "EvtSubscribe" \/ srcs[i].pc # "done",
           UNCHANGED <<historyMode, cur, offered, lost, entryChan, pumpVars, posted,
                       applied, ui>>,
           \/ UNCHANGED uiQueue
           \/ uiQueue' = Append(uiQueue, [what |-> "report", n |-> srcs[i].sent])
    PROVE  \E x \in Sources : SourceEffect(i, x)
<1> DEFINE x == [srcs[i] EXCEPT !.pc = pc]
<1>1. srcs[i] \in Sources  BY ElementOfSeq DEF TypeOK
<1>2. x \in Sources /\ x.held = srcs[i].held /\ x.kind = srcs[i].kind /\ x.pc = pc
      BY <1>1 DEF Sources
<1>3. srcs' = [srcs EXCEPT ![i] = x]  BY DEF Goto
<1>4. Fate(i, x)  BY <1>2 DEF Fate
<1> HIDE DEF x
<1>5. SourceEffect(i, x)  BY <1>2, <1>3, <1>4 DEF SourceEffect
<1>6. QED  BY <1>2, <1>5

\* New entries in hand.
LEMMA ObtainEffect ==
    ASSUME TypeOK, NEW i \in 1..Len(srcs), NEW n \in Nat, NEW pc \in PCs,
           NEW cut \in BOOLEAN, Obtain(i, n, pc, cut), pc = "deliver" => n = 1,
           srcs[i].kind = "EvtSubscribe" \/ srcs[i].pc # "done"
    PROVE  \E x \in Sources : SourceEffect(i, x)
<1> DEFINE x == [srcs[i] EXCEPT !.held = NewEntries(n), !.pc = pc, !.cut = cut]
<1>1. srcs[i] \in Sources /\ offered \in 0..MaxEntries /\ MaxEntries \in Nat
      BY ElementOfSeq, BoundsAssumption DEF TypeOK
<1>2. offered' = offered + n /\ offered' \in offered..MaxEntries
      <2>1. offered' = offered + n /\ offered + n <= MaxEntries  BY DEF Obtain
      <2>2. QED  BY <1>1, <2>1
<1>3. NewEntries(n) \in Seq(Entries) /\ Len(NewEntries(n)) = n
      <2>1. \A j \in 1..n : offered + j \in Entries
            BY <1>1, <1>2 DEF Entries
      <2>2. NewEntries(n) \in [1..n -> Entries]  BY <2>1 DEF NewEntries
      <2>3. QED  BY <2>2
<1>4. /\ x \in Sources /\ x.held = NewEntries(n) /\ x.kind = srcs[i].kind
      /\ x.pc = pc
      BY <1>1, <1>3 DEF Sources
<1>5. srcs' = [srcs EXCEPT ![i] = x]
      BY DEF Obtain, NewEntries
<1>6. Fate(i, x)
      <2>1. offered' - offered = n  BY <1>1, <1>2
      <2>2. UNCHANGED <<entryChan, lost>>  BY DEF Obtain
      <2>3. QED  BY <1>2, <1>4, <2>1, <2>2 DEF Fate
<1> HIDE DEF x
<1>7. UNCHANGED <<historyMode, cur, pumpVars, posted, applied, ui, uiQueue>>
      BY DEF Obtain, uiVars
<1>8. SourceEffect(i, x)  BY <1>3, <1>4, <1>5, <1>6, <1>7 DEF SourceEffect
<1>9. QED  BY <1>4, <1>8

\* Every step of a source is of the one form.
LEMMA SourceSteps ==
    ASSUME TypeOK, InHand, NEW i \in 1..Len(srcs), CallbackBegin(i) \/ SourceStep(i)
    PROVE  \E x \in Sources : SourceEffect(i, x)
<1>0. /\ srcs[i] \in Sources /\ srcs[i].held \in Seq(Entries)
      /\ srcs[i].stop \in BOOLEAN /\ entryChan \in Seq(Entries)
      /\ Len(entryChan) \in Nat /\ ChanCap \in Nat
      <2>1. srcs[i] \in Sources  BY ElementOfSeq DEF TypeOK
      <2>2. srcs[i].held \in Seq(Entries) /\ srcs[i].stop \in BOOLEAN
            BY <2>1 DEF Sources
      <2>3. entryChan \in Seq(Entries)  BY DEF TypeOK
      <2>4. QED  BY <2>1, <2>2, <2>3, LenProperties, BoundsAssumption
<1>1. CASE CallbackBegin(i)
      <2>1. /\ Obtain(i, 1, "deliver", FALSE)
            /\ srcs[i].kind = "EvtSubscribe"
            BY <1>1 DEF CallbackBegin, At
      <2>2. QED  BY <2>1, ObtainEffect DEF PCs
<1>2. CASE CallbackSend(i)
      <2> DEFINE x == [srcs[i] EXCEPT !.held = << >>, !.pc = "listen"]
      <2>1. /\ x \in Sources /\ x.held = << >> /\ x.kind = srcs[i].kind
            /\ x.pc = "listen"
            <3>1. << >> \in Seq(Entries) /\ "listen" \in PCs  BY EmptySeq DEF PCs
            <3>2. QED  BY <1>0, <3>1 DEF Sources
      <2>2. srcs' = [srcs EXCEPT ![i] = x]  BY <1>2 DEF CallbackSend
      <2>3. Len(srcs[i].held) = 1 /\ srcs[i].kind = "EvtSubscribe"
            BY <1>2 DEF CallbackSend, At, InHand
      <2>4. srcs[i].held # << >>  BY <2>3
      <2>5. Tail(srcs[i].held) = << >>
            <3>1. /\ Tail(srcs[i].held) \in Seq(Entries)
                  /\ Len(Tail(srcs[i].held)) = 0
                  BY <1>0, <2>3, <2>4, ElemsHeadTail
            <3>2. QED  BY <3>1, EmptySeq
      <2>6. Elems(srcs[i].held) = {Head(srcs[i].held)}
            <3>1. Elems(srcs[i].held) = {Head(srcs[i].held)} \cup Elems(<< >>)
                  BY <1>0, <2>4, <2>5, ElemsHeadTail
            <3>2. Elems(<< >>) = {}  BY DEF Elems
            <3>3. QED  BY <3>1, <3>2
      <2>7. Fate(i, x)
            <3>1. CASE ChanFull
                  <4>1. lost' = lost \cup Elems(srcs[i].held)
                        /\ UNCHANGED <<offered, entryChan>>
                        BY <1>2, <2>6, <3>1 DEF CallbackSend
                  <4>2. QED  BY <2>1, <4>1 DEF Fate
            <3>2. CASE ~ChanFull
                  <4>1. /\ entryChan' = Append(entryChan, Head(srcs[i].held))
                        /\ Len(entryChan) < ChanCap /\ UNCHANGED <<offered, lost>>
                        BY <1>0, <1>2, <3>2 DEF CallbackSend, ChanFull
                  <4>2. QED  BY <2>1, <2>4, <2>5, <4>1 DEF Fate
            <3>3. QED  BY <3>1, <3>2
      <2> HIDE DEF x
      <2>8. UNCHANGED <<historyMode, cur, pumpVars, posted, applied, ui, uiQueue>>
            BY <1>2 DEF CallbackSend, uiVars
      <2>9. SourceEffect(i, x)  BY <2>1, <2>2, <2>3, <2>7, <2>8 DEF SourceEffect
      <2>10. QED  BY <2>1, <2>9
<1>3. CASE PollCheck(i)
      <2>1. \E pc \in {"done", "poll"} : Goto(i, pc)  BY <1>3 DEF PollCheck
      <2>2. srcs[i].pc # "done"  BY <1>3 DEF PollCheck, At
      <2>3. UNCHANGED <<historyMode, cur, offered, lost, entryChan, pumpVars, uiVars>>
            BY <1>3 DEF PollCheck
      <2>4. QED  BY <2>1, <2>2, <2>3, GotoEffect DEF PCs, uiVars
<1>4. CASE PollReturn(i)
      <2>1. PICK n \in 0..MaxPoll : Obtain(i, n, "send", FALSE)
            BY <1>4 DEF PollReturn
      <2>2. srcs[i].pc # "done" /\ n \in Nat
            BY <1>4, BoundsAssumption DEF PollReturn, At
      <2>3. QED  BY <2>1, <2>2, ObtainEffect DEF PCs
<1>5. CASE PollWait(i)
      <2>1. \E pc \in {"done", "check"} : Goto(i, pc)  BY <1>5 DEF PollWait
      <2>2. srcs[i].pc # "done"  BY <1>5 DEF PollWait, At
      <2>3. UNCHANGED <<historyMode, cur, offered, lost, entryChan, pumpVars, uiVars>>
            BY <1>5 DEF PollWait
      <2>4. QED  BY <2>1, <2>2, <2>3, GotoEffect DEF PCs, uiVars
<1>6. CASE BacklogRead(i)
      <2>1. PICK n \in 0..MaxPoll, cut \in {srcs[i].stop, FALSE} :
               Obtain(i, n, "send", cut)
            BY <1>6 DEF BacklogRead
      <2>2. srcs[i].pc # "done" /\ n \in Nat /\ cut \in BOOLEAN
            <3>1. srcs[i].pc # "done"  BY <1>6 DEF BacklogRead, At
            <3>2. n \in Nat  BY BoundsAssumption
            <3>3. cut \in BOOLEAN  BY <1>0, <2>1
            <3>4. QED  BY <3>1, <3>2, <3>3
      <2>3. QED  BY <2>1, <2>2, ObtainEffect DEF PCs
<1>7. CASE Report(i)
      <2>1. /\ Goto(i, "done") /\ srcs[i].pc # "done"
            /\ uiQueue' = Append(uiQueue, [what |-> "report", n |-> srcs[i].sent])
            /\ UNCHANGED <<historyMode, cur, offered, lost, entryChan, pumpVars, posted,
                           applied, ui>>
            BY <1>7 DEF Report, At
      <2>2. QED  BY <2>1, GotoEffect DEF PCs
<1>8. CASE Send(i)
      <2> DEFINE x == [srcs[i] EXCEPT !.held = Tail(srcs[i].held),
                                      !.sent = srcs[i].sent + 1]
      <2>1. /\ Tail(srcs[i].held) \in Seq(Entries) /\ srcs[i].pc = "send"
            /\ srcs[i].held # << >>
            BY <1>0, <1>8, ElemsHeadTail DEF Send, At
      <2>2. /\ x \in Sources /\ x.held = Tail(srcs[i].held) /\ x.kind = srcs[i].kind
            /\ x.pc = "send"
            <3>1. srcs[i].sent + 1 \in Nat  BY <1>0 DEF Sources
            <3>2. QED  BY <1>0, <2>1, <3>1 DEF Sources
      <2>3. srcs' = [srcs EXCEPT ![i] = x]  BY <1>8 DEF Send
      <2>4. Fate(i, x)
            <3>1. /\ entryChan' = Append(entryChan, Head(srcs[i].held))
                  /\ Len(entryChan) < ChanCap /\ UNCHANGED <<offered, lost>>
                  BY <1>0, <1>8 DEF Send, ChanFull
            <3>2. QED  BY <2>1, <2>2, <3>1 DEF Fate
      <2> HIDE DEF x
      <2>5. UNCHANGED <<historyMode, cur, pumpVars, posted, applied, ui, uiQueue>>
            BY <1>8 DEF Send, uiVars
      <2>6. SourceEffect(i, x)  BY <2>1, <2>2, <2>3, <2>4, <2>5 DEF SourceEffect
      <2>7. QED  BY <2>2, <2>6
<1>9. CASE SendAborted(i)
      <2> DEFINE x == [srcs[i] EXCEPT !.held = << >>, !.pc = "done"]
      <2>1. /\ x \in Sources /\ x.held = << >> /\ x.kind = srcs[i].kind
            /\ x.pc = "done"
            <3>1. << >> \in Seq(Entries) /\ "done" \in PCs  BY EmptySeq DEF PCs
            <3>2. QED  BY <1>0, <3>1 DEF Sources
      <2>2. srcs' = [srcs EXCEPT ![i] = x] /\ srcs[i].pc = "send"
            BY <1>9 DEF SendAborted, At
      <2>3. Fate(i, x)  BY <1>9, <2>1 DEF Fate, SendAborted
      <2> HIDE DEF x
      <2>4. UNCHANGED <<historyMode, cur, pumpVars, posted, applied, ui, uiQueue>>
            BY <1>9 DEF SendAborted, uiVars
      <2>5. SourceEffect(i, x)  BY <2>1, <2>2, <2>3, <2>4 DEF SourceEffect
      <2>6. QED  BY <2>1, <2>5
<1>10. CASE SendFinished(i)
      <2>1. \E pc \in {"wait", "report"} : Goto(i, pc)  BY <1>10 DEF SendFinished
      <2>2. srcs[i].pc # "done"  BY <1>10 DEF SendFinished, At
      <2>3. UNCHANGED <<historyMode, cur, offered, lost, entryChan, pumpVars, uiVars>>
            BY <1>10 DEF SendFinished
      <2>4. QED  BY <2>1, <2>2, <2>3, GotoEffect DEF PCs, uiVars
<1>11. QED
      BY <1>1, <1>2, <1>3, <1>4, <1>5, <1>6, <1>7, <1>8, <1>9, <1>10 DEF SourceStep

-----------------------------------------------------------------------------
(* What the steps do to the pipe.                                          *)

LEMMA PipeType ==
    ASSUME TypeOK
    PROVE  /\ posted \in Seq(Entries) /\ applied \in Seq(Entries)
           /\ pump.batch \in Seq(Entries) /\ pump.pending \in Seq(Entries)
           /\ entryChan \in Seq(Entries) /\ InPipe \in Seq(Entries)
           /\ posted \o pump.batch \in Seq(Entries)
           /\ (posted \o pump.batch) \o pump.pending \in Seq(Entries)
<1>1. /\ posted \in Seq(Entries) /\ applied \in Seq(Entries)
      /\ pump.batch \in Seq(Entries) /\ pump.pending \in Seq(Entries)
      /\ entryChan \in Seq(Entries)
      BY DEF TypeOK, Pumps
<1>2. posted \o pump.batch \in Seq(Entries)  BY <1>1, ConcatProperties
<1>3. (posted \o pump.batch) \o pump.pending \in Seq(Entries)
      BY <1>1, <1>2, ConcatProperties
<1>4. InPipe \in Seq(Entries)  BY <1>1, <1>3, ConcatProperties DEF InPipe
<1>5. QED  BY <1>1, <1>2, <1>3, <1>4

\* An accepted entry is the last of the pipe.
LEMMA AcceptedLast ==
    ASSUME TypeOK, NEW e \in Entries, entryChan' = Append(entryChan, e),
           UNCHANGED <<posted, pump>>
    PROVE  InPipe' = Append(InPipe, e)
<1> DEFINE p == (posted \o pump.batch) \o pump.pending
<1>1. p \in Seq(Entries) /\ entryChan \in Seq(Entries) /\ p \o entryChan \in Seq(Entries)
      BY PipeType, ConcatProperties
<1>2. <<e>> \in Seq(Entries)  OBVIOUS
<1>3. InPipe' = p \o Append(entryChan, e)  BY DEF InPipe
<1>4. InPipe = p \o entryChan  BY DEF InPipe
<1> HIDE DEF p
<1>5. Append(entryChan, e) = entryChan \o <<e>>  BY <1>1, AppendIsConcat
<1>6. Append(p \o entryChan, e) = (p \o entryChan) \o <<e>>  BY <1>1, AppendIsConcat
<1>7. (p \o entryChan) \o <<e>> = p \o (entryChan \o <<e>>)
      BY <1>1, <1>2, ConcatAssociative
<1>8. QED  BY <1>3, <1>4, <1>5, <1>6, <1>7

PumpStep == PumpStop \/ PumpTake \/ PumpTick \/ PumpPost

\* The pump moves entries along the pipe and keeps them in order.
LEMMA PumpMoves ==
    ASSUME TypeOK, InHand, PumpStep
    PROVE  InPipe' = InPipe
<1>0. /\ posted \in Seq(Entries) /\ pump.batch \in Seq(Entries)
      /\ pump.pending \in Seq(Entries) /\ entryChan \in Seq(Entries)
      /\ posted \o pump.batch \in Seq(Entries)
      /\ (posted \o pump.batch) \o pump.pending \in Seq(Entries)
      BY PipeType
<1>1. CASE PumpStop
      <2>1. /\ pump'.pending = pump.pending /\ pump'.batch = pump.batch
            /\ UNCHANGED <<posted, entryChan>>
            BY <1>1 DEF PumpStop, uiVars, TypeOK, Pumps
      <2>2. QED  BY <2>1 DEF InPipe
<1>2. CASE PumpTake
      <2>1. /\ pump'.pending = Append(pump.pending, Head(entryChan))
            /\ pump'.batch = pump.batch /\ entryChan' = Tail(entryChan)
            /\ UNCHANGED posted /\ entryChan # << >>
            BY <1>2 DEF PumpTake, uiVars, TypeOK, Pumps
      <2>2. ((posted \o pump.batch) \o Append(pump.pending, Head(entryChan)))
                \o Tail(entryChan)
              = ((posted \o pump.batch) \o pump.pending) \o entryChan
            <3>1. entryChan # << >>  BY <2>1
            <3>2. QED  BY <1>0, <3>1, TakeOverBehind
      <2>3. QED  BY <2>1, <2>2 DEF InPipe
<1>3. CASE PumpTick
      <2>1. /\ pump'.pending = << >> /\ pump'.batch = pump.pending
            /\ pump.batch = << >> /\ UNCHANGED <<posted, entryChan>>
            BY <1>3 DEF PumpTick, uiVars, InHand
      <2>2. posted \o << >> = posted  BY <1>0, ConcatEmptySeq
      <2>3. posted \o pump.pending \in Seq(Entries)  BY <1>0, ConcatProperties
      <2>4. (posted \o pump.pending) \o << >> = posted \o pump.pending
            BY <2>3, ConcatEmptySeq
      <2>5. QED  BY <2>1, <2>2, <2>4 DEF InPipe
<1>4. CASE PumpPost
      <2>1. /\ pump'.pending = pump.pending /\ pump'.batch = << >>
            /\ posted' = posted \o pump.batch /\ UNCHANGED entryChan
            BY <1>4 DEF PumpPost, TypeOK, Pumps
      <2>2. (posted \o pump.batch) \o << >> = posted \o pump.batch
            BY <1>0, ConcatEmptySeq
      <2>3. QED  BY <2>1, <2>2 DEF InPipe
<1>5. QED  BY <1>1, <1>2, <1>3, <1>4 DEF PumpStep

\* A closure takes its share from the front of the pipe, and nothing else.
LEMMA ClosureApplies ==
    ASSUME TypeOK, ClosuresCover, RunClosure
    PROVE  \E n \in 0..Len(posted) :
              /\ n = Size(Head(uiQueue))
              /\ applied' = applied \o SubSeq(InPipe, 1, n)
              /\ InPipe' = SubSeq(InPipe, n + 1, Len(InPipe))
              /\ posted' = SubSeq(posted, n + 1, Len(posted))
<1>0. /\ posted \in Seq(Entries) /\ pump.batch \in Seq(Entries)
      /\ pump.pending \in Seq(Entries) /\ entryChan \in Seq(Entries)
      /\ posted \o pump.batch \in Seq(Entries)
      /\ (posted \o pump.batch) \o pump.pending \in Seq(Entries)
      BY PipeType
<1> DEFINE n == Size(Head(uiQueue))
<1>1. uiQueue # << >> /\ uiQueue \in Seq(Closures)  BY DEF RunClosure, TypeOK
<1>2. n \in 0..Len(posted)
      <2>1. PICK ends : Shares(ends)  BY DEF ClosuresCover
      <2>2. Len(uiQueue) \in Nat \ {0} /\ Head(uiQueue) = uiQueue[1]
            BY <1>1, ElemsHeadTail
      <2>3. 1 \in 1..Len(uiQueue) /\ 1 - 1 = 0 /\ 1 \in 0..Len(uiQueue)  BY <2>2
      <2>4. ends[1] = ends[0] + n /\ ends[0] = 0 /\ ends[1] \in 0..Len(posted)
            BY <2>1, <2>2, <2>3 DEF Shares
      <2>5. n \in Nat
            <3>1. Head(uiQueue) \in Closures  BY <1>1, ElemsHeadTail
            <3>2. QED  BY <3>1 DEF Size, Closures
      <2>6. QED  BY <2>4, <2>5
<1>3. /\ applied' = applied \o SubSeq(posted, 1, n)
      /\ posted' = SubSeq(posted, n + 1, Len(posted))
      /\ UNCHANGED <<pump, entryChan>>
      BY DEF RunClosure, Size, pumpVars
<1> HIDE DEF n
<1>4. n \in 0..Len(posted \o pump.batch)
      /\ n \in 0..Len((posted \o pump.batch) \o pump.pending)
      <2>1. n \in 0..Len(posted \o pump.batch)  BY <1>0, <1>2, PlaceConcat
      <2>2. QED  BY <1>0, <2>1, PlaceConcat
<1> DEFINE a == posted \o pump.batch
           b == a \o pump.pending
<1>5. /\ SubSeq(a, 1, n) = SubSeq(posted, 1, n)
      /\ SubSeq(a, n + 1, Len(a)) = SubSeq(posted, n + 1, Len(posted)) \o pump.batch
      BY <1>0, <1>2, CutConcat
<1>6. /\ SubSeq(b, 1, n) = SubSeq(a, 1, n)
      /\ SubSeq(b, n + 1, Len(b)) = SubSeq(a, n + 1, Len(a)) \o pump.pending
      BY <1>0, <1>4, CutConcat
<1>7. InPipe = b \o entryChan  BY DEF InPipe
<1>8. /\ SubSeq(InPipe, 1, n) = SubSeq(b, 1, n)
      /\ SubSeq(InPipe, n + 1, Len(InPipe)) = SubSeq(b, n + 1, Len(b)) \o entryChan
      BY <1>0, <1>4, <1>7, CutConcat
<1>9. InPipe' = ((SubSeq(posted, n + 1, Len(posted)) \o pump.batch) \o pump.pending) \o entryChan
      BY <1>3 DEF InPipe
<1> HIDE DEF a, b
<1>10. /\ applied' = applied \o SubSeq(InPipe, 1, n)
       /\ InPipe' = SubSeq(InPipe, n + 1, Len(InPipe))
       BY <1>3, <1>5, <1>6, <1>8, <1>9
<1>11. QED  BY <1>2, <1>3, <1>10 DEF n

\* Applying changes neither the set of decided entries,
LEMMA ClosureKnown ==
    ASSUME TypeOK, ClosuresCover, RunClosure
    PROVE  Known' = Known
<1>1. PICK n \in 0..Len(posted) :
         /\ applied' = applied \o SubSeq(InPipe, 1, n)
         /\ InPipe' = SubSeq(InPipe, n + 1, Len(InPipe))
      BY ClosureApplies
<1>2. InPipe \in Seq(Entries) /\ applied \in Seq(Entries)  BY PipeType
<1>3. n \in 0..Len(InPipe)
      <2>1. n \in 0..Len(posted \o pump.batch)  BY PipeType, PlaceConcat
      <2>2. n \in 0..Len((posted \o pump.batch) \o pump.pending)
            BY <2>1, PipeType, PlaceConcat
      <2>3. QED  BY <2>2, PipeType, PlaceConcat DEF InPipe
<1>4. SubSeq(InPipe, 1, n) \in Seq(Entries)  BY <1>2, <1>3, CutSeq
<1>5. Elems(applied') = Elems(applied) \cup Elems(SubSeq(InPipe, 1, n))
      BY <1>1, <1>2, <1>4, ElemsConcat
<1>6. Elems(InPipe) = Elems(SubSeq(InPipe, 1, n)) \cup Elems(InPipe')
      BY <1>1, <1>2, <1>3, ElemsCut
<1>7. lost' = lost  BY DEF RunClosure, srcVars
<1>8. QED  BY <1>5, <1>6, <1>7 DEF Known, Elems

\* nor does the pump.
LEMMA PumpKnown ==
    ASSUME TypeOK, InHand, PumpStep
    PROVE  Known' = Known
<1>1. InPipe' = InPipe  BY PumpMoves
<1>2. UNCHANGED <<lost, applied>>
      BY DEF PumpStep, PumpStop, PumpTake, PumpTick, PumpPost, srcVars, uiVars
<1>3. QED  BY <1>1, <1>2 DEF Known, Elems

-----------------------------------------------------------------------------
(* What the sources hold.                                                  *)

LEMMA NewEntriesElems ==
    ASSUME offered \in Nat, NEW n \in Nat
    PROVE  /\ Elems(NewEntries(n)) = (offered + 1)..(offered + n)
           /\ \A a, b \in 1..Len(NewEntries(n)) :
                 a # b => NewEntries(n)[a] # NewEntries(n)[b]
<1>1. NewEntries(n) \in Seq(Int) /\ Len(NewEntries(n)) = n
      <2>1. NewEntries(n) \in [1..n -> Int]  BY DEF NewEntries
      <2>2. QED  BY <2>1
<1>2. \A a \in 1..n : NewEntries(n)[a] = offered + a  BY DEF NewEntries
<1>3. \A e \in (offered + 1)..(offered + n) :
         e - offered \in 1..n /\ offered + (e - offered) = e
      OBVIOUS
<1>4. ASSUME NEW e \in (offered + 1)..(offered + n)
      PROVE  e \in Elems(NewEntries(n))
      BY <1>1, <1>2, <1>3 DEF Elems
<1>5. Elems(NewEntries(n)) \subseteq (offered + 1)..(offered + n)
      <2>1. ASSUME NEW a \in 1..n  PROVE offered + a \in (offered + 1)..(offered + n)
            OBVIOUS
      <2>2. QED  BY <1>1, <1>2, <2>1 DEF Elems
<1>6. ASSUME NEW a \in 1..n, NEW b \in 1..n, a # b
      PROVE  NewEntries(n)[a] # NewEntries(n)[b]
      <2>1. offered + a # offered + b  BY <1>6
      <2>2. QED  BY <1>2, <2>1
<1>7. Elems(NewEntries(n)) = (offered + 1)..(offered + n)  BY <1>4, <1>5
<1>8. QED  BY <1>1, <1>6, <1>7

\* A step of one source leaves every entry with one fate at most.
LEMMA HandStep ==
    ASSUME NEW i \in 1..Len(srcs), NEW x \in Sources, srcs \in Seq(Sources),
           srcs' = [srcs EXCEPT ![i] = x],
           offered \in Nat, offered' \in Nat, offered <= offered',
           Numbered, HeldUnknown, HeldApart,
           Known' \subseteq Known \cup Elems(srcs[i].held),
           Elems(x.held) \subseteq Elems(srcs[i].held) \cup ((offered + 1)..offered'),
           Elems(x.held) \cap Known' = {},
           \A a, b \in 1..Len(x.held) : a # b => x.held[a] # x.held[b]
    PROVE  Numbered' /\ HeldUnknown' /\ HeldApart'
<1> DEFINE H(j) == Elems(srcs[j].held)
           G(j) == Elems(srcs'[j].held)
<1>1. /\ Len(srcs') = Len(srcs) /\ srcs'[i] = x
      /\ \A j \in 1..Len(srcs) : j # i => srcs'[j] = srcs[j]
      BY SourceReplaced
<1>2. G(i) = Elems(x.held) /\ \A j \in 1..Len(srcs) : j # i => G(j) = H(j)
      BY <1>1
<1>3. /\ \A j \in 1..Len(srcs) : H(j) \subseteq 1..offered /\ H(j) \cap Known = {}
      /\ \A j, k \in 1..Len(srcs) : j # k => H(j) \cap H(k) = {}
      /\ Known \subseteq 1..offered
      BY DEF Numbered, HeldUnknown, HeldApart
<1>4. /\ Known' \subseteq Known \cup H(i)
      /\ G(i) \subseteq H(i) \cup ((offered + 1)..offered') /\ G(i) \cap Known' = {}
      BY <1>2
<1>5. /\ \A j \in 1..Len(srcs') : G(j) = Elems(srcs[j].held)'
      /\ \A j \in 1..Len(srcs') : Elems(srcs[j].held)' = Elems(srcs'[j].held)
      BY DEF Elems
<1>6. \A e \in 1..offered : e \in 1..offered' /\ e \notin (offered + 1)..offered'
      OBVIOUS
<1>7. (offered + 1)..offered' \subseteq 1..offered'  OBVIOUS
<1>8. \A a, b \in 1..Len(srcs'[i].held) : a # b => srcs'[i].held[a] # srcs'[i].held[b]
      BY <1>1
<1> HIDE DEF G, H
<1>9. \A j \in 1..Len(srcs) : G(j) \subseteq 1..offered'
      BY <1>2, <1>3, <1>4, <1>6, <1>7
<1>10. Known' \subseteq 1..offered'  BY <1>3, <1>4, <1>6
<1>11. \A j \in 1..Len(srcs) : G(j) \cap Known' = {}
      <2>1. ASSUME NEW j \in 1..Len(srcs), j # i  PROVE G(j) \cap Known' = {}
            BY <1>2, <1>3, <1>4, <2>1
      <2>2. QED  BY <1>4, <2>1
<1>12. \A j, k \in 1..Len(srcs) : j # k => G(j) \cap G(k) = {}
      <2>1. ASSUME NEW j \in 1..Len(srcs), j # i  PROVE G(j) \cap G(i) = {}
            <3>1. G(j) = H(j) /\ H(j) \subseteq 1..offered /\ H(j) \cap H(i) = {}
                  BY <1>2, <1>3, <2>1
            <3>2. QED  BY <1>4, <1>6, <3>1
      <2>2. ASSUME NEW j \in 1..Len(srcs), NEW k \in 1..Len(srcs), j # k
            PROVE  G(j) \cap G(k) = {}
            BY <1>2, <1>3, <2>1, <2>2
      <2>3. QED  BY <2>2
<1>13. Numbered'  BY <1>1, <1>5, <1>9, <1>10 DEF Numbered
<1>14. HeldUnknown'  BY <1>1, <1>5, <1>11 DEF HeldUnknown
<1>15. HeldApart'
      <2>1. \A j \in 1..Len(srcs) : \A a, b \in 1..Len(srcs'[j].held) :
               a # b => srcs'[j].held[a] # srcs'[j].held[b]
            <3>1. ASSUME NEW j \in 1..Len(srcs), j # i
                  PROVE  \A a, b \in 1..Len(srcs'[j].held) :
                            a # b => srcs'[j].held[a] # srcs'[j].held[b]
                  BY <1>1, <3>1 DEF HeldApart
            <3>2. QED  BY <1>8, <3>1
      <2>2. QED  BY <1>1, <1>5, <1>12, <2>1 DEF HeldApart
<1>16. QED  BY <1>13, <1>14, <1>15

\* What is known after a source's step, and what the source has then.
LEMMA FateHands ==
    ASSUME TypeOK, NEW i \in 1..Len(srcs), NEW x \in Sources, SourceEffect(i, x),
           Numbered, HeldUnknown, HeldApart
    PROVE  /\ offered' \in offered..MaxEntries
           /\ lost' \subseteq Entries
           /\ Known' \subseteq Known \cup Elems(srcs[i].held)
           /\ Elems(x.held) \subseteq Elems(srcs[i].held) \cup ((offered + 1)..offered')
           /\ Elems(x.held) \cap Known' = {}
           /\ \A a, b \in 1..Len(x.held) : a # b => x.held[a] # x.held[b]
<1> DEFINE h == srcs[i].held
<1>1. /\ srcs[i] \in Sources /\ h \in Seq(Entries)
      /\ offered \in 0..MaxEntries /\ MaxEntries \in Nat /\ lost \subseteq Entries
      /\ entryChan \in Seq(Entries)
      <2>1. srcs[i] \in Sources  BY ElementOfSeq DEF TypeOK
      <2>2. h \in Seq(Entries)  BY <2>1 DEF Sources
      <2>3. QED  BY <2>1, <2>2, BoundsAssumption DEF TypeOK
<1>2. /\ Elems(h) \cap Known = {} /\ Known \subseteq 1..offered
      /\ \A a, b \in 1..Len(h) : a # b => h[a] # h[b]
      BY DEF Numbered, HeldUnknown, HeldApart
<1>3. UNCHANGED <<pump, posted, applied>>  BY DEF SourceEffect, pumpVars
<1>4. Known = lost \cup Elems(InPipe) \cup Elems(applied)
      /\ Known' = lost' \cup Elems(InPipe') \cup Elems(applied')
      BY DEF Known, Elems
<1>5. Elems(<< >>) = {}  BY DEF Elems
<1> HIDE DEF h
<1>6. Elems(h) \subseteq Entries
      <2>1. ASSUME NEW a \in 1..Len(h)  PROVE h[a] \in Entries
            BY <1>1, ElementOfSeq
      <2>2. QED  BY <2>1 DEF Elems
<1>7. Fate(i, x)  BY DEF SourceEffect
<1>8. CASE /\ offered' \in offered..MaxEntries
           /\ x.held = NewEntries(offered' - offered)
           /\ UNCHANGED <<entryChan, lost>>
      <2>1. offered' - offered \in Nat /\ offered + (offered' - offered) = offered'
            /\ offered \in Nat
            <3>1. offered' \in offered..MaxEntries  BY <1>8
            <3>2. offered \in 0..MaxEntries /\ MaxEntries \in Nat  BY <1>1
            <3>3. offered \in Nat /\ offered' \in Nat /\ offered <= offered'
                  BY <3>1, <3>2
            <3>4. \A a, b \in Nat : a <= b => b - a \in Nat /\ a + (b - a) = b
                  OBVIOUS
            <3>5. QED  BY <3>3, <3>4
      <2>2. Elems(x.held) = (offered + 1)..offered'
            /\ \A a, b \in 1..Len(x.held) : a # b => x.held[a] # x.held[b]
            BY <1>8, <2>1, NewEntriesElems
      <2>3. InPipe' = InPipe  BY <1>3, <1>8 DEF InPipe
      <2>4. Known' = Known  BY <1>3, <1>4, <1>8, <2>3
      <2>5. ((offered + 1)..offered') \cap (1..offered) = {}  BY <2>1
      <2>6. Elems(x.held) \cap Known' = {}  BY <1>2, <2>2, <2>4, <2>5
      <2>7. QED  BY <1>1, <1>8, <2>2, <2>4, <2>6
<1>9. CASE x.held = srcs[i].held /\ UNCHANGED <<offered, entryChan, lost>>
      <2>1. InPipe' = InPipe  BY <1>3, <1>9 DEF InPipe
      <2>2. Known' = Known  BY <1>3, <1>4, <1>9, <2>1
      <2>3. x.held = h /\ offered' \in offered..MaxEntries  BY <1>1, <1>9 DEF h
      <2>4. QED  BY <1>1, <1>2, <1>9, <2>2, <2>3 DEF h
<1>10. CASE /\ srcs[i].held # << >> /\ x.held = Tail(srcs[i].held)
            /\ entryChan' = Append(entryChan, Head(srcs[i].held))
            /\ Len(entryChan) < ChanCap
            /\ UNCHANGED <<offered, lost>>
      <2>1. h # << >> /\ x.held = Tail(h) /\ entryChan' = Append(entryChan, Head(h))
            BY <1>10 DEF h
      <2>2. /\ Head(h) \in Entries /\ Len(h) \in Nat \ {0} /\ Head(h) = h[1]
            /\ Len(x.held) = Len(h) - 1
            /\ \A a \in 1..(Len(h) - 1) : x.held[a] = h[a + 1]
            /\ Elems(h) = {Head(h)} \cup Elems(x.held)
            BY <1>1, <2>1, ElemsHeadTail
      <2>3. InPipe' = Append(InPipe, Head(h))  BY <1>3, <2>1, <2>2, AcceptedLast
      <2>4. Elems(InPipe') = Elems(InPipe) \cup {Head(h)}
            BY <2>2, <2>3, PipeType, ElemsAppend
      <2>5. Known' = Known \cup {Head(h)}  BY <1>3, <1>4, <1>10, <2>4
      <2>6. Head(h) \notin Elems(x.held)
            <3>1. ASSUME NEW a \in 1..Len(x.held)  PROVE x.held[a] # Head(h)
                  <4>1. a \in 1..(Len(h) - 1) /\ a + 1 \in 1..Len(h) /\ a + 1 # 1
                        /\ 1 \in 1..Len(h)
                        BY <2>2
                  <4>2. h[a + 1] # h[1]  BY <1>2, <4>1 DEF h
                  <4>3. QED  BY <2>2, <4>1, <4>2
            <3>2. QED  BY <3>1 DEF Elems
      <2>7. \A a, b \in 1..Len(x.held) : a # b => x.held[a] # x.held[b]
            <3>1. ASSUME NEW a \in 1..(Len(h) - 1), NEW b \in 1..(Len(h) - 1), a # b
                  PROVE  x.held[a] # x.held[b]
                  <4>1. a + 1 \in 1..Len(h) /\ b + 1 \in 1..Len(h) /\ a + 1 # b + 1
                        BY <2>2, <3>1
                  <4>2. h[a + 1] # h[b + 1]  BY <1>2, <4>1 DEF h
                  <4>3. QED  BY <2>2, <4>2
            <3>2. QED  BY <2>2, <3>1
      <2>8. Elems(x.held) \cap Known' = {}  BY <1>2, <2>2, <2>5, <2>6 DEF h
      <2>9. offered' \in offered..MaxEntries /\ lost' = lost  BY <1>1, <1>10
      <2>10. QED  BY <1>1, <2>2, <2>5, <2>7, <2>8, <2>9 DEF h
<1>11. CASE /\ x.held = << >> /\ lost' = lost \cup Elems(srcs[i].held)
            /\ UNCHANGED <<offered, entryChan>>
      <2>1. InPipe' = InPipe  BY <1>3, <1>11 DEF InPipe
      <2>2. Known' = Known \cup Elems(h)  BY <1>3, <1>4, <1>11, <2>1 DEF h
      <2>3. Elems(x.held) = {} /\ Len(x.held) = 0  BY <1>5, <1>11
      <2>4. offered' \in offered..MaxEntries /\ lost' \subseteq Entries
            BY <1>1, <1>6, <1>11 DEF h
      <2>5. QED  BY <2>2, <2>3, <2>4 DEF h
<1>12. QED  BY <1>7, <1>8, <1>9, <1>10, <1>11 DEF Fate

-----------------------------------------------------------------------------
(* What the UI thread does to the sources.                                 *)

\* It may stop the current one and start a new one, which holds nothing.
UiEffect ==
    /\ srcs' \in Seq(Sources) /\ Len(srcs') \in Len(srcs)..MaxSources
    /\ \A j \in 1..Len(srcs) : /\ srcs'[j].held = srcs[j].held
                               /\ srcs'[j].pc = srcs[j].pc
                               /\ srcs'[j].kind = srcs[j].kind
    /\ \A j \in 1..Len(srcs') :
          j > Len(srcs) => srcs'[j].held = << >> /\ srcs'[j].pc # "deliver"

LEMMA UiHands ==
    ASSUME UiEffect, srcs \in Seq(Sources), Numbered, HeldUnknown, HeldApart,
           offered' = offered, Known' = Known
    PROVE  Numbered' /\ HeldUnknown' /\ HeldApart'
<1> DEFINE G(j) == Elems(srcs'[j].held)
<1>1. Len(srcs) \in Nat /\ Len(srcs') \in Nat /\ Len(srcs) <= Len(srcs')
      <2>1. Len(srcs) \in Nat  BY LenProperties
      <2>2. srcs' \in Seq(Sources) /\ Len(srcs') \in Len(srcs)..MaxSources
            BY DEF UiEffect
      <2>3. Len(srcs') \in Nat  BY <2>2, LenProperties
      <2>4. QED  BY <2>1, <2>2, <2>3, BoundsAssumption
<1>2. ASSUME NEW j \in 1..Len(srcs')
      PROVE  \/ j \in 1..Len(srcs) /\ srcs'[j].held = srcs[j].held
             \/ j \notin 1..Len(srcs) /\ srcs'[j].held = << >>
      BY <1>1 DEF UiEffect
<1>3. Elems(<< >>) = {} /\ Len(<< >>) = 0  BY DEF Elems
<1>4. \A j \in 1..Len(srcs') : Elems(srcs[j].held)' = G(j)  BY DEF Elems
<1>5. ASSUME NEW j \in 1..Len(srcs')
      PROVE  G(j) \subseteq 1..offered /\ G(j) \cap Known = {}
      BY <1>2, <1>3 DEF Numbered, HeldUnknown
<1>6. ASSUME NEW j \in 1..Len(srcs'), NEW k \in 1..Len(srcs'), j # k
      PROVE  G(j) \cap G(k) = {}
      <2>1. CASE j \in 1..Len(srcs) /\ k \in 1..Len(srcs)
            <3>1. srcs'[j].held = srcs[j].held /\ srcs'[k].held = srcs[k].held
                  BY <2>1 DEF UiEffect
            <3>2. QED  BY <1>6, <2>1, <3>1 DEF HeldApart
      <2>2. CASE j \notin 1..Len(srcs)  BY <1>2, <1>3, <2>2
      <2>3. CASE k \notin 1..Len(srcs)  BY <1>2, <1>3, <2>3
      <2>4. QED  BY <2>1, <2>2, <2>3
<1>7. ASSUME NEW j \in 1..Len(srcs')
      PROVE  \A a, b \in 1..Len(srcs'[j].held) : a # b => srcs'[j].held[a] # srcs'[j].held[b]
      <2>1. CASE j \in 1..Len(srcs)
            <3>1. srcs'[j].held = srcs[j].held  BY <2>1 DEF UiEffect
            <3>2. QED  BY <2>1, <3>1 DEF HeldApart
      <2>2. CASE j \notin 1..Len(srcs)
            <3>1. srcs'[j].held = << >>  BY <1>2, <2>2
            <3>2. 1..Len(srcs'[j].held) = {}  BY <1>3, <3>1
            <3>3. QED  BY <3>2
      <2>3. QED  BY <2>1, <2>2
<1> HIDE DEF G
<1>8. Numbered'
      <2>1. Known' \subseteq 1..offered'  BY DEF Numbered
      <2>2. QED  BY <1>4, <1>5, <2>1 DEF Numbered
<1>9. HeldUnknown'  BY <1>4, <1>5 DEF HeldUnknown
<1>10. HeldApart'  BY <1>4, <1>6, <1>7 DEF HeldApart
<1>11. QED  BY <1>8, <1>9, <1>10

\* The sources after the stop is signalled.
LEMMA StoppedSources ==
    ASSUME TypeOK
    PROVE  /\ Stopped \in Seq(Sources) /\ Len(Stopped) = Len(srcs)
           /\ \A j \in 1..Len(srcs) : /\ Stopped[j].held = srcs[j].held
                                      /\ Stopped[j].pc = srcs[j].pc
                                      /\ Stopped[j].kind = srcs[j].kind
<1>1. srcs \in Seq(Sources) /\ cur = Len(srcs) /\ Len(srcs) \in Nat
      BY LenProperties DEF TypeOK
<1>2. CASE cur = 0  BY <1>1, <1>2 DEF Stopped
<1>3. CASE cur # 0
      <2> DEFINE x == [srcs[cur] EXCEPT !.stop = TRUE]
      <2>1. cur \in 1..Len(srcs) /\ srcs[cur] \in Sources
            BY <1>1, <1>3, ElementOfSeq
      <2>2. /\ x \in Sources /\ x.held = srcs[cur].held /\ x.pc = srcs[cur].pc
            /\ x.kind = srcs[cur].kind
            BY <2>1 DEF Sources
      <2>3. Stopped = [srcs EXCEPT ![cur] = x]  BY <1>3 DEF Stopped
      <2> HIDE DEF x
      <2>4. /\ Stopped \in Seq(Sources) /\ Len(Stopped) = Len(srcs)
            /\ Stopped[cur] = x
            /\ \A j \in 1..Len(srcs) : j # cur => Stopped[j] = srcs[j]
            BY <1>1, <2>1, <2>2, <2>3, ExceptSeq
      <2>5. QED  BY <2>2, <2>4
<1>4. QED  BY <1>2, <1>3

LEMMA UiKeepsRunning ==
    ASSUME UiEffect
    PROVE  \A j \in 1..Len(srcs) : Running(j)' <=> Running(j)
BY DEF UiEffect, Running

LEMMA StoppedEffect ==
    ASSUME TypeOK, srcs' = Stopped
    PROVE  UiEffect /\ Len(srcs') = Len(srcs)
<1>1. Len(srcs) \in Nat /\ Len(srcs) <= MaxSources /\ MaxSources \in Nat
      BY LenProperties, BoundsAssumption DEF TypeOK
<1>2. Len(srcs') = Len(srcs)  BY StoppedSources
<1>3. QED  BY <1>1, <1>2, StoppedSources DEF UiEffect

LEMMA SourceEmpty ==
    ASSUME NEW k \in Kinds
    PROVE  /\ Source(k) \in Sources /\ Source(k).held = << >>
           /\ Source(k).pc \in {"listen", "check", "read"}
<1>1. << >> \in Seq(Entries) /\ 0 \in Nat  BY EmptySeq
<1>2. CASE k = "EvtSubscribe"  BY <1>1, <1>2 DEF Source, Sources, PCs, Kinds
<1>3. CASE k = "PowerShell"  BY <1>1, <1>3 DEF Source, Sources, PCs, Kinds
<1>4. CASE k = "History"  BY <1>1, <1>4 DEF Source, Sources, PCs, Kinds
<1>5. QED  BY <1>2, <1>3, <1>4 DEF Kinds

LEMMA StartEffect ==
    ASSUME TypeOK, NEW k \in Kinds, Len(srcs) < MaxSources,
           srcs' = Append(srcs, Source(k)) \/ srcs' = Append(Stopped, Source(k))
    PROVE  UiEffect /\ Len(srcs') = Len(srcs) + 1
<1>1. PICK s \in Seq(Sources) :
         /\ Len(s) = Len(srcs) /\ srcs' = Append(s, Source(k))
         /\ \A j \in 1..Len(srcs) : /\ s[j].held = srcs[j].held
                                    /\ s[j].pc = srcs[j].pc
                                    /\ s[j].kind = srcs[j].kind
      <2>1. srcs \in Seq(Sources)  BY DEF TypeOK
      <2>2. CASE srcs' = Append(srcs, Source(k))  BY <2>1, <2>2
      <2>3. CASE srcs' = Append(Stopped, Source(k))  BY <2>3, StoppedSources
      <2>4. QED  BY <2>2, <2>3
<1>2. Len(srcs) \in Nat /\ MaxSources \in Nat
      BY LenProperties, BoundsAssumption DEF TypeOK
<1>3. /\ srcs' \in Seq(Sources) /\ Len(srcs') = Len(srcs) + 1
      /\ \A j \in 1..Len(srcs) : srcs'[j] = s[j]
      /\ srcs'[Len(srcs) + 1] = Source(k)
      BY <1>1, SourceEmpty, AppendProperties
<1>4. \A j \in 1..(Len(srcs) + 1) : j > Len(srcs) => j = Len(srcs) + 1
      BY <1>2
<1>5. \A j \in 1..Len(srcs') : j > Len(srcs) => srcs'[j] = Source(k)
      BY <1>3, <1>4
<1>6. Len(srcs') \in Len(srcs)..MaxSources  BY <1>2, <1>3
<1>7. QED  BY <1>1, <1>3, <1>5, <1>6, SourceEmpty DEF UiEffect

\* A replaced source does not run, so without one to wait for none does.
LEMMA NoneRuns ==
    ASSUME TypeOK, OneGoroutine, ~MustWait \/ ~Running(cur)
    PROVE  \A j \in 1..Len(srcs) : ~Running(j)
<1>1. ASSUME NEW j \in 1..Len(srcs), Running(j)  PROVE FALSE
      <2>1. j = cur  BY <1>1 DEF OneGoroutine
      <2>2. cur # 0 /\ Running(cur)  BY <1>1, <2>1
      <2>3. QED  BY <2>2 DEF MustWait
<1>2. QED  BY <1>1

UiShape == /\ ui.pc \in {"loop", "stopping", "exited"}
           /\ ui.then \in Kinds \cup {"none", "exit"}
           /\ pumpStop \in BOOLEAN /\ cur = Len(srcs)

UiStep == (\E k \in Kinds : StartSource(k)) \/ StopReturns \/ Exit

LEMMA UiSteps ==
    ASSUME TypeOK, OneGoroutine, StopReady, UiStep
    PROVE  /\ UiEffect /\ UNCHANGED <<historyMode, uiQueue>>
           /\ UNCHANGED <<offered, lost, entryChan, pump, posted, applied>>
           /\ UiShape' /\ OneGoroutine' /\ StopReady'
           /\ ui.pc = "exited" => ui'.pc = "exited"
<1>0. /\ pumpStop \in BOOLEAN /\ cur = Len(srcs) /\ Len(srcs) \in Nat
      /\ ui.then \in Kinds \cup {"none", "exit"}
      BY LenProperties DEF TypeOK
<1>1. ASSUME NEW k \in Kinds, StartSource(k)
      PROVE  /\ UiEffect /\ UNCHANGED <<historyMode, uiQueue>>
             /\ UNCHANGED <<offered, lost, entryChan, pump, posted, applied>>
             /\ UiShape' /\ OneGoroutine' /\ StopReady' /\ ui.pc # "exited"
      <2>1. /\ ui = Idle /\ Len(srcs) < MaxSources
            /\ UNCHANGED <<historyMode, offered, lost, entryChan, pumpVars, posted,
                           uiQueue, applied>>
            BY <1>1 DEF StartSource
      <2>2. k # "exit" /\ k # "none"  BY DEF Kinds
      <2>3. CASE MustWait
            <3>1. /\ srcs' = Stopped /\ ui' = [pc |-> "stopping", then |-> k]
                  /\ cur' = cur
                  BY <1>1, <2>3 DEF StartSource
            <3>2. UiEffect /\ Len(srcs') = Len(srcs)  BY <3>1, StoppedEffect
            <3>3. UiShape'  BY <1>0, <2>1, <3>1, <3>2 DEF UiShape, pumpVars
            <3>4. StopReady'  BY <2>1, <3>1, <3>2 DEF StopReady
            <3>5. OneGoroutine'
                  <4>1. ASSUME NEW j \in 1..Len(srcs), Running(j)'  PROVE j = cur'
                        <5>1. Running(j)  BY <3>2, <4>1, UiKeepsRunning
                        <5>2. QED  BY <3>1, <5>1 DEF OneGoroutine
                  <4>2. QED  BY <3>1, <3>2, <4>1 DEF OneGoroutine
            <3>6. QED  BY <2>1, <3>2, <3>3, <3>4, <3>5 DEF Idle, pumpVars
      <2>4. CASE ~MustWait
            <3>1. /\ srcs' = Append(Stopped, Source(k)) /\ cur' = Len(srcs) + 1
                  /\ ui' = ui
                  BY <1>1, <2>4 DEF StartSource
            <3>2. UiEffect /\ Len(srcs') = Len(srcs) + 1  BY <2>1, <3>1, StartEffect
            <3>3. UiShape'  BY <1>0, <2>1, <3>1, <3>2 DEF UiShape, pumpVars, Idle
            <3>4. StopReady'  BY <2>1, <3>1 DEF StopReady, Idle
            <3>5. OneGoroutine'
                  <4>1. ASSUME NEW j \in 1..Len(srcs'), Running(j)'  PROVE j = cur'
                        <5>1. j \notin 1..Len(srcs)
                              BY <2>4, <3>2, <4>1, UiKeepsRunning, NoneRuns
                        <5>2. j \in 1..(Len(srcs) + 1)  BY <3>2
                        <5>3. QED  BY <1>0, <3>1, <5>1, <5>2
                  <4>2. ui'.pc = "loop"  BY <2>1, <3>1 DEF Idle
                  <4>3. QED  BY <4>1, <4>2 DEF OneGoroutine
            <3>6. QED  BY <2>1, <3>2, <3>3, <3>4, <3>5 DEF Idle, pumpVars
      <2>5. QED  BY <2>3, <2>4
<1>2. CASE Exit
      <2>1. /\ ui = Idle /\ srcs' = Stopped
            /\ UNCHANGED <<historyMode, cur, offered, lost, entryChan, pump, posted,
                           uiQueue, applied>>
            BY <1>2 DEF Exit
      <2>2. UiEffect /\ Len(srcs') = Len(srcs)  BY <2>1, StoppedEffect
      <2>3. CASE MustWait
            <3>1. ui' = [pc |-> "stopping", then |-> "exit"] /\ pumpStop' = pumpStop
                  BY <1>2, <2>3 DEF Exit
            <3>2. UiShape'  BY <1>0, <2>1, <2>2, <3>1 DEF UiShape
            <3>3. StopReady'  BY <3>1 DEF StopReady
            <3>4. OneGoroutine'
                  <4>1. ASSUME NEW j \in 1..Len(srcs), Running(j)'  PROVE j = cur'
                        <5>1. Running(j)  BY <2>2, <4>1, UiKeepsRunning
                        <5>2. QED  BY <2>1, <5>1 DEF OneGoroutine
                  <4>2. QED  BY <2>2, <3>1, <4>1 DEF OneGoroutine
            <3>5. QED  BY <2>1, <2>2, <3>2, <3>3, <3>4 DEF Idle
      <2>4. CASE ~MustWait
            <3>1. ui' = [pc |-> "exited", then |-> "none"] /\ pumpStop' = TRUE
                  BY <1>2, <2>4 DEF Exit, ClosePump
            <3>2. UiShape'  BY <1>0, <2>1, <2>2, <3>1 DEF UiShape
            <3>3. StopReady'  BY <3>1 DEF StopReady
            <3>4. OneGoroutine'
                  <4>1. ASSUME NEW j \in 1..Len(srcs), Running(j)'  PROVE FALSE
                        BY <2>2, <2>4, <4>1, UiKeepsRunning, NoneRuns
                  <4>2. QED  BY <2>2, <4>1 DEF OneGoroutine
            <3>5. QED  BY <2>1, <2>2, <3>2, <3>3, <3>4 DEF Idle
      <2>5. QED  BY <2>3, <2>4
<1>3. CASE StopReturns
      <2>1. /\ ui.pc = "stopping" /\ ~Running(cur)
            /\ UNCHANGED <<historyMode, offered, lost, entryChan, pump, posted, uiQueue,
                           applied>>
            BY <1>3 DEF StopReturns
      <2>2. CASE ui.then = "exit"
            <3>1. /\ ui' = [pc |-> "exited", then |-> "none"] /\ pumpStop' = TRUE
                  /\ UNCHANGED <<srcs, cur>>
                  BY <1>3, <2>2 DEF StopReturns, ClosePump
            <3>2. UiEffect
                  <4>1. srcs \in Seq(Sources) /\ Len(srcs) <= MaxSources /\ MaxSources \in Nat
                        BY BoundsAssumption DEF TypeOK
                  <4>2. QED  BY <1>0, <3>1, <4>1 DEF UiEffect
            <3>3. UiShape'  BY <1>0, <3>1 DEF UiShape
            <3>4. StopReady'  BY <3>1 DEF StopReady
            <3>5. OneGoroutine'
                  <4>1. ASSUME NEW j \in 1..Len(srcs), Running(j)'  PROVE FALSE
                        BY <2>1, <3>2, <4>1, UiKeepsRunning, NoneRuns
                  <4>2. QED  BY <3>1, <4>1 DEF OneGoroutine
            <3>6. QED  BY <2>1, <3>2, <3>3, <3>4, <3>5
      <2>3. CASE ui.then # "exit"
            <3>1. /\ srcs' = Append(srcs, Source(ui.then)) /\ cur' = Len(srcs) + 1
                  /\ ui' = Idle /\ pumpStop' = pumpStop
                  BY <1>3, <2>3 DEF StopReturns
            <3>2. ui.then \in Kinds /\ Len(srcs) < MaxSources
                  BY <2>1, <2>3 DEF StopReady
            <3>3. UiEffect /\ Len(srcs') = Len(srcs) + 1  BY <3>1, <3>2, StartEffect
            <3>4. UiShape'  BY <1>0, <3>1, <3>3 DEF UiShape, Idle
            <3>5. StopReady'  BY <3>1 DEF StopReady, Idle
            <3>6. OneGoroutine'
                  <4>1. ASSUME NEW j \in 1..Len(srcs'), Running(j)'  PROVE j = cur'
                        <5>1. j \notin 1..Len(srcs)
                              BY <2>1, <3>3, <4>1, UiKeepsRunning, NoneRuns
                        <5>2. j \in 1..(Len(srcs) + 1)  BY <3>3
                        <5>3. QED  BY <1>0, <3>1, <5>1, <5>2
                  <4>2. ui'.pc = "loop"  BY <3>1 DEF Idle
                  <4>3. QED  BY <4>1, <4>2 DEF OneGoroutine
            <3>7. QED  BY <2>1, <3>3, <3>4, <3>5, <3>6
      <2>4. QED  BY <2>2, <2>3
<1>4. QED  BY <1>1, <1>2, <1>3 DEF UiStep

-----------------------------------------------------------------------------
(* The closures take up exactly what is posted.                            *)

\* A closure is posted together with its share,
LEMMA CoverAppend ==
    ASSUME TypeOK, ClosuresCover, NEW c \in Closures,
           uiQueue' = Append(uiQueue, c), posted' \in Seq(Entries),
           Len(posted') = Len(posted) + Size(c)
    PROVE  ClosuresCover'
<1>1. PICK ends : Shares(ends)  BY DEF ClosuresCover
<1>2. /\ Len(uiQueue) \in Nat /\ Len(posted) \in Nat /\ Len(posted') \in Nat
      /\ Size(c) \in Nat /\ Len(posted) <= Len(posted')
      <2>1. Len(uiQueue) \in Nat /\ Len(posted) \in Nat
            BY LenProperties DEF TypeOK
      <2>2. Size(c) \in Nat  BY DEF Size, Closures
      <2>3. QED  BY <2>1, <2>2
<1>3. /\ Len(uiQueue') = Len(uiQueue) + 1
      /\ \A j \in 1..Len(uiQueue) : uiQueue'[j] = uiQueue[j]
      /\ uiQueue'[Len(uiQueue) + 1] = c
      <2>1. uiQueue \in Seq(Closures)  BY DEF TypeOK
      <2>2. QED  BY <2>1, AppendProperties
<1> DEFINE m == Len(uiQueue)
           p == Len(posted')
           f == [j \in 0..(m + 1) |-> IF j <= m THEN ends[j] ELSE p]
<1>4. /\ ends \in [0..m -> 0..Len(posted)] /\ ends[0] = 0 /\ ends[m] = Len(posted)
      /\ \A j \in 1..m : ends[j] = ends[j - 1] + Size(uiQueue[j])
      /\ \A j, k \in 0..m : j <= k => ends[j] <= ends[k]
      BY <1>1 DEF Shares
<1>5. \A j \in 0..m : j \in 0..(m + 1) /\ j <= m /\ f[j] = ends[j]
      <2>1. ASSUME NEW j \in 0..m  PROVE j \in 0..(m + 1) /\ j <= m
            BY <1>2
      <2>2. QED  BY <2>1
<1>6. f[m + 1] = p
      <2>1. m + 1 \in 0..(m + 1) /\ ~(m + 1 <= m)  BY <1>2
      <2>2. QED  BY <2>1
<1>7. f \in [0..(m + 1) -> 0..p]
      <2>1. ASSUME NEW j \in 0..(m + 1)
            PROVE  (IF j <= m THEN ends[j] ELSE p) \in 0..p
            <3>1. CASE j <= m
                  <4>1. j \in 0..m  BY <1>2, <3>1
                  <4>2. ends[j] \in 0..Len(posted)  BY <1>4, <4>1
                  <4>3. ends[j] \in 0..p  BY <1>2, <4>2
                  <4>4. QED  BY <3>1, <4>3
            <3>2. CASE ~(j <= m)  BY <1>2, <3>2
            <3>3. QED  BY <3>1, <3>2
      <2>2. QED  BY <2>1
<1>8. Size(c)' = Size(c) /\ \A j \in 1..m : Size(uiQueue[j])' = Size(uiQueue[j])
      BY <1>3 DEF Size
<1> HIDE DEF f
<1>9. f[0] = 0
      <2>1. 0 \in 0..m  BY <1>2
      <2>2. QED  BY <1>4, <1>5, <2>1
<1>10. ASSUME NEW j \in 1..(m + 1)  PROVE f[j] = f[j - 1] + Size(uiQueue'[j])
      <2>1. CASE j <= m
            <3>1. j \in 1..m /\ j \in 0..m /\ j - 1 \in 0..m  BY <1>2, <2>1
            <3>2. f[j] = ends[j] /\ f[j - 1] = ends[j - 1]  BY <1>5, <3>1
            <3>3. uiQueue'[j] = uiQueue[j]  BY <1>3, <3>1
            <3>4. QED  BY <1>4, <3>1, <3>2, <3>3
      <2>2. CASE ~(j <= m)
            <3>1. j = m + 1 /\ j - 1 = m /\ m \in 0..m  BY <1>2, <2>2
            <3>2. f[j] = p /\ f[j - 1] = Len(posted)  BY <1>4, <1>5, <1>6, <3>1
            <3>3. uiQueue'[j] = c  BY <1>3, <3>1
            <3>4. QED  BY <3>2, <3>3
      <2>3. QED  BY <2>1, <2>2
<1>11. ASSUME NEW j \in 0..(m + 1), NEW k \in 0..(m + 1), j <= k
       PROVE  f[j] <= f[k]
      <2>1. CASE k <= m
            <3>1. j \in 0..m /\ k \in 0..m  BY <1>2, <1>11, <2>1
            <3>2. f[j] = ends[j] /\ f[k] = ends[k]  BY <1>5, <3>1
            <3>3. QED  BY <1>4, <1>11, <3>1, <3>2
      <2>2. CASE ~(k <= m)
            <3>1. k = m + 1  BY <1>2, <2>2
            <3>2. f[j] \in 0..p /\ f[k] = p  BY <1>6, <1>7, <3>1
            <3>3. QED  BY <1>2, <3>2
      <2>3. QED  BY <2>1, <2>2
<1>12. PICK g : g = f  OBVIOUS
<1>13. Shares(g)'
      <2>1. \A j \in 1..(m + 1) : g[j] = g[j - 1] + Size(uiQueue[j])'
            BY <1>10, <1>12 DEF Size
      <2>2. QED  BY <1>3, <1>6, <1>7, <1>9, <1>11, <1>12, <2>1 DEF Shares
<1>14. QED  BY <1>13 DEF ClosuresCover

\* and takes it along when it runs.
LEMMA CoverTail ==
    ASSUME TypeOK, ClosuresCover, uiQueue # << >>,
           uiQueue' = Tail(uiQueue), posted' \in Seq(Entries),
           Len(posted') = Len(posted) - Size(Head(uiQueue))
    PROVE  ClosuresCover'
<1>1. PICK ends : Shares(ends)  BY DEF ClosuresCover
<1> DEFINE m == Len(uiQueue)
           n == Size(Head(uiQueue))
           p == Len(posted')
           f == [j \in 0..(m - 1) |-> ends[j + 1] - n]
<1>2. /\ m \in Nat \ {0} /\ Len(uiQueue') = m - 1
      /\ \A j \in 1..(m - 1) : uiQueue'[j] = uiQueue[j + 1]
      /\ Head(uiQueue) = uiQueue[1] /\ Head(uiQueue) \in Closures
      <2>1. uiQueue \in Seq(Closures)  BY DEF TypeOK
      <2>2. QED  BY <2>1, ElemsHeadTail
<1>3. n \in Nat /\ Len(posted) \in Nat /\ p \in Nat /\ p = Len(posted) - n
      <2>1. Len(posted) \in Nat  BY LenProperties DEF TypeOK
      <2>2. n \in Nat  BY <1>2 DEF Size, Closures
      <2>3. QED  BY <2>1, <2>2, LenProperties
<1>4. /\ ends \in [0..m -> 0..Len(posted)] /\ ends[0] = 0 /\ ends[m] = Len(posted)
      /\ \A j \in 1..m : ends[j] = ends[j - 1] + Size(uiQueue[j])
      /\ \A j, k \in 0..m : j <= k => ends[j] <= ends[k]
      BY <1>1 DEF Shares
<1>5. ends[1] = n
      <2>1. 1 \in 1..m /\ 1 - 1 = 0  BY <1>2
      <2>2. ends[1] = 0 + Size(uiQueue[1])  BY <1>4, <2>1
      <2>3. QED  BY <1>2, <1>3, <2>2
<1> HIDE DEF n
<1>6. ASSUME NEW j \in 0..(m - 1)
      PROVE  /\ j + 1 \in 1..m /\ j + 1 \in 0..m
             /\ ends[j + 1] \in n..Len(posted) /\ ends[j + 1] - n \in 0..p
      <2>1. j + 1 \in 1..m /\ j + 1 \in 0..m /\ 1 \in 0..m /\ 1 <= j + 1  BY <1>2
      <2>2. ends[j + 1] \in 0..Len(posted) /\ n <= ends[j + 1]
            BY <1>4, <1>5, <2>1
      <2>3. ends[j + 1] \in n..Len(posted) /\ ends[j + 1] - n \in 0..p
            BY <1>3, <2>2
      <2>4. QED  BY <2>1, <2>3
<1>7. f \in [0..(m - 1) -> 0..p] /\ \A j \in 0..(m - 1) : f[j] = ends[j + 1] - n
      BY <1>6
<1> HIDE DEF f
<1>8. f[0] = 0
      <2>1. 0 \in 0..(m - 1) /\ 0 + 1 = 1  BY <1>2
      <2>2. f[0] = ends[1] - n  BY <1>7, <2>1
      <2>3. QED  BY <1>3, <1>5, <2>2
<1>9. f[m - 1] = p
      <2>1. m - 1 \in 0..(m - 1) /\ (m - 1) + 1 = m  BY <1>2
      <2>2. f[m - 1] = ends[m] - n  BY <1>7, <2>1
      <2>3. QED  BY <1>3, <1>4, <2>2
<1>10. ASSUME NEW j \in 1..(m - 1)  PROVE f[j] = f[j - 1] + Size(uiQueue'[j])
      <2>1. /\ j \in 0..(m - 1) /\ j - 1 \in 0..(m - 1) /\ (j - 1) + 1 = j
            /\ j + 1 \in 1..m /\ (j + 1) - 1 = j /\ j \in 0..m
            BY <1>2
      <2>2. f[j] = ends[j + 1] - n /\ f[j - 1] = ends[j] - n  BY <1>7, <2>1
      <2>3. ends[j + 1] = ends[j] + Size(uiQueue[j + 1])  BY <1>4, <2>1
      <2>4. uiQueue'[j] = uiQueue[j + 1]  BY <1>2
      <2>5. ends[j + 1] \in Int /\ ends[j] \in Int
            <3>1. j + 1 \in 0..m  BY <2>1, <1>2
            <3>2. ends[j + 1] \in 0..Len(posted) /\ ends[j] \in 0..Len(posted)
                  BY <1>4, <2>1, <3>1
            <3>3. QED  BY <3>2
      <2>6. Size(uiQueue[j + 1]) \in Int
            <3>1. uiQueue[j + 1] \in Closures
                  BY <2>1, ElementOfSeq DEF TypeOK
            <3>2. QED  BY <3>1 DEF Size, Closures
      <2>7. QED  BY <1>3, <2>2, <2>3, <2>4, <2>5, <2>6
<1>11. ASSUME NEW j \in 0..(m - 1), NEW k \in 0..(m - 1), j <= k
       PROVE  f[j] <= f[k]
      <2>1. j + 1 \in 0..m /\ k + 1 \in 0..m /\ j + 1 <= k + 1  BY <1>2, <1>11
      <2>2. ends[j + 1] <= ends[k + 1]  BY <1>4, <2>1
      <2>3. ends[j + 1] \in Int /\ ends[k + 1] \in Int
            <3>1. ends[j + 1] \in 0..Len(posted) /\ ends[k + 1] \in 0..Len(posted)
                  BY <1>4, <2>1
            <3>2. QED  BY <3>1
      <2>4. QED  BY <1>3, <1>7, <2>2, <2>3
<1>12. PICK g : g = f  OBVIOUS
<1>13. Shares(g)'
      <2>1. \A j \in 1..(m - 1) : g[j] = g[j - 1] + Size(uiQueue[j])'
            BY <1>10, <1>12 DEF Size
      <2>2. QED  BY <1>2, <1>7, <1>8, <1>9, <1>11, <1>12, <2>1 DEF Shares
<1>14. QED  BY <1>13 DEF ClosuresCover

LEMMA CoverKept ==
    ASSUME ClosuresCover, UNCHANGED <<uiQueue, posted>>
    PROVE  ClosuresCover'
<1>1. PICK ends : Shares(ends)  BY DEF ClosuresCover
<1>2. Shares(ends)'  BY <1>1 DEF Shares, Size
<1>3. QED  BY <1>2 DEF ClosuresCover

-----------------------------------------------------------------------------
(* The steps preserve the invariant.                                       *)

LEMMA SourceKeeps ==
    ASSUME IInv, NEW i \in 1..Len(srcs), NEW x \in Sources, SourceEffect(i, x)
    PROVE  IInv'
<1>1. /\ TypeOK /\ OneGoroutine /\ StopReady
      /\ Numbered /\ HeldUnknown /\ HeldApart /\ InHand /\ ClosuresCover
      BY DEF IInv
<1>2. /\ srcs \in Seq(Sources) /\ srcs[i] \in Sources /\ srcs[i].held \in Seq(Entries)
      /\ offered \in 0..MaxEntries /\ offered \in Nat /\ MaxEntries \in Nat
      /\ entryChan \in Seq(Entries)
      <2>1. /\ srcs \in Seq(Sources) /\ offered \in 0..MaxEntries
            /\ entryChan \in Seq(Entries)
            BY <1>1 DEF TypeOK
      <2>2. srcs[i] \in Sources  BY <2>1, ElementOfSeq
      <2>3. srcs[i].held \in Seq(Entries)  BY <2>2 DEF Sources
      <2>4. MaxEntries \in Nat  BY BoundsAssumption
      <2>5. offered \in Nat  BY <2>1
      <2>6. QED  BY <2>1, <2>2, <2>3, <2>4, <2>5
<1>3. /\ srcs' = [srcs EXCEPT ![i] = x] /\ x.kind = srcs[i].kind
      /\ x.pc = "deliver" => Len(x.held) = 1
      /\ x.kind = "EvtSubscribe" \/ srcs[i].pc # "done"
      /\ UNCHANGED <<historyMode, cur, pump, pumpStop, posted, applied, ui>>
      BY DEF SourceEffect, pumpVars
<1>4. /\ srcs' \in Seq(Sources) /\ Len(srcs') = Len(srcs) /\ srcs'[i] = x
      /\ \A j \in 1..Len(srcs) : j # i => srcs'[j] = srcs[j]
      BY <1>2, <1>3, SourceReplaced
<1>5. /\ offered' \in offered..MaxEntries /\ lost' \subseteq Entries
      /\ Known' \subseteq Known \cup Elems(srcs[i].held)
      /\ Elems(x.held) \subseteq Elems(srcs[i].held) \cup ((offered + 1)..offered')
      /\ Elems(x.held) \cap Known' = {}
      /\ \A a, b \in 1..Len(x.held) : a # b => x.held[a] # x.held[b]
      BY <1>1, FateHands
<1>6. offered' \in 0..MaxEntries /\ offered' \in Nat /\ offered <= offered'
      BY <1>2, <1>5
<1>7. Numbered' /\ HeldUnknown' /\ HeldApart'
      BY <1>1, <1>2, <1>3, <1>5, <1>6, HandStep
<1>8. entryChan' \in Seq(Entries)
      <2>1. CASE entryChan' = entryChan  BY <1>2, <2>1
      <2>2. CASE /\ srcs[i].held # << >>
                 /\ entryChan' = Append(entryChan, Head(srcs[i].held))
            <3>1. Head(srcs[i].held) \in Entries  BY <1>2, <2>2, ElemsHeadTail
            <3>2. entryChan' \in Seq(Entries)
                  BY <1>2, <2>2, <3>1, AppendProperties
            <3>3. QED  BY <1>2, <2>2, <3>2
      <2>3. QED  BY <2>1, <2>2 DEF SourceEffect, Fate
<1>9. srcs[i].sent \in Nat /\ [what |-> "report", n |-> srcs[i].sent] \in Closures
      <2>1. srcs[i].sent \in Nat  BY <1>2 DEF Sources
      <2>2. QED  BY <2>1 DEF Closures
<1>10. uiQueue' \in Seq(Closures) /\ ClosuresCover'
      <2>1. CASE UNCHANGED uiQueue
            <3>1. uiQueue' \in Seq(Closures)  BY <1>1, <2>1 DEF TypeOK
            <3>2. QED  BY <1>1, <1>3, <2>1, <3>1, CoverKept
      <2>2. CASE uiQueue' = Append(uiQueue, [what |-> "report", n |-> srcs[i].sent])
            <3> DEFINE c == [what |-> "report", n |-> srcs[i].sent]
            <3>1. Size(c) = 0  BY DEF Size
            <3>2. posted \in Seq(Entries) /\ uiQueue \in Seq(Closures)
                  /\ Len(posted) \in Nat
                  BY <1>1, LenProperties DEF TypeOK
            <3>3. Len(posted') = Len(posted) + Size(c) /\ posted' \in Seq(Entries)
                  BY <1>3, <3>1, <3>2
            <3>4. c \in Closures /\ uiQueue' = Append(uiQueue, c)  BY <1>9, <2>2
            <3> HIDE DEF c
            <3>5. ClosuresCover'  BY <1>1, <3>3, <3>4, CoverAppend
            <3>6. uiQueue' \in Seq(Closures)  BY <3>2, <3>4, AppendProperties
            <3>7. QED  BY <3>5, <3>6
      <2>3. QED  BY <2>1, <2>2 DEF SourceEffect
<1>11. TypeOK'
      BY <1>1, <1>3, <1>4, <1>5, <1>6, <1>8, <1>10 DEF TypeOK
<1>12. OneGoroutine'
      <2>1. ASSUME NEW j \in 1..Len(srcs), Running(j)'  PROVE Running(j)
            <3>1. CASE j = i
                  BY <1>3, <1>4, <2>1, <3>1 DEF Running
            <3>2. CASE j # i  BY <1>4, <2>1, <3>2 DEF Running
            <3>3. QED  BY <3>1, <3>2
      <2>2. QED  BY <1>1, <1>3, <1>4, <2>1 DEF OneGoroutine
<1>13. StopReady'  BY <1>1, <1>3, <1>4 DEF StopReady
<1>14. InHand'
      <2>1. \A j \in 1..Len(srcs) : srcs'[j].pc = "deliver" => Len(srcs'[j].held) = 1
            BY <1>1, <1>3, <1>4 DEF InHand
      <2>2. QED  BY <1>1, <1>3, <1>4, <2>1 DEF InHand
<1>15. QED  BY <1>7, <1>10, <1>11, <1>12, <1>13, <1>14 DEF IInv

\* A step that leaves the sources alone and decides no entry's fate.
LEMMA HandsKept ==
    ASSUME IInv, UNCHANGED <<srcs, offered>>, Known' = Known
    PROVE  Numbered' /\ HeldUnknown' /\ HeldApart'
<1>1. /\ srcs \in Seq(Sources) /\ Len(srcs) <= MaxSources /\ Len(srcs) \in Nat
      /\ MaxSources \in Nat
      BY LenProperties, BoundsAssumption DEF IInv, TypeOK
<1>2. UiEffect  BY <1>1 DEF UiEffect
<1>3. QED  BY <1>1, <1>2, UiHands DEF IInv

LEMMA PumpKeeps ==
    ASSUME IInv, PumpStep
    PROVE  IInv'
<1>1. /\ TypeOK /\ OneGoroutine /\ StopReady /\ InHand /\ ClosuresCover
      BY DEF IInv
<1>2. /\ UNCHANGED <<historyMode, srcs, cur, offered, lost, pumpStop, applied, ui>>
      BY DEF PumpStep, PumpStop, PumpTake, PumpTick, PumpPost, srcVars, uiVars
<1>3. Numbered' /\ HeldUnknown' /\ HeldApart'
      BY <1>1, <1>2, PumpKnown, HandsKept
<1>4. OneGoroutine'
      <2>1. \A j \in 1..Len(srcs) : Running(j)' <=> Running(j)  BY <1>2 DEF Running
      <2>2. QED  BY <1>1, <1>2, <2>1 DEF OneGoroutine
<1>5. StopReady'  BY <1>1, <1>2 DEF StopReady
<1>6. /\ posted \in Seq(Entries) /\ pump.batch \in Seq(Entries)
      /\ pump.pending \in Seq(Entries) /\ entryChan \in Seq(Entries)
      /\ posted \o pump.batch \in Seq(Entries)
      BY <1>1, PipeType
<1>7. /\ pump \in Pumps /\ uiQueue \in Seq(Closures)
      /\ Len(posted) \in Nat /\ Len(pump.batch) \in Nat
      BY <1>1, <1>6, LenProperties DEF TypeOK
<1> DEFINE Kept == /\ pump' \in Pumps
                   /\ entryChan' \in Seq(Entries)
                   /\ posted' \in Seq(Entries) /\ uiQueue' \in Seq(Closures)
                   /\ pump'.pc # "post" => pump'.batch = << >>
                   /\ ClosuresCover'
<1> HIDE DEF Kept
<1>8. ASSUME PumpStop  PROVE Kept
      <2>1. /\ pump' = [pump EXCEPT !.pc = "done"] /\ pump.pc = "select"
            /\ UNCHANGED <<entryChan, posted, uiQueue>>
            BY <1>8 DEF PumpStop, uiVars
      <2>2. pump' \in Pumps /\ pump'.batch = pump.batch  BY <1>7, <2>1 DEF Pumps
      <2>3. pump'.batch = << >>  BY <1>1, <2>1, <2>2 DEF InHand
      <2>4. ClosuresCover'  BY <1>1, <2>1, CoverKept
      <2>5. Kept  BY <1>6, <1>7, <2>1, <2>2, <2>3, <2>4 DEF Kept
      <2>6. QED  BY <2>5
<1>9. ASSUME PumpTake  PROVE Kept
      <2>1. /\ pump' = [pump EXCEPT !.pending = Append(pump.pending, Head(entryChan))]
            /\ pump.pc = "select" /\ entryChan # << >> /\ entryChan' = Tail(entryChan)
            /\ UNCHANGED <<posted, uiQueue>>
            BY <1>9 DEF PumpTake, uiVars
      <2>2. /\ Head(entryChan) \in Entries /\ entryChan' \in Seq(Entries)
            BY <1>6, <2>1, ElemsHeadTail
      <2>3. Append(pump.pending, Head(entryChan)) \in Seq(Entries)
            BY <1>6, <2>2, AppendProperties
      <2>4. /\ pump' \in Pumps /\ pump'.batch = pump.batch
            BY <1>7, <2>1, <2>3 DEF Pumps
      <2>5. pump'.batch = << >>  BY <1>1, <2>1, <2>4 DEF InHand
      <2>6. ClosuresCover'  BY <1>1, <2>1, CoverKept
      <2>7. Kept  BY <1>6, <1>7, <2>1, <2>2, <2>4, <2>5, <2>6 DEF Kept
      <2>8. QED  BY <2>7
<1>10. ASSUME PumpTick  PROVE Kept
      <2>1. /\ pump' = [pc |-> "post", pending |-> << >>, batch |-> pump.pending]
            /\ UNCHANGED <<entryChan, posted, uiQueue>>
            BY <1>10 DEF PumpTick, uiVars
      <2>2. << >> \in Seq(Entries)  BY EmptySeq
      <2>3. pump' \in Pumps /\ pump'.pc = "post"  BY <1>6, <2>1, <2>2 DEF Pumps
      <2>4. ClosuresCover'  BY <1>1, <2>1, CoverKept
      <2>5. Kept  BY <1>6, <1>7, <2>1, <2>3, <2>4 DEF Kept
      <2>6. QED  BY <2>5
<1>11. ASSUME PumpPost  PROVE Kept
      <2> DEFINE c == [what |-> "batch", n |-> Len(pump.batch)]
      <2>1. /\ pump' = [pump EXCEPT !.pc = "select", !.batch = << >>]
            /\ posted' = posted \o pump.batch /\ uiQueue' = Append(uiQueue, c)
            /\ UNCHANGED entryChan
            BY <1>11 DEF PumpPost
      <2>2. << >> \in Seq(Entries)  BY EmptySeq
      <2>3. pump' \in Pumps /\ pump'.batch = << >>  BY <1>7, <2>1, <2>2 DEF Pumps
      <2>4. c \in Closures /\ Size(c) = Len(pump.batch)  BY <1>7 DEF Closures, Size
      <2> HIDE DEF c
      <2>5. posted' \in Seq(Entries) /\ Len(posted') = Len(posted) + Size(c)
            BY <1>6, <2>1, <2>4, ConcatProperties
      <2>6. ClosuresCover'  BY <1>1, <2>1, <2>4, <2>5, CoverAppend
      <2>7. uiQueue' \in Seq(Closures)  BY <1>7, <2>1, <2>4, AppendProperties
      <2>8. Kept  BY <1>6, <1>7, <2>1, <2>3, <2>5, <2>6, <2>7 DEF Kept
      <2>9. QED  BY <2>8
<1>12. Kept  BY <1>8, <1>9, <1>10, <1>11 DEF PumpStep
<1>13. TypeOK'  BY <1>1, <1>2, <1>12 DEF TypeOK, Kept
<1>14. InHand'  BY <1>1, <1>2, <1>12 DEF InHand, Kept
<1>15. QED  BY <1>3, <1>4, <1>5, <1>12, <1>13, <1>14 DEF IInv, Kept

LEMMA ClosureKeeps ==
    ASSUME IInv, RunClosure
    PROVE  IInv'
<1>1. /\ TypeOK /\ OneGoroutine /\ StopReady /\ InHand /\ ClosuresCover
      BY DEF IInv
<1>2. /\ UNCHANGED <<historyMode, srcs, cur, offered, lost, entryChan, pump, pumpStop, ui>>
      /\ uiQueue # << >> /\ uiQueue' = Tail(uiQueue)
      BY DEF RunClosure, srcVars, pumpVars
<1>3. Numbered' /\ HeldUnknown' /\ HeldApart'
      BY <1>1, <1>2, ClosureKnown, HandsKept
<1>4. OneGoroutine'
      <2>1. \A j \in 1..Len(srcs) : Running(j)' <=> Running(j)  BY <1>2 DEF Running
      <2>2. QED  BY <1>1, <1>2, <2>1 DEF OneGoroutine
<1>5. StopReady' /\ InHand'  BY <1>1, <1>2 DEF StopReady, InHand
<1>6. /\ posted \in Seq(Entries) /\ applied \in Seq(Entries) /\ uiQueue \in Seq(Closures)
      /\ Len(posted) \in Nat
      BY <1>1, LenProperties DEF TypeOK
<1>7. PICK n \in 0..Len(posted) :
         /\ n = Size(Head(uiQueue))
         /\ applied' = applied \o SubSeq(InPipe, 1, n)
         /\ posted' = SubSeq(posted, n + 1, Len(posted))
      BY <1>1, ClosureApplies
<1>8. posted' \in Seq(Entries) /\ Len(posted') = Len(posted) - n
      BY <1>6, <1>7, CutSeq
<1>9. ClosuresCover'  BY <1>1, <1>2, <1>7, <1>8, CoverTail
<1>10. applied' \in Seq(Entries)
      <2>1. PICK k \in 0..Len(posted) : applied' = applied \o SubSeq(posted, 1, k)
            <3>1. applied' = applied \o SubSeq(posted, 1, n)
                  BY <1>7 DEF RunClosure, Size
            <3>2. QED  BY <3>1
      <2>2. SubSeq(posted, 1, k) \in Seq(Entries)  BY <1>6, CutSeq
      <2>3. QED  BY <1>6, <2>1, <2>2, ConcatProperties
<1>11. uiQueue' \in Seq(Closures)  BY <1>2, <1>6, ElemsHeadTail
<1>12. TypeOK'  BY <1>1, <1>2, <1>8, <1>10, <1>11 DEF TypeOK
<1>13. QED  BY <1>3, <1>4, <1>5, <1>9, <1>12 DEF IInv

LEMMA UiKeeps ==
    ASSUME IInv, UiStep
    PROVE  IInv'
<1>1. /\ TypeOK /\ OneGoroutine /\ StopReady /\ InHand /\ ClosuresCover
      /\ Numbered /\ HeldUnknown /\ HeldApart
      BY DEF IInv
<1>2. /\ UiEffect /\ UNCHANGED <<historyMode, uiQueue>>
      /\ UNCHANGED <<offered, lost, entryChan, pump, posted, applied>>
      /\ UiShape' /\ OneGoroutine' /\ StopReady'
      BY <1>1, UiSteps
<1>3. Known' = Known
      <2>1. InPipe' = InPipe  BY <1>2 DEF InPipe
      <2>2. QED  BY <1>2, <2>1 DEF Known, Elems
<1>4. srcs \in Seq(Sources) /\ Len(srcs) \in Nat /\ MaxSources \in Nat
      BY <1>1, LenProperties, BoundsAssumption DEF TypeOK
<1>5. Numbered' /\ HeldUnknown' /\ HeldApart'
      BY <1>1, <1>2, <1>3, <1>4, UiHands
<1>6. ClosuresCover'  BY <1>1, <1>2, CoverKept
<1>7. srcs' \in Seq(Sources) /\ Len(srcs') <= MaxSources /\ Len(srcs') \in Nat
      BY <1>2, <1>4, LenProperties DEF UiEffect
<1>8. TypeOK'  BY <1>1, <1>2, <1>7 DEF TypeOK, UiShape
<1>9. InHand'
      <2>1. ASSUME NEW j \in 1..Len(srcs'), srcs'[j].pc = "deliver"
            PROVE  Len(srcs'[j].held) = 1
            <3>1. j \in 1..Len(srcs)  BY <1>2, <1>4, <1>7, <2>1 DEF UiEffect
            <3>2. srcs'[j].pc = srcs[j].pc /\ srcs'[j].held = srcs[j].held
                  BY <1>2, <3>1 DEF UiEffect
            <3>3. QED  BY <1>1, <2>1, <3>1, <3>2 DEF InHand
      <2>2. QED  BY <1>1, <1>2, <2>1 DEF InHand
<1>10. QED  BY <1>2, <1>5, <1>6, <1>8, <1>9 DEF IInv

\* Next, by who acts.
LEMMA NextCases ==
    ASSUME IInv, Next
    PROVE  \/ \E i \in 1..Len(srcs), x \in Sources : SourceEffect(i, x)
           \/ PumpStep
           \/ RunClosure
           \/ UiStep
           \/ UNCHANGED vars
<1>1. ASSUME NEW i \in 1..Len(srcs), CallbackBegin(i) \/ SourceStep(i)
      PROVE  \E x \in Sources : SourceEffect(i, x)
      BY <1>1, SourceSteps DEF IInv
<1>2. QED  BY <1>1 DEF Next, PumpStep, UiStep, Ended

LEMMA InitHolds ==
    ASSUME Init
    PROVE  IInv
<1>1. /\ srcs = << >> /\ cur = 0 /\ offered = 0 /\ lost = {} /\ entryChan = << >>
      /\ pump = [pc |-> "select", pending |-> << >>, batch |-> << >>]
      /\ pumpStop = FALSE /\ posted = << >> /\ uiQueue = << >> /\ applied = << >>
      /\ ui = [pc |-> "loop", then |-> "none"] /\ historyMode \in BOOLEAN
      BY DEF Init, Idle
<1>2. Len(<< >>) = 0 /\ 1..0 = {}  OBVIOUS
<1>3. << >> \in Seq(Entries) /\ << >> \in Seq(Sources) /\ << >> \in Seq(Closures)
      BY EmptySeq
<1>4. pump \in Pumps  BY <1>1, <1>3 DEF Pumps
<1>5. 0 \in 0..MaxEntries /\ 0 <= MaxSources  BY BoundsAssumption
<1>6. TypeOK  BY <1>1, <1>2, <1>3, <1>4, <1>5 DEF TypeOK
<1>7. OneGoroutine  BY <1>1, <1>2 DEF OneGoroutine
<1>8. StopReady /\ InHand  BY <1>1, <1>2 DEF StopReady, InHand
<1>9. Known = {}
      <2>1. << >> \o << >> = << >>  OBVIOUS
      <2>2. InPipe = << >>  BY <1>1, <2>1 DEF InPipe
      <2>3. Elems(InPipe) = {} /\ Elems(applied) = {}  BY <1>1, <1>2, <2>2 DEF Elems
      <2>4. QED  BY <1>1, <2>3 DEF Known
<1>10. Numbered /\ HeldUnknown /\ HeldApart
      BY <1>1, <1>2, <1>9 DEF Numbered, HeldUnknown, HeldApart
<1>11. ClosuresCover
      <2> DEFINE z == [j \in {0} |-> 0]
      <2>1. 0..0 = {0}  OBVIOUS
      <2>2. z \in [0..0 -> 0..0] /\ z[0] = 0  BY <2>1
      <2>3. \A j, k \in 0..0 : z[j] <= z[k]  BY <2>1
      <2>4. Shares(z)  BY <1>1, <1>2, <2>2, <2>3 DEF Shares
      <2>5. QED  BY <2>4 DEF ClosuresCover
<1>12. QED  BY <1>6, <1>7, <1>8, <1>10, <1>11 DEF IInv

LEMMA NothingHappens ==
    ASSUME IInv, UNCHANGED vars
    PROVE  IInv'
<1>1. UNCHANGED <<historyMode, srcs, cur, offered, lost, entryChan, pump, pumpStop,
                  posted, uiQueue, applied, ui>>
      BY DEF vars, srcVars, pumpVars, uiVars
<1>2. InPipe' = InPipe  BY <1>1 DEF InPipe
<1>3. Known' = Known  BY <1>1, <1>2 DEF Known, Elems
<1>4. Numbered' /\ HeldUnknown' /\ HeldApart'  BY <1>1, <1>3, HandsKept
<1>5. TypeOK'  BY <1>1 DEF IInv, TypeOK
<1>6. OneGoroutine'  BY <1>1 DEF IInv, OneGoroutine, Running
<1>7. StopReady' /\ InHand'  BY <1>1 DEF IInv, StopReady, InHand
<1>8. ClosuresCover'  BY <1>1, CoverKept DEF IInv
<1>9. QED  BY <1>4, <1>5, <1>6, <1>7, <1>8 DEF IInv

\* The invariant everything below rests on: it relates every entry a source
\* ever obtained (callbackBody, runOnePoll, the backlog reads) to the one place
\* it has got to, and the closures queued with Synchronize to what is posted.
THEOREM Invariant == Spec => []IInv
<1>1. IInv /\ [Next]_vars => IInv'
      BY NextCases, SourceKeeps, PumpKeeps, ClosureKeeps, UiKeeps, NothingHappens
<1>2. QED  BY InitHolds, <1>1, PTL DEF Spec

\* Every variable keeps its shape, and app.eventSource is the source that
\* startEventSource or startHistoryIngest started last.
THEOREM TypeCorrect == Spec => []TypeOK
<1>1. IInv => TypeOK  BY DEF IInv
<1>2. QED  BY Invariant, <1>1, PTL

-----------------------------------------------------------------------------
(* What has been stopped obtains nothing more.                             *)

\* A subscription is open only while it is the current source,
OneOpen ==
    \A i \in 1..Len(srcs) :
        srcs[i].kind = "EvtSubscribe" /\ ~srcs[i].stop => i = cur /\ ui.pc # "exited"

\* a source has entries in hand only where it passes them on,
Handed ==
    \A i \in 1..Len(srcs) :
        /\ srcs[i].held # << >> => srcs[i].pc \in {"send", "deliver"}
        /\ srcs[i].kind = "EvtSubscribe" <=> srcs[i].pc \in {"listen", "deliver"}

\* and the source that Stop waits for has been told.
Told == ui.pc = "stopping" => cur \in 1..Len(srcs) /\ srcs[cur].stop

Closing == OneOpen /\ Handed /\ Told

\* A source's own step neither opens nor closes it.
Goes(i, x) ==
    /\ srcs' = [srcs EXCEPT ![i] = x]
    /\ x.kind = srcs[i].kind /\ x.stop = srcs[i].stop
    /\ x.held # << >> => x.pc \in {"send", "deliver"}
    /\ x.kind = "EvtSubscribe" <=> x.pc \in {"listen", "deliver"}
    /\ UNCHANGED <<cur, ui>>

LEMMA SourceGoes ==
    ASSUME TypeOK, Handed, NEW i \in 1..Len(srcs), CallbackBegin(i) \/ SourceStep(i)
    PROVE  Goes(i, srcs'[i])
<1>1. /\ srcs[i] \in Sources /\ srcs \in Seq(Sources)
      BY ElementOfSeq DEF TypeOK
<1>2. /\ srcs[i].held # << >> => srcs[i].pc \in {"send", "deliver"}
      /\ srcs[i].kind = "EvtSubscribe" <=> srcs[i].pc \in {"listen", "deliver"}
      BY DEF Handed
<1>3. ASSUME NEW r, srcs' = [srcs EXCEPT ![i] = r]  PROVE srcs'[i] = r
      BY <1>1, <1>3
<1>4. ASSUME NEW r, r.kind = srcs[i].kind, r.stop = srcs[i].stop,
             r.held # << >> => r.pc \in {"send", "deliver"},
             r.kind = "EvtSubscribe" <=> r.pc \in {"listen", "deliver"},
             srcs' = [srcs EXCEPT ![i] = r], UNCHANGED <<cur, ui>>
      PROVE  Goes(i, srcs'[i])
      <2>1. srcs'[i] = r  BY <1>3, <1>4
      <2>2. QED  BY <1>4, <2>1 DEF Goes
<1>5. CASE CallbackBegin(i)
      <2> DEFINE r == [srcs[i] EXCEPT !.held = [j \in 1..1 |-> offered + j],
                                      !.pc = "deliver", !.cut = FALSE]
      <2>1. srcs' = [srcs EXCEPT ![i] = r] /\ UNCHANGED <<cur, ui>>
            /\ srcs[i].kind = "EvtSubscribe"
            BY <1>5 DEF CallbackBegin, Obtain, At, uiVars
      <2>2. QED  BY <1>1, <1>2, <1>4, <2>1 DEF Sources
<1>6. CASE CallbackSend(i)
      <2>1. /\ srcs' = [srcs EXCEPT ![i] = [srcs[i] EXCEPT !.held = << >>, !.pc = "listen"]]
            /\ UNCHANGED <<cur, ui>> /\ srcs[i].kind = "EvtSubscribe"
            BY <1>6 DEF CallbackSend, At, uiVars
      <2>2. QED  BY <1>1, <1>2, <1>4, <2>1 DEF Sources
<1>7. ASSUME NEW pc, srcs' = [srcs EXCEPT ![i].pc = pc], UNCHANGED <<cur, ui>>,
             srcs[i].held = << >>, srcs[i].kind # "EvtSubscribe",
             pc \notin {"listen", "deliver"}
      PROVE  Goes(i, srcs'[i])
      BY <1>1, <1>2, <1>4, <1>7 DEF Sources
<1>8. CASE PollCheck(i) \/ PollWait(i) \/ Report(i) \/ SendFinished(i)
      <2>1. PICK pc \in {"done", "poll", "check", "wait", "report"} :
                srcs' = [srcs EXCEPT ![i].pc = pc] /\ UNCHANGED <<cur, ui>>
            BY <1>8 DEF PollCheck, PollWait, Report, SendFinished, Goto, uiVars
      <2>2. srcs[i].held = << >> /\ srcs[i].kind # "EvtSubscribe"
            BY <1>2, <1>8 DEF PollCheck, PollWait, Report, SendFinished, At
      <2>3. QED  BY <1>7, <2>1, <2>2
<1>9. CASE PollReturn(i) \/ BacklogRead(i)
      <2>1. PICK n, cut : Obtain(i, n, "send", cut)
            BY <1>9 DEF PollReturn, BacklogRead
      <2> DEFINE r == [srcs[i] EXCEPT !.held = [j \in 1..n |-> offered + j],
                                      !.pc = "send", !.cut = cut]
      <2>2. srcs' = [srcs EXCEPT ![i] = r] /\ UNCHANGED <<cur, ui>>
            BY <2>1 DEF Obtain, uiVars
      <2>3. srcs[i].kind # "EvtSubscribe"  BY <1>9 DEF PollReturn, BacklogRead, At
      <2>4. QED  BY <1>1, <1>4, <2>2, <2>3 DEF Sources
<1>10. CASE Send(i)
      <2> DEFINE r == [srcs[i] EXCEPT !.held = Tail(srcs[i].held),
                                      !.sent = srcs[i].sent + 1]
      <2>1. srcs' = [srcs EXCEPT ![i] = r] /\ UNCHANGED <<cur, ui>> /\ srcs[i].pc = "send"
            BY <1>10 DEF Send, At, uiVars
      <2>2. QED  BY <1>1, <1>2, <1>4, <2>1 DEF Sources
<1>11. CASE SendAborted(i)
      <2> DEFINE r == [srcs[i] EXCEPT !.held = << >>, !.pc = "done"]
      <2>1. /\ srcs' = [srcs EXCEPT ![i] = r] /\ UNCHANGED <<cur, ui>>
            /\ srcs[i].kind # "EvtSubscribe"
            BY <1>11 DEF SendAborted, At, uiVars
      <2>2. QED  BY <1>1, <1>2, <1>4, <2>1 DEF Sources
<1>12. QED  BY <1>5, <1>6, <1>8, <1>9, <1>10, <1>11 DEF SourceStep

LEMMA SourceCloses ==
    ASSUME TypeOK, Closing, NEW i \in 1..Len(srcs), NEW x, Goes(i, x)
    PROVE  Closing'
<1>1. /\ srcs \in Seq(Sources) /\ srcs' = [srcs EXCEPT ![i] = x]
      /\ x.kind = srcs[i].kind /\ x.stop = srcs[i].stop
      /\ x.held # << >> => x.pc \in {"send", "deliver"}
      /\ x.kind = "EvtSubscribe" <=> x.pc \in {"listen", "deliver"}
      /\ UNCHANGED <<cur, ui>>
      BY DEF TypeOK, Goes
<1>2. /\ Len(srcs') = Len(srcs)
      /\ \A j \in 1..Len(srcs) : srcs'[j] = IF j = i THEN x ELSE srcs[j]
      BY <1>1
<1>3. OneOpen'  BY <1>1, <1>2 DEF Closing, OneOpen
<1>4. Handed'  BY <1>1, <1>2 DEF Closing, Handed
<1>5. Told'  BY <1>1, <1>2 DEF Closing, Told
<1>6. QED  BY <1>3, <1>4, <1>5 DEF Closing

\* s is srcs as far as the sources' own affairs go, and all subscriptions are shut.
AllShut(s) ==
    /\ s \in Seq(Sources) /\ Len(s) = Len(srcs)
    /\ \A j \in 1..Len(srcs) : /\ s[j].held = srcs[j].held /\ s[j].pc = srcs[j].pc
                               /\ s[j].kind = srcs[j].kind
                               /\ s[j].kind = "EvtSubscribe" => s[j].stop

LEMMA StoppedShut ==
    ASSUME TypeOK, Closing
    PROVE  /\ AllShut(Stopped)
           /\ cur # 0 => cur \in 1..Len(srcs) /\ Stopped[cur].stop
<1>1. /\ srcs \in Seq(Sources) /\ cur = Len(srcs) /\ Len(srcs) \in Nat
      /\ \A j \in 1..Len(srcs) : srcs[j] \in Sources
      BY LenProperties, ElementOfSeq DEF TypeOK
<1>2. \A j \in 1..Len(srcs) :
          j # cur /\ srcs[j].kind = "EvtSubscribe" => srcs[j].stop
      BY <1>1 DEF Closing, OneOpen, Sources
<1>3. CASE cur = 0
      <2>1. Stopped = srcs /\ 1..Len(srcs) = {}  BY <1>1, <1>3 DEF Stopped
      <2>2. QED  BY <1>1, <1>3, <2>1 DEF AllShut
<1>4. CASE cur # 0
      <2>1. cur \in 1..Len(srcs)  BY <1>1, <1>4
      <2>2. Stopped = [srcs EXCEPT ![cur] = [srcs[cur] EXCEPT !.stop = TRUE]]
            BY <1>4 DEF Stopped
      <2>3. \A j \in 1..Len(srcs) :
                Stopped[j] = IF j = cur THEN [srcs[cur] EXCEPT !.stop = TRUE]
                                        ELSE srcs[j]
            BY <1>1, <2>1, <2>2
      <2>4. Stopped[cur].stop  BY <1>1, <2>1, <2>3 DEF Sources
      <2>5. \A j \in 1..Len(srcs) : Stopped[j].kind = "EvtSubscribe" => Stopped[j].stop
            BY <1>1, <1>2, <2>3, <2>4
      <2>6. QED  BY <2>1, <2>4, <2>5, StoppedSources DEF AllShut
<1>5. QED  BY <1>3, <1>4

\* The list of sources with its subscriptions shut, and with a new one behind.
LEMMA ShutCloses ==
    ASSUME Closing, AllShut(srcs'), Told'
    PROVE  Closing'
<1>1. OneOpen'  BY DEF AllShut, OneOpen
<1>2. Handed'  BY DEF Closing, AllShut, Handed
<1>3. QED  BY <1>1, <1>2 DEF Closing

LEMMA StartCloses ==
    ASSUME Closing, NEW k \in Kinds, NEW s, AllShut(s), srcs' = Append(s, Source(k)),
           cur' = Len(srcs) + 1, ui'.pc = "loop"
    PROVE  Closing'
<1>1. /\ s \in Seq(Sources) /\ Len(s) = Len(srcs) /\ Len(srcs) \in Nat
      BY LenProperties DEF AllShut
<1>2. /\ Source(k).kind = k /\ Source(k).held = << >>
      /\ k = "EvtSubscribe" <=> Source(k).pc \in {"listen", "deliver"}
      BY DEF Source, Kinds
<1>3. /\ Len(srcs') = Len(srcs) + 1 /\ srcs'[Len(srcs) + 1] = Source(k)
      /\ \A j \in 1..Len(srcs) : srcs'[j] = s[j]
      BY <1>1, SourceEmpty, AppendProperties
<1>4. \A j \in 1..Len(srcs') : j = Len(srcs) + 1 \/ j \in 1..Len(srcs)
      BY <1>1, <1>3
<1>5. OneOpen'
      <2>1. ASSUME NEW j \in 1..Len(srcs'), srcs'[j].kind = "EvtSubscribe",
                   ~srcs'[j].stop
            PROVE  j = cur'
            BY <1>3, <1>4, <2>1 DEF AllShut
      <2>2. QED  BY <2>1 DEF OneOpen
<1>6. Handed'
      <2>1. ASSUME NEW j \in 1..Len(srcs')
            PROVE  /\ srcs'[j].held # << >> => srcs'[j].pc \in {"send", "deliver"}
                   /\ srcs'[j].kind = "EvtSubscribe" <=>
                          srcs'[j].pc \in {"listen", "deliver"}
            <3>1. CASE j = Len(srcs) + 1  BY <1>2, <1>3, <3>1
            <3>2. CASE j \in 1..Len(srcs)
                  BY <1>3, <3>2 DEF AllShut, Closing, Handed
            <3>3. QED  BY <1>4, <3>1, <3>2
      <2>2. QED  BY <2>1 DEF Handed
<1>7. Told'  BY DEF Told
<1>8. QED  BY <1>5, <1>6, <1>7 DEF Closing

LEMMA UiCloses ==
    ASSUME TypeOK, StopReady, Closing, UiStep
    PROVE  Closing'
<1>1. AllShut(Stopped) /\ (cur # 0 => cur \in 1..Len(srcs) /\ Stopped[cur].stop)
      BY StoppedShut
<1>2. Len(Stopped) = Len(srcs)  BY <1>1 DEF AllShut
<1>3. ASSUME NEW k \in Kinds, StartSource(k)  PROVE Closing'
      <2>1. CASE MustWait
            <3>1. srcs' = Stopped /\ cur' = cur /\ cur # 0
                  BY <1>3, <2>1 DEF StartSource, MustWait
            <3>2. Told'  BY <1>1, <1>2, <3>1 DEF Told
            <3>3. QED  BY <1>1, <3>1, <3>2, ShutCloses
      <2>2. CASE ~MustWait
            <3>1. /\ srcs' = Append(Stopped, Source(k)) /\ cur' = Len(srcs) + 1
                  /\ ui'.pc = "loop"
                  BY <1>3, <2>2 DEF StartSource, Idle
            <3>2. QED  BY <1>1, <3>1, StartCloses
      <2>3. QED  BY <2>1, <2>2
<1>4. CASE Exit
      <2>1. srcs' = Stopped /\ cur' = cur  BY <1>4 DEF Exit
      <2>2. ui'.pc = "stopping" => cur # 0  BY <1>4 DEF Exit, MustWait
      <2>3. Told'  BY <1>1, <1>2, <2>1, <2>2 DEF Told
      <2>4. QED  BY <1>1, <2>1, <2>3, ShutCloses
<1>5. CASE StopReturns
      <2>1. /\ ui.pc = "stopping" /\ srcs \in Seq(Sources)
            /\ cur \in 1..Len(srcs) /\ srcs[cur].stop
            BY <1>5 DEF StopReturns, TypeOK, Closing, Told
      <2>2. AllShut(srcs)
            <3>1. ASSUME NEW j \in 1..Len(srcs), srcs[j].kind = "EvtSubscribe"
                  PROVE  srcs[j].stop
                  <4>1. srcs[j] \in Sources  BY <2>1, ElementOfSeq
                  <4>2. CASE j = cur  BY <2>1, <4>2
                  <4>3. CASE j # cur
                        BY <3>1, <4>1, <4>3 DEF Closing, OneOpen, Sources
                  <4>4. QED  BY <4>2, <4>3
            <3>2. QED  BY <2>1, <3>1 DEF AllShut
      <2>3. CASE ui.then = "exit"
            <3>1. srcs' = srcs /\ ui'.pc = "exited"  BY <1>5, <2>3 DEF StopReturns
            <3>2. Told'  BY <3>1 DEF Told
            <3>3. QED  BY <2>2, <3>1, <3>2, ShutCloses
      <2>4. CASE ui.then # "exit"
            <3>1. /\ srcs' = Append(srcs, Source(ui.then)) /\ cur' = Len(srcs) + 1
                  /\ ui'.pc = "loop"
                  BY <1>5, <2>4 DEF StopReturns, Idle
            <3>2. ui.then \in Kinds  BY <2>1, <2>4 DEF StopReady
            <3>3. QED  BY <2>2, <3>1, <3>2, StartCloses
      <2>5. QED  BY <2>3, <2>4
<1>6. QED  BY <1>3, <1>4, <1>5 DEF UiStep

LEMMA ClosingStep ==
    ASSUME IInv, Closing, [Next]_vars
    PROVE  Closing'
<1>1. TypeOK /\ StopReady  BY DEF IInv
<1>2. ASSUME NEW i \in 1..Len(srcs), CallbackBegin(i) \/ SourceStep(i)
      PROVE  Closing'
      BY <1>1, <1>2, SourceGoes, SourceCloses DEF Closing
<1>3. CASE UiStep  BY <1>1, <1>3, UiCloses
<1>4. ASSUME UNCHANGED <<srcs, cur, ui>>  PROVE Closing'
      BY <1>4 DEF Closing, OneOpen, Handed, Told
<1>5. CASE PumpStep \/ RunClosure
      BY <1>4, <1>5 DEF PumpStep, PumpStop, PumpTake, PumpTick, PumpPost, RunClosure,
                        srcVars, uiVars
<1>6. CASE UNCHANGED vars  BY <1>4, <1>6 DEF vars, srcVars, uiVars
<1>7. QED  BY <1>2, <1>3, <1>5, <1>6 DEF Next, PumpStep, UiStep, Ended

\* stopEventSource waits for a goroutine and closes a subscription's handle before
\* a new source starts and before the pump is stopped: only the current source
\* obtains entries, none does after onExit, and what those before it can still
\* send is the one event of a closed subscription's last callback.
THEOREM OneProducer == Spec => []SingleProducer
<1>1. Init => Closing
      <2>1. ASSUME Init  PROVE srcs = << >> /\ ui.pc = "loop"  BY <2>1 DEF Init, Idle
      <2>2. 1..Len(<< >>) = {}  OBVIOUS
      <2>3. QED  BY <2>1, <2>2 DEF Closing, OneOpen, Handed, Told
<1>2. IInv /\ Closing => SingleProducer
      <2>1. ASSUME IInv, Closing, NEW i \in 1..Len(srcs)
            PROVE  /\ Live(i) => i = cur /\ ui.pc # "exited"
                   /\ srcs[i].held # << >> =>
                         \/ Live(i)
                         \/ At(i, {"EvtSubscribe"}, "deliver") /\ Len(srcs[i].held) = 1
            <3>1. /\ Running(i) => i = cur /\ ui.pc # "exited"
                  /\ srcs[i].kind = "EvtSubscribe" /\ ~srcs[i].stop =>
                         i = cur /\ ui.pc # "exited"
                  /\ srcs[i].held # << >> => srcs[i].pc \in {"send", "deliver"}
                  /\ srcs[i].kind = "EvtSubscribe" <=> srcs[i].pc \in {"listen", "deliver"}
                  /\ srcs[i].pc = "deliver" => Len(srcs[i].held) = 1
                  BY <2>1 DEF IInv, OneGoroutine, InHand, Closing, OneOpen, Handed
            <3>2. QED  BY <3>1 DEF Live, Running, At
      <2>2. QED  BY <2>1 DEF SingleProducer
<1>3. QED  BY Invariant, <1>1, <1>2, ClosingStep, PTL DEF Spec

-----------------------------------------------------------------------------
(* Every step is a step of the feed, or none.                              *)

\* The feed calls fresh the entries whose fate is not decided.
LEMMA FreshIsUnknown ==
    ASSUME NEW e
    PROVE  Feed!Fresh(e) <=> e \notin Known
<1>1. e \in Elems(InPipe) <=> \E j \in 1..Len(InPipe) : InPipe[j] = e  BY DEF Elems
<1>2. e \in Elems(applied) <=> \E j \in 1..Len(applied) : applied[j] = e  BY DEF Elems
<1>3. QED  BY <1>1, <1>2 DEF Feed!Fresh, Known

FeedStep == Feed!Next \/ UNCHANGED Feed!feedVars

LEMMA FeedStutters ==
    ASSUME InPipe' = InPipe, UNCHANGED <<applied, lost>>,
           (ui.pc # "exited")' = (ui.pc # "exited")
    PROVE  FeedStep
BY DEF FeedStep, Feed!feedVars

\* A source has an entry accepted or refused, or does neither.
LEMMA SourceFeeds ==
    ASSUME IInv, NEW i \in 1..Len(srcs), NEW x \in Sources, SourceEffect(i, x)
    PROVE  FeedStep
<1>1. TypeOK /\ HeldUnknown  BY DEF IInv
<1>2. UNCHANGED <<pump, posted, applied, ui>>  BY DEF SourceEffect, pumpVars
<1>3. srcs[i].held \in Seq(Entries)
      <2>1. srcs[i] \in Sources  BY <1>1, ElementOfSeq DEF TypeOK
      <2>2. QED  BY <2>1 DEF Sources
<1>4. CASE UNCHANGED <<entryChan, lost>>
      <2>1. InPipe' = InPipe  BY <1>2, <1>4 DEF InPipe
      <2>2. QED  BY <1>2, <1>4, <2>1, FeedStutters
<1>5. CASE /\ srcs[i].held # << >>
           /\ entryChan' = Append(entryChan, Head(srcs[i].held)) /\ lost' = lost
      <2> DEFINE e == Head(srcs[i].held)
      <2>1. e \in Entries /\ e \in Elems(srcs[i].held)  BY <1>3, <1>5, ElemsHeadTail
      <2>2. Feed!Fresh(e)  BY <1>1, <2>1, FreshIsUnknown DEF HeldUnknown
      <2>3. InPipe' = Append(InPipe, e)  BY <1>1, <1>2, <1>5, <2>1, AcceptedLast
      <2> HIDE DEF e
      <2>4. Feed!Accept(e)  BY <1>2, <1>5, <2>2, <2>3 DEF Feed!Accept
      <2>5. QED  BY <2>1, <2>4 DEF FeedStep, Feed!Next
<1>6. CASE lost' = lost \cup Elems(srcs[i].held) /\ entryChan' = entryChan
      <2>1. \A e \in Elems(srcs[i].held) : Feed!Fresh(e)
            BY <1>1, FreshIsUnknown DEF HeldUnknown
      <2>2. Elems(srcs[i].held) \in SUBSET Entries
            <3>1. \A a \in 1..Len(srcs[i].held) : srcs[i].held[a] \in Entries
                  BY <1>3, ElementOfSeq
            <3>2. QED  BY <3>1 DEF Elems
      <2>3. InPipe' = InPipe  BY <1>2, <1>6 DEF InPipe
      <2>4. Feed!Refuse(Elems(srcs[i].held))
            BY <1>2, <1>6, <2>1, <2>3 DEF Feed!Refuse
      <2>5. QED  BY <2>2, <2>4 DEF FeedStep, Feed!Next
<1>7. QED  BY <1>4, <1>5, <1>6 DEF SourceEffect, Fate

LEMMA PumpFeeds ==
    ASSUME IInv, PumpStep
    PROVE  FeedStep
<1>1. InPipe' = InPipe  BY PumpMoves DEF IInv
<1>2. UNCHANGED <<lost, applied, ui>>
      BY DEF PumpStep, PumpStop, PumpTake, PumpTick, PumpPost, srcVars, uiVars
<1>3. QED  BY <1>1, <1>2, FeedStutters

\* A batch closure applies its share, a completion report nothing.
LEMMA ClosureFeeds ==
    ASSUME IInv, RunClosure
    PROVE  FeedStep
<1>1. TypeOK /\ ClosuresCover  BY DEF IInv
<1>2. PICK n \in 0..Len(posted) :
         /\ applied' = applied \o SubSeq(InPipe, 1, n)
         /\ InPipe' = SubSeq(InPipe, n + 1, Len(InPipe))
      BY <1>1, ClosureApplies
<1>3. UNCHANGED <<lost, ui>> /\ ui = Idle  BY DEF RunClosure, srcVars
<1>4. ui.pc # "exited"  BY <1>3 DEF Idle
<1>5. InPipe \in Seq(Entries) /\ applied \in Seq(Entries)  BY <1>1, PipeType
<1>6. n \in 0..Len(InPipe)
      <2>1. n \in 0..Len(posted \o pump.batch)  BY <1>1, PipeType, PlaceConcat
      <2>2. n \in 0..Len((posted \o pump.batch) \o pump.pending)
            BY <1>1, <2>1, PipeType, PlaceConcat
      <2>3. QED  BY <1>1, <2>2, PipeType, PlaceConcat DEF InPipe
<1>7. Feed!Apply(n)  BY <1>2, <1>3, <1>4 DEF Feed!Apply
<1>8. CASE n = 0
      <2>1. SubSeq(InPipe, 1, 0) = << >>
            <3>1. 0 \in 0..Len(InPipe)  BY <1>6, <1>8
            <3>2. SubSeq(InPipe, 1, 0) \in Seq(Entries) /\ Len(SubSeq(InPipe, 1, 0)) = 0
                  BY <1>5, <3>1, CutSeq
            <3>3. QED  BY <3>2, EmptySeq
      <2>2. SubSeq(InPipe, 1, Len(InPipe)) = InPipe
            <3>1. Len(InPipe) \in Nat /\ 0 \in 0..Len(InPipe)
                  BY <1>5, <1>6, <1>8, LenProperties
            <3> DEFINE z == SubSeq(InPipe, 0 + 1, Len(InPipe))
            <3>2. /\ z \in Seq(Entries) /\ Len(z) = Len(InPipe) - 0
                  /\ \A j \in 1..(Len(InPipe) - 0) : z[j] = InPipe[j + 0]
                  BY <1>5, <3>1, CutSeq
            <3> HIDE DEF z
            <3>3. Len(z) = Len(InPipe) /\ \A j \in 1..Len(z) : z[j] = InPipe[j]
                  BY <3>1, <3>2
            <3>4. z = InPipe  BY <1>5, <3>2, <3>3, SeqEqual
            <3>5. QED  BY <3>4 DEF z
      <2>3. applied \o << >> = applied  BY <1>5, ConcatEmptySeq
      <2>4. n + 1 = 1  BY <1>8
      <2>5. InPipe' = SubSeq(InPipe, 1, Len(InPipe))  BY <1>2, <2>4
      <2>6. applied' = applied \o << >>  BY <1>2, <1>8, <2>1
      <2>7. QED  BY <1>3, <2>2, <2>3, <2>5, <2>6, FeedStutters
<1>9. CASE n # 0
      <2>1. n \in 1..Len(InPipe)  BY <1>6, <1>9
      <2>2. QED  BY <1>7, <2>1 DEF FeedStep, Feed!Next
<1>10. QED  BY <1>8, <1>9

\* Leaving closes the feed; starting and stopping sources does nothing to it.
LEMMA UiFeeds ==
    ASSUME IInv, UiStep
    PROVE  FeedStep
<1>1. /\ UNCHANGED <<lost, entryChan, pump, posted, applied>>
      /\ ui.pc = "exited" => ui'.pc = "exited"
      BY UiSteps DEF IInv
<1>2. InPipe' = InPipe  BY <1>1 DEF InPipe
<1>3. CASE (ui.pc # "exited")' = (ui.pc # "exited")
      BY <1>1, <1>2, <1>3, FeedStutters
<1>4. CASE (ui.pc # "exited")' # (ui.pc # "exited")
      <2>1. (ui.pc # "exited")' = FALSE  BY <1>1, <1>4
      <2>2. Feed!Close  BY <1>1, <1>2, <2>1 DEF Feed!Close
      <2>3. QED  BY <2>2 DEF FeedStep, Feed!Next
<1>5. QED  BY <1>3, <1>4

\* The pipeline implements the feed: an entry that src/'s sources get into
\* entryChan reaches model.addEntry exactly once and in the order of acceptance,
\* a dropped one never does, and none does after the window is closed.
THEOREM Implements == Spec => FeedSpec
<1>1. Init => Feed!Init
      <2>1. << >> \o << >> = << >>  OBVIOUS
      <2>2. QED  BY <2>1 DEF Init, Feed!Init, InPipe, Idle
<1>2. IInv /\ [Next]_vars => [Feed!Next]_Feed!feedVars
      <2>1. ASSUME IInv, UNCHANGED vars  PROVE FeedStep
            <3>1. UNCHANGED <<lost, entryChan, pump, posted, applied, ui>>
                  BY <2>1 DEF vars, srcVars, pumpVars, uiVars
            <3>2. InPipe' = InPipe  BY <3>1 DEF InPipe
            <3>3. QED  BY <3>1, <3>2, FeedStutters
      <2>2. IInv /\ [Next]_vars => FeedStep
            BY <2>1, NextCases, SourceFeeds, PumpFeeds, ClosureFeeds, UiFeeds
      <2>3. QED  BY <2>2 DEF FeedStep
<1>3. QED  BY <1>1, <1>2, Invariant, PTL DEF Spec, FeedSpec, Feed!Spec
=============================================================================
