----------------------------- MODULE EventFeed -----------------------------
(***************************************************************************)
(* What the event pipeline promises the event window, whatever source,     *)
(* channel, pump and message queue lie between them: every entry a source  *)
(* gets accepted reaches the model exactly once and in the order of        *)
(* acceptance, in batches; an entry may be refused, and once the window is *)
(* closed nothing more is applied.                                         *)
(***************************************************************************)
EXTENDS Naturals, Sequences

CONSTANT Entries        \* identities of the entries sources may offer

VARIABLES
    pipe,       \* accepted, not yet applied, oldest first
    applied,    \* handed to the model, in order
    lost,       \* refused
    open        \* the window still applies entries

feedVars == <<pipe, applied, lost, open>>

Fresh(e) == /\ e \notin lost
            /\ \A i \in 1..Len(pipe) : pipe[i] # e
            /\ \A i \in 1..Len(applied) : applied[i] # e

Init == pipe = << >> /\ applied = << >> /\ lost = {} /\ open = TRUE

Accept(e) == /\ Fresh(e)
             /\ pipe' = Append(pipe, e)
             /\ UNCHANGED <<applied, lost, open>>

Refuse(S) == /\ \A e \in S : Fresh(e)
             /\ lost' = lost \cup S
             /\ UNCHANGED <<pipe, applied, open>>

Apply(n) == /\ open
            /\ applied' = applied \o SubSeq(pipe, 1, n)
            /\ pipe' = SubSeq(pipe, n + 1, Len(pipe))
            /\ UNCHANGED <<lost, open>>

Close == open' = FALSE /\ UNCHANGED <<pipe, applied, lost>>

Next == \/ \E e \in Entries : Accept(e)
        \/ \E S \in SUBSET Entries : Refuse(S)
        \/ \E n \in 1..Len(pipe) : Apply(n)
        \/ Close

Spec == Init /\ [][Next]_feedVars
=============================================================================
