----------------------------- MODULE LogReading -----------------------------
(***************************************************************************)
(* How the pull sources read the Security log, and what of it reaches the  *)
(* window: the PowerShell poll with its RecordId and time cursors          *)
(* (EventSource.run, poll, buildQuery of src/eventlog.go) and the one-shot *)
(* backlog reads of history mode (RunOnce, historyBacklogSource,           *)
(* readBacklogViaEvtQuery), with applyEventWindowSize, which in history    *)
(* mode empties the model and reads again.                                 *)
(*                                                                         *)
(* The log is the sequence of its 5156/5157 events: an event's RecordId is *)
(* its position, and log[r] its time stamp, at most Lag behind the clock.  *)
(* The channel, the pump and the posted closures between source and model  *)
(* are the queue feed (EventPipeline shows that they act as one).  What    *)
(* the window holds is followed in history mode only.                      *)
(***************************************************************************)
EXTENDS WindowLimits, Subsequences, Sequences, FiniteSetsExt, SequencesExt

CONSTANTS
    Cap,            \* incrementalPollCap
    Backlog,        \* initialEventBacklog
    Guard,          \* seconds a poll's StartTime lies before the last event's
    Lag,            \* how far behind the clock an event may be stamped
    Requests,       \* window sizes asked for, before clamping
    MaxLog,         \* bound: events ever written
    MaxClock,       \* bound: seconds
    MaxResizes      \* bound: changes of the window size

ASSUME CursorAssumption == /\ {Cap, Backlog} \subseteq Nat \ {0}
                           /\ {Guard, Lag} \subseteq Nat
                           /\ Lag <= Guard
                           /\ Requests \subseteq Int
                           /\ {MaxLog, MaxClock, MaxResizes} \subseteq Nat

VARIABLES
    log, clock,
    kind,           \* "poll" (live), "runOnce" or "evtQuery" (history mode)
    phase,          \* of the source's goroutine
    cursor,         \* lastRID, lastTime and firstRun of the EventSource
    limit,          \* how many events its first or only read may return
    horizon,        \* length of the log when its last query was evaluated
    hand,           \* read and not yet sent, oldest first
    stopping,       \* the UI thread is in Stop()
    feed,           \* accepted by the channel and not yet added to the model
    window,         \* model.all, as RecordIds
    maxRows,        \* model.maxRows
    resizes,        \* changes of the window size so far
    \* history variables
    sent,           \* what this source has sent
    missed,         \* [RecordId passed over |-> horizon of the poll that did]
    seeded,         \* clock value that seeded lastTime, or NoTime
    leftover        \* entries of earlier sources in feed when this one began

world   == <<log, clock>>
source  == <<phase, cursor, limit, horizon, hand>>
view    == <<feed, window, maxRows, resizes>>
seen    == <<sent, missed, seeded, leftover>>
vars    == <<world, kind, source, stopping, view, seen>>

NoTime      == -1
HistoryMode == kind # "poll"
Fresh       == [rid |-> 0, time |-> NoTime, first |-> TRUE]

LastOf(s, k) == SubSeq(s, Len(s) - k + 1, Len(s))

-----------------------------------------------------------------------------
\* A source in its first moment, after the one before it has ended.
NewSource(n) ==
    /\ phase' = "reading" /\ cursor' = Fresh /\ limit' = n
    /\ horizon' = 0 /\ hand' = << >>
    /\ sent' = << >> /\ missed' = << >> /\ seeded' = NoTime
    /\ leftover' = Len(feed)

Init ==
    /\ log = << >> /\ clock = 0
    /\ kind \in {"poll", "runOnce", "evtQuery"}
    /\ maxRows \in {Clamp(n) : n \in Requests}
    /\ phase = "reading" /\ cursor = Fresh
    /\ limit = (IF kind = "poll" THEN Backlog ELSE maxRows)
    /\ horizon = 0 /\ hand = << >> /\ resizes = 0
    /\ stopping = FALSE /\ feed = << >> /\ window = << >>
    /\ sent = << >> /\ missed = << >> /\ seeded = NoTime /\ leftover = 0

(* Windows writes events on its own, in RecordId order.  Time matters to    *)
(* the poll only.                                                           *)

Write(lag) ==
    /\ Len(log) < MaxLog /\ lag <= clock
    /\ log' = Append(log, clock - lag)
    /\ UNCHANGED <<clock, kind, source, stopping, view, seen>>

Tick ==
    /\ kind = "poll" /\ clock < MaxClock
    /\ clock' = clock + 1
    /\ UNCHANGED <<log, kind, source, stopping, view, seen>>

-----------------------------------------------------------------------------
(* The source's goroutine.                                                  *)

\* (no guard interval)
FoundMutant ==
    IF cursor.first
    THEN Newest(1..horizon, limit)
    ELSE {r \in Newest({x \in 1..horizon : log[x] >= cursor.time}, Cap) :
            r > cursor.rid}

\* (-ge for -gt)
FoundTwiceMutant ==
    IF cursor.first
    THEN Newest(1..horizon, limit)
    ELSE {r \in Newest({x \in 1..horizon : log[x] >= cursor.time - Guard}, Cap) :
            r >= cursor.rid}

\* What buildQuery's script, or the EvtQuery result set, yields: newest first
\* up to the limit; after the first run only from StartTime on, and then only
\* above the high-water RecordId.
Found ==
    IF cursor.first
    THEN Newest(1..horizon, limit)
    ELSE {r \in Newest({x \in 1..horizon : log[x] >= cursor.time - Guard}, Cap) :
            r > cursor.rid}

\* Newest-first results are reversed into chronological order.
InOrder(S) == Ascending(S)

\* The query is evaluated: nothing written later is in its result.
Query ==
    /\ phase = "reading"
    /\ phase' = "queried"
    /\ horizon' = Len(log)
    /\ UNCHANGED <<world, kind, cursor, limit, hand, stopping, view, seen>>

\* EvtNext delivers the result set newest first, until the set is exhausted,
\* an error ends the read, or Stop is seen between two batches.
EndBacklogRead(k) ==
    /\ kind = "evtQuery" /\ phase = "queried" /\ k <= Cardinality(Found)
    /\ hand' = InOrder(Newest(Found, k))
    /\ phase' = "sending"
    /\ UNCHANGED <<world, kind, cursor, limit, horizon, stopping, view, seen>>

\* (the run loop ends at a failed query)
EndPollFailedMutant ==
    /\ kind # "evtQuery" /\ phase = "queried"
    /\ phase' = "off" /\ hand' = << >>
    /\ UNCHANGED <<world, kind, cursor, limit, horizon, stopping, view, seen>>

\* poll when PowerShell itself fails: no entries, no cursor moved.
EndPollFailed ==
    /\ kind # "evtQuery" /\ phase = "queried"
    /\ phase' = "sending" /\ hand' = << >>
    /\ UNCHANGED <<world, kind, cursor, limit, horizon, stopping, view, seen>>

\* poll when the script has run; R is what it printed.  The script silences
\* Get-WinEvent's errors, which look like an empty result.
EndPoll(R) ==
    LET newest == Max({log[r] : r \in R} \cup {cursor.time})
        seed   == cursor.first /\ newest = NoTime
    IN  /\ kind # "evtQuery" /\ phase = "queried"
        /\ R \in {Found, {}}
        /\ hand' = InOrder(R)
        /\ cursor' = [rid   |-> Max(R \cup {cursor.rid}),
                      time  |-> IF seed THEN clock ELSE newest,
                      first |-> FALSE]
        /\ seeded' = IF seed THEN clock ELSE seeded
        /\ LET passed == IF cursor.first \/ R # Found THEN {}
                         ELSE ((cursor.rid + 1)..horizon) \ R
           IN missed' = [r \in passed \cup DOMAIN missed |->
                           IF r \in DOMAIN missed THEN missed[r] ELSE horizon]
        /\ phase' = "sending"
        /\ UNCHANGED <<world, kind, limit, horizon, stopping, view, sent, leftover>>

\* The send loop: the channel takes the next entry.
Send ==
    /\ phase = "sending" /\ hand # << >>
    /\ hand' = Tail(hand)
    /\ sent' = Append(sent, Head(hand))
    /\ feed' = IF HistoryMode THEN Append(feed, Head(hand)) ELSE feed
    /\ UNCHANGED <<world, kind, phase, cursor, limit, horizon, stopping,
                   window, maxRows, resizes, missed, seeded, leftover>>

\* All sent: a poll waits a second and starts over, a one-shot read is done.
SendDone ==
    /\ phase = "sending" /\ hand = << >>
    /\ phase' = IF HistoryMode \/ stopping THEN "off" ELSE "reading"
    /\ UNCHANGED <<world, kind, cursor, limit, horizon, hand, stopping, view, seen>>

\* The closed stop channel is noticed: in the send loop, or between two polls.
Abort ==
    /\ stopping
    /\ phase = "sending" \/ (phase = "reading" /\ kind = "poll")
    /\ phase' = "off" /\ hand' = << >>
    /\ UNCHANGED <<world, kind, cursor, limit, horizon, stopping, view, seen>>

-----------------------------------------------------------------------------
(* The UI thread: blocked while it is stopping a source.                    *)

\* addEntry: the oldest entry of the feed joins the window.
Apply ==
    /\ ~stopping /\ feed # << >>
    /\ LET w == Append(window, Head(feed))
       IN window' = IF Len(w) > maxRows THEN LastOf(w, KeepRows(maxRows)) ELSE w
    /\ feed' = Tail(feed)
    /\ UNCHANGED <<world, kind, source, stopping, maxRows, resizes, seen>>

\* (the model is not cleared)
ResizeMutant(n) ==
    /\ HistoryMode /\ ~stopping /\ resizes < MaxResizes
    /\ Clamp(n) # maxRows
    /\ resizes' = resizes + 1
    /\ maxRows' = Clamp(n)
    /\ stopping' = TRUE
    /\ UNCHANGED <<world, kind, source, feed, window, seen>>

\* applyEventWindowSize in history mode, up to startHistoryIngest's Stop.
Resize(n) ==
    /\ HistoryMode /\ ~stopping /\ resizes < MaxResizes
    /\ Clamp(n) # maxRows
    /\ resizes' = resizes + 1
    /\ maxRows' = Clamp(n)
    /\ window' = << >>
    /\ stopping' = TRUE
    /\ UNCHANGED <<world, kind, source, feed, seen>>

\* startHistoryIngest: the source before has ended, a new one starts.
ReRead ==
    /\ HistoryMode /\ stopping /\ phase = "off"
    /\ stopping' = FALSE
    /\ NewSource(maxRows)
    /\ UNCHANGED <<world, kind, view>>

\* "Start" after a "Stop", which has left the poll running: startEventSource
\* stops it, and once it has ended starts one that knows nothing of it.
Restart ==
    /\ kind = "poll" /\ ~stopping
    /\ stopping' = TRUE
    /\ UNCHANGED <<world, kind, source, view, seen>>

Restarted ==
    /\ kind = "poll" /\ stopping /\ phase = "off"
    /\ stopping' = FALSE
    /\ NewSource(Backlog)
    /\ UNCHANGED <<world, kind, view>>

-----------------------------------------------------------------------------
Next ==
    \/ \E lag \in (IF HistoryMode THEN {0} ELSE 0..Lag) : Write(lag)
    \/ Tick
    \/ Query
    \/ \E k \in 0..MaxLog : EndBacklogRead(k)
    \/ EndPollFailed
    \/ \E R \in {Found, {}} : EndPoll(R)
    \/ Send
    \/ SendDone
    \/ Abort
    \/ Apply
    \/ \E n \in Requests : Resize(n)
    \/ ReRead
    \/ Restart
    \/ Restarted

\* The goroutine and the UI loop go on whenever they can.  A query may fail any
\* number of times, but not for ever.
Fairness ==
    /\ WF_vars(Query) /\ WF_vars(EndPollFailed) /\ WF_vars(Send) /\ WF_vars(SendDone)
    /\ WF_vars(Abort) /\ WF_vars(Apply) /\ WF_vars(ReRead) /\ WF_vars(Restarted)
    /\ SF_vars(EndPoll(Found))

Spec == Init /\ [][Next]_vars /\ Fairness

-----------------------------------------------------------------------------
(* Properties.                                                             *)

Rids == 1..MaxLog

\* Every variable keeps its shape, and no cursor is ahead of the log.
TypeOK ==
    /\ log \in Seq(0..MaxClock) /\ Len(log) <= MaxLog /\ clock \in 0..MaxClock
    /\ kind \in {"poll", "runOnce", "evtQuery"}
    /\ phase \in {"reading", "queried", "sending", "off"}
    /\ cursor \in [rid : 0..Len(log), time : {NoTime} \cup 0..clock, first : BOOLEAN]
    /\ limit \in Nat /\ horizon \in 0..Len(log)
    /\ {hand, feed, window, sent} \subseteq Seq(1..Len(log))
    /\ stopping \in BOOLEAN
    /\ maxRows \in MinWindowSize..MaxWindowSize
    /\ resizes \in 0..MaxResizes
    /\ DOMAIN missed \subseteq 1..Len(log)
    /\ seeded \in {NoTime} \cup 0..clock /\ leftover \in Nat

\* One source hands an event over at most once, and the events in the order of
\* the log, although every poll reads again from Guard seconds before the last
\* event: the RecordId mark and the final reversal have to agree.
OncePerSource ==
    LET s == sent \o hand
    IN \A i, j \in 1..Len(s) : i < j => s[i] < s[j]

\* An event a poll passes over is lost: no later poll looks below its marks.
\* That happens in two ways only.  Cap newer events were there already, which the
\* comment on incrementalPollCap accepts.  Or the source's first poll came back
\* empty, its end became the time mark, and the event is stamped more than Guard
\* before that; the code does not speak of this one, see NoneMissedAtBoundary.
MissedOnlyAtStart ==
    \A r \in DOMAIN missed :
        \/ missed[r] - r >= Cap
        \/ seeded # NoTime /\ log[r] < seeded - Guard

\* The comment in buildQuery: the guard interval and the RecordId mark see to it
\* that "no event straddling the boundary is missed", so the cap alone loses any.
NoneMissedAtBoundary == \A r \in DOMAIN missed : missed[r] - r >= Cap

\* The last read is over and the model has taken in everything.
Settled == HistoryMode /\ phase = "off" /\ ~stopping /\ feed = << >>

\* Once a history read has settled, the window ends with the newest events the
\* log had when it was queried, in order and without repetition: all that were
\* read, or, when what an earlier read left in the channel pushed the window
\* over its size, at least the share a bulk trim keeps.
HistoryShowsLatest ==
    Settled =>
        LET got  == Len(sent)
            kept == IF leftover + got <= maxRows THEN got
                    ELSE Min({got, KeepRows(maxRows)})
        IN  /\ Len(window) >= kept
            /\ LastOf(window, kept) = [i \in 1..kept |-> horizon - kept + i]
            /\ Len(window) <= leftover + got

\* While the poll runs, an event in the log is sent, or passed over in a way
\* MissedOnlyAtStart allows, or was older than the backlog of the first read,
\* unless the source is replaced before: failing queries only delay it.  An event
\* passed over counts as accounted for: that it is lost is said there.
Accounted(r) ==
    \/ r \in Range(sent) \cup DOMAIN missed
    \/ sent # << >> /\ r < Head(sent)
    \/ stopping

EventuallyRead ==
    \A r \in Rids : (kind = "poll" /\ r <= Len(log)) ~> Accounted(r)

\* The comment in applyEventWindowSize: "the displayed set always matches a
\* clean read of N events", entries of the read before showing at most as "a
\* few transient duplicate rows".
ReReadComplete ==
    Settled => \A r \in Range(sent) : r \in Range(window)

=============================================================================
