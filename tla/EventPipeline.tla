--------------------------- MODULE EventPipeline ---------------------------
(***************************************************************************)
(* From the Security log to the event window: the event sources            *)
(* (src/evtsubscribe.go, src/eventlog.go, historyBacklogSource), the       *)
(* bounded entryChan they share, the uiPump goroutine, walk's queue of     *)
(* closures for the UI thread, and the UI thread's starting, stopping and  *)
(* replacing of sources up to the closing of the window.                   *)
(*                                                                         *)
(* Entries are numbered as sources obtain them.  The source the UI thread  *)
(* knows as app.eventSource is srcs[cur]; the ones before it are replaced, *)
(* and their goroutines or callbacks may in principle still run.           *)
(***************************************************************************)
EXTENDS Integers, Sequences

CONSTANTS
    ChanCap,        \* capacity of entryChan (500 in the code)
    MaxEntries,     \* bound: entries sources ever obtain
    MaxPoll,        \* bound: entries one poll or backlog read returns
    MaxSources      \* bound: sources ever started

ASSUME BoundsAssumption ==
    /\ ChanCap \in Nat \ {0} /\ MaxEntries \in Nat
    /\ MaxPoll \in Nat /\ MaxSources \in Nat

VARIABLES
    historyMode,    \* app.historyMode
    srcs,           \* the sources started so far
    cur,            \* app.eventSource, 0 for nil
    offered,        \* entries obtained so far
    lost,           \* entries dropped by a full channel or an aborted send
    entryChan,      \* app.entryChan
    pump,           \* uiPump: where it is, its pending and its batch
    pumpStop,       \* app.pumpStop is closed
    posted,         \* entries in posted batch closures, oldest first
    uiQueue,        \* closures posted with Synchronize
    applied,        \* entries handed to model.addEntry
    ui              \* the UI thread: at its message loop, in Stop(), or gone

srcVars  == <<historyMode, srcs, cur, offered, lost>>
pumpVars == <<pump, pumpStop>>
uiVars   == <<posted, uiQueue, applied, ui>>
vars     == <<srcVars, entryChan, pumpVars, uiVars>>

Entries == 1..MaxEntries
Kinds   == {"EvtSubscribe", "PowerShell", "History"}
PCs     == {"check", "poll", "send", "wait", "read", "report", "done",
            "listen", "deliver"}

Source(k) == [kind |-> k, stop |-> FALSE, cut |-> FALSE, held |-> << >>, sent |-> 0,
              pc |-> CASE k = "EvtSubscribe" -> "listen"
                       [] k = "PowerShell"   -> "check"
                       [] k = "History"      -> "read"]

Idle    == [pc |-> "loop", then |-> "none"]
Elems(s) == {s[i] : i \in 1..Len(s)}

Init ==
    /\ historyMode \in BOOLEAN
    /\ srcs = << >> /\ cur = 0 /\ offered = 0 /\ lost = {}
    /\ entryChan = << >>
    /\ pump = [pc |-> "select", pending |-> << >>, batch |-> << >>]
    /\ pumpStop = FALSE
    /\ posted = << >> /\ uiQueue = << >> /\ applied = << >>
    /\ ui = Idle

-----------------------------------------------------------------------------
(* The sources.  An operator named ...Mutant is a plausible mistake in the *)
(* one after it; no specification uses it.                                 *)

ChanFull == Len(entryChan) >= ChanCap

At(i, k, pc) == srcs[i].kind \in k /\ srcs[i].pc = pc

Goto(i, pc) == srcs' = [srcs EXCEPT ![i].pc = pc]

\* A callback, a poll or a read has n new entries in hand; cut tells a read
\* that a stop ended before its log query did.
Obtain(i, n, pc, cut) ==
    /\ offered + n <= MaxEntries
    /\ offered' = offered + n
    /\ srcs' = [srcs EXCEPT ![i].held = [j \in 1..n |-> offered + j],
                            ![i].pc = pc, ![i].cut = cut]
    /\ UNCHANGED <<historyMode, cur, lost, entryChan, pumpVars, uiVars>>

\* wevtapi calls back with one event, until the subscription is closed.
CallbackBegin(i) ==
    /\ At(i, {"EvtSubscribe"}, "listen") /\ ~srcs[i].stop
    /\ Obtain(i, 1, "deliver", FALSE)

\* The callback's send never blocks: a full channel drops the entry.
CallbackSend(i) ==
    LET e == Head(srcs[i].held)
    IN  /\ At(i, {"EvtSubscribe"}, "deliver")
        /\ srcs' = [srcs EXCEPT ![i].held = << >>, ![i].pc = "listen"]
        /\ IF ChanFull
           THEN lost' = lost \cup {e} /\ UNCHANGED entryChan
           ELSE entryChan' = Append(entryChan, e) /\ UNCHANGED lost
        /\ UNCHANGED <<historyMode, cur, offered, pumpVars, uiVars>>

\* run(): the stop channel is looked at before a poll, not during it.
PollCheck(i) ==
    /\ At(i, {"PowerShell"}, "check")
    /\ Goto(i, IF srcs[i].stop THEN "done" ELSE "poll")
    /\ UNCHANGED <<historyMode, cur, offered, lost, entryChan, pumpVars, uiVars>>

PollReturn(i) ==
    /\ At(i, {"PowerShell"}, "poll")
    /\ \E n \in 0..MaxPoll : Obtain(i, n, "send", FALSE)

\* The one-shot backlog read: a stop seen between two batches of the log query
\* ends it early, and what it has so far is returned all the same.
BacklogRead(i) ==
    /\ At(i, {"History"}, "read")
    /\ \E n \in 0..MaxPoll, cut \in {srcs[i].stop, FALSE} : Obtain(i, n, "send", cut)

\* The sending select of run() and of the backlog reads, one entry at a time:
\* when both the channel and the stop are ready, either may be taken.
Send(i) ==
    /\ At(i, {"PowerShell", "History"}, "send")
    /\ srcs[i].held # << >> /\ ~ChanFull
    /\ entryChan' = Append(entryChan, Head(srcs[i].held))
    /\ srcs' = [srcs EXCEPT ![i].held = Tail(@), ![i].sent = @ + 1]
    /\ UNCHANGED <<historyMode, cur, offered, lost, pumpVars, uiVars>>

SendAborted(i) ==
    /\ At(i, {"PowerShell", "History"}, "send")
    /\ srcs[i].held # << >> /\ srcs[i].stop
    /\ lost' = lost \cup Elems(srcs[i].held)
    /\ srcs' = [srcs EXCEPT ![i].held = << >>, ![i].pc = "done"]
    /\ UNCHANGED <<historyMode, cur, offered, entryChan, pumpVars, uiVars>>

SendFinished(i) ==
    /\ At(i, {"PowerShell", "History"}, "send") /\ srcs[i].held = << >>
    /\ Goto(i, IF srcs[i].kind = "PowerShell" THEN "wait" ELSE "report")
    /\ UNCHANGED <<historyMode, cur, offered, lost, entryChan, pumpVars, uiVars>>

\* The interval between polls ends with the timer or with the stop.
PollWait(i) ==
    /\ At(i, {"PowerShell"}, "wait")
    /\ \E stopped \in {srcs[i].stop, FALSE} : Goto(i, IF stopped THEN "done" ELSE "check")
    /\ UNCHANGED <<historyMode, cur, offered, lost, entryChan, pumpVars, uiVars>>

\* done(sent): the completion message of a history read.
Report(i) ==
    /\ At(i, {"History"}, "report")
    /\ uiQueue' = Append(uiQueue, [what |-> "report", n |-> srcs[i].sent])
    /\ Goto(i, "done")
    /\ UNCHANGED <<historyMode, cur, offered, lost, entryChan, pumpVars, posted,
                   applied, ui>>

-----------------------------------------------------------------------------
(* uiPump.                                                                 *)

PumpStop ==
    /\ pump.pc = "select" /\ pumpStop
    /\ pump' = [pump EXCEPT !.pc = "done"]
    /\ UNCHANGED <<srcVars, entryChan, pumpStop, uiVars>>

PumpTake ==
    /\ pump.pc = "select" /\ entryChan # << >>
    /\ pump' = [pump EXCEPT !.pending = Append(@, Head(entryChan))]
    /\ entryChan' = Tail(entryChan)
    /\ UNCHANGED <<srcVars, pumpStop, uiVars>>

\* (pending is not reset)
PumpTickMutant ==
    /\ pump.pc = "select" /\ pump.pending # << >>
    /\ pump' = [pump EXCEPT !.pc = "post", !.batch = pump.pending]
    /\ UNCHANGED <<srcVars, entryChan, pumpStop, uiVars>>

\* The ticker: a non-empty pending becomes the batch to resolve names for.
PumpTick ==
    /\ pump.pc = "select" /\ pump.pending # << >>
    /\ pump' = [pc |-> "post", pending |-> << >>, batch |-> pump.pending]
    /\ UNCHANGED <<srcVars, entryChan, pumpStop, uiVars>>

\* (a batch is skipped while the UI thread is busy)
PumpPostMutant ==
    /\ pump.pc = "post"
    /\ pump' = [pump EXCEPT !.pc = "select", !.batch = << >>]
    /\ IF ui.pc = "loop"
       THEN /\ posted' = posted \o pump.batch
            /\ uiQueue' = Append(uiQueue, [what |-> "batch", n |-> Len(pump.batch)])
       ELSE UNCHANGED <<posted, uiQueue>>
    /\ UNCHANGED <<srcVars, entryChan, pumpStop, applied, ui>>

\* The names are resolved: Synchronize, which never blocks.
PumpPost ==
    /\ pump.pc = "post"
    /\ pump' = [pump EXCEPT !.pc = "select", !.batch = << >>]
    /\ posted' = posted \o pump.batch
    /\ uiQueue' = Append(uiQueue, [what |-> "batch", n |-> Len(pump.batch)])
    /\ UNCHANGED <<srcVars, entryChan, pumpStop, applied, ui>>

-----------------------------------------------------------------------------
(* The UI thread.                                                          *)

RunClosure ==
    /\ ui = Idle /\ uiQueue # << >>
    /\ uiQueue' = Tail(uiQueue)
    /\ LET n == IF Head(uiQueue).what = "batch" THEN Head(uiQueue).n ELSE 0
       IN  /\ applied' = applied \o SubSeq(posted, 1, n)
           /\ posted' = SubSeq(posted, n + 1, Len(posted))
    /\ UNCHANGED <<srcVars, entryChan, pumpVars, ui>>

Running(i) == srcs[i].kind # "EvtSubscribe" /\ srcs[i].pc # "done"

\* Source i may still obtain entries: its goroutine runs, or its handle is open.
Live(i) == IF srcs[i].kind = "EvtSubscribe" THEN ~srcs[i].stop ELSE Running(i)

\* (Stop returns without waiting for doneCh)
MustWaitMutant == FALSE

\* Stop waits for doneCh, except that closing a subscription does not.
MustWait == cur # 0 /\ Running(cur)

\* (the stop channel is never closed)
StoppedMutant == srcs

\* The close of the stop channel, or of the subscription handle.
Stopped == IF cur = 0 THEN srcs ELSE [srcs EXCEPT ![cur].stop = TRUE]

\* (app.eventSource is not set to the new source)
StartSourceMutant(k) ==
    /\ ui = Idle /\ Len(srcs) < MaxSources
    /\ (k = "History") = historyMode
    /\ IF MustWait
       THEN srcs' = Stopped /\ ui' = [pc |-> "stopping", then |-> k] /\ UNCHANGED cur
       ELSE srcs' = Append(Stopped, Source(k)) /\ UNCHANGED <<cur, ui>>
    /\ UNCHANGED <<historyMode, offered, lost, entryChan, pumpVars, posted,
                   uiQueue, applied>>

\* startEventSource and startHistoryIngest start with stopping what runs.
StartSource(k) ==
    /\ ui = Idle /\ Len(srcs) < MaxSources
    /\ (k = "History") = historyMode
    /\ IF MustWait
       THEN srcs' = Stopped /\ ui' = [pc |-> "stopping", then |-> k] /\ UNCHANGED cur
       ELSE srcs' = Append(Stopped, Source(k)) /\ cur' = Len(srcs) + 1 /\ UNCHANGED ui
    /\ UNCHANGED <<historyMode, offered, lost, entryChan, pumpVars, posted,
                   uiQueue, applied>>

\* (the pump is left running)
ClosePumpMutant == pumpStop' = pumpStop

ClosePump == pumpStop' = TRUE

\* onExit, from the Closing event: source first, then the pump.
Exit ==
    /\ ui = Idle
    /\ srcs' = Stopped
    /\ IF MustWait
       THEN ui' = [pc |-> "stopping", then |-> "exit"] /\ UNCHANGED pumpStop
       ELSE ui' = [pc |-> "exited", then |-> "none"] /\ ClosePump
    /\ UNCHANGED <<historyMode, cur, offered, lost, entryChan, pump, posted,
                   uiQueue, applied>>

\* Stop returns: the goroutine has closed doneCh.
StopReturns ==
    /\ ui.pc = "stopping" /\ ~Running(cur)
    /\ IF ui.then = "exit"
       THEN /\ ui' = [pc |-> "exited", then |-> "none"] /\ ClosePump
            /\ UNCHANGED <<srcs, cur>>
       ELSE /\ srcs' = Append(srcs, Source(ui.then)) /\ cur' = Len(srcs) + 1
            /\ ui' = Idle /\ UNCHANGED pumpStop
    /\ UNCHANGED <<historyMode, offered, lost, entryChan, pump, posted, uiQueue,
                   applied>>

-----------------------------------------------------------------------------
SourceStep(i) ==
    \/ CallbackSend(i)
    \/ PollCheck(i) \/ PollReturn(i) \/ PollWait(i)
    \/ BacklogRead(i) \/ Report(i)
    \/ Send(i) \/ SendAborted(i) \/ SendFinished(i)

\* mw.Run() has returned: nothing need happen any more before main ends.
Ended == ui.pc = "exited" /\ UNCHANGED vars

Next ==
    \/ \E i \in 1..Len(srcs) : CallbackBegin(i) \/ SourceStep(i)
    \/ PumpStop \/ PumpTake \/ PumpTick \/ PumpPost
    \/ RunClosure
    \/ \E k \in Kinds : StartSource(k)
    \/ StopReturns
    \/ Exit
    \/ Ended

Spec == Init /\ [][Next]_vars

\* Goroutines and the message loop are scheduled; a started PowerShell process
\* or log query ends.  Events, clicks and closing the window may never come.
Fairness ==
    /\ \A i \in 1..MaxSources : WF_vars(i <= Len(srcs) /\ SourceStep(i))
    /\ WF_vars(PumpStop) /\ WF_vars(PumpTake) /\ WF_vars(PumpTick) /\ WF_vars(PumpPost)
    /\ WF_vars(RunClosure) /\ WF_vars(StopReturns)

FairSpec == Spec /\ Fairness

-----------------------------------------------------------------------------
(* Properties.                                                             *)

Sources  == [kind : Kinds, stop : BOOLEAN, cut : BOOLEAN, held : Seq(Entries),
             sent : Nat, pc : PCs]
Pumps    == [pc : {"select", "post", "done"}, pending : Seq(Entries),
             batch : Seq(Entries)]
Closures == [what : {"batch", "report"}, n : Nat]

\* Every variable keeps its shape, no bound is passed, and app.eventSource is the
\* source started last: none is started and then forgotten.
TypeOK ==
    /\ historyMode \in BOOLEAN
    /\ srcs \in Seq(Sources) /\ Len(srcs) <= MaxSources /\ cur = Len(srcs)
    /\ offered \in 0..MaxEntries /\ lost \subseteq Entries
    /\ entryChan \in Seq(Entries)
    /\ pump \in Pumps /\ pumpStop \in BOOLEAN
    /\ {posted, applied} \subseteq Seq(Entries) /\ uiQueue \in Seq(Closures)
    /\ ui.pc \in {"loop", "stopping", "exited"}
    /\ ui.then \in Kinds \cup {"none", "exit"}

\* Only the current source obtains entries, and none does after the exit: two
\* polls never feed the channel at once, nor a poll beside an open subscription.
\* What the sources before it may still send is the one event that a closed
\* subscription's last callback has in hand.
SingleProducer ==
    \A i \in 1..Len(srcs) :
        /\ Live(i) => i = cur /\ ui.pc # "exited"
        /\ srcs[i].held # << >> =>
              Live(i) \/ (At(i, {"EvtSubscribe"}, "deliver") /\ Len(srcs[i].held) = 1)

\* Everything accepted and not yet applied, oldest first.
InPipe == posted \o pump.batch \o pump.pending \o entryChan

\* The pipeline implements the feed: accepted entries reach the model exactly
\* once, in the order of acceptance, and a dropped entry never does.
Feed == INSTANCE EventFeed WITH pipe <- InPipe, open <- (ui.pc # "exited")

FeedSpec == Feed!Spec

\* The UI thread does not hang in Stop: the goroutine it waits for is never
\* itself waiting for the UI thread, nor for a full channel.
StopTerminates == ui.pc = "stopping" ~> ui.pc # "stopping"

\* An accepted entry reaches the model, unless the window is closed first.
Delivered ==
    \A e \in Entries :
        e \in Elems(entryChan) ~> (e \in Elems(applied) \/ ui.pc = "exited")

\* Closing the window ends every goroutine of the pipeline.
Quiesces ==
    ui.pc = "exited" ~> /\ pump.pc = "done"
                        /\ \A i \in 1..MaxSources : i <= Len(srcs) => ~Running(i)

\* A history read that a stop has cut short does not report completion, as the
\* comment on historyBacklogSource.Start says.
AbortedReadIsSilent ==
    [][\A i \in 1..Len(srcs) : srcs[i].cut => ~Report(i)]_vars

=============================================================================
