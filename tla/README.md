# Verification of WinFWMon

WinFWMon is a Windows program that shows the connection events the Windows
Filtering Platform writes to the Security log. It reads them with a push
subscription, a PowerShell poller or a one-shot history read, attributes them
to firewall rules, and shows them in a filtered, pausable table whose size is
bounded. This directory models its stateful parts in TLA+, checks them with TLC
and proves the central ones with TLAPS. All paths below are under `src/`.

## The system

| Component | State it keeps | Operations | Hard parts |
|---|---|---|---|
| Event window: `entryModel` and the UI handlers (`main.go`) | `all`, `visible`, `display`, filter, collapse, `maxRows`; `paused`, `totalCount`, the row count walk cached, the count label | batch of entries, pause/resume, filter and noise changes, collapse, clear, resize | three slices trimmed and rebuilt separately; walk paints from a cached row count; everything may happen while paused |
| Event filter (`filter.go`) | none | `Matches`, `isNoise` | one definition of noise for hiding and for collapsing; negate flags that outlive their text |
| UI pump (`main.go`) | `entryChan` (500), `pending`, `pumpStop` | take, tick, resolve names, post, stop | a goroutine between the sources and the UI thread |
| Event sources (`evtsubscribe.go`, `eventlog.go`, `main.go`) | stop and done channels; the poller's `lastRID`, `lastTime`, `firstRun` | callback, poll, backlog read, stop | full channel; stop during a poll, a send, a wait or a read; replaced sources; overlapping, failing and empty polls; late time stamps |
| Audit policy control (`main.go`, `helpers.go`, `args.go`) | `auditingOn`, `auditEnabledByUs`, `priorAuditState`, `restoreOnExit`, the machine's policy | startup check and prompt, Start/Stop, exit, panic, `--wfp=on` and `--wfp=off` | failing `auditpol`, other processes, kills, relaunches |
| Source selection (`main.go`) | `eventSource`, `activeSourceKind`, `sourceRunning` | start, fall back, fail | failure inside a handler that has already changed the policy |
| Rule and filter tables (`rules.go`, `wfpfilters.go`, `main.go`) | two snapshots, `reloadingRules`, the button | load at startup, reload | overlapping slow loads, failing and empty ones |
| Status bar (`main.go`) | text, `statusRevertGen` | `setStatus`, `setStatusTransient` | a revert that is late |
| Rule matching (`rules.go`), netsh parsing (`wfpfilters.go`) | the table of the moment | `candidates`, `Match`, `PossibleMatches`, `parseWFPFilters` | scoring, ties and wildcards; texts converted back and forth; columns filled once, the detail view anew |
| Process names (`process.go`) | a snapshot and its age | `Name` | stale cache |
| Configuration (`config.go`, `main.go`) | a JSON file, the controls | probe, load, restore, change, save | the file written in place, files of other versions or of other origin |
| Column order (`columnorder_windows.go`, `config.go`) | the list view's native order, widths, visibility | read, complete, validate, translate, set | three numberings of a column; a control that refuses |
| Command line (`args.go`), dialogs, export, console, debug log | - | - | - |

The parts meet as follows. A source sends entries into `entryChan`; `uiPump`
collects them, every 250 ms resolves their names with the two tables and posts
one closure; the UI thread runs the closure, which adds the entries to the
event window, and runs every click handler in between. The UI thread also
starts, stops and replaces the source; `Stop` blocks it until the source's
goroutine is gone. The audit policy decides whether events are written at all.

What makes each part correct: the event window is bounded, has no holes, shows
nothing that was cleared or is filtered out, and never lets walk ask for a row
that is not there; the pipeline delivers each accepted entry once and in order
and neither hangs nor outlives the window; the policy is given back as
promised, unless `auditpol` itself fails, and the button says what is the case; a
reload never locks its button, and a status revert touches only its own message; a
poll repeats nothing and skips only what is too much for it or what an empty first
poll puts out of its reach; what the user set and the program completely saved
comes back at the next launch, unless a later save was cut off, and then the
declared defaults do.

## Modules

| Module | Models |
|---|---|
| `WindowLimits` | the clamp of a window size and the bulk trim, shared by the next ones |
| `EventWindow` | `entryModel`, the batch closure, every handler that changes the table |
| `EventFeed` | abstract: a lossy feed, exactly once and in order |
| `EventPipeline` | the sources, `entryChan`, `uiPump`, the closure queue, the UI thread's start, stop and exit; implements `EventFeed` |
| `AuditControl` | the machine's audit policy, startup, Start/Stop, source selection, exit, panic, kill, relaunch |
| `LogReading` | the poller's query and cursors, the history reads, the re-read after a change of the window size |
| `RuleTables` | the two snapshots, their loads, the reload button, the status message |
| `FilterMatch` | `Filter.Matches` and the address classes, as operators |
| `Settings` | the configuration file, the controls and the column layout over several instances; the filter the controls make |
| `Attribution` | what the Matched Rule, WFP Filter and Process columns of an event are filled with, and the detail view's list |
| `Subsequences` | a set of numbers in order, and the elements of a sequence at some of its places; used by `LogReading` and `Settings` |
| `EventWindow_proofs`, `EventPipeline_proofs`, `AuditControl_proofs`, `LogReading_proofs`, `RuleTables_proofs`, `Settings_proofs`, `Attribution_proofs` | the theorems about the module they are named after |
| `SequenceLemmas` | what several proofs need of queues, of loops over a sequence, of sorts and of arrangements |
| `MC...` | the instances TLC checks |

Each module declares its bounds as CONSTANTS with a named ASSUME. An operator
named `...Mutant` is a plausible mistake in the operator after it: it documents
what the properties are sensitive to and no specification uses it.

### EventWindow

Entries are numbered in order of arrival, and the slices are sets of numbers:
the code only appends, cuts off the head, and filters. What a filter can tell
apart is the entry's kind; a filter is a set of kinds it lets through, a set it
classifies as noise, and whether noise is hidden. `display` maps each row, named
by its oldest entry, to the entries merged in it (`collapseNoise`).

Handlers of the UI thread are atomic; the closure of a batch is one step per
entry (`BatchStart`, `AddEntry`, `BatchEnd`), with the pause state captured at
its start as in the code. `published` is the row count walk holds since the last
`PublishRowsReset`, `countLabel` what `updateCount` last wrote. A new size in
history mode empties the model for a new read, otherwise it trims.

### EventPipeline

A source is a record with its program counter. `CallbackBegin`/`CallbackSend`
are the push callback, whose send drops on a full channel; `PollCheck`,
`PollReturn`, `Send`, `SendAborted`, `PollWait` the poller's loop, with the
choice Go's `select` has when both the channel and the stop are ready;
`BacklogRead` and `Report` the history read. `StartSource`, `Exit` and
`StopReturns` are the UI thread, which is in `stopping` while a `Stop` waits for
the goroutine; the close of a subscription does not wait, so its last callback may
still send the event it has in hand beside the new source (`SingleProducer`
allows for just that). `Live` is a source that may still obtain entries: a
goroutine that runs, or a subscription that is open. Closures are queued
without bound, as walk's `Synchronize` does.

`wevtapi` is outside the repository. It is assumed to call the callback back
from one event at a time, and that the close of the subscription may return
while one callback is still running. The failure of `EvtSubscribe` under
`--no-fallback` closes the window and is the action `Exit` here.

### AuditControl

The policy is the set of what is audited. Enabling is two steps, the read and
the set, and starting the source another, because other processes
(`RunWFPSet`) and a kill can come between. Every `auditpol` call may fail; a
failed read looks like a policy that is off, as in the code. `history` holds
what the properties need to know of the present launch (the policy it found, Stop,
what other processes turned on or off, the reads and restores that failed, how it
ended) and no action's guard reads it. Elevation is checked once at startup: the later check in
`onStartStopAuditing` cannot fail after it and is left out.

### RuleTables

The machine's rules are a version number. A load sees the version of the moment
its command runs and stores it later; errors and empty parses store nothing.
There is one slot for a reload since `MayReload` keeps a second one out.
`asked` is history for the properties.

### Attribution

Where `RuleTables` knows a table only by its version, `Attribution` has the
rules in it. `ParseRule` turns a printed line into a rule; `Applies`, `Strong`
and `RuleScore` are the loop body of `candidates`. `Candidates` is its stable
sort: a candidate's place is the number of those that come before it. `Better` is
one turn of `Match`'s loop over the strong ones, `Match` the column,
`PossibleMatches` the detail view. Names
and programs are opaque (a program is its base name), a port list is a set of
ranges, empty for the words Windows uses (`RPC`). Protocol texts are kept as
words and numerals because they are converted to a number on one side and to a
name and back on the other. `Resolve` fills one event's three columns in the
order `uiPump` does, the process last; `rows` keeps the latest, since events do
not affect each other. `Name` leaves open how old the process snapshot is.

A dump of `netsh wfp show filters` is a sequence of items with a name, or none,
and an id, or none that parses. `Printed` is the tags the scanner finds in it,
`Scan` one turn of its loop.

### LogReading

The Security log is the sequence of the events the program asks for; a RecordId
is a position in it, and `log[r]` the time stamp, which may lag behind the clock.
`Query` is the moment Windows evaluates a query, `EndPoll` and `EndBacklogRead`
the moment its output is parsed, so what is written in between is not in it.
`Found` is the result by `buildQuery`: the newest `Backlog` at first, then the
newest `Cap` from `Guard` seconds before the last event on, above the RecordId
mark. `EndPoll({})` is a query whose error PowerShell silenced, `EndPollFailed` a
PowerShell that itself failed. `EndBacklogRead(k)` is the read with EvtNext, cut
short by an error or by `Stop` after `k` events. `Restart` and `Restarted` are a
click on Start that replaces a poll still running.

`feed` is all that lies between the source and the model. In `EventPipeline` that
is a channel, the pump's `pending` and posted closures, shown there to act as one
queue. `Resize` and `ReRead` are the two halves of `applyEventWindowSize` in
history mode: before and after the `Stop` that waits for the read before. `sent`,
`missed`, `seeded` and `leftover` are history.

Assumed of Windows: RecordIds grow in the order of writing, and an event is
stamped at most `Lag` seconds late, with `Lag <= Guard`; the guard interval is
there for that. The clock is not set back.

### FilterMatch and Settings

Texts are opaque: `Within[t]` says which texts occur in `t`, and an address keeps
only what the code looks for. `Settings` runs instances one after the other, each
of some version, with its columns. The file is a configuration, `Absent`, or
`Broken`: what `os.WriteFile` leaves when it is cut off, or the empty file the
probe of `--config` makes. `Start` and `EndProbe` are that probe, `Launch` the
load and all that `main` and `buildUI` restore, `Exit` and `EndSave` the opening
and the completion of the save. A value of `TimeFormats` stands for a pair of
precision and zone.

A column is its index in `columnDefs`, the file has titles, and `native` the list
view's numbers, which count visible columns only; `Complete`, `Displayed` and
`ToNative` go between them. `Complete` takes the entries it knows where they come
first, as the maps of seen entries in the code do, and `ToNative` those of the
visible columns. `ColumnOrder` and `ColumnStates` are what `captureColumnLayout`
writes, `Capture` the rest of a save. The list view reorders itself when a header is
dragged or a column comes back (`DragHeader`, `ColumnsDialog`), and it may refuse
to take an order (`accepted`) or to tell it (`readable`). `kept` is history: what
the last complete save was made from, and whether a later one was begun and not
completed (`torn`). The file is written in place, so a save that is cut off has lost
the one before: what the properties promise then is that all of the declared
defaults come up, not a part of what was saved.

## Runs

| Run | Checks | Bounds |
|---|---|---|
| `event_window` | `TypeOK`, `WindowBounded`, `CaptureContiguous`, `ClearedStayCleared`, `NoHoles`, `VisiblePasses`, `RowsAccountForVisible`, `RowsPublished`, `PausedFrozen` | window sizes 2 to 4, asked for as 1, 3 and 9; 5 entries in batches of up to 2; two noise kinds with one key and one other kind |
| `event_pipeline` | `TypeOK`, `SingleProducer`, `FeedSpec` (refinement), `StopTerminates`, `Delivered`, `Quiesces` | channel of 1, 3 entries, polls of up to 2, 3 sources |
| `pipeline_abort` | `AbortedReadIsSilent`, violated | 2 sources |
| `audit_control` | `TypeOK`, `RestoredAtEnd`, `LaunchPolicyKept`, `ButtonTellsPolicy`, `SourceFollowsAuditing` | 2 launches |
| `audit_prior` | `PriorIsOriginal`, violated | 2 launches |
| `rule_tables` | `TypeOK`, `ButtonTellsReload`, `RevertsItsOwn`, `TransientEnds` | 2 versions, 4 status messages |
| `reload_fresh` | `ReloadedIsFresh`, violated | as above |
| `attribution` | `TypeOK`, `NeverMisleads`, `MatchedIsBest`, `FiltersKeepTheirNames`, `BroadNeverOutranks`, `DetailAgrees` | tables of up to 2 out of 19 rules, 3 dumps, 9 events, 2 loads, a detail view of 1 line |
| `log_reading` | `TypeOK`, `OncePerSource`, `MissedOnlyAtStart`, `HistoryShowsLatest`, `EventuallyRead` | 4 events in 2 seconds, stamped up to 1 late; polls of up to 2, a backlog of 1; windows of 2 and 3, 1 change of size |
| `poll_seed` | `NoneMissedAtBoundary`, violated | as above |
| `log_reread` | `ReReadComplete`, violated | as above |
| `settings` | `TypeOK`, `PreferencesSurvive`, `LayoutSurvives`, `OrderAlwaysValid`, `NegateComplements` | 3 launches of 2 versions with 3 columns, 2 of them shared; 1 change; 4 filter bars, 6 events; no file, a broken one or one of two of other origin |

Why the bounds are enough. With five entries and windows of two to four, entries
are trimmed at every size, in `all` and `visible` at different times, and a
window is shrunk below and grown above its contents; three kinds separate
collapsing, hiding and filtering. A channel of one entry makes the push source
drop and the poller block, with a third entry to show an order; three sources
give a current one and two replaced ones. The second launch sees what an exit, a
panic or a kill of the first has left. Four messages are two reloads, or a
reload, its revert and another message. The 19 rules have every mix of
direction, protocol and local ports, and one each that is disabled, blocks, is
outbound, has a remote range, a port word, a program, the program `System`, a
numeral or `ICMPv4` for protocol; two in a table are a best one, a tie, or a cut
list; the dumps have nameless items before and after named ones, a name whose id
does not parse, and no name at all. In `log_reading` four events make both ways
to miss one reachable: three newer than the cursor when a poll takes two, and an
empty first poll that ends more than a second after the stamp of an event.
A window of two filled by a read of two overflows with one leftover. In
`settings` the three launches are a complete save, then a save that is cut off or
overwrites it, a failed opening, a kill or a probe, and then what comes back; the
versions number every shared column differently, and of the files of other origin one
lacks fields, repeats a title, has an unknown one, ports out of range, a drop-down
text that is not offered and a column the other version hides, the other hides a
column, changes the order and has a filter bar with negations, so that the one change
of the user meets an instance that is not as declared.

The stuttering actions `Ended` and `AtBound` mark the ends a behaviour of
`EventPipeline` and `RuleTables` has (the window is closed; the
bound on messages is reached), so that deadlock is checked there; in
`Attribution` an event can always be resolved and in `AuditControl` another
process can always set the policy. The runs of `LogReading` and `Settings` do
not check it: a history read is over when all is read and shown, and the user
need not start the program again.

### Fairness

`EventPipeline`: weak fairness of each goroutine's steps, of the pump's four
steps and of the UI thread's closures and returns from `Stop`. Goroutines are
scheduled, a started PowerShell process or log query ends, and a `select` with
several ready cases picks at random. No fairness for events, clicks and the
closing of the window. `RuleTables`: the commands end (they have no timeout in
the code, so this is an assumption on `netsh` and PowerShell), their goroutines,
reverts and reports are scheduled. `LogReading`: weak fairness of the source's
goroutine and of the UI thread's closures and returns from `Stop`; strong
fairness of a poll that gets its result, that is, a query may fail any number of
times in a row but not for ever. None for events, the clock and the user.
`Settings` has no liveness property and no fairness.

## What disagrees with the comments

- `pipeline_abort`: a history read that `Stop` cuts short still reports a
  successful read (`main.go:2134-2136`). A changed window size in history mode
  does this.
- `poll_seed`: after an empty first poll the time cursor is the clock at the poll's
  end, so an event written while it ran and stamped more than the guard interval
  before that end is never read, where `eventlog.go:202-205` says that "no event
  straddling the boundary is missed" and `eventlog.go:171-173` that the seed lets the
  first incremental query narrow "correctly".
- `audit_prior`: Stop forgets that the app had enabled auditing, so the next
  Start records the app's own all-off policy as the one to restore
  (`main.go:2225-2227`). Launched with a partial policy, the program loses it.
- `reload_fresh`: a reload that parsed nothing, or that a slow startup load
  overwrites, is announced as done (`main.go:1661-1662`).
- `log_reread`: after a change of the window size in history mode, entries of the
  read before that are still on their way are added to a full new read; the window
  overflows and the bulk trim drops a tenth of it. The comment knows of "a few
  transient duplicate rows" only (`main.go:1810-1816`).

Seen but without a run:

- Protocol number 2 becomes `IGMP` in the event, and `IGMP` becomes 256 when matched,
  so a rule for protocol 2 is never a candidate (`rules.go:199-200` says that every
  consistent rule is). So it is with every protocol but 1, 6, 17 and 58.
- `onExit` closes `pumpStop` "so it does not call Synchronize on the dead window"
  (`main.go:1325-1326`), but a pump that is past its `select`, or whose `select` finds
  the ticker ready as well, posts its batch all the same.
- Stop leaves the source subscribed, or polling, and the status bar shows it as
  stopped (`main.go:500`, `main.go:582-584`, `README.md:12`). The next Start replaces
  it and reads the backlog again, so the events of the backlog appear twice.
- `uiPump` matches the rule before it looks up a missing process name, so the
  column misses a rule scoped to that program which the detail view then lists as
  strong (`main.go:1584-1587`; `DetailAgrees` leaves such events out).
- While paused, `visible` keeps entries alive that `all` has dropped, so up to
  twice the window is in memory (`main.go:33-34`).
- After a re-read in history mode the count label keeps the old numbers until the
  first batch (`main.go:1821-1829`).
- `startEventSource` tries `EvtSubscribe` anew at each Start, so the source may
  change within a session although `main.go:1996-1998` says that the choice is
  fixed.
- `main.go:1785-1787` says a grow re-pulls the backlog in history mode; a shrink
  does as well, as the comment inside says.
- A file that hides every column leaves the table blank, although
  `main.go:2812-2813` says that one column is always kept: only the dialog sees to
  that.
- An order the list view does not tell at exit is saved as the logical order, over
  the one the file had (`main.go:1397-1402`); `LayoutSurvives` says that this is what
  comes back.
- A panic restores the policy also when the user chose to keep it, and a kill leaves
  it enabled (`main.go:627-640`); the properties allow for both.
- `os.WriteFile` truncates the only copy of the preferences before it writes
  (`config.go:168`), so a save that is cut off loses them all.

## Proofs

Every invariant and every action property of a passing run is a theorem, for all
values of the constants that the assumptions allow, and so is the refinement.
In each module `IInv` is an inductive invariant, `Invariant` says that it always
holds, `TypeCorrect` that `TypeOK` does. Where an invariant of a run is not
inductive, `IInv` has what it lacks.

| Module | Theorem | States |
|---|---|---|
| `EventWindow_proofs` | `WindowIsBounded`, `CaptureIsContiguous`, `ClearIsFinal`, `TableHasNoHoles`, `ListPassesFilter`, `RowsAreExact`, `RowCountIsPublished` | `WindowBounded`, `CaptureContiguous`, `ClearedStayCleared`, `NoHoles`, `VisiblePasses`, `RowsAccountForVisible`, `RowsPublished` |
| | `PauseFreezesDisplay` | the action property `PausedFrozen` |
| `EventPipeline_proofs` | `OneProducer` | `SingleProducer` |
| | `Implements` | the refinement, `FeedSpec` |
| `AuditControl_proofs` | `PolicyIsRestored`, `NothingIsTurnedOff`, `ButtonIsRight`, `SourceIsRunning` | `RestoredAtEnd`, `LaunchPolicyKept`, `ButtonTellsPolicy`, `SourceFollowsAuditing` |
| `LogReading_proofs` | `HandedOverOnce`, `LossesAreNamed`, `HistoryIsLatest` | `OncePerSource`, `MissedOnlyAtStart`, `HistoryShowsLatest` |
| `RuleTables_proofs` | `ButtonComesBack` | `ButtonTellsReload` |
| | `RevertIsHarmless` | the action property `RevertsItsOwn` |
| `Settings_proofs` | `SavedControlsComeBack`, `LayoutComesBack`, `EveryOrderIsValid`, `NotComplements` | `PreferencesSurvive`, `LayoutSurvives`, `OrderAlwaysValid`, `NegateComplements` |
| `Attribution_proofs` | `ColumnNeverMisleads`, `BestIsNamed`, `StrongRulesLead`, `DetailTellsTheSame`, `FiltersNamed` | `NeverMisleads`, `MatchedIsBest`, `BroadNeverOutranks`, `DetailAgrees`, `FiltersKeepTheirNames` |

The bounds on launches, entries, sources, versions and messages may be any number.
Assumed are, beside types:

- `LimitsAssumption`: the smallest window size is at least 1 and no larger than the
  largest. The sizes asked for are any integers.
- `KindsAssumption`: keys and filters are over the kinds, and the empty filter lets
  all through.
- `BoundsAssumption` of `EventPipeline`: the channel has room for one entry.
- `CursorAssumption`: the cap and the backlog of a read are at least 1, and
  `Lag <= Guard`. Only `MissedOnlyAtStart` needs the latter.
- `SettingsAssumption`: each version has columns, no two with one title; the
  defaults are among the values offered; a file of other origin is broken or has
  fields of the types `encoding/json` would accept. Its titles, their order, the size, the ports and the
  filter texts are arbitrary.
- `ConstantsAssumption` of `Attribution`: a parsed snapshot is not empty (an empty
  one is not stored), the ids of a dump that parse are distinct, and no rule is
  named as one of the two texts the column has for no rule.

### The arguments

**EventWindow.** None of the invariants is inductive alone. `NoHoles` needs
`CaptureContiguous` and `VisiblePasses` when a batch adds an entry, and the size
bounds when the two slices are trimmed apart: what is trimmed off `visible` is
older than everything kept, and `Newest` is upward closed and keeps the last
element. `ClearedStayCleared` counts through `totalCount`, so it needs the
number of entries the running batch still has to bring, and `CaptureContiguous`
to know that they are the newest. `RowsPublished` needs to know when a running
batch has changed `visible` without publishing. `IInv` adds the facts about a
running batch and about rows (`BatchSync`, `RowsListed`). `RowsAccountForVisible`
follows from what `DisplayOf` makes of any set of entries, and from the fact that
whoever changes `visible` rebuilds the rows before the next handler. The lemmas on
`Newest`, `Trim`, `KeepRows`, `DisplayOf` and `Clamp` are stated for any finite
set; one lemma per conjunct then goes through the actions, which fall into a few
forms: rebuild, empty, resize, collapse, pause, batch.

**EventPipeline.** The proof follows an entry by its number. `Numbered` says that
no number is ahead of what was obtained, `HeldUnknown` that what a source still
holds has been neither accepted nor lost, `HeldApart` that no two sources, replaced
ones included, hold the same entry. So what is sent or dropped is decided
for the first time, which is what `EventFeed` asks of `Accept` and `Lose`.
Behind the channel order is all: channel, `pending`, batch and posted entries are
one queue (`InPipe`), and a take, a tick and a post only move the border between
two parts of it. That a closure applies the entries it was posted with needs
`ClosuresCover`: the posted closures, in their order, take up the posted entries
without a rest, whatever closures of other kinds are between them. That one
goroutine source runs at a time (`OneGoroutine`) needs `StopReady`, what the UI
thread in `stopping` will go on with. Every step is
then a step of the feed, or leaves its three variables alone. `SingleProducer` is
proved on top of that from `Closing`: a subscription is open only while it is the
current source and the window is (`OneOpen`), a source has entries in hand only where
it passes them on (`Handed`), and the source a `Stop` waits for has been told
(`Told`).

**AuditControl.** What a launch restores, and what the button says, was decided
from a policy read one or more steps before `auditpol` sets it. `IInv` adds what
carries the read to its use: `ReadHolds` (as long as no other process intervenes,
what was read is still the policy when it is set, or was misread), `Tracked` (until
the first Stop the policy of before the launch is in force, or kept as `prior`),
`KeptWhole` (the same of what was on at launch, also when other processes turn more
on), `Owned` (only an enabled policy is the app's own), `StopHolds` and `StartHolds`
(the button is right from the startup check on, not only in an idle window),
`Modes` and `NotEnded`. `RestoredAtEnd` is then decided by the step that ends the
launch, with the failed read and the failed restore as its two exceptions. One lemma
per conjunct goes through the actions.

**LogReading.** `OncePerSource` needs that a poll has taken nothing above its
RecordId mark (`BelowMark`). `MissedOnlyAtStart` needs `AheadInTime`: an event the
RecordId mark leaves to later polls is within reach of the time mark as well,
unless an empty first poll set that mark. It holds since stamps are late by at most
`Lag` (`Stamps`) and the query goes `Guard` back; a new event is the only one that
can break it, and it is stamped at most `Lag` before now.
`HistoryShowsLatest` needs that a history read takes the last events before its
query without a gap (`TakesLatest`), and that window and feed together are always
the end of what was there before and what was sent since (`Follows`), which a
trim, a delivery and a re-read keep.

**RuleTables.** The button and `reloadingRules` are set and reset by
different closures; both follow the reload's own steps. For the reverts, `IInv`
adds that one whose generation is still current belongs to the text on display
(`RevertsMatch`), since `setStatus` raises the generation.

**Settings.** `IInv` has the file, the instance and the last complete save:
`Disk` (a save that is still there restores to the controls it was made from; one
that was begun after it and is not complete has left a file that holds nothing),
`Instance` (the filter is what the controls stand for; an untouched window shows
what the file says) and `Layout` (the same for the table). That a save and a load
are inverse is then shown field by field; a window size comes back clamped, and the
clamp is idempotent. For the layout the numberings of a column are arrangements of
a set, each element once: `Complete`, `Displayed` and `ToNative` keep one
an arrangement (`PickedArranges`, `RenamedArranges`), and which of two columns is
ahead (`Ahead`) is not changed by dropping others. So two columns known to both
versions keep their order, although either version may know columns that the other
does not. `OrderAlwaysValid` is the first half of this for an arbitrary sequence of
titles. `NegateComplements` splits `Matches` into what it asks of the one field
and what it asks of the others (`MatchesParts`).

**Attribution.** That no rule that merely fits comes before one with a higher claim is the
arithmetic of the five weights: a strong rule scores at least 8, a broad one at
most 8. `IInv` has that the table is a parsed snapshot (`RulesParsed`), the column
is what `Match` says of it (`ColumnTold`), and the filter table holds for each id
of the dump the name of its own item. What `Match` and `PossibleMatches` say follows
from what their sort and their loop compute. The sort's place of a candidate is the
number of those before it, and the places are 1 to n, each once (`Places`).
The loops (over the strong candidates, over the scanner's tags) are folds, that is
functions defined by recursion on the length of a sequence: `Recursion` shows that
the recursive equations hold, `Induction` that what each turn keeps holds at the
end, both from the least number principle of `WellFoundedInduction`
(`LeastNumber`). `BestStrong` and the detail view's first strong line agree since
both take the first of the highest score; the scanner's state after the tags of an
item says which name the next id gets.

### Only model-checked

The liveness properties `StopTerminates`, `Delivered`, `Quiesces`, `TransientEnds`
and `EventuallyRead`, which hold under fairness, and the absence of deadlock: both
are out of the prover's reach. The five statements under "What disagrees with the
comments" that have a run are refuted by TLC's counterexamples.

What the proofs share with the runs is the model: what is assumed of Windows, walk
and the clock, and what the abstraction leaves out, is assumed there too.

## Not modelled, and the plan

Left out: widget layout, cell texts, colours, dialogs' texts, export formatting,
console, debug log, system calls, build and traffic scripts (I/O without state of
their own); rendering and parsing of one event's XML or line and the decoding of
UTF-16 (conversions no property tells apart); the cache of `processResolver`,
whose age `Attribution` leaves open; unknown switches. A clock that is set back
between two polls is assumed away.

Next:

1. `ProcResolver`: the age of the process snapshot, its refresh and its failures,
   which `Attribution` leaves open.
2. Proofs about it, and the refinement of an abstract window by `EventWindow`.
