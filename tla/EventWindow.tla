---------------------------- MODULE EventWindow ----------------------------
(***************************************************************************)
(* The event window: entryModel (src/main.go), the in-memory log behind    *)
(* the event table, with the handlers of the UI thread that change it.     *)
(*                                                                         *)
(* Entries are numbered in the order they reach the model and are held as  *)
(* sets of numbers: the code only ever appends to, cuts the head off, or   *)
(* filters its slices, so the slice is the set in increasing order.  What  *)
(* a filter can tell apart about entry e is kind[e].                       *)
(*                                                                         *)
(* The UI thread runs one handler at a time.  Handlers are atomic, except  *)
(* the closure uiPump posts for a batch: it is one step per entry, and     *)
(* batch # NoBatch says that it is running.                                *)
(***************************************************************************)
EXTENDS WindowLimits, Sequences

CONSTANTS
    Kinds,          \* classes of events a filter can tell apart
    Key,            \* [Kinds -> keys]: the fields collapseNoise groups by
    PassSets,       \* what the filter bar can be set to let through
    NoiseSets,      \* what the noise-port list can classify as noise
    Requests,       \* window sizes asked for, before clamping
    MaxBatch,       \* bound: entries of one uiPump batch
    MaxArrivals     \* bound: entries ever ingested

ASSUME KindsAssumption == /\ Key \in [Kinds -> Kinds]
                          /\ PassSets \subseteq SUBSET Kinds
                          /\ NoiseSets \subseteq SUBSET Kinds
                          /\ Kinds \in PassSets

ASSUME RequestsAssumption == Requests \subseteq Int

ASSUME BoundsAssumption == MaxBatch \in Nat /\ MaxArrivals \in Nat

VARIABLES
    kind,           \* the entries ingested so far: kind[e] is entry e's kind
    all,            \* model.all
    visible,        \* model.visible
    display,        \* model.display: row (its oldest entry) -> entries merged in it
    filter,         \* model.filter
    collapse,       \* model.collapse
    collapseCheck,  \* the "Collapse duplicates" box, enabled or not
    maxRows,        \* model.maxRows (= effectiveWindowSize())
    paused,         \* app.paused
    historyMode,    \* app.historyMode
    totalCount,     \* app.totalCount
    published,      \* the row count walk cached at the last PublishRowsReset
    countLabel,     \* <<rows, total>> as last written to the status bar
    batch           \* the batch closure being run, or NoBatch

model  == <<kind, all, visible, display, filter, collapse, maxRows>>
ui     == <<collapseCheck, paused, historyMode, totalCount, published, countLabel>>
vars   == <<model, ui, batch>>

Filters == [pass : PassSets, noise : NoiseSets, hideNoise : BOOLEAN]
NoBatch == [left |-> 0, paused |-> FALSE, changed |-> FALSE, running |-> FALSE]
Idle    == ~batch.running

-----------------------------------------------------------------------------
(* Pure parts of the model.  An operator named ...Mutant is a plausible     *)
(* mistake in the one after it; no specification uses it.                  *)

\* (one entry late)
TrimMutant(S, n) == IF Cardinality(S) > n + 1 THEN Newest(S, KeepRows(n)) ELSE S

\* The bulk cut every insertion into a slice may trigger.
Trim(S, n) == IF Cardinality(S) > n THEN Newest(S, KeepRows(n)) ELSE S

Matches(f, k) == k \in f.pass /\ ~(f.hideNoise /\ k \in f.noise)

\* (the rebuild loop forgets the noise option)
MatchingMutant(S, f) == {e \in S : kind[e] \in f.pass}

\* What applyFilter and rebuildVisible keep of S.
Matching(S, f) == {e \in S : Matches(f, kind[e])}

\* collapseNoise: noise entries with one key share the row of the oldest.
CollapseNoise(S, f) ==
    LET noise   == {e \in S : kind[e] \in f.noise}
        Row(e)  == IF e \in noise
                   THEN {x \in noise : Key[kind[x]] = Key[kind[e]]}
                   ELSE {e}
        rows    == {e \in S : \A x \in Row(e) : e <= x}
    IN  [e \in rows |-> Row(e)]

\* rebuildDisplay
DisplayOf(S, f, c) == IF c THEN CollapseNoise(S, f) ELSE [e \in S |-> {e}]

RowCount(d) == Cardinality(DOMAIN d)

-----------------------------------------------------------------------------
Init ==
    /\ kind = << >> /\ all = {} /\ visible = {} /\ display = [e \in {} |-> {}]
    /\ filter \in Filters
    /\ collapseCheck \in BOOLEAN
    /\ collapse = (~filter.hideNoise /\ collapseCheck)
    /\ maxRows \in {Clamp(n) : n \in Requests}
    /\ paused = FALSE
    /\ historyMode \in BOOLEAN
    /\ totalCount = 0 /\ published = 0 /\ countLabel = <<0, 0>>
    /\ batch = NoBatch

\* (published before the change)
RepublishMutant == published' = RowCount(display)

\* PublishRowsReset, then updateCount, on the state a handler leaves.
Republish   == published' = RowCount(display')
UpdateCount == countLabel' = <<RowCount(display'), totalCount'>>

-----------------------------------------------------------------------------
(* The closure uiPump posts for each batch.                                *)

BatchStart(n) ==
    /\ Idle
    /\ Len(kind) + n <= MaxArrivals
    /\ totalCount' = totalCount + n
    /\ batch' = [left |-> n, paused |-> paused, changed |-> FALSE, running |-> TRUE]
    /\ UNCHANGED <<model, collapseCheck, paused, historyMode, published, countLabel>>

\* (the pause state is not looked at)
ShownMutant(k) == Matches(filter, k)

\* addEntry lists the entry only when live.
Shown(k) == ~batch.paused /\ Matches(filter, k)

\* addEntry, for the next entry of the batch.
AddEntry(k) ==
    LET e == Len(kind) + 1
    IN  /\ batch.running /\ batch.left > 0
        /\ kind' = Append(kind, k)
        /\ all' = Trim(all \cup {e}, maxRows)
        /\ visible' = IF Shown(k) THEN Trim(visible \cup {e}, maxRows) ELSE visible
        /\ batch' = [batch EXCEPT !.left = @ - 1, !.changed = @ \/ Shown(k)]
        /\ UNCHANGED <<display, filter, collapse, maxRows, ui>>

BatchEnd ==
    /\ batch.running /\ batch.left = 0
    /\ IF batch.changed    \* never when the batch was ingested paused
       THEN display' = DisplayOf(visible, filter, collapse) /\ Republish
       ELSE UNCHANGED <<display, published>>
    /\ batch' = NoBatch
    /\ UNCHANGED <<kind, all, visible, filter, collapse, maxRows,
                   collapseCheck, paused, historyMode, totalCount>>
    /\ UpdateCount

-----------------------------------------------------------------------------
(* The handlers of the window's controls.                                  *)

\* (resumes without rebuilding the list)
TogglePauseMutant ==
    /\ Idle /\ ~historyMode
    /\ paused' = ~paused
    /\ UNCHANGED <<model, collapseCheck, historyMode, totalCount, published,
                   countLabel, batch>>

TogglePause ==
    /\ Idle /\ ~historyMode
    /\ paused' = ~paused
    /\ UNCHANGED <<kind, all, filter, collapse, maxRows, collapseCheck,
                   historyMode, totalCount, batch>>
    /\ IF paused
       THEN /\ visible' = Matching(all, filter)
            /\ display' = DisplayOf(visible', filter, collapse)
            /\ Republish /\ UpdateCount
       ELSE UNCHANGED <<visible, display, published, countLabel>>

\* applyFilters and model.applyFilter: f becomes the filter, c the collapse flag.
ApplyFilter(f, c) ==
    /\ filter' = f
    /\ collapse' = c
    /\ visible' = Matching(all, f)
    /\ display' = DisplayOf(visible', f, c)
    /\ UNCHANGED <<kind, all, maxRows, paused, historyMode, totalCount, batch>>
    /\ Republish /\ UpdateCount

SetFilters(pass) ==
    /\ Idle
    /\ ApplyFilter([filter EXCEPT !.pass = pass], collapse)
    /\ UNCHANGED collapseCheck

ClearFilters == SetFilters(Kinds)

NoiseDialog(noise) ==
    /\ Idle
    /\ ApplyFilter([filter EXCEPT !.noise = noise], collapse)
    /\ UNCHANGED collapseCheck

OnNoiseToggle ==
    LET hide == ~filter.hideNoise
    IN  /\ Idle
        /\ ApplyFilter([filter EXCEPT !.hideNoise = hide], ~hide /\ collapseCheck)
        /\ UNCHANGED collapseCheck

\* The box is disabled while noise is hidden.
OnCollapseToggle ==
    /\ Idle /\ ~filter.hideNoise
    /\ collapseCheck' = ~collapseCheck
    /\ collapse' = collapseCheck'
    /\ display' = DisplayOf(visible, filter, collapse')
    /\ UNCHANGED <<kind, all, visible, filter, maxRows, paused, historyMode,
                   totalCount, batch>>
    /\ Republish /\ UpdateCount

\* (only what is on screen is cleared)
ClearMutant == all' = all /\ visible' = {} /\ display' = [e \in {} |-> {}]

\* model.clear
Clear == all' = {} /\ visible' = {} /\ display' = [e \in {} |-> {}]

ClearLog ==
    /\ Idle
    /\ Clear
    /\ totalCount' = 0
    /\ UNCHANGED <<kind, filter, collapse, maxRows, collapseCheck, paused,
                   historyMode, batch>>
    /\ Republish /\ UpdateCount

\* (the rows are not rebuilt)
SetWindowSizeMutant(n) == /\ maxRows' = n /\ all' = Trim(all, n)
                          /\ visible' = Trim(visible, n) /\ display' = display

\* setWindowSize: each slice is cut when it is over the new size.
SetWindowSize(n) ==
    /\ maxRows' = n
    /\ all' = Trim(all, n)
    /\ visible' = Trim(visible, n)
    /\ display' = IF Cardinality(visible) > n
                  THEN DisplayOf(visible', filter, collapse) ELSE display

\* applyEventWindowSize.  A new size in history mode empties the model for a
\* new read of the backlog, and leaves the count label for that read to write.
ApplyEventWindowSize(r) ==
    LET n      == Clamp(r)
        reread == historyMode /\ n # maxRows
    IN  /\ Idle
        /\ IF reread
           THEN /\ maxRows' = n /\ Clear
                /\ totalCount' = 0
                /\ UNCHANGED countLabel
           ELSE /\ SetWindowSize(n)
                /\ UNCHANGED totalCount
                /\ UpdateCount
        /\ Republish
        /\ UNCHANGED <<kind, filter, collapse, collapseCheck, paused,
                       historyMode, batch>>

-----------------------------------------------------------------------------
Next ==
    \/ \E n \in 1..MaxBatch : BatchStart(n)
    \/ \E k \in Kinds : AddEntry(k)
    \/ BatchEnd
    \/ TogglePause
    \/ \E p \in PassSets : SetFilters(p)
    \/ ClearFilters
    \/ \E s \in NoiseSets : NoiseDialog(s)
    \/ OnNoiseToggle
    \/ OnCollapseToggle
    \/ ClearLog
    \/ \E n \in Requests : ApplyEventWindowSize(n)

Spec == Init /\ [][Next]_vars

-----------------------------------------------------------------------------
(* Properties.                                                             *)

\* Every variable keeps its shape.
TypeOK ==
    /\ kind \in Seq(Kinds) /\ Len(kind) + batch.left <= MaxArrivals
    /\ all \subseteq 1..Len(kind) /\ visible \subseteq 1..Len(kind)
    /\ DOMAIN display \subseteq 1..Len(kind)
    /\ \A e \in DOMAIN display : display[e] \subseteq 1..Len(kind)
    /\ filter \in Filters
    /\ collapse \in BOOLEAN /\ collapseCheck \in BOOLEAN
    /\ maxRows \in MinWindowSize..MaxWindowSize
    /\ paused \in BOOLEAN /\ historyMode \in BOOLEAN
    /\ totalCount \in Nat /\ published \in Nat /\ countLabel \in Nat \X Nat
    /\ batch \in [left : Nat, paused : BOOLEAN, changed : BOOLEAN, running : BOOLEAN]

\* Neither slice, and so no table, ever outgrows the window: not while paused
\* (only all grows), not after a resume, a filter change or a smaller window.
WindowBounded ==
    /\ Cardinality(all) <= maxRows
    /\ Cardinality(visible) <= maxRows
    /\ RowCount(display) <= maxRows

\* Capture has no gaps: all is a run of consecutive entries ending at the last
\* one ingested, or empty after a clear.  Pausing and filtering lose nothing.
CaptureContiguous ==
    all = (Len(kind) - Cardinality(all) + 1) .. Len(kind)

\* Entries ingested since the model was last emptied.
SinceClear == {e \in 1..Len(kind) : e > Len(kind) - (totalCount - batch.left)}

\* A cleared entry never comes back: neither slice, nor the table, holds an
\* entry that the total count no longer counts.
ClearedStayCleared ==
    /\ all \subseteq SinceClear
    /\ visible \subseteq SinceClear
    /\ \A e \in DOMAIN display : display[e] \subseteq SinceClear

\* While live the table has no holes: an entry that is held and passes the
\* filter is listed unless it is older than everything listed.  addEntry,
\* rebuildVisible and the two independent trims must agree for this.
NoHoles ==
    ~paused =>
        \A y \in Matching(all, filter) \ visible :
            visible # {} /\ \A x \in visible : y < x

\* What is listed passes the filter in force, whatever order filters, pauses,
\* trims and batches came in.
VisiblePasses == \A e \in visible : Matches(filter, kind[e])

\* Between handlers, and all along a batch ingested while paused, the rows
\* account for the listed entries: each entry is in exactly one row, a row is
\* named by its oldest entry, and only noise with one key shares a row.
RowsAccountForVisible ==
    ~batch.changed =>
        /\ UNION {display[e] : e \in DOMAIN display} = visible
        /\ \A e \in DOMAIN display : e \in display[e]
        /\ \A e \in DOMAIN display : \A x \in display[e] :
              x # e => /\ e < x /\ Key[kind[x]] = Key[kind[e]]
                       /\ kind[x] \in filter.noise /\ kind[e] \in filter.noise
        /\ \A d, e \in DOMAIN display : d # e => display[d] \cap display[e] = {}
        /\ collapse => \A d, e \in DOMAIN display :
              (/\ d # e /\ kind[d] \in filter.noise /\ kind[e] \in filter.noise)
                  => Key[kind[d]] # Key[kind[e]]

\* walk's cached row count is the model's at every point it may paint, so no
\* row is asked for past the end of display.
RowsPublished == published = RowCount(display)

\* A batch ingested while paused leaves everything the table paints alone.
PausedFrozen ==
    [][batch.running /\ batch.paused
         => UNCHANGED <<visible, display, published>>]_vars

=============================================================================
