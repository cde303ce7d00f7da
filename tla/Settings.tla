------------------------------ MODULE Settings ------------------------------
(***************************************************************************)
(* The preferences over the life of several instances: the JSON file       *)
(* (src/config.go), what main and buildUI make of it, the controls the     *)
(* user changes, and what onExit writes back (src/main.go), with the       *)
(* column layout, whose order only the native list view holds              *)
(* (src/columnorder_windows.go).  Instances run one after the other, and   *)
(* each may be of another version, with other columns.                     *)
(*                                                                         *)
(* A column is its index in columnDefs.  The list view numbers the visible *)
(* columns only: native[p] is the native index of the column at visual     *)
(* position p.                                                             *)
(***************************************************************************)
EXTENDS WindowLimits, Subsequences, FilterMatch, SequencesExt, FiniteSetsExt

CONSTANTS
    Columns,        \* version -> its columnDefs, a sequence of titles
    HiddenDefault,  \* titles hidden unless the file says otherwise
    DeclaredWidth,
    Widths,         \* widths a user can drag a column to
    DefaultSize,
    Requests,       \* window sizes asked for, before clamping
    NoisePortSets,  \* what the noise dialog can be given
    TimeFormats,    \* time settings a dialog can set or a file can hold
    DefaultTime,
    Bars,           \* states of the filter bar's boxes and drop-downs
    HandWritten,    \* files other programs or older versions may leave
    Events,         \* what the event log may hold
    MaxChanges,     \* bound: changes by the user, in all
    MaxLaunches     \* bound: instances started

Toggles   == {"hideNoise", "collapse", "onlyAfter", "liveTail", "hideNoMatch",
              "highlightICMP", "hideLoopback"}
LiveOnly  == {"onlyAfter", "liveTail"}
DefaultOn == Toggles \ {"hideNoMatch"}
NoBar     == [text |-> [field \in TextFields |-> NoText], negated |-> {},
              pid |-> NoPid, direction |-> "", action |-> "", ipVersion |-> ""]
Titles    == UNION {ToSet(Columns[v]) : v \in DOMAIN Columns}

PortNumbers == 1..(2^16 - 1)

\* What the drop-downs of the filter bar offer, in the filter's terms.
Directions == {"", "INBOUND", "OUTBOUND"}
Actions    == {"", "ALLOW", "DROP"}
IPVersions == {"", "ipv4", "ipv6"}

\* What a file may hold in their place.
AnyText    == STRING \cup Directions \cup Actions \cup IPVersions

Pids     == {NoPid, BadPid} \cup {p \in [given : {TRUE}, num : Int] : p.num >= 0}
BarsWith(directions, actions, ipVersions) ==
    [text : [TextFields -> [text : STRING, quoted : BOOLEAN]],
     negated : SUBSET Negatable, pid : Pids,
     direction : directions, action : actions, ipVersion : ipVersions]
AllBars  == BarsWith(Directions, Actions, IPVersions)

\* What of a file json.Unmarshal guarantees, whoever wrote it.
Config(c) ==
    /\ c.whole /\ c.there
    /\ DOMAIN c.toggles \subseteq Toggles
    /\ c.noisePorts \subseteq Int /\ c.size \in Int
    /\ c.time \in TimeFormats \cup {""}
    /\ c.bar \in BarsWith(AnyText, AnyText, AnyText)
    /\ c.order \in Seq(STRING)

Absent == [whole |-> FALSE, there |-> FALSE]
Broken == [whole |-> FALSE, there |-> TRUE]     \* empty, cut off or unreadable

ASSUME SettingsAssumption ==
    /\ \A v \in DOMAIN Columns :
         /\ Columns[v] \in Seq(STRING) \ {<<>>}
         /\ \A i, j \in DOMAIN Columns[v] : Columns[v][i] = Columns[v][j] => i = j
    /\ HiddenDefault \subseteq Titles
    /\ DefaultSize \in MinWindowSize..MaxWindowSize
    /\ DeclaredWidth \in Nat \ {0} /\ Widths \subseteq Nat
    /\ NoisePortSets \subseteq SUBSET PortNumbers
    /\ DefaultTime \in TimeFormats /\ TimeFormats \subseteq STRING \ {""}
    /\ NoBar \in Bars /\ Bars \subseteq AllBars
    /\ Requests \subseteq Int
    /\ \A c \in HandWritten : c = Broken \/ Config(c)
    /\ {MaxChanges, MaxLaunches} \subseteq Nat

VARIABLES
    file,           \* a configuration, or Absent, or Broken
    phase,          \* "down", "probing", "ready", "running", "saving"
    fresh,          \* probing: the file was not there before
    app,            \* the running instance, or NoApp
    kept,           \* history: what the last complete save was made from; torn,
                    \* that a later one was begun and has not been completed
    changes, launches

vars == <<file, phase, fresh, app, kept, changes, launches>>

NoApp  == [version |-> "none"]
NoSave == [whole |-> FALSE, torn |-> FALSE]

Indices      == UNION {DOMAIN Columns[v] : v \in DOMAIN Columns}
All(v)       == [i \in DOMAIN Columns[v] |-> i]

-----------------------------------------------------------------------------
(* Column order.  An operator named ...Mutant is a plausible mistake in the *)
(* one after it; no specification uses it.                                  *)

\* (a repeated entry is kept)
CompleteMutant(some, natural) ==
    SelectSeq(some, LAMBDA x : x \in ToSet(natural))
      \o SelectSeq(natural, LAMBDA x : x \notin ToSet(some))

\* The known entries of some, each once, then the rest in natural order: of both
\* together, the known ones where they come first (completeColumnOrder on
\* indices, columnTitlesToCompleteOrder on titles).
Complete(some, natural) ==
    LET given == some \o natural
    IN  Picked(given, {i \in DOMAIN given : /\ given[i] \in ToSet(natural)
                                          /\ \A j \in 1..(i - 1) : given[j] # given[i]})

ColumnDefIndex(v, title) == CHOOSE i \in DOMAIN Columns[v] : Columns[v][i] = title

ColumnTitlesToCompleteOrder(titles, v) ==
    LET order == Complete(titles, Columns[v])
    IN  [p \in DOMAIN order |-> ColumnDefIndex(v, order[p])]

ValidColumnOrder(order, v) ==
    /\ Len(order) = Len(Columns[v])
    /\ ToSet(order) = DOMAIN Columns[v]

\* visibleColumnOrderFromMessage: the visible columns as they are displayed.
Displayed(visible, native) ==
    [p \in DOMAIN native |-> Ascending(visible)[native[p]]]

\* (hidden columns are handed over too)
ToNativeMutant(order, visible) ==
    [p \in DOMAIN order |-> Cardinality({i \in visible : i <= order[p]})]

\* setColumnOrder's translation: order restricted to visible, as native indices.
ToNative(order, visible) ==
    LET shown == Picked(order, {p \in DOMAIN order : order[p] \in visible})
    IN  [p \in DOMAIN shown |-> Cardinality({i \in visible : i <= shown[p]})]

\* What the table holds; the native order of one just made is the natural one.
CurrentColumnOrder(t, v) ==
    IF t.visible = {} THEN All(v) ELSE Complete(Displayed(t.visible, t.native), All(v))

DefaultTable(v) ==
    LET visible == {i \in DOMAIN Columns[v] : Columns[v][i] \notin HiddenDefault}
    IN  [visible |-> visible,
         width   |-> [i \in DOMAIN Columns[v] |-> DeclaredWidth],
         native  |-> ToNative(All(v), visible)]

\* (the visibility of a column the file does not know is forgotten)
ApplyColumnLayoutMutant(c, v, accepted) ==
    LET IsSaved(i) == Columns[v][i] \in DOMAIN c.columns
        Saved(i)   == c.columns[Columns[v][i]]
        visible    == {i \in DOMAIN Columns[v] : IsSaved(i) /\ Saved(i).visible}
    IN  [visible |-> visible,
         width   |-> [i \in DOMAIN Columns[v] |-> DeclaredWidth],
         native  |-> ToNative(All(v), visible)]

\* accepted: a native control took the order (setColumnOrder).
ApplyColumnLayout(c, v, accepted) ==
    LET base       == DefaultTable(v)
        IsSaved(i) == Columns[v][i] \in DOMAIN c.columns
        Saved(i)   == c.columns[Columns[v][i]]
        visible    == {i \in DOMAIN Columns[v] :
                          IF IsSaved(i) THEN Saved(i).visible ELSE i \in base.visible}
        order      == ColumnTitlesToCompleteOrder(c.order, v)
    IN  IF DOMAIN c.columns = {} /\ c.order = <<>> THEN base
        ELSE [visible |-> visible,
              width   |-> [i \in DOMAIN Columns[v] |->
                             IF IsSaved(i) /\ Saved(i).width # 0
                             THEN Saved(i).width ELSE base.width[i]],
              native  |-> ToNative(IF accepted /\ ValidColumnOrder(order, v)
                                   THEN order ELSE All(v), visible)]

-----------------------------------------------------------------------------
(* The controls, the filter they stand for, and the file.                   *)

EffectiveWindowSize(n) == Clamp(IF n <= 0 THEN DefaultSize ELSE n)

\* applyFilters.
FilterOf(ui, history) ==
    [text |-> ui.bar.text, negated |-> ui.bar.negated, pid |-> ui.bar.pid,
     direction |-> ui.bar.direction, action |-> ui.bar.action,
     ipVersion |-> ui.bar.ipVersion, noisePorts |-> ui.noisePorts,
     onlyAfter |-> ~history /\ "onlyAfter" \in ui.on,
     hideNoise |-> "hideNoise" \in ui.on, hideNoMatch |-> "hideNoMatch" \in ui.on,
     hideLoopback |-> "hideLoopback" \in ui.on]

NoConfig == [whole |-> TRUE, there |-> TRUE, toggles |-> <<>>, noisePorts |-> {}, size |-> 0,
             time |-> "", columns |-> <<>>, order |-> <<>>, bar |-> NoBar]

\* loadConfig: no file, or one that does not parse, is an empty configuration.
LoadConfig == IF file.whole THEN file ELSE NoConfig

\* restoreFilterControls: a drop-down shows a text it does not offer as blank.
RestoreBar(bar) ==
    LET SetCombo(offered, text) == IF text \in offered THEN text ELSE ""
    IN  [bar EXCEPT !.direction = SetCombo(Directions, @),
                    !.action    = SetCombo(Actions, @),
                    !.ipVersion = SetCombo(IPVersions, @)]

\* What main and buildUI take from the configuration c; a field it lacks leaves
\* the declared default.
Restore(c) ==
    [on         |-> {t \in Toggles : IF t \in DOMAIN c.toggles
                                     THEN c.toggles[t] ELSE t \in DefaultOn},
     noisePorts |-> c.noisePorts \cap PortNumbers,
     size       |-> c.size,
     time       |-> IF c.time = "" THEN DefaultTime ELSE c.time,
     bar        |-> RestoreBar(c.bar)]

\* captureColumnLayout.  When the native order cannot be read, the logical
\* order is saved in its place.
ColumnStates(t, v) ==
    [title \in ToSet(Columns[v]) |->
        LET i == ColumnDefIndex(v, title)
        IN  [visible |-> i \in t.visible, width |-> t.width[i]]]

ColumnOrder(t, v, readable) ==
    LET order == IF readable THEN CurrentColumnOrder(t, v) ELSE All(v)
    IN  [p \in DOMAIN order |-> Columns[v][order[p]]]

\* saveCurrentConfig.
Capture(readable) ==
    [whole      |-> TRUE, there |-> TRUE,
     toggles    |-> [t \in Toggles |-> t \in app.ui.on],
     noisePorts |-> app.ui.noisePorts,
     size       |-> EffectiveWindowSize(app.ui.size),
     time       |-> app.ui.time,
     columns    |-> ColumnStates(app.table, app.version),
     order      |-> ColumnOrder(app.table, app.version, readable),
     bar        |-> app.ui.bar]

-----------------------------------------------------------------------------
Init ==
    /\ file \in HandWritten \cup {Absent}
    /\ phase = "down" /\ fresh = FALSE /\ app = NoApp
    /\ kept = NoSave /\ changes = 0 /\ launches = 0

(* Start-up.                                                                *)

\* (the probe empties a file that is there)
StartMutant(override) ==
    /\ phase = "down" /\ launches < MaxLaunches
    /\ launches' = launches + 1
    /\ phase' = IF override THEN "probing" ELSE "ready"
    /\ fresh' = (override /\ ~file.there)
    /\ file' = IF override THEN Broken ELSE file
    /\ UNCHANGED <<app, kept, changes>>

\* An instance is started: with --config, the path is checked first.
Start(override) ==
    /\ phase = "down" /\ launches < MaxLaunches
    /\ launches' = launches + 1
    /\ phase' = IF override THEN "probing" ELSE "ready"
    /\ fresh' = (override /\ ~file.there)
    /\ file' = IF override /\ ~file.there THEN Broken ELSE file
    /\ UNCHANGED <<app, kept, changes>>

\* validateConfigOverride takes back the file its probe made; it may fail to.
EndProbe(removed) ==
    /\ phase = "probing"
    /\ file' = IF fresh /\ removed THEN Absent ELSE file
    /\ phase' = "ready"
    /\ fresh' = FALSE
    /\ UNCHANGED <<app, kept, changes, launches>>

\* main and buildUI, up to the applyFilters that ends the latter.
Launch(v, history, accepted) ==
    LET ui == Restore(LoadConfig)
    IN  /\ phase = "ready"
        /\ phase' = "running"
        /\ app' = [version |-> v, history |-> history, ui |-> ui,
                   table    |-> ApplyColumnLayout(LoadConfig, v, accepted),
                   filter   |-> FilterOf(ui, history),
                   accepted |-> accepted, touched |-> FALSE]
        /\ UNCHANGED <<file, fresh, kept, changes, launches>>

-----------------------------------------------------------------------------
(* The user.                                                                *)

\* A change of the controls.  The handlers that do not end with applyFilters
\* change nothing the filter depends on.
SetControls(ui) ==
    /\ phase = "running" /\ changes < MaxChanges
    /\ ui # app.ui
    /\ changes' = changes + 1
    /\ app' = [app EXCEPT !.ui = ui, !.filter = FilterOf(ui, app.history),
                          !.touched = TRUE]
    /\ UNCHANGED <<file, phase, fresh, kept, launches>>

\* Boxes that make no sense are disabled and keep their state.
Toggle(t) ==
    /\ phase = "running"
    /\ t = "collapse" => "hideNoise" \notin app.ui.on
    /\ t \in LiveOnly => ~app.history
    /\ SetControls([app.ui EXCEPT !.on = SymDiff(@, {t})])

NoiseDialog(ports) == SetControls([app.ui EXCEPT !.noisePorts = ports])
TimeDialog(time)   == SetControls([app.ui EXCEPT !.time = time])
WindowDialog(n)    == SetControls([app.ui EXCEPT !.size = Clamp(n)])
SetBar(bar)        == SetControls([app.ui EXCEPT !.bar = bar])
ClearFilters       == SetControls([app.ui EXCEPT !.bar = NoBar, !.on = @ \ {"hideNoMatch"}])

SetTable(visible, order, width) ==
    LET table == [visible |-> visible, width |-> width,
                  native  |-> ToNative(order, visible)]
    IN  /\ changes < MaxChanges /\ table # app.table
        /\ changes' = changes + 1
        /\ app' = [app EXCEPT !.table = table, !.touched = TRUE]
        /\ UNCHANGED <<file, phase, fresh, kept, launches>>

\* applyColumnVisibility.  The list view keeps the order of the columns that
\* stay and puts a new one anywhere among them.
ColumnsDialog(visible) ==
    /\ phase = "running" /\ visible # {} /\ visible \subseteq DOMAIN app.table.width
    /\ \E order \in SetToSeqs(visible) :
        LET was == Displayed(app.table.visible, app.table.native)
            Both(i) == i \in visible \cap app.table.visible
        IN  /\ SelectSeq(order, Both) = SelectSeq(was, Both)
            /\ SetTable(visible, order, app.table.width)

\* Headers are dragged, edges pulled: the list view does this by itself.
DragHeader ==
    /\ phase = "running"
    /\ \E order \in SetToSeqs(app.table.visible) :
          SetTable(app.table.visible, order, app.table.width)

DragEdge(w) ==
    /\ phase = "running"
    /\ \E i \in app.table.visible :
          SetTable(app.table.visible, Displayed(app.table.visible, app.table.native),
                   [app.table.width EXCEPT ![i] = w])

-----------------------------------------------------------------------------
(* The end.                                                                 *)

\* onExit saves first: WriteFile empties the file, or cannot open it and leaves
\* it alone.
Exit(opened) ==
    /\ phase = "running"
    /\ phase' = IF opened THEN "saving" ELSE "down"
    /\ file'  = IF opened THEN Broken ELSE file
    /\ kept'  = IF opened THEN [kept EXCEPT !.torn = TRUE] ELSE kept
    /\ app'   = IF opened THEN app ELSE NoApp
    /\ UNCHANGED <<fresh, changes, launches>>

\* The file is complete.
EndSave(readable) ==
    /\ phase = "saving"
    /\ file' = Capture(readable)
    /\ kept' = [whole |-> TRUE, torn |-> FALSE, readable |-> readable,
                version |-> app.version,
                ui    |-> [app.ui EXCEPT !.size = EffectiveWindowSize(@)],
                table |-> app.table]
    /\ phase' = "down" /\ app' = NoApp
    /\ UNCHANGED <<fresh, changes, launches>>

\* The process is killed, or the disk fills up in the middle of a write.
Crash ==
    /\ phase # "down"
    /\ phase' = "down" /\ fresh' = FALSE /\ app' = NoApp
    /\ UNCHANGED <<file, kept, changes, launches>>

-----------------------------------------------------------------------------
Next ==
    \/ \E override \in BOOLEAN : Start(override)
    \/ \E removed \in BOOLEAN : EndProbe(removed)
    \/ \E v \in DOMAIN Columns, history, accepted \in BOOLEAN :
          Launch(v, history, accepted)
    \/ \E t \in Toggles : Toggle(t)
    \/ \E ports \in NoisePortSets : NoiseDialog(ports)
    \/ \E time \in TimeFormats : TimeDialog(time)
    \/ \E n \in Requests : WindowDialog(n)
    \/ \E bar \in Bars : SetBar(bar)
    \/ ClearFilters
    \/ \E visible \in SUBSET Indices : ColumnsDialog(visible)
    \/ DragHeader
    \/ \E w \in Widths : DragEdge(w)
    \/ \E opened \in BOOLEAN : Exit(opened)
    \/ \E readable \in BOOLEAN : EndSave(readable)
    \/ Crash

Spec == Init /\ [][Next]_vars

-----------------------------------------------------------------------------
(* Properties.                                                             *)

\* Every variable keeps its shape; the native order is one of the visible columns.
TypeOK ==
    /\ phase \in {"down", "probing", "ready", "running", "saving"}
    /\ file.whole => file.there
    /\ fresh => phase = "probing" /\ file = Broken
    /\ phase = "saving" => kept.torn
    /\ kept.torn => file = Broken
    /\ app = NoApp <=> phase \in {"down", "probing", "ready"}
    /\ app # NoApp =>
          /\ app.ui.on \subseteq Toggles /\ app.ui.time \in TimeFormats
          /\ app.table.visible \subseteq DOMAIN Columns[app.version]
          /\ Len(app.table.native) = Cardinality(app.table.visible)
          /\ ToSet(app.table.native) = 1..Cardinality(app.table.visible)
    /\ changes \in 0..MaxChanges /\ launches \in 0..MaxLaunches

\* The user has not touched the instance since it came up.
JustUp == phase = "running" /\ ~app.touched

\* What the controls are without a file.
Defaults == [on |-> DefaultOn, noisePorts |-> {}, size |-> DefaultSize,
             time |-> DefaultTime, bar |-> NoBar]

\* An instance comes up with the controls of the last complete save, whatever
\* probes, crashes, failed openings, history sessions and versions lie between.
\* A save that was cut off since has lost that one: the file is written in place.
\* Then, as without any file or with one that does not parse, the controls are the
\* declared defaults, all of them, never a part of what was saved.
PreferencesSurvive ==
    JustUp =>
        LET ui == [app.ui EXCEPT !.size = EffectiveWindowSize(@)]
        IN  /\ kept.whole /\ ~kept.torn => ui = kept.ui
            /\ kept.torn \/ ~file.whole => ui = Defaults

TitleOf(v, i)      == Columns[v][i]
TitlesShown(v, t)  == [p \in DOMAIN t.native |->
                         TitleOf(v, Displayed(t.visible, t.native)[p])]
LeftOf(v, t, a, b) ==
    \E p, q \in DOMAIN t.native :
        p < q /\ TitlesShown(v, t)[p] = a /\ TitlesShown(v, t)[q] = b
Common(v, w)       == ToSet(Columns[v]) \cap ToSet(Columns[w])

\* An instance shows the columns it has in common with the last complete save as
\* they were when it was made: the same ones visible, at the same widths (0 comes
\* back as the declared one), in the same relative order, although the columns are
\* numbered differently in each version and, in the list view, by what is visible.
\* When the list view would not tell its order, the dragged order is lost and the
\* saving version's logical one comes back; when it will not take one, this
\* version's.  A save that was cut off since has lost all of it.
LayoutSurvives ==
    JustUp =>
        LET v      == app.version
            w      == kept.version
            shared == Common(v, w)
            shown  == {title \in shared :
                         ColumnDefIndex(w, title) \in kept.table.visible}
        IN  /\ kept.whole /\ ~kept.torn =>
                /\ \A title \in shared :
                     LET i == ColumnDefIndex(v, title)
                         j == ColumnDefIndex(w, title)
                     IN  /\ i \in app.table.visible <=> j \in kept.table.visible
                         /\ app.table.width[i] = IF kept.table.width[j] = 0
                                                 THEN DeclaredWidth
                                                 ELSE kept.table.width[j]
                /\ \A a, b \in shown :
                     LeftOf(v, app.table, a, b) <=>
                         IF ~app.accepted
                         THEN ColumnDefIndex(v, a) < ColumnDefIndex(v, b)
                         ELSE IF kept.readable THEN LeftOf(w, kept.table, a, b)
                         ELSE ColumnDefIndex(w, a) < ColumnDefIndex(w, b)
            /\ kept.torn \/ ~file.whole => app.table = DefaultTable(v)

\* Whatever order a configuration holds, of another version or written by hand
\* with repeated and unknown titles, every version turns it into a permutation
\* of its own columns, "safe to hand to setColumnOrder".
OrderAlwaysValid ==
    file.whole =>
        \A v \in DOMAIN Columns :
            ValidColumnOrder(ColumnTitlesToCompleteOrder(file.order, v), v)

\* "Not" turns what a box selects around: with it an event that everything else
\* lets through is shown exactly when it is hidden without it.  It has no effect
\* on an empty box, and text that is no PID hides every event either way.
NegateComplements ==
    phase = "running" =>
        \A e \in Events, field \in Negatable :
            LET f      == app.filter
                not    == [f EXCEPT !.negated = SymDiff(@, {field})]
                empty  == IF field = "pid" THEN ~f.pid.given ELSE f.text[field] = NoText
                without == IF field = "pid" THEN [f EXCEPT !.pid = NoPid]
                           ELSE [f EXCEPT !.text[field] = NoText]
            IN  IF empty THEN Matches(not, e) = Matches(f, e)
                ELSE IF field = "pid" /\ f.pid = BadPid
                THEN ~Matches(f, e) /\ ~Matches(not, e)
                ELSE IF Matches(without, e) THEN Matches(not, e) # Matches(f, e)
                ELSE ~Matches(f, e) /\ ~Matches(not, e)

=============================================================================
