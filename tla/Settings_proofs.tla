--------------------------- MODULE Settings_proofs ---------------------------
(***************************************************************************)
(* What comes back of the controls and of the column layout after a        *)
(* restart, and what "Not" does to the filter the controls stand for, for  *)
(* every set of files, bars, columns and events and any number of launches.*)
(***************************************************************************)
EXTENDS Settings, SequenceLemmas, TLAPS

-----------------------------------------------------------------------------
(* The controls.                                                           *)

\* What a window's controls can hold.
Uis == [on : SUBSET Toggles, noisePorts : SUBSET PortNumbers, size : Int,
        time : TimeFormats, bar : AllBars]

\* The size the window gets; a save stores that.
Norm(ui) == [ui EXCEPT !.size = EffectiveWindowSize(@)]

LEMMA PortsAreNumbers == PortNumbers \subseteq Int
BY DEF PortNumbers

\* What the proofs need of the assumptions.
LEMMA Given ==
    /\ MinWindowSize \in Nat \ {0} /\ MaxWindowSize \in Nat
    /\ MinWindowSize <= MaxWindowSize /\ DefaultSize \in MinWindowSize..MaxWindowSize
    /\ DefaultTime \in TimeFormats /\ "" \notin TimeFormats
    /\ NoBar \in AllBars /\ Bars \subseteq AllBars /\ Requests \subseteq Int
    /\ NoisePortSets \subseteq SUBSET PortNumbers
    /\ \A c \in HandWritten : c = Broken \/ Config(c)
<1>1. /\ DefaultSize \in MinWindowSize..MaxWindowSize
      /\ DefaultTime \in TimeFormats /\ TimeFormats \subseteq STRING \ {""}
      /\ NoBar \in Bars /\ Bars \subseteq AllBars /\ Requests \subseteq Int
      /\ NoisePortSets \subseteq SUBSET PortNumbers
      /\ \A c \in HandWritten : c = Broken \/ Config(c)
      BY SettingsAssumption
<1>2. "" \notin TimeFormats  BY <1>1
<1>3. NoBar \in AllBars  BY <1>1
<1>4. QED  BY <1>1, <1>2, <1>3, LimitsAssumption

LEMMA EffectiveSize ==
    ASSUME NEW n \in Int
    PROVE  /\ EffectiveWindowSize(n) \in Int
           /\ EffectiveWindowSize(EffectiveWindowSize(n)) = EffectiveWindowSize(n)
<1>1. /\ MinWindowSize \in Nat \ {0} /\ MaxWindowSize \in Nat
      /\ MinWindowSize <= MaxWindowSize /\ DefaultSize \in MinWindowSize..MaxWindowSize
      BY Given
<1>2. ASSUME NEW m \in Int
      PROVE  Clamp(m) \in MinWindowSize..MaxWindowSize
      BY <1>1 DEF Clamp
<1>3. ASSUME NEW m \in MinWindowSize..MaxWindowSize
      PROVE  Clamp(m) = m /\ ~(m <= 0) /\ m \in Int
      BY <1>1 DEF Clamp
<1>4. EffectiveWindowSize(n) \in MinWindowSize..MaxWindowSize
      BY <1>1, <1>2 DEF EffectiveWindowSize
<1>5. PICK m \in MinWindowSize..MaxWindowSize : m = EffectiveWindowSize(n)
      BY <1>4
<1>6. EffectiveWindowSize(m) = m  BY <1>3 DEF EffectiveWindowSize
<1>7. QED  BY <1>3, <1>5, <1>6

\* A bar whose drop-downs show what they offer is restored as it was; any other
\* becomes one.
LEMMA RestoredBar ==
    ASSUME NEW bar \in BarsWith(AnyText, AnyText, AnyText)
    PROVE  RestoreBar(bar) \in AllBars /\ (bar \in AllBars => RestoreBar(bar) = bar)
<1> DEFINE d == IF bar.direction \in Directions THEN bar.direction ELSE ""
           a == IF bar.action \in Actions THEN bar.action ELSE ""
           i == IF bar.ipVersion \in IPVersions THEN bar.ipVersion ELSE ""
<1>1. RestoreBar(bar) = [text |-> bar.text, negated |-> bar.negated, pid |-> bar.pid,
                         direction |-> d, action |-> a, ipVersion |-> i]
      <2>1. bar = [text |-> bar.text, negated |-> bar.negated, pid |-> bar.pid,
                   direction |-> bar.direction, action |-> bar.action,
                   ipVersion |-> bar.ipVersion]
            BY DEF BarsWith
      <2>2. RestoreBar(bar) = [[[bar EXCEPT !.direction = d] EXCEPT !.action = a]
                                     EXCEPT !.ipVersion = i]
            BY <2>1 DEF RestoreBar
      <2> HIDE DEF d, a, i
      <2>3. QED  BY <2>1, <2>2
<1>2. d \in Directions /\ a \in Actions /\ i \in IPVersions
      BY DEF Directions, Actions, IPVersions
<1> HIDE DEF d, a, i
<1>3. RestoreBar(bar) \in AllBars  BY <1>1, <1>2 DEF AllBars, BarsWith
<1>4. ASSUME bar \in AllBars  PROVE RestoreBar(bar) = bar
      <2>1. d = bar.direction /\ a = bar.action /\ i = bar.ipVersion
            BY <1>4 DEF AllBars, BarsWith, d, a, i
      <2>2. QED  BY <1>1, <2>1 DEF BarsWith
<1>5. QED  BY <1>3, <1>4

LEMMA OfferedBars == AllBars \subseteq BarsWith(AnyText, AnyText, AnyText)
<1>1. Directions \subseteq AnyText /\ Actions \subseteq AnyText /\ IPVersions \subseteq AnyText
      BY DEF AnyText
<1>2. ASSUME NEW bar \in AllBars  PROVE bar \in BarsWith(AnyText, AnyText, AnyText)
      BY <1>1, <1>2 DEF AllBars, BarsWith
<1>3. QED  BY <1>2

LEMMA NoConfigIsConfig == Config(NoConfig)
<1>1. NoBar \in BarsWith(AnyText, AnyText, AnyText)  BY Given, OfferedBars
<1>2. DOMAIN << >> = {}  OBVIOUS
<1>3. QED  BY <1>1, <1>2 DEF Config, NoConfig

\* Whatever configuration is restored, the controls hold what they can hold.
LEMMA RestoredUi ==
    ASSUME NEW c, Config(c)
    PROVE  Restore(c) \in Uis
<1>1. c.size \in Int /\ c.time \in TimeFormats \cup {""}
      /\ c.bar \in BarsWith(AnyText, AnyText, AnyText)
      BY DEF Config
<1>2. RestoreBar(c.bar) \in AllBars  BY <1>1, RestoredBar
<1>3. (IF c.time = "" THEN DefaultTime ELSE c.time) \in TimeFormats
      BY <1>1, Given
<1>4. QED  BY <1>1, <1>2, <1>3 DEF Restore, Uis

LEMMA NormFields ==
    ASSUME NEW ui \in Uis
    PROVE  Norm(ui) = [on |-> ui.on, noisePorts |-> ui.noisePorts,
                       size |-> EffectiveWindowSize(ui.size), time |-> ui.time,
                       bar |-> ui.bar]
BY DEF Norm, Uis

\* Without a configuration the controls are the declared ones.
LEMMA DefaultsRestored ==
    Norm(Restore(NoConfig)) = [on |-> DefaultOn, noisePorts |-> {}, size |-> DefaultSize,
                               time |-> DefaultTime, bar |-> NoBar]
<1>1. Restore(NoConfig) \in Uis  BY NoConfigIsConfig, RestoredUi
<1>2. RestoreBar(NoBar) = NoBar  BY Given, OfferedBars, RestoredBar
<1>3. EffectiveWindowSize(0) = DefaultSize
      <2>1. /\ MinWindowSize \in Nat \ {0} /\ MaxWindowSize \in Nat
            /\ DefaultSize \in MinWindowSize..MaxWindowSize
            BY Given
      <2>2. QED  BY <2>1 DEF EffectiveWindowSize, Clamp
<1>4. {t \in Toggles : IF t \in DOMAIN << >> THEN << >>[t] ELSE t \in DefaultOn} = DefaultOn
      <2>1. DOMAIN << >> = {}  OBVIOUS
      <2>2. DefaultOn \subseteq Toggles  BY DEF DefaultOn
      <2>3. QED  BY <2>1, <2>2
<1>5. /\ NoConfig.toggles = << >> /\ NoConfig.noisePorts = {} /\ NoConfig.size = 0
      /\ NoConfig.time = "" /\ NoConfig.bar = NoBar
      BY DEF NoConfig
<1>6. Restore(NoConfig) = [on |-> DefaultOn, noisePorts |-> {}, size |-> 0,
                           time |-> DefaultTime, bar |-> NoBar]
      BY <1>2, <1>4, <1>5 DEF Restore
<1>7. QED  BY <1>1, <1>3, <1>6, NormFields

\* What a save writes is a configuration, and restores the controls it was made
\* from: every box, the ports, the size in force, the times and the bar.
LEMMA CaptureRestores ==
    ASSUME NEW readable \in BOOLEAN, app.ui \in Uis,
           ColumnOrder(app.table, app.version, readable) \in Seq(STRING)
    PROVE  /\ Config(Capture(readable))
           /\ Norm(Restore(Capture(readable))) = Norm(app.ui)
           /\ Capture(readable).columns = ColumnStates(app.table, app.version)
           /\ Capture(readable).order = ColumnOrder(app.table, app.version, readable)
<1> DEFINE c  == Capture(readable)
           ui == app.ui
<1>1. /\ c.whole /\ c.there /\ c.toggles = [t \in Toggles |-> t \in ui.on]
      /\ c.noisePorts = ui.noisePorts /\ c.size = EffectiveWindowSize(ui.size)
      /\ c.time = ui.time /\ c.bar = ui.bar
      /\ c.columns = ColumnStates(app.table, app.version)
      /\ c.order = ColumnOrder(app.table, app.version, readable)
      <2>1. PICK columns, order :
            /\ columns = ColumnStates(app.table, app.version)
            /\ order = ColumnOrder(app.table, app.version, readable)
            /\ c = [whole |-> TRUE, there |-> TRUE,
                    toggles |-> [t \in Toggles |-> t \in ui.on],
                    noisePorts |-> ui.noisePorts, size |-> EffectiveWindowSize(ui.size),
                    time |-> ui.time, columns |-> columns, order |-> order, bar |-> ui.bar]
            BY Zenon DEF Capture
      <2> HIDE DEF c, ui
      <2>2. QED  BY <2>1
<1>2. /\ ui.on \in SUBSET Toggles /\ ui.noisePorts \in SUBSET PortNumbers
      /\ ui.size \in Int /\ ui.time \in TimeFormats /\ ui.bar \in AllBars
      BY DEF Uis
<1>3. /\ EffectiveWindowSize(ui.size) \in Int
      /\ EffectiveWindowSize(EffectiveWindowSize(ui.size)) = EffectiveWindowSize(ui.size)
      BY <1>2, EffectiveSize
<1>4. ui.bar \in BarsWith(AnyText, AnyText, AnyText) /\ RestoreBar(ui.bar) = ui.bar
      BY <1>2, OfferedBars, RestoredBar
<1>5. ui.time # ""  BY <1>2, Given
<1> HIDE DEF c, ui
<1>6. Config(c)
      <2>1. DOMAIN c.toggles \subseteq Toggles  BY <1>1
      <2>2. c.noisePorts \subseteq Int  BY <1>1, <1>2, PortsAreNumbers
      <2>3. QED  BY <1>1, <1>2, <1>3, <1>4, <2>1, <2>2 DEF Config
<1>7. {t \in Toggles : IF t \in DOMAIN c.toggles THEN c.toggles[t] ELSE t \in DefaultOn}
         = ui.on
      BY <1>1, <1>2
<1>8. c.noisePorts \cap PortNumbers = ui.noisePorts  BY <1>1, <1>2
<1>9. Restore(c) = [on |-> ui.on, noisePorts |-> ui.noisePorts,
                    size |-> EffectiveWindowSize(ui.size), time |-> ui.time,
                    bar |-> ui.bar]
      BY <1>1, <1>4, <1>5, <1>7, <1>8 DEF Restore
<1>10. Restore(c) \in Uis  BY <1>6, RestoredUi
<1>11. Norm(Restore(c)) = [on |-> ui.on, noisePorts |-> ui.noisePorts,
                           size |-> EffectiveWindowSize(ui.size), time |-> ui.time,
                           bar |-> ui.bar]
       BY <1>3, <1>9, <1>10, NormFields
<1>12. Norm(ui) = [on |-> ui.on, noisePorts |-> ui.noisePorts,
                   size |-> EffectiveWindowSize(ui.size), time |-> ui.time,
                   bar |-> ui.bar]
       <2>1. ui \in Uis  BY DEF ui
       <2>2. QED  BY <2>1, NormFields
<1>13. QED  BY <1>1, <1>6, <1>11, <1>12 DEF c, ui

-----------------------------------------------------------------------------
(* The filter.                                                             *)

\* The conjuncts of Matches that know nothing of negation.
OthersAdmit(f, e) ==
    /\ f.direction \in {"", e.direction}
    /\ f.action \in {"", e.action}
    /\ ~(f.onlyAfter /\ e.stamp = "before")
    /\ ~(f.hideNoise /\ IsNoise(f, e))
    /\ ~(f.hideNoMatch /\ e.rule = SentinelNoMatch)
    /\ ~(f.hideLoopback /\ IsLoopback(e.src) /\ IsLoopback(e.dst))
    /\ f.ipVersion = "" \/ EventIPVersion(e) \in {"", f.ipVersion}

\* What of a filter they look at.
SameOthers(f, g) ==
    /\ f.direction = g.direction /\ f.action = g.action /\ f.onlyAfter = g.onlyAfter
    /\ f.hideNoise = g.hideNoise /\ f.noisePorts = g.noisePorts
    /\ f.hideNoMatch = g.hideNoMatch /\ f.hideLoopback = g.hideLoopback
    /\ f.ipVersion = g.ipVersion

LEMMA OthersDepend ==
    ASSUME NEW f, NEW g, NEW e, SameOthers(f, g)
    PROVE  OthersAdmit(f, e) <=> OthersAdmit(g, e)
BY DEF OthersAdmit, SameOthers, IsNoise

LEMMA MatchesParts ==
    ASSUME NEW f, NEW e
    PROVE  Matches(f, e) <=> /\ \A field \in TextFields : TextAdmits(f, e, field)
                             /\ PidAdmits(f, e) /\ OthersAdmit(f, e)
BY DEF Matches, OthersAdmit

LEMMA MatchesBoolean ==
    ASSUME NEW f, NEW e, NEW g, Matches(f, e) <=> Matches(g, e)
    PROVE  Matches(f, e) = Matches(g, e)
BY DEF Matches

LEMMA FilterShape ==
    ASSUME NEW ui \in Uis, NEW history
    PROVE  /\ {"text", "negated", "pid"} \subseteq DOMAIN FilterOf(ui, history)
           /\ FilterOf(ui, history).text
                 \in [TextFields -> [text : STRING, quoted : BOOLEAN]]
           /\ FilterOf(ui, history).pid \in Pids
BY DEF FilterOf, Uis, AllBars, BarsWith

\* A text that is not empty admits what its negation does not.
LEMMA TextNegation ==
    ASSUME NEW f, NEW g, NEW e, NEW field \in TextFields, f.text = g.text,
           f.text[field] # NoText, field \in f.negated <=> field \notin g.negated
    PROVE  TextAdmits(f, e, field) <=> ~TextAdmits(g, e, field)
BY DEF TextAdmits, MatchField

\* Flipping a flag changes nothing for the other boxes.
LEMMA TextKept ==
    ASSUME NEW f, NEW g, NEW e, NEW field \in TextFields,
           f.text[field] = g.text[field],
           f.text[field] = NoText \/ (field \in f.negated <=> field \in g.negated)
    PROVE  TextAdmits(f, e, field) <=> TextAdmits(g, e, field)
BY DEF TextAdmits, MatchField

\* A PID admits what its negation does not; text that is no PID admits nothing;
\* an empty box admits everything.
LEMMA PidNegation ==
    ASSUME NEW f, NEW g, NEW e, f.pid \in Pids, f.pid = g.pid,
           "pid" \in f.negated <=> "pid" \notin g.negated
    PROVE  /\ f.pid.given /\ f.pid # BadPid => (PidAdmits(f, e) <=> ~PidAdmits(g, e))
           /\ f.pid = BadPid => f.pid.given /\ ~PidAdmits(f, e) /\ ~PidAdmits(g, e)
           /\ ~f.pid.given => PidAdmits(f, e) /\ PidAdmits(g, e)
<1>1. CASE f.pid = NoPid
      BY <1>1 DEF NoPid, BadPid, Pid, PidAdmits
<1>2. CASE f.pid = BadPid
      BY <1>2 DEF BadPid, Pid, PidAdmits
<1>3. CASE f.pid \in [given : {TRUE}, num : Int] /\ f.pid.num >= 0
      <2>1. f.pid.given /\ f.pid # BadPid
            <3>1. BadPid.num = -1  BY DEF BadPid, Pid
            <3>2. f.pid.num \in Int /\ f.pid.given  BY <1>3
            <3>3. ASSUME NEW n \in Int, n >= 0  PROVE n # -1
                  BY <3>3
            <3>4. QED  BY <1>3, <3>1, <3>2, <3>3
      <2>2. PidAdmits(f, e) <=> ~PidAdmits(g, e)  BY <1>3, <2>1 DEF PidAdmits
      <2>3. QED  BY <2>1, <2>2
<1>4. QED  BY <1>1, <1>2, <1>3 DEF Pids

LEMMA PidKept ==
    ASSUME NEW f, NEW g, NEW e, f.pid = g.pid,
           "pid" \in f.negated <=> "pid" \in g.negated
    PROVE  PidAdmits(f, e) <=> PidAdmits(g, e)
BY DEF PidAdmits

\* What NegateComplements says of one filter, event and box.
LEMMA NegationComplements ==
    ASSUME NEW ui \in Uis, NEW history, NEW e, NEW field \in Negatable,
           NEW f, f = FilterOf(ui, history)
    PROVE  LET not     == [f EXCEPT !.negated = SymDiff(@, {field})]
               empty   == IF field = "pid" THEN ~f.pid.given ELSE f.text[field] = NoText
               without == IF field = "pid" THEN [f EXCEPT !.pid = NoPid]
                          ELSE [f EXCEPT !.text[field] = NoText]
           IN  IF empty THEN Matches(not, e) = Matches(f, e)
               ELSE IF field = "pid" /\ f.pid = BadPid
               THEN ~Matches(f, e) /\ ~Matches(not, e)
               ELSE IF Matches(without, e) THEN Matches(not, e) # Matches(f, e)
               ELSE ~Matches(f, e) /\ ~Matches(not, e)
<1> DEFINE not     == [f EXCEPT !.negated = SymDiff(@, {field})]
           noPid   == [f EXCEPT !.pid = NoPid]
           noText  == [f EXCEPT !.text[field] = NoText]
           without == IF field = "pid" THEN noPid ELSE noText
<1>1. /\ {"text", "negated", "pid"} \subseteq DOMAIN f
      /\ DOMAIN f.text = TextFields /\ f.pid \in Pids
      BY FilterShape
<1>2. /\ not.text = f.text /\ not.pid = f.pid /\ SameOthers(f, not)
      /\ field \in f.negated <=> field \notin not.negated
      /\ \A g \in Negatable \ {field} : g \in f.negated <=> g \in not.negated
      BY <1>1 DEF SymDiff, SameOthers
<1>3. /\ noPid.text = f.text /\ noPid.negated = f.negated /\ noPid.pid = NoPid
      /\ SameOthers(f, noPid)
      BY <1>1 DEF SameOthers
<1>4. ASSUME field \in TextFields
      PROVE  /\ noText.pid = f.pid /\ noText.negated = f.negated
             /\ noText.text[field] = NoText
             /\ \A g \in TextFields \ {field} : noText.text[g] = f.text[g]
             /\ SameOthers(f, noText)
      BY <1>1, <1>4 DEF SameOthers
<1> HIDE DEF not, noPid, noText
<1>5. /\ OthersAdmit(not, e) <=> OthersAdmit(f, e)
      /\ OthersAdmit(noPid, e) <=> OthersAdmit(f, e)
      /\ field \in TextFields => (OthersAdmit(noText, e) <=> OthersAdmit(f, e))
      BY <1>2, <1>3, <1>4, OthersDepend
<1>6. \A g \in TextFields \ {field} : TextAdmits(f, e, g) <=> TextAdmits(not, e, g)
      BY <1>2, TextKept DEF Negatable
<1>7. CASE field = "pid"
      <2>1. \A g \in TextFields : TextAdmits(f, e, g) <=> TextAdmits(not, e, g)
            BY <1>6, <1>7 DEF TextFields
      <2>2. \A g \in TextFields : TextAdmits(f, e, g) <=> TextAdmits(noPid, e, g)
            BY <1>3, TextKept
      <2>3. PidAdmits(noPid, e)  BY <1>3 DEF PidAdmits, NoPid
      <2>4. /\ f.pid.given /\ f.pid # BadPid => (PidAdmits(f, e) <=> ~PidAdmits(not, e))
            /\ f.pid = BadPid => f.pid.given /\ ~PidAdmits(f, e) /\ ~PidAdmits(not, e)
            /\ ~f.pid.given => PidAdmits(f, e) /\ PidAdmits(not, e)
            BY <1>1, <1>2, <1>7, PidNegation
      <2>5. CASE ~f.pid.given
            <3>1. Matches(not, e) <=> Matches(f, e)
                  BY <1>5, <2>1, <2>4, <2>5, MatchesParts
            <3>2. Matches(not, e) = Matches(f, e)  BY <3>1, MatchesBoolean
            <3>3. QED  BY <1>7, <2>5, <3>2 DEF not
      <2>6. CASE f.pid = BadPid
            <3>1. ~Matches(f, e) /\ ~Matches(not, e)  BY <2>4, <2>6, MatchesParts
            <3>2. QED  BY <1>7, <2>4, <2>6, <3>1 DEF not
      <2>7. CASE f.pid.given /\ f.pid # BadPid
            <3>1. Matches(noPid, e) => (Matches(not, e) <=> ~Matches(f, e))
                  BY <1>5, <2>1, <2>2, <2>4, <2>7, MatchesParts
            <3>2. ~Matches(noPid, e) => ~Matches(f, e) /\ ~Matches(not, e)
                  BY <1>5, <2>1, <2>2, <2>3, MatchesParts
            <3>3. QED  BY <1>7, <2>7, <3>1, <3>2 DEF not, noPid
      <2>8. QED  BY <2>5, <2>6, <2>7
<1>8. CASE field \in TextFields
      <2>1. field # "pid"  BY <1>8 DEF TextFields
      <2>2. PidAdmits(f, e) <=> PidAdmits(not, e)
            BY <1>2, <2>1, PidKept DEF Negatable
      <2>3. PidAdmits(f, e) <=> PidAdmits(noText, e)  BY <1>4, <1>8, PidKept
      <2>4. \A g \in TextFields \ {field} : TextAdmits(f, e, g) <=> TextAdmits(noText, e, g)
            BY <1>4, <1>8, TextKept
      <2>5. TextAdmits(noText, e, field)  BY <1>4, <1>8 DEF TextAdmits
      <2>6. f.text[field] # NoText =>
               (TextAdmits(f, e, field) <=> ~TextAdmits(not, e, field))
            BY <1>2, <1>8, TextNegation
      <2>7. f.text[field] = NoText => TextAdmits(f, e, field) /\ TextAdmits(not, e, field)
            BY <1>2 DEF TextAdmits
      <2>8. CASE f.text[field] = NoText
            <3>1. Matches(not, e) <=> Matches(f, e)
                  BY <1>5, <1>6, <2>2, <2>7, <2>8, MatchesParts
            <3>2. Matches(not, e) = Matches(f, e)  BY <3>1, MatchesBoolean
            <3>3. QED  BY <2>1, <2>8, <3>2 DEF not
      <2>9. CASE f.text[field] # NoText
            <3>1. Matches(noText, e) => (Matches(not, e) <=> ~Matches(f, e))
                  BY <1>5, <1>6, <1>8, <2>2, <2>3, <2>4, <2>6, <2>9, MatchesParts
            <3>2. ~Matches(noText, e) => ~Matches(f, e) /\ ~Matches(not, e)
                  BY <1>5, <1>6, <1>8, <2>2, <2>3, <2>4, <2>5, MatchesParts
            <3>3. QED  BY <2>1, <2>9, <3>1, <3>2 DEF not, noText
      <2>10. QED  BY <2>8, <2>9
<1>9. QED  BY <1>7, <1>8 DEF Negatable

-----------------------------------------------------------------------------
(* The column layout.                                                      *)

\* A completed list has each known entry once, and keeps the order of the entries
\* it was made from.
LEMMA CompleteArranges ==
    ASSUME NEW X, NEW some \in Seq(X), NEW natural \in Seq(X),
           \A i, j \in DOMAIN natural : natural[i] = natural[j] => i = j
    PROVE  /\ Arranges(Complete(some, natural), ToSet(natural))
           /\ DOMAIN Complete(some, natural) = 1..Len(natural)
           /\ (\A i, j \in DOMAIN some : some[i] = some[j] => i = j) =>
                 \A i, j \in DOMAIN some :
                    some[i] \in ToSet(natural) /\ some[j] \in ToSet(natural) =>
                       (Ahead(Complete(some, natural), some[i], some[j]) <=> i < j)
<1> DEFINE g == some \o natural
           m == Len(some)
           n == Len(natural)
           T == ToSet(natural)
           P == {i \in DOMAIN g : g[i] \in T /\ \A j \in 1..(i - 1) : g[j] # g[i]}
<1>1. /\ m \in Nat /\ n \in Nat /\ DOMAIN some = 1..m /\ DOMAIN natural = 1..n
      /\ DOMAIN g = 1..(m + n)
      /\ \A i \in 1..m : g[i] = some[i]
      /\ \A i \in 1..n : g[m + i] = natural[i]
      <2>1. /\ g \in Seq(X) /\ Len(g) = m + n
            /\ \A i \in 1..(m + n) : g[i] = IF i <= m THEN some[i] ELSE natural[i - m]
            BY ConcatProperties
      <2>2. m \in Nat /\ n \in Nat /\ DOMAIN some = 1..m /\ DOMAIN natural = 1..n
            BY LenProperties
      <2>3. DOMAIN g = 1..(m + n)  BY <2>1, LenProperties
      <2> HIDE DEF g, m, n
      <2>4. ASSUME NEW i \in 1..m  PROVE g[i] = some[i]
            <3>1. i \in 1..(m + n) /\ i <= m  BY <2>2
            <3>2. QED  BY <2>1, <3>1
      <2>5. ASSUME NEW i \in 1..n  PROVE g[m + i] = natural[i]
            <3>1. m + i \in 1..(m + n) /\ ~(m + i <= m) /\ (m + i) - m = i  BY <2>2
            <3>2. QED  BY <2>1, <3>1
      <2>6. QED  BY <2>2, <2>3, <2>4, <2>5
<1>2. Complete(some, natural) = Picked(g, P)  BY DEF Complete
<1>3. T = {natural[i] : i \in DOMAIN natural}  BY DEF ToSet
<1> HIDE DEF g, m, n, T
<1>4. P \in SUBSET Int /\ IsFiniteSet(P)
      <2>1. P \in SUBSET (1..(m + n)) /\ IsFiniteSet(1..(m + n))
            BY <1>1, FS_Interval
      <2>2. 1..(m + n) \subseteq Int  BY <1>1
      <2> HIDE DEF P
      <2>3. QED  BY <2>1, <2>2, FS_Subset
<1>5. \A p, q \in P : g[p] = g[q] => p = q
      <2>1. ASSUME NEW p \in P, NEW q \in P, g[p] = g[q], p < q  PROVE FALSE
            <3>1. p \in 1..(m + n) /\ q \in 1..(m + n)  BY <1>1
            <3>2. p \in 1..(q - 1)  BY <1>1, <2>1, <3>1
            <3>3. QED  BY <2>1, <3>2
      <2>2. \A p, q \in P : p < q \/ q < p \/ p = q  BY <1>4
      <2>3. QED  BY <2>1, <2>2
<1>6. {g[p] : p \in P} = T
      <2>1. ASSUME NEW x \in T  PROVE \E p \in P : g[p] = x
            <3> DEFINE F == {i \in 1..(m + n) : g[i] = x}
            <3>1. PICK i \in 1..n : natural[i] = x  BY <1>1, <1>3
            <3>2. m + i \in F  BY <1>1, <3>1
            <3>3. F \in SUBSET Nat  BY <1>1
            <3>4. PICK p \in F : \A k \in F : p <= k
                  <4> HIDE DEF F
                  <4>1. QED  BY <3>2, <3>3, LeastNumber
            <3>5. p \in 1..(m + n) /\ g[p] = x  OBVIOUS
            <3>6. ASSUME NEW j \in 1..(p - 1)  PROVE g[j] # g[p]
                  <4>1. j \in 1..(m + n) /\ ~(p <= j)  BY <1>1, <3>5
                  <4>2. QED  BY <3>4, <3>5, <4>1
            <3>7. p \in P  BY <1>1, <3>5, <3>6
            <3>8. QED  BY <3>5, <3>7
      <2>2. QED  BY <2>1
<1>7. /\ Arranges(Picked(g, P), T) /\ DOMAIN Picked(g, P) = 1..Cardinality(P)
      /\ \A x, y : Ahead(Picked(g, P), x, y) <=>
            \E p, q \in P : p < q /\ g[p] = x /\ g[q] = y
      <2> HIDE DEF P
      <2>1. /\ Arranges(Picked(g, P), {g[p] : p \in P})
            /\ DOMAIN Picked(g, P) = 1..Cardinality(P)
            /\ \A x, y : Ahead(Picked(g, P), x, y) <=>
                  \E p, q \in P : p < q /\ g[p] = x /\ g[q] = y
            BY <1>4, <1>5, PickedArranges
      <2>2. QED  BY <1>6, <2>1
<1>8. Cardinality(P) = n
      <2>1. Arranges(natural, T)
            <3>1. natural \in [1..n -> T]  BY <1>1, <1>3
            <3>2. natural \in Seq(T)  BY <1>1, <3>1
            <3>3. QED  BY <1>3, <3>2 DEF Arranges
      <2>2. n = Cardinality(T)  BY <2>1, ArrangedLength DEF n
      <2>3. Len(Picked(g, P)) = Cardinality(T)  BY <1>7, ArrangedLength
      <2>4. Len(Picked(g, P)) = Cardinality(P)
            <3>1. Cardinality(P) \in Nat
                  <4> HIDE DEF P
                  <4>1. QED  BY <1>4, FS_CardinalityType
            <3>2. Picked(g, P) \in Seq(T)  BY <1>7 DEF Arranges
            <3> HIDE DEF P
            <3>3. DOMAIN Picked(g, P) = 1..Len(Picked(g, P)) /\ Len(Picked(g, P)) \in Nat
                  BY <3>2, LenProperties
            <3>4. QED  BY <1>7, <3>1, <3>3
      <2>5. QED  BY <2>2, <2>3, <2>4
<1>9. ASSUME \A i, j \in DOMAIN some : some[i] = some[j] => i = j,
             NEW i \in DOMAIN some, NEW j \in DOMAIN some, some[i] \in T, some[j] \in T
      PROVE  Ahead(Picked(g, P), some[i], some[j]) <=> i < j
      <2>1. ASSUME NEW k \in DOMAIN some, some[k] \in T
            PROVE  k \in P /\ g[k] = some[k]
            <3>1. k \in 1..m /\ k \in DOMAIN g /\ g[k] = some[k]  BY <1>1
            <3>2. ASSUME NEW h \in 1..(k - 1)  PROVE g[h] # g[k]
                  <4>1. h \in 1..m /\ h # k  BY <1>1, <3>1
                  <4>2. QED  BY <1>1, <1>9, <3>1, <4>1
            <3>3. QED  BY <2>1, <3>1, <3>2
      <2>2. i \in P /\ j \in P /\ g[i] = some[i] /\ g[j] = some[j]  BY <1>9, <2>1
      <2>3. \A p, q \in P : g[p] = some[i] /\ g[q] = some[j] => p = i /\ q = j
            BY <1>5, <2>2
      <2> HIDE DEF P
      <2>4. QED  BY <1>7, <2>2, <2>3
<1>10. (\A i, j \in DOMAIN some : some[i] = some[j] => i = j) =>
          \A i, j \in DOMAIN some :
             some[i] \in T /\ some[j] \in T =>
                (Ahead(Complete(some, natural), some[i], some[j]) <=> i < j)
       BY <1>2, <1>9
<1>11. Arranges(Complete(some, natural), T) /\ DOMAIN Complete(some, natural) = 1..n
       BY <1>2, <1>7, <1>8
<1>12. QED  BY <1>10, <1>11 DEF T, n

\* What the assumptions say of a version's columns.
LEMMA ColumnFacts ==
    ASSUME NEW v \in DOMAIN Columns
    PROVE  /\ Columns[v] \in Seq(STRING) /\ Len(Columns[v]) \in Nat
           /\ DOMAIN Columns[v] = 1..Len(Columns[v])
           /\ \A i, j \in DOMAIN Columns[v] : Columns[v][i] = Columns[v][j] => i = j
           /\ \A i \in DOMAIN Columns[v] :
                 Columns[v][i] \in ToSet(Columns[v]) /\ ColumnDefIndex(v, Columns[v][i]) = i
           /\ \A title \in ToSet(Columns[v]) :
                 /\ ColumnDefIndex(v, title) \in DOMAIN Columns[v]
                 /\ Columns[v][ColumnDefIndex(v, title)] = title
<1>1. /\ Columns[v] \in Seq(STRING)
      /\ \A i, j \in DOMAIN Columns[v] : Columns[v][i] = Columns[v][j] => i = j
      BY SettingsAssumption
<1>2. Len(Columns[v]) \in Nat /\ DOMAIN Columns[v] = 1..Len(Columns[v])
      BY <1>1, LenProperties
<1>3. ASSUME NEW i \in DOMAIN Columns[v]
      PROVE  Columns[v][i] \in ToSet(Columns[v]) /\ ColumnDefIndex(v, Columns[v][i]) = i
      BY <1>1 DEF ToSet, ColumnDefIndex
<1>4. ASSUME NEW title \in ToSet(Columns[v])
      PROVE  /\ ColumnDefIndex(v, title) \in DOMAIN Columns[v]
             /\ Columns[v][ColumnDefIndex(v, title)] = title
      BY DEF ToSet, ColumnDefIndex
<1>5. QED  BY <1>1, <1>2, <1>3, <1>4

\* A file's titles become an order of all columns, that of the titles if they are
\* distinct.
LEMMA TitlesToOrder ==
    ASSUME NEW v \in DOMAIN Columns, NEW titles \in Seq(STRING)
    PROVE  /\ Arranges(ColumnTitlesToCompleteOrder(titles, v), DOMAIN Columns[v])
           /\ ValidColumnOrder(ColumnTitlesToCompleteOrder(titles, v), v)
           /\ (\A p, q \in DOMAIN titles : titles[p] = titles[q] => p = q) =>
                 \A p, q \in DOMAIN titles :
                    titles[p] \in ToSet(Columns[v]) /\ titles[q] \in ToSet(Columns[v]) =>
                       (Ahead(ColumnTitlesToCompleteOrder(titles, v),
                              ColumnDefIndex(v, titles[p]), ColumnDefIndex(v, titles[q]))
                          <=> p < q)
<1> DEFINE n == Len(Columns[v])
           D == DOMAIN Columns[v]
           T == ToSet(Columns[v])
           complete == Complete(titles, Columns[v])
           order == ColumnTitlesToCompleteOrder(titles, v)
           Index(title) == ColumnDefIndex(v, title)
<1>1. /\ n \in Nat /\ D = 1..n
      /\ \A title \in T : Index(title) \in D /\ Columns[v][Index(title)] = title
      /\ \A i \in D : Columns[v][i] \in T /\ Index(Columns[v][i]) = i
      BY ColumnFacts
<1>2. /\ Arranges(complete, T) /\ DOMAIN complete = 1..n
      /\ (\A p, q \in DOMAIN titles : titles[p] = titles[q] => p = q) =>
            \A p, q \in DOMAIN titles :
               titles[p] \in T /\ titles[q] \in T =>
                  (Ahead(complete, titles[p], titles[q]) <=> p < q)
      BY ColumnFacts, CompleteArranges
<1>3. order = [p \in DOMAIN complete |-> Index(complete[p])]
      BY DEF ColumnTitlesToCompleteOrder
<1> HIDE DEF n, D, T, complete, order, Index
<1>4. \A p \in 1..n : complete[p] \in T
      <2>1. complete \in Seq(T)  BY <1>2 DEF Arranges
      <2>2. complete \in [1..n -> T]
            <3>1. DOMAIN complete = 1..Len(complete) /\ complete \in [1..Len(complete) -> T]
                  BY <2>1, LenProperties
            <3>2. QED  BY <1>2, <3>1
      <2>3. QED  BY <2>2
<1>5. DOMAIN order = 1..n /\ \A p \in 1..n : order[p] = Index(complete[p])
      BY <1>2, <1>3
<1>6. order \in Seq(D) /\ Len(order) = n
      <2>1. order = [p \in 1..n |-> order[p]]  BY <1>2, <1>3
      <2>2. \A p \in 1..n : order[p] \in D  BY <1>1, <1>4, <1>5
      <2>3. order \in [1..n -> D]  BY <2>1, <2>2
      <2>4. QED  BY <1>1, <2>3
<1>7. Arranges(order, D)
      <2>1. \A i, j \in DOMAIN order : order[i] = order[j] => i = j
            <3>1. ASSUME NEW i \in 1..n, NEW j \in 1..n, order[i] = order[j]  PROVE i = j
                  <4>1. complete[i] = complete[j]  BY <1>1, <1>4, <1>5, <3>1
                  <4>2. QED  BY <1>2, <4>1 DEF Arranges
            <3>2. QED  BY <1>5, <3>1
      <2>2. \A x \in D : \E i \in DOMAIN order : order[i] = x
            <3>1. ASSUME NEW x \in D  PROVE \E i \in 1..n : order[i] = x
                  <4>1. PICK i \in 1..n : complete[i] = Columns[v][x]
                        BY <1>1, <1>2 DEF Arranges
                  <4>2. QED  BY <1>1, <1>5, <4>1
            <3>2. QED  BY <1>5, <3>1
      <2>3. QED  BY <1>6, <2>1, <2>2 DEF Arranges
<1>8. ValidColumnOrder(order, v)
      <2>1. ToSet(order) = D
            <3>1. \A p \in 1..n : order[p] \in D  BY <1>1, <1>4, <1>5
            <3>2. QED  BY <1>5, <1>7, <3>1 DEF ToSet, Arranges
      <2>2. QED  BY <1>6, <2>1 DEF ValidColumnOrder, n, D
<1>9. ASSUME NEW a \in T, NEW b \in T
      PROVE  Ahead(order, Index(a), Index(b)) <=> Ahead(complete, a, b)
      <2>1. \A p \in 1..n, x \in T : order[p] = Index(x) <=> complete[p] = x
            <3>1. ASSUME NEW p \in 1..n, NEW x \in T, order[p] = Index(x)
                  PROVE  complete[p] = x
                  BY <1>1, <1>4, <1>5, <3>1
            <3>2. QED  BY <1>5, <3>1
      <2>2. QED  BY <1>2, <1>5, <2>1 DEF Ahead
<1>10. (\A p, q \in DOMAIN titles : titles[p] = titles[q] => p = q) =>
          \A p, q \in DOMAIN titles :
             titles[p] \in T /\ titles[q] \in T =>
                (Ahead(order, Index(titles[p]), Index(titles[q])) <=> p < q)
       BY <1>2, <1>9
<1>11. QED  BY <1>7, <1>8, <1>10 DEF D, T, order, Index

\* The displayed order of a native one: each visible column once.
LEMMA DisplayedArranges ==
    ASSUME NEW V \in SUBSET Int, IsFiniteSet(V), NEW native,
           Arranges(native, 1..Cardinality(V))
    PROVE  Arranges(Displayed(V, native), V) /\ DOMAIN Displayed(V, native) = DOMAIN native
<1> DEFINE c == Cardinality(V)
           a == Ascending(V)
           shown == Displayed(V, native)
<1>1. /\ c \in Nat /\ a \in Seq(V) /\ Len(a) = c
      /\ \A i, j \in 1..c : i < j => a[i] < a[j]
      /\ \A k \in 1..c : Rank(V, a[k]) = k
      BY Ranks, AscendingSorted
<1>2. shown = [p \in DOMAIN native |-> a[native[p]]]  BY DEF Displayed
<1>3. Arranges(native, 1..c)  OBVIOUS
<1> HIDE DEF c, a, shown
<1>4. DOMAIN native = 1..Len(native) /\ Len(native) \in Nat /\ native \in [1..Len(native) -> 1..c]
      BY <1>3, LenProperties DEF Arranges
<1>5. DOMAIN a = 1..c /\ a \in [1..c -> V]
      <2>1. DOMAIN a = 1..Len(a) /\ a \in [1..Len(a) -> V]  BY <1>1, LenProperties
      <2>2. QED  BY <1>1, <2>1
<1>6. \A p \in DOMAIN native : native[p] \in 1..c /\ shown[p] \in V
      BY <1>2, <1>4, <1>5
<1>7. shown \in Seq(V)
      <2>1. shown = [p \in 1..Len(native) |-> shown[p]]  BY <1>2, <1>4
      <2>2. shown \in [1..Len(native) -> V]  BY <1>4, <1>6, <2>1
      <2>3. QED  BY <1>4, <2>2
<1>8. \A p, q \in DOMAIN native : shown[p] = shown[q] => p = q
      <2>1. ASSUME NEW p \in DOMAIN native, NEW q \in DOMAIN native, shown[p] = shown[q]
            PROVE  p = q
            <3>1. a[native[p]] = a[native[q]]  BY <1>2, <2>1
            <3>2. native[p] = native[q]  BY <1>1, <1>6, <3>1
            <3>3. QED  BY <1>3, <3>2 DEF Arranges
      <2>2. QED  BY <2>1
<1>9. ASSUME NEW x \in V  PROVE \E p \in DOMAIN native : shown[p] = x
      <2>1. PICK k \in 1..c : a[k] = x
            <3>1. Rank(V, x) \in 1..c  BY Ranks DEF c
            <3>2. PICK k \in 1..c : k = Rank(V, x)  BY <3>1
            <3>3. a[k] \in V /\ Rank(V, a[k]) = Rank(V, x)  BY <1>1, <1>5, <3>2
            <3>4. \A y, z \in V : Rank(V, y) = Rank(V, z) => y = z
                  BY RanksDiffer
            <3>5. QED  BY <3>3, <3>4
      <2>2. PICK p \in DOMAIN native : native[p] = k  BY <1>3 DEF Arranges
      <2>3. QED  BY <1>2, <2>1, <2>2
<1>10. DOMAIN shown = DOMAIN native  BY <1>2
<1>11. QED  BY <1>7, <1>8, <1>9, <1>10 DEF shown, Arranges

\* The native order made from an order of columns shows the visible ones in it.
LEMMA NativeShowsOrder ==
    ASSUME NEW D \in SUBSET Int, NEW order, Arranges(order, D), NEW V \in SUBSET D
    PROVE  /\ IsFiniteSet(V) /\ Arranges(ToNative(order, V), 1..Cardinality(V))
           /\ \A i, j \in V : Ahead(Displayed(V, ToNative(order, V)), i, j) <=> Ahead(order, i, j)
<1> DEFINE c == Cardinality(V)
           P == {p \in DOMAIN order : order[p] \in V}
           shown == Picked(order, P)
           native == ToNative(order, V)
           displayed == Displayed(V, native)
<1>1. /\ IsFiniteSet(D) /\ DOMAIN order = 1..Len(order) /\ Len(order) \in Nat
      /\ \A p, q \in DOMAIN order : order[p] = order[q] => p = q
      /\ \A x \in D : \E p \in DOMAIN order : order[p] = x
      BY ArrangedLength, LenProperties DEF Arranges
<1>2. IsFiniteSet(V) /\ V \in SUBSET Int  BY <1>1, FS_Subset
<1>3. P \in SUBSET Int /\ IsFiniteSet(P)
      <2>1. P \in SUBSET (1..Len(order)) /\ IsFiniteSet(1..Len(order))
            BY <1>1, FS_Interval
      <2>2. 1..Len(order) \subseteq Int  OBVIOUS
      <2> HIDE DEF P
      <2>3. QED  BY <2>1, <2>2, FS_Subset
<1>4. \A p, q \in P : order[p] = order[q] => p = q  BY <1>1
<1>5. {order[p] : p \in P} = V
      <2>1. \A x \in V : \E p \in P : order[p] = x  BY <1>1
      <2>2. \A p \in P : order[p] \in V  OBVIOUS
      <2> HIDE DEF P
      <2>3. QED  BY <2>1, <2>2
<1>6. /\ Arranges(shown, V) /\ DOMAIN shown = 1..Cardinality(P)
      /\ \A x, y : Ahead(shown, x, y) <=>
            \E p, q \in P : p < q /\ order[p] = x /\ order[q] = y
      <2> HIDE DEF P
      <2>1. /\ Arranges(Picked(order, P), {order[p] : p \in P})
            /\ DOMAIN Picked(order, P) = 1..Cardinality(P)
            /\ \A x, y : Ahead(Picked(order, P), x, y) <=>
                  \E p, q \in P : p < q /\ order[p] = x /\ order[q] = y
            BY <1>3, <1>4, PickedArranges
      <2>2. QED  BY <1>5, <2>1
<1>7. native = [p \in DOMAIN shown |-> Rank(V, shown[p])]
      BY DEF ToNative, Rank
<1>8. \A i, j \in V : Ahead(shown, i, j) <=> Ahead(order, i, j)
      <2>1. ASSUME NEW i \in V, NEW j \in V, Ahead(order, i, j)  PROVE Ahead(shown, i, j)
            <3>1. PICK p, q \in DOMAIN order : p < q /\ order[p] = i /\ order[q] = j
                  BY <2>1 DEF Ahead
            <3>2. p \in P /\ q \in P  BY <3>1
            <3> HIDE DEF shown, P
            <3>3. QED  BY <1>6, <3>1, <3>2
      <2>2. ASSUME NEW i \in V, NEW j \in V, Ahead(shown, i, j)  PROVE Ahead(order, i, j)
            <3>1. PICK p, q \in P : p < q /\ order[p] = i /\ order[q] = j
                  <4> HIDE DEF shown, P
                  <4>1. QED  BY <1>6, <2>2
            <3>2. p \in DOMAIN order /\ q \in DOMAIN order  OBVIOUS
            <3>3. QED  BY <3>1, <3>2 DEF Ahead
      <2>3. QED  BY <2>1, <2>2
<1> HIDE DEF P, shown, native
<1>9. /\ DOMAIN shown = 1..Len(shown) /\ Len(shown) \in Nat
      /\ \A p \in DOMAIN shown : shown[p] \in V
      <2>1. shown \in Seq(V)  BY <1>6 DEF Arranges
      <2>2. DOMAIN shown = 1..Len(shown) /\ Len(shown) \in Nat /\ shown \in [1..Len(shown) -> V]
            BY <2>1, LenProperties
      <2>3. QED  BY <2>2
<1>10. DOMAIN native = DOMAIN shown /\ \A p \in DOMAIN shown : native[p] = Rank(V, shown[p])
       BY <1>7
<1>11. /\ c \in Nat
       /\ \A x \in V : Rank(V, x) \in 1..c
       /\ \A k \in 1..c : \E x \in V : Rank(V, x) = k
       /\ \A x, z \in V : Rank(V, x) = Rank(V, z) => x = z
       BY <1>2, Ranks, RanksDiffer
<1> HIDE DEF c
<1>12. Arranges(native, 1..c)
       <2>1. native \in Seq(1..c)
             <3> DEFINE n == Len(shown)
             <3>1. n \in Nat /\ DOMAIN shown = 1..n  BY <1>9
             <3>2. \A p \in DOMAIN shown : native[p] \in 1..c
                   <4>1. ASSUME NEW p \in DOMAIN shown  PROVE native[p] \in 1..c
                         <5>1. shown[p] \in V  BY <1>9
                         <5>2. Rank(V, shown[p]) \in 1..c  BY <1>11, <5>1
                         <5>3. QED  BY <1>10, <5>2
                   <4>2. QED  BY <4>1
             <3>3. native = [p \in DOMAIN shown |-> native[p]]  BY <1>7
             <3> DEFINE I == 1..c
             <3>4. \A p \in DOMAIN shown : native[p] \in I  BY <3>2
             <3> HIDE DEF n, I
             <3>5. native \in [1..n -> I]  BY <3>1, <3>3, <3>4
             <3>6. native \in Seq(I)  BY <3>1, <3>5
             <3>7. QED  BY <3>6 DEF I
       <2>2. \A i, j \in DOMAIN native : native[i] = native[j] => i = j
             <3>1. ASSUME NEW i \in DOMAIN shown, NEW j \in DOMAIN shown, native[i] = native[j]
                   PROVE  i = j
                   <4>1. shown[i] \in V /\ shown[j] \in V  BY <1>9
                   <4>2. Rank(V, shown[i]) = Rank(V, shown[j])  BY <1>10, <3>1
                   <4>3. shown[i] = shown[j]  BY <1>11, <4>1, <4>2
                   <4>4. QED  BY <1>6, <4>3 DEF Arranges
             <3>2. QED  BY <1>10, <3>1
       <2>3. \A k \in 1..c : \E i \in DOMAIN native : native[i] = k
             <3>1. ASSUME NEW k \in 1..c  PROVE \E i \in DOMAIN native : native[i] = k
                   <4>1. PICK x \in V : Rank(V, x) = k  BY <1>11
                   <4>2. PICK i \in DOMAIN shown : shown[i] = x  BY <1>6 DEF Arranges
                   <4>3. QED  BY <1>10, <4>1, <4>2
             <3>2. QED  BY <3>1
       <2>4. QED  BY <2>1, <2>2, <2>3 DEF Arranges
<1>13. displayed = shown
       <2>1. Ascending(V) \in [1..c -> V] /\ \A k \in 1..c : Rank(V, Ascending(V)[k]) = k
             <3>1. /\ Ascending(V) \in Seq(V) /\ Len(Ascending(V)) = c
                   /\ \A k \in 1..c : Rank(V, Ascending(V)[k]) = k
                   BY <1>2, AscendingSorted DEF c
             <3>2. QED  BY <3>1, LenProperties
       <2>2. \A x \in V : Ascending(V)[Rank(V, x)] = x
             <3>1. ASSUME NEW x \in V  PROVE Ascending(V)[Rank(V, x)] = x
                   <4>1. PICK k \in 1..c : k = Rank(V, x)  BY <1>11
                   <4>2. Ascending(V)[k] \in V /\ Rank(V, Ascending(V)[k]) = Rank(V, x)
                         BY <2>1, <4>1
                   <4>3. Ascending(V)[k] = x  BY <1>11, <4>2
                   <4>4. QED  BY <4>1, <4>3
             <3>2. QED  BY <3>1
       <2>3. displayed = [p \in DOMAIN native |-> Ascending(V)[native[p]]]
             BY DEF Displayed
       <2>4. \A p \in DOMAIN shown : Ascending(V)[native[p]] = shown[p]
             BY <1>9, <1>10, <2>2
       <2>5. shown = [p \in DOMAIN shown |-> shown[p]]  BY <1>6 DEF Arranges
       <2>6. QED  BY <1>10, <2>3, <2>4, <2>5
<1>14. QED  BY <1>2, <1>8, <1>12, <1>13 DEF c, native

\* The table of a version: visible columns, their native order, and the widths.
IsTable(t, v) ==
    /\ t.visible \subseteq DOMAIN Columns[v]
    /\ DOMAIN t.width = DOMAIN Columns[v]
    /\ Arranges(t.native, 1..Cardinality(t.visible))

\* What the list view displays is each visible column once.
LEMMA TableDisplays ==
    ASSUME NEW v \in DOMAIN Columns, NEW t, IsTable(t, v)
    PROVE  /\ t.visible \in SUBSET Int /\ IsFiniteSet(t.visible)
           /\ Arranges(Displayed(t.visible, t.native), t.visible)
           /\ DOMAIN Displayed(t.visible, t.native) = DOMAIN t.native
<1>1. DOMAIN Columns[v] = 1..Len(Columns[v]) /\ Len(Columns[v]) \in Nat  BY ColumnFacts
<1>2. DOMAIN Columns[v] \in SUBSET Int /\ IsFiniteSet(DOMAIN Columns[v])
      BY <1>1, FS_Interval
<1>3. t.visible \in SUBSET Int /\ IsFiniteSet(t.visible)
      BY <1>2, FS_Subset DEF IsTable
<1>4. Arranges(t.native, 1..Cardinality(t.visible))  BY DEF IsTable
<1>5. PICK V \in SUBSET Int : V = t.visible  BY <1>3
<1>6. QED  BY <1>3, <1>4, <1>5, DisplayedArranges

LEMMA AllArranges ==
    ASSUME NEW v \in DOMAIN Columns
    PROVE  /\ Arranges(All(v), DOMAIN Columns[v]) /\ ToSet(All(v)) = DOMAIN Columns[v]
           /\ DOMAIN Columns[v] \in SUBSET Int /\ IsFiniteSet(DOMAIN Columns[v])
           /\ \A i, j \in DOMAIN Columns[v] : Ahead(All(v), i, j) <=> i < j
<1> DEFINE D == DOMAIN Columns[v]
<1>1. PICK n \in Nat : D = 1..n  BY ColumnFacts
<1>2. All(v) = [i \in D |-> i]  BY DEF All
<1> HIDE DEF D
<1>3. DOMAIN All(v) = D /\ \A i \in D : All(v)[i] = i  BY <1>2
<1>4. All(v) \in Seq(D)
      <2>1. All(v) \in [1..n -> D]  BY <1>1, <1>2
      <2>2. QED  BY <2>1
<1>5. ToSet(All(v)) = D  BY <1>3 DEF ToSet
<1>6. Arranges(All(v), D)  BY <1>3, <1>4 DEF Arranges
<1>7. D \in SUBSET Int /\ IsFiniteSet(D)  BY <1>1, FS_Interval
<1>8. \A i, j \in D : Ahead(All(v), i, j) <=> i < j  BY <1>3 DEF Ahead
<1>9. QED  BY <1>5, <1>6, <1>7, <1>8 DEF D

\* The order that is read is one of all columns, the visible ones as displayed.
LEMMA CurrentOrder ==
    ASSUME NEW v \in DOMAIN Columns, NEW t, IsTable(t, v)
    PROVE  /\ Arranges(CurrentColumnOrder(t, v), DOMAIN Columns[v])
           /\ \A i, j \in t.visible :
                 Ahead(CurrentColumnOrder(t, v), i, j)
                    <=> Ahead(Displayed(t.visible, t.native), i, j)
<1> DEFINE D == DOMAIN Columns[v]
           shown == Displayed(t.visible, t.native)
           all == All(v)
           V == t.visible
           complete == Complete(shown, all)
<1>1. Arranges(all, D) /\ ToSet(all) = D  BY AllArranges
<1>2. Arranges(shown, V) /\ V \in SUBSET D  BY TableDisplays DEF IsTable
<1>3. CurrentColumnOrder(t, v) = IF V = {} THEN all ELSE complete
      BY DEF CurrentColumnOrder
<1> HIDE DEF D, shown, all, V, complete
<1>4. /\ all \in Seq(D)
      /\ \A i, j \in DOMAIN all : all[i] = all[j] => i = j
      BY <1>1 DEF Arranges
<1>5. /\ shown \in Seq(V) /\ \A i, j \in DOMAIN shown : shown[i] = shown[j] => i = j
      /\ \A x \in V : \E i \in DOMAIN shown : shown[i] = x
      BY <1>2 DEF Arranges
<1>6. shown \in Seq(D)
      <2>1. PICK n \in Nat : shown \in [1..n -> V]  BY <1>5, LenProperties
      <2>2. shown \in [1..n -> D]  BY <1>2, <2>1
      <2>3. QED  BY <2>2
<1>7. /\ Arranges(complete, D)
      /\ \A i, j \in DOMAIN shown :
            shown[i] \in D /\ shown[j] \in D =>
               (Ahead(complete, shown[i], shown[j]) <=> i < j)
      BY <1>1, <1>4, <1>5, <1>6, CompleteArranges DEF complete
<1>8. ASSUME NEW x \in V, NEW y \in V
      PROVE  Ahead(complete, x, y) <=> Ahead(shown, x, y)
      <2>1. PICK i \in DOMAIN shown, j \in DOMAIN shown : shown[i] = x /\ shown[j] = y
            BY <1>5
      <2>2. Ahead(shown, shown[i], shown[j]) <=> i < j  BY <1>2, AheadPlaces
      <2>3. Ahead(complete, shown[i], shown[j]) <=> i < j  BY <1>2, <1>7, <2>1
      <2>4. QED  BY <2>1, <2>2, <2>3
<1>9. QED  BY <1>1, <1>3, <1>7, <1>8 DEF D, V, shown

\* The order that is saved is one of all titles.
LEMMA SavedOrder ==
    ASSUME NEW v \in DOMAIN Columns, NEW t, IsTable(t, v), NEW readable \in BOOLEAN
    PROVE  /\ ColumnOrder(t, v, readable) \in Seq(STRING)
           /\ Arranges(ColumnOrder(t, v, readable), ToSet(Columns[v]))
           /\ readable =>
                 \A i, j \in t.visible :
                    Ahead(ColumnOrder(t, v, readable), Columns[v][i], Columns[v][j])
                       <=> Ahead(Displayed(t.visible, t.native), i, j)
           /\ ~readable =>
                 \A i, j \in DOMAIN Columns[v] :
                    Ahead(ColumnOrder(t, v, readable), Columns[v][i], Columns[v][j]) <=> i < j
<1> DEFINE D == DOMAIN Columns[v]
           order == IF readable THEN CurrentColumnOrder(t, v) ELSE All(v)
           f == Columns[v]
           saved == ColumnOrder(t, v, readable)
<1>1. Arranges(order, D)  BY AllArranges, CurrentOrder
<1>2. saved = [p \in DOMAIN order |-> f[order[p]]]  BY DEF ColumnOrder
<1>3. /\ f \in Seq(STRING)
      /\ \A i, j \in D : f[i] = f[j] => i = j
      /\ ToSet(f) = {f[i] : i \in D}
      BY ColumnFacts DEF ToSet
<1>4. readable => order = CurrentColumnOrder(t, v)  OBVIOUS
<1>5. t.visible \subseteq D  BY DEF IsTable
<1>6. D = DOMAIN f  OBVIOUS
<1>7. ToSet(f) \subseteq STRING
      <2>1. \A i \in D : f[i] \in STRING
            <3>1. D = 1..Len(f)  BY ColumnFacts
            <3>2. QED  BY <1>3, <3>1, ElementOfSeq
      <2>2. QED  BY <1>3, <2>1
<1> HIDE DEF D, order, f, saved
<1>8. /\ Arranges(saved, ToSet(f))
      /\ \A x, y \in D : Ahead(saved, f[x], f[y]) <=> Ahead(order, x, y)
      BY <1>1, <1>2, <1>3, <1>6, RenamedArranges
<1>9. saved \in Seq(STRING)
      <2>1. PICK n \in Nat : saved \in [1..n -> ToSet(f)]
            BY <1>8, LenProperties DEF Arranges
      <2>2. saved \in [1..n -> STRING]  BY <1>7, <2>1
      <2>3. QED  BY <2>2
<1>10. ASSUME readable, NEW i \in t.visible, NEW j \in t.visible
       PROVE  Ahead(saved, f[i], f[j]) <=> Ahead(Displayed(t.visible, t.native), i, j)
       <2>1. Ahead(saved, f[i], f[j]) <=> Ahead(order, i, j)  BY <1>5, <1>8
       <2>2. Ahead(CurrentColumnOrder(t, v), i, j)
                <=> Ahead(Displayed(t.visible, t.native), i, j)
             BY CurrentOrder
       <2>3. QED  BY <1>4, <1>10, <2>1, <2>2
<1>11. ASSUME ~readable, NEW i \in D, NEW j \in D
       PROVE  Ahead(saved, f[i], f[j]) <=> i < j
       <2>1. order = All(v)  BY <1>11 DEF order
       <2>2. Ahead(All(v), i, j) <=> i < j  BY AllArranges DEF D
       <2>3. QED  BY <1>8, <2>1, <2>2
<1>12. QED  BY <1>8, <1>9, <1>10, <1>11 DEF f, saved, D

\* A table made from an order of all columns.
LEMMA TableFromOrder ==
    ASSUME NEW v \in DOMAIN Columns, NEW order, Arranges(order, DOMAIN Columns[v]),
           NEW t, t.visible \subseteq DOMAIN Columns[v],
           DOMAIN t.width = DOMAIN Columns[v], t.native = ToNative(order, t.visible)
    PROVE  /\ IsTable(t, v)
           /\ \A i, j \in t.visible :
                 Ahead(Displayed(t.visible, t.native), i, j) <=> Ahead(order, i, j)
<1>1. DOMAIN Columns[v] \in SUBSET Int  BY AllArranges
<1>2. PICK D \in SUBSET Int : D = DOMAIN Columns[v]  BY <1>1
<1>3. PICK V \in SUBSET D : V = t.visible  BY <1>2
<1>4. Arranges(order, D)  BY <1>2
<1>5. /\ Arranges(ToNative(order, V), 1..Cardinality(V))
      /\ \A i, j \in V : Ahead(Displayed(V, ToNative(order, V)), i, j) <=> Ahead(order, i, j)
      BY <1>4, NativeShowsOrder
<1>6. QED  BY <1>3, <1>5 DEF IsTable

LEMMA DefaultIsTable ==
    ASSUME NEW v \in DOMAIN Columns
    PROVE  IsTable(DefaultTable(v), v)
<1> DEFINE t == DefaultTable(v)
<1>1. /\ t.visible \subseteq DOMAIN Columns[v] /\ DOMAIN t.width = DOMAIN Columns[v]
      /\ t.native = ToNative(All(v), t.visible)
      BY DEF DefaultTable
<1>2. Arranges(All(v), DOMAIN Columns[v])  BY AllArranges
<1> HIDE DEF t
<1>3. QED  BY <1>1, <1>2, TableFromOrder DEF t

\* The layout a version makes of a file: what each column is like, and the order.
LEMMA LayoutApplied ==
    ASSUME NEW v \in DOMAIN Columns, NEW c, c.order \in Seq(STRING),
           NEW accepted \in BOOLEAN
    PROVE  LET t == ApplyColumnLayout(c, v, accepted) IN
           /\ IsTable(t, v)
           /\ ~(DOMAIN c.columns = {} /\ c.order = <<>>) =>
                 /\ \A i \in DOMAIN Columns[v] :
                       Columns[v][i] \in DOMAIN c.columns =>
                          /\ i \in t.visible <=> c.columns[Columns[v][i]].visible
                          /\ t.width[i] = IF c.columns[Columns[v][i]].width # 0
                                          THEN c.columns[Columns[v][i]].width
                                          ELSE DeclaredWidth
                 /\ accepted =>
                       \A i, j \in t.visible :
                          Ahead(Displayed(t.visible, t.native), i, j)
                             <=> Ahead(ColumnTitlesToCompleteOrder(c.order, v), i, j)
                 /\ ~accepted =>
                       \A i, j \in t.visible :
                          Ahead(Displayed(t.visible, t.native), i, j) <=> i < j
<1> DEFINE t == ApplyColumnLayout(c, v, accepted)
           D == DOMAIN Columns[v]
           base == DefaultTable(v)
           IsSaved(i) == Columns[v][i] \in DOMAIN c.columns
           Saved(i) == c.columns[Columns[v][i]]
           V == {i \in D : IF IsSaved(i) THEN Saved(i).visible ELSE i \in base.visible}
           order == ColumnTitlesToCompleteOrder(c.order, v)
           taken == IF accepted /\ ValidColumnOrder(order, v) THEN order ELSE All(v)
           W == [i \in D |-> IF IsSaved(i) /\ Saved(i).width # 0
                             THEN Saved(i).width ELSE base.width[i]]
<1>1. t = IF DOMAIN c.columns = {} /\ c.order = <<>> THEN base
          ELSE [visible |-> V, width |-> W, native |-> ToNative(taken, V)]
      BY Zenon DEF ApplyColumnLayout
<1>2. Arranges(order, D) /\ ValidColumnOrder(order, v) /\ Arranges(All(v), D)
      BY TitlesToOrder, AllArranges
<1>3. IsTable(base, v)  BY DefaultIsTable
<1>4. /\ \A i \in D : IsSaved(i) => (i \in V <=> Saved(i).visible)
      /\ V \subseteq D
      OBVIOUS
<1>5. /\ DOMAIN W = D
      /\ \A i \in D : IsSaved(i) =>
            W[i] = IF Saved(i).width # 0 THEN Saved(i).width ELSE DeclaredWidth
      <2>1. \A i \in D : base.width[i] = DeclaredWidth  BY DEF DefaultTable
      <2> HIDE DEF base, D, Saved, IsSaved
      <2>2. QED  BY <2>1
<1>6. Arranges(taken, D) /\ (accepted => taken = order) /\ (~accepted => taken = All(v))
      <2> HIDE DEF order, D
      <2>1. QED  BY <1>2
<1> HIDE DEF t, D, base, V, order, taken, W
<1>7. CASE DOMAIN c.columns = {} /\ c.order = <<>>
      BY <1>1, <1>3, <1>7 DEF t
<1>8. CASE ~(DOMAIN c.columns = {} /\ c.order = <<>>)
      <2>1. t.visible = V /\ t.width = W /\ t.native = ToNative(taken, V)
            BY <1>1, <1>8
      <2>2. /\ IsTable(t, v)
            /\ \A i, j \in t.visible :
                  Ahead(Displayed(t.visible, t.native), i, j) <=> Ahead(taken, i, j)
            BY <1>4, <1>5, <1>6, <2>1, TableFromOrder DEF D
      <2>3. accepted => \A i, j \in t.visible :
               Ahead(Displayed(t.visible, t.native), i, j) <=> Ahead(order, i, j)
            BY <1>6, <2>2
      <2>4. \A i \in D : IsSaved(i) =>
               /\ i \in t.visible <=> Saved(i).visible
               /\ t.width[i] = IF Saved(i).width # 0 THEN Saved(i).width ELSE DeclaredWidth
            BY <1>4, <1>5, <2>1
      <2>5. ~accepted => \A i, j \in t.visible :
               Ahead(Displayed(t.visible, t.native), i, j) <=> i < j
            <3>1. \A i, j \in D : Ahead(All(v), i, j) <=> i < j  BY AllArranges DEF D
            <3>2. t.visible \subseteq D  BY <1>4, <2>1
            <3>3. QED  BY <1>6, <2>2, <3>1, <3>2
      <2>6. QED  BY <1>8, <2>2, <2>3, <2>4, <2>5 DEF t, D, order
<1>9. QED  BY <1>7, <1>8

\* Titles are displayed in the order of their columns.
LEMMA LeftOfAhead ==
    ASSUME NEW v \in DOMAIN Columns, NEW t, IsTable(t, v),
           NEW a \in ToSet(Columns[v]), NEW b \in ToSet(Columns[v])
    PROVE  LeftOf(v, t, a, b) <=> Ahead(Displayed(t.visible, t.native),
                                        ColumnDefIndex(v, a), ColumnDefIndex(v, b))
<1> DEFINE shown == Displayed(t.visible, t.native)
           titles == TitlesShown(v, t)
<1>1. /\ DOMAIN shown = DOMAIN t.native /\ Arranges(shown, t.visible)
      /\ t.visible \subseteq DOMAIN Columns[v]
      BY TableDisplays DEF IsTable
<1>2. titles = [p \in DOMAIN t.native |-> Columns[v][shown[p]]]
      BY DEF TitlesShown, TitleOf
<1> HIDE DEF shown, titles
<1>3. \A p \in DOMAIN shown : shown[p] \in DOMAIN Columns[v]
      <2>1. PICK n \in Nat : DOMAIN shown = 1..n /\ shown \in [1..n -> t.visible]
            BY <1>1, LenProperties DEF Arranges
      <2>2. QED  BY <1>1, <2>1
<1>4. \A i \in DOMAIN Columns[v], title \in ToSet(Columns[v]) :
         Columns[v][i] = title <=> i = ColumnDefIndex(v, title)
      BY ColumnFacts
<1>5. \A p \in DOMAIN t.native, title \in ToSet(Columns[v]) :
         titles[p] = title <=> shown[p] = ColumnDefIndex(v, title)
      BY <1>1, <1>2, <1>3, <1>4
<1>6. LeftOf(v, t, a, b) <=>
         \E p, q \in DOMAIN t.native : p < q /\ titles[p] = a /\ titles[q] = b
      BY DEF LeftOf, titles
<1>7. QED  BY <1>1, <1>5, <1>6 DEF Ahead, shown

\* A version that restores what another one saved shows the columns both have as
\* that one did.
LEMMA LayoutRestored ==
    ASSUME NEW v \in DOMAIN Columns, NEW w \in DOMAIN Columns,
           NEW t, IsTable(t, w), NEW readable \in BOOLEAN, NEW accepted \in BOOLEAN,
           NEW c, c.columns = ColumnStates(t, w), c.order = ColumnOrder(t, w, readable)
    PROVE  LET u == ApplyColumnLayout(c, v, accepted) IN
           /\ \A title \in Common(v, w) :
                 /\ ColumnDefIndex(v, title) \in u.visible
                       <=> ColumnDefIndex(w, title) \in t.visible
                 /\ u.width[ColumnDefIndex(v, title)] =
                       IF t.width[ColumnDefIndex(w, title)] = 0 THEN DeclaredWidth
                       ELSE t.width[ColumnDefIndex(w, title)]
           /\ \A a, b \in Common(v, w) :
                 /\ ColumnDefIndex(w, a) \in t.visible
                 /\ ColumnDefIndex(w, b) \in t.visible
                 => /\ ~accepted =>
                          (LeftOf(v, u, a, b) <=> ColumnDefIndex(v, a) < ColumnDefIndex(v, b))
                    /\ accepted /\ readable =>
                          (LeftOf(v, u, a, b) <=> LeftOf(w, t, a, b))
                    /\ accepted /\ ~readable =>
                          (LeftOf(v, u, a, b) <=> ColumnDefIndex(w, a) < ColumnDefIndex(w, b))
<1> DEFINE u == ApplyColumnLayout(c, v, accepted)
           order == ColumnTitlesToCompleteOrder(c.order, v)
           shown == Displayed(u.visible, u.native)
           I(title) == ColumnDefIndex(v, title)
           J(title) == ColumnDefIndex(w, title)
<1>1. /\ c.order \in Seq(STRING) /\ Arranges(c.order, ToSet(Columns[w]))
      /\ readable =>
            \A i, j \in t.visible :
               Ahead(c.order, Columns[w][i], Columns[w][j])
                  <=> Ahead(Displayed(t.visible, t.native), i, j)
      /\ ~readable =>
            \A i, j \in DOMAIN Columns[w] :
               Ahead(c.order, Columns[w][i], Columns[w][j]) <=> i < j
      BY SavedOrder
<1>2. /\ DOMAIN c.columns = ToSet(Columns[w])
      /\ \A title \in ToSet(Columns[w]) :
            c.columns[title] = [visible |-> J(title) \in t.visible, width |-> t.width[J(title)]]
      BY DEF ColumnStates
<1>3. DOMAIN c.columns # {}
      <2>1. Columns[w] # <<>> /\ Columns[w] \in Seq(STRING)  BY SettingsAssumption
      <2>2. Len(Columns[w]) # 0 /\ Len(Columns[w]) \in Nat  BY <2>1, EmptySeq, LenProperties
      <2>3. DOMAIN Columns[w] = 1..Len(Columns[w])  BY ColumnFacts
      <2>4. 1 \in DOMAIN Columns[w]  BY <2>2, <2>3
      <2>5. Columns[w][1] \in ToSet(Columns[w])  BY <2>4 DEF ToSet
      <2>6. QED  BY <1>2, <2>5
<1>4. /\ IsTable(u, v)
      /\ \A i \in DOMAIN Columns[v] :
            Columns[v][i] \in DOMAIN c.columns =>
               /\ i \in u.visible <=> c.columns[Columns[v][i]].visible
               /\ u.width[i] = IF c.columns[Columns[v][i]].width # 0
                               THEN c.columns[Columns[v][i]].width
                               ELSE DeclaredWidth
      /\ accepted => \A i, j \in u.visible : Ahead(shown, i, j) <=> Ahead(order, i, j)
      /\ ~accepted => \A i, j \in u.visible : Ahead(shown, i, j) <=> i < j
      BY <1>1, <1>3, LayoutApplied
<1>5. /\ \A title \in Common(v, w) :
            /\ title \in ToSet(Columns[v]) /\ title \in ToSet(Columns[w])
            /\ I(title) \in DOMAIN Columns[v] /\ Columns[v][I(title)] = title
            /\ J(title) \in DOMAIN Columns[w] /\ Columns[w][J(title)] = title
      BY ColumnFacts DEF Common
<1>6. /\ (\A p, q \in DOMAIN c.order : c.order[p] = c.order[q] => p = q)
      /\ \A title \in ToSet(Columns[w]) : \E p \in DOMAIN c.order : c.order[p] = title
      BY <1>1 DEF Arranges
<1>7. \A p, q \in DOMAIN c.order :
         c.order[p] \in ToSet(Columns[v]) /\ c.order[q] \in ToSet(Columns[v]) =>
            (Ahead(order, I(c.order[p]), I(c.order[q])) <=> p < q)
      BY <1>1, <1>6, TitlesToOrder
<1> HIDE DEF u, order, shown, I, J
<1>8. ASSUME NEW title \in Common(v, w)
      PROVE  /\ I(title) \in u.visible <=> J(title) \in t.visible
             /\ u.width[I(title)] = IF t.width[J(title)] = 0 THEN DeclaredWidth
                                    ELSE t.width[J(title)]
      <2>1. /\ c.columns[title].visible <=> J(title) \in t.visible
            /\ c.columns[title].width = t.width[J(title)]
            <3>1. c.columns[title] =
                     [visible |-> J(title) \in t.visible, width |-> t.width[J(title)]]
                  BY <1>2, <1>5
            <3> DEFINE seen == J(title) \in t.visible
            <3>2. c.columns[title] = [visible |-> seen, width |-> t.width[J(title)]]
                  BY <3>1
            <3> HIDE DEF seen
            <3>3. c.columns[title].visible = seen /\ c.columns[title].width = t.width[J(title)]
                  BY <3>2
            <3>4. QED  BY <3>3 DEF seen
      <2>2. /\ I(title) \in u.visible <=> c.columns[title].visible
            /\ u.width[I(title)] = IF c.columns[title].width # 0
                                   THEN c.columns[title].width ELSE DeclaredWidth
            BY <1>2, <1>4, <1>5
      <2>3. QED  BY <2>1, <2>2
<1>9. ASSUME NEW a \in Common(v, w), NEW b \in Common(v, w),
             J(a) \in t.visible, J(b) \in t.visible
      PROVE  /\ ~accepted => (LeftOf(v, u, a, b) <=> I(a) < I(b))
             /\ accepted /\ readable => (LeftOf(v, u, a, b) <=> LeftOf(w, t, a, b))
             /\ accepted /\ ~readable => (LeftOf(v, u, a, b) <=> J(a) < J(b))
      <2>1. LeftOf(v, u, a, b) <=> Ahead(shown, I(a), I(b))
            BY <1>4, <1>5, LeftOfAhead DEF shown, I
      <2>2. I(a) \in u.visible /\ I(b) \in u.visible  BY <1>8, <1>9
      <2>3. ~accepted => (Ahead(shown, I(a), I(b)) <=> I(a) < I(b))  BY <1>4, <2>2
      <2>4. PICK p \in DOMAIN c.order, q \in DOMAIN c.order : c.order[p] = a /\ c.order[q] = b
            BY <1>5, <1>6
      <2>5. Ahead(order, I(a), I(b)) <=> p < q  BY <1>5, <1>7, <2>4
      <2>6. Ahead(c.order, a, b) <=> p < q  BY <1>1, <2>4, AheadPlaces
      <2>7. accepted => (Ahead(shown, I(a), I(b)) <=> Ahead(c.order, a, b))
            BY <1>4, <2>2, <2>5, <2>6
      <2>8. LeftOf(w, t, a, b) <=> Ahead(Displayed(t.visible, t.native), J(a), J(b))
            BY <1>5, LeftOfAhead DEF J
      <2>9. readable =>
               (Ahead(Displayed(t.visible, t.native), J(a), J(b)) <=> Ahead(c.order, a, b))
            BY <1>1, <1>5, <1>9
      <2>10. ~readable => (Ahead(c.order, a, b) <=> J(a) < J(b))  BY <1>1, <1>5
      <2>11. QED  BY <2>1, <2>3, <2>7, <2>8, <2>9, <2>10
<1>10. QED  BY <1>8, <1>9 DEF u, I, J

-----------------------------------------------------------------------------
(* The inductive invariant.                                                *)

\* What lies on the disk is nothing, a stump, or something that parses; the last
\* complete save stays there until another is begun, which leaves a stump until
\* it is complete.
Disk ==
    /\ file = Absent \/ file = Broken \/ Config(file)
    /\ fresh => phase = "probing" /\ file = Broken
    /\ {"whole", "torn"} \subseteq DOMAIN kept
    /\ kept.torn => file = Broken /\ ~fresh
    /\ kept.whole /\ ~kept.torn => file.whole /\ Norm(Restore(file)) = kept.ui

\* A running instance filters by what its controls show; one that nobody
\* touched shows what the file says, which nothing changes under it.
Instance ==
    /\ phase \in {"running", "saving"} =>
         /\ {"history", "ui", "table", "filter", "touched"} \subseteq DOMAIN app
         /\ app.ui \in Uis
         /\ app.filter = FilterOf(app.ui, app.history)
    /\ JustUp => app.ui = Restore(LoadConfig)

Controls == Disk /\ Instance

\* There is an instance as long as it runs, the bounds are kept, and while it
\* saves nothing else is on the disk.
Phases ==
    /\ phase \in {"down", "probing", "ready", "running", "saving"}
    /\ phase = "saving" => kept.torn
    /\ phase \in {"down", "probing", "ready"} => app = NoApp
    /\ changes \in 0..MaxChanges /\ launches \in 0..MaxLaunches

\* The table is one of its version; that of an instance nobody touched is made
\* from the file, and the file of a complete save from the table of that save.
Layout ==
    /\ phase \in {"running", "saving"} =>
         /\ {"version", "accepted"} \subseteq DOMAIN app
         /\ app.version \in DOMAIN Columns /\ app.accepted \in BOOLEAN
         /\ IsTable(app.table, app.version)
    /\ JustUp => app.table = ApplyColumnLayout(LoadConfig, app.version, app.accepted)
    /\ kept.whole /\ ~kept.torn =>
         /\ kept.version \in DOMAIN Columns /\ kept.readable \in BOOLEAN
         /\ IsTable(kept.table, kept.version)
         /\ file.columns = ColumnStates(kept.table, kept.version)
         /\ file.order = ColumnOrder(kept.table, kept.version, kept.readable)

IInv == Phases /\ Controls /\ Layout

\* Which of the three a file is.
LEMMA Kinds ==
    /\ ~Absent.whole /\ ~Absent.there /\ ~Broken.whole /\ Broken.there
    /\ ~NoSave.whole /\ ~NoSave.torn /\ DOMAIN NoSave = {"whole", "torn"}
    /\ \A c : Config(c) => c.whole /\ c.there
BY DEF Absent, Broken, NoSave, Config

LEMMA LoadedUi ==
    ASSUME Disk
    PROVE  Config(LoadConfig)
BY NoConfigIsConfig, Kinds DEF Disk, LoadConfig

LEMMA StartsRight == Init => Controls
<1> SUFFICES ASSUME Init  PROVE Controls
    OBVIOUS
<1>1. file = Absent \/ file = Broken \/ Config(file)  BY Given DEF Init
<1>2. /\ phase = "down" /\ ~fresh /\ ~kept.whole /\ ~kept.torn
      /\ DOMAIN kept = {"whole", "torn"}
      BY Kinds DEF Init
<1>3. QED  BY <1>1, <1>2 DEF Controls, Disk, Instance, JustUp

LEMMA StepStart ==
    ASSUME Controls, NEW override \in BOOLEAN, Start(override)
    PROVE  Controls'
<1>1. /\ phase = "down" /\ phase' \in {"probing", "ready"} /\ kept' = kept
      /\ fresh' = (override /\ ~file.there) /\ (fresh' => phase' = "probing")
      /\ file' = IF override /\ ~file.there THEN Broken ELSE file
      BY DEF Start
<1>2. file' = Absent \/ file' = Broken \/ Config(file')
      BY <1>1 DEF Controls, Disk
<1>3. fresh' => file' = Broken  BY <1>1
<1>4. kept'.whole /\ ~kept'.torn => file'.whole /\ Norm(Restore(file')) = kept'.ui
      BY <1>1, Kinds DEF Controls, Disk
<1>5. kept'.torn => file' = Broken /\ ~fresh'  BY <1>1, Kinds DEF Controls, Disk
<1>6. QED  BY <1>1, <1>2, <1>3, <1>4, <1>5 DEF Controls, Disk, Instance, JustUp

LEMMA StepEndProbe ==
    ASSUME Controls, NEW removed \in BOOLEAN, EndProbe(removed)
    PROVE  Controls'
<1>1. /\ phase' = "ready" /\ ~fresh' /\ kept' = kept
      /\ file' = IF fresh /\ removed THEN Absent ELSE file
      BY DEF EndProbe
<1>2. /\ kept'.whole /\ ~kept'.torn => file'.whole /\ Norm(Restore(file')) = kept'.ui
      /\ kept'.torn => file' = Broken /\ ~fresh'
      BY <1>1, Kinds DEF Controls, Disk
<1>3. QED  BY <1>1, <1>2 DEF Controls, Disk, Instance, JustUp

LEMMA StepLaunch ==
    ASSUME Controls, NEW v, NEW history, NEW accepted, Launch(v, history, accepted)
    PROVE  Controls'
<1> DEFINE ui == Restore(LoadConfig)
<1>1. /\ phase' = "running" /\ file' = file /\ fresh' = fresh /\ kept' = kept
      /\ phase = "ready"
      BY DEF Launch
<1>2. PICK table :
         app' = [version |-> v, history |-> history, ui |-> ui, table |-> table,
                 filter |-> FilterOf(ui, history), accepted |-> accepted,
                 touched |-> FALSE]
      BY Zenon DEF Launch
<1>3. ui \in Uis  BY LoadedUi, RestoredUi DEF Controls
<1>4. ui = Restore(LoadConfig)'  BY <1>1 DEF LoadConfig
<1>5. Disk'  BY <1>1 DEF Controls, Disk
<1> HIDE DEF ui
<1>6. /\ {"history", "ui", "table", "filter", "touched"} \subseteq DOMAIN app'
      /\ app'.ui = ui /\ app'.history = history /\ app'.filter = FilterOf(ui, history)
      BY <1>2
<1>7. QED  BY <1>1, <1>3, <1>4, <1>5, <1>6 DEF Controls, Instance

\* Any change of the controls: the filter is made again from what they show.
LEMMA StepControls ==
    ASSUME Controls, phase = "running", NEW ui \in Uis, SetControls(ui)
    PROVE  Controls'
<1>1. /\ file' = file /\ fresh' = fresh /\ kept' = kept /\ phase' = "running"
      /\ app' = [app EXCEPT !.ui = ui, !.filter = FilterOf(ui, app.history),
                            !.touched = TRUE]
      BY DEF SetControls
<1>2. {"history", "ui", "table", "filter", "touched"} \subseteq DOMAIN app
      BY DEF Controls, Instance
<1>3. /\ {"history", "ui", "table", "filter", "touched"} \subseteq DOMAIN app'
      /\ app'.ui = ui /\ app'.history = app.history
      /\ app'.filter = FilterOf(ui, app.history) /\ app'.touched
      BY <1>1, <1>2
<1>4. Disk'  BY <1>1 DEF Controls, Disk
<1>5. QED  BY <1>1, <1>3, <1>4 DEF Controls, Instance, JustUp

\* Any change of the table leaves the controls alone.
LEMMA StepTable ==
    ASSUME Controls, phase = "running", NEW visible, NEW order, NEW width,
           SetTable(visible, order, width)
    PROVE  Controls'
<1>1. /\ file' = file /\ fresh' = fresh /\ kept' = kept /\ phase' = "running"
      BY DEF SetTable
<1>2. PICK table : app' = [app EXCEPT !.table = table, !.touched = TRUE]
      BY Zenon DEF SetTable
<1>3. {"history", "ui", "table", "filter", "touched"} \subseteq DOMAIN app
      BY DEF Controls, Instance
<1>4. /\ {"history", "ui", "table", "filter", "touched"} \subseteq DOMAIN app'
      /\ app'.ui = app.ui /\ app'.history = app.history
      /\ app'.filter = app.filter /\ app'.touched
      BY <1>2, <1>3
<1>5. app'.ui \in Uis /\ app'.filter = FilterOf(app'.ui, app'.history)
      BY <1>4 DEF Controls, Instance
<1>6. Disk'  BY <1>1 DEF Controls, Disk
<1>7. QED  BY <1>1, <1>4, <1>5, <1>6 DEF Controls, Instance, JustUp

LEMMA StepExit ==
    ASSUME Controls, NEW opened \in BOOLEAN, Exit(opened)
    PROVE  Controls'
<1>1. phase = "running" /\ fresh' = fresh /\ ~fresh
      BY DEF Exit, Controls, Disk
<1>2. CASE opened
      <2>1. /\ phase' = "saving" /\ file' = Broken /\ app' = app
            /\ kept' = [kept EXCEPT !.torn = TRUE]
            BY <1>2 DEF Exit
      <2>2. {"whole", "torn"} \subseteq DOMAIN kept' /\ kept'.torn
            BY <2>1 DEF Controls, Disk
      <2>3. Disk'  BY <1>1, <2>1, <2>2, Kinds DEF Disk
      <2>4. Instance'  BY <1>1, <2>1 DEF Controls, Instance, JustUp
      <2>5. QED  BY <2>3, <2>4 DEF Controls
<1>3. CASE ~opened
      <2>1. phase' = "down" /\ file' = file /\ kept' = kept
            BY <1>3 DEF Exit
      <2>2. QED  BY <1>1, <2>1 DEF Controls, Disk, Instance, JustUp
<1>4. QED  BY <1>2, <1>3

\* The one step that keeps something: what it writes restores what was shown.
LEMMA StepEndSave ==
    ASSUME Controls, Layout, NEW readable \in BOOLEAN, EndSave(readable)
    PROVE  Controls'
<1>1. /\ phase = "saving" /\ phase' = "down" /\ fresh' = fresh
      /\ file' = Capture(readable)
      BY DEF EndSave
<1>2. PICK version, table :
         kept' = [whole |-> TRUE, torn |-> FALSE, readable |-> readable,
                  version |-> version, ui |-> Norm(app.ui), table |-> table]
      BY Zenon DEF EndSave, Norm
<1>3. /\ kept'.ui = Norm(app.ui) /\ ~kept'.torn
      /\ {"whole", "torn"} \subseteq DOMAIN kept'
      BY <1>2
<1>4. app.ui \in Uis  BY <1>1 DEF Controls, Instance
<1>8. ColumnOrder(app.table, app.version, readable) \in Seq(STRING)
      BY <1>1, SavedOrder DEF Layout
<1>5. Config(file') /\ Norm(Restore(file')) = kept'.ui
      BY <1>1, <1>3, <1>4, <1>8, CaptureRestores
<1>6. file'.whole  BY <1>5, Kinds
<1>7. QED  BY <1>1, <1>3, <1>5, <1>6 DEF Controls, Disk, Instance, JustUp

LEMMA StepCrash ==
    ASSUME Controls, Crash
    PROVE  Controls'
BY DEF Crash, Controls, Disk, Instance, JustUp

LEMMA StepUnchanged ==
    ASSUME Controls, UNCHANGED vars
    PROVE  Controls'
<1>1. /\ file' = file /\ phase' = phase /\ fresh' = fresh /\ app' = app /\ kept' = kept
      BY DEF vars
<1>2. LoadConfig' = LoadConfig  BY <1>1 DEF LoadConfig
<1>3. Instance'
      <2>1. JustUp' => app'.ui = Restore(LoadConfig)'
            BY <1>1, <1>2 DEF Controls, Instance, JustUp
      <2>2. QED  BY <1>1, <2>1 DEF Controls, Instance
<1>4. QED  BY <1>1, <1>3 DEF Controls, Disk

\* Each control puts something in its place that it can hold.
LEMMA StepUser ==
    ASSUME Controls,
           \/ \E t \in Toggles : Toggle(t)
           \/ \E ports \in NoisePortSets : NoiseDialog(ports)
           \/ \E time \in TimeFormats : TimeDialog(time)
           \/ \E n \in Requests : WindowDialog(n)
           \/ \E bar \in Bars : SetBar(bar)
           \/ ClearFilters
    PROVE  Controls'
<1>1. phase = "running"
      BY DEF Toggle, NoiseDialog, TimeDialog, WindowDialog, SetBar, ClearFilters, SetControls
<1>2. PICK ui \in Uis : ui = app.ui  BY <1>1 DEF Controls, Instance
<1>3. ASSUME NEW t \in Toggles, Toggle(t)  PROVE Controls'
      <2>1. [ui EXCEPT !.on = SymDiff(@, {t})] \in Uis  BY DEF Uis, SymDiff
      <2>2. SetControls([ui EXCEPT !.on = SymDiff(@, {t})])  BY <1>2, <1>3 DEF Toggle
      <2>3. QED  BY <1>1, <2>1, <2>2, StepControls
<1>4. ASSUME NEW ports \in NoisePortSets, NoiseDialog(ports)  PROVE Controls'
      <2>1. [ui EXCEPT !.noisePorts = ports] \in Uis  BY Given DEF Uis
      <2>2. SetControls([ui EXCEPT !.noisePorts = ports])  BY <1>2, <1>4 DEF NoiseDialog
      <2>3. QED  BY <1>1, <2>1, <2>2, StepControls
<1>5. ASSUME NEW time \in TimeFormats, TimeDialog(time)  PROVE Controls'
      <2>1. [ui EXCEPT !.time = time] \in Uis  BY DEF Uis
      <2>2. SetControls([ui EXCEPT !.time = time])  BY <1>2, <1>5 DEF TimeDialog
      <2>3. QED  BY <1>1, <2>1, <2>2, StepControls
<1>6. ASSUME NEW n \in Requests, WindowDialog(n)  PROVE Controls'
      <2>1. /\ n \in Int
            /\ MinWindowSize \in Int
            /\ MaxWindowSize \in Int
            <3>1. MinWindowSize \in Nat \ {0} /\ MaxWindowSize \in Nat  BY Given
            <3>2. n \in Int  BY Given
            <3>3. QED  BY <3>1, <3>2
      <2>2. Clamp(n) \in Int  BY <2>1 DEF Clamp
      <2>3. [ui EXCEPT !.size = Clamp(n)] \in Uis  BY <2>2 DEF Uis
      <2>4. SetControls([ui EXCEPT !.size = Clamp(n)])  BY <1>2, <1>6 DEF WindowDialog
      <2>5. QED  BY <1>1, <2>3, <2>4, StepControls
<1>7. ASSUME NEW bar \in Bars, SetBar(bar)  PROVE Controls'
      <2>1. [ui EXCEPT !.bar = bar] \in Uis  BY Given DEF Uis
      <2>2. SetControls([ui EXCEPT !.bar = bar])  BY <1>2, <1>7 DEF SetBar
      <2>3. QED  BY <1>1, <2>1, <2>2, StepControls
<1>8. ASSUME ClearFilters  PROVE Controls'
      <2>1. [ui EXCEPT !.bar = NoBar, !.on = @ \ {"hideNoMatch"}] \in Uis
            BY Given DEF Uis
      <2>2. SetControls([ui EXCEPT !.bar = NoBar, !.on = @ \ {"hideNoMatch"}])
            BY <1>2, <1>8 DEF ClearFilters
      <2>3. QED  BY <1>1, <2>1, <2>2, StepControls
<1>9. QED  BY <1>3, <1>4, <1>5, <1>6, <1>7, <1>8

LEMMA StepLayout ==
    ASSUME Controls,
           \/ \E visible \in SUBSET Indices : ColumnsDialog(visible)
           \/ DragHeader
           \/ \E w \in Widths : DragEdge(w)
    PROVE  Controls'
<1>1. PICK visible, order, width : phase = "running" /\ SetTable(visible, order, width)
      BY Zenon DEF ColumnsDialog, DragHeader, DragEdge
<1>2. QED  BY <1>1, StepTable

LEMMA ControlsKept == Controls /\ Layout /\ [Next]_vars => Controls'
<1> SUFFICES ASSUME Controls, Layout, [Next]_vars  PROVE Controls'
    OBVIOUS
<1>1. ASSUME NEW override \in BOOLEAN, Start(override)  PROVE Controls'
      BY <1>1, StepStart
<1>2. ASSUME NEW removed \in BOOLEAN, EndProbe(removed)  PROVE Controls'
      BY <1>2, StepEndProbe
<1>3. ASSUME NEW v \in DOMAIN Columns, NEW history \in BOOLEAN, NEW accepted \in BOOLEAN,
             Launch(v, history, accepted)
      PROVE  Controls'
      BY <1>3, StepLaunch
<1>4. ASSUME NEW opened \in BOOLEAN, Exit(opened)  PROVE Controls'
      BY <1>4, StepExit
<1>5. ASSUME NEW readable \in BOOLEAN, EndSave(readable)  PROVE Controls'
      BY <1>5, StepEndSave
<1>6. QED  BY <1>1, <1>2, <1>3, <1>4, <1>5, StepUser, StepLayout, StepCrash,
              StepUnchanged DEF Next

\* The steps of the user keep the instance running.
LEMMA UserSteps ==
    ASSUME \/ \E t \in Toggles : Toggle(t)
           \/ \E ports \in NoisePortSets : NoiseDialog(ports)
           \/ \E time \in TimeFormats : TimeDialog(time)
           \/ \E n \in Requests : WindowDialog(n)
           \/ \E bar \in Bars : SetBar(bar)
           \/ ClearFilters
    PROVE  phase = "running" /\ \E ui : SetControls(ui)
BY Zenon DEF Toggle, NoiseDialog, TimeDialog, WindowDialog, SetBar, ClearFilters, SetControls

LEMMA LayoutSteps ==
    ASSUME \/ \E visible \in SUBSET Indices : ColumnsDialog(visible)
           \/ DragHeader
           \/ \E w \in Widths : DragEdge(w)
    PROVE  phase = "running" /\ \E visible, order, width : SetTable(visible, order, width)
BY Zenon DEF ColumnsDialog, DragHeader, DragEdge

LEMMA PhasesKept == Phases /\ Controls /\ [Next]_vars => Phases'
<1> SUFFICES ASSUME Phases, Controls, [Next]_vars  PROVE Phases'
    OBVIOUS
<1>0. MaxChanges \in Nat /\ MaxLaunches \in Nat  BY SettingsAssumption
<1> USE <1>0 DEF Phases
<1>1. ASSUME NEW override \in BOOLEAN, Start(override)  PROVE Phases'
      BY <1>1 DEF Start
<1>2. ASSUME NEW removed \in BOOLEAN, EndProbe(removed)  PROVE Phases'
      BY <1>2 DEF EndProbe
<1>3. ASSUME NEW v, NEW history, NEW accepted, Launch(v, history, accepted)  PROVE Phases'
      <2>1. /\ phase' = "running" /\ changes' = changes /\ launches' = launches
            BY <1>3 DEF Launch
      <2>2. QED  BY <2>1
<1>4. ASSUME phase = "running", NEW ui, SetControls(ui)  PROVE Phases'
      <2>1. /\ phase' = phase /\ changes' = changes + 1 /\ changes < MaxChanges
            /\ launches' = launches
            BY <1>4 DEF SetControls
      <2>2. QED  BY <1>4, <2>1
<1>5. ASSUME phase = "running", NEW visible, NEW order, NEW width,
             SetTable(visible, order, width)
      PROVE  Phases'
      <2>1. /\ phase' = phase /\ changes' = changes + 1 /\ changes < MaxChanges
            /\ launches' = launches
            BY <1>5 DEF SetTable
      <2>2. QED  BY <1>5, <2>1
<1>6. ASSUME NEW opened \in BOOLEAN, Exit(opened)  PROVE Phases'
      <2>1. opened => kept'.torn  BY <1>6 DEF Exit, Controls, Disk
      <2>2. /\ phase' = IF opened THEN "saving" ELSE "down"
            /\ app' = IF opened THEN app ELSE NoApp
            /\ changes' = changes /\ launches' = launches
            BY <1>6 DEF Exit
      <2>3. QED  BY <2>1, <2>2
<1>7. ASSUME NEW readable \in BOOLEAN, EndSave(readable)  PROVE Phases'
      <2>1. phase' = "down" /\ app' = NoApp /\ changes' = changes /\ launches' = launches
            BY <1>7 DEF EndSave
      <2>2. QED  BY <2>1
<1>8. ASSUME Crash  PROVE Phases'
      BY <1>8 DEF Crash
<1>9. ASSUME UNCHANGED vars  PROVE Phases'
      BY <1>9 DEF vars
<1>10. ASSUME phase = "running", \E ui : SetControls(ui)  PROVE Phases'
       BY <1>4, <1>10
<1>11. ASSUME phase = "running", \E visible, order, width : SetTable(visible, order, width)
       PROVE  Phases'
       BY <1>5, <1>11
<1> HIDE DEF Phases
<1>12. QED  BY <1>1, <1>2, <1>3, <1>6, <1>7, <1>8, <1>9, <1>10, <1>11, UserSteps,
               LayoutSteps, Zenon DEF Next

\* A table the user has rearranged is still one of the version.
LEMMA RearrangedTable ==
    ASSUME NEW v \in DOMAIN Columns, NEW V \in SUBSET DOMAIN Columns[v],
           NEW order, Arranges(order, V), NEW width, DOMAIN width = DOMAIN Columns[v]
    PROVE  IsTable([visible |-> V, width |-> width, native |-> ToNative(order, V)], v)
<1>1. V \in SUBSET Int  BY AllArranges
<1>2. PICK D \in SUBSET Int : D = V  BY <1>1
<1>3. Arranges(ToNative(order, D), 1..Cardinality(D))  BY <1>2, NativeShowsOrder
<1>4. QED  BY <1>2, <1>3 DEF IsTable

\* What SetToSeqs gives are arrangements.
LEMMA SeqsArrange ==
    ASSUME NEW S, IsFiniteSet(S), NEW s \in SetToSeqs(S)
    PROVE  Arranges(s, S)
<1>1. PICK n \in Nat : n = Cardinality(S)  BY FS_CardinalityType
<1>2. s \in [1..n -> S] /\ \A i, j \in 1..n : i # j => s[i] # s[j]
      BY <1>1 DEF SetToSeqs
<1>3. s \in Seq(S)  BY <1>2
<1>4. s \in Injection(1..n, S)  BY <1>2 DEF Injection, IsInjective
<1>5. IsFiniteSet(1..n) /\ Cardinality(1..n) = n
      <2>1. Cardinality(1..n) = IF 1 > n THEN 0 ELSE n - 1 + 1  BY FS_Interval
      <2>2. QED  BY <2>1, FS_Interval
<1>6. s \in Surjection(1..n, S)  BY <1>1, <1>4, <1>5, FS_Injection
<1>7. QED  BY <1>2, <1>3, <1>6 DEF Arranges, Surjection

LEMMA RearrangeSteps ==
    ASSUME Layout,
           \/ \E visible \in SUBSET Indices : ColumnsDialog(visible)
           \/ DragHeader
           \/ \E w \in Widths : DragEdge(w)
    PROVE  \E visible, order, width :
              /\ SetTable(visible, order, width)
              /\ IsTable([visible |-> visible, width |-> width,
                          native |-> ToNative(order, visible)], app.version)
<1>1. phase = "running"  BY LayoutSteps
<1>2. app.version \in DOMAIN Columns /\ IsTable(app.table, app.version)
      BY <1>1 DEF Layout
<1>3. PICK v \in DOMAIN Columns : v = app.version  BY <1>2
<1>4. PICK t : t = app.table  OBVIOUS
<1>5. IsTable(t, v) /\ t.visible \in SUBSET DOMAIN Columns[v] /\ DOMAIN t.width = DOMAIN Columns[v]
      BY <1>2, <1>3, <1>4 DEF IsTable
<1>6. IsFiniteSet(DOMAIN Columns[v])  BY AllArranges
<1>7. \A V \in SUBSET DOMAIN Columns[v] : IsFiniteSet(V)  BY <1>6, FS_Subset
<1>8. CASE \E visible \in SUBSET Indices : ColumnsDialog(visible)
      <2>1. PICK visible, order :
               /\ visible \subseteq DOMAIN t.width /\ order \in SetToSeqs(visible)
               /\ SetTable(visible, order, t.width)
            BY <1>4, <1>8, Zenon DEF ColumnsDialog
      <2>2. visible \in SUBSET DOMAIN Columns[v]  BY <1>5, <2>1
      <2>3. Arranges(order, visible)  BY <1>7, <2>1, <2>2, SeqsArrange
      <2>4. IsTable([visible |-> visible, width |-> t.width,
                     native |-> ToNative(order, visible)], v)
            BY <1>5, <2>2, <2>3, RearrangedTable
      <2>5. QED  BY <1>3, <2>1, <2>4
<1>9. CASE DragHeader
      <2>1. PICK order :
               order \in SetToSeqs(t.visible) /\ SetTable(t.visible, order, t.width)
            BY <1>4, <1>9, Zenon DEF DragHeader
      <2>2. Arranges(order, t.visible)  BY <1>5, <1>7, <2>1, SeqsArrange
      <2>3. IsTable([visible |-> t.visible, width |-> t.width,
                     native |-> ToNative(order, t.visible)], v)
            BY <1>5, <2>2, RearrangedTable
      <2>4. QED  BY <1>3, <2>1, <2>3
<1>10. CASE \E w \in Widths : DragEdge(w)
      <2>1. PICK w, i :
               SetTable(t.visible, Displayed(t.visible, t.native), [t.width EXCEPT ![i] = w])
            BY <1>4, <1>10, Zenon DEF DragEdge
      <2>2. Arranges(Displayed(t.visible, t.native), t.visible)
            BY <1>5, TableDisplays
      <2>3. DOMAIN [t.width EXCEPT ![i] = w] = DOMAIN Columns[v]  BY <1>5
      <2>4. IsTable([visible |-> t.visible, width |-> [t.width EXCEPT ![i] = w],
                     native |-> ToNative(Displayed(t.visible, t.native), t.visible)], v)
            BY <1>5, <2>2, <2>3, RearrangedTable
      <2>5. QED  BY <1>3, <2>1, <2>4
<1>11. QED  BY <1>8, <1>9, <1>10

LEMMA LayoutKept == Controls /\ Layout /\ [Next]_vars => Layout'
<1> SUFFICES ASSUME Controls, Layout, [Next]_vars  PROVE Layout'
    OBVIOUS
<1> DEFINE Saved == kept.whole /\ ~kept.torn =>
              /\ kept.version \in DOMAIN Columns /\ kept.readable \in BOOLEAN
              /\ IsTable(kept.table, kept.version)
              /\ file.columns = ColumnStates(kept.table, kept.version)
              /\ file.order = ColumnOrder(kept.table, kept.version, kept.readable)
<1>0. Saved  BY DEF Layout
<1>1. ASSUME file' = file, kept' = kept  PROVE Saved'
      BY <1>0, <1>1
<1>2. ASSUME NEW override \in BOOLEAN, Start(override)  PROVE Layout'
      <2>1. /\ kept' = kept /\ phase' \in {"probing", "ready"}
            /\ file' = IF override /\ ~file.there THEN Broken ELSE file
            BY <1>2 DEF Start
      <2>2. kept.whole /\ ~kept.torn => file' = file  BY <2>1, Kinds DEF Controls, Disk
      <2>3. Saved'  BY <1>0, <2>1, <2>2
      <2>4. QED  BY <2>1, <2>3 DEF Layout, JustUp
<1>3. ASSUME NEW removed \in BOOLEAN, EndProbe(removed)  PROVE Layout'
      <2>1. /\ kept' = kept /\ phase' = "ready"
            /\ file' = IF fresh /\ removed THEN Absent ELSE file
            BY <1>3 DEF EndProbe
      <2>2. kept.whole /\ ~kept.torn => file' = file  BY <2>1, Kinds DEF Controls, Disk
      <2>3. Saved'  BY <1>0, <2>1, <2>2
      <2>4. QED  BY <2>1, <2>3 DEF Layout, JustUp
<1>4. ASSUME NEW v \in DOMAIN Columns, NEW history \in BOOLEAN, NEW accepted \in BOOLEAN,
             Launch(v, history, accepted)
      PROVE  Layout'
      <2> DEFINE table == ApplyColumnLayout(LoadConfig, v, accepted)
      <2>1. /\ phase' = "running" /\ file' = file /\ kept' = kept
            BY <1>4 DEF Launch
      <2>2. PICK ui, filter :
               app' = [version |-> v, history |-> history, ui |-> ui, table |-> table,
                       filter |-> filter, accepted |-> accepted, touched |-> FALSE]
            BY <1>4, Zenon DEF Launch
      <2>3. LoadConfig' = LoadConfig  BY <2>1 DEF LoadConfig
      <2>4. IsTable(table, v)
            <3>1. LoadConfig.order \in Seq(STRING)  BY LoadedUi DEF Controls, Config
            <3>2. QED  BY <3>1, LayoutApplied
      <2>5. table = ApplyColumnLayout(LoadConfig', v, accepted)  BY <2>3
      <2> HIDE DEF table
      <2>6. /\ {"version", "accepted"} \subseteq DOMAIN app'
            /\ app'.version = v /\ app'.accepted = accepted /\ app'.table = table
            BY <2>2
      <2>7. Saved'  BY <1>1, <2>1
      <2>8. app'.table = ApplyColumnLayout(LoadConfig, app.version, app.accepted)'
            BY <2>5, <2>6
      <2>9. QED  BY <2>1, <2>4, <2>6, <2>7, <2>8 DEF Layout
<1>5. ASSUME phase = "running", NEW ui, SetControls(ui)  PROVE Layout'
      <2>1. /\ file' = file /\ kept' = kept
            /\ app' = [app EXCEPT !.ui = ui, !.filter = FilterOf(ui, app.history),
                                  !.touched = TRUE]
            BY <1>5 DEF SetControls
      <2>2. /\ {"version", "accepted"} \subseteq DOMAIN app /\ "touched" \in DOMAIN app
            BY <1>5 DEF Layout, Controls, Instance
      <2>3. /\ {"version", "accepted"} \subseteq DOMAIN app' /\ app'.touched
            /\ app'.version = app.version /\ app'.accepted = app.accepted
            /\ app'.table = app.table
            BY <2>1, <2>2
      <2>4. Saved'  BY <1>1, <2>1
      <2>5. QED  BY <1>5, <2>3, <2>4 DEF Layout, JustUp
<1>6. ASSUME phase = "running", NEW visible, NEW order, NEW width,
             SetTable(visible, order, width),
             IsTable([visible |-> visible, width |-> width,
                      native |-> ToNative(order, visible)], app.version)
      PROVE  Layout'
      <2> DEFINE table == [visible |-> visible, width |-> width,
                           native |-> ToNative(order, visible)]
      <2>1. /\ file' = file /\ kept' = kept
            /\ app' = [app EXCEPT !.table = table, !.touched = TRUE]
            BY <1>6 DEF SetTable
      <2>2. /\ {"version", "accepted"} \subseteq DOMAIN app
            /\ {"touched", "table"} \subseteq DOMAIN app
            BY <1>6 DEF Layout, Controls, Instance
      <2>3. IsTable(table, app.version)  BY <1>6
      <2> HIDE DEF table
      <2>4. /\ {"version", "accepted"} \subseteq DOMAIN app' /\ app'.touched
            /\ app'.version = app.version /\ app'.accepted = app.accepted
            /\ app'.table = table
            BY <2>1, <2>2
      <2>5. Saved'  BY <1>1, <2>1
      <2>6. QED  BY <1>6, <2>3, <2>4, <2>5 DEF Layout, JustUp
<1>7. ASSUME NEW opened \in BOOLEAN, Exit(opened)  PROVE Layout'
      <2>1. CASE opened
            <3>1. /\ phase' = "saving" /\ app' = app /\ phase = "running"
                  /\ kept' = [kept EXCEPT !.torn = TRUE]
                  BY <1>7, <2>1 DEF Exit
            <3>2. kept'.torn  BY <3>1 DEF Controls, Disk
            <3>3. QED  BY <3>1, <3>2 DEF Layout, JustUp
      <2>2. CASE ~opened
            <3>1. phase' = "down" /\ kept' = kept /\ file' = file
                  BY <1>7, <2>2 DEF Exit
            <3>2. Saved'  BY <1>1, <3>1
            <3>3. QED  BY <3>1, <3>2 DEF Layout, JustUp
      <2>3. QED  BY <2>1, <2>2
<1>8. ASSUME NEW readable \in BOOLEAN, EndSave(readable)  PROVE Layout'
      <2>1. phase = "saving" /\ phase' = "down" /\ file' = Capture(readable)
            BY <1>8 DEF EndSave
      <2>2. PICK ui :
               kept' = [whole |-> TRUE, torn |-> FALSE, readable |-> readable,
                        version |-> app.version, ui |-> ui, table |-> app.table]
            BY <1>8, Zenon DEF EndSave
      <2>3. /\ app.version \in DOMAIN Columns /\ IsTable(app.table, app.version)
            /\ app.ui \in Uis
            BY <2>1 DEF Layout, Controls, Instance
      <2>4. ColumnOrder(app.table, app.version, readable) \in Seq(STRING)
            BY <2>3, SavedOrder
      <2>5. /\ file'.columns = ColumnStates(app.table, app.version)
            /\ file'.order = ColumnOrder(app.table, app.version, readable)
            BY <2>1, <2>3, <2>4, CaptureRestores
      <2>6. /\ kept'.readable = readable /\ kept'.version = app.version
            /\ kept'.table = app.table
            BY <2>2
      <2>7. Saved'  BY <2>3, <2>5, <2>6
      <2>8. QED  BY <2>1, <2>7 DEF Layout, JustUp
<1>9. ASSUME Crash  PROVE Layout'
      <2>1. phase' = "down" /\ kept' = kept /\ file' = file  BY <1>9 DEF Crash
      <2>2. Saved'  BY <1>1, <2>1
      <2>3. QED  BY <2>1, <2>2 DEF Layout, JustUp
<1>10. ASSUME UNCHANGED vars  PROVE Layout'
      <2>1. file' = file /\ phase' = phase /\ app' = app /\ kept' = kept
            BY <1>10 DEF vars
      <2>2. LoadConfig' = LoadConfig  BY <2>1 DEF LoadConfig
      <2>3. JustUp' => app'.table = ApplyColumnLayout(LoadConfig, app.version, app.accepted)'
            BY <2>1, <2>2 DEF Layout, JustUp
      <2>4. Saved'  BY <1>1, <2>1
      <2>5. QED  BY <2>1, <2>3, <2>4 DEF Layout
<1>11. ASSUME phase = "running", \E ui : SetControls(ui)  PROVE Layout'
       BY <1>5, <1>11
<1>12. ASSUME \/ \E visible \in SUBSET Indices : ColumnsDialog(visible)
              \/ DragHeader
              \/ \E w \in Widths : DragEdge(w)
       PROVE  Layout'
       <2>1. phase = "running"  BY <1>12, LayoutSteps
       <2>2. PICK visible, order, width :
               /\ SetTable(visible, order, width)
               /\ IsTable([visible |-> visible, width |-> width,
                           native |-> ToNative(order, visible)], app.version)
             BY <1>12, RearrangeSteps
       <2>3. QED  BY <1>6, <2>1, <2>2
<1>13. QED  BY <1>2, <1>3, <1>4, <1>7, <1>8, <1>9, <1>10, <1>11, <1>12, UserSteps,
               Zenon DEF Next

LEMMA Inductive == IInv /\ [Next]_vars => IInv'
BY PhasesKept, ControlsKept, LayoutKept DEF IInv

LEMMA Initial == Init => IInv
<1> SUFFICES ASSUME Init  PROVE IInv
    OBVIOUS
<1>1. MaxChanges \in Nat /\ MaxLaunches \in Nat  BY SettingsAssumption
<1>2. /\ phase = "down" /\ app = NoApp /\ kept = NoSave /\ changes = 0 /\ launches = 0
      BY DEF Init
<1>3. Phases  BY <1>1, <1>2 DEF Phases
<1>4. Layout  BY <1>2, Kinds DEF Layout, JustUp
<1>5. QED  BY <1>3, <1>4, StartsRight DEF IInv

\* The file, the instance and what was saved last fit together in every state.
THEOREM Invariant == Spec => []IInv
BY Initial, Inductive, PTL DEF Spec

-----------------------------------------------------------------------------
(* The properties.                                                         *)

\* An instance comes up with the controls of the last complete save, whatever
\* probes, crashes, failed openings, history sessions and versions lie between;
\* after a save that was cut off, and without a readable file, with the declared
\* defaults (loadConfig, restoreFilterControls, saveCurrentConfig).
THEOREM SavedControlsComeBack == Spec => []PreferencesSurvive
<1>1. IInv => PreferencesSurvive
      <2> SUFFICES ASSUME IInv, JustUp
                   PROVE  /\ kept.whole /\ ~kept.torn => Norm(app.ui) = kept.ui
                          /\ kept.torn \/ ~file.whole => Norm(app.ui) = Defaults
          BY DEF PreferencesSurvive, Norm
      <2>1. app.ui = Restore(LoadConfig)  BY DEF IInv, Controls, Instance
      <2>2. kept.whole /\ ~kept.torn => LoadConfig = file /\ Norm(Restore(file)) = kept.ui
            BY DEF IInv, Controls, Disk, LoadConfig
      <2>3. kept.torn \/ ~file.whole => LoadConfig = NoConfig
            BY Kinds DEF IInv, Controls, Disk, LoadConfig
      <2>4. Norm(Restore(NoConfig)) = Defaults  BY DefaultsRestored DEF Defaults
      <2>5. QED  BY <2>1, <2>2, <2>3, <2>4
<1>2. QED  BY <1>1, Invariant, PTL

\* For any bar, any event and any box, "Not" turns what the box selects around
\* (Filter.Matches on the filter applyFilters makes of the controls).
THEOREM NotComplements == Spec => []NegateComplements
<1>1. IInv => NegateComplements
      <2> SUFFICES ASSUME IInv, phase = "running"
                   PROVE  NegateComplements
          BY DEF NegateComplements
      <2>1. app.ui \in Uis /\ app.filter = FilterOf(app.ui, app.history)
            BY DEF IInv, Controls, Instance
      <2>2. QED  BY <2>1, NegationComplements, Zenon DEF NegateComplements
<1>2. QED  BY <1>1, Invariant, PTL

\* The disk, the instance and its table keep their shape: what the list view
\* numbers is exactly what is visible.
THEOREM TypeCorrect == Spec => []TypeOK
<1>1. IInv => TypeOK
      <2> SUFFICES ASSUME IInv  PROVE TypeOK
          OBVIOUS
      <2>1. /\ phase \in {"down", "probing", "ready", "running", "saving"}
            /\ phase = "saving" => kept.torn
            /\ phase \in {"down", "probing", "ready"} => app = NoApp
            /\ changes \in 0..MaxChanges /\ launches \in 0..MaxLaunches
            BY DEF IInv, Phases
      <2>2. file.whole => file.there  BY Kinds DEF IInv, Controls, Disk
      <2>3. /\ fresh => phase = "probing" /\ file = Broken
            /\ kept.torn => file = Broken
            BY DEF IInv, Controls, Disk
      <2>4. phase \in {"running", "saving"} => app # NoApp
            <3>1. phase \in {"running", "saving"} => "ui" \in DOMAIN app
                  BY DEF IInv, Controls, Instance
            <3>2. "ui" \notin DOMAIN NoApp  BY DEF NoApp
            <3>3. QED  BY <3>1, <3>2
      <2>5. ASSUME phase \in {"running", "saving"}
            PROVE  /\ app.ui.on \subseteq Toggles /\ app.ui.time \in TimeFormats
                   /\ app.table.visible \subseteq DOMAIN Columns[app.version]
                   /\ Len(app.table.native) = Cardinality(app.table.visible)
                   /\ ToSet(app.table.native) = 1..Cardinality(app.table.visible)
            <3>1. app.ui \in Uis  BY <2>5 DEF IInv, Controls, Instance
            <3>2. app.version \in DOMAIN Columns /\ IsTable(app.table, app.version)
                  BY <2>5 DEF IInv, Layout
            <3>3. PICK v \in DOMAIN Columns : v = app.version  BY <3>2
            <3>4. PICK t : t = app.table  OBVIOUS
            <3>5. t.visible \in SUBSET DOMAIN Columns[v]
                  /\ Arranges(t.native, 1..Cardinality(t.visible))
                  BY <3>2, <3>3, <3>4 DEF IsTable
            <3>6. Cardinality(t.visible) \in Nat
                  BY <3>5, AllArranges, FS_Subset, FS_CardinalityType
            <3>7. PICK n \in Nat : n = Cardinality(t.visible)  BY <3>6
            <3>8. Len(t.native) = n
                  <4>1. Cardinality(1..n) = IF 1 > n THEN 0 ELSE n - 1 + 1
                        BY FS_Interval
                  <4>2. Len(t.native) = Cardinality(1..n)
                        BY <3>5, <3>7, ArrangedLength
                  <4>3. QED  BY <4>1, <4>2
            <3>9. ToSet(t.native) = 1..n
                  <4>1. Arranges(t.native, 1..n)  BY <3>5, <3>7
                  <4>2. PICK m \in Nat : DOMAIN t.native = 1..m /\ t.native \in [1..m -> 1..n]
                        BY <4>1, LenProperties DEF Arranges
                  <4>3. \A k \in 1..n : \E i \in DOMAIN t.native : t.native[i] = k
                        BY <4>1 DEF Arranges
                  <4>4. \A i \in DOMAIN t.native : t.native[i] \in 1..n  BY <4>2
                  <4>5. QED  BY <4>3, <4>4 DEF ToSet
            <3>10. app.ui.on \subseteq Toggles /\ app.ui.time \in TimeFormats
                   BY <3>1 DEF Uis
            <3>11. QED  BY <3>3, <3>4, <3>5, <3>7, <3>8, <3>9, <3>10
      <2>6. QED  BY <2>1, <2>2, <2>3, <2>4, <2>5 DEF TypeOK
<1>2. QED  BY <1>1, Invariant, PTL

\* Whatever order a configuration holds, every version turns it into a permutation
\* of its own columns (columnTitlesToCompleteOrder, validColumnOrder).
THEOREM EveryOrderIsValid == Spec => []OrderAlwaysValid
<1>1. IInv => OrderAlwaysValid
      <2>1. ASSUME IInv, file.whole  PROVE file.order \in Seq(STRING)
            <3>1. Config(file)  BY <2>1, Kinds DEF IInv, Controls, Disk
            <3>2. QED  BY <3>1 DEF Config
      <2>2. QED  BY <2>1, TitlesToOrder DEF OrderAlwaysValid
<1>2. QED  BY <1>1, Invariant, PTL

\* Without anything of a layout in the file the declared one is taken.
LEMMA DefaultApplied ==
    ASSUME NEW v, NEW accepted
    PROVE  ApplyColumnLayout(NoConfig, v, accepted) = DefaultTable(v)
<1>1. DOMAIN NoConfig.columns = {} /\ NoConfig.order = <<>>  BY DEF NoConfig
<1>2. QED  BY <1>1, Zenon DEF ApplyColumnLayout

\* An instance shows the columns it shares with the one that saved last as that one
\* did: visibility, widths and relative order, or the logical order where the list
\* view told or took none; after a save that was cut off it shows the declared
\* layout (captureColumnLayout, applyColumnLayout and the translations between the
\* three numberings).
THEOREM LayoutComesBack == Spec => []LayoutSurvives
<1>1. IInv => LayoutSurvives
      <2> SUFFICES ASSUME IInv, JustUp  PROVE LayoutSurvives
          BY DEF LayoutSurvives
      <2> DEFINE Shares(v, w, t, u, accepted, readable) ==
                    /\ \A title \in Common(v, w) :
                          /\ ColumnDefIndex(v, title) \in u.visible
                                <=> ColumnDefIndex(w, title) \in t.visible
                          /\ u.width[ColumnDefIndex(v, title)] =
                                IF t.width[ColumnDefIndex(w, title)] = 0 THEN DeclaredWidth
                                ELSE t.width[ColumnDefIndex(w, title)]
                    /\ \A a, b \in {title \in Common(v, w) :
                                       ColumnDefIndex(w, title) \in t.visible} :
                          LeftOf(v, u, a, b) <=>
                             IF ~accepted
                             THEN ColumnDefIndex(v, a) < ColumnDefIndex(v, b)
                             ELSE IF readable THEN LeftOf(w, t, a, b)
                             ELSE ColumnDefIndex(w, a) < ColumnDefIndex(w, b)
      <2>1. /\ app.version \in DOMAIN Columns /\ app.accepted \in BOOLEAN
            /\ app.table = ApplyColumnLayout(LoadConfig, app.version, app.accepted)
            BY DEF IInv, Layout, JustUp
      <2>2. kept.torn \/ ~file.whole => app.table = DefaultTable(app.version)
            <3>1. kept.torn \/ ~file.whole => LoadConfig = NoConfig
                  BY Kinds DEF IInv, Controls, Disk, LoadConfig
            <3>2. QED  BY <2>1, <3>1, DefaultApplied
      <2>3. ASSUME kept.whole, ~kept.torn
            PROVE  Shares(app.version, kept.version, kept.table, app.table,
                          app.accepted, kept.readable)
            <3>1. /\ kept.version \in DOMAIN Columns /\ kept.readable \in BOOLEAN
                  /\ IsTable(kept.table, kept.version)
                  /\ file.columns = ColumnStates(kept.table, kept.version)
                  /\ file.order = ColumnOrder(kept.table, kept.version, kept.readable)
                  BY <2>3 DEF IInv, Layout
            <3>2. LoadConfig = file  BY <2>3 DEF IInv, Controls, Disk, LoadConfig
            <3>3. PICK v \in DOMAIN Columns : v = app.version  BY <2>1
            <3>4. PICK w \in DOMAIN Columns : w = kept.version  BY <3>1
            <3>5. PICK accepted \in BOOLEAN : accepted = app.accepted  BY <2>1
            <3>6. PICK readable \in BOOLEAN : readable = kept.readable  BY <3>1
            <3>7. PICK t, u : t = kept.table /\ u = app.table  OBVIOUS
            <3>8. /\ IsTable(t, w) /\ file.columns = ColumnStates(t, w)
                  /\ file.order = ColumnOrder(t, w, readable)
                  /\ u = ApplyColumnLayout(file, v, accepted)
                  BY <2>1, <3>1, <3>2, <3>3, <3>4, <3>5, <3>6, <3>7
            <3>9. Shares(v, w, t, u, accepted, readable)  BY <3>8, LayoutRestored
            <3> HIDE DEF Shares
            <3>10. QED  BY <3>3, <3>4, <3>5, <3>6, <3>7, <3>9
      <2>4. QED  BY <2>2, <2>3, Zenon DEF LayoutSurvives
<1>2. QED  BY <1>1, Invariant, PTL

=============================================================================
