----------------------------- MODULE RuleTables -----------------------------
(***************************************************************************)
(* The two snapshots events are attributed with, globalFilters             *)
(* (src/wfpfilters.go) and globalMatcher (src/rules.go): the two loads in  *)
(* the background at startup, the Reload Rules button, and the status      *)
(* message with its transient texts (src/main.go).                         *)
(*                                                                         *)
(* The machine's filters and rules are a version number; a snapshot is the *)
(* version it was taken of, 0 before the first.  A load first runs its     *)
(* command, which sees the version of that moment, and stores later what   *)
(* it parsed.                                                              *)
(***************************************************************************)
EXTENDS Integers

CONSTANTS
    MaxVersion,     \* bound: changes of the machine's filters and rules
    MaxGen          \* bound: status messages shown

ASSUME BoundsAssumption == MaxVersion \in Nat \ {0} /\ MaxGen \in Nat

VARIABLES
    machine,        \* the version of the machine's filters and rules
    table,          \* globalFilters.names and globalMatcher.rules
    loader,         \* the loading goroutines
    reloadingRules, \* app.reloadingRules
    button,         \* the button is enabled and reads "Reload Rules"
    status,         \* the status bar's text and statusRevertGen
    reverts,        \* scheduled reverts, by the generation they captured
    asked           \* machine when the last reload was asked for (history)

vars == <<machine, table, loader, reloadingRules, button, status, reverts, asked>>

Tables  == {"filters", "rules"}
Loaders == Tables \cup {"reload"}      \* a startup load is named for its table
Results == {"none", "ok", "empty", "error"}

\* What a loader is at: running a command, storing what it got, or neither.
Steps == {"query", "store", "report", "done"}

\* A load with no output in hand; failed: a command of it returned an error.
Load(step, t, failed) ==
    [step |-> step, table |-> t, got |-> 0, result |-> "none", failed |-> failed]

Init ==
    /\ machine = 1
    /\ table = [t \in Tables |-> 0]
    /\ loader = [l \in Loaders |->
                    IF l = "reload" THEN Load("done", "filters", FALSE)
                    ELSE Load("query", l, FALSE)]
    /\ reloadingRules = FALSE /\ button = TRUE
    /\ status = [text |-> "reading", gen |-> 0]
    /\ reverts = {}
    /\ asked = 0

\* The administrator, or Windows, changes filters or rules.
Edit ==
    /\ machine < MaxVersion
    /\ machine' = machine + 1
    /\ UNCHANGED <<table, loader, reloadingRules, button, status, reverts, asked>>

-----------------------------------------------------------------------------
(* FilterResolver.Load and RuleMatcher.LoadRules.  An operator named       *)
(* ...Mutant is a plausible mistake in the one after it; no specification  *)
(* uses it.                                                                *)

\* The command ends; nothing may be parsed out of what it printed.
Query(l, result) ==
    /\ loader[l].step = "query"
    /\ loader' = [loader EXCEPT ![l].step = "store", ![l].got = machine,
                                ![l].result = result,
                                ![l].failed = @ \/ result = "error"]
    /\ UNCHANGED <<machine, table, reloadingRules, button, status, reverts, asked>>

\* An error or an empty parse leaves the snapshot before in place.
Stored(l) ==
    IF loader[l].result = "ok"
    THEN [table EXCEPT ![loader[l].table] = loader[l].got] ELSE table

\* A reload goes on with the rules after the filters, whatever came of these.
Store(l) ==
    /\ loader[l].step = "store"
    /\ table' = Stored(l)
    /\ loader' = [loader EXCEPT ![l] =
          IF l # "reload" THEN Load("done", @.table, FALSE)
          ELSE Load(IF @.table = "filters" THEN "query" ELSE "report", "rules", @.failed)]
    /\ UNCHANGED <<machine, reloadingRules, button, status, reverts, asked>>

-----------------------------------------------------------------------------
(* setStatus, setStatusTransient, reloadRuleData.                          *)

SetStatus(text) ==
    /\ status.gen < MaxGen
    /\ status' = [text |-> text, gen |-> status.gen + 1]

\* Any other message: a pause, a new window size, an export.
OtherStatus(text) ==
    /\ SetStatus(text)
    /\ UNCHANGED <<machine, table, loader, reloadingRules, button, reverts, asked>>

\* (the generation captured is not looked at)
IsCurrentMutant(g) == TRUE

IsCurrent(g) == status.gen = g

\* The closure of a transient message whose delay is over.
Revert(g) ==
    /\ g \in reverts
    /\ reverts' = reverts \ {g}
    /\ IF IsCurrent(g) THEN SetStatus("reading") ELSE UNCHANGED status
    /\ UNCHANGED <<machine, table, loader, reloadingRules, button, asked>>

\* The compare-and-swap; the button is disabled meanwhile.
MayReload == button /\ ~reloadingRules

ReloadRuleData ==
    /\ MayReload
    /\ reloadingRules' = TRUE /\ button' = FALSE
    /\ SetStatus("reloading")
    /\ loader' = [loader EXCEPT !["reload"] = Load("query", "filters", FALSE)]
    /\ asked' = machine
    /\ UNCHANGED <<machine, table, reverts>>

\* (only a successful reload gives the button back)
ReleasedMutant == /\ reloadingRules' = loader["reload"].failed
                  /\ button' = ~loader["reload"].failed

\* The deferred end of the reporting closure.
Released == reloadingRules' = FALSE /\ button' = TRUE

\* (off by one; the generation of before the message)
ScheduledAheadMutant  == status'.gen + 1
ScheduledBeforeMutant == status.gen

\* setStatusTransient captures the generation its own message has bumped.
Scheduled == status'.gen

\* The closure that reports the reload.
ReportReload ==
    /\ loader["reload"].step = "report"
    /\ loader' = [loader EXCEPT !["reload"] = Load("done", "filters", FALSE)]
    /\ Released
    /\ IF loader["reload"].failed
       THEN SetStatus("failed") /\ UNCHANGED reverts
       ELSE SetStatus("reloaded") /\ reverts' = reverts \cup {Scheduled}
    /\ UNCHANGED <<machine, table, asked>>

-----------------------------------------------------------------------------
\* The bound on messages is used up.
AtBound == status.gen = MaxGen /\ UNCHANGED vars

Next ==
    \/ Edit
    \/ \E l \in Loaders, r \in Results \ {"none"} : Query(l, r)
    \/ \E l \in Loaders : Store(l)
    \/ \E text \in {"reading", "other"} : OtherStatus(text)
    \/ \E g \in 1..MaxGen : Revert(g)
    \/ ReloadRuleData
    \/ ReportReload
    \/ AtBound

Spec == Init /\ [][Next]_vars

\* The commands end, the goroutines and the message loop are scheduled.
Fairness ==
    /\ \A l \in Loaders :
          WF_vars(\E r \in Results \ {"none"} : Query(l, r)) /\ WF_vars(Store(l))
    /\ \A g \in 1..MaxGen : WF_vars(Revert(g))
    /\ WF_vars(ReportReload)

FairSpec == Spec /\ Fairness

-----------------------------------------------------------------------------
(* Properties.                                                             *)

Loads == [step : Steps, table : Tables, got : 0..machine, result : Results,
          failed : BOOLEAN]
Texts == {"reading", "reloading", "reloaded", "failed", "other"}

\* Every variable keeps its shape.
TypeOK ==
    /\ machine \in 1..MaxVersion
    /\ table \in [Tables -> 0..machine]
    /\ loader \in [Loaders -> Loads]
    /\ reloadingRules \in BOOLEAN /\ button \in BOOLEAN
    /\ status.text \in Texts /\ status.gen \in 0..MaxGen
    /\ reverts \subseteq 1..status.gen
    /\ asked \in 0..machine

\* The button is disabled exactly while a reload's goroutine or its report is
\* under way: no outcome of the two loads disables it for good.
ButtonTellsReload ==
    /\ reloadingRules <=> loader["reload"].step # "done"
    /\ button = ~reloadingRules

\* A revert overwrites only the transient text it was scheduled for.
RevertsItsOwn ==
    [][\A g \in reverts \ reverts' :
          status' # status => status.gen = g /\ status.text = "reloaded"]_vars

\* A transient text does not stay: a revert or another message replaces it.
TransientEnds ==
    (status.text = "reloaded" /\ status.gen < MaxGen) ~> status.text # "reloaded"

\* The status bar announces a reload only when both snapshots are at least as
\* new as the click, as the comment on reloadRuleData says of the result.
ReloadedIsFresh ==
    status.text = "reloaded" => \A t \in Tables : table[t] >= asked

=============================================================================
