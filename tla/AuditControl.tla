---------------------------- MODULE AuditControl ----------------------------
(***************************************************************************)
(* The audit policy of the machine and the program's hold on it: the       *)
(* startup check and its prompt, the Start/Stop button, the start of the   *)
(* event source with its fallback, the restore at exit or after a panic    *)
(* (src/main.go, src/helpers.go), and the headless --wfp=on|off of another *)
(* process (src/args.go).                                                  *)
(*                                                                         *)
(* A wfpAuditState is the set of what is audited.  auditpol, an external   *)
(* program, is run once per step, so that another process may change the   *)
(* policy between two calls; any call may fail.  A launch may follow the   *)
(* end of the process before.                                              *)
(***************************************************************************)
EXTENDS Integers

CONSTANT MaxLaunches    \* bound: how often the program is launched

ASSUME LaunchesAssumption == MaxLaunches \in Nat \ {0}

VARIABLES
    policy,             \* the machine's WFP connection audit policy
    pc,                 \* where the UI goroutine is
    flags,              \* historyMode, forcePowerShell, noFallback
    auditingOn,         \* app.auditingOn; the button reads "Stop"
    auditEnabledByUs,   \* app.auditEnabledByUs
    prior,              \* app.priorAuditState
    restoreOnExit,      \* app.restoreOnExit
    seen,               \* enableWFPAuditing's local: the policy it read
    source,             \* app.eventSource: what it subscribes or polls with
    status,             \* activeSourceKind and sourceRunning
    sourceBar,          \* the two as last written to the status bar
    launches,           \* launches so far
    history             \* of this launch, for the properties only

app  == <<auditingOn, auditEnabledByUs, prior, restoreOnExit, seen>>
src  == <<source, status, sourceBar>>
vars == <<policy, pc, flags, app, src, launches, history>>

Full    == {"success", "failure"}
Flags   == {f \in [history : BOOLEAN, force : BOOLEAN, noFallback : BOOLEAN] :
               ~(f.force /\ f.noFallback)}      \* rejected by the CLI
Kinds   == {"none", "EvtSubscribe", "PowerShell", "History"}
Statuses == [kind : Kinds, running : BOOLEAN]
Alive   == pc # "gone"

\* Of the present launch: the user stopped auditing; other processes turned the
\* policy on or off; the startup check misread it; a read before an enable did; the
\* restore failed; the policy found at launch; how the process ended.
Histories == [stopped : BOOLEAN, foreign : SUBSET {"on", "off"},
              unchecked : BOOLEAN, misread : BOOLEAN, unrestored : BOOLEAN,
              launch : SUBSET Full, end : {"none", "exit", "panic", "kill"}]

\* A launch that has done nothing yet.
Fresh == [stopped |-> FALSE, foreign |-> {}, unchecked |-> FALSE, misread |-> FALSE,
          unrestored |-> FALSE, launch |-> policy, end |-> "none"]

Init ==
    /\ policy \in SUBSET Full
    /\ pc = "gone" /\ launches = 0 /\ flags \in Flags
    /\ auditingOn = FALSE /\ auditEnabledByUs = FALSE /\ restoreOnExit = FALSE
    /\ prior = {} /\ seen = {}
    /\ source = "none" /\ status = [kind |-> "none", running |-> FALSE]
    /\ sourceBar = status
    /\ history = Fresh

\* A new process, up to the first closure of its message loop.
Launch ==
    /\ ~Alive /\ launches < MaxLaunches
    /\ launches' = launches + 1
    /\ flags' \in Flags
    /\ pc' = "startup"
    /\ auditingOn' = FALSE /\ auditEnabledByUs' = FALSE /\ restoreOnExit' = FALSE
    /\ prior' = {} /\ seen' = {}
    /\ source' = "none" /\ status' = [kind |-> "none", running |-> FALSE]
    /\ sourceBar' = status'
    /\ history' = Fresh
    /\ UNCHANGED policy

-----------------------------------------------------------------------------
(* auditpol.  An operator named ...Mutant is a plausible mistake in the one *)
(* after it; no specification uses it.                                     *)

\* readWFPAuditState: a failed read looks like a policy that is off.
Reads == {policy, {}}

\* enableWFPAuditing's read, which does not look at the error.
ReadPrior ==
    \E s \in Reads : /\ seen' = s
                     /\ history' = [history EXCEPT !.misread = @ \/ s # policy]

Set(s) == policy' = s

-----------------------------------------------------------------------------
(* checkAndPromptLogging.                                                  *)

\* No elevation: a message, and the window is closed.
NotElevated ==
    /\ pc = "startup"
    /\ pc' = "closing"
    /\ UNCHANGED <<policy, flags, app, src, launches, history>>

\* History mode reads the log once and leaves the policy alone.
StartHistory ==
    /\ pc = "startup" /\ flags.history
    /\ pc' = "idle" /\ source' = "History"
    /\ UNCHANGED <<policy, flags, app, status, sourceBar, launches, history>>

CheckPolicy ==
    /\ pc = "startup" /\ ~flags.history
    /\ \E s \in Reads :
          /\ history' = [history EXCEPT !.unchecked = (s # policy)]
          /\ pc' = IF s = Full THEN "starting" ELSE "prompt"
          /\ auditingOn' = (s = Full)
    /\ UNCHANGED <<policy, flags, auditEnabledByUs, prior, restoreOnExit, seen,
                   src, launches>>

\* The prompt is answered; to enable is to read the policy, then to set it.
Answer(enable, restore) ==
    /\ pc = "prompt"
    /\ restoreOnExit' = restore
    /\ IF enable
       THEN ReadPrior /\ pc' = "enablingAtStart"
       ELSE pc' = "starting" /\ UNCHANGED <<seen, history>>
    /\ UNCHANGED <<policy, flags, auditingOn, auditEnabledByUs, prior, src, launches>>

\* (the policy read is not kept)
EnableAtStartMutant(ok) ==
    /\ pc = "enablingAtStart"
    /\ IF ok
       THEN Set(Full) /\ auditEnabledByUs' = TRUE /\ auditingOn' = TRUE
       ELSE UNCHANGED <<policy, auditEnabledByUs, auditingOn>>
    /\ pc' = "starting"
    /\ UNCHANGED <<flags, restoreOnExit, prior, seen, src, launches, history>>

\* The app goes on whether auditpol set the policy or not.
EnableAtStart(ok) ==
    /\ pc = "enablingAtStart"
    /\ IF ok
       THEN /\ Set(Full)
            /\ auditEnabledByUs' = TRUE /\ auditingOn' = TRUE /\ prior' = seen
       ELSE UNCHANGED <<policy, auditEnabledByUs, auditingOn, prior>>
    /\ pc' = "starting"
    /\ UNCHANGED <<flags, restoreOnExit, seen, src, launches, history>>

-----------------------------------------------------------------------------
(* startEventSource.                                                       *)

\* (the status bar is not refreshed)
SourceStartedMutant(k) ==
    /\ source' = k
    /\ status' = [kind |-> k, running |-> TRUE]
    /\ UNCHANGED sourceBar

SourceStarted(k) ==
    /\ source' = k
    /\ status' = [kind |-> k, running |-> TRUE]
    /\ sourceBar' = status'

\* (no return after the fatal error)
StartEventSourceMutant(k) ==
    /\ pc = "starting"
    /\ k = "PowerShell" \/ (k = "EvtSubscribe" /\ ~flags.force)
    /\ SourceStarted(k)
    /\ pc' = "idle"
    /\ UNCHANGED <<policy, flags, app, launches, history>>

\* EvtSubscribe, or the poller when forced, or when EvtSubscribe fails.
StartEventSource(k) ==
    /\ pc = "starting"
    /\ \/ k = "EvtSubscribe" /\ ~flags.force
       \/ k = "PowerShell" /\ ~flags.noFallback
    /\ SourceStarted(k)
    /\ pc' = "idle"
    /\ UNCHANGED <<policy, flags, app, launches, history>>

\* EvtSubscribe fails with --no-fallback: a message, and the window is closed.
FatalEventSourceError ==
    /\ pc = "starting" /\ flags.noFallback
    /\ source' = "none" /\ status' = [kind |-> "none", running |-> FALSE]
    /\ pc' = "closing"
    /\ UNCHANGED <<policy, flags, app, sourceBar, launches, history>>

-----------------------------------------------------------------------------
(* onStartStopAuditing.                                                    *)

MayToggle == pc = "idle" /\ ~flags.history

\* (the state is updated before auditpol's error is looked at)
StopAuditingMutant(ok) ==
    /\ MayToggle /\ auditingOn
    /\ IF ok THEN Set({}) ELSE UNCHANGED policy
    /\ auditingOn' = FALSE /\ auditEnabledByUs' = FALSE
    /\ status' = [status EXCEPT !.running = FALSE] /\ sourceBar' = status'
    /\ history' = [history EXCEPT !.stopped = TRUE]
    /\ UNCHANGED <<pc, flags, prior, restoreOnExit, seen, source, launches>>

\* Stop turns auditing off and leaves the source as it is.
StopAuditing(ok) ==
    /\ MayToggle /\ auditingOn
    /\ IF ok
       THEN /\ Set({})
            /\ auditingOn' = FALSE /\ auditEnabledByUs' = FALSE
            /\ status' = [status EXCEPT !.running = FALSE] /\ sourceBar' = status'
            /\ history' = [history EXCEPT !.stopped = TRUE]
       ELSE UNCHANGED <<policy, auditingOn, auditEnabledByUs, status, sourceBar, history>>
    /\ UNCHANGED <<pc, flags, prior, restoreOnExit, seen, source, launches>>

StartAuditing ==
    /\ MayToggle /\ ~auditingOn
    /\ ReadPrior
    /\ pc' = "enabling"
    /\ UNCHANGED <<policy, flags, auditingOn, auditEnabledByUs, prior,
                   restoreOnExit, src, launches>>

Enable(ok) ==
    /\ pc = "enabling"
    /\ IF ok
       THEN /\ Set(Full)
            /\ auditingOn' = TRUE /\ auditEnabledByUs' = TRUE
            /\ prior' = IF auditEnabledByUs THEN prior ELSE seen
            /\ pc' = "starting"
       ELSE pc' = "idle" /\ UNCHANGED <<policy, auditingOn, auditEnabledByUs, prior>>
    /\ UNCHANGED <<flags, restoreOnExit, seen, src, launches, history>>

-----------------------------------------------------------------------------
(* The end of the process.                                                 *)

RestoreMutant == Set({})

\* restoreWFPAuditing
Restore == Set(prior)

\* The process ends, after a best-effort restore if one is due.
End(how, due) ==
    /\ pc' = "gone"
    /\ \/ /\ due /\ Restore
          /\ history' = [history EXCEPT !.end = how]
       \/ /\ due /\ UNCHANGED policy
          /\ history' = [history EXCEPT !.end = how, !.unrestored = TRUE]
       \/ /\ ~due /\ UNCHANGED policy
          /\ history' = [history EXCEPT !.end = how]
    /\ source' = "none"
    /\ UNCHANGED <<flags, app, status, sourceBar, launches>>

OnExit == pc \in {"idle", "closing"} /\ End("exit", restoreOnExit /\ auditEnabledByUs)

\* main's recover restores whether the user asked for it or not.
Panic == pc \in {"idle", "starting"} /\ End("panic", auditEnabledByUs)

\* Terminated from outside, or a panic in another goroutine.
Kill == Alive /\ End("kill", FALSE)

\* Another process runs --wfp=on or --wfp=off.
RunWFPSet(s) ==
    /\ Set(s)
    /\ history' = [history EXCEPT !.foreign =
                       @ \cup (IF s = policy THEN {} ELSE IF s = Full THEN {"on"} ELSE {"off"})]
    /\ UNCHANGED <<pc, flags, app, src, launches>>

-----------------------------------------------------------------------------
Next ==
    \/ Launch
    \/ NotElevated \/ StartHistory \/ CheckPolicy
    \/ \E enable, restore \in BOOLEAN : Answer(enable, restore)
    \/ \E ok \in BOOLEAN : EnableAtStart(ok) \/ StopAuditing(ok) \/ Enable(ok)
    \/ StartAuditing
    \/ \E k \in Kinds : StartEventSource(k)
    \/ FatalEventSourceError
    \/ OnExit \/ Panic \/ Kill
    \/ \E s \in {Full, {}} : RunWFPSet(s)

Spec == Init /\ [][Next]_vars

-----------------------------------------------------------------------------
(* Properties.                                                             *)

\* What app.eventSource may be by the command line: --no-fallback never polls,
\* --powershell always does, --history only reads.
AllowedSources ==
    {k \in Kinds : /\ k = "History" => flags.history
                   /\ k \in {"EvtSubscribe", "PowerShell"} => ~flags.history
                   /\ k = "EvtSubscribe" => ~flags.force
                   /\ k = "PowerShell" => ~flags.noFallback}

\* Every variable keeps its shape, and the source is one the command line allows.
TypeOK ==
    /\ policy \subseteq Full /\ prior \subseteq Full /\ seen \subseteq Full
    /\ pc \in {"gone", "startup", "prompt", "enablingAtStart", "starting", "idle",
               "enabling", "closing"}
    /\ flags \in Flags
    /\ auditingOn \in BOOLEAN /\ auditEnabledByUs \in BOOLEAN
    /\ restoreOnExit \in BOOLEAN
    /\ source \in AllowedSources /\ status \in Statuses /\ sourceBar \in Statuses
    /\ launches \in 0..MaxLaunches
    /\ history \in Histories

\* A user who asked for the restore, and never pressed Stop, finds the policy
\* of before the launch again after the window is closed or main recovers from
\* a panic, however the prompt, failed enables, a later Start and a fatal
\* source error came in between.  It differs in two ways only: all off, when the
\* read before an enable failed and was taken for "off", and still on, when the
\* restore itself failed.  Nothing is said once another process has intervened.
RestoredAtEnd ==
    (/\ \/ history.end = "panic"
        \/ history.end = "exit" /\ (restoreOnExit \/ ~auditEnabledByUs)
     /\ history.foreign = {} /\ ~history.stopped)
        => \/ policy = history.launch
           \/ history.misread /\ policy = {}
           \/ history.unrestored /\ policy = Full

\* What was audited at launch is audited all through and after the launch: no
\* failed startup check, prompt, enable, exit, panic, kill or restore turns it
\* off, also when another process turns auditing on in between.  Only Stop does
\* (also later, see PriorIsOriginal), another process, or the restore of a policy
\* that could not be read.
LaunchPolicyKept ==
    "off" \notin history.foreign /\ ~history.stopped /\ ~history.misread
        => history.launch \subseteq policy

\* When the button can be pressed and says Stop, auditing is fully on, unless
\* another process turned it off; when it says Start, it is not, unless another
\* process turned it on or the startup check could not read it.  Failed enables
\* and disables leave the two in step.
ButtonTellsPolicy ==
    pc = "idle" /\ ~flags.history =>
        /\ auditingOn /\ "off" \notin history.foreign => policy = Full
        /\ policy = Full /\ "on" \notin history.foreign /\ ~history.unchecked
               => auditingOn

\* With auditing on and the window usable, an event source is running and the
\* status bar names it.
SourceFollowsAuditing ==
    pc = "idle" /\ auditingOn
        => /\ source \in {"EvtSubscribe", "PowerShell"}
           /\ sourceBar = [kind |-> source, running |-> TRUE]

\* What the exit will restore is the policy of before the launch: a Stop/Start
\* cycle does not overwrite it with one the app produced, as the comments of
\* onStartStopAuditing say.
PriorIsOriginal ==
    restoreOnExit /\ auditEnabledByUs /\ history.foreign = {} /\ ~history.misread
        => prior = history.launch

=============================================================================
