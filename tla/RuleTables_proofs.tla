------------------------- MODULE RuleTables_proofs -------------------------
(***************************************************************************)
(* The safety properties of RuleTables for any number of versions and      *)
(* status messages: the reload button follows the reload, and a late       *)
(* revert never overwrites a message that is not its own.                  *)
(***************************************************************************)
EXTENDS RuleTables, TLAPS

\* A transient text still shown is the one its pending revert was scheduled for.
RevertsMatch == \A g \in reverts : g = status.gen => status.text = "reloaded"

\* No reload overlaps another: the button's state and the flag agree with it.
IInv == TypeOK /\ ButtonTellsReload /\ RevertsMatch

-----------------------------------------------------------------------------
\* What a status message does to the status bar.
LEMMA StatusSet ==
    ASSUME TypeOK, NEW text \in Texts, SetStatus(text)
    PROVE  /\ status'.text = text /\ status'.text \in Texts
           /\ status'.gen = status.gen + 1 /\ status'.gen \in 0..MaxGen
BY BoundsAssumption DEF SetStatus, TypeOK

\* What a loader may be given is of the loaders' type.
LEMMA LoadType ==
    ASSUME TypeOK
    PROVE  \A s \in Steps, t \in Tables, f \in BOOLEAN : Load(s, t, f) \in Loads
BY BoundsAssumption DEF TypeOK, Load, Loads, Results

\* Storing goes on to the next load of a reload, or ends the loader.
LEMMA StoreType ==
    ASSUME TypeOK, NEW l \in Loaders, Store(l)
    PROVE  loader' \in [Loaders -> Loads]
<1>1. loader[l].table \in Tables /\ loader[l].failed \in BOOLEAN
      BY DEF TypeOK, Loads
<1>2. CASE l # "reload"
      <2>1. loader' = [loader EXCEPT ![l] = Load("done", loader[l].table, FALSE)]
            BY <1>2 DEF Store
      <2>2. QED  BY <1>1, <2>1, LoadType DEF TypeOK, Steps
<1>3. CASE l = "reload"
      <2>1. \E s \in {"query", "report"} :
               loader' = [loader EXCEPT ![l] = Load(s, "rules", loader[l].failed)]
            BY <1>3 DEF Store
      <2>2. QED  BY <1>1, <2>1, LoadType DEF TypeOK, Steps, Tables
<1>4. QED  BY <1>2, <1>3

\* The types of what the loaders hold, at either end of a step of theirs.
LEMMA TypeStep ==
    ASSUME TypeOK, Next
    PROVE  TypeOK'
<1> USE DEF TypeOK
<1>1. CASE Edit
      <2>1. machine' \in 1..MaxVersion /\ machine' = machine + 1
            BY <1>1, BoundsAssumption DEF Edit
      <2>2. 0..machine \subseteq 0..machine'  BY <2>1
      <2>3. Loads \subseteq Loads'  BY <2>2 DEF Loads
      <2>4. QED  BY <1>1, <2>1, <2>2, <2>3 DEF Edit
<1>2. ASSUME NEW l \in Loaders, NEW r \in Results \ {"none"}, Query(l, r)
      PROVE  TypeOK'
      <2>1. loader' = [loader EXCEPT ![l] =
               [loader[l] EXCEPT !.step = "store", !.got = machine, !.result = r,
                                 !.failed = loader[l].failed \/ r = "error"]]
            BY <1>2 DEF Query
      <2>2. loader[l] \in Loads /\ machine \in 0..machine /\ "store" \in Steps
            BY BoundsAssumption DEF Steps
      <2>3. loader' \in [Loaders -> Loads]
            BY <2>1, <2>2 DEF Loads
      <2>4. QED  BY <1>2, <2>3 DEF Query, Loads
<1>3. ASSUME NEW l \in Loaders, Store(l)  PROVE TypeOK'
      <2>1. table' \in [Tables -> 0..machine]
            BY <1>3 DEF Store, Stored, Loads
      <2>2. QED  BY <1>3, <2>1, StoreType DEF Store, Loads
<1>4. ASSUME NEW text \in {"reading", "other"}, OtherStatus(text)  PROVE TypeOK'
      <2>1. text \in Texts  BY DEF Texts
      <2>2. QED  BY <1>4, <2>1, StatusSet DEF OtherStatus, Loads
<1>5. ASSUME NEW g \in 1..MaxGen, Revert(g)  PROVE TypeOK'
      <2>1. "reading" \in Texts  BY DEF Texts
      <2>2. status'.text \in Texts /\ status'.gen \in 0..MaxGen
            /\ status'.gen >= status.gen
            BY <1>5, <2>1, StatusSet DEF Revert
      <2>3. reverts' \subseteq 1..status'.gen
            BY <1>5, <2>2 DEF Revert
      <2>4. QED  BY <1>5, <2>2, <2>3 DEF Revert, Loads
<1>6. CASE ReloadRuleData
      <2>1. "reloading" \in Texts  BY DEF Texts
      <2>2. /\ status'.text \in Texts /\ status'.gen \in 0..MaxGen
            /\ status'.gen = status.gen + 1
            BY <1>6, <2>1, StatusSet DEF ReloadRuleData
      <2>3. loader' \in [Loaders -> Loads]
            <3>1. Load("query", "filters", FALSE) \in Loads
                  BY LoadType DEF Steps, Tables
            <3>2. QED  BY <1>6, <3>1 DEF ReloadRuleData
      <2>4. machine \in 0..machine  BY BoundsAssumption
      <2>5. reverts' \subseteq 1..status'.gen
            BY <1>6, <2>2 DEF ReloadRuleData
      <2>6. QED  BY <1>6, <2>2, <2>3, <2>4, <2>5 DEF ReloadRuleData, Loads
<1>7. CASE ReportReload
      <2>1. loader' \in [Loaders -> Loads]
            <3>1. Load("done", "filters", FALSE) \in Loads
                  BY LoadType DEF Steps, Tables
            <3>2. QED  BY <1>7, <3>1 DEF ReportReload
      <2>2. "failed" \in Texts /\ "reloaded" \in Texts  BY DEF Texts
      <2>3. /\ status'.text \in Texts /\ status'.gen \in 0..MaxGen
            /\ status'.gen = status.gen + 1
            BY <1>7, <2>2, StatusSet DEF ReportReload
      <2>4. reverts' \subseteq reverts \cup {status'.gen}
            BY <1>7 DEF ReportReload, Scheduled
      <2>5. reverts' \subseteq 1..status'.gen
            BY <2>3, <2>4
      <2>6. QED  BY <1>7, <2>1, <2>3, <2>5 DEF ReportReload, Released, Loads
<1>8. CASE AtBound  BY <1>8 DEF AtBound, vars, Loads
<1>9. QED  BY <1>1, <1>2, <1>3, <1>4, <1>5, <1>6, <1>7, <1>8 DEF Next

\* A reload begins with the button and ends by giving it back.
LEMMA ButtonStep ==
    ASSUME TypeOK, ButtonTellsReload, Next
    PROVE  ButtonTellsReload'
<1> USE DEF TypeOK, ButtonTellsReload, Loaders, Loads
<1>1. CASE Edit  BY <1>1 DEF Edit
<1>2. ASSUME NEW l \in Loaders, NEW r \in Results \ {"none"}, Query(l, r)
      PROVE  ButtonTellsReload'
      BY <1>2 DEF Query
<1>3. ASSUME NEW l \in Loaders, Store(l)  PROVE ButtonTellsReload'
      BY <1>3 DEF Store, Load
<1>4. ASSUME NEW text \in {"reading", "other"}, OtherStatus(text)
      PROVE  ButtonTellsReload'
      BY <1>4 DEF OtherStatus
<1>5. ASSUME NEW g \in 1..MaxGen, Revert(g)  PROVE ButtonTellsReload'
      BY <1>5 DEF Revert
<1>6. CASE ReloadRuleData  BY <1>6 DEF ReloadRuleData, Load
<1>7. CASE ReportReload  BY <1>7 DEF ReportReload, Released, Load
<1>8. CASE AtBound  BY <1>8 DEF AtBound, vars
<1>9. QED  BY <1>1, <1>2, <1>3, <1>4, <1>5, <1>6, <1>7, <1>8 DEF Next

\* Every message but the transient one has a generation no revert has captured.
LEMMA RevertsStep ==
    ASSUME TypeOK, RevertsMatch, Next
    PROVE  RevertsMatch'
<1> USE DEF RevertsMatch, TypeOK
<1>1. CASE Edit  BY <1>1 DEF Edit
<1>2. ASSUME NEW l \in Loaders, NEW r \in Results \ {"none"}, Query(l, r)
      PROVE  RevertsMatch'
      BY <1>2 DEF Query
<1>3. ASSUME NEW l \in Loaders, Store(l)  PROVE RevertsMatch'  BY <1>3 DEF Store
<1>4. ASSUME NEW text \in {"reading", "other"}, OtherStatus(text)  PROVE RevertsMatch'
      BY <1>4 DEF OtherStatus, SetStatus
<1>5. ASSUME NEW g \in 1..MaxGen, Revert(g)  PROVE RevertsMatch'
      BY <1>5 DEF Revert, SetStatus
<1>6. CASE ReloadRuleData  BY <1>6 DEF ReloadRuleData, SetStatus
<1>7. CASE ReportReload  BY <1>7 DEF ReportReload, Scheduled, SetStatus
<1>8. CASE AtBound  BY <1>8 DEF AtBound, vars
<1>9. QED  BY <1>1, <1>2, <1>3, <1>4, <1>5, <1>6, <1>7, <1>8 DEF Next

\* A step that uses up a revert and changes the text runs that revert's closure.
LEMMA RevertStep ==
    ASSUME IInv, Next, NEW g \in reverts \ reverts', status' # status
    PROVE  status.gen = g /\ status.text = "reloaded"
<1> USE DEF IInv, TypeOK
<1>1. PICK h \in 1..MaxGen : Revert(h)
      BY DEF Next, Edit, Query, Store, OtherStatus, ReloadRuleData, ReportReload, AtBound,
             vars
<1>2. g = h /\ IsCurrent(h)  BY <1>1 DEF Revert
<1>3. QED  BY <1>2 DEF IsCurrent, RevertsMatch

-----------------------------------------------------------------------------
\* The inductive invariant holds in every reachable state.
THEOREM Invariant == Spec => []IInv
<1>1. Init => IInv
      <2> SUFFICES ASSUME Init PROVE IInv  OBVIOUS
      <2>1. 0..1 = {0, 1} /\ 0..0 = {0} /\ 1..0 = {}  OBVIOUS
      <2>2. \A l \in Loaders : loader[l] \in Loads
            BY <2>1 DEF Init, Load, Loads, Loaders, Tables, Results, Steps
      <2>3. loader \in [Loaders -> Loads]
            BY <2>2 DEF Init
      <2>4. table \in [Tables -> 0..machine] /\ reverts \subseteq 1..status.gen
            BY DEF Init
      <2>5. TypeOK
            <3>1. machine \in 1..MaxVersion /\ status.gen \in 0..MaxGen /\ asked \in 0..machine
                  BY BoundsAssumption DEF Init
            <3>2. status.text \in Texts  BY DEF Init, Texts
            <3>3. reloadingRules \in BOOLEAN /\ button \in BOOLEAN  BY DEF Init
            <3>4. QED  BY <2>3, <2>4, <3>1, <3>2, <3>3 DEF TypeOK
      <2>6. ButtonTellsReload
            BY DEF Init, ButtonTellsReload, Load, Loaders
      <2>7. RevertsMatch  BY DEF Init, RevertsMatch
      <2>8. QED  BY <2>5, <2>6, <2>7 DEF IInv
<1>2. IInv /\ [Next]_vars => IInv'
      <2>1. CASE Next  BY <2>1, TypeStep, ButtonStep, RevertsStep DEF IInv
      <2>2. CASE UNCHANGED vars
            BY <2>2 DEF vars, IInv, TypeOK, ButtonTellsReload, RevertsMatch, Loads
      <2>3. QED  BY <2>1, <2>2
<1>3. QED  BY <1>1, <1>2, PTL DEF Spec

\* Every variable keeps its shape; no snapshot is of a version yet to come.
THEOREM TypeCorrect == Spec => []TypeOK
<1>1. IInv => TypeOK  BY DEF IInv
<1>2. QED  BY <1>1, Invariant, PTL

\* The reload button is enabled exactly when no reload is under way, whatever
\* its commands return.
THEOREM ButtonComesBack == Spec => []ButtonTellsReload
<1>1. IInv => ButtonTellsReload  BY DEF IInv
<1>2. QED  BY <1>1, Invariant, PTL

\* A late revert overwrites nothing but the transient text it belongs to.
THEOREM RevertIsHarmless == Spec => RevertsItsOwn
<1>1. IInv /\ [Next]_vars
        => [\A g \in reverts \ reverts' :
              status' # status => status.gen = g /\ status.text = "reloaded"]_vars
      BY RevertStep
<1>2. QED  BY <1>1, Invariant, PTL DEF Spec, RevertsItsOwn
=============================================================================
