------------------------ MODULE AuditControl_proofs ------------------------
(***************************************************************************)
(* The safety invariants of AuditControl for any number of launches.  None *)
(* is inductive alone: what the restore gives back, and what the button    *)
(* says, rest on what was read before auditpol was last called.            *)
(***************************************************************************)
EXTENDS AuditControl, TLAPS

Deciding == {"prompt", "enablingAtStart", "enabling"}

\* A running process has not ended yet.
NotEnded == Alive => history.end = "none"

\* Only an enabled policy is the app's own, and none is before it is enabled.
Owned == /\ auditEnabledByUs => auditingOn
         /\ pc \in Deciding \cup {"startup"} => ~auditingOn

\* History mode neither asks nor starts a live source.
Modes == pc \in Deciding \cup {"starting"} => ~flags.history

\* What was read before the policy is set is still the case, or was misread.
ReadHolds ==
    history.foreign = {} /\ pc \in {"enablingAtStart", "enabling"}
        => seen = policy \/ (history.misread /\ seen = {})

\* Up to the first Stop the policy of before the launch is in force, or kept.
Tracked ==
    Alive /\ history.foreign = {} /\ ~history.stopped
        => IF auditEnabledByUs
           THEN prior = history.launch \/ (history.misread /\ prior = {})
           ELSE policy = history.launch

\* What was audited at launch is in what was read, and in what will be restored.
KeptWhole ==
    "off" \notin history.foreign /\ ~history.stopped /\ ~history.misread
        => /\ pc \in {"enablingAtStart", "enabling"} => history.launch \subseteq seen
           /\ auditEnabledByUs => history.launch \subseteq prior

\* A button that says Stop is right at any time,
StopHolds ==
    Alive /\ auditingOn /\ "off" \notin history.foreign => policy = Full

\* and one that says Start from the startup check on.
StartHolds ==
    /\ pc \in Deciding \cup {"starting", "idle"} /\ ~flags.history
    /\ policy = Full /\ "on" \notin history.foreign /\ ~history.unchecked
    => auditingOn

IInv == /\ TypeOK /\ NotEnded /\ Owned /\ Modes /\ ReadHolds /\ Tracked /\ KeptWhole
        /\ StopHolds /\ StartHolds
        /\ LaunchPolicyKept /\ SourceFollowsAuditing /\ RestoredAtEnd

-----------------------------------------------------------------------------
\* The types alone, and what the command line allows.
Shapes ==
    /\ policy \subseteq Full /\ prior \subseteq Full /\ seen \subseteq Full
    /\ pc \in {"gone", "startup", "prompt", "enablingAtStart", "starting", "idle",
               "enabling", "closing"}
    /\ flags \in Flags
    /\ auditingOn \in BOOLEAN /\ auditEnabledByUs \in BOOLEAN
    /\ restoreOnExit \in BOOLEAN
    /\ source \in Kinds /\ status \in Statuses /\ sourceBar \in Statuses
    /\ launches \in 0..MaxLaunches
    /\ history \in Histories

LEMMA TypeParts == TypeOK <=> Shapes /\ source \in AllowedSources
BY DEF TypeOK, Shapes, AllowedSources

\* The read that enableWFPAuditing starts with.
LEMMA PriorRead ==
    ASSUME Shapes, ReadPrior
    PROVE  /\ seen' \subseteq Full /\ history' \in Histories
           /\ seen' = policy \/ (history'.misread /\ seen' = {})
           /\ history.misread => history'.misread
           /\ history' = [history EXCEPT !.misread = history'.misread]
<1>1. PICK s \in Reads :
          seen' = s /\ history' = [history EXCEPT !.misread = history.misread \/ s # policy]
      BY DEF ReadPrior
<1>2. (history.misread \/ s # policy) \in BOOLEAN  OBVIOUS
<1>3. history \in Histories /\ policy \subseteq Full  BY DEF Shapes
<1>4. history' \in Histories  BY <1>1, <1>2, <1>3 DEF Histories
<1>5. history'.misread = (history.misread \/ s # policy)
      BY <1>1, <1>3 DEF Histories
<1>6. QED  BY <1>1, <1>3, <1>4, <1>5 DEF Reads

\* Every step keeps the declared types.
LEMMA ShapeStep ==
    ASSUME Shapes, Next
    PROVE  Shapes'
<1> USE DEF Shapes, app, src, Histories, Statuses, Kinds
<1>1. ASSUME Launch PROVE Shapes'
      <2>1. history' \in Histories
            BY <1>1 DEF Launch, Fresh
      <2>2. launches' \in 0..MaxLaunches
            BY <1>1, LaunchesAssumption DEF Launch
      <2>3. /\ status' \in Statuses /\ sourceBar' \in Statuses
            /\ source' \in Kinds
            BY <1>1 DEF Launch
      <2>4. QED  BY <1>1, <2>1, <2>2, <2>3 DEF Launch
<1>2. ASSUME NotElevated PROVE Shapes'  BY <1>2 DEF NotElevated
<1>3. ASSUME StartHistory PROVE Shapes'  BY <1>3 DEF StartHistory
<1>4. ASSUME CheckPolicy PROVE Shapes'
      <2>1. PICK s \in Reads : history' = [history EXCEPT !.unchecked = (s # policy)]
            BY <1>4 DEF CheckPolicy
      <2>2. (s # policy) \in BOOLEAN  OBVIOUS
      <2>3. history' \in Histories  BY <2>1, <2>2
      <2>4. QED  BY <1>4, <2>3 DEF CheckPolicy
<1>5. ASSUME NEW e \in BOOLEAN, NEW r \in BOOLEAN, Answer(e, r) PROVE Shapes'
      <2>1. CASE e  BY <1>5, <2>1, PriorRead DEF Answer
      <2>2. CASE ~e  BY <1>5, <2>2 DEF Answer
      <2>3. QED  BY <2>1, <2>2
<1>6. ASSUME NEW ok \in BOOLEAN, EnableAtStart(ok) PROVE Shapes'
      <2>1. CASE ok
            <3>1. policy' \subseteq Full
                  BY <1>6, <2>1 DEF EnableAtStart, Set
            <3>2. history' \in Histories
                  BY <1>6, <2>1 DEF EnableAtStart, Set
            <3>3. QED  BY <1>6, <2>1, <3>1, <3>2 DEF EnableAtStart, Set
      <2>2. CASE ~ok  BY <1>6, <2>2 DEF EnableAtStart, Set
      <2>3. QED  BY <2>1, <2>2
<1>7. ASSUME NEW ok \in BOOLEAN, StopAuditing(ok) PROVE Shapes'
      <2>1. CASE ok
            <3>1. policy' \subseteq Full /\ history' \in Histories
                  BY <1>7, <2>1 DEF StopAuditing, Set
            <3>2. status' \in Statuses /\ sourceBar' \in Statuses
                  <4>1. /\ status' = [status EXCEPT !.running = FALSE]
                        /\ sourceBar' = status'
                        BY <1>7, <2>1 DEF StopAuditing
                  <4>2. [status EXCEPT !.running = FALSE]
                     \in Statuses  OBVIOUS
                  <4>3. QED  BY <4>1, <4>2
            <3>3. auditingOn' \in BOOLEAN /\ auditEnabledByUs' \in BOOLEAN
                  BY <1>7, <2>1 DEF StopAuditing
            <3>4. UNCHANGED <<pc, flags, prior, restoreOnExit,
               seen, source, launches>>
                  BY <1>7 DEF StopAuditing
            <3>5. QED  BY <3>1, <3>2, <3>3, <3>4
      <2>2. CASE ~ok  BY <1>7, <2>2 DEF StopAuditing
      <2>3. QED  BY <2>1, <2>2
<1>8. ASSUME NEW ok \in BOOLEAN, Enable(ok) PROVE Shapes'
      <2>1. CASE ok
            <3>1. policy' \subseteq Full
                  BY <1>8, <2>1 DEF Enable, Set
            <3>2. history' \in Histories
                  BY <1>8, <2>1 DEF Enable, Set
            <3>3. QED  BY <1>8, <2>1, <3>1, <3>2 DEF Enable, Set
      <2>2. CASE ~ok  BY <1>8, <2>2 DEF Enable, Set
      <2>3. QED  BY <2>1, <2>2
<1>9. ASSUME StartAuditing PROVE Shapes'
      BY <1>9, PriorRead DEF StartAuditing
<1>10. ASSUME NEW k \in Kinds, StartEventSource(k) PROVE Shapes'
      BY <1>10 DEF StartEventSource, SourceStarted
<1>11. ASSUME FatalEventSourceError PROVE Shapes'
      BY <1>11 DEF FatalEventSourceError
<1>12. ASSUME OnExit PROVE Shapes'  BY <1>12 DEF OnExit, End, Restore, Set
<1>13. ASSUME Panic PROVE Shapes'  BY <1>13 DEF Panic, End, Restore, Set
<1>14. ASSUME Kill PROVE Shapes'  BY <1>14 DEF Kill, Alive, End
<1>15. ASSUME NEW s \in {Full, {}}, RunWFPSet(s) PROVE Shapes'
      <2>1. PICK n \in SUBSET {"on", "off"} :
                history' = [history EXCEPT !.foreign = history.foreign \cup n]
            BY <1>15 DEF RunWFPSet
      <2>2. history' \in Histories
            BY <2>1
      <2>3. policy' \subseteq Full
            BY <1>15 DEF RunWFPSet, Set
      <2>4. QED  BY <1>15, <2>2, <2>3 DEF RunWFPSet
<1>16. QED  BY <1>1, <1>2, <1>3, <1>4, <1>5, <1>6, <1>7, <1>8, <1>9, <1>10,
         <1>11, <1>12, <1>13, <1>14, <1>15 DEF Next

\* A live source is started in no other mode than it belongs to.
LEMMA ModesStep ==
    ASSUME TypeOK, Modes, Next
    PROVE  Modes'
<1> USE DEF Modes, Deciding, app
<1>1. ASSUME Launch PROVE Modes'
      BY <1>1 DEF Launch, Alive, Fresh
<1>2. ASSUME NotElevated PROVE Modes'
      BY <1>2 DEF NotElevated
<1>3. ASSUME StartHistory PROVE Modes'
      BY <1>3 DEF StartHistory
<1>4. ASSUME CheckPolicy PROVE Modes'
      BY <1>4 DEF CheckPolicy, Reads
<1>5. ASSUME NEW e \in BOOLEAN, NEW r \in BOOLEAN, Answer(e, r)
      PROVE  Modes'
      BY <1>5, PriorRead, TypeParts DEF Answer
<1>6. ASSUME NEW ok \in BOOLEAN, EnableAtStart(ok)
      PROVE  Modes'
      BY <1>6 DEF EnableAtStart, Set
<1>7. ASSUME NEW ok \in BOOLEAN, StopAuditing(ok)
      PROVE  Modes'
      BY <1>7 DEF StopAuditing, MayToggle, Set
<1>8. ASSUME NEW ok \in BOOLEAN, Enable(ok) PROVE Modes'
      BY <1>8 DEF Enable, Set
<1>9. ASSUME StartAuditing PROVE Modes'
      BY <1>9, PriorRead, TypeParts DEF StartAuditing, MayToggle
<1>10. ASSUME NEW k \in Kinds, StartEventSource(k)
      PROVE  Modes'
      BY <1>10 DEF StartEventSource, SourceStarted
<1>11. ASSUME FatalEventSourceError PROVE Modes'
      BY <1>11 DEF FatalEventSourceError
<1>12. ASSUME OnExit PROVE Modes'
      BY <1>12 DEF OnExit, End, Restore, Set
<1>13. ASSUME Panic PROVE Modes'
      BY <1>13 DEF Panic, End, Restore, Set
<1>14. ASSUME Kill PROVE Modes'
      BY <1>14 DEF Kill, Alive, End
<1>15. ASSUME NEW s \in {Full, {}}, RunWFPSet(s)
      PROVE  Modes'
      BY <1>15 DEF RunWFPSet, Set
<1>16. QED  BY <1>1, <1>2, <1>3, <1>4, <1>5, <1>6, <1>7, <1>8, <1>9, <1>10,
         <1>11, <1>12, <1>13, <1>14, <1>15 DEF Next

\* No step makes a source the command line forbids.
LEMMA AllowedStep ==
    ASSUME TypeOK, Modes, Next
    PROVE  source' \in AllowedSources'
<1>1. CASE Launch  BY <1>1 DEF Launch, AllowedSources, Kinds
<1>2. CASE StartHistory  BY <1>2 DEF StartHistory, AllowedSources, Kinds
<1>3. ASSUME NEW k \in Kinds, StartEventSource(k)  PROVE source' \in AllowedSources'
      <2>1. /\ source' = k /\ flags' = flags /\ ~flags.history
            /\ \/ k = "EvtSubscribe" /\ ~flags.force
               \/ k = "PowerShell" /\ ~flags.noFallback
            BY <1>3 DEF StartEventSource, SourceStarted, Modes
      <2>2. QED  BY <2>1 DEF AllowedSources
<1>4. ASSUME source' = "none" PROVE source' \in AllowedSources'
      BY <1>4 DEF AllowedSources, Kinds
<1>5. CASE FatalEventSourceError \/ OnExit \/ Panic \/ Kill
      BY <1>4, <1>5 DEF FatalEventSourceError, OnExit, Panic, Kill, End
<1>6. ASSUME UNCHANGED <<source, flags>>  PROVE source' \in AllowedSources'
      BY <1>6 DEF TypeOK, AllowedSources
<1>7. QED  BY <1>1, <1>2, <1>3, <1>5, <1>6
         DEF Next, NotElevated, CheckPolicy, Answer, EnableAtStart, StopAuditing,
             StartAuditing, Enable, RunWFPSet, src

\* A process that runs has not ended.
LEMMA NotEndedStep ==
    ASSUME TypeOK, NotEnded, Next
    PROVE  NotEnded'
<1> USE DEF TypeOK, NotEnded, Alive, Histories
<1>1. ASSUME Launch PROVE NotEnded'
      BY <1>1 DEF Launch, Alive, Fresh
<1>2. ASSUME NotElevated PROVE NotEnded'
      BY <1>2 DEF NotElevated
<1>3. ASSUME StartHistory PROVE NotEnded'
      BY <1>3 DEF StartHistory
<1>4. ASSUME CheckPolicy PROVE NotEnded'
      BY <1>4 DEF CheckPolicy, Reads
<1>5. ASSUME NEW e \in BOOLEAN, NEW r \in BOOLEAN, Answer(e, r)
      PROVE  NotEnded'
      BY <1>5, PriorRead, TypeParts DEF Answer
<1>6. ASSUME NEW ok \in BOOLEAN, EnableAtStart(ok)
      PROVE  NotEnded'
      BY <1>6 DEF EnableAtStart, Set
<1>7. ASSUME NEW ok \in BOOLEAN, StopAuditing(ok)
      PROVE  NotEnded'
      BY <1>7 DEF StopAuditing, MayToggle, Set
<1>8. ASSUME NEW ok \in BOOLEAN, Enable(ok) PROVE NotEnded'
      BY <1>8 DEF Enable, Set
<1>9. ASSUME StartAuditing PROVE NotEnded'
      BY <1>9, PriorRead, TypeParts DEF StartAuditing, MayToggle
<1>10. ASSUME NEW k \in Kinds, StartEventSource(k)
      PROVE  NotEnded'
      BY <1>10 DEF StartEventSource, SourceStarted
<1>11. ASSUME FatalEventSourceError PROVE NotEnded'
      BY <1>11 DEF FatalEventSourceError
<1>12. ASSUME OnExit PROVE NotEnded'
      BY <1>12 DEF OnExit, End, Restore, Set
<1>13. ASSUME Panic PROVE NotEnded'
      BY <1>13 DEF Panic, End, Restore, Set
<1>14. ASSUME Kill PROVE NotEnded'
      BY <1>14 DEF Kill, Alive, End
<1>15. ASSUME NEW s \in {Full, {}}, RunWFPSet(s)
      PROVE  NotEnded'
      BY <1>15 DEF RunWFPSet, Set
<1>16. QED  BY <1>1, <1>2, <1>3, <1>4, <1>5, <1>6, <1>7, <1>8, <1>9, <1>10,
         <1>11, <1>12, <1>13, <1>14, <1>15 DEF Next

\* What is owned is enabled.
LEMMA OwnedStep ==
    ASSUME TypeOK, Owned, Next
    PROVE  Owned'
<1> USE DEF Owned, Deciding, app
<1>1. ASSUME Launch PROVE Owned'
      BY <1>1 DEF Launch, Alive, Fresh
<1>2. ASSUME NotElevated PROVE Owned'
      BY <1>2 DEF NotElevated
<1>3. ASSUME StartHistory PROVE Owned'
      BY <1>3 DEF StartHistory
<1>4. ASSUME CheckPolicy PROVE Owned'
      BY <1>4 DEF CheckPolicy, Reads
<1>5. ASSUME NEW e \in BOOLEAN, NEW r \in BOOLEAN, Answer(e, r)
      PROVE  Owned'
      BY <1>5, PriorRead, TypeParts DEF Answer
<1>6. ASSUME NEW ok \in BOOLEAN, EnableAtStart(ok)
      PROVE  Owned'
      BY <1>6 DEF EnableAtStart, Set
<1>7. ASSUME NEW ok \in BOOLEAN, StopAuditing(ok)
      PROVE  Owned'
      BY <1>7 DEF StopAuditing, MayToggle, Set
<1>8. ASSUME NEW ok \in BOOLEAN, Enable(ok) PROVE Owned'
      BY <1>8 DEF Enable, Set
<1>9. ASSUME StartAuditing PROVE Owned'
      BY <1>9, PriorRead, TypeParts DEF StartAuditing, MayToggle
<1>10. ASSUME NEW k \in Kinds, StartEventSource(k)
      PROVE  Owned'
      BY <1>10 DEF StartEventSource, SourceStarted
<1>11. ASSUME FatalEventSourceError PROVE Owned'
      BY <1>11 DEF FatalEventSourceError
<1>12. ASSUME OnExit PROVE Owned'
      BY <1>12 DEF OnExit, End, Restore, Set
<1>13. ASSUME Panic PROVE Owned'
      BY <1>13 DEF Panic, End, Restore, Set
<1>14. ASSUME Kill PROVE Owned'
      BY <1>14 DEF Kill, Alive, End
<1>15. ASSUME NEW s \in {Full, {}}, RunWFPSet(s)
      PROVE  Owned'
      BY <1>15 DEF RunWFPSet, Set
<1>16. QED  BY <1>1, <1>2, <1>3, <1>4, <1>5, <1>6, <1>7, <1>8, <1>9, <1>10,
         <1>11, <1>12, <1>13, <1>14, <1>15 DEF Next

\* Between a read and the next step only another process changes the policy.
LEMMA ReadHoldsStep ==
    ASSUME IInv, Next
    PROVE  ReadHolds'
<1> USE DEF IInv, ReadHolds, Deciding, TypeOK, Histories, app
<1>1. ASSUME Launch PROVE ReadHolds'
      BY <1>1 DEF Launch, Alive, Fresh
<1>2. ASSUME NotElevated PROVE ReadHolds'
      BY <1>2 DEF NotElevated
<1>3. ASSUME StartHistory PROVE ReadHolds'
      BY <1>3 DEF StartHistory
<1>4. ASSUME CheckPolicy PROVE ReadHolds'
      BY <1>4 DEF CheckPolicy, Reads
<1>5. ASSUME NEW e \in BOOLEAN, NEW r \in BOOLEAN, Answer(e, r)
      PROVE  ReadHolds'
      BY <1>5, PriorRead, TypeParts DEF Answer
<1>6. ASSUME NEW ok \in BOOLEAN, EnableAtStart(ok)
      PROVE  ReadHolds'
      BY <1>6 DEF EnableAtStart, Set
<1>7. ASSUME NEW ok \in BOOLEAN, StopAuditing(ok)
      PROVE  ReadHolds'
      BY <1>7 DEF StopAuditing, MayToggle, Set
<1>8. ASSUME NEW ok \in BOOLEAN, Enable(ok)
      PROVE  ReadHolds'
      BY <1>8 DEF Enable, Set
<1>9. ASSUME StartAuditing PROVE ReadHolds'
      BY <1>9, PriorRead, TypeParts DEF StartAuditing, MayToggle
<1>10. ASSUME NEW k \in Kinds, StartEventSource(k)
      PROVE  ReadHolds'
      BY <1>10 DEF StartEventSource, SourceStarted
<1>11. ASSUME FatalEventSourceError PROVE ReadHolds'
      BY <1>11 DEF FatalEventSourceError
<1>12. ASSUME OnExit PROVE ReadHolds'
      BY <1>12 DEF OnExit, End, Restore, Set
<1>13. ASSUME Panic PROVE ReadHolds'
      BY <1>13 DEF Panic, End, Restore, Set
<1>14. ASSUME Kill PROVE ReadHolds'
      BY <1>14 DEF Kill, Alive, End
<1>15. ASSUME NEW s \in {Full, {}}, RunWFPSet(s)
      PROVE  ReadHolds'
      BY <1>15 DEF RunWFPSet, Set
<1>16. QED  BY <1>1, <1>2, <1>3, <1>4, <1>5, <1>6, <1>7, <1>8, <1>9, <1>10,
         <1>11, <1>12, <1>13, <1>14, <1>15 DEF Next

\* The policy of before the launch stays in force or kept.
LEMMA TrackedStep ==
    ASSUME IInv, Next
    PROVE  Tracked'
<1> USE DEF IInv, Tracked, Deciding, TypeOK, Histories, Owned, ReadHolds, Alive, app
<1>1. ASSUME Launch PROVE Tracked'
      BY <1>1 DEF Launch, Alive, Fresh
<1>2. ASSUME NotElevated PROVE Tracked'
      BY <1>2 DEF NotElevated
<1>3. ASSUME StartHistory PROVE Tracked'
      BY <1>3 DEF StartHistory
<1>4. ASSUME CheckPolicy PROVE Tracked'
      BY <1>4 DEF CheckPolicy, Reads
<1>5. ASSUME NEW e \in BOOLEAN, NEW r \in BOOLEAN, Answer(e, r)
      PROVE  Tracked'
      BY <1>5, PriorRead, TypeParts DEF Answer
<1>6. ASSUME NEW ok \in BOOLEAN, EnableAtStart(ok)
      PROVE  Tracked'
      BY <1>6 DEF EnableAtStart, Set
<1>7. ASSUME NEW ok \in BOOLEAN, StopAuditing(ok)
      PROVE  Tracked'
      BY <1>7 DEF StopAuditing, MayToggle, Set
<1>8. ASSUME NEW ok \in BOOLEAN, Enable(ok) PROVE Tracked'
      BY <1>8 DEF Enable, Set
<1>9. ASSUME StartAuditing PROVE Tracked'
      BY <1>9, PriorRead, TypeParts DEF StartAuditing, MayToggle
<1>10. ASSUME NEW k \in Kinds, StartEventSource(k)
      PROVE  Tracked'
      BY <1>10 DEF StartEventSource, SourceStarted
<1>11. ASSUME FatalEventSourceError PROVE Tracked'
      BY <1>11 DEF FatalEventSourceError
<1>12. ASSUME OnExit PROVE Tracked'
      BY <1>12 DEF OnExit, End, Restore, Set
<1>13. ASSUME Panic PROVE Tracked'
      BY <1>13 DEF Panic, End, Restore, Set
<1>14. ASSUME Kill PROVE Tracked'
      BY <1>14 DEF Kill, Alive, End
<1>15. ASSUME NEW s \in {Full, {}}, RunWFPSet(s)
      PROVE  Tracked'
      BY <1>15 DEF RunWFPSet, Set
<1>16. QED  BY <1>1, <1>2, <1>3, <1>4, <1>5, <1>6, <1>7, <1>8, <1>9, <1>10,
         <1>11, <1>12, <1>13, <1>14, <1>15 DEF Next

\* What was audited at launch stays in what will be restored.
LEMMA KeptStep ==
    ASSUME IInv, Next
    PROVE  KeptWhole'
<1> USE DEF IInv, KeptWhole, LaunchPolicyKept, Deciding, TypeOK, Histories, Owned, Alive, app
<1>1. ASSUME Launch PROVE KeptWhole'
      BY <1>1 DEF Launch, Alive, Fresh
<1>2. ASSUME NotElevated PROVE KeptWhole'
      BY <1>2 DEF NotElevated
<1>3. ASSUME StartHistory PROVE KeptWhole'
      BY <1>3 DEF StartHistory
<1>4. ASSUME CheckPolicy PROVE KeptWhole'
      BY <1>4 DEF CheckPolicy, Reads
<1>5. ASSUME NEW e \in BOOLEAN, NEW r \in BOOLEAN, Answer(e, r)
      PROVE  KeptWhole'
      BY <1>5, PriorRead, TypeParts DEF Answer
<1>6. ASSUME NEW ok \in BOOLEAN, EnableAtStart(ok)
      PROVE  KeptWhole'
      BY <1>6 DEF EnableAtStart, Set
<1>7. ASSUME NEW ok \in BOOLEAN, StopAuditing(ok)
      PROVE  KeptWhole'
      BY <1>7 DEF StopAuditing, MayToggle, Set
<1>8. ASSUME NEW ok \in BOOLEAN, Enable(ok)
      PROVE  KeptWhole'
      BY <1>8 DEF Enable, Set
<1>9. ASSUME StartAuditing PROVE KeptWhole'
      BY <1>9, PriorRead, TypeParts DEF StartAuditing, MayToggle
<1>10. ASSUME NEW k \in Kinds, StartEventSource(k)
      PROVE  KeptWhole'
      BY <1>10 DEF StartEventSource, SourceStarted
<1>11. ASSUME FatalEventSourceError PROVE KeptWhole'
      BY <1>11 DEF FatalEventSourceError
<1>12. ASSUME OnExit PROVE KeptWhole'
      BY <1>12 DEF OnExit, End, Restore, Set
<1>13. ASSUME Panic PROVE KeptWhole'
      BY <1>13 DEF Panic, End, Restore, Set
<1>14. ASSUME Kill PROVE KeptWhole'
      BY <1>14 DEF Kill, Alive, End
<1>15. ASSUME NEW s \in {Full, {}}, RunWFPSet(s)
      PROVE  KeptWhole'
      BY <1>15 DEF RunWFPSet, Set
<1>16. QED  BY <1>1, <1>2, <1>3, <1>4, <1>5, <1>6, <1>7, <1>8, <1>9, <1>10,
         <1>11, <1>12, <1>13, <1>14, <1>15 DEF Next

\* It stays in force as well.
LEMMA LaunchPolicyStep ==
    ASSUME IInv, Next
    PROVE  LaunchPolicyKept'
<1> USE DEF IInv, KeptWhole, LaunchPolicyKept, TypeOK, Histories, app
<1>1. ASSUME Launch PROVE LaunchPolicyKept'
      BY <1>1 DEF Launch, Alive, Fresh
<1>2. ASSUME NotElevated PROVE LaunchPolicyKept'
      BY <1>2 DEF NotElevated
<1>3. ASSUME StartHistory PROVE LaunchPolicyKept'
      BY <1>3 DEF StartHistory
<1>4. ASSUME CheckPolicy PROVE LaunchPolicyKept'
      BY <1>4 DEF CheckPolicy, Reads
<1>5. ASSUME NEW e \in BOOLEAN, NEW r \in BOOLEAN, Answer(e, r)
      PROVE  LaunchPolicyKept'
      BY <1>5, PriorRead, TypeParts DEF Answer
<1>6. ASSUME NEW ok \in BOOLEAN, EnableAtStart(ok)
      PROVE  LaunchPolicyKept'
      BY <1>6 DEF EnableAtStart, Set
<1>7. ASSUME NEW ok \in BOOLEAN, StopAuditing(ok)
      PROVE  LaunchPolicyKept'
      BY <1>7 DEF StopAuditing, MayToggle, Set
<1>8. ASSUME NEW ok \in BOOLEAN, Enable(ok)
      PROVE  LaunchPolicyKept'
      BY <1>8 DEF Enable, Set
<1>9. ASSUME StartAuditing PROVE LaunchPolicyKept'
      BY <1>9, PriorRead, TypeParts DEF StartAuditing, MayToggle
<1>10. ASSUME NEW k \in Kinds, StartEventSource(k)
      PROVE  LaunchPolicyKept'
      BY <1>10 DEF StartEventSource, SourceStarted
<1>11. ASSUME FatalEventSourceError PROVE LaunchPolicyKept'
      BY <1>11 DEF FatalEventSourceError
<1>12. ASSUME OnExit PROVE LaunchPolicyKept'
      BY <1>12 DEF OnExit, End, Restore, Set
<1>13. ASSUME Panic PROVE LaunchPolicyKept'
      BY <1>13 DEF Panic, End, Restore, Set
<1>14. ASSUME Kill PROVE LaunchPolicyKept'
      BY <1>14 DEF Kill, Alive, End
<1>15. ASSUME NEW s \in {Full, {}}, RunWFPSet(s)
      PROVE  LaunchPolicyKept'
      BY <1>15 DEF RunWFPSet, Set
<1>16. QED  BY <1>1, <1>2, <1>3, <1>4, <1>5, <1>6, <1>7, <1>8, <1>9, <1>10,
         <1>11, <1>12, <1>13, <1>14, <1>15 DEF Next

\* A button that says Stop stays right.
LEMMA StopHoldsStep ==
    ASSUME IInv, Next
    PROVE  StopHolds'
<1> USE DEF IInv, StopHolds, Deciding, TypeOK, Histories, Owned, Alive, app
<1>1. ASSUME Launch PROVE StopHolds'
      BY <1>1 DEF Launch, Alive, Fresh
<1>2. ASSUME NotElevated PROVE StopHolds'
      BY <1>2 DEF NotElevated
<1>3. ASSUME StartHistory PROVE StopHolds'
      BY <1>3 DEF StartHistory
<1>4. ASSUME CheckPolicy PROVE StopHolds'
      BY <1>4 DEF CheckPolicy, Reads
<1>5. ASSUME NEW e \in BOOLEAN, NEW r \in BOOLEAN, Answer(e, r)
      PROVE  StopHolds'
      BY <1>5, PriorRead, TypeParts DEF Answer
<1>6. ASSUME NEW ok \in BOOLEAN, EnableAtStart(ok)
      PROVE  StopHolds'
      BY <1>6 DEF EnableAtStart, Set
<1>7. ASSUME NEW ok \in BOOLEAN, StopAuditing(ok)
      PROVE  StopHolds'
      BY <1>7 DEF StopAuditing, MayToggle, Set
<1>8. ASSUME NEW ok \in BOOLEAN, Enable(ok)
      PROVE  StopHolds'
      BY <1>8 DEF Enable, Set
<1>9. ASSUME StartAuditing PROVE StopHolds'
      BY <1>9, PriorRead, TypeParts DEF StartAuditing, MayToggle
<1>10. ASSUME NEW k \in Kinds, StartEventSource(k)
      PROVE  StopHolds'
      BY <1>10 DEF StartEventSource, SourceStarted
<1>11. ASSUME FatalEventSourceError PROVE StopHolds'
      BY <1>11 DEF FatalEventSourceError
<1>12. ASSUME OnExit PROVE StopHolds'
      BY <1>12 DEF OnExit, End, Restore, Set
<1>13. ASSUME Panic PROVE StopHolds'
      BY <1>13 DEF Panic, End, Restore, Set
<1>14. ASSUME Kill PROVE StopHolds'
      BY <1>14 DEF Kill, Alive, End
<1>15. ASSUME NEW s \in {Full, {}}, RunWFPSet(s)
      PROVE  StopHolds'
      BY <1>15 DEF RunWFPSet, Set
<1>16. QED  BY <1>1, <1>2, <1>3, <1>4, <1>5, <1>6, <1>7, <1>8, <1>9, <1>10,
         <1>11, <1>12, <1>13, <1>14, <1>15 DEF Next

\* A button that says Start stays right.
LEMMA StartHoldsStep ==
    ASSUME IInv, Next
    PROVE  StartHolds'
<1> USE DEF IInv, StartHolds, Deciding, TypeOK, Histories, Owned, Modes, app
<1>1. ASSUME Launch PROVE StartHolds'
      BY <1>1 DEF Launch, Alive, Fresh
<1>2. ASSUME NotElevated PROVE StartHolds'
      BY <1>2 DEF NotElevated
<1>3. ASSUME StartHistory PROVE StartHolds'
      BY <1>3 DEF StartHistory
<1>4. ASSUME CheckPolicy PROVE StartHolds'
      BY <1>4 DEF CheckPolicy, Reads
<1>5. ASSUME NEW e \in BOOLEAN, NEW r \in BOOLEAN, Answer(e, r)
      PROVE  StartHolds'
      BY <1>5, PriorRead, TypeParts DEF Answer
<1>6. ASSUME NEW ok \in BOOLEAN, EnableAtStart(ok)
      PROVE  StartHolds'
      BY <1>6 DEF EnableAtStart, Set
<1>7. ASSUME NEW ok \in BOOLEAN, StopAuditing(ok)
      PROVE  StartHolds'
      <2>1. CASE ok
            <3>1. policy' = {}  BY <1>7, <2>1 DEF StopAuditing, Set
            <3>2. {} # Full  BY DEF Full
            <3>3. QED  BY <3>1, <3>2
      <2>2. CASE ~ok  BY <1>7, <2>2 DEF StopAuditing, MayToggle
      <2>3. QED  BY <2>1, <2>2
<1>8. ASSUME NEW ok \in BOOLEAN, Enable(ok)
      PROVE  StartHolds'
      BY <1>8 DEF Enable, Set
<1>9. ASSUME StartAuditing PROVE StartHolds'
      BY <1>9, PriorRead, TypeParts DEF StartAuditing, MayToggle
<1>10. ASSUME NEW k \in Kinds, StartEventSource(k)
      PROVE  StartHolds'
      BY <1>10 DEF StartEventSource, SourceStarted
<1>11. ASSUME FatalEventSourceError PROVE StartHolds'
      BY <1>11 DEF FatalEventSourceError
<1>12. ASSUME OnExit PROVE StartHolds'
      BY <1>12 DEF OnExit, End, Restore, Set
<1>13. ASSUME Panic PROVE StartHolds'
      BY <1>13 DEF Panic, End, Restore, Set
<1>14. ASSUME Kill PROVE StartHolds'
      BY <1>14 DEF Kill, Alive, End
<1>15. ASSUME NEW s \in {Full, {}}, RunWFPSet(s)
      PROVE  StartHolds'
      BY <1>15 DEF RunWFPSet, Set
<1>16. QED  BY <1>1, <1>2, <1>3, <1>4, <1>5, <1>6, <1>7, <1>8, <1>9, <1>10,
         <1>11, <1>12, <1>13, <1>14, <1>15 DEF Next

\* A source runs whenever auditing is on.
LEMMA SourceStep ==
    ASSUME IInv, Next
    PROVE  SourceFollowsAuditing'
<1> USE DEF IInv, SourceFollowsAuditing, Deciding, TypeOK, Owned, app, src
<1>1. ASSUME Launch PROVE SourceFollowsAuditing'
      BY <1>1 DEF Launch, Alive, Fresh
<1>2. ASSUME NotElevated PROVE SourceFollowsAuditing'
      BY <1>2 DEF NotElevated
<1>3. ASSUME StartHistory PROVE SourceFollowsAuditing'
      BY <1>3 DEF StartHistory
<1>4. ASSUME CheckPolicy PROVE SourceFollowsAuditing'
      BY <1>4 DEF CheckPolicy, Reads
<1>5. ASSUME NEW e \in BOOLEAN, NEW r \in BOOLEAN, Answer(e, r)
      PROVE  SourceFollowsAuditing'
      BY <1>5, PriorRead, TypeParts DEF Answer
<1>6. ASSUME NEW ok \in BOOLEAN, EnableAtStart(ok)
      PROVE  SourceFollowsAuditing'
      BY <1>6 DEF EnableAtStart, Set
<1>7. ASSUME NEW ok \in BOOLEAN, StopAuditing(ok)
      PROVE  SourceFollowsAuditing'
      BY <1>7 DEF StopAuditing, MayToggle, Set
<1>8. ASSUME NEW ok \in BOOLEAN, Enable(ok)
      PROVE  SourceFollowsAuditing'
      BY <1>8 DEF Enable, Set
<1>9. ASSUME StartAuditing PROVE SourceFollowsAuditing'
      BY <1>9, PriorRead, TypeParts DEF StartAuditing, MayToggle
<1>10. ASSUME NEW k \in Kinds, StartEventSource(k)
      PROVE  SourceFollowsAuditing'
      BY <1>10 DEF StartEventSource, SourceStarted
<1>11. ASSUME FatalEventSourceError
      PROVE  SourceFollowsAuditing'
      BY <1>11 DEF FatalEventSourceError
<1>12. ASSUME OnExit PROVE SourceFollowsAuditing'
      BY <1>12 DEF OnExit, End, Restore, Set
<1>13. ASSUME Panic PROVE SourceFollowsAuditing'
      BY <1>13 DEF Panic, End, Restore, Set
<1>14. ASSUME Kill PROVE SourceFollowsAuditing'
      BY <1>14 DEF Kill, Alive, End
<1>15. ASSUME NEW s \in {Full, {}}, RunWFPSet(s)
      PROVE  SourceFollowsAuditing'
      BY <1>15 DEF RunWFPSet, Set
<1>16. QED  BY <1>1, <1>2, <1>3, <1>4, <1>5, <1>6, <1>7, <1>8, <1>9, <1>10,
         <1>11, <1>12, <1>13, <1>14, <1>15 DEF Next

\* The end of a process gives the policy back.
LEMMA RestoredStep ==
    ASSUME IInv, Next
    PROVE  RestoredAtEnd'
<1> USE DEF IInv, RestoredAtEnd, NotEnded, Tracked, StopHolds, TypeOK, Histories, Owned, Alive, app
<1>1. ASSUME Launch PROVE RestoredAtEnd'
      BY <1>1 DEF Launch, Alive, Fresh
<1>2. ASSUME NotElevated PROVE RestoredAtEnd'
      BY <1>2 DEF NotElevated
<1>3. ASSUME StartHistory PROVE RestoredAtEnd'
      BY <1>3 DEF StartHistory
<1>4. ASSUME CheckPolicy PROVE RestoredAtEnd'
      BY <1>4 DEF CheckPolicy, Reads
<1>5. ASSUME NEW e \in BOOLEAN, NEW r \in BOOLEAN, Answer(e, r)
      PROVE  RestoredAtEnd'
      BY <1>5, PriorRead, TypeParts DEF Answer
<1>6. ASSUME NEW ok \in BOOLEAN, EnableAtStart(ok)
      PROVE  RestoredAtEnd'
      BY <1>6 DEF EnableAtStart, Set
<1>7. ASSUME NEW ok \in BOOLEAN, StopAuditing(ok)
      PROVE  RestoredAtEnd'
      BY <1>7 DEF StopAuditing, MayToggle, Set
<1>8. ASSUME NEW ok \in BOOLEAN, Enable(ok)
      PROVE  RestoredAtEnd'
      BY <1>8 DEF Enable, Set
<1>9. ASSUME StartAuditing PROVE RestoredAtEnd'
      BY <1>9, PriorRead, TypeParts DEF StartAuditing, MayToggle
<1>10. ASSUME NEW k \in Kinds, StartEventSource(k)
      PROVE  RestoredAtEnd'
      BY <1>10 DEF StartEventSource, SourceStarted
<1>11. ASSUME FatalEventSourceError PROVE RestoredAtEnd'
      BY <1>11 DEF FatalEventSourceError
<1>12. ASSUME OnExit PROVE RestoredAtEnd'
      BY <1>12 DEF OnExit, End, Restore, Set
<1>13. ASSUME Panic PROVE RestoredAtEnd'
      BY <1>13 DEF Panic, End, Restore, Set
<1>14. ASSUME Kill PROVE RestoredAtEnd'
      BY <1>14 DEF Kill, Alive, End
<1>15. ASSUME NEW s \in {Full, {}}, RunWFPSet(s)
      PROVE  RestoredAtEnd'
      BY <1>15 DEF RunWFPSet, Set
<1>16. QED  BY <1>1, <1>2, <1>3, <1>4, <1>5, <1>6, <1>7, <1>8, <1>9, <1>10,
         <1>11, <1>12, <1>13, <1>14, <1>15 DEF Next

-----------------------------------------------------------------------------
\* The first launch has not happened.
LEMMA InitIInv == Init => IInv
<1> SUFFICES ASSUME Init PROVE IInv  OBVIOUS
<1> USE DEF Init
<1>1. TypeOK
      <2>1. history \in Histories  BY DEF Histories, Fresh
      <2>2. launches \in 0..MaxLaunches  BY LaunchesAssumption
      <2>3. /\ source \in AllowedSources /\ status \in Statuses
            /\ sourceBar \in Statuses
            BY DEF Kinds, Statuses, AllowedSources
      <2>4. QED  BY <2>1, <2>2, <2>3 DEF TypeOK
<1>2. NotEnded /\ Owned /\ Modes /\ ReadHolds /\ Tracked /\ KeptWhole
      BY DEF NotEnded, Owned, Modes, ReadHolds, Tracked, KeptWhole, Deciding, Alive
<1>3. StopHolds /\ StartHolds
      BY DEF StopHolds, StartHolds, Deciding, Alive
<1>4. LaunchPolicyKept /\ SourceFollowsAuditing /\ RestoredAtEnd
      BY DEF LaunchPolicyKept, SourceFollowsAuditing, RestoredAtEnd, Fresh
<1>5. QED  BY <1>1, <1>2, <1>3, <1>4 DEF IInv

\* The invariant is inductive.
LEMMA StepIInv == IInv /\ [Next]_vars => IInv'
<1> SUFFICES ASSUME IInv, [Next]_vars PROVE IInv'  OBVIOUS
<1>1. CASE Next
      <2>1. TypeOK /\ NotEnded /\ Owned /\ Modes  BY DEF IInv
      <2>2. TypeOK' /\ NotEnded' /\ Owned' /\ Modes'
            <3>1. Shapes'  BY <1>1, <2>1, TypeParts, ShapeStep
            <3>2. source' \in AllowedSources'  BY <1>1, <2>1, AllowedStep
            <3>3. TypeOK'
                  BY <3>1, <3>2 DEF Shapes, TypeOK
            <3>4. QED  BY <1>1, <2>1, <3>3, NotEndedStep, OwnedStep, ModesStep
      <2>3. ReadHolds' /\ Tracked' /\ KeptWhole'
            BY <1>1, ReadHoldsStep, TrackedStep, KeptStep
      <2>4. StopHolds' /\ StartHolds'  BY <1>1, StopHoldsStep, StartHoldsStep
      <2>5. LaunchPolicyKept' /\ SourceFollowsAuditing' /\ RestoredAtEnd'
            BY <1>1, LaunchPolicyStep, SourceStep, RestoredStep
      <2>6. QED  BY <2>2, <2>3, <2>4, <2>5 DEF IInv
<1>2. CASE UNCHANGED vars
      <2> USE <1>2 DEF vars, app, src
      <2>1. TypeOK'  BY DEF IInv, TypeOK, AllowedSources
      <2>2. NotEnded' /\ Owned' /\ Modes' /\ ReadHolds' /\ Tracked' /\ KeptWhole'
            BY DEF IInv, NotEnded, Owned, Modes, ReadHolds, Tracked, KeptWhole, Alive
      <2>3. StopHolds' /\ StartHolds'  BY DEF IInv, StopHolds, StartHolds, Alive
      <2>4. LaunchPolicyKept' /\ SourceFollowsAuditing' /\ RestoredAtEnd'
            BY DEF IInv, LaunchPolicyKept, SourceFollowsAuditing, RestoredAtEnd
      <2>5. QED  BY <2>1, <2>2, <2>3, <2>4 DEF IInv
<1>3. QED  BY <1>1, <1>2

\* The inductive invariant holds in every reachable state.
THEOREM Invariant == Spec => []IInv
BY InitIInv, StepIInv, PTL DEF Spec

\* Every variable keeps its shape and the source is one the command line allows,
\* whatever order launches, clicks, auditpol's failures, other processes and ends
\* come in.
THEOREM TypeCorrect == Spec => []TypeOK
<1>1. IInv => TypeOK  BY DEF IInv
<1>2. QED  BY <1>1, Invariant, PTL

\* A user who asked for the restore and never pressed Stop has the policy of
\* before the launch back when the process has ended, but for a read that failed
\* before an enable (all off) and a restore that failed (still on).
THEOREM PolicyIsRestored == Spec => []RestoredAtEnd
<1>1. IInv => RestoredAtEnd  BY DEF IInv
<1>2. QED  BY <1>1, Invariant, PTL

\* What was audited at launch stays on until the user presses Stop, another
\* process turns it off, or an enable misreads it: no exit, panic or kill before
\* turns any of it off.
THEOREM NothingIsTurnedOff == Spec => []LaunchPolicyKept
<1>1. IInv => LaunchPolicyKept  BY DEF IInv
<1>2. QED  BY <1>1, Invariant, PTL

\* The button of an idle window tells the policy, except for what another process
\* or a misread at startup has made of it.
THEOREM ButtonIsRight == Spec => []ButtonTellsPolicy
<1>1. IInv => ButtonTellsPolicy
      BY DEF IInv, StopHolds, StartHolds, ButtonTellsPolicy, Alive
<1>2. QED  BY <1>1, Invariant, PTL

\* While auditing is on and the window usable, a source runs and the status bar
\* names it.
THEOREM SourceIsRunning == Spec => []SourceFollowsAuditing
<1>1. IInv => SourceFollowsAuditing  BY DEF IInv
<1>2. QED  BY <1>1, Invariant, PTL

=============================================================================
