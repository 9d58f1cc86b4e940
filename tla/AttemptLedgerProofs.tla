------------------------- MODULE AttemptLedgerProofs -------------------------
(***************************************************************************)
(* Theorems of AttemptLedger, for any number of events, progress updates,  *)
(* artifacts, overlapping calls and failures.                              *)
(***************************************************************************)
EXTENDS AttemptLedger, TLAPS

\* The disjuncts of Next, one action at a time.
LEMMA StepCases ==
  [Next]_vars <=>
    \/ IngestEvent \/ IngestProgress \/ RequestCancel \/ LeaseLapses
    \/ ChangeRegistry \/ Expire \/ Fence
    \/ \E a \in Artifacts : ArtifactGrant(a)
    \/ \E a \in Artifacts : Upload(a)
    \/ \E a \in Artifacts : GrantLapses(a)
    \/ \E a \in Artifacts : StagingAges(a)
    \/ \E h \in Handlers : CompleteCall(h)
    \/ \E h \in Handlers : VerifyObject(h)
    \/ \E h \in Handlers : RecordVerified(h)
    \/ \E h \in Handlers : AcceptTerminal(h)
    \/ \E t \in Tasks : PromoteHead(t)
    \/ \E t \in Tasks : PromoteCopy(t)
    \/ \E t \in Tasks : PromoteDelete(t)
    \/ \E t \in Tasks : MarkPromoted(t)
    \/ MaintenanceTick \/ ListReapable \/ ReapObject \/ MarkReaped \/ MaintenanceDone
    \/ FetchEvents \/ CheckEvent \/ ReportEvent \/ MarkEvent \/ FetchProgress
    \/ CheckProgress \/ ReportProgress \/ MarkProgress \/ TickDone
    \/ TickFails \/ ReapFails \/ Crash
    \/ \E t \in Tasks : TaskFails(t)
    \/ UNCHANGED vars
BY DEF Next, WorkerNext, WorldNext, HandlerNext, PromoteNext, MaintenanceNext,
       TickNext, FailureNext

\* Initially every row is absent and every process idle.
LEMMA TypeInit == Init => TypeOK
BY LedgerAssumption DEF Init, TypeOK, Idle, IdleTask, ActiveStatus, TerminalStatus,
   LostStatus, RowStatus, StagingStatus, GrantState, Tasks, TaskRow

\* A task record that is stepped or given up is a task record.
LEMMA StepRow ==
  ASSUME task \in [Tasks -> TaskRow], NEW t \in Tasks,
         NEW pc \in {"idle", "verify", "record", "promote", "copy", "delete", "list",
                     "reap", "reaped"},
         NEW todo \in SUBSET Artifacts, NEW art \in Artifacts \cup {None},
         Step(t, pc, todo, art)
  PROVE  task' \in [Tasks -> TaskRow]
BY DEF Step, TaskRow

LEMMA QuitRow ==
  ASSUME task \in [Tasks -> TaskRow], NEW t \in Tasks, Quit(t)
  PROVE  task' \in [Tasks -> TaskRow]
BY DEF Quit, GiveUp, TaskRow

\* Every action keeps the types.
LEMMA TypeStep == TypeOK /\ [Next]_vars => TypeOK'
<1> SUFFICES ASSUME TypeOK, [Next]_vars PROVE TypeOK'
  OBVIOUS
<1> USE LedgerAssumption DEF TypeOK, ActiveStatus, TerminalStatus, LostStatus, RowStatus,
        StagingStatus, GrantState, Tasks, attemptVars, ledgerVars, artifactVars, reportVars, TaskRow
<1>1. CASE IngestEvent
  BY <1>1 DEF IngestEvent, AdvanceTo
<1>2. CASE IngestProgress
  BY <1>2 DEF IngestProgress
<1>3. CASE RequestCancel
  BY <1>3 DEF RequestCancel
<1>4. CASE LeaseLapses
  BY <1>4 DEF LeaseLapses
<1>5. CASE ChangeRegistry
  BY <1>5 DEF ChangeRegistry
<1>6. CASE Expire
  BY <1>6 DEF Expire, DiscardProjection, DiscardRows
<1>7. CASE Fence
  BY <1>7 DEF Fence, DiscardProjection, DiscardRows
<1>8. CASE \E a \in Artifacts : ArtifactGrant(a)
  BY <1>8 DEF ArtifactGrant
<1>9. CASE \E a \in Artifacts : Upload(a)
  BY <1>9 DEF Upload, GrantLive
<1>10. CASE \E a \in Artifacts : GrantLapses(a)
  BY <1>10 DEF GrantLapses, GrantLive
<1>11. CASE \E a \in Artifacts : StagingAges(a)
  BY <1>11 DEF StagingAges
<1>12. CASE \E h \in Handlers : CompleteCall(h)
  BY <1>12 DEF CompleteCall, TaskUnchanged, Step
<1>13. CASE \E h \in Handlers : VerifyObject(h)
  BY <1>13 DEF VerifyObject, TaskUnchanged, Step, Quit, GiveUp
<1>14. CASE \E h \in Handlers : RecordVerified(h)
  BY <1>14 DEF RecordVerified, Recorded, TaskUnchanged, Step, Quit, GiveUp
<1>15. CASE \E h \in Handlers : AcceptTerminal(h)
  <2>1. PICK h \in Handlers : AcceptTerminal(h)
    BY <1>15
  <2>2. h \in Tasks /\ request.manifest \in SUBSET Artifacts
    OBVIOUS
  <2>3. task' \in [Tasks -> TaskRow]
    BY <2>1, <2>2, StepRow, QuitRow DEF AcceptTerminal
  <2>4. status' \in ActiveStatus \cup TerminalStatus \cup LostStatus
    BY <2>1 DEF AcceptTerminal
  <2> QED
    BY <2>1, <2>3, <2>4 DEF AcceptTerminal, TaskUnchanged
<1>16. CASE \E t \in Tasks : PromoteHead(t)
  <2>1. PICK t \in Tasks : PromoteHead(t)
    BY <1>16
  <2>2. task[t].todo \in SUBSET Artifacts
    OBVIOUS
  <2>3. task' \in [Tasks -> TaskRow]
    BY <2>1, <2>2, StepRow, QuitRow DEF PromoteHead
  <2> QED
    BY <2>1, <2>3 DEF PromoteHead, TaskUnchanged
<1>17. CASE \E t \in Tasks : PromoteCopy(t)
  BY <1>17 DEF PromoteCopy, TaskUnchanged, Step, Quit, GiveUp
<1>18. CASE \E t \in Tasks : PromoteDelete(t)
  BY <1>18 DEF PromoteDelete, TaskUnchanged, Step
<1>19. CASE \E t \in Tasks : MarkPromoted(t)
  BY <1>19 DEF MarkPromoted, TaskUnchanged, Quit, GiveUp
<1>20. CASE MaintenanceTick
  BY <1>20 DEF MaintenanceTick, TaskUnchanged, Step, Quit, GiveUp
<1>21. CASE ListReapable
  BY <1>21 DEF ListReapable, TaskUnchanged, Step
<1>22. CASE ReapObject
  BY <1>22 DEF ReapObject, TaskUnchanged, Step
<1>23. CASE MarkReaped
  <2> DEFINE a == task[Maintenance].art
  <2>1. task[Maintenance].todo \ {a} \in SUBSET Artifacts
    OBVIOUS
  <2>2. task' \in [Tasks -> TaskRow]
    BY <1>23, <2>1, StepRow DEF MarkReaped
  <2>3. staging' \in [Artifacts -> StagingStatus]
    BY <1>23 DEF MarkReaped
  <2> QED
    BY <1>23, <2>2, <2>3 DEF MarkReaped, TaskUnchanged
<1>24. CASE MaintenanceDone
  BY <1>24 DEF MaintenanceDone, TaskUnchanged, Step
<1>25. CASE FetchEvents
  BY <1>25 DEF FetchEvents, NextEvent, ProjUnchanged, Turn
<1>26. CASE CheckEvent
  BY <1>26 DEF CheckEvent, ProjUnchanged, Turn
<1>27. CASE ReportEvent
  BY <1>27 DEF ReportEvent, Report, ProjUnchanged, Turn
<1>28. CASE MarkEvent
  BY <1>28 DEF MarkEvent, ProjUnchanged, Turn
<1>29. CASE FetchProgress
  BY <1>29 DEF FetchProgress, ProjUnchanged, Turn
<1>30. CASE CheckProgress
  BY <1>30 DEF CheckProgress, MarkRow, ProjUnchanged, Turn
<1>31. CASE ReportProgress
  BY <1>31 DEF ReportProgress, ProjUnchanged, Turn
<1>32. CASE MarkProgress
  BY <1>32 DEF MarkProgress, MarkRow, ProjUnchanged, Turn
<1>33. CASE TickDone
  BY <1>33 DEF TickDone, Idle, ProjUnchanged
<1>34. CASE TickFails
  BY <1>34 DEF TickFails, Report, Idle, Fail
<1>35. CASE ReapFails
  BY <1>35 DEF ReapFails, Fail, Step
<1>36. CASE Crash
  BY <1>36 DEF Crash, Fail, Idle, IdleTask
<1>37. CASE \E t \in Tasks : TaskFails(t)
  BY <1>37 DEF TaskFails, Fail, GiveUp, IdleTask
<1>38. CASE UNCHANGED vars
  BY <1>38 DEF vars
<1> QED
  BY <1>1, <1>2, <1>3, <1>4, <1>5, <1>6, <1>7, <1>8, <1>9, <1>10, <1>11, <1>12, <1>13, <1>14, <1>15, <1>16, <1>17, <1>18, <1>19, <1>20, <1>21, <1>22, <1>23, <1>24, <1>25, <1>26, <1>27, <1>28, <1>29, <1>30, <1>31, <1>32, <1>33, <1>34, <1>35, <1>36, <1>37, <1>38, StepCases

\* Every reachable state has the enum values of the migrations and the process
\* records of the handlers and loops.
THEOREM LedgerTypeCorrect == Spec => []TypeOK
<1>1. Init => TypeOK
  BY TypeInit
<1>2. TypeOK /\ [Next]_vars => TypeOK'
  BY TypeStep
<1> QED
  BY <1>1, <1>2, PTL DEF Spec

\* What neither touches the events nor decides the attempt's loss keeps them.
LEMMA EventsFrame ==
  ASSUME EventsConsistent, UNCHANGED <<event, contiguous, projected, shown, proj>>,
         Lost' <=> Lost
  PROVE  EventsConsistent'
BY DEF EventsConsistent, AcknowledgedIsStored, AcknowledgedWasReported

\* Every action keeps the events, the position and the projector consistent.
LEMMA EventsStep == TypeOK /\ EventsConsistent /\ [Next]_vars => EventsConsistent'
<1> SUFFICES ASSUME TypeOK, EventsConsistent, [Next]_vars PROVE EventsConsistent'
  OBVIOUS
<1> USE LedgerAssumption DEF attemptVars, ledgerVars, artifactVars, reportVars
<1>1. CASE IngestEvent
  BY <1>1 DEF EventsConsistent, AcknowledgedIsStored, AcknowledgedWasReported, Lost, LostStatus, TypeOK, Admitted, Active, ActiveStatus, RowStatus,
     IngestEvent, AdvanceTo
<1>2. CASE IngestProgress
  BY <1>2, EventsFrame DEF IngestProgress, Lost
<1>3. CASE RequestCancel
  BY <1>3, EventsFrame DEF RequestCancel, Lost, LostStatus
<1>4. CASE LeaseLapses
  BY <1>4, EventsFrame DEF LeaseLapses, Lost
<1>5. CASE ChangeRegistry
  BY <1>5, EventsFrame DEF ChangeRegistry, Lost
<1>6. CASE Expire
  BY <1>6 DEF EventsConsistent, AcknowledgedIsStored, AcknowledgedWasReported, Lost, LostStatus, TypeOK, Active, ActiveStatus, RowStatus,
     Expire, DiscardProjection, DiscardRows
<1>7. CASE Fence
  BY <1>7 DEF EventsConsistent, AcknowledgedIsStored, AcknowledgedWasReported, Lost, LostStatus, TypeOK, Active, ActiveStatus, RowStatus,
     Fence, DiscardProjection, DiscardRows
<1>8. CASE \E a \in Artifacts : ArtifactGrant(a)
  BY <1>8, EventsFrame DEF ArtifactGrant, Lost
<1>9. CASE \E a \in Artifacts : Upload(a)
  BY <1>9, EventsFrame DEF Upload, Lost
<1>10. CASE \E a \in Artifacts : GrantLapses(a)
  BY <1>10, EventsFrame DEF GrantLapses, Lost
<1>11. CASE \E a \in Artifacts : StagingAges(a)
  BY <1>11, EventsFrame DEF StagingAges, Lost
<1>12. CASE \E h \in Handlers : CompleteCall(h)
  BY <1>12, EventsFrame DEF CompleteCall, TaskUnchanged, Lost
<1>13. CASE \E h \in Handlers : VerifyObject(h)
  BY <1>13, EventsFrame DEF VerifyObject, TaskUnchanged, Lost
<1>14. CASE \E h \in Handlers : RecordVerified(h)
  BY <1>14, EventsFrame DEF RecordVerified, TaskUnchanged, Lost
<1>15. CASE \E h \in Handlers : AcceptTerminal(h)
  BY <1>15, EventsFrame DEF AcceptTerminal, TaskUnchanged, Lost, LostStatus, Acceptable, Admitted, Active, ActiveStatus, TerminalStatus, TypeOK
<1>16. CASE \E t \in Tasks : PromoteHead(t)
  BY <1>16, EventsFrame DEF PromoteHead, TaskUnchanged, Lost
<1>17. CASE \E t \in Tasks : PromoteCopy(t)
  BY <1>17, EventsFrame DEF PromoteCopy, TaskUnchanged, Lost
<1>18. CASE \E t \in Tasks : PromoteDelete(t)
  BY <1>18, EventsFrame DEF PromoteDelete, TaskUnchanged, Lost
<1>19. CASE \E t \in Tasks : MarkPromoted(t)
  BY <1>19, EventsFrame DEF MarkPromoted, TaskUnchanged, Lost
<1>20. CASE MaintenanceTick
  BY <1>20, EventsFrame DEF MaintenanceTick, TaskUnchanged, Lost
<1>21. CASE ListReapable
  BY <1>21, EventsFrame DEF ListReapable, TaskUnchanged, Lost
<1>22. CASE ReapObject
  BY <1>22, EventsFrame DEF ReapObject, TaskUnchanged, Lost
<1>23. CASE MarkReaped
  BY <1>23, EventsFrame DEF MarkReaped, TaskUnchanged, Lost
<1>24. CASE MaintenanceDone
  BY <1>24, EventsFrame DEF MaintenanceDone, TaskUnchanged, Lost
<1>25. CASE FetchEvents
  BY <1>25 DEF EventsConsistent, AcknowledgedIsStored, AcknowledgedWasReported, Lost, LostStatus, TypeOK, Authoritative, Active, Terminal, ActiveStatus, TerminalStatus,
     FetchEvents, NextEvent, ProjUnchanged, Turn
<1>26. CASE CheckEvent
  BY <1>26 DEF EventsConsistent, AcknowledgedIsStored, AcknowledgedWasReported, Lost, LostStatus, TypeOK, 
     CheckEvent, ProjUnchanged, Turn
<1>27. CASE ReportEvent
  BY <1>27 DEF EventsConsistent, AcknowledgedIsStored, AcknowledgedWasReported, Lost, LostStatus, TypeOK, 
     ReportEvent, Report, ProjUnchanged, Turn
<1>28. CASE MarkEvent
  BY <1>28 DEF EventsConsistent, AcknowledgedIsStored, AcknowledgedWasReported, Lost, LostStatus, TypeOK, RowStatus,
     MarkEvent, ProjUnchanged, Turn
<1>29. CASE FetchProgress
  BY <1>29 DEF EventsConsistent, AcknowledgedIsStored, AcknowledgedWasReported, Lost, LostStatus, TypeOK, 
     FetchProgress, ProjUnchanged, Turn
<1>30. CASE CheckProgress
  BY <1>30 DEF EventsConsistent, AcknowledgedIsStored, AcknowledgedWasReported, Lost, LostStatus, TypeOK, 
     CheckProgress, MarkRow, ProjUnchanged, Turn
<1>31. CASE ReportProgress
  BY <1>31 DEF EventsConsistent, AcknowledgedIsStored, AcknowledgedWasReported, Lost, LostStatus, TypeOK, 
     ReportProgress, ProjUnchanged, Turn
<1>32. CASE MarkProgress
  BY <1>32 DEF EventsConsistent, AcknowledgedIsStored, AcknowledgedWasReported, Lost, LostStatus, TypeOK, 
     MarkProgress, MarkRow, ProjUnchanged, Turn
<1>33. CASE TickDone
  BY <1>33 DEF EventsConsistent, AcknowledgedIsStored, AcknowledgedWasReported, Lost, LostStatus, TypeOK, 
     TickDone, Idle, ProjUnchanged
<1>34. CASE TickFails
  BY <1>34 DEF EventsConsistent, AcknowledgedIsStored, AcknowledgedWasReported, Lost, LostStatus, TypeOK, 
     TickFails, Report, Idle, Fail
<1>35. CASE ReapFails
  BY <1>35, EventsFrame DEF ReapFails, Lost
<1>36. CASE Crash
  BY <1>36 DEF EventsConsistent, AcknowledgedIsStored, AcknowledgedWasReported, Lost, LostStatus, TypeOK, 
     Crash, Fail, Idle, IdleTask
<1>37. CASE \E t \in Tasks : TaskFails(t)
  BY <1>37, EventsFrame DEF TaskFails, Lost
<1>38. CASE UNCHANGED vars
  BY <1>38, EventsFrame DEF vars, Lost
<1> QED
  BY <1>1, <1>2, <1>3, <1>4, <1>5, <1>6, <1>7, <1>8, <1>9, <1>10, <1>11, <1>12, <1>13, <1>14, <1>15, <1>16, <1>17, <1>18, <1>19, <1>20, <1>21, <1>22, <1>23, <1>24, <1>25, <1>26, <1>27, <1>28, <1>29, <1>30, <1>31, <1>32, <1>33, <1>34, <1>35, <1>36, <1>37, <1>38, StepCases

\* The acknowledgement covers stored events only, and what is called projected
\* was reported: ingest_reliable_event, mark_event_projected and
\* discard_attempt_projection agree with the coordinator across every crash.
THEOREM EventsAlways == Spec => []EventsConsistent
<1>1. Init => EventsConsistent
  BY LedgerAssumption DEF Init, EventsConsistent, AcknowledgedIsStored,
     AcknowledgedWasReported, Lost, LostStatus, Idle
<1>2. TypeOK /\ EventsConsistent /\ [Next]_vars => EventsConsistent'
  BY EventsStep
<1> QED
  BY <1>1, <1>2, LedgerTypeCorrect, PTL DEF Spec

\* The worker forgets only events that are stored.
THEOREM AlwaysAcknowledgedIsStored == Spec => []AcknowledgedIsStored
<1>1. EventsConsistent => AcknowledgedIsStored
  BY DEF EventsConsistent
<1> QED
  BY <1>1, EventsAlways, PTL

\* The store calls projected only what was reported.
THEOREM AlwaysAcknowledgedWasReported == Spec => []AcknowledgedWasReported
<1>1. EventsConsistent => AcknowledgedWasReported
  BY DEF EventsConsistent
<1> QED
  BY <1>1, EventsAlways, PTL

\* A step that leaves reports, position and authority alone is no step of the
\* channel.
LEMMA ChannelFrame ==
  ASSUME UNCHANGED <<contiguous, shown, proj>>, Authoritative' = Authoritative
  PROVE  UNCHANGED Channel!chan
BY DEF Channel!chan

LEMMA ChannelSilent ==
  ASSUME UNCHANGED <<contiguous, shown>>, Authoritative' = Authoritative,
         proj.pc # "report", proj'.pc # "report"
  PROVE  UNCHANGED Channel!chan
BY DEF Channel!chan

\* Every step is a step of the channel or none.
LEMMA ChannelStep ==
  TypeOK /\ EventsConsistent /\ [Next]_vars => [Channel!ChanNext]_(Channel!chan)
<1> SUFFICES ASSUME TypeOK, EventsConsistent, [Next]_vars
             PROVE  Channel!ChanNext \/ UNCHANGED Channel!chan
  OBVIOUS
<1> USE LedgerAssumption DEF attemptVars, ledgerVars, artifactVars, reportVars
<1>1. CASE IngestEvent
  BY <1>1 DEF Admitted, Active, Authoritative, IngestEvent, TypeOK,
     Channel!ChanNext, Channel!Learn
<1>2. CASE IngestProgress
  BY <1>2, ChannelFrame DEF IngestProgress, Authoritative, Active, Terminal
<1>3. CASE RequestCancel
  BY <1>3, ChannelFrame DEF RequestCancel, Authoritative, Active, Terminal, ActiveStatus, TerminalStatus
<1>4. CASE LeaseLapses
  BY <1>4 DEF Authoritative, Active, Terminal, ActiveStatus, TerminalStatus, LeaseLapses,
     Channel!ChanNext, Channel!Close
<1>5. CASE ChangeRegistry
  BY <1>5, ChannelFrame DEF ChangeRegistry, Authoritative, Active, Terminal
<1>6. CASE Expire
  BY <1>6 DEF Authoritative, Active, Terminal, ActiveStatus, TerminalStatus, Expire, Channel!chan
<1>7. CASE Fence
  BY <1>7 DEF Authoritative, Active, Terminal, ActiveStatus, TerminalStatus, Fence,
     Channel!ChanNext, Channel!Close
<1>8. CASE \E a \in Artifacts : ArtifactGrant(a)
  BY <1>8, ChannelFrame DEF ArtifactGrant, Authoritative, Active, Terminal
<1>9. CASE \E a \in Artifacts : Upload(a)
  BY <1>9, ChannelFrame DEF Upload, Authoritative, Active, Terminal
<1>10. CASE \E a \in Artifacts : GrantLapses(a)
  BY <1>10, ChannelFrame DEF GrantLapses, Authoritative, Active, Terminal
<1>11. CASE \E a \in Artifacts : StagingAges(a)
  BY <1>11, ChannelFrame DEF StagingAges, Authoritative, Active, Terminal
<1>12. CASE \E h \in Handlers : CompleteCall(h)
  BY <1>12, ChannelFrame DEF CompleteCall, TaskUnchanged, Authoritative, Active, Terminal
<1>13. CASE \E h \in Handlers : VerifyObject(h)
  BY <1>13, ChannelFrame DEF VerifyObject, TaskUnchanged, Authoritative, Active, Terminal
<1>14. CASE \E h \in Handlers : RecordVerified(h)
  BY <1>14, ChannelFrame DEF RecordVerified, TaskUnchanged, Authoritative, Active, Terminal
<1>15. CASE \E h \in Handlers : AcceptTerminal(h)
  BY <1>15, ChannelFrame DEF AcceptTerminal, TaskUnchanged, Authoritative, Active, Terminal, ActiveStatus, TerminalStatus,
     Acceptable, Admitted, TypeOK
<1>16. CASE \E t \in Tasks : PromoteHead(t)
  BY <1>16, ChannelFrame DEF PromoteHead, TaskUnchanged, Authoritative, Active, Terminal
<1>17. CASE \E t \in Tasks : PromoteCopy(t)
  BY <1>17, ChannelFrame DEF PromoteCopy, TaskUnchanged, Authoritative, Active, Terminal
<1>18. CASE \E t \in Tasks : PromoteDelete(t)
  BY <1>18, ChannelFrame DEF PromoteDelete, TaskUnchanged, Authoritative, Active, Terminal
<1>19. CASE \E t \in Tasks : MarkPromoted(t)
  BY <1>19, ChannelFrame DEF MarkPromoted, TaskUnchanged, Authoritative, Active, Terminal
<1>20. CASE MaintenanceTick
  BY <1>20, ChannelFrame DEF MaintenanceTick, TaskUnchanged, Authoritative, Active, Terminal
<1>21. CASE ListReapable
  BY <1>21, ChannelFrame DEF ListReapable, TaskUnchanged, Authoritative, Active, Terminal
<1>22. CASE ReapObject
  BY <1>22, ChannelFrame DEF ReapObject, TaskUnchanged, Authoritative, Active, Terminal
<1>23. CASE MarkReaped
  BY <1>23, ChannelFrame DEF MarkReaped, TaskUnchanged, Authoritative, Active, Terminal
<1>24. CASE MaintenanceDone
  BY <1>24, ChannelFrame DEF MaintenanceDone, TaskUnchanged, Authoritative, Active, Terminal
<1>25. CASE FetchEvents
  BY <1>25, ChannelSilent DEF FetchEvents, ProjUnchanged, Turn, Authoritative, Active, Terminal
<1>26. CASE CheckEvent
  <2>1. CASE Reportable(proj.item)
    <3>1. Authoritative /\ ~Lost
      BY <2>1 DEF Reportable, Authoritative, Active, Terminal, Lost, ActiveStatus,
         TerminalStatus, LostStatus
    <3>2. proj.item \in {shown, shown + 1} \cap (1 .. contiguous)
      BY <1>26, <3>1 DEF CheckEvent, TypeOK, EventsConsistent, AcknowledgedWasReported
    <3>3. UNCHANGED <<contiguous, shown>> /\ Authoritative' = Authoritative
      BY <1>26 DEF CheckEvent, ProjUnchanged, Authoritative, Active, Terminal
    <3>4. proj.pc = "event" /\ proj'.pc = "report" /\ proj'.item = proj.item
      BY <1>26, <2>1 DEF CheckEvent, Turn
    <3> QED
      BY <3>1, <3>2, <3>3, <3>4 DEF Channel!ChanNext, Channel!Begin
  <2>2. CASE ~Reportable(proj.item)
    BY <1>26, <2>2, ChannelSilent
       DEF CheckEvent, Turn, ProjUnchanged, Authoritative, Active, Terminal
  <2> QED
    BY <2>1, <2>2
<1>27. CASE ReportEvent
  <2>1. UNCHANGED contiguous /\ Authoritative' = Authoritative
    BY <1>27 DEF ReportEvent, ProjUnchanged, Authoritative, Active, Terminal
  <2>2. proj.pc = "report" /\ proj'.pc = "mark" /\ shown' = proj.item /\ proj.item # 0
    BY <1>27 DEF ReportEvent, Turn, TypeOK
  <2> QED
    BY <2>1, <2>2 DEF Channel!ChanNext, Channel!Land
<1>28. CASE MarkEvent
  BY <1>28, ChannelSilent DEF MarkEvent, ProjUnchanged, Turn, Authoritative, Active, Terminal
<1>29. CASE FetchProgress
  BY <1>29, ChannelSilent DEF FetchProgress, ProjUnchanged, Turn, Authoritative, Active, Terminal
<1>30. CASE CheckProgress
  BY <1>30, ChannelSilent DEF CheckProgress, ProjUnchanged, Turn, Authoritative, Active, Terminal
<1>31. CASE ReportProgress
  BY <1>31, ChannelSilent DEF ReportProgress, ProjUnchanged, Turn, Authoritative, Active, Terminal
<1>32. CASE MarkProgress
  BY <1>32, ChannelSilent DEF MarkProgress, ProjUnchanged, Turn, Authoritative, Active, Terminal
<1>33. CASE TickDone
  BY <1>33, ChannelSilent DEF TickDone, Idle, ProjUnchanged, Authoritative, Active, Terminal
<1>34. CASE TickFails
  <2>1. UNCHANGED contiguous /\ Authoritative' = Authoritative
    BY <1>34 DEF TickFails, Authoritative, Active, Terminal
  <2>2. proj'.pc = "idle"
    BY <1>34 DEF TickFails, Idle
  <2>3. CASE UNCHANGED shown
    BY <2>1, <2>2, <2>3 DEF Channel!ChanNext, Channel!Abandon
  <2>4. CASE proj.pc = "report" /\ shown' = proj.item
    <3>1. proj.item # 0
      BY <2>4 DEF TypeOK
    <3> QED
      BY <2>1, <2>2, <2>4, <3>1 DEF Channel!ChanNext, Channel!Land
  <2> QED
    BY <1>34, <2>3, <2>4 DEF TickFails
<1>35. CASE ReapFails
  BY <1>35, ChannelFrame DEF ReapFails, Fail, Authoritative, Active, Terminal
<1>36. CASE Crash
  <2>1. UNCHANGED contiguous /\ Authoritative' = Authoritative
    BY <1>36 DEF Crash, Authoritative, Active, Terminal
  <2>2. proj'.pc = "idle"
    BY <1>36 DEF Crash, Idle
  <2>3. UNCHANGED shown
    BY <1>36 DEF Crash
  <2> QED
    BY <2>1, <2>2, <2>3 DEF Channel!ChanNext, Channel!Abandon
<1>37. CASE \E t \in Tasks : TaskFails(t)
  BY <1>37, ChannelFrame DEF TaskFails, Fail, Authoritative, Active, Terminal
<1>38. CASE UNCHANGED vars
  BY <1>38, ChannelFrame DEF vars, Authoritative, Active, Terminal
<1> QED
  BY <1>1, <1>2, <1>3, <1>4, <1>5, <1>6, <1>7, <1>8, <1>9, <1>10, <1>11, <1>12, <1>13, <1>14, <1>15, <1>16, <1>17, <1>18, <1>19, <1>20, <1>21, <1>22, <1>23, <1>24, <1>25, <1>26, <1>27, <1>28, <1>29, <1>30, <1>31, <1>32, <1>33, <1>34, <1>35, <1>36, <1>37, <1>38, StepCases

\* The coordinator implements ReportChannel: events are shown in order, none
\* before it is stored, and after the attempt lost its authority nothing but a
\* call already in flight still lands.
THEOREM ImplementsChannel == Spec => ReportsInOrder
<1>1. Init => Channel!ChanInit
  BY DEF Init, Channel!ChanInit, Authoritative, Active, Terminal, ActiveStatus, Idle
<1>2. TypeOK /\ EventsConsistent /\ [Next]_vars => [Channel!ChanNext]_(Channel!chan)
  BY ChannelStep
<1> QED
  BY <1>1, <1>2, LedgerTypeCorrect, EventsAlways, PTL
     DEF Spec, ReportsInOrder, Channel!ChanSpec

-----------------------------------------------------------------------------
(* Artifacts: which become visible, which are kept, and what a terminal    *)
(* report may count on.                                                    *)

\* What a step of one process does to the record of that process and of others.
LEMMA StepValue ==
  ASSUME TypeOK, NEW t \in Tasks, NEW pc, NEW todo, NEW art, Step(t, pc, todo, art)
  PROVE  /\ task'[t] = [pc |-> pc, todo |-> todo, art |-> art]
         /\ \A u \in Tasks \ {t} : task'[u] = task[u]
BY DEF Step, TypeOK

LEMMA QuitValue ==
  ASSUME TypeOK, NEW t \in Tasks, Quit(t)
  PROVE  /\ task'[t].pc \in {"idle", "list"}
         /\ \A u \in Tasks \ {t} : task'[u] = task[u]
BY DEF Quit, GiveUp, TypeOK

\* A process that waits or lists relies on nothing.
LEMMA RestKnows ==
  ASSUME NEW t, task'[t].pc \in {"idle", "list"}
  PROVE  TaskKnows(t)'
BY DEF TaskKnows

\* What a process relies on survives the steps of others: the outcome and the
\* loss are final, visible files stay, staged files stay while the attempt is
\* active.
LEMMA OthersKnow ==
  ASSUME NEW t, TaskKnows(t), task'[t] = task[t], request' = request,
         Terminal => Terminal', Lost => Lost', visible \subseteq visible',
         Active' => Active /\ staged \subseteq staged'
  PROVE  TaskKnows(t)'
BY DEF TaskKnows, Reapable

\* Steps outside the artifacts and their processes keep them, if they leave the
\* attempt in its class or lose it.
LEMMA ArtifactsFrame ==
  ASSUME ArtifactsConsistent,
         UNCHANGED <<request, staging, visible, task>>, staged \subseteq staged',
         \/ UNCHANGED status
         \/ Active /\ status' \in ActiveStatus \cup LostStatus
  PROVE  ArtifactsConsistent'
<1> USE DEF Active, Terminal, Lost, ActiveStatus, TerminalStatus, LostStatus
<1>1. /\ Terminal => Terminal'
      /\ Terminal' => Terminal
      /\ Lost => Lost'
      /\ Active' => Active
  OBVIOUS
<1>2. OnlyAcceptedVisible' /\ ListedArtifactsKept'
  BY <1>1 DEF ArtifactsConsistent, OnlyAcceptedVisible, ListedArtifactsKept
<1>3. RowsMatchObjects'
  BY <1>1 DEF ArtifactsConsistent, RowsMatchObjects, Verified
<1>4. \A t \in Tasks : TaskKnows(t)'
  BY <1>1, OthersKnow DEF ArtifactsConsistent
<1> QED
  BY <1>2, <1>3, <1>4 DEF ArtifactsConsistent

\* A step of one process that leaves rows and objects alone needs only its own
\* record to be checked.
LEMMA ArtifactsRest ==
  ASSUME ArtifactsConsistent, NEW t,
         UNCHANGED <<request, status, staging, staged, visible>>,
         \A u \in Tasks \ {t} : task'[u] = task[u], TaskKnows(t)'
  PROVE  ArtifactsConsistent'
<1>1. OnlyAcceptedVisible' /\ ListedArtifactsKept' /\ RowsMatchObjects'
  BY DEF ArtifactsConsistent, OnlyAcceptedVisible, ListedArtifactsKept, RowsMatchObjects,
     Verified, Active, Terminal
<1>2. \A u \in Tasks : TaskKnows(u)'
  BY OthersKnow DEF ArtifactsConsistent, Active, Terminal, Lost
<1> QED
  BY <1>1, <1>2 DEF ArtifactsConsistent

\* One that changes only rows, its own record and the rows to be checked.
LEMMA ArtifactsOther ==
  ASSUME ArtifactsConsistent, NEW t, UNCHANGED <<request, status, staged, visible>>,
         \A u \in Tasks \ {t} : task'[u] = task[u], TaskKnows(t)', RowsMatchObjects'
  PROVE  ArtifactsConsistent'
<1>1. OnlyAcceptedVisible' /\ ListedArtifactsKept'
  BY DEF ArtifactsConsistent, OnlyAcceptedVisible, ListedArtifactsKept, Active, Terminal
<1>2. \A u \in Tasks : TaskKnows(u)'
  BY OthersKnow DEF ArtifactsConsistent, Active, Terminal, Lost
<1> QED
  BY <1>1, <1>2 DEF ArtifactsConsistent

\* The Complete handlers.
LEMMA HandlerStep ==
  ASSUME TypeOK, ArtifactsConsistent, NEW h \in Handlers, HandlerNext(h)
  PROVE  ArtifactsConsistent'
<1> USE DEF attemptVars, ledgerVars, artifactVars
<1>0. h \in Tasks
  BY DEF Tasks
<1>1. CASE CompleteCall(h)
  <2>1. UNCHANGED <<request, status, staging, staged, visible>>
    BY <1>1 DEF CompleteCall, TaskUnchanged
  <2> DEFINE todo == IF Terminal THEN {} ELSE request.manifest
  <2>2. /\ task'[h] = [pc |-> "verify", todo |-> todo, art |-> None]
        /\ \A u \in Tasks \ {h} : task'[u] = task[u]
    <3>1. Step(h, "verify", todo, None)
      BY <1>1 DEF CompleteCall
    <3> QED
      BY <1>0, <3>1, StepValue
  <2>3. TaskKnows(h)'
    BY <2>1, <2>2 DEF TaskKnows
  <2> QED
    BY <1>0, <2>1, <2>2, <2>3, ArtifactsRest
<1>2. CASE VerifyObject(h)
  <2>1. UNCHANGED <<request, status, staging, staged, visible>>
    BY <1>2 DEF VerifyObject, TaskUnchanged
  <2>2. PICK a \in task[h].todo :
          IF a \in staged THEN Step(h, "record", task[h].todo, a) ELSE Quit(h)
    BY <1>2 DEF VerifyObject
  <2>3. CASE a \in staged
    <3>1. /\ task'[h] = [pc |-> "record", todo |-> task[h].todo, art |-> a]
          /\ \A u \in Tasks \ {h} : task'[u] = task[u]
      BY <1>0, <2>2, <2>3, StepValue
    <3>2. task[h].todo \subseteq request.manifest
      BY <1>0, <1>2 DEF VerifyObject, ArtifactsConsistent, TaskKnows
    <3>3. TaskKnows(h)'
      BY <2>1, <2>3, <3>1, <3>2 DEF TaskKnows
    <3> QED
      BY <1>0, <2>1, <3>1, <3>3, ArtifactsRest
  <2>4. CASE a \notin staged
    BY <1>0, <2>1, <2>2, <2>4, QuitValue, RestKnows, ArtifactsRest
  <2> QED
    BY <2>3, <2>4
<1>3. CASE RecordVerified(h)
  <2> DEFINE a == task[h].art
  <2>1. UNCHANGED <<request, status, staged, visible>>
    BY <1>3 DEF RecordVerified, TaskUnchanged
  <2>2. /\ a \in task[h].todo /\ task[h].todo \subseteq request.manifest
        /\ Active => a \in staged
    BY <1>0, <1>3 DEF RecordVerified, ArtifactsConsistent, TaskKnows
  <2>3. a \in Artifacts
    BY <1>0, <2>2 DEF TypeOK, TaskRow
  <2>4. \A u \in Tasks \ {h} : task'[u] = task[u]
    BY <1>0, <1>3, StepValue, QuitValue DEF RecordVerified
  <2>5. TaskKnows(h)'
    <3>1. CASE Quit(h)
      BY <1>0, <3>1, QuitValue, RestKnows
    <3>2. CASE Step(h, "verify", task[h].todo \ {a}, None)
      <4>1. task'[h] = [pc |-> "verify", todo |-> task[h].todo \ {a}, art |-> None]
        BY <1>0, <3>2, StepValue
      <4> QED
        BY <2>1, <2>2, <4>1 DEF TaskKnows
    <3> QED
      BY <1>3, <3>1, <3>2 DEF RecordVerified
  <2>6. RowsMatchObjects'
    <3>1. CASE UNCHANGED staging
      BY <2>1, <3>1 DEF ArtifactsConsistent, RowsMatchObjects, Verified, Active, Terminal
    <3>2. CASE staging' = [staging EXCEPT ![a] = Recorded(a)]
      <4>1. \A b \in Artifacts : staging'[b] = IF b = a THEN Recorded(a) ELSE staging[b]
        BY <2>3, <3>2 DEF TypeOK
      <4>2. request.manifest \subseteq Artifacts
        BY LedgerAssumption DEF TypeOK
      <4> QED
        BY <2>1, <2>2, <2>3, <4>1, <4>2
           DEF ArtifactsConsistent, RowsMatchObjects, Verified, Active, Terminal, Recorded
    <3> QED
      BY <1>3, <3>1, <3>2 DEF RecordVerified
  <2> QED
    BY <1>0, <2>1, <2>4, <2>5, <2>6, ArtifactsOther
<1>4. CASE AcceptTerminal(h)
  <2>1. UNCHANGED <<request, staging, staged, visible>>
    BY <1>4 DEF AcceptTerminal, TaskUnchanged
  <2>2. \A u \in Tasks \ {h} : task'[u] = task[u]
    BY <1>0, <1>4, StepValue, QuitValue DEF AcceptTerminal
  <2>3. CASE Acceptable
    <3>1. Active /\ Verified = request.manifest
      BY <2>3 DEF Acceptable, Admitted
    <3>2. status' \in TerminalStatus
      BY <1>4, <2>3, LedgerAssumption DEF AcceptTerminal, TypeOK
    <3>3. Terminal' /\ ~Active' /\ ~Lost /\ ~Terminal
      BY <3>1, <3>2 DEF Terminal, Active, Lost, TerminalStatus, ActiveStatus, LostStatus
    <3>4. TaskKnows(h)'
      <4>1. task'[h] = [pc |-> "promote", todo |-> request.manifest, art |-> None]
        BY <1>0, <1>4, <2>3, StepValue DEF AcceptTerminal
      <4> QED
        BY <2>1, <3>3, <4>1 DEF TaskKnows
    <3>5. \A u \in Tasks : TaskKnows(u)'
      BY <2>1, <2>2, <3>3, <3>4, OthersKnow DEF ArtifactsConsistent
    <3>6. OnlyAcceptedVisible' /\ ListedArtifactsKept'
      BY <2>1, <3>1, <3>3 DEF ArtifactsConsistent, OnlyAcceptedVisible, ListedArtifactsKept,
         RowsMatchObjects
    <3>7. RowsMatchObjects'
      BY <2>1, <3>1, <3>3 DEF ArtifactsConsistent, RowsMatchObjects, Verified
    <3> QED
      BY <3>5, <3>6, <3>7 DEF ArtifactsConsistent
  <2>4. CASE ~Acceptable
    <3>1. UNCHANGED status
      BY <1>4, <2>4 DEF AcceptTerminal
    <3>2. TaskKnows(h)'
      <4>1. CASE Quit(h)
        BY <1>0, <4>1, QuitValue, RestKnows
      <4>2. CASE Terminal /\ Step(h, "promote", request.manifest, None)
        <5>1. task'[h] = [pc |-> "promote", todo |-> request.manifest, art |-> None]
          BY <1>0, <4>2, StepValue
        <5> QED
          BY <2>1, <3>1, <4>2, <5>1 DEF TaskKnows, Terminal
      <4> QED
        BY <1>4, <2>4, <4>1, <4>2 DEF AcceptTerminal
    <3> QED
      BY <2>1, <2>2, <3>1, <3>2, ArtifactsRest
  <2> QED
    BY <2>3, <2>4
<1> QED
  BY <1>1, <1>2, <1>3, <1>4 DEF HandlerNext

\* One that moves objects, when the attempt is over.
LEMMA ObjectsMoved ==
  ASSUME ArtifactsConsistent, NEW t, ~Active, UNCHANGED <<request, status, staging>>,
         visible \subseteq visible', \A a \in visible' : Terminal /\ a \in request.manifest,
         Terminal => request.manifest \subseteq staged' \cup visible',
         \A u \in Tasks \ {t} : task'[u] = task[u], TaskKnows(t)'
  PROVE  ArtifactsConsistent'
<1>1. ~Active' /\ Terminal' = Terminal /\ Lost' = Lost
  BY DEF Active, Terminal, Lost
<1>2. OnlyAcceptedVisible' /\ ListedArtifactsKept' /\ RowsMatchObjects'
  BY <1>1 DEF ArtifactsConsistent, OnlyAcceptedVisible, ListedArtifactsKept, RowsMatchObjects,
     Verified
<1>3. \A u \in Tasks : TaskKnows(u)'
  BY <1>1, OthersKnow DEF ArtifactsConsistent
<1> QED
  BY <1>2, <1>3 DEF ArtifactsConsistent

\* Promotion, by a handler or by maintenance.
LEMMA PromotionStep ==
  ASSUME TypeOK, ArtifactsConsistent, NEW t \in Tasks, PromoteNext(t)
  PROVE  ArtifactsConsistent'
<1> USE DEF attemptVars, ledgerVars, artifactVars
<1>0. /\ Terminal /\ task[t].todo \subseteq request.manifest
      /\ request.manifest \ task[t].todo \subseteq visible
      /\ task[t].pc \in {"copy", "delete"} => task[t].art \in task[t].todo
      /\ task[t].pc = "delete" => task[t].art \in visible
  BY DEF PromoteNext, PromoteHead, PromoteCopy, PromoteDelete, MarkPromoted,
     ArtifactsConsistent, TaskKnows
<1>a. ~Active
  BY <1>0 DEF Terminal, Active, TerminalStatus, ActiveStatus
<1>1. CASE PromoteHead(t)
  <2>1. UNCHANGED <<request, status, staging, staged, visible>>
    BY <1>1 DEF PromoteHead, TaskUnchanged
  <2>2. Terminal'
    BY <1>0, <2>1 DEF Terminal
  <2>3. PICK a \in task[t].todo :
          \/ a \in staged /\ Step(t, "copy", task[t].todo, a)
          \/ /\ a \notin staged /\ a \in visible
             /\ Step(t, "promote", task[t].todo \ {a}, None)
          \/ a \notin staged /\ a \notin visible /\ Quit(t)
    BY <1>1 DEF PromoteHead
  <2>4. CASE Step(t, "copy", task[t].todo, a)
    <3>1. /\ task'[t] = [pc |-> "copy", todo |-> task[t].todo, art |-> a]
          /\ \A u \in Tasks \ {t} : task'[u] = task[u]
      BY <2>4, StepValue
    <3>2. TaskKnows(t)'
      BY <1>0, <2>1, <2>2, <2>3, <3>1 DEF TaskKnows
    <3> QED
      BY <2>1, <3>1, <3>2, ArtifactsRest
  <2>5. CASE a \in visible /\ Step(t, "promote", task[t].todo \ {a}, None)
    <3>1. /\ task'[t] = [pc |-> "promote", todo |-> task[t].todo \ {a}, art |-> None]
          /\ \A u \in Tasks \ {t} : task'[u] = task[u]
      BY <2>5, StepValue
    <3>2. TaskKnows(t)'
      BY <1>0, <2>1, <2>2, <2>5, <3>1 DEF TaskKnows
    <3> QED
      BY <2>1, <3>1, <3>2, ArtifactsRest
  <2>6. CASE Quit(t)
    BY <2>1, <2>6, QuitValue, RestKnows, ArtifactsRest
  <2> QED
    BY <2>3, <2>4, <2>5, <2>6
<1>2. CASE PromoteCopy(t)
  <2>1. UNCHANGED <<request, status, staging, staged>>
    BY <1>2 DEF PromoteCopy, TaskUnchanged
  <2>2. task[t].art \in task[t].todo
    BY <1>0, <1>2 DEF PromoteCopy
  <2>3. CASE task[t].art \in staged
    <3>1. /\ task'[t] = [pc |-> "delete", todo |-> task[t].todo, art |-> task[t].art]
          /\ \A u \in Tasks \ {t} : task'[u] = task[u]
      BY <1>2, <2>3, StepValue DEF PromoteCopy
    <3>2. visible' = visible \cup {task[t].art}
      BY <1>2, <2>3 DEF PromoteCopy
    <3>3. TaskKnows(t)'
      BY <1>0, <2>1, <2>2, <3>1, <3>2 DEF TaskKnows, Terminal
    <3>4. \A a \in visible' : Terminal /\ a \in request.manifest
      BY <1>0, <2>2, <3>2 DEF ArtifactsConsistent, OnlyAcceptedVisible
    <3>5. request.manifest \subseteq staged' \cup visible'
      BY <1>0, <2>1, <3>2 DEF ArtifactsConsistent, ListedArtifactsKept
    <3> QED
      BY <1>a, <2>1, <3>1, <3>2, <3>3, <3>4, <3>5, ObjectsMoved
  <2>4. CASE task[t].art \notin staged
    BY <1>2, <2>1, <2>4, QuitValue, RestKnows, ArtifactsRest DEF PromoteCopy
  <2> QED
    BY <2>3, <2>4
<1>3. CASE PromoteDelete(t)
  <2>1. UNCHANGED <<request, status, staging, visible>>
    BY <1>3 DEF PromoteDelete, TaskUnchanged
  <2>2. task[t].art \in task[t].todo /\ task[t].art \in visible
    BY <1>0, <1>3 DEF PromoteDelete
  <2>3. /\ task'[t] = [pc |-> "promote", todo |-> task[t].todo \ {task[t].art}, art |-> None]
        /\ \A u \in Tasks \ {t} : task'[u] = task[u]
    BY <1>3, StepValue DEF PromoteDelete
  <2>4. TaskKnows(t)'
    BY <1>0, <2>1, <2>2, <2>3 DEF TaskKnows, Terminal
  <2>5. \A a \in visible' : Terminal /\ a \in request.manifest
    BY <2>1 DEF ArtifactsConsistent, OnlyAcceptedVisible
  <2>6. request.manifest \subseteq staged' \cup visible'
    <3>1. staged' = staged \ {task[t].art}
      BY <1>3 DEF PromoteDelete
    <3> QED
      BY <1>0, <2>1, <2>2, <3>1 DEF ArtifactsConsistent, ListedArtifactsKept
  <2> QED
    BY <1>a, <2>1, <2>3, <2>4, <2>5, <2>6, ObjectsMoved
<1>4. CASE MarkPromoted(t)
  <2>1. UNCHANGED <<request, status, staged, visible>>
    BY <1>4 DEF MarkPromoted, TaskUnchanged
  <2>2. Quit(t)
    BY <1>4 DEF MarkPromoted
  <2>3. request.manifest \subseteq visible
    BY <1>0, <1>4 DEF MarkPromoted
  <2>4. ~Active'
    BY <1>a, <2>1 DEF Active
  <2>5. RowsMatchObjects'
    <3>1. CASE UNCHANGED staging
      BY <2>1, <3>1 DEF ArtifactsConsistent, RowsMatchObjects, Verified, Active, Terminal
    <3>2. CASE staging' = [a \in Artifacts |->
                 IF a \in request.manifest THEN "promoted" ELSE staging[a]]
      <4>1. request.manifest \subseteq Artifacts
        BY LedgerAssumption DEF TypeOK
      <4> QED
        BY <2>1, <2>3, <2>4, <3>2, <4>1 DEF ArtifactsConsistent, RowsMatchObjects
    <3> QED
      BY <1>4, <3>1, <3>2 DEF MarkPromoted
  <2> QED
    BY <2>1, <2>2, <2>5, QuitValue, RestKnows, ArtifactsOther
<1> QED
  BY <1>1, <1>2, <1>3, <1>4 DEF PromoteNext

\* The maintenance loop: a file it deletes is one that stays reapable.
LEMMA MaintenanceStep ==
  ASSUME TypeOK, ArtifactsConsistent, MaintenanceNext
  PROVE  ArtifactsConsistent'
<1> USE DEF attemptVars, ledgerVars, artifactVars
<1> DEFINE M == Maintenance
<1>0. M \in Tasks
  BY DEF Tasks
<1>1. CASE MaintenanceTick
  <2>1. UNCHANGED <<request, status, staging, staged, visible>>
    BY <1>1 DEF MaintenanceTick, TaskUnchanged
  <2>2. CASE Terminal /\ Step(M, "promote", request.manifest, None)
    <3>1. /\ task'[M] = [pc |-> "promote", todo |-> request.manifest, art |-> None]
          /\ \A u \in Tasks \ {M} : task'[u] = task[u]
      BY <1>0, <2>2, StepValue
    <3>2. TaskKnows(M)'
      BY <2>1, <2>2, <3>1 DEF TaskKnows, Terminal
    <3> QED
      BY <2>1, <3>1, <3>2, ArtifactsRest
  <2>3. CASE Quit(M)
    BY <1>0, <2>1, <2>3, QuitValue, RestKnows, ArtifactsRest
  <2> QED
    BY <1>1, <2>2, <2>3 DEF MaintenanceTick
<1>2. CASE ListReapable
  <2> DEFINE due == {a \in aged : staging[a] \in {"granted", "verified"} /\ Reapable(a)}
  <2>1. UNCHANGED <<request, status, staging, staged, visible>>
    BY <1>2 DEF ListReapable, TaskUnchanged
  <2>2. /\ task'[M] = [pc |-> "reap", todo |-> due, art |-> None]
        /\ \A u \in Tasks \ {M} : task'[u] = task[u]
    <3>1. Step(M, "reap", due, None)
      BY <1>2 DEF ListReapable
    <3> QED
      BY <1>0, <3>1, StepValue
  <2>3. \A a \in due : Reapable(a)'
    BY <2>1 DEF Reapable, Lost, Terminal
  <2>4. TaskKnows(M)'
    BY <2>2, <2>3 DEF TaskKnows
  <2> QED
    BY <2>1, <2>2, <2>4, ArtifactsRest
<1>3. CASE ReapObject
  <2>1. UNCHANGED <<request, status, staging, visible>>
    BY <1>3 DEF ReapObject, TaskUnchanged
  <2>2. PICK a \in task[M].todo : staged' = staged \ {a} /\ Step(M, "reaped", task[M].todo, a)
    BY <1>3 DEF ReapObject
  <2>3. /\ task'[M] = [pc |-> "reaped", todo |-> task[M].todo, art |-> a]
        /\ \A u \in Tasks \ {M} : task'[u] = task[u]
    BY <1>0, <2>2, StepValue
  <2>4. \A b \in task[M].todo : Reapable(b) /\ Reapable(b)'
    BY <1>0, <1>3, <2>1 DEF ReapObject, ArtifactsConsistent, TaskKnows, Reapable, Lost, Terminal
  <2>5. ~Active /\ (Terminal => a \notin request.manifest)
    BY <2>2, <2>4 DEF Reapable, Active, Lost, Terminal, ActiveStatus, LostStatus, TerminalStatus
  <2>6. TaskKnows(M)'
    BY <2>3, <2>4 DEF TaskKnows
  <2>7. \A b \in visible' : Terminal /\ b \in request.manifest
    BY <2>1 DEF ArtifactsConsistent, OnlyAcceptedVisible
  <2>8. Terminal => request.manifest \subseteq staged' \cup visible'
    BY <2>1, <2>2, <2>5 DEF ArtifactsConsistent, ListedArtifactsKept
  <2> QED
    BY <2>1, <2>3, <2>5, <2>6, <2>7, <2>8, ObjectsMoved
<1>4. CASE MarkReaped
  <2> DEFINE a == task[M].art
  <2>1. UNCHANGED <<request, status, staged, visible>>
    BY <1>4 DEF MarkReaped, TaskUnchanged
  <2>2. /\ task'[M] = [pc |-> "reap", todo |-> task[M].todo \ {a}, art |-> None]
        /\ \A u \in Tasks \ {M} : task'[u] = task[u]
    BY <1>0, <1>4, StepValue DEF MarkReaped
  <2>3. TaskKnows(M)'
    <3>1. \A b \in task[M].todo : Reapable(b)'
      BY <1>0, <1>4, <2>1 DEF MarkReaped, ArtifactsConsistent, TaskKnows, Reapable, Lost, Terminal
    <3> QED
      BY <2>2, <3>1 DEF TaskKnows
  <2>4. RowsMatchObjects'
    <3>1. CASE UNCHANGED staging
      BY <2>1, <3>1 DEF ArtifactsConsistent, RowsMatchObjects, Verified, Active, Terminal
    <3>2. CASE Reapable(a) /\ staging' = [staging EXCEPT ![a] = "reaped"]
      <4>1. ~Active' /\ Terminal' = Terminal /\ (Terminal => a \notin request.manifest)
        BY <2>1, <3>2 DEF Reapable, Active, Lost, Terminal, ActiveStatus, LostStatus,
           TerminalStatus
      <4>2. \A b \in Artifacts : staging'[b] = staging[b] \/ (b = a /\ staging'[b] = "reaped")
        BY <3>2 DEF TypeOK
      <4>3. request.manifest \subseteq Artifacts
        BY LedgerAssumption DEF TypeOK
      <4> QED
        BY <2>1, <4>1, <4>2, <4>3 DEF ArtifactsConsistent, RowsMatchObjects
    <3> QED
      BY <1>4, <3>1, <3>2 DEF MarkReaped
  <2> QED
    BY <2>1, <2>2, <2>3, <2>4, ArtifactsOther
<1>5. CASE MaintenanceDone
  <2>1. UNCHANGED <<request, status, staging, staged, visible>>
    BY <1>5 DEF MaintenanceDone, TaskUnchanged
  <2>2. /\ task'[M] = [pc |-> "idle", todo |-> {}, art |-> None]
        /\ \A u \in Tasks \ {M} : task'[u] = task[u]
    BY <1>0, <1>5, StepValue DEF MaintenanceDone
  <2> QED
    BY <2>1, <2>2, RestKnows, ArtifactsRest
<1> QED
  BY <1>1, <1>2, <1>3, <1>4, <1>5 DEF MaintenanceNext

\* Failing calls and restarts: the effect a failed call may still have had is
\* one the call could have had, and a process that stops relies on nothing.
LEMMA FailureStep ==
  ASSUME TypeOK, ArtifactsConsistent,
         ReapFails \/ Crash \/ \E t \in Tasks : TaskFails(t)
  PROVE  ArtifactsConsistent'
<1> USE DEF attemptVars, ledgerVars, artifactVars
<1>1. CASE ReapFails
  <2> DEFINE M == Maintenance
  <2>0. M \in Tasks
    BY DEF Tasks
  <2>1. UNCHANGED <<request, status, staging, visible>>
    BY <1>1 DEF ReapFails
  <2>2. PICK a \in task[M].todo : /\ staged' \in {staged, staged \ {a}}
                                  /\ Step(M, "reap", task[M].todo \ {a}, None)
    BY <1>1 DEF ReapFails
  <2>3. /\ task'[M] = [pc |-> "reap", todo |-> task[M].todo \ {a}, art |-> None]
        /\ \A u \in Tasks \ {M} : task'[u] = task[u]
    BY <2>0, <2>2, StepValue
  <2>4. \A b \in task[M].todo : Reapable(b) /\ Reapable(b)'
    BY <2>0, <1>1, <2>1 DEF ReapFails, ArtifactsConsistent, TaskKnows, Reapable, Lost, Terminal
  <2>5. ~Active /\ (Terminal => a \notin request.manifest)
    BY <2>2, <2>4 DEF Reapable, Active, Lost, Terminal, ActiveStatus, LostStatus, TerminalStatus
  <2>6. TaskKnows(M)'
    BY <2>3, <2>4 DEF TaskKnows
  <2>7. \A b \in visible' : Terminal /\ b \in request.manifest
    BY <2>1 DEF ArtifactsConsistent, OnlyAcceptedVisible
  <2>8. Terminal => request.manifest \subseteq staged' \cup visible'
    BY <2>1, <2>2, <2>5 DEF ArtifactsConsistent, ListedArtifactsKept
  <2> QED
    BY <2>1, <2>3, <2>5, <2>6, <2>7, <2>8, ObjectsMoved
<1>2. CASE Crash
  <2>1. UNCHANGED <<request, status, staging, staged, visible>>
    BY <1>2 DEF Crash
  <2>2. \A t \in Tasks : TaskKnows(t)'
    <3>1. \A t \in Tasks : task'[t].pc = "idle"
      BY <1>2 DEF Crash, IdleTask
    <3> QED
      BY <3>1, RestKnows
  <2>3. OnlyAcceptedVisible' /\ ListedArtifactsKept' /\ RowsMatchObjects'
    BY <2>1 DEF ArtifactsConsistent, OnlyAcceptedVisible, ListedArtifactsKept, RowsMatchObjects,
       Verified, Active, Terminal
  <2> QED
    BY <2>2, <2>3 DEF ArtifactsConsistent
<1>3. ASSUME NEW t \in Tasks, TaskFails(t) PROVE ArtifactsConsistent'
  <2>1. UNCHANGED <<request, status, staging>>
    BY <1>3 DEF TaskFails
  <2>2. task'[t].pc \in {"idle", "list"} /\ \A u \in Tasks \ {t} : task'[u] = task[u]
    BY <1>3 DEF TaskFails, TypeOK, GiveUp, IdleTask
  <2>3. TaskKnows(t)'
    BY <2>2, RestKnows
  <2>4. CASE UNCHANGED <<staged, visible>>
    BY <2>1, <2>2, <2>3, <2>4, ArtifactsRest
  <2>5. CASE ~UNCHANGED <<staged, visible>>
    <3>1. task[t].pc \in {"copy", "delete"}
      BY <1>3, <2>5 DEF TaskFails
    <3>2. /\ Terminal /\ task[t].art \in request.manifest
          /\ task[t].pc = "delete" => task[t].art \in visible
      BY <3>1 DEF ArtifactsConsistent, TaskKnows
    <3>3. ~Active
      BY <3>2 DEF Terminal, Active, TerminalStatus, ActiveStatus
    <3>4. visible \subseteq visible' /\ visible' \subseteq visible \cup {task[t].art}
      BY <1>3 DEF TaskFails
    <3>5. staged \subseteq staged' \cup visible
      BY <1>3, <3>2 DEF TaskFails
    <3>6. \A a \in visible' : Terminal /\ a \in request.manifest
      BY <3>2, <3>4 DEF ArtifactsConsistent, OnlyAcceptedVisible
    <3>7. request.manifest \subseteq staged' \cup visible'
      BY <3>2, <3>4, <3>5 DEF ArtifactsConsistent, ListedArtifactsKept
    <3> QED
      BY <2>1, <2>2, <2>3, <3>3, <3>4, <3>6, <3>7, ObjectsMoved
  <2> QED
    BY <2>4, <2>5
<1> QED
  BY <1>1, <1>2, <1>3

\* Every step keeps rows, objects and what the processes rely on together.
LEMMA ArtifactsStep == TypeOK /\ ArtifactsConsistent /\ [Next]_vars => ArtifactsConsistent'
<1> SUFFICES ASSUME TypeOK, ArtifactsConsistent, [Next]_vars PROVE ArtifactsConsistent'
  OBVIOUS
<1> USE DEF attemptVars, ledgerVars, artifactVars, reportVars
<1>1. CASE IngestEvent \/ IngestProgress
  BY <1>1, ArtifactsFrame DEF IngestEvent, IngestProgress
<1>2. CASE RequestCancel \/ Expire \/ Fence
  BY <1>2, ArtifactsFrame
     DEF RequestCancel, Expire, Fence, Active, ActiveStatus, LostStatus
<1>3. CASE LeaseLapses \/ ChangeRegistry
  BY <1>3, ArtifactsFrame DEF LeaseLapses, ChangeRegistry
<1>4. ASSUME NEW a \in Artifacts, ArtifactGrant(a) PROVE ArtifactsConsistent'
  <2>1. UNCHANGED <<request, status, staged, visible, task>>
    BY <1>4 DEF ArtifactGrant
  <2>2. \A b \in Artifacts :
          staging'[b] = staging[b] \/ (b = a /\ staging'[b] = "granted")
    BY <1>4 DEF ArtifactGrant, TypeOK
  <2>3. ~Terminal'
    BY <1>4, <2>1
       DEF ArtifactGrant, Admitted, Active, Terminal, ActiveStatus, TerminalStatus
  <2>4. RowsMatchObjects'
    BY <2>1, <2>2, <2>3 DEF ArtifactsConsistent, RowsMatchObjects, Verified, Active
  <2>5. TaskKnows(Maintenance)'
    BY <2>1, OthersKnow DEF ArtifactsConsistent, Tasks, Active, Terminal, Lost
  <2> QED
    BY <2>1, <2>4, <2>5, ArtifactsOther
<1>5. CASE \E a \in Artifacts : Upload(a)
  BY <1>5, ArtifactsFrame DEF Upload
<1>6. CASE \E a \in Artifacts : GrantLapses(a) \/ StagingAges(a)
  BY <1>6, ArtifactsFrame DEF GrantLapses, StagingAges
<1>7. CASE FetchEvents \/ CheckEvent \/ ReportEvent \/ MarkEvent \/ FetchProgress
  BY <1>7, ArtifactsFrame
     DEF FetchEvents, CheckEvent, ReportEvent, MarkEvent, FetchProgress, ProjUnchanged
<1>8. CASE CheckProgress \/ ReportProgress \/ MarkProgress \/ TickDone \/ TickFails
  BY <1>8, ArtifactsFrame
     DEF CheckProgress, ReportProgress, MarkProgress, TickDone, TickFails, ProjUnchanged
<1>9. CASE UNCHANGED vars
  BY <1>9, ArtifactsFrame DEF vars
<1>10. CASE \E h \in Handlers : HandlerNext(h)
  BY <1>10, HandlerStep
<1>11. CASE \E t \in Tasks : PromoteNext(t)
  BY <1>11, PromotionStep
<1>12. CASE MaintenanceNext
  BY <1>12, MaintenanceStep
<1>13. CASE ReapFails \/ Crash \/ \E t \in Tasks : TaskFails(t)
  BY <1>13, FailureStep
<1> QED
  BY <1>1, <1>2, <1>3, <1>4, <1>5, <1>6, <1>7, <1>8, <1>9, <1>10, <1>11, <1>12, <1>13
     DEF Next, WorkerNext, WorldNext, TickNext, FailureNext

\* Rows, objects and processes agree in every reachable state, whatever calls
\* overlap, fail or are cut off by a restart.
THEOREM ArtifactsAlways == Spec => []ArtifactsConsistent
<1>1. Init => ArtifactsConsistent
  BY DEF Init, ArtifactsConsistent, OnlyAcceptedVisible, ListedArtifactsKept,
     RowsMatchObjects, Verified, Terminal, TerminalStatus, TaskKnows, IdleTask
<1>2. TypeOK /\ ArtifactsConsistent /\ [Next]_vars => ArtifactsConsistent'
  BY ArtifactsStep
<1> QED
  BY <1>1, <1>2, LedgerTypeCorrect, PTL DEF Spec

\* Acceptance keeps its promise: promote_fleet_upload and the reaper never leave
\* a listed artifact neither staged nor visible.
THEOREM ListedAlwaysKept == Spec => []ListedArtifactsKept
<1>1. ArtifactsConsistent => ListedArtifactsKept
  BY DEF ArtifactsConsistent
<1> QED
  BY <1>1, ArtifactsAlways, PTL

\* Only listed artifacts of an accepted attempt are ever copied to a logical key.
THEOREM AlwaysOnlyAcceptedVisible == Spec => []OnlyAcceptedVisible
<1>1. ArtifactsConsistent => OnlyAcceptedVisible
  BY DEF ArtifactsConsistent
<1> QED
  BY <1>1, ArtifactsAlways, PTL

\* The outcome, once accepted, and a visible object are there to stay.
LEMMA OutcomeStays ==
  ASSUME TypeOK, [Next]_vars
  PROVE  /\ request' = request
         /\ visible \subseteq visible'
         /\ Terminal => Terminal'
<1> USE LedgerAssumption DEF TypeOK, Terminal, Active, Lost, TerminalStatus, ActiveStatus, attemptVars,
        artifactVars, reportVars, TaskUnchanged, ProjUnchanged
<1>1. CASE IngestEvent \/ IngestProgress \/ RequestCancel \/ LeaseLapses \/ ChangeRegistry
           \/ Expire \/ Fence
  BY <1>1 DEF IngestEvent, IngestProgress, RequestCancel, LeaseLapses, ChangeRegistry, Expire,
     Fence
<1>2. CASE \E a \in Artifacts :
             ArtifactGrant(a) \/ Upload(a) \/ GrantLapses(a) \/ StagingAges(a)
  BY <1>2 DEF ArtifactGrant, Upload, GrantLapses, StagingAges
<1>3. CASE \E h \in Handlers :
             CompleteCall(h) \/ VerifyObject(h) \/ RecordVerified(h) \/ AcceptTerminal(h)
  BY <1>3 DEF CompleteCall, VerifyObject, RecordVerified, AcceptTerminal, Acceptable, Admitted
<1>4. CASE \E t \in Tasks :
             PromoteHead(t) \/ PromoteCopy(t) \/ PromoteDelete(t) \/ MarkPromoted(t)
  BY <1>4 DEF PromoteHead, PromoteCopy, PromoteDelete, MarkPromoted
<1>5. CASE MaintenanceTick \/ ListReapable \/ ReapObject \/ MarkReaped \/ MaintenanceDone
  BY <1>5 DEF MaintenanceTick, ListReapable, ReapObject, MarkReaped, MaintenanceDone
<1>6. CASE TickNext
  BY <1>6 DEF TickNext, FetchEvents, CheckEvent, ReportEvent, MarkEvent, FetchProgress,
     CheckProgress, ReportProgress, MarkProgress, TickDone
<1>7. CASE TickFails \/ ReapFails \/ Crash \/ \E t \in Tasks : TaskFails(t)
  BY <1>7 DEF TickFails, ReapFails, Crash, TaskFails
<1>8. CASE UNCHANGED vars
  BY <1>8 DEF vars
<1> QED
  BY <1>1, <1>2, <1>3, <1>4, <1>5, <1>6, <1>7, <1>8, StepCases DEF TickNext

\* The terminal is sent only after CheckEvent found it accepted and promoted.
LEMMA TerminalStep ==
  TypeOK /\ ArtifactsConsistent /\ TerminalConsistent /\ [Next]_vars => TerminalConsistent'
<1> SUFFICES ASSUME TypeOK, ArtifactsConsistent, TerminalConsistent, [Next]_vars
             PROVE  TerminalConsistent'
  OBVIOUS
<1> DEFINE Ready == Terminal /\ request.manifest \subseteq visible
<1>1. request' = request /\ (Ready => Ready')
  BY OutcomeStays
<1>2. CASE CheckEvent
  <2>1. UNCHANGED <<request, status, visible, shown, staging>>
    BY <1>2 DEF CheckEvent, ProjUnchanged, attemptVars, artifactVars
  <2>2. Reportable(request.last) => Ready
    <3>1. request.manifest \subseteq Artifacts
      BY LedgerAssumption DEF TypeOK
    <3> QED
      BY <3>1 DEF Reportable, Verified, ArtifactsConsistent, RowsMatchObjects
  <2>3. proj'.pc = "report" /\ proj'.item = request.last => Reportable(request.last)
    BY <1>2 DEF CheckEvent, Turn
  <2>4. proj'.pc \in {"report", "fetch"}
    BY <1>2 DEF CheckEvent, Turn
  <2> QED
    BY <1>1, <2>1, <2>2, <2>3, <2>4 DEF TerminalConsistent, TerminalReportComplete
<1>3. CASE ReportEvent
  <2>1. shown' = proj.item /\ proj.pc = "report" /\ proj'.item = proj.item
    BY <1>3 DEF ReportEvent, Turn
  <2> QED
    BY <1>1, <2>1 DEF TerminalConsistent, TerminalReportComplete
<1>4. CASE TickFails
  <2>1. proj'.pc = "idle" /\ (shown' = shown \/ (proj.pc = "report" /\ shown' = proj.item))
    BY <1>4 DEF TickFails, Idle
  <2> QED
    BY <1>1, <2>1 DEF TerminalConsistent, TerminalReportComplete
<1>5. CASE UNCHANGED shown /\ (UNCHANGED proj \/ proj'.pc \notin {"report", "mark"})
  BY <1>1, <1>5 DEF TerminalConsistent, TerminalReportComplete
<1>6. CASE FetchEvents \/ MarkEvent \/ FetchProgress \/ TickDone \/ Crash
  BY <1>5, <1>6 DEF FetchEvents, MarkEvent, FetchProgress, TickDone, Crash, Turn, Idle
<1>7. CASE CheckProgress \/ ReportProgress \/ MarkProgress
  BY <1>5, <1>7 DEF CheckProgress, ReportProgress, MarkProgress, Turn
<1>8. CASE UNCHANGED <<proj, shown>>
  BY <1>5, <1>8
<1>9. CASE IngestEvent \/ IngestProgress \/ RequestCancel \/ LeaseLapses \/ ChangeRegistry
           \/ Expire \/ Fence
  BY <1>8, <1>9 DEF IngestEvent, IngestProgress, RequestCancel, LeaseLapses, ChangeRegistry,
     Expire, Fence, reportVars
<1>10. CASE \E a \in Artifacts :
              ArtifactGrant(a) \/ Upload(a) \/ GrantLapses(a) \/ StagingAges(a)
  BY <1>8, <1>10 DEF ArtifactGrant, Upload, GrantLapses, StagingAges, reportVars
<1>11. CASE \E h \in Handlers : HandlerNext(h)
  BY <1>8, <1>11 DEF HandlerNext, CompleteCall, VerifyObject, RecordVerified, AcceptTerminal,
     TaskUnchanged, reportVars
<1>12. CASE \E t \in Tasks : PromoteNext(t) \/ TaskFails(t)
  BY <1>8, <1>12 DEF PromoteNext, PromoteHead, PromoteCopy, PromoteDelete, MarkPromoted,
     TaskFails, TaskUnchanged, reportVars
<1>13. CASE MaintenanceNext \/ ReapFails
  BY <1>8, <1>13 DEF MaintenanceNext, MaintenanceTick, ListReapable, ReapObject, MarkReaped,
     MaintenanceDone, ReapFails, TaskUnchanged, reportVars
<1>14. CASE UNCHANGED vars
  BY <1>8, <1>14 DEF vars, reportVars
<1> QED
  BY <1>2, <1>3, <1>4, <1>6, <1>7, <1>9, <1>10, <1>11, <1>12, <1>13, <1>14
     DEF Next, WorkerNext, WorldNext, TickNext, FailureNext

\* A terminal report is made only of an accepted outcome whose listed artifacts
\* are all visible (attempt_terminal_outcome looks at rows only).
THEOREM TerminalAlwaysComplete == Spec => []TerminalReportComplete
<1>1. Init => TerminalConsistent
  BY LedgerAssumption DEF Init, TerminalConsistent, TerminalReportComplete, Idle
<1>2. TypeOK /\ ArtifactsConsistent /\ TerminalConsistent /\ [Next]_vars => TerminalConsistent'
  BY TerminalStep
<1>3. TerminalConsistent => TerminalReportComplete
  BY DEF TerminalConsistent
<1> QED
  BY <1>1, <1>2, <1>3, LedgerTypeCorrect, ArtifactsAlways, PTL DEF Spec
=============================================================================
