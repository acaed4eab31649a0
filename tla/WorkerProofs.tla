----------------------------- MODULE WorkerProofs -----------------------------
(***************************************************************************)
(* What a worker tells the receiver of its webhooks and the gateway, and   *)
(* in which order, in every run.  Module Worker has no constants, and TLC  *)
(* has seen all its states: the proofs say why the properties hold, and go *)
(* on holding whatever is added to the alerts or to the clock.             *)
(***************************************************************************)
EXTENDS Worker, TLAPS

\* Where the worker stands, or will stand when it has sent a webhook.
Place == IF pc = "send" THEN back ELSE pc

EndSent == {"endedEarlySent", "endedSent", "endlistSent", "errorEndSent"}

Monitoring ==
    {"getManifest", "monTop", "askStillLive", "endedSent", "refresh", "analyzeTop",
     "endlistSent", "getSegment", "checked", "fetch", "analyze", "resumedSent", "black",
     "silence", "update", "cycleOk", "segError", "askErrorLive", "unanswered", "errorEndSent",
     "sleep"}

\* Where a worker that is to stop can be without sending another suspension or
\* resumption.
Leaving ==
    {"checked", "resumedSent", "black", "silence", "update", "cycleOk", "segError",
     "askErrorLive", "unanswered", "errorEndSent", "sleep", "monTop", "run", "failing", "exit"}

Returns ==
    EndSent \cup {"endedEarly", "waitTop", "startedSent", "checked", "resumedSent",
                  "silence", "update", "sleep"}

\* What is sent, and where the worker goes on after it.
Sending ==
    pc = "send" =>
        /\ back \in Returns
        /\ saying = "stream.started" <=> back = "startedSent"
        /\ saying = "stream.ended" <=> back \in EndSent
        /\ saying = "stream.suspended" => back = "checked" /\ suspendedAlertSent
        /\ saying = "stream.resumed" => back = "resumedSent" /\ ~suspendedAlertSent

\* The worker monitors nothing it has not announced, unless it is to stop.
Announced ==
    /\ Place \in Monitoring => "stream.started" \in told \/ cancelled
    /\ state = "monitoring" \/ (pc = "startedSent" /\ state # "error") =>
          "stream.started" \in told \/ cancelled \/ shutdown

\* The flag is what the receiver knows, but for a webhook on its way and for a worker
\* that is to stop.
FlagIsOutage ==
    \/ outage <=> suspendedAlertSent
    \/ cancelled
    \/ pc = "send" /\ saying \in {"stream.suspended", "stream.resumed"}
    \/ (state = "error" \/ shutdown) /\ Place \in Leaving

\* After a failure the worker looks at no stream.
FailureSeen ==
    /\ pc \in {"askStillLive", "refresh", "analyzeTop"} => state # "error"
    /\ pc = "send" /\ back = "endlistSent" => state # "error"

EndDelivered ==
    pc \in {"endedEarlySent", "errorEndSent"} =>
        "stream.ended" \in told \/ state = "error" \/ shutdown \/ cancelled

\* Where a worker can be whose receiver has got stream.ended.
EndTold ==
    "stream.ended" \in told =>
        \/ pc = "send" /\ back = "endedSent"
        \/ pc \in {"endedSent", "endedEarlySent", "errorEndSent", "failing", "exit"}
        \/ pc = "endlistSent" /\ state # "error"
        \/ state = "completed" /\
              pc \in {"run", "cycleOk", "sleep", "monTop", "askStillLive", "refresh"}

\* Where a worker can be that has reported a terminal status.
FinalTold ==
    Final(reported) => pc \in {"failing", "exit"} \/ (pc = "run" /\ state = "completed")

\* What follows an analysis.
Alerting ==
    \/ CheckFailed("checked", "cycleOk") \/ CheckFailed("resumedSent", "black")
    \/ Detect("black", "alert.blackout", "silence")
    \/ Detect("silence", "alert.silence", "update")
    \/ ReportUpdate

IInv ==
    /\ TypeOK /\ Sending /\ Announced /\ FlagIsOutage /\ FailureSeen /\ EndDelivered
    /\ EndTold /\ FinalTold

-----------------------------------------------------------------------------
\* The parts of the type invariant.

Labels ==
    pc \in Label /\ back \in Label /\ saying \in Event \cup {"nothing"}

Values ==
    /\ state \in {"waiting", "monitoring", "completed", "error"}
    /\ reported \in {"none", "waiting", "monitoring", "completed", "stopped", "error"}
    /\ moved \in {"no", "new", "old"} /\ errorStart \in {"none", "fresh", "old"}
    /\ stream \in {"upcoming", "live", "over"}

Told == told \subseteq Milestones

Booleans ==
    /\ cancelled \in BOOLEAN /\ shutdown \in BOOLEAN /\ delayAlertSent \in BOOLEAN
    /\ suspendedAlertSent \in BOOLEAN /\ segmentErrorSent \in BOOLEAN
    /\ manifestURLChanged \in BOOLEAN /\ rebaseline \in BOOLEAN /\ stale \in BOOLEAN
    /\ liveDue \in BOOLEAN /\ delayDue \in BOOLEAN /\ fresh \in BOOLEAN
    /\ outage \in BOOLEAN

LEMMA TypeParts == TypeOK <=> Labels /\ Values /\ Told /\ Booleans
BY DEF TypeOK, Labels, Values, Told, Booleans

LEMMA LabelsOK ==
    ASSUME Labels, [Next]_vars PROVE Labels'
<1> USE DEF Labels, Label, Event, Milestones, Goto, Send, run, signals, flags, clock,
           outside, record
<1>1. ASSUME WebhookDelivered \/ WebhookFails PROVE Labels'
  BY <1>1 DEF WebhookDelivered, WebhookFails, Return
<1>2. ASSUME Boot \/ RunLoop \/ Fail PROVE Labels'
  BY <1>2 DEF Boot, RunLoop, Fail, Report
<1>3. ASSUME WaitTop \/ AskLive \/ EndedEarly \/ EndedEarlySent \/ StartedSent
      PROVE  Labels'
  BY <1>3 DEF WaitTop, AskLive, FoundLive, EndedEarly, EndedEarlySent, StartedSent,
         Complete, Report
<1>4. ASSUME GetManifest \/ MonitorTop \/ AskStillLive \/ EndedSent \/ Refresh
      PROVE  Labels'
  BY <1>4 DEF GetManifest, MonitorTop, AskStillLive, EndedSent, Refresh, Complete
<1>5. ASSUME AnalyzeTop \/ EndListSent \/ GetSegment \/ FetchSegment \/ AnalyzeSegment
      PROVE  Labels'
  BY <1>5 DEF AnalyzeTop, EndListSent, GetSegment, LooksNew, SegmentFound, FetchSegment,
         AnalyzeSegment, Resumes
<1>6. ASSUME Alerting PROVE Labels'
  BY <1>6 DEF Alerting, CheckFailed, Detect, ReportUpdate, Report
<1>7. ASSUME CycleOk \/ SegmentError \/ AskErrorLive \/ Unanswered \/ ErrorEndSent \/ Sleep
      PROVE  Labels'
  BY <1>7 DEF CycleOk, SegmentError, AskErrorLive, Unanswered, ErrorEndSent, Complete, Report, Sleep
<1>8. ASSUME CancelWork \/ RequestShutdown \/ Tick \/ StreamMoves \/ UNCHANGED vars
      PROVE  Labels'
  BY <1>8 DEF CancelWork, RequestShutdown, Tick, LiveCheckDue, ErrorAges, StreamMoves,
         vars
<1>9. QED
  BY <1>1, <1>2, <1>3, <1>4, <1>5, <1>6, <1>7, <1>8 DEF Next, Step, Alerting

LEMMA ValuesOK ==
    ASSUME Values, [Next]_vars PROVE Values'
<1> USE DEF Values, Goto, Send, run, signals, flags, clock, outside, record
<1>1. ASSUME WebhookDelivered \/ WebhookFails PROVE Values'
  BY <1>1 DEF WebhookDelivered, WebhookFails, Return
<1>2. ASSUME Boot \/ RunLoop \/ Fail PROVE Values'
  BY <1>2 DEF Boot, RunLoop, Fail, Report
<1>3. ASSUME WaitTop \/ AskLive \/ EndedEarly \/ EndedEarlySent \/ StartedSent
      PROVE  Values'
  BY <1>3 DEF WaitTop, AskLive, FoundLive, EndedEarly, EndedEarlySent, StartedSent,
         Complete, Report
<1>4. ASSUME GetManifest \/ MonitorTop \/ AskStillLive \/ EndedSent \/ Refresh
      PROVE  Values'
  BY <1>4 DEF GetManifest, MonitorTop, AskStillLive, EndedSent, Refresh, Complete
<1>5. ASSUME AnalyzeTop \/ EndListSent \/ GetSegment \/ FetchSegment \/ AnalyzeSegment
      PROVE  Values'
  BY <1>5 DEF AnalyzeTop, EndListSent, GetSegment, LooksNew, SegmentFound, FetchSegment,
         AnalyzeSegment, Resumes
<1>6. ASSUME Alerting PROVE Values'
  BY <1>6 DEF Alerting, CheckFailed, Detect, ReportUpdate, Report
<1>7. ASSUME CycleOk \/ SegmentError \/ AskErrorLive \/ Unanswered \/ ErrorEndSent \/ Sleep
      PROVE  Values'
  BY <1>7 DEF CycleOk, SegmentError, AskErrorLive, Unanswered, ErrorEndSent, Complete, Report, Sleep
<1>8. ASSUME CancelWork \/ RequestShutdown \/ Tick \/ StreamMoves \/ UNCHANGED vars
      PROVE  Values'
  BY <1>8 DEF CancelWork, RequestShutdown, Tick, LiveCheckDue, ErrorAges, StreamMoves,
         vars
<1>9. QED
  BY <1>1, <1>2, <1>3, <1>4, <1>5, <1>6, <1>7, <1>8 DEF Next, Step, Alerting

LEMMA ToldOK ==
    ASSUME Told, [Next]_vars PROVE Told'
<1> USE DEF Told, Milestones, Goto, Send, run, signals, flags, clock, outside, record
<1>1. ASSUME WebhookDelivered \/ WebhookFails PROVE Told'
  BY <1>1 DEF WebhookDelivered, WebhookFails, Return
<1>2. ASSUME Boot \/ RunLoop \/ Fail PROVE Told'
  BY <1>2 DEF Boot, RunLoop, Fail, Report
<1>3. ASSUME WaitTop \/ AskLive \/ EndedEarly \/ EndedEarlySent \/ StartedSent
      PROVE  Told'
  BY <1>3 DEF WaitTop, AskLive, FoundLive, EndedEarly, EndedEarlySent, StartedSent,
         Complete, Report
<1>4. ASSUME GetManifest \/ MonitorTop \/ AskStillLive \/ EndedSent \/ Refresh
      PROVE  Told'
  BY <1>4 DEF GetManifest, MonitorTop, AskStillLive, EndedSent, Refresh, Complete
<1>5. ASSUME AnalyzeTop \/ EndListSent \/ GetSegment \/ FetchSegment \/ AnalyzeSegment
      PROVE  Told'
  BY <1>5 DEF AnalyzeTop, EndListSent, GetSegment, LooksNew, SegmentFound, FetchSegment,
         AnalyzeSegment, Resumes
<1>6. ASSUME Alerting PROVE Told'
  BY <1>6 DEF Alerting, CheckFailed, Detect, ReportUpdate, Report
<1>7. ASSUME CycleOk \/ SegmentError \/ AskErrorLive \/ Unanswered \/ ErrorEndSent \/ Sleep
      PROVE  Told'
  BY <1>7 DEF CycleOk, SegmentError, AskErrorLive, Unanswered, ErrorEndSent, Complete, Report, Sleep
<1>8. ASSUME CancelWork \/ RequestShutdown \/ Tick \/ StreamMoves \/ UNCHANGED vars
      PROVE  Told'
  BY <1>8 DEF CancelWork, RequestShutdown, Tick, LiveCheckDue, ErrorAges, StreamMoves,
         vars
<1>9. QED
  BY <1>1, <1>2, <1>3, <1>4, <1>5, <1>6, <1>7, <1>8 DEF Next, Step, Alerting

LEMMA BooleansOK ==
    ASSUME Booleans, [Next]_vars PROVE Booleans'
<1> USE DEF Booleans, Goto, Send, run, signals, flags, clock, outside, record
<1>1. ASSUME WebhookDelivered PROVE Booleans'
  BY <1>1 DEF WebhookDelivered, Return
<1>2. ASSUME WebhookFails PROVE Booleans'
  BY <1>2 DEF WebhookFails, Return
<1>3. ASSUME Boot PROVE Booleans'
  BY <1>3 DEF Boot
<1>4. ASSUME RunLoop PROVE Booleans'
  BY <1>4 DEF RunLoop
<1>5. ASSUME Fail PROVE Booleans'
  BY <1>5 DEF Fail
<1>6. ASSUME WaitTop PROVE Booleans'
  BY <1>6 DEF WaitTop
<1>7. ASSUME AskLive PROVE Booleans'
  BY <1>7 DEF AskLive, FoundLive
<1>8. ASSUME EndedEarly PROVE Booleans'
  BY <1>8 DEF EndedEarly
<1>9. ASSUME EndedEarlySent PROVE Booleans'
  BY <1>9 DEF EndedEarlySent
<1>10. ASSUME StartedSent PROVE Booleans'
  BY <1>10 DEF StartedSent
<1>11. ASSUME GetManifest PROVE Booleans'
  BY <1>11 DEF GetManifest
<1>12. ASSUME MonitorTop PROVE Booleans'
  BY <1>12 DEF MonitorTop
<1>13. ASSUME AskStillLive PROVE Booleans'
  BY <1>13 DEF AskStillLive
<1>14. ASSUME EndedSent PROVE Booleans'
  BY <1>14 DEF EndedSent
<1>15. ASSUME Refresh PROVE Booleans'
  BY <1>15 DEF Refresh
<1>16. ASSUME AnalyzeTop PROVE Booleans'
  BY <1>16 DEF AnalyzeTop
<1>17. ASSUME EndListSent PROVE Booleans'
  BY <1>17 DEF EndListSent
<1>18. ASSUME GetSegment PROVE Booleans'
  BY <1>18 DEF GetSegment, SegmentFound
<1>19. ASSUME FetchSegment PROVE Booleans'
  BY <1>19 DEF FetchSegment
<1>20. ASSUME AnalyzeSegment PROVE Booleans'
  BY <1>20 DEF AnalyzeSegment, Resumes
<1>21. ASSUME Alerting PROVE Booleans'
  BY <1>21 DEF Alerting, CheckFailed, Detect, ReportUpdate
<1>22. ASSUME CycleOk PROVE Booleans'
  BY <1>22 DEF CycleOk
<1>23. ASSUME SegmentError PROVE Booleans'
  BY <1>23 DEF SegmentError
<1>24. ASSUME AskErrorLive \/ Unanswered PROVE Booleans'
  BY <1>24 DEF AskErrorLive, Unanswered
<1>25. ASSUME ErrorEndSent PROVE Booleans'
  BY <1>25 DEF ErrorEndSent
<1>26. ASSUME Sleep PROVE Booleans'
  BY <1>26 DEF Sleep
<1>27. ASSUME CancelWork PROVE Booleans'
  BY <1>27 DEF CancelWork
<1>28. ASSUME RequestShutdown PROVE Booleans'
  BY <1>28 DEF RequestShutdown
<1>29. ASSUME Tick PROVE Booleans'
  BY <1>29 DEF Tick, LiveCheckDue, ErrorAges
<1>30. ASSUME StreamMoves PROVE Booleans'
  BY <1>30 DEF StreamMoves
<1>31. ASSUME UNCHANGED vars PROVE Booleans'
  BY <1>31 DEF vars
<1>32. QED
  BY <1>1, <1>2, <1>3, <1>4, <1>5, <1>6, <1>7, <1>8, <1>9, <1>10, <1>11, <1>12,
     <1>13, <1>14, <1>15, <1>16, <1>17, <1>18, <1>19, <1>20, <1>21,
     <1>22, <1>23, <1>24, <1>25, <1>26, <1>27, <1>28, <1>29, <1>30,
     <1>31 DEF Next, Step, Alerting

LEMMA TypeOKOK ==
    ASSUME IInv, [Next]_vars PROVE TypeOK'
BY TypeParts, LabelsOK, ValuesOK, ToldOK, BooleansOK DEF IInv, TypeOK, Labels, Values, Told,
   Booleans

-----------------------------------------------------------------------------
\* The other parts of the invariant, one lemma each.

LEMMA SendingOK ==
    ASSUME IInv, [Next]_vars PROVE Sending'
<1> USE DEF IInv, Sending, Returns, EndSent, Goto, Send, run, signals, flags, clock,
           outside, record
<1>1. ASSUME WebhookDelivered \/ WebhookFails PROVE Sending'
  BY <1>1 DEF WebhookDelivered, WebhookFails, Return
<1>2. ASSUME Boot \/ RunLoop \/ Fail PROVE Sending'
  BY <1>2 DEF Boot, RunLoop, Fail, Report
<1>3. ASSUME WaitTop \/ AskLive \/ EndedEarly \/ EndedEarlySent \/ StartedSent
      PROVE  Sending'
  BY <1>3 DEF WaitTop, AskLive, FoundLive, EndedEarly, EndedEarlySent, StartedSent,
         Complete, Report
<1>4. ASSUME GetManifest \/ MonitorTop \/ AskStillLive \/ EndedSent \/ Refresh
      PROVE  Sending'
  BY <1>4 DEF GetManifest, MonitorTop, AskStillLive, EndedSent, Refresh, Complete
<1>5. ASSUME AnalyzeTop \/ EndListSent \/ GetSegment \/ FetchSegment \/ AnalyzeSegment
      PROVE  Sending'
  BY <1>5 DEF AnalyzeTop, EndListSent, GetSegment, LooksNew, SegmentFound, FetchSegment,
         AnalyzeSegment, Resumes
<1>6. ASSUME Alerting PROVE Sending'
  BY <1>6 DEF Alerting, CheckFailed, Detect, ReportUpdate, Report
<1>7. ASSUME CycleOk \/ SegmentError \/ AskErrorLive \/ Unanswered \/ ErrorEndSent \/ Sleep
      PROVE  Sending'
  BY <1>7 DEF CycleOk, SegmentError, AskErrorLive, Unanswered, ErrorEndSent, Complete, Report, Sleep
<1>8. ASSUME CancelWork \/ RequestShutdown \/ Tick \/ StreamMoves \/ UNCHANGED vars
      PROVE  Sending'
  BY <1>8 DEF CancelWork, RequestShutdown, Tick, LiveCheckDue, ErrorAges, StreamMoves,
         vars
<1>9. QED
  BY <1>1, <1>2, <1>3, <1>4, <1>5, <1>6, <1>7, <1>8 DEF Next, Step, Alerting

LEMMA AnnouncedOK ==
    ASSUME IInv, [Next]_vars PROVE Announced'
<1> USE DEF IInv, Announced, Milestones, Sending, Returns, EndSent, Place, Monitoring,
           Goto, Send, run, signals, flags, clock, outside, record
<1>1. ASSUME WebhookDelivered \/ WebhookFails PROVE Announced'
  BY <1>1 DEF WebhookDelivered, WebhookFails, Return
<1>2. ASSUME Boot \/ RunLoop \/ Fail PROVE Announced'
  BY <1>2 DEF Boot, RunLoop, Fail, Report
<1>3. ASSUME WaitTop \/ AskLive \/ EndedEarly \/ EndedEarlySent \/ StartedSent
      PROVE  Announced'
  BY <1>3 DEF WaitTop, AskLive, FoundLive, EndedEarly, EndedEarlySent, StartedSent,
         Complete, Report
<1>4. ASSUME GetManifest \/ MonitorTop \/ AskStillLive \/ EndedSent \/ Refresh
      PROVE  Announced'
  BY <1>4 DEF GetManifest, MonitorTop, AskStillLive, EndedSent, Refresh, Complete
<1>5. ASSUME AnalyzeTop \/ EndListSent \/ GetSegment \/ FetchSegment \/ AnalyzeSegment
      PROVE  Announced'
  BY <1>5 DEF AnalyzeTop, EndListSent, GetSegment, LooksNew, SegmentFound, FetchSegment,
         AnalyzeSegment, Resumes
<1>6. ASSUME Alerting PROVE Announced'
  BY <1>6 DEF Alerting, CheckFailed, Detect, ReportUpdate, Report
<1>7. ASSUME CycleOk \/ SegmentError \/ AskErrorLive \/ Unanswered \/ ErrorEndSent \/ Sleep
      PROVE  Announced'
  BY <1>7 DEF CycleOk, SegmentError, AskErrorLive, Unanswered, ErrorEndSent, Complete, Report, Sleep
<1>8. ASSUME CancelWork \/ RequestShutdown \/ Tick \/ StreamMoves \/ UNCHANGED vars
      PROVE  Announced'
  BY <1>8 DEF CancelWork, RequestShutdown, Tick, LiveCheckDue, ErrorAges, StreamMoves,
         vars
<1>9. QED
  BY <1>1, <1>2, <1>3, <1>4, <1>5, <1>6, <1>7, <1>8 DEF Next, Step, Alerting

LEMMA FlagIsOutageOK ==
    ASSUME IInv, [Next]_vars PROVE FlagIsOutage'
<1> USE DEF IInv, FlagIsOutage, Sending, Place, Leaving, FailureSeen, Goto, Send, run,
           signals, flags, clock, outside, record
<1>1. ASSUME WebhookDelivered \/ WebhookFails PROVE FlagIsOutage'
  BY <1>1 DEF WebhookDelivered, WebhookFails, Return
<1>2. ASSUME Boot \/ RunLoop \/ Fail PROVE FlagIsOutage'
  BY <1>2 DEF Boot, RunLoop, Fail, Report
<1>3. ASSUME WaitTop \/ AskLive \/ EndedEarly \/ EndedEarlySent \/ StartedSent
      PROVE  FlagIsOutage'
  BY <1>3 DEF WaitTop, AskLive, FoundLive, EndedEarly, EndedEarlySent, StartedSent,
         Complete, Report
<1>4. ASSUME GetManifest \/ MonitorTop \/ AskStillLive \/ EndedSent \/ Refresh
      PROVE  FlagIsOutage'
  BY <1>4 DEF GetManifest, MonitorTop, AskStillLive, EndedSent, Refresh, Complete
<1>5. ASSUME AnalyzeTop \/ EndListSent \/ GetSegment \/ FetchSegment \/ AnalyzeSegment
      PROVE  FlagIsOutage'
  BY <1>5 DEF AnalyzeTop, EndListSent, GetSegment, LooksNew, SegmentFound, FetchSegment,
         AnalyzeSegment, Resumes
<1>6. ASSUME Alerting PROVE FlagIsOutage'
  BY <1>6 DEF Alerting, CheckFailed, Detect, ReportUpdate, Report
<1>7. ASSUME CycleOk \/ SegmentError \/ AskErrorLive \/ Unanswered \/ ErrorEndSent \/ Sleep
      PROVE  FlagIsOutage'
  BY <1>7 DEF CycleOk, SegmentError, AskErrorLive, Unanswered, ErrorEndSent, Complete, Report, Sleep
<1>8. ASSUME CancelWork \/ RequestShutdown \/ Tick \/ StreamMoves \/ UNCHANGED vars
      PROVE  FlagIsOutage'
  BY <1>8 DEF CancelWork, RequestShutdown, Tick, LiveCheckDue, ErrorAges, StreamMoves,
         vars
<1>9. QED
  BY <1>1, <1>2, <1>3, <1>4, <1>5, <1>6, <1>7, <1>8 DEF Next, Step, Alerting

LEMMA FailureSeenOK ==
    ASSUME IInv, [Next]_vars PROVE FailureSeen'
<1> USE DEF IInv, FailureSeen, Sending, Returns, EndSent, Goto, Send, run, signals,
           flags, clock, outside, record
<1>1. ASSUME WebhookDelivered \/ WebhookFails PROVE FailureSeen'
  BY <1>1 DEF WebhookDelivered, WebhookFails, Return
<1>2. ASSUME Boot \/ RunLoop \/ Fail PROVE FailureSeen'
  BY <1>2 DEF Boot, RunLoop, Fail, Report
<1>3. ASSUME WaitTop \/ AskLive \/ EndedEarly \/ EndedEarlySent \/ StartedSent
      PROVE  FailureSeen'
  BY <1>3 DEF WaitTop, AskLive, FoundLive, EndedEarly, EndedEarlySent, StartedSent,
         Complete, Report
<1>4. ASSUME GetManifest \/ MonitorTop \/ AskStillLive \/ EndedSent \/ Refresh
      PROVE  FailureSeen'
  BY <1>4 DEF GetManifest, MonitorTop, AskStillLive, EndedSent, Refresh, Complete
<1>5. ASSUME AnalyzeTop \/ EndListSent \/ GetSegment \/ FetchSegment \/ AnalyzeSegment
      PROVE  FailureSeen'
  BY <1>5 DEF AnalyzeTop, EndListSent, GetSegment, LooksNew, SegmentFound, FetchSegment,
         AnalyzeSegment, Resumes
<1>6. ASSUME Alerting PROVE FailureSeen'
  BY <1>6 DEF Alerting, CheckFailed, Detect, ReportUpdate, Report
<1>7. ASSUME CycleOk \/ SegmentError \/ AskErrorLive \/ Unanswered \/ ErrorEndSent \/ Sleep
      PROVE  FailureSeen'
  BY <1>7 DEF CycleOk, SegmentError, AskErrorLive, Unanswered, ErrorEndSent, Complete, Report, Sleep
<1>8. ASSUME CancelWork \/ RequestShutdown \/ Tick \/ StreamMoves \/ UNCHANGED vars
      PROVE  FailureSeen'
  BY <1>8 DEF CancelWork, RequestShutdown, Tick, LiveCheckDue, ErrorAges, StreamMoves,
         vars
<1>9. QED
  BY <1>1, <1>2, <1>3, <1>4, <1>5, <1>6, <1>7, <1>8 DEF Next, Step, Alerting

LEMMA EndDeliveredOK ==
    ASSUME IInv, [Next]_vars PROVE EndDelivered'
<1> USE DEF IInv, EndDelivered, Sending, EndSent, Milestones, Goto, Send, run, signals,
           flags, clock, outside, record
<1>1. ASSUME WebhookDelivered \/ WebhookFails PROVE EndDelivered'
  BY <1>1 DEF WebhookDelivered, WebhookFails, Return
<1>2. ASSUME Boot \/ RunLoop \/ Fail PROVE EndDelivered'
  BY <1>2 DEF Boot, RunLoop, Fail, Report
<1>3. ASSUME WaitTop \/ AskLive \/ EndedEarly \/ EndedEarlySent \/ StartedSent
      PROVE  EndDelivered'
  BY <1>3 DEF WaitTop, AskLive, FoundLive, EndedEarly, EndedEarlySent, StartedSent,
         Complete, Report
<1>4. ASSUME GetManifest \/ MonitorTop \/ AskStillLive \/ EndedSent \/ Refresh
      PROVE  EndDelivered'
  BY <1>4 DEF GetManifest, MonitorTop, AskStillLive, EndedSent, Refresh, Complete
<1>5. ASSUME AnalyzeTop \/ EndListSent \/ GetSegment \/ FetchSegment \/ AnalyzeSegment
      PROVE  EndDelivered'
  BY <1>5 DEF AnalyzeTop, EndListSent, GetSegment, LooksNew, SegmentFound, FetchSegment,
         AnalyzeSegment, Resumes
<1>6. ASSUME Alerting PROVE EndDelivered'
  BY <1>6 DEF Alerting, CheckFailed, Detect, ReportUpdate, Report
<1>7. ASSUME CycleOk \/ SegmentError \/ AskErrorLive \/ Unanswered \/ ErrorEndSent \/ Sleep
      PROVE  EndDelivered'
  BY <1>7 DEF CycleOk, SegmentError, AskErrorLive, Unanswered, ErrorEndSent, Complete, Report, Sleep
<1>8. ASSUME CancelWork \/ RequestShutdown \/ Tick \/ StreamMoves \/ UNCHANGED vars
      PROVE  EndDelivered'
  BY <1>8 DEF CancelWork, RequestShutdown, Tick, LiveCheckDue, ErrorAges, StreamMoves,
         vars
<1>9. QED
  BY <1>1, <1>2, <1>3, <1>4, <1>5, <1>6, <1>7, <1>8 DEF Next, Step, Alerting

LEMMA EndToldOK ==
    ASSUME IInv, [Next]_vars PROVE EndTold'
<1> USE DEF IInv, EndTold, FailureSeen, Sending, Returns, EndSent, Milestones, Goto,
           Send, run, signals, flags, clock, outside, record
<1>1. ASSUME WebhookDelivered \/ WebhookFails PROVE EndTold'
  BY <1>1 DEF WebhookDelivered, WebhookFails, Return
<1>2. ASSUME Boot \/ RunLoop \/ Fail PROVE EndTold'
  BY <1>2 DEF Boot, RunLoop, Fail, Report
<1>3. ASSUME WaitTop \/ AskLive \/ EndedEarly \/ EndedEarlySent \/ StartedSent
      PROVE  EndTold'
  BY <1>3 DEF WaitTop, AskLive, FoundLive, EndedEarly, EndedEarlySent, StartedSent,
         Complete, Report
<1>4. ASSUME GetManifest \/ MonitorTop \/ AskStillLive \/ EndedSent \/ Refresh
      PROVE  EndTold'
  BY <1>4 DEF GetManifest, MonitorTop, AskStillLive, EndedSent, Refresh, Complete
<1>5. ASSUME AnalyzeTop \/ EndListSent \/ GetSegment \/ FetchSegment \/ AnalyzeSegment
      PROVE  EndTold'
  BY <1>5 DEF AnalyzeTop, EndListSent, GetSegment, LooksNew, SegmentFound, FetchSegment,
         AnalyzeSegment, Resumes
<1>6. ASSUME Alerting PROVE EndTold'
  BY <1>6 DEF Alerting, CheckFailed, Detect, ReportUpdate, Report
<1>7. ASSUME CycleOk \/ SegmentError \/ AskErrorLive \/ Unanswered \/ ErrorEndSent \/ Sleep
      PROVE  EndTold'
  BY <1>7 DEF CycleOk, SegmentError, AskErrorLive, Unanswered, ErrorEndSent, Complete, Report, Sleep
<1>8. ASSUME CancelWork \/ RequestShutdown \/ Tick \/ StreamMoves \/ UNCHANGED vars
      PROVE  EndTold'
  BY <1>8 DEF CancelWork, RequestShutdown, Tick, LiveCheckDue, ErrorAges, StreamMoves,
         vars
<1>9. QED
  BY <1>1, <1>2, <1>3, <1>4, <1>5, <1>6, <1>7, <1>8 DEF Next, Step, Alerting

LEMMA FinalToldOK ==
    ASSUME IInv, [Next]_vars PROVE FinalTold'
<1> USE DEF IInv, FinalTold, Final, Sending, Returns, EndSent, Goto, Send, run, signals,
           flags, clock, outside, record
<1>1. ASSUME WebhookDelivered \/ WebhookFails PROVE FinalTold'
  BY <1>1 DEF WebhookDelivered, WebhookFails, Return
<1>2. ASSUME Boot \/ RunLoop \/ Fail PROVE FinalTold'
  BY <1>2 DEF Boot, RunLoop, Fail, Report
<1>3. ASSUME WaitTop \/ AskLive \/ EndedEarly \/ EndedEarlySent \/ StartedSent
      PROVE  FinalTold'
  BY <1>3 DEF WaitTop, AskLive, FoundLive, EndedEarly, EndedEarlySent, StartedSent,
         Complete, Report
<1>4. ASSUME GetManifest \/ MonitorTop \/ AskStillLive \/ EndedSent \/ Refresh
      PROVE  FinalTold'
  BY <1>4 DEF GetManifest, MonitorTop, AskStillLive, EndedSent, Refresh, Complete
<1>5. ASSUME AnalyzeTop \/ EndListSent \/ GetSegment \/ FetchSegment \/ AnalyzeSegment
      PROVE  FinalTold'
  BY <1>5 DEF AnalyzeTop, EndListSent, GetSegment, LooksNew, SegmentFound, FetchSegment,
         AnalyzeSegment, Resumes
<1>6. ASSUME Alerting PROVE FinalTold'
  BY <1>6 DEF Alerting, CheckFailed, Detect, ReportUpdate, Report
<1>7. ASSUME CycleOk \/ SegmentError \/ AskErrorLive \/ Unanswered \/ ErrorEndSent \/ Sleep
      PROVE  FinalTold'
  BY <1>7 DEF CycleOk, SegmentError, AskErrorLive, Unanswered, ErrorEndSent, Complete, Report, Sleep
<1>8. ASSUME CancelWork \/ RequestShutdown \/ Tick \/ StreamMoves \/ UNCHANGED vars
      PROVE  FinalTold'
  BY <1>8 DEF CancelWork, RequestShutdown, Tick, LiveCheckDue, ErrorAges, StreamMoves,
         vars
<1>9. QED
  BY <1>1, <1>2, <1>3, <1>4, <1>5, <1>6, <1>7, <1>8 DEF Next, Step, Alerting

-----------------------------------------------------------------------------
LEMMA InitOK == Init => IInv
BY DEF Init, IInv, TypeOK, Label, Event, Milestones, Sending, Announced, FlagIsOutage,
       FailureSeen, EndDelivered, EndTold, FinalTold, Place, Monitoring, Leaving, Final

THEOREM Invariance == Spec => []IInv
<1>1. IInv /\ [Next]_vars => IInv'
  BY TypeOKOK, SendingOK, AnnouncedOK, FlagIsOutageOK, FailureSeenOK, EndDeliveredOK,
     EndToldOK, FinalToldOK DEF IInv
<1>2. QED
  BY <1>1, InitOK, PTL DEF Spec

\* Every variable of the worker stays in its range.
THEOREM TypeCorrect == Spec => []TypeOK
BY Invariance, PTL DEF IInv

-----------------------------------------------------------------------------
\* Where a webhook is sent from.

SendStep == pc # "send" /\ pc' = "send" /\ [Next]_vars

LEMMA SendsFrom ==
    ASSUME IInv, SendStep
    PROVE  /\ ~cancelled
           /\ saying' \notin Milestones \cup {"stream.delayed"} => pc \in Monitoring
           /\ saying' \in {"stream.suspended", "stream.resumed"} =>
                  pc \in {"getSegment", "analyze"}
           /\ saying' = "stream.suspended" => ~suspendedAlertSent
           /\ saying' = "stream.resumed" => suspendedAlertSent
           /\ saying' # "stream.ended" => pc # "askStillLive"
           /\ pc \notin {"exit", "failing", "run"}
           /\ pc \notin EndSent /\ pc \notin {"cycleOk", "sleep", "monTop", "refresh"}
<1> USE DEF IInv, SendStep, Goto, Send, Milestones, Monitoring, EndSent
<1>1. CASE WebhookDelivered \/ WebhookFails
  BY <1>1 DEF WebhookDelivered, WebhookFails, Return, Sending, Returns
<1>2. CASE Boot \/ RunLoop \/ Fail
  BY <1>2 DEF Boot, RunLoop, Fail, Report
<1>3. CASE WaitTop \/ AskLive \/ EndedEarly \/ EndedEarlySent \/ StartedSent
  BY <1>3 DEF WaitTop, AskLive, FoundLive, EndedEarly, EndedEarlySent, StartedSent,
         Complete, Report
<1>4. CASE GetManifest \/ MonitorTop \/ AskStillLive \/ EndedSent \/ Refresh
  BY <1>4 DEF GetManifest, MonitorTop, AskStillLive, EndedSent, Refresh, Complete
<1>5. CASE AnalyzeTop \/ EndListSent \/ GetSegment \/ FetchSegment \/ AnalyzeSegment
  BY <1>5 DEF AnalyzeTop, EndListSent, GetSegment, LooksNew, SegmentFound, FetchSegment,
         AnalyzeSegment, Resumes
<1>6. CASE Alerting
  BY <1>6 DEF Alerting, CheckFailed, Detect, ReportUpdate, Report
<1>7. CASE CycleOk \/ SegmentError \/ AskErrorLive \/ Unanswered \/ ErrorEndSent \/ Sleep
  BY <1>7 DEF CycleOk, SegmentError, AskErrorLive, Unanswered, ErrorEndSent, Complete, Report, Sleep
<1>8. CASE CancelWork \/ RequestShutdown \/ Tick \/ StreamMoves \/ UNCHANGED vars
  BY <1>8 DEF CancelWork, RequestShutdown, Tick, LiveCheckDue, ErrorAges, StreamMoves,
         vars, run
<1>9. QED
  BY <1>1, <1>2, <1>3, <1>4, <1>5, <1>6, <1>7, <1>8 DEF Next, Step, Alerting

-----------------------------------------------------------------------------
\* No alert of a stream reaches the receiver that was not told of its start.
THEOREM StartAlwaysFirst == Spec => StartedFirst
<1> DEFINE A == Starts(Event \ (Milestones \cup {"stream.delayed"})) =>
                    "stream.started" \in told
<1>1. IInv /\ [Next]_vars => [A]_vars
  BY SendsFrom DEF IInv, SendStep, Starts, Announced, Place
<1>2. QED
  BY <1>1, Invariance, PTL DEF Spec, StartedFirst

\* The receiver hears of suspensions and resumptions in turn: the flag the worker decides
\* by is what the receiver knows whenever it is looked at.
THEOREM OutagesAlternate == Spec => OutageAlternates
<1> DEFINE A == /\ Starts({"stream.suspended"}) => ~outage
                /\ Starts({"stream.resumed"}) => outage
<1>1. ASSUME IInv, [Next]_vars, Starts({"stream.suspended", "stream.resumed"})
      PROVE  outage <=> suspendedAlertSent
  BY <1>1, SendsFrom DEF IInv, SendStep, Starts, FlagIsOutage, Place, Leaving
<1>2. IInv /\ [Next]_vars => [A]_vars
  BY <1>1, SendsFrom DEF SendStep, Starts
<1>3. QED
  BY <1>2, Invariance, PTL DEF Spec, OutageAlternates

\* Nothing hides a delivery that has failed.
THEOREM FailureIsFinal == Spec => FailureSticks
<1>1. [Next]_vars => [state = "error" => state' = "error"]_vars
  <2> USE DEF signals, flags, clock, outside, record, run
  <2>1. ASSUME WebhookDelivered \/ WebhookFails
        PROVE  state = "error" => state' = "error"
    BY <2>1 DEF WebhookDelivered, WebhookFails, Return
  <2>2. ASSUME Boot \/ RunLoop \/ Fail PROVE state = "error" => state' = "error"
    BY <2>2 DEF Boot, RunLoop, Fail, Report
  <2>3. ASSUME WaitTop \/ AskLive \/ EndedEarly \/ EndedEarlySent \/ StartedSent
        PROVE  state = "error" => state' = "error"
    BY <2>3 DEF WaitTop, AskLive, FoundLive, EndedEarly, EndedEarlySent, StartedSent,
           Complete, Report
  <2>4. ASSUME GetManifest \/ MonitorTop \/ AskStillLive \/ EndedSent \/ Refresh
        PROVE  state = "error" => state' = "error"
    BY <2>4 DEF GetManifest, MonitorTop, AskStillLive, EndedSent, Refresh, Complete
  <2>5. ASSUME AnalyzeTop \/ EndListSent \/ GetSegment \/ FetchSegment \/ AnalyzeSegment
        PROVE  state = "error" => state' = "error"
    BY <2>5 DEF AnalyzeTop, EndListSent, GetSegment, LooksNew, SegmentFound,
           FetchSegment, AnalyzeSegment, Resumes
  <2>6. ASSUME Alerting PROVE state = "error" => state' = "error"
    BY <2>6 DEF Alerting, CheckFailed, Detect, ReportUpdate, Report
  <2>7. ASSUME CycleOk \/ SegmentError \/ AskErrorLive \/ Unanswered \/ ErrorEndSent \/ Sleep
        PROVE  state = "error" => state' = "error"
    BY <2>7 DEF CycleOk, SegmentError, AskErrorLive, Unanswered, ErrorEndSent, Complete, Report,
           Sleep
  <2>8. ASSUME CancelWork \/ RequestShutdown \/ Tick \/ StreamMoves \/ UNCHANGED vars
        PROVE  state = "error" => state' = "error"
    BY <2>8 DEF CancelWork, RequestShutdown, Tick, LiveCheckDue, ErrorAges, StreamMoves,
           vars
  <2>9. QED
    BY <2>1, <2>2, <2>3, <2>4, <2>5, <2>6, <2>7, <2>8 DEF Next, Step, Alerting
<1>2. QED
  BY <1>1, PTL DEF Spec, FailureSticks

\* The gateway is told completed only when the receiver has stream.ended, unless the
\* worker is to stop.
THEOREM CompletedIsTold == Spec => CompletedAfterEnded
<1> DEFINE A == reported # "completed" /\ reported' = "completed" =>
                    "stream.ended" \in told \/ shutdown \/ cancelled
<1>1. ASSUME IInv, [Next]_vars, reported # "completed", reported' = "completed"
      PROVE  pc \in {"endedEarlySent", "errorEndSent"} /\ state # "error"
  <2>1. CASE WebhookDelivered \/ WebhookFails
    BY <1>1, <2>1 DEF WebhookDelivered, WebhookFails, Return
  <2>2. CASE Boot \/ RunLoop \/ Fail
    BY <1>1, <2>2 DEF Boot, RunLoop, Fail, Report
  <2>3. CASE WaitTop \/ AskLive \/ EndedEarly \/ EndedEarlySent \/ StartedSent
    BY <1>1, <2>3 DEF WaitTop, AskLive, FoundLive, EndedEarly, EndedEarlySent,
           StartedSent, Complete, Report
  <2>4. CASE GetManifest \/ MonitorTop \/ AskStillLive \/ EndedSent \/ Refresh
    BY <1>1, <2>4 DEF GetManifest, MonitorTop, AskStillLive, EndedSent, Refresh,
           Complete
  <2>5. CASE AnalyzeTop \/ EndListSent \/ GetSegment \/ FetchSegment \/ AnalyzeSegment
    BY <1>1, <2>5 DEF AnalyzeTop, EndListSent, GetSegment, LooksNew, SegmentFound,
           FetchSegment, AnalyzeSegment, Resumes
  <2>6. CASE Alerting
    BY <1>1, <2>6 DEF Alerting, CheckFailed, Detect, ReportUpdate, Report
  <2>7. CASE CycleOk \/ SegmentError \/ AskErrorLive \/ Unanswered \/ ErrorEndSent \/ Sleep
    BY <1>1, <2>7 DEF CycleOk, SegmentError, AskErrorLive, Unanswered, ErrorEndSent, Complete,
           Report, Sleep
  <2>8. CASE CancelWork \/ RequestShutdown \/ Tick \/ StreamMoves \/ UNCHANGED vars
    BY <1>1, <2>8 DEF CancelWork, RequestShutdown, Tick, LiveCheckDue, ErrorAges,
           StreamMoves, vars
  <2>9. QED
    BY <1>1, <2>1, <2>2, <2>3, <2>4, <2>5, <2>6, <2>7, <2>8 DEF Next, Step, Alerting
<1>2. IInv /\ [Next]_vars => [A]_vars
  BY <1>1 DEF IInv, EndDelivered
<1>3. QED
  BY <1>2, Invariance, PTL DEF Spec, CompletedAfterEnded

\* After stream.ended no other event is sent.
THEOREM EndIsLast == Spec => NothingElseAfterEnded
<1> DEFINE A == Starts(Event) /\ "stream.ended" \in told => saying' = "stream.ended"
<1>1. IInv /\ [Next]_vars => [A]_vars
  BY SendsFrom DEF IInv, SendStep, Starts, EndTold, EndSent
<1>2. QED
  BY <1>1, Invariance, PTL DEF Spec, NothingElseAfterEnded

\* After a terminal status the worker sends nothing, and reports no other kind.
THEOREM TerminalStatusLast == Spec => LastWord
<1> DEFINE A == Final(reported) => ~Starts(Event) /\ Final(reported')
<1>1. ASSUME IInv, [Next]_vars, Final(reported) PROVE ~Starts(Event)
  BY <1>1, SendsFrom DEF IInv, SendStep, Starts, FinalTold
<1>2. ASSUME IInv, [Next]_vars, Final(reported) PROVE Final(reported')
  <2> USE DEF IInv, FinalTold, Final
  <2>1. CASE WebhookDelivered \/ WebhookFails
    BY <1>2, <2>1 DEF WebhookDelivered, WebhookFails, Return
  <2>2. CASE Boot \/ RunLoop \/ Fail
    BY <1>2, <2>2 DEF Boot, RunLoop, Fail, Report
  <2>3. CASE WaitTop \/ AskLive \/ EndedEarly \/ EndedEarlySent \/ StartedSent
    BY <1>2, <2>3 DEF WaitTop, AskLive, FoundLive, EndedEarly, EndedEarlySent,
           StartedSent, Complete, Report
  <2>4. CASE GetManifest \/ MonitorTop \/ AskStillLive \/ EndedSent \/ Refresh
    BY <1>2, <2>4 DEF GetManifest, MonitorTop, AskStillLive, EndedSent, Refresh,
           Complete
  <2>5. CASE AnalyzeTop \/ EndListSent \/ GetSegment \/ FetchSegment \/ AnalyzeSegment
    BY <1>2, <2>5 DEF AnalyzeTop, EndListSent, GetSegment, LooksNew, SegmentFound,
           FetchSegment, AnalyzeSegment, Resumes
  <2>6. CASE Alerting
    BY <1>2, <2>6 DEF Alerting, CheckFailed, Detect, ReportUpdate, Report
  <2>7. CASE CycleOk \/ SegmentError \/ AskErrorLive \/ Unanswered \/ ErrorEndSent \/ Sleep
    BY <1>2, <2>7 DEF CycleOk, SegmentError, AskErrorLive, Unanswered, ErrorEndSent, Complete,
           Report, Sleep
  <2>8. CASE CancelWork \/ RequestShutdown \/ Tick \/ StreamMoves \/ UNCHANGED vars
    BY <1>2, <2>8 DEF CancelWork, RequestShutdown, Tick, LiveCheckDue, ErrorAges,
           StreamMoves, vars
  <2>9. QED
    BY <1>2, <2>1, <2>2, <2>3, <2>4, <2>5, <2>6, <2>7, <2>8 DEF Next, Step, Alerting
<1>3. IInv /\ [Next]_vars => [A]_vars
  BY <1>1, <1>2
<1>4. QED
  BY <1>3, Invariance, PTL DEF Spec, LastWord

-----------------------------------------------------------------------------
\* What the gateway sees.

Waiting == {"waitTop", "waitTick", "endedEarly", "endedEarlySent", "startedSent"}

\* What has been reported by where the worker stands, unless its context is cancelled
\* and it reports nothing any more but that it has stopped.
ReportFits ==
    /\ pc = "boot" => state = "waiting"
    /\ reported = "none" =>
          cancelled \/ pc \in {"boot", "exit"} \/ (pc = "run" /\ state = "waiting")
    /\ Place \in Waiting => reported = "waiting" \/ cancelled
    /\ Place \in Monitoring => reported = "monitoring" \/ cancelled
    /\ state = "waiting" => reported # "monitoring"
    /\ pc = "failing" /\ Final(reported) => reported = "error"
    /\ pc = "run" => reported \notin {"error", "stopped"}

LEMMA ReportFitsOK ==
    ASSUME IInv, ReportFits, [Next]_vars PROVE ReportFits'
<1> USE TypeParts DEF IInv, Values, ReportFits, Waiting, Monitoring, Place, Sending, Returns, EndSent, FinalTold,
           Final, Goto, Send, run, signals, flags, clock, outside, record
<1>1. ASSUME WebhookDelivered \/ WebhookFails
      PROVE  ReportFits'
  BY <1>1 DEF WebhookDelivered, WebhookFails, Return
<1>2. ASSUME Boot \/ RunLoop \/ Fail
      PROVE  ReportFits'
  BY <1>2 DEF Boot, RunLoop, Fail, Report
<1>3. ASSUME WaitTop \/ AskLive \/ EndedEarly \/ EndedEarlySent \/ StartedSent
      PROVE  ReportFits'
  BY <1>3 DEF WaitTop, AskLive, FoundLive, EndedEarly, EndedEarlySent, StartedSent,
         Complete, Report
<1>4. ASSUME GetManifest \/ MonitorTop \/ AskStillLive \/ EndedSent \/ Refresh
      PROVE  ReportFits'
  BY <1>4 DEF GetManifest, MonitorTop, AskStillLive, EndedSent, Refresh, Complete
<1>5. ASSUME AnalyzeTop \/ EndListSent \/ GetSegment \/ FetchSegment \/ AnalyzeSegment
      PROVE  ReportFits'
  BY <1>5 DEF AnalyzeTop, EndListSent, GetSegment, LooksNew, SegmentFound, FetchSegment,
         AnalyzeSegment, Resumes
<1>6. ASSUME Alerting
      PROVE  ReportFits'
  BY <1>6 DEF Alerting, CheckFailed, Detect, ReportUpdate, Report
<1>7. ASSUME CycleOk \/ SegmentError \/ AskErrorLive \/ Unanswered \/ ErrorEndSent \/ Sleep
      PROVE  ReportFits'
  BY <1>7 DEF CycleOk, SegmentError, AskErrorLive, Unanswered, ErrorEndSent, Complete, Report, Sleep
<1>8. ASSUME CancelWork \/ RequestShutdown \/ Tick \/ StreamMoves \/ UNCHANGED vars
      PROVE  ReportFits'
  BY <1>8 DEF CancelWork, RequestShutdown, Tick, LiveCheckDue, ErrorAges, StreamMoves,
         vars
<1>9. QED
  BY <1>1, <1>2, <1>3, <1>4, <1>5, <1>6, <1>7, <1>8 DEF Next, Step, Alerting

LEMMA ReportAlwaysFits == Spec => [](IInv /\ ReportFits)
<1>1. Init => ReportFits
  BY DEF Init, ReportFits, Waiting, Monitoring, Place, Final
<1>2. IInv /\ ReportFits /\ [Next]_vars => ReportFits'
  BY ReportFitsOK
<1>3. QED
  BY <1>1, <1>2, Invariance, PTL DEF Spec

\* Every step is one the gateway does not see, SIGTERM, one report, a request for
\* termination or a quiet end.
Stopping == cancelled \/ shutdown

Unseen == StageOf' = StageOf /\ reported' = reported

SeenReport(status) ==
    /\ Seen!MayReport(StageOf, status, Stopping)
    /\ reported' = status /\ StageOf' = Seen!AfterReport(StageOf, status)

SeenMove ==
    \/ Unseen
    \/ \E status \in Seen!Reported : SeenReport(status)
    \/ Seen!MayTerminate(StageOf) /\ StageOf' = "failing" /\ reported' = reported
    \/ \E end \in {"completed", "error"} :
          Seen!MayEndQuietly(StageOf, end) /\ StageOf' = end /\ reported' = reported

LEMMA StepSeen ==
    ASSUME IInv, ReportFits, [Next]_vars
    PROVE  SeenMove /\ (Stopping' = Stopping \/ (Stopping' = TRUE /\ Unseen))
<1> USE TypeParts DEF IInv, Values, ReportFits, Waiting, Monitoring, Place, Sending, Returns, EndSent, FinalTold,
           Final, Goto, Send, run, signals, flags, clock, outside, record,
           SeenMove, SeenReport, Unseen, StageOf, Stopping, Seen!MayReport, Seen!AfterReport,
           Seen!MayTerminate, Seen!MayEndQuietly, Seen!Reported, Seen!Terminal
<1>1. ASSUME WebhookDelivered \/ WebhookFails
      PROVE  SeenMove /\ (Stopping' = Stopping \/ (Stopping' = TRUE /\ Unseen))
  <2>1. CASE WebhookDelivered
    BY <2>1 DEF WebhookDelivered, Return
  <2>2. CASE WebhookFails /\ state' = state
    BY <2>2 DEF WebhookFails, Return
  <2>3. CASE WebhookFails /\ state' # state
    BY <2>3 DEF WebhookFails, Return
  <2>4. QED
    BY <1>1, <2>1, <2>2, <2>3
<1>2. ASSUME Boot \/ RunLoop \/ Fail
      PROVE  SeenMove /\ (Stopping' = Stopping \/ (Stopping' = TRUE /\ Unseen))
  BY <1>2 DEF Boot, RunLoop, Fail, Report
<1>3. ASSUME WaitTop \/ AskLive \/ EndedEarly \/ EndedEarlySent \/ StartedSent
      PROVE  SeenMove /\ (Stopping' = Stopping \/ (Stopping' = TRUE /\ Unseen))
  BY <1>3 DEF WaitTop, AskLive, FoundLive, EndedEarly, EndedEarlySent, StartedSent,
         Complete, Report
<1>4. ASSUME GetManifest \/ MonitorTop \/ AskStillLive \/ EndedSent \/ Refresh
      PROVE  SeenMove /\ (Stopping' = Stopping \/ (Stopping' = TRUE /\ Unseen))
  BY <1>4 DEF GetManifest, MonitorTop, AskStillLive, EndedSent, Refresh, Complete
<1>5. ASSUME AnalyzeTop \/ EndListSent \/ GetSegment \/ FetchSegment \/ AnalyzeSegment
      PROVE  SeenMove /\ (Stopping' = Stopping \/ (Stopping' = TRUE /\ Unseen))
  <2>1. CASE AnalyzeTop \/ FetchSegment
    BY <2>1 DEF AnalyzeTop, FetchSegment
  <2>2. CASE EndListSent
    BY <2>2 DEF EndListSent
  <2>3. CASE GetSegment
    BY <2>3 DEF GetSegment, LooksNew, SegmentFound
  <2>4. CASE AnalyzeSegment
    BY <2>4 DEF AnalyzeSegment, Resumes
  <2>5. QED
    BY <1>5, <2>1, <2>2, <2>3, <2>4
<1>6. ASSUME Alerting
      PROVE  SeenMove /\ (Stopping' = Stopping \/ (Stopping' = TRUE /\ Unseen))
  BY <1>6 DEF Alerting, CheckFailed, Detect, ReportUpdate, Report
<1>7. ASSUME CycleOk \/ SegmentError \/ AskErrorLive \/ Unanswered \/ ErrorEndSent \/ Sleep
      PROVE  SeenMove /\ (Stopping' = Stopping \/ (Stopping' = TRUE /\ Unseen))
  <2>1. CASE CycleOk
    BY <2>1 DEF CycleOk
  <2>2. CASE SegmentError
    BY <2>2 DEF SegmentError
  <2>3. CASE AskErrorLive \/ Unanswered \/ Sleep
    BY <2>3 DEF AskErrorLive, Unanswered, Sleep
  <2>4. CASE ErrorEndSent
    BY <2>4 DEF ErrorEndSent, Complete, Report
  <2>5. QED
    BY <1>7, <2>1, <2>2, <2>3, <2>4
<1>8. ASSUME CancelWork \/ RequestShutdown \/ Tick \/ StreamMoves \/ UNCHANGED vars
      PROVE  SeenMove /\ (Stopping' = Stopping \/ (Stopping' = TRUE /\ Unseen))
  BY <1>8 DEF CancelWork, RequestShutdown, Tick, LiveCheckDue, ErrorAges, StreamMoves,
         vars
<1>9. QED
  BY <1>1, <1>2, <1>3, <1>4, <1>5, <1>6, <1>7, <1>8 DEF Next, Step, Alerting

\* A worker does towards the gateway what WorkerSeen promises and Lifecycle assumes.
THEOREM SeenIsPromised == Spec => SeenAsPromised
<1>1. Init => Seen!Init
  BY DEF Init, Seen!Init, StageOf, Final
<1>2. IInv /\ ReportFits /\ [Next]_vars => [Seen!Next]_Seen!seenVars
  <2>1. SUFFICES ASSUME IInv, ReportFits, [Next]_vars PROVE [Seen!Next]_Seen!seenVars
    OBVIOUS
  <2>2. SeenMove /\ (Stopping' = Stopping \/ (Stopping' = TRUE /\ Unseen))
    BY <2>1, StepSeen
  <2>3. QED
    BY <2>2 DEF SeenMove, SeenReport, Unseen, Stopping, Seen!Next, Seen!Stop, Seen!ReportStatus,
           Seen!RequestTermination, Seen!EndQuietly, Seen!seenVars
<1>3. QED
  BY <1>1, <1>2, ReportAlwaysFits, PTL DEF Spec, SeenAsPromised, Seen!Spec
=============================================================================
