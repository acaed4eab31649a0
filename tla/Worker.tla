------------------------------- MODULE Worker -------------------------------
(***************************************************************************)
(* One worker process, internal/worker/worker.go: Run, its waiting mode    *)
(* and its monitoring mode, between the stream it watches, the receiver of *)
(* its webhooks, the gateway it reports to, and SIGTERM.                   *)
(*                                                                         *)
(* The main goroutine is a program counter: one label for each place where *)
(* it calls out or looks at something another goroutine writes.  Elapsed   *)
(* time is what the code compares it with: a timer is a flag that the      *)
(* clock may set at any moment and that the code's assignments reset.      *)
(***************************************************************************)

VARIABLES
    pc,        \* where the main goroutine stands
    saying,    \* the event sendWebhook is delivering
    back,      \* where it stands after that
    state,     \* w.state
    reported,  \* the last status a report was sent with
    cancelled, \* workCtx is cancelled
    shutdown   \* w.shutdownRequested

run == <<pc, saying, back>>

VARIABLES
    delayAlertSent,      \* of waitingMode
    suspendedAlertSent,
    segmentErrorSent,
    manifestURLChanged,
    rebaseline           \* isRebaseline, of analyzeLatestSegment

flags == <<delayAlertSent, suspendedAlertSent, segmentErrorSent,
           manifestURLChanged, rebaseline>>

VARIABLES
    stale,       \* no new segment for suspensionAlertThreshold
    errorStart,  \* segmentErrorStart: "none", "fresh", or "old" after 60 seconds
    liveDue,     \* the last live check is five minutes ago
    delayDue     \* the scheduled start is DelayThreshold ago

clock == <<stale, errorStart, liveDue, delayDue>>

VARIABLES
    stream,  \* the stream: "upcoming", "live", "over"
    fresh,   \* it has a segment that has not been analysed
    moved,   \* its manifest URL has changed since the last analysed segment, and
             \* there the segments look "new", or "old" by their numbers; or "no"
    told,    \* milestones the receiver has acknowledged
    outage   \* it has acknowledged a suspension and no resumption since

outside == <<stream, fresh, moved>>
record  == <<told, outage>>
signals == <<cancelled, shutdown>>
vars    == <<run, state, reported, signals, flags, clock, outside, record>>

Milestones == {"stream.started", "stream.ended"}
Event == Milestones \cup
    {"stream.delayed", "stream.suspended", "stream.resumed",
     "alert.segment_error", "alert.blackout", "alert.silence"}
Label ==
    {"boot", "run", "waitTop", "waitTick", "endedEarly", "endedEarlySent",
     "startedSent", "getManifest", "monTop", "askStillLive", "endedSent",
     "refresh", "analyzeTop", "endlistSent", "getSegment", "checked", "fetch",
     "analyze", "resumedSent", "black", "silence", "update", "cycleOk", "segError",
     "askErrorLive", "unanswered", "errorEndSent", "sleep", "send", "failing", "exit"}

TypeOK ==
    /\ pc \in Label
    /\ saying \in Event \cup {"nothing"}
    /\ back \in Label
    /\ state \in {"waiting", "monitoring", "completed", "error"}
    /\ reported \in {"none", "waiting", "monitoring", "completed", "stopped", "error"}
    /\ {cancelled, shutdown, delayAlertSent, suspendedAlertSent, segmentErrorSent,
        manifestURLChanged, rebaseline, stale, liveDue, delayDue, fresh, outage}
       \subseteq BOOLEAN
    /\ moved \in {"no", "new", "old"}
    /\ errorStart \in {"none", "fresh", "old"}
    /\ stream \in {"upcoming", "live", "over"}
    /\ told \subseteq Milestones

Init ==
    /\ pc = "boot" /\ saying = "nothing" /\ back = "boot"
    /\ state = "waiting"
    /\ reported = "none"
    /\ cancelled = FALSE /\ shutdown = FALSE
    /\ delayAlertSent = FALSE /\ suspendedAlertSent = FALSE
    /\ segmentErrorSent = FALSE /\ manifestURLChanged = FALSE /\ rebaseline = FALSE
    /\ stale = FALSE /\ errorStart = "none" /\ liveDue = TRUE /\ delayDue = FALSE
    /\ stream \in {"upcoming", "live", "over"}
    /\ fresh = TRUE /\ moved = "no"
    /\ told = {} /\ outage = FALSE

-----------------------------------------------------------------------------
\* Calls.

Goto(label) == pc' = label /\ UNCHANGED <<saying, back>>

\* sendWebhook: with a cancelled context it fails before anything is sent, and
\* failures during a shutdown are ignored.
Send(event, label) ==
    IF cancelled THEN Goto(label)
                 ELSE pc' = "send" /\ saying' = event /\ back' = label

\* reportStatus: an error is logged, whatever became of the request.
Report(status) == reported' = IF cancelled THEN reported ELSE status

Return == pc' = back /\ saying' = "nothing" /\ back' = "boot"

\* Send succeeds, on one of its attempts.
WebhookDelivered ==
    /\ pc = "send"
    /\ Return
    /\ told' = told \cup ({saying} \cap Milestones)
    /\ outage' = IF saying = "stream.suspended" THEN TRUE
                 ELSE IF saying = "stream.resumed" THEN FALSE ELSE outage
    /\ UNCHANGED <<state, reported, signals, flags, clock, outside>>

\* Send gives up: after the last attempt, or because its context is cancelled.
\* The first is fatal, and the gateway is asked to delete the monitor.
WebhookFails ==
    /\ pc = "send"
    /\ Return
    /\ state' = IF shutdown \/ cancelled THEN state ELSE "error"
    /\ UNCHANGED <<reported, signals, flags, clock, outside, record>>

-----------------------------------------------------------------------------
\* Run.

\* EnsureTmpDir, whose error ends the process without a report.
Boot ==
    /\ pc = "boot"
    /\ Goto("run") \/ Goto("exit")
    /\ UNCHANGED <<state, reported, signals, flags, clock, outside, record>>

\* The main loop.  A shutdown comes before the state is looked at.  The report of
\* gracefulShutdown has a context of its own.
RunLoop ==
    /\ pc = "run"
    /\ \/ shutdown /\ reported' = "stopped" /\ Goto("exit")
       \/ ~shutdown /\ state = "waiting" /\ Report("waiting") /\ Goto("waitTop")
       \/ ~shutdown /\ state = "monitoring" /\ Report("monitoring") /\ Goto("getManifest")
       \/ ~shutdown /\ state \in {"completed", "error"} /\ UNCHANGED reported /\ Goto("exit")
    /\ UNCHANGED <<state, signals, flags, clock, outside, record>>

\* transitionToError
Fail ==
    /\ pc = "failing"
    /\ state' = "error"
    /\ Report("error")
    /\ Goto("exit")
    /\ UNCHANGED <<signals, flags, clock, outside, record>>

\* setState(StateCompleted), in the three places that report it and the two that
\* do not.
Complete == state # "error" /\ state' = "completed" /\ Goto("run")

-----------------------------------------------------------------------------
\* waitingMode

WaitTopForGood ==  \* mutant: only the wait for the ticker looks at shutdownCh
    /\ pc = "waitTop"
    /\ Goto(IF state = "error" THEN "failing" ELSE "waitTick")
    /\ UNCHANGED <<state, reported, signals, flags, clock, outside, record>>

WaitTop ==
    /\ pc = "waitTop"
    /\ \/ state = "error" /\ Goto("failing")
       \/ state # "error" /\ shutdown /\ Goto("run")
       \/ state # "error" /\ ~shutdown /\ Goto("waitTick")
    /\ UNCHANGED <<state, reported, signals, flags, clock, outside, record>>

FoundLiveQuietly == Goto("startedSent")  \* mutant: a stream found live is not announced

FoundLive == Send("stream.started", "startedSent")

\* The wait for the next tick, and IsStreamLive, which may fail.
AskLive ==
    /\ pc = "waitTick"
    /\ \/ shutdown /\ Goto("run") /\ UNCHANGED delayAlertSent
       \/ Goto("waitTop") /\ UNCHANGED delayAlertSent
       \/ /\ ~cancelled /\ stream = "live"
          /\ FoundLive
          /\ UNCHANGED delayAlertSent
       \/ /\ ~cancelled /\ stream # "live"
          /\ LET next == IF stream = "over" THEN "endedEarly" ELSE "waitTop" IN
             IF delayDue /\ ~delayAlertSent
             THEN Send("stream.delayed", next) /\ delayAlertSent' = TRUE
             ELSE Goto(next) /\ UNCHANGED delayAlertSent
    /\ UNCHANGED <<state, reported, signals, suspendedAlertSent, segmentErrorSent,
                   manifestURLChanged, rebaseline, clock, outside, record>>

EndedEarlyQuietly ==  \* mutant: completed before the receiver is told
    /\ pc = "endedEarly"
    /\ Goto("endedEarlySent")
    /\ UNCHANGED <<state, reported, signals, flags, clock, outside, record>>

EndedEarly ==
    /\ pc = "endedEarly"
    /\ Send("stream.ended", "endedEarlySent")
    /\ UNCHANGED <<state, reported, signals, flags, clock, outside, record>>

StartedSentUnchecked ==  \* mutant: the outcome of the delivery is not looked at
    /\ pc = "startedSent"
    /\ state' = "monitoring" /\ Goto("run")
    /\ UNCHANGED <<reported, signals, flags, clock, outside, record>>

StartedSent ==
    /\ pc = "startedSent"
    /\ \/ state = "error" /\ Report("error") /\ Goto("failing") /\ UNCHANGED state
       \/ state # "error" /\ state' = "monitoring" /\ Goto("run") /\ UNCHANGED reported
    /\ UNCHANGED <<signals, flags, clock, outside, record>>

EndedEarlySentLoops ==  \* mutant: the completion does not leave the mode
    /\ pc = "endedEarlySent"
    /\ \/ state = "error" /\ Report("error") /\ Goto("failing") /\ UNCHANGED state
       \/ state # "error" /\ state' = "completed" /\ Goto("waitTop") /\ Report("completed")
    /\ UNCHANGED <<signals, flags, clock, outside, record>>

EndedEarlySent ==
    /\ pc = "endedEarlySent"
    /\ \/ state = "error" /\ Report("error") /\ Goto("failing") /\ UNCHANGED state
       \/ Complete /\ Report("completed")
    /\ UNCHANGED <<signals, flags, clock, outside, record>>

-----------------------------------------------------------------------------
\* monitoringMode

GetManifest ==
    /\ pc = "getManifest"
    /\ \/ Goto("failing") /\ UNCHANGED stale
       \/ ~cancelled /\ Goto("monTop") /\ stale' = FALSE
    /\ UNCHANGED <<state, reported, signals, flags, errorStart, liveDue, delayDue,
                   outside, record>>

\* mutant: lastLiveCheck starts at the present, and is renewed by every look at it
MonitorTopNeverAsks ==
    /\ pc = "monTop"
    /\ \/ state = "error" /\ Goto("failing")
       \/ state # "error" /\ Goto(IF shutdown THEN "run" ELSE "refresh")
    /\ liveDue' = FALSE
    /\ UNCHANGED <<state, reported, signals, flags, stale, errorStart, delayDue,
                   outside, record>>

\* The head of the analysis loop, up to shouldCheckLive.
MonitorTop ==
    /\ pc = "monTop"
    /\ \/ state = "error" /\ Goto("failing") /\ UNCHANGED liveDue
       \/ state # "error" /\ shutdown /\ Goto("run") /\ UNCHANGED liveDue
       \/ /\ state # "error" /\ ~shutdown
          /\ Goto(IF liveDue THEN "askStillLive" ELSE "refresh")
          /\ liveDue' = FALSE
    /\ UNCHANGED <<state, reported, signals, flags, stale, errorStart, delayDue,
                   outside, record>>

\* checkLiveStatus
AskStillLive ==
    /\ pc = "askStillLive"
    /\ \/ Goto("refresh")
       \/ ~cancelled /\ stream = "over" /\ Send("stream.ended", "endedSent")
    /\ UNCHANGED <<state, reported, signals, flags, clock, outside, record>>

EndedSent ==
    /\ pc = "endedSent"
    /\ \/ state = "error" /\ Goto("failing") /\ UNCHANGED state
       \/ Complete
    /\ UNCHANGED <<reported, signals, flags, clock, outside, record>>

RefreshCompleted ==  \* mutant: completed is not looked at after the live check
    /\ pc = "refresh"
    /\ \/ shutdown /\ Goto("run") /\ UNCHANGED <<manifestURLChanged, moved>>
       \/ /\ ~shutdown /\ Goto("analyzeTop")
          /\ \/ UNCHANGED <<manifestURLChanged, moved>>
             \/ ~cancelled /\ manifestURLChanged' = TRUE /\ moved' \in {"new", "old"}
    /\ UNCHANGED <<state, reported, signals, delayAlertSent, suspendedAlertSent,
                   segmentErrorSent, rebaseline, clock, stream, fresh, record>>

\* The refresh of the manifest URL, when its ticker has fired.
Refresh ==
    /\ pc = "refresh"
    /\ \/ /\ state = "completed" \/ shutdown
          /\ Goto("run")
          /\ UNCHANGED <<manifestURLChanged, moved>>
       \/ /\ state # "completed" /\ ~shutdown
          /\ Goto("analyzeTop")
          /\ \/ UNCHANGED <<manifestURLChanged, moved>>
             \/ ~cancelled /\ manifestURLChanged' = TRUE /\ moved' \in {"new", "old"}
    /\ UNCHANGED <<state, reported, signals, delayAlertSent, suspendedAlertSent,
                   segmentErrorSent, rebaseline, clock, stream, fresh, record>>

\* analyzeLatestSegment, up to IsEndList.
AnalyzeTop ==
    /\ pc = "analyzeTop"
    /\ \/ shutdown /\ Goto("cycleOk")
       \/ ~shutdown /\ Goto("segError")
       \/ ~shutdown /\ ~cancelled /\ stream = "over" /\ Send("stream.ended", "endlistSent")
       \/ ~shutdown /\ ~cancelled /\ Goto("getSegment")
    /\ UNCHANGED <<state, reported, signals, flags, clock, outside, record>>

EndListSent ==
    /\ pc = "endlistSent"
    /\ \/ state = "error" /\ Goto("segError") /\ UNCHANGED state
       \/ state # "error" /\ state' = "completed" /\ Goto("cycleOk")
    /\ UNCHANGED <<reported, signals, flags, clock, outside, record>>

\* GetLatestSegment and the comparison with the last one analysed; the same
\* segment again may mean that the stream is suspended.
SegmentFoundRepeats(new) ==  \* mutant: every poll of a stale stream alerts
    /\ rebaseline' = manifestURLChanged
    /\ manifestURLChanged' = FALSE
    /\ suspendedAlertSent' = (suspendedAlertSent \/ (~new /\ stale))
    /\ IF new THEN Goto("fetch")
       ELSE IF stale THEN Send("stream.suspended", "checked") ELSE Goto("cycleOk")

SegmentFound(new) ==
    /\ rebaseline' = manifestURLChanged
    /\ manifestURLChanged' = FALSE
    /\ IF new THEN Goto("fetch") /\ UNCHANGED suspendedAlertSent
       ELSE IF stale /\ ~suspendedAlertSent
            THEN Send("stream.suspended", "checked") /\ suspendedAlertSent' = TRUE
            ELSE Goto("cycleOk") /\ UNCHANGED suspendedAlertSent

\* How its sequence number and its URL compare with those of the last one.
LooksNew(new) ==
    \/ moved = "no" /\ new = fresh
    \/ moved = "new" /\ new
    \/ moved = "old" /\ (new => fresh)

GetSegment ==
    /\ pc = "getSegment"
    /\ \/ Goto("segError")
          /\ UNCHANGED <<rebaseline, manifestURLChanged, suspendedAlertSent>>
       \/ ~cancelled /\ \E new \in BOOLEAN : LooksNew(new) /\ SegmentFound(new)
    /\ UNCHANGED <<state, reported, signals, delayAlertSent, segmentErrorSent, clock,
                   outside, record>>

\* After checkSuspension, and after stream.resumed: a failed delivery is returned
\* as an error of the segment.
CheckFailed(label, next) ==
    /\ pc = label
    /\ Goto(IF state = "error" THEN "segError" ELSE next)
    /\ UNCHANGED <<state, reported, signals, flags, clock, outside, record>>

\* FetchSegment; SaveSegment, which may fail as well.
FetchSegment ==
    /\ pc = "fetch"
    /\ \/ Goto("segError")
       \/ ~cancelled /\ Goto(IF shutdown THEN "cycleOk" ELSE "analyze")
    /\ UNCHANGED <<state, reported, signals, flags, clock, outside, record>>

\* AnalyzeSegment, which a shutdown does not interrupt, and what is done of its
\* result before the alerts.
Resumes == ~rebaseline /\ suspendedAlertSent

AnalyzeSegment ==
    /\ pc = "analyze"
    /\ rebaseline' = FALSE
    /\ \/ /\ Goto("segError")
          /\ UNCHANGED <<suspendedAlertSent, stale, fresh, moved>>
       \/ /\ fresh' = FALSE /\ moved' = "no"
          /\ stale' = IF rebaseline THEN stale ELSE FALSE
          /\ suspendedAlertSent' = IF rebaseline THEN suspendedAlertSent ELSE FALSE
          /\ IF Resumes THEN Send("stream.resumed", "resumedSent") ELSE Goto("black")
    /\ UNCHANGED <<state, reported, signals, delayAlertSent, segmentErrorSent,
                   manifestURLChanged, errorStart, liveDue, delayDue, stream, record>>

\* processBlackDetection and processSilenceDetection, each of which may send an
\* alert or a recovery and looks at no failure.
Detect(label, event, next) ==
    /\ pc = label
    /\ Send(event, next) \/ Goto(next)
    /\ UNCHANGED <<state, reported, signals, flags, clock, outside, record>>

\* reportStatusUpdate
ReportUpdate ==
    /\ pc = "update"
    /\ Report("monitoring")
    /\ Goto("cycleOk")
    /\ UNCHANGED <<state, signals, flags, clock, outside, record>>

\* clearSegmentError
CycleOk ==
    /\ pc = "cycleOk"
    /\ errorStart' = "none" /\ segmentErrorSent' = FALSE
    /\ Goto("sleep")
    /\ UNCHANGED <<state, reported, signals, delayAlertSent, suspendedAlertSent,
                   manifestURLChanged, rebaseline, stale, liveDue, delayDue,
                   outside, record>>

SegmentErrorRenewed ==  \* mutant: every error starts the minute again
    /\ pc = "segError"
    /\ errorStart' = "fresh" /\ segmentErrorSent' = FALSE
    /\ Goto("sleep")
    /\ UNCHANGED <<state, reported, signals, delayAlertSent, suspendedAlertSent,
                   manifestURLChanged, rebaseline, stale, liveDue, delayDue,
                   outside, record>>

\* handleSegmentError.  Its first branch, for a worker that is complete, is left
\* out: no call that has set that state returns an error.
SegmentError ==
    /\ pc = "segError"
    /\ errorStart' = IF errorStart = "none" THEN "fresh" ELSE errorStart
    /\ IF errorStart = "old" /\ ~segmentErrorSent
       THEN segmentErrorSent' = TRUE /\ Goto("askErrorLive")
       ELSE /\ segmentErrorSent' = IF errorStart = "none" THEN FALSE ELSE segmentErrorSent
            /\ Goto("sleep")
    /\ UNCHANGED <<state, reported, signals, delayAlertSent, suspendedAlertSent,
                   manifestURLChanged, rebaseline, stale, liveDue, delayDue,
                   outside, record>>

AskErrorLive ==
    /\ pc = "askErrorLive"
    /\ \/ Goto("unanswered")
       \/ ~cancelled /\ stream = "live" /\ Send("alert.segment_error", "sleep")
       \/ ~cancelled /\ stream = "over" /\ Send("stream.ended", "errorEndSent")
    /\ UNCHANGED <<state, reported, signals, flags, clock, outside, record>>

\* The lookup has failed; segmentErrorSent stays set.
Unanswered ==
    /\ pc = "unanswered"
    /\ Goto("sleep")
    /\ UNCHANGED <<state, reported, signals, flags, clock, outside, record>>

ErrorEndSent ==
    /\ pc = "errorEndSent"
    /\ \/ state = "error" /\ Goto("failing") /\ UNCHANGED <<state, reported>>
       \/ Complete /\ Report("completed")
    /\ UNCHANGED <<signals, flags, clock, outside, record>>

\* The rest of AnalysisInterval.
Sleep ==
    /\ pc = "sleep"
    /\ Goto("monTop") \/ (shutdown /\ Goto("run"))
    /\ UNCHANGED <<state, reported, signals, flags, clock, outside, record>>

-----------------------------------------------------------------------------
\* Everything else.

\* SIGTERM cancels the work context and wakes the goroutine that requests the
\* shutdown, in either order.
CancelWork ==
    /\ ~cancelled
    /\ cancelled' = TRUE
    /\ UNCHANGED <<run, state, reported, shutdown, flags, clock, outside, record>>

RequestShutdown ==
    /\ ~shutdown
    /\ shutdown' = TRUE
    /\ UNCHANGED <<run, state, reported, cancelled, flags, clock, outside, record>>

\* Time passes.
LiveCheckDue == ~liveDue /\ liveDue' = TRUE /\ UNCHANGED <<stale, errorStart, delayDue>>
ErrorAges ==
    errorStart = "fresh" /\ errorStart' = "old" /\ UNCHANGED <<stale, liveDue, delayDue>>

Tick ==
    /\ \/ LiveCheckDue
       \/ ~stale /\ stale' = TRUE /\ UNCHANGED <<errorStart, liveDue, delayDue>>
       \/ ErrorAges
       \/ ~delayDue /\ delayDue' = TRUE /\ UNCHANGED <<stale, errorStart, liveDue>>
    /\ UNCHANGED <<run, state, reported, signals, flags, outside, record>>

StreamMoves ==
    /\ \/ stream = "upcoming" /\ stream' \in {"live", "over"} /\ UNCHANGED fresh
       \/ stream = "live" /\ stream' = "over" /\ UNCHANGED fresh
       \/ stream = "live" /\ ~fresh /\ fresh' = TRUE /\ UNCHANGED stream
    /\ UNCHANGED <<run, state, reported, signals, flags, clock, moved, record>>

-----------------------------------------------------------------------------
Step ==
    \/ WebhookDelivered \/ WebhookFails
    \/ Boot \/ RunLoop \/ Fail
    \/ WaitTop \/ AskLive \/ EndedEarly \/ EndedEarlySent \/ StartedSent
    \/ GetManifest \/ MonitorTop \/ AskStillLive \/ EndedSent \/ Refresh
    \/ AnalyzeTop \/ EndListSent \/ GetSegment \/ FetchSegment \/ AnalyzeSegment
    \/ CheckFailed("checked", "cycleOk") \/ CheckFailed("resumedSent", "black")
    \/ Detect("black", "alert.blackout", "silence")
    \/ Detect("silence", "alert.silence", "update")
    \/ ReportUpdate \/ CycleOk \/ SegmentError \/ AskErrorLive \/ Unanswered
    \/ ErrorEndSent \/ Sleep

Next ==
    /\ pc # "exit"
    /\ Step \/ CancelWork \/ RequestShutdown \/ Tick \/ StreamMoves

Spec == Init /\ [][Next]_vars

\* Every call returns, the clock goes on, SIGTERM takes effect in both ways, and the
\* lookups of a stream do not fail for ever.
Fairness ==
    /\ WF_vars(Step)
    /\ WF_vars(Next /\ LiveCheckDue) /\ WF_vars(Next /\ ErrorAges)
    /\ WF_vars(shutdown /\ CancelWork) /\ WF_vars(cancelled /\ RequestShutdown)
    /\ SF_vars(AskStillLive /\ pc' # "refresh")
    /\ SF_vars(AskErrorLive /\ pc' # "unanswered")
    /\ SF_vars(AskLive /\ pc' \in {"send", "endedEarly"})

FairSpec == Spec /\ Fairness

-----------------------------------------------------------------------------
\* What the gateway sees of it.  The ends it is not told of show when the process ends.

Final(status) == status \in {"completed", "stopped", "error"}

StageOf ==
    IF Final(reported) THEN reported
    ELSE IF reported = "none" THEN "booting"
    ELSE IF pc = "exit" THEN (IF state = "error" THEN "error" ELSE "completed")
    ELSE IF state = "error" THEN "failing" ELSE reported

Seen == INSTANCE WorkerSeen WITH
    stage <- StageOf,
    stopping <- cancelled \/ shutdown

\* The requests the gateway gets from a worker come in no order but those of WorkerSeen,
\* which is what the workers of Lifecycle do: a worker that has asked for its own
\* termination never says again that it waits, is complete or goes on, and after the
\* last report there is none but stopped, or error for a second time.
SeenAsPromised == Seen!Spec

-----------------------------------------------------------------------------
\* Safety.

\* sendWebhook is entered.
Starts(events) == pc # "send" /\ pc' = "send" /\ saying' \in events

\* The receiver never hears of an alert of a stream before stream.started.
StartedFirst ==
    [][Starts(Event \ (Milestones \cup {"stream.delayed"})) => "stream.started" \in told]_vars

\* Suspensions and resumptions are told alternately, whatever fails in between and
\* however often the manifest moves.
OutageAlternates ==
    [][/\ Starts({"stream.suspended"}) => ~outage
       /\ Starts({"stream.resumed"}) => outage]_vars

\* A delivery that failed is final: no later success, completion or mode change
\* hides it from the main loop.
FailureSticks == [][state = "error" => state' = "error"]_vars

\* completed is reported only after the receiver has got stream.ended, unless the
\* worker is being shut down.
CompletedAfterEnded ==
    [][reported # "completed" /\ reported' = "completed" =>
          "stream.ended" \in told \/ shutdown \/ cancelled]_vars

\* After stream.ended the receiver hears of nothing else, and of that once more at most
\* by a live check that falls due before the loop looks at its state.
NothingElseAfterEnded ==
    [][Starts(Event) /\ "stream.ended" \in told => saying' = "stream.ended"]_vars

\* A terminal status is the worker's last word: no webhook and no other kind of
\* status follows it.
LastWord == [][Final(reported) => ~Starts(Event) /\ Final(reported')]_vars

-----------------------------------------------------------------------------
\* Liveness, under FairSpec.

\* A worker that is told to stop, or that could not deliver a webhook, stops: every
\* loop and every wait looks for both sooner or later.
WorkerStops == shutdown \/ cancelled \/ state = "error" ~> pc = "exit"

\* A stream that is over ends the worker, without an end list in its manifest.
StreamEndNoticed == stream = "over" ~> pc = "exit"

\* Segments that cannot be had raise the alert after a minute, or the worker ends, or
\* the one lookup it makes of the stream then has failed: the minute is counted from the
\* first error, whatever fails after it.
SegmentErrorsTold ==
    errorStart = "fresh" ~>
        \/ errorStart = "none"
        \/ pc = "send" /\ saying = "alert.segment_error"
        \/ pc \in {"unanswered", "exit"}

\* What docs/requirements.md asks for: errors that go on for a minute raise the alert, as
\* long as the stream is live.  It does not hold: after a lookup that failed there is no
\* second one, however long the errors go on.
SegmentErrorsAlerted ==
    errorStart = "fresh" ~>
        \/ errorStart = "none"
        \/ pc = "send" /\ saying = "alert.segment_error"
        \/ pc = "exit"
=============================================================================
