----------------------------- MODULE WorkerCalls -----------------------------
(***************************************************************************)
(* The requests of a worker to the gateway, internal/worker/callback.go,   *)
(* and the order Run makes them in: what the gateway may take for granted  *)
(* of a worker.  Lifecycle builds its workers from these operators, and    *)
(* WorkerSeen is a worker that is nothing else.                            *)
(***************************************************************************)
EXTENDS MonitorPhase

\* "booting": nothing yet.  "failing": it has asked for its own termination.
\* A terminal phase: its last report, whether that arrived or not.
WorkerState == {"booting", "waiting", "monitoring", "failing"} \cup Terminal

Reported == {"waiting", "monitoring"} \cup Terminal

\* The reports of both modes, the one after each analysed segment included, which a
\* worker whose webhook failed may still send; completed, by the mode it ends; error, by
\* waitingMode and once more by transitionToError; stopped, on SIGTERM, which may come
\* between completed and the end of Run.
MayReport(s, status, stopping) ==
    \/ status = "waiting" /\ s = "booting"
    \/ status = "monitoring" /\ s \in {"waiting", "monitoring", "failing"}
    \/ status = "completed" /\ s \in {"waiting", "monitoring"}
    \/ status = "error" /\ s \in {"waiting", "monitoring", "failing", "error"}
    \/ status = "stopped" /\ stopping /\ s \notin {"error", "stopped"}

AfterReport(s, status) == IF s = "failing" /\ status = "monitoring" THEN s ELSE status

\* sendWebhook: the last retry failed, of this webhook or of another one since.
MayTerminate(s) == s \in {"waiting", "monitoring", "failing"}

\* The ends nobody is told of: the periodic check finds the stream over and Run
\* returns, or the context of the last report has been cancelled by SIGTERM.
MayEndQuietly(s, end) ==
    \/ s \in {"waiting", "monitoring"} /\ end = "completed"
    \/ s \in {"waiting", "monitoring", "failing"} /\ end = "error"
=============================================================================
