----------------------------- MODULE WorkerSeen ------------------------------
(***************************************************************************)
(* A worker as the gateway sees it: the order of its requests, and nothing *)
(* of what they are made for.  Worker implements it, Lifecycle takes its   *)
(* workers for it.                                                         *)
(***************************************************************************)
EXTENDS WorkerCalls

VARIABLES
    stage,     \* what the worker has told last
    reported,  \* the last status it has reported
    stopping   \* SIGTERM has come

seenVars == <<stage, reported, stopping>>

Init == stage = "booting" /\ reported = "none" /\ stopping = FALSE

Stop == stopping' = TRUE /\ UNCHANGED <<stage, reported>>

ReportStatus(status) ==
    /\ MayReport(stage, status, stopping)
    /\ reported' = status
    /\ stage' = AfterReport(stage, status)
    /\ UNCHANGED stopping

RequestTermination ==
    /\ MayTerminate(stage)
    /\ stage' = "failing"
    /\ UNCHANGED <<reported, stopping>>

EndQuietly(end) ==
    /\ MayEndQuietly(stage, end)
    /\ stage' = end
    /\ UNCHANGED <<reported, stopping>>

Next ==
    \/ Stop
    \/ \E status \in Reported : ReportStatus(status)
    \/ RequestTermination
    \/ \E end \in {"completed", "error"} : EndQuietly(end)

Spec == Init /\ [][Next]_seenVars
=============================================================================
