----------------------------- MODULE Reconciler -----------------------------
(***************************************************************************)
(* ReconcileStartup of internal/k8s/reconcile.go, which the gateway runs   *)
(* once before it serves requests and then every five minutes.  It takes   *)
(* two snapshots, one after the other: the active monitors, from the       *)
(* informer's copy, and the worker pods, from the API server.  Then it     *)
(* goes through the monitors without a pod and through the pods without a  *)
(* monitor, one call at a time, while everything else goes on.             *)
(***************************************************************************)
EXTENDS Cluster

VARIABLES
    rpc,       \* where the pass stands
    seen,      \* storeMonitors: the phase seen of each active monitor, or None
    missing,   \* monitors seen without a listed pod, not looked at yet
    orphans,   \* listed pods of no monitor seen, not deleted yet
    marking    \* the monitor being marked as failed, or None

reconcilerVars == <<rpc, seen, missing, orphans, marking>>

ReconcilerTypeOK ==
    /\ rpc \in {"idle", "list", "loop", "write", "notify"}
    /\ seen \in [Monitors -> Active \cup {None}]
    /\ missing \subseteq Monitors
    /\ orphans \subseteq Monitors
    /\ marking \in Monitors \cup {None}

ReconcilerInit ==
    /\ rpc = "idle"
    /\ seen = [m \in Monitors |-> None]
    /\ missing = {}
    /\ orphans = {}
    /\ marking = None

\* The pass is over, or it is given up: everything it knew is forgotten.
Forget ==
    /\ rpc' = "idle"
    /\ seen' = [m \in Monitors |-> None]
    /\ missing' = {}
    /\ orphans' = {}
    /\ marking' = None

\* GetActiveMonitors, of one monitor.
ActivePhaseOnceStarted(m) ==  \* mutant
    IF cache[m] \in Active \ {"initializing"} THEN cache[m] ELSE None
ActivePhase(m) == IF cache[m] \in Active THEN cache[m] ELSE None

SnapshotMonitors ==
    /\ rpc = "idle"
    /\ rpc' = "list"
    /\ seen' = [m \in Monitors |-> ActivePhase(m)]
    /\ UNCHANGED <<clusterVars, missing, orphans, marking>>

\* ListWorkerPods.  The two snapshots decide what the two loops will go through;
\* what they say of the other monitors is not used again.  The zombie branch of
\* the second loop asks for a monitor of the snapshot in a terminal phase, and
\* the snapshot has active ones only: it is dead code, and the pods of finished
\* monitors are deleted as orphans.
WithoutMonitorTerminated ==  \* mutant
    {m \in Monitors : seen[m] = None /\ pod[m] \in Terminated}
WithoutMonitor == {m \in Monitors : seen[m] = None /\ pod[m] # "none"}

ListPods ==
    /\ rpc = "list"
    /\ rpc' = "loop"
    /\ missing' = {m \in Monitors : seen[m] # None /\ pod[m] = "none"}
    /\ orphans' = WithoutMonitor
    /\ seen' = [m \in Monitors |-> IF pod[m] = "none" THEN seen[m] ELSE None]
    /\ UNCHANGED <<clusterVars, marking>>

\* The list fails or the pass has run out of time: nothing is reconciled.
GiveUp ==
    /\ rpc = "list"
    /\ Fault
    /\ Forget
    /\ UNCHANGED <<storeVars, pod, notified>>

\* UpdateStatusWithCondition of a monitor without a pod, the live read.
CheckMissing(m) ==
    /\ rpc = "loop"
    /\ m \in missing
    /\ missing' = missing \ {m}
    /\ \/ /\ ExpectedPhase(m, seen[m])
          /\ Hold("reconciler", m)
          /\ rpc' = "write" /\ marking' = m
          /\ UNCHANGED faults
       \/ /\ ~ExpectedPhase(m, seen[m])
          /\ UNCHANGED <<held, rpc, marking, faults>>
       \/ Fault /\ UNCHANGED <<held, rpc, marking>>
    /\ UNCHANGED <<object, cache, feed, pod, notified, seen, orphans>>

\* ... and the write.
MarkMissing ==
    /\ rpc = "write"
    /\ \/ /\ WriteAccepted("reconciler", marking)
          /\ Write(marking, "error")
          /\ rpc' = "notify"
          /\ UNCHANGED <<marking, faults>>
       \/ /\ ~WriteAccepted("reconciler", marking)
          /\ rpc' = "loop" /\ marking' = None
          /\ UNCHANGED <<object, feed, held, faults>>
       \/ /\ ConditionalWriteFails("reconciler", marking, "error")
          /\ rpc' = "loop" /\ marking' = None
    /\ UNCHANGED <<cache, pod, notified, seen, missing, orphans>>

\* sendErrorWebhook: the delivery itself is left to goroutines nobody waits for.
NotifyMissing ==
    /\ rpc = "notify"
    /\ notified' = [notified EXCEPT ![marking] = @ + 1]
    /\ rpc' = "loop" /\ marking' = None
    /\ UNCHANGED <<storeVars, pod, faults, seen, missing, orphans>>

\* The loop over the listed pods, after the one over the monitors.
DeleteOrphan(m) ==
    /\ rpc = "loop"
    /\ missing = {}
    /\ m \in orphans
    /\ orphans' = orphans \ {m}
    /\ (DeletePod(m) /\ UNCHANGED faults) \/ DeletePodFails(m)
    /\ UNCHANGED <<storeVars, notified, rpc, seen, missing, marking>>

FinishPass ==
    /\ rpc = "loop"
    /\ missing = {} /\ orphans = {}
    /\ Forget
    /\ UNCHANGED clusterVars

ReconcilerNext ==
    \/ SnapshotMonitors \/ ListPods \/ GiveUp
    \/ \E m \in Monitors : CheckMissing(m) \/ DeleteOrphan(m)
    \/ MarkMissing \/ NotifyMissing \/ FinishPass
=============================================================================
