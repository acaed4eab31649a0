----------------------------- MODULE PodWatcher -----------------------------
(***************************************************************************)
(* PodWatcher of internal/k8s/watcher.go: list the worker pods, handle     *)
(* those that have terminated, watch from there on, and start over when    *)
(* the watch channel closes.  Events are handled one at a time, and the    *)
(* handling of one takes several calls.                                    *)
(***************************************************************************)
EXTENDS Cluster

VARIABLES
    wpc,      \* where the watcher stands
    events,   \* terminated pods it has been told about and not handled
    subject,  \* the monitor of the pod being handled, or None
    ended,    \* how that pod ended
    believed  \* monitor.Status: the phase the informer's copy had, or None

watcherVars == <<wpc, events, subject, ended, believed>>

PodEvent == [monitor : Monitors, ended : Terminated]

PodWatcherTypeOK ==
    /\ wpc \in {"closed", "open", "read", "write", "notify", "delete"}
    /\ events \subseteq PodEvent
    /\ subject \in Monitors \cup {None}
    /\ ended \in Terminated
    /\ believed \in Active \cup {None}

PodWatcherInit ==
    /\ wpc = "closed"
    /\ events = {}
    /\ subject = None
    /\ ended = "succeeded"
    /\ believed = None

\* handlePodEvent returns: nothing of the pod it handled is kept.
LetGo ==
    /\ subject' = None
    /\ ended' = "succeeded"
    /\ believed' = None

Resume == wpc' = "open" /\ LetGo

\* The gateway process ends, and the watch with it.
StopWatching == wpc' = "closed" /\ events' = {} /\ LetGo

TerminatedPodsUnseen == {}  \* mutant
TerminatedPodsUnfiltered ==  \* mutant
    {[monitor |-> m, ended |-> "failed"] : m \in {n \in Monitors : pod[n] # "none"}}
TerminatedPods ==
    {[monitor |-> m, ended |-> pod[m]] : m \in {n \in Monitors : pod[n] \in Terminated}}

\* watchLoop: the list, whose version the watch starts from, so that no later
\* termination is missed.
OpenWatch ==
    /\ wpc = "closed"
    /\ wpc' = "open"
    /\ events' = TerminatedPods
    /\ UNCHANGED <<clusterVars, subject, ended, believed>>

\* The watch channel closes; what it had not delivered is lost with it.
CloseWatch ==
    /\ wpc = "open"
    /\ wpc' = "closed"
    /\ events' = {}
    /\ UNCHANGED <<clusterVars, subject, ended, believed>>

\* handlePodEvent, up to the check that the monitor is active: GetByID and
\* IsActive see the informer's copy.
TakeEvent(e) ==
    /\ wpc = "open"
    /\ e \in events
    /\ events' = events \ {e}
    /\ IF cache[e.monitor] \in Active
       THEN /\ wpc' = "read"
            /\ subject' = e.monitor
            /\ ended' = e.ended
            /\ believed' = cache[e.monitor]
       ELSE UNCHANGED <<wpc, subject, ended, believed>>
    /\ UNCHANGED clusterVars

\* UpdateStatusWithCondition, the live read.
CheckTerminated ==
    /\ wpc = "read"
    /\ \/ /\ ExpectedPhase(subject, believed)
          /\ Hold("watcher", subject)
          /\ wpc' = "write"
          /\ UNCHANGED <<faults, subject, ended, believed>>
       \/ /\ ~ExpectedPhase(subject, believed)
          /\ Resume
          /\ UNCHANGED <<held, faults>>
       \/ Fault /\ Resume /\ UNCHANGED held
    /\ UNCHANGED <<object, cache, feed, pod, notified, events>>

\* ... and the write.  Only a pod that failed is reported.
Verdict == IF ended = "succeeded" THEN "completed" ELSE "error"

MarkTerminated ==
    /\ wpc = "write"
    /\ \/ /\ WriteAccepted("watcher", subject)
          /\ Write(subject, Verdict)
          /\ wpc' = IF ended = "succeeded" THEN "delete" ELSE "notify"
          /\ UNCHANGED <<faults, subject, ended, believed>>
       \/ /\ ~WriteAccepted("watcher", subject)
          /\ Resume
          /\ UNCHANGED <<object, feed, held, faults>>
       \/ ConditionalWriteFails("watcher", subject, Verdict) /\ Resume
    /\ UNCHANGED <<cache, pod, notified, events>>

\* sendFailureWebhook, which the watcher waits for, up to 30 seconds.
NotifyTerminated ==
    /\ wpc = "notify"
    /\ notified' = [notified EXCEPT ![subject] = @ + 1]
    /\ wpc' = "delete"
    /\ UNCHANGED <<storeVars, pod, faults, events, subject, ended, believed>>

DeleteTerminated ==
    /\ wpc = "delete"
    /\ Resume
    /\ (DeletePod(subject) /\ UNCHANGED faults) \/ DeletePodFails(subject)
    /\ UNCHANGED <<storeVars, notified, events>>

PodWatcherNext ==
    \/ OpenWatch \/ CloseWatch
    \/ \E e \in events : TakeEvent(e)
    \/ CheckTerminated \/ MarkTerminated \/ NotifyTerminated \/ DeleteTerminated
=============================================================================
