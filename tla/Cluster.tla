------------------------------- MODULE Cluster -------------------------------
(***************************************************************************)
(* What the gateway's components share: the StreamMonitor objects in the   *)
(* API server, the informer's local copy of them, the worker pods, and the *)
(* receiver of the monitor.error webhooks.  The operators are the          *)
(* primitives of internal/k8s/store/store.go and internal/k8s/k8s.go; the  *)
(* modules Handlers, Reconciler and PodWatcher build their steps from them.*)
(*                                                                         *)
(* A resourceVersion is not a number here.  A process that has read an     *)
(* object live holds its current version (held) until anybody writes the   *)
(* object; the API server accepts a conditional write exactly then.        *)
(***************************************************************************)
EXTENDS Naturals, Sequences, MonitorPhase

CONSTANTS
    Monitors,     \* monitor IDs: one POST /monitors request each
    None,         \* no monitor
    MaxLag,       \* bound: object changes the informer has not applied yet
    MaxFaults     \* bound: calls that fail with an error that is no conflict

ASSUME NoneAssumption  == None \notin Monitors
ASSUME BoundAssumption == MaxLag \in Nat \ {0} /\ MaxFaults \in Nat

VARIABLES
    object,    \* object[m]: the StreamMonitor in the API server
    cache,     \* cache[m]: the informer's copy
    feed,      \* changes on their way to the informer, oldest first
    held,      \* held[p]: the monitor whose live object p has read and nobody
               \* has written since, or None
    pod,       \* pod[m]: the worker pod
    notified,  \* notified[m]: monitor.error webhooks sent for m
    faults     \* failed calls so far

storeVars   == <<object, cache, feed, held>>
clusterVars == <<object, cache, feed, held, pod, notified, faults>>

\* The processes that use UpdateStatusWithCondition.
CasProcess == {"reconciler", "watcher"}

ClusterTypeOK ==
    /\ object \in [Monitors -> ObjectState]
    /\ cache \in [Monitors -> ObjectState]
    /\ feed \in Seq([monitor : Monitors, state : ObjectState])
    /\ held \in [CasProcess -> Monitors \cup {None}]
    /\ pod \in [Monitors -> PodState]
    /\ notified \in [Monitors -> Nat]
    /\ faults \in Nat

ClusterInit ==
    /\ object = [m \in Monitors |-> "absent"]
    /\ cache = [m \in Monitors |-> "absent"]
    /\ feed = <<>>
    /\ held = [p \in CasProcess |-> None]
    /\ pod = [m \in Monitors |-> "none"]
    /\ notified = [m \in Monitors |-> 0]
    /\ faults = 0

-----------------------------------------------------------------------------
\* Writing objects.

\* Every write makes the versions others have read of this object stale.
Invalidate(m) == [p \in CasProcess |-> IF held[p] = m THEN None ELSE held[p]]

\* A write that leaves m in state s: the store's Create, Delete and status
\* writes.  The API server makes no new version when nothing changes.  A write
\* by UpdateStatus is one step: the store re-reads and retries it on conflict.
Write(m, s) ==
    IF object[m] = s
    THEN UNCHANGED <<object, feed, held>>
    ELSE /\ Len(feed) < MaxLag
         /\ object' = [object EXCEPT ![m] = s]
         /\ feed' = Append(feed, [monitor |-> m, state |-> s])
         /\ held' = Invalidate(m)

\* A write to fields other than the phase: podName, the statistics, the spec.
Touch(m) ==
    /\ held' = IF object[m] = "absent" THEN held ELSE Invalidate(m)
    /\ UNCHANGED <<object, feed>>

\* UpdateStatusWithCondition, the live read: go on only if the live phase is the
\* expected one.
ExpectedPhaseIgnored(m, expected) == object[m] # "absent"  \* mutant
ExpectedPhase(m, expected) == object[m] = expected
Hold(p, m) == held' = [held EXCEPT ![p] = m]

\* UpdateStatusWithCondition, the write: it is accepted if the version read is
\* still the current one, and lost to a conflict (or to a deletion) otherwise.
WriteAcceptedBlindly(p, m) == object[m] # "absent"  \* mutant
WriteAccepted(p, m) == held[p] = m

-----------------------------------------------------------------------------
\* The informer, which applies the changes in the order they were made.
InformerApplies ==
    /\ feed # <<>>
    /\ cache' = [cache EXCEPT ![Head(feed).monitor] = Head(feed).state]
    /\ feed' = Tail(feed)
    /\ UNCHANGED <<object, held, pod, notified, faults>>

-----------------------------------------------------------------------------
\* Pods.

\* DeleteWorkerPod: a running pod gets SIGTERM, a terminated one goes away, and
\* a pod that is not there is no error.
DeletePod(m) ==
    pod' = [pod EXCEPT ![m] = IF @ \in {"running", "stopping"} THEN "stopping"
                                                              ELSE "none"]

\* A call of the gateway fails: it has had no effect, or it has, and its answer was
\* lost (it timed out, or the client went away and took the request's context along).
Fault == faults < MaxFaults /\ faults' = faults + 1

WriteFails(m, s)  == Fault /\ (Write(m, s) \/ UNCHANGED <<object, feed, held>>)
TouchFails(m)     == Fault /\ (Touch(m) \/ UNCHANGED <<object, feed, held>>)
DeletePodFails(m) == Fault /\ (DeletePod(m) \/ UNCHANGED pod)

\* The write of UpdateStatusWithCondition: whoever gets an error lets go of the version.
ConditionalWriteFails(p, m, s) ==
    /\ Fault
    /\ \/ WriteAccepted(p, m) /\ Write(m, s)
       \/ held' = [held EXCEPT ![p] = None] /\ UNCHANGED <<object, feed>>
=============================================================================
