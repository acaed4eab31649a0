------------------------------ MODULE Handlers ------------------------------
(***************************************************************************)
(* The HTTP handlers of internal/api/handlers.go, with what they call:     *)
(* store.Create and its rollback, Reconciler.CreateMonitorPod, and the     *)
(* store's writes.  Each call to the API server is a step of its own, so   *)
(* handlers of the same monitor interleave with each other, with the       *)
(* reconciler and with the pod watcher.  Requests that are refused without *)
(* a write (validation, 404, 409, 429) change nothing and have no action.  *)
(***************************************************************************)
EXTENDS Cluster, FiniteSets

CONSTANTS
    Url,          \* Url[m]: the stream URL POST /monitors asks m to monitor
    MaxMonitors,  \* config: the limit on active monitors
    Patching,     \* whether clients send PATCH requests
    MaxRevivals   \* bound: reports that take a monitor out of a terminal phase

ASSUME HandlerAssumption ==
    /\ MaxMonitors \in Nat \ {0}
    /\ Patching \in BOOLEAN
    /\ MaxRevivals \in Nat

VARIABLES
    create,   \* create[m]: where the POST /monitors handler of m stands
    cleanup,  \* monitors whose object a handler has deleted, but not yet the pod
    stats,    \* monitors whose status handler has yet to write the statistics
    report,   \* requests of workers: sent and not applied yet
    revived   \* revived[m]: reports that took m out of a terminal phase

handlerVars == <<create, cleanup, stats, report, revived>>

\* The ends: 201; an error; an error because the call that creates the object, or the
\* one that takes it back, has failed.
CreateEnd  == {"done", "failed", "lost", "unrolled"}
CreateStep == {"new", "counted", "admitted", "stored", "rollback", "phased",
               "podMade", "podFailed"} \cup CreateEnd
Request    == [monitor : Monitors, kind : Phase \cup {"terminate"}]

HandlersTypeOK ==
    /\ create \in [Monitors -> CreateStep]
    /\ cleanup \subseteq Monitors
    /\ stats \subseteq Monitors
    /\ report \subseteq Request
    /\ revived \in [Monitors -> Nat]

HandlersInit ==
    /\ create = [m \in Monitors |-> "new"]
    /\ cleanup = {}
    /\ stats = {}
    /\ report = {}
    /\ revived = [m \in Monitors |-> 0]

-----------------------------------------------------------------------------
\* POST /api/v1/monitors

\* CountActiveMonitors and the duplicate check of store.Create look at the
\* informer's copy, never at the API server, and one after the other.
CachedActive == {m \in Monitors : cache[m] \in Active}

CreateGoesTo(m, step) == create' = [create EXCEPT ![m] = step]

CountActiveAnyway(m) ==  \* mutant
    /\ create[m] = "new"
    /\ Cardinality(CachedActive) <= MaxMonitors
    /\ CreateGoesTo(m, "counted")
    /\ UNCHANGED <<clusterVars, cleanup, stats, report, revived>>
CountActive(m) ==
    /\ create[m] = "new"
    /\ Cardinality(CachedActive) < MaxMonitors
    /\ CreateGoesTo(m, "counted")
    /\ UNCHANGED <<clusterVars, cleanup, stats, report, revived>>

AdmitAnyway(m) ==  \* mutant
    /\ create[m] = "counted"
    /\ CreateGoesTo(m, "admitted")
    /\ UNCHANGED <<clusterVars, cleanup, stats, report, revived>>
Admit(m) ==
    /\ create[m] = "counted"
    /\ \A n \in CachedActive : Url[n] # Url[m]
    /\ CreateGoesTo(m, "admitted")
    /\ UNCHANGED <<clusterVars, cleanup, stats, report, revived>>

\* store.Create, the object: its status is empty whatever the request carries.  If
\* the call fails the handler gives up, whether there is an object now or not.
StoreObject(m) ==
    /\ create[m] = "admitted"
    /\ \/ Write(m, "unset") /\ CreateGoesTo(m, "stored") /\ UNCHANGED faults
       \/ WriteFails(m, "unset") /\ CreateGoesTo(m, "lost")
    /\ UNCHANGED <<cache, pod, notified, cleanup, stats, report, revived>>

\* store.Create, the status, with the version the creation returned.
SetInitialPhaseAnyway(m) ==  \* mutant
    /\ create[m] = "stored"
    /\ Write(m, "initializing")
    /\ CreateGoesTo(m, "phased")
    /\ UNCHANGED <<cache, pod, notified, faults, cleanup, stats, report, revived>>

SetInitialPhase(m) ==
    /\ create[m] = "stored"
    /\ object[m] = "unset"
    /\ Write(m, "initializing")
    /\ CreateGoesTo(m, "phased")
    /\ UNCHANGED <<cache, pod, notified, faults, cleanup, stats, report, revived>>

\* ... which fails: because the call does, or because the object is gone.
InitialPhaseFails(m) ==
    /\ create[m] = "stored"
    /\ IF object[m] = "unset"
       THEN WriteFails(m, "initializing")
       ELSE UNCHANGED <<object, feed, held, faults>>
    /\ CreateGoesTo(m, "rollback")
    /\ UNCHANGED <<cache, pod, notified, cleanup, stats, report, revived>>

\* The rollback's delete, and its failure, which may leave an object with no phase.
RollBackForgotten(m) ==  \* mutant
    /\ create[m] = "rollback"
    /\ CreateGoesTo(m, "failed")
    /\ UNCHANGED <<clusterVars, cleanup, stats, report, revived>>
RollBack(m) ==
    /\ create[m] = "rollback"
    /\ \/ Write(m, "absent") /\ CreateGoesTo(m, "failed") /\ UNCHANGED faults
       \/ WriteFails(m, "absent") /\ CreateGoesTo(m, "unrolled")
    /\ UNCHANGED <<cache, pod, notified, cleanup, stats, report, revived>>

\* CreateMonitorPod: the gateway service is looked up, then the pod is created.
MakePod(m) == pod' = [pod EXCEPT ![m] = "running"]

StartPod(m) ==
    /\ create[m] = "phased"
    /\ \/ MakePod(m) /\ CreateGoesTo(m, "podMade") /\ UNCHANGED faults
       \/ Fault /\ CreateGoesTo(m, "podFailed") /\ (MakePod(m) \/ UNCHANGED pod)
    /\ UNCHANGED <<storeVars, notified, cleanup, stats, report, revived>>

\* CreateMonitorPod, UpdatePodName: an error is only logged.
RecordPodName(m) ==
    /\ create[m] = "podMade"
    /\ CreateGoesTo(m, "done")
    /\ \/ Touch(m) /\ UNCHANGED faults
       \/ TouchFails(m)
    /\ UNCHANGED <<cache, pod, notified, cleanup, stats, report, revived>>

\* No pod, as far as it knows: the handler writes error over whatever the phase is,
\* and ignores whether that worked.
MarkCreateFailed(m) ==
    LET s == IF object[m] = "absent" THEN "absent" ELSE "error" IN
    /\ create[m] = "podFailed"
    /\ CreateGoesTo(m, "failed")
    /\ (Write(m, s) /\ UNCHANGED faults) \/ WriteFails(m, s)
    /\ UNCHANGED <<cache, pod, notified, cleanup, stats, report, revived>>

-----------------------------------------------------------------------------
\* DELETE and PATCH /api/v1/monitors/:id, by a client that knows the ID from
\* the reply to its POST or from a listing, which reads the informer's copy.
Known(m) == create[m] = "done" \/ cache[m] # "absent"

\* A handler whose deletion seems to have failed leaves the pod alone.
DeleteAnswered(m) ==
    \/ cleanup' = cleanup \cup {m} /\ UNCHANGED faults
    \/ Fault /\ UNCHANGED cleanup

DeleteMonitor(m) ==
    /\ Known(m)
    /\ object[m] # "absent"
    /\ Write(m, "absent")
    /\ DeleteAnswered(m)
    /\ UNCHANGED <<cache, pod, notified, create, stats, report, revived>>

\* The best-effort deletion of the pod, the last call of both deleting handlers.
CleanUpPod(m) ==
    /\ m \in cleanup
    /\ cleanup' = cleanup \ {m}
    /\ (DeletePod(m) /\ UNCHANGED faults) \/ DeletePodFails(m)
    /\ UNCHANGED <<storeVars, notified, create, stats, report, revived>>

\* UpdateMonitor writes the spec, and re-checks on every attempt that the live
\* monitor is active.
PatchMonitor(m) ==
    /\ Patching
    /\ Known(m)
    /\ object[m] \in Active
    /\ Touch(m)
    /\ UNCHANGED <<cache, pod, notified, faults, create, cleanup, stats, report, revived>>

-----------------------------------------------------------------------------
\* The internal API, called by the workers.

\* PUT status: UpdateStatus writes whatever was reported over whatever phase the
\* monitor has; 404 if it is gone.  A call that has no effect is a request lost.
Revives(m, s) == object[m] \in Terminal /\ s \in Active

UpdateMonitorStatus(m, s) ==
    LET r == [monitor |-> m, kind |-> s] IN
    /\ r \in report
    /\ report' = report \ {r}
    /\ IF object[m] = "absent"
       THEN UNCHANGED <<object, feed, held, stats, revived, faults>>
       ELSE /\ Write(m, s)
            /\ \/ /\ stats' = IF s = "monitoring" THEN stats \cup {m} ELSE stats
                  /\ UNCHANGED faults
               \/ Fault /\ UNCHANGED stats
            /\ IF Revives(m, s)
               THEN /\ revived[m] < MaxRevivals
                    /\ revived' = [revived EXCEPT ![m] = @ + 1]
               ELSE UNCHANGED revived
    /\ UNCHANGED <<cache, pod, notified, create, cleanup>>

\* The statistics of the same request, taken from the informer's copy and
\* written in a second call; errors are only logged.
UpdateStats(m) ==
    /\ m \in stats
    /\ stats' = stats \ {m}
    /\ IF cache[m] = "absent" THEN UNCHANGED <<object, feed, held>> ELSE Touch(m)
    /\ UNCHANGED <<cache, pod, notified, faults, create, cleanup, report, revived>>

\* POST terminate: deletes the object, and the pod also when the object was
\* already gone.
TerminateMonitor(m) ==
    LET r == [monitor |-> m, kind |-> "terminate"] IN
    /\ r \in report
    /\ report' = report \ {r}
    /\ Write(m, "absent")
    /\ DeleteAnswered(m)
    /\ UNCHANGED <<cache, pod, notified, create, stats, revived>>

-----------------------------------------------------------------------------
Create(m) ==
    \/ CountActive(m) \/ Admit(m) \/ StoreObject(m) \/ SetInitialPhase(m) \/ InitialPhaseFails(m)
    \/ RollBack(m) \/ StartPod(m) \/ RecordPodName(m) \/ MarkCreateFailed(m)

HandlerNext ==
    \E m \in Monitors :
        \/ Create(m)
        \/ DeleteMonitor(m) \/ CleanUpPod(m) \/ PatchMonitor(m)
        \/ \E s \in Phase : UpdateMonitorStatus(m, s)
        \/ UpdateStats(m) \/ TerminateMonitor(m)
=============================================================================
