------------------------------ MODULE Lifecycle ------------------------------
(***************************************************************************)
(* The life of stream monitors across the whole system: the gateway        *)
(* process (its HTTP handlers, its reconciler and its pod watcher), which  *)
(* can crash and restart, the workers in their pods, and the cluster.      *)
(*                                                                         *)
(* A worker is here what the gateway can see of it: the requests it sends, *)
(* as WorkerCalls has them, and how its process ends.  Module Worker has   *)
(* what is inside, and implements just that.                               *)
(***************************************************************************)
EXTENDS Handlers, Reconciler, PodWatcher, WorkerCalls

CONSTANTS
    MaxRequests,  \* bound: requests of workers on their way
    MaxCrashes,   \* bound: crashes of the gateway
    OwnerGC       \* whether Kubernetes deletes the pods of deleted monitors

ASSUME LifecycleAssumption ==
    /\ MaxRequests \in Nat
    /\ MaxCrashes \in Nat
    /\ OwnerGC \in BOOLEAN

VARIABLES
    gateway,  \* the gateway process: "down", "boot" (reconciling), "up"
    crashes,  \* crashes of the gateway so far
    worker    \* worker[m]: the last thing the worker of m has told the gateway

vars == <<clusterVars, handlerVars, reconcilerVars, watcherVars,
          gateway, crashes, worker>>

TypeOK ==
    /\ ClusterTypeOK
    /\ HandlersTypeOK
    /\ ReconcilerTypeOK
    /\ PodWatcherTypeOK
    /\ gateway \in {"down", "boot", "up"}
    /\ crashes \in Nat
    /\ worker \in [Monitors -> WorkerState]

Init ==
    /\ ClusterInit
    /\ HandlersInit
    /\ ReconcilerInit
    /\ PodWatcherInit
    /\ gateway = "up"
    /\ crashes = 0
    /\ worker = [m \in Monitors |-> "booting"]

-----------------------------------------------------------------------------
\* Workers.

Alive(m) == pod[m] \in {"running", "stopping"}

\* The worker of m sends a request and goes on to state s.  It does not wait for
\* an answer longer than ten seconds, so that the next request may overtake this
\* one.  Nobody listens while the gateway is not up.
Send(m, kind, s) ==
    /\ report' = IF gateway = "up"
                 THEN report \cup {[monitor |-> m, kind |-> kind]}
                 ELSE report
    /\ Cardinality(report') <= MaxRequests
    /\ worker' = [worker EXCEPT ![m] = s]
    /\ UNCHANGED <<clusterVars, create, cleanup, stats, revived,
                   reconcilerVars, watcherVars, gateway, crashes>>

ReportStatus(m) ==
    /\ Alive(m)
    /\ \E status \in Reported :
          /\ MayReport(worker[m], status, pod[m] = "stopping")
          /\ Send(m, status, AfterReport(worker[m], status))

RequestTermination(m) ==
    /\ Alive(m)
    /\ MayTerminate(worker[m])
    /\ Send(m, "terminate", "failing")

EndQuietly(m, end) ==
    /\ Alive(m)
    /\ MayEndQuietly(worker[m], end)
    /\ worker' = [worker EXCEPT ![m] = end]
    /\ UNCHANGED <<clusterVars, handlerVars, reconcilerVars, watcherVars, gateway, crashes>>

\* A request fails on the way; workers log that and do not repeat it.
LoseRequest(r) ==
    /\ r \in report
    /\ report' = report \ {r}
    /\ UNCHANGED <<clusterVars, create, cleanup, stats, revived,
                   reconcilerVars, watcherVars, gateway, crashes, worker>>

\* The process ends.  main exits with 0 whatever Run returned: a pod only fails
\* when its process panics or is killed.  The pod watcher hears of both.  A
\* worker that cannot make its temporary directory ends without a report.
PodEnds(m, how) ==
    /\ Alive(m)
    /\ how = "failed" \/ worker[m] \in Terminal \cup {"booting"}
    /\ pod' = [pod EXCEPT ![m] = IF @ = "running" THEN how ELSE "none"]
    /\ events' = IF wpc = "closed" THEN events
                 ELSE events \cup {[monitor |-> m, ended |-> how]}
    /\ UNCHANGED <<storeVars, notified, faults, handlerVars, reconcilerVars,
                   wpc, subject, ended, believed, gateway, crashes, worker>>

-----------------------------------------------------------------------------
\* The cluster.

\* The pod is evicted or deleted by hand.
EvictPod(m) ==
    /\ pod[m] = "running"
    /\ DeletePod(m)
    /\ UNCHANGED <<storeVars, notified, faults, handlerVars, reconcilerVars,
                   watcherVars, gateway, crashes, worker>>

\* The owner reference: the pod of a deleted monitor is deleted.
CollectPod(m) ==
    /\ OwnerGC
    /\ object[m] = "absent"
    /\ pod[m] \notin {"none", "stopping"}
    /\ DeletePod(m)
    /\ UNCHANGED <<storeVars, notified, faults, handlerVars, reconcilerVars,
                   watcherVars, gateway, crashes, worker>>

\* The watch tells of every change to a pod, those to a pod that has ended included.
PodUpdated(m) ==
    /\ pod[m] \in Terminated
    /\ wpc # "closed"
    /\ events' = events \cup {[monitor |-> m, ended |-> pod[m]]}
    /\ UNCHANGED <<clusterVars, handlerVars, reconcilerVars,
                   wpc, subject, ended, believed, gateway, crashes, worker>>

InformerStep ==
    /\ gateway # "down"
    /\ InformerApplies
    /\ UNCHANGED <<handlerVars, reconcilerVars, watcherVars, gateway, crashes, worker>>

-----------------------------------------------------------------------------
\* The gateway process.

HandlerStep ==
    /\ gateway = "up"
    /\ HandlerNext
    /\ UNCHANGED <<reconcilerVars, watcherVars, gateway, crashes, worker>>

\* The pass at boot comes before the watcher and the HTTP server are started.
ReconcilerStep ==
    /\ gateway # "down"
    /\ ReconcilerNext
    /\ gateway' = IF rpc' = "idle" THEN "up" ELSE gateway
    /\ UNCHANGED <<handlerVars, watcherVars, crashes, worker>>

WatcherStep ==
    /\ gateway = "up"
    /\ PodWatcherNext
    /\ UNCHANGED <<handlerVars, reconcilerVars, gateway, crashes, worker>>

\* Everything in memory is lost, requests being handled included.
GatewayCrashes ==
    /\ gateway # "down"
    /\ crashes < MaxCrashes
    /\ crashes' = crashes + 1
    /\ gateway' = "down"
    /\ create' = [m \in Monitors |-> IF create[m] \in {"new"} \cup CreateEnd THEN create[m] ELSE "failed"]
    /\ cleanup' = {} /\ stats' = {} /\ report' = {}
    /\ held' = [p \in CasProcess |-> None]
    /\ Forget
    /\ StopWatching
    /\ UNCHANGED <<object, cache, feed, pod, notified, faults, revived, worker>>

\* The informer lists all objects before anything else starts.
GatewayBoots ==
    /\ gateway = "down"
    /\ gateway' = "boot"
    /\ cache' = object
    /\ feed' = <<>>
    /\ UNCHANGED <<object, held, pod, notified, faults, handlerVars,
                   reconcilerVars, watcherVars, crashes, worker>>
-----------------------------------------------------------------------------
WorkerStep ==
    \/ \E m \in Monitors :
          \/ ReportStatus(m) \/ RequestTermination(m)
          \/ \E end \in {"completed", "error"} : EndQuietly(m, end)
          \/ \E how \in Terminated : PodEnds(m, how)
    \/ \E r \in report : LoseRequest(r)

ClusterStep == InformerStep \/ \E m \in Monitors : EvictPod(m) \/ CollectPod(m) \/ PodUpdated(m)

Next ==
    \/ HandlerStep \/ ReconcilerStep \/ WatcherStep
    \/ WorkerStep \/ ClusterStep
    \/ GatewayCrashes \/ GatewayBoots

Spec == Init /\ [][Next]_vars

\* The gateway is restarted, its informer keeps up, and its two loops keep going:
\* a reconciler pass is due every five minutes, an event that is there is read at
\* once, and the API server ends every watch sooner or later.  The kubelet kills
\* a pod that does not stop in time.  Nothing is assumed of requests.
HandleEvent ==
    CheckTerminated \/ MarkTerminated \/ NotifyTerminated \/ DeleteTerminated

Fairness ==
    /\ WF_vars(GatewayBoots)
    /\ WF_vars(InformerStep)
    /\ WF_vars(ReconcilerStep)
    /\ WF_vars(WatcherStep /\ OpenWatch)
    /\ WF_vars(WatcherStep /\ CloseWatch)
    /\ WF_vars(WatcherStep /\ HandleEvent)
    /\ \A m \in Monitors :
          /\ SF_vars(WatcherStep /\ \E e \in events : e.monitor = m /\ TakeEvent(e))
          /\ WF_vars(pod[m] = "stopping" /\ \E how \in Terminated : PodEnds(m, how))

FairSpec == Spec /\ Fairness

-----------------------------------------------------------------------------
\* The contract this implements.

Unstored == {"new", "counted", "admitted"}

StateOf(m) ==
    IF object[m] \in Terminal THEN "closed"
    ELSE IF object[m] # "absent" THEN "open"
    ELSE IF create[m] \in Unstored THEN "new" ELSE "gone"

\* Failures written to the object whose webhook is still to be sent.
OwedTo(m) ==
    (IF rpc = "notify" /\ marking = m THEN 1 ELSE 0)
        + (IF wpc = "notify" /\ subject = m THEN 1 ELSE 0)

Contract == INSTANCE MonitorContract WITH
    state <- [m \in Monitors |-> StateOf(m)],
    owed <- [m \in Monitors |-> OwedTo(m)],
    sent <- notified,
    revivals <- revived

\* Every step of handlers, reconciler, watcher, workers and cluster is a step of
\* the contract or changes nothing the contract speaks of.  In particular a
\* failure is found in an open monitor only, and is owed exactly when found.
ImplementsContract == Contract!Spec

-----------------------------------------------------------------------------
\* Safety.

\* A failure is reported to the caller once: monitor.error is sent a second time
\* only if a late report of the worker has taken the monitor out of its terminal
\* phase in between, whichever of the reconciler and the watcher comes first.
NotifyBudget == \A m \in Monitors : notified[m] <= 1 + revived[m]

\* The reconciler and the watcher never overwrite a terminal phase, however old
\* the phase they act on is: only a report of the worker, a deletion, or the
\* handler that could not start the pod does.
TerminalPhaseKept ==
    [][\A m \in Monitors :
          object[m] \in Terminal /\ object'[m] # object[m] =>
              \/ object'[m] = "absent"
              \/ [monitor |-> m, kind |-> object'[m]] \in report \ report'
              \/ create[m] = "podFailed"]_vars

\* A deleted monitor stays deleted, whatever was under way when it was: no
\* handler, no late report and no conditional write brings the object back.
DeletedStaysDeleted ==
    [][\A m \in Monitors :
          object[m] = "absent" /\ create[m] \notin Unstored =>
              object'[m] = "absent"]_vars

\* An object without a phase, which nothing would ever clean up, outlives its request
\* only when the answer to its creation was lost, the rollback failed, or the gateway
\* crashed: not because the first write of its status failed, whether that had an effect
\* or not, nor because of anything other requests, loops or workers do.
NoPhaselessRemnant ==
    \A m \in Monitors :
        object[m] = "unset" =>
            \/ create[m] \in {"stored", "rollback", "lost", "unrolled"}
            \/ crashes >= 1

\* A second monitor of a stream is admitted only while the informer has not yet
\* seen the first one become active: the check of store.Create is as good as the
\* informer's copy, and no better.
DuplicateNeedsLag ==
    [][\A m, n \in Monitors :
          create[m] = "counted" /\ create'[m] = "admitted" /\ feed = <<>>
              /\ object[n] \in Active => Url[n] # Url[m]]_vars

\* Monitors beyond the limit, likewise, are due to the informer's delay and to
\* requests that are still between the check and their object's first phase.
LimitNeedsLag ==
    [][\A m \in Monitors :
          create[m] = "new" /\ create'[m] = "counted" /\ feed = <<>> =>
              Cardinality({n \in Monitors : object[n] \in Active}) < MaxMonitors]_vars

\* The watcher only ever acts on a pod whose process has ended, so that neither
\* its verdict nor its deletion can hit a worker that is running.
WatcherSparesRunningPods ==
    subject # None => pod[subject] # "running"

-----------------------------------------------------------------------------
\* The inductive invariant behind the safety properties and the contract.

\* Whoever holds the current version of an object read an active phase in it: no
\* conditional write that is accepted can hit anything else.
HeldIsActive == \A p \in CasProcess : held[p] # None => object[held[p]] \in Active

\* An object appears only once its request has been admitted.
NothingBeforeCreate ==
    \A m \in Monitors : create[m] \in Unstored => object[m] = "absent"

\* What the reconciler and the watcher are working on is a monitor they have seen
\* active.
WorksOnMonitors ==
    /\ \A m \in missing : seen[m] \in Active
    /\ rpc = "idle" => missing = {}
    /\ rpc \in {"write", "notify"} => marking \in Monitors
    /\ wpc \in {"read", "write", "notify", "delete"} => subject \in Monitors
    /\ wpc = "read" => believed \in Active

IInv ==
    /\ TypeOK
    /\ HeldIsActive
    /\ NothingBeforeCreate
    /\ WorksOnMonitors

\* A monitor has one pod in its life: once the handler has made it, none is made
\* again, so that a pod the watcher has been told of stays terminated.
PodMade == {m \in Monitors : create[m] \in {"podMade", "podFailed"} \cup CreateEnd}

EndedForGood ==
    /\ \A m \in Monitors : pod[m] # "none" => m \in PodMade
    /\ \A e \in events : e.monitor \in PodMade /\ pod[e.monitor] # "running"
    /\ subject # None => subject \in PodMade /\ pod[subject] # "running"


\* The informer's copy differs from the object by what is on its way to it.
CacheFollows ==
    \A n \in Monitors :
        \/ /\ \A i \in 1..Len(feed) : feed[i].monitor # n
           /\ cache[n] = object[n]
        \/ \E i \in 1..Len(feed) :
              /\ feed[i] = [monitor |-> n, state |-> object[n]]
              /\ \A j \in (i + 1)..Len(feed) : feed[j].monitor # n

-----------------------------------------------------------------------------
\* Liveness, under FairSpec.

\* A monitor that has lost its pod, or never got it because the gateway crashed,
\* does not stay active.
MissingPodNoticed ==
    \A m \in Monitors :
        object[m] \in Active /\ pod[m] = "none" /\ create[m] \in CreateEnd
            ~> object[m] \notin Active

\* A monitor whose pod has ended does not stay active, though the watcher may
\* drop the event and the reconciler takes the dead pod for a live one.
EndedPodNoticed ==
    \A m \in Monitors :
        object[m] \in Active /\ pod[m] \in Terminated
            ~> object[m] \notin Active \/ pod[m] = "none"

\* The pod of a monitor that is deleted or finished goes away, without any help
\* of Kubernetes' garbage collector.
DeadPodRemoved ==
    \A m \in Monitors :
        object[m] \notin Active /\ pod[m] # "none" /\ create[m] \in CreateEnd
            ~> object[m] \in Active \/ pod[m] = "none"

=============================================================================
