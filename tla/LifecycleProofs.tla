--------------------------- MODULE LifecycleProofs ---------------------------
(***************************************************************************)
(* Proofs about module Lifecycle, for any set of monitors and any bounds.  *)
(* The inductive invariant IInv comes first; the safety properties follow  *)
(* from it.  Last, Lifecycle implements MonitorContract, from which comes  *)
(* the bound on monitor.error webhooks.                                    *)
(***************************************************************************)
EXTENDS Lifecycle, SequenceTheorems, TLAPS

\* What a write to one object does to all of them: it sets the one, and whoever
\* still holds a current version afterwards holds one that was not written.
LEMMA WriteEffect ==
    ASSUME ClusterTypeOK, NEW m \in Monitors, NEW s \in ObjectState, Write(m, s)
    PROVE  /\ object' = [object EXCEPT ![m] = s]
           /\ object' \in [Monitors -> ObjectState]
           /\ feed' \in Seq([monitor : Monitors, state : ObjectState])
           /\ held' \in [CasProcess -> Monitors \cup {None}]
           /\ \A p \in CasProcess : held'[p] # None =>
                 held'[p] = held[p] /\ object'[held[p]] = object[held[p]]
<1>1. CASE object[m] = s
  BY <1>1 DEF Write, ClusterTypeOK
<1>2. CASE object[m] # s
  <2>1. object' = [object EXCEPT ![m] = s] /\ held' = Invalidate(m)
    BY <1>2 DEF Write
  <2>2. feed' = Append(feed, [monitor |-> m, state |-> s])
    BY <1>2 DEF Write
  <2>3. [monitor |-> m, state |-> s] \in [monitor : Monitors, state : ObjectState]
    OBVIOUS
  <2>4. feed' \in Seq([monitor : Monitors, state : ObjectState])
    BY <2>2, <2>3 DEF ClusterTypeOK
  <2>5. held' \in [CasProcess -> Monitors \cup {None}]
    BY <2>1 DEF Invalidate, ClusterTypeOK
  <2>6. \A p \in CasProcess : held'[p] # None => held'[p] = held[p] /\ held[p] # m
    BY <2>1 DEF Invalidate, ClusterTypeOK
  <2>7. object' \in [Monitors -> ObjectState]
    BY <2>1 DEF ClusterTypeOK
  <2>8. ASSUME NEW p \in CasProcess, held'[p] # None
        PROVE  object'[held[p]] = object[held[p]]
    <3>1. held[p] \in Monitors /\ held[p] # m
      BY <2>6, <2>8 DEF ClusterTypeOK
    <3>2. QED
      BY <3>1, <2>1 DEF ClusterTypeOK
  <2>9. QED
    BY <2>1, <2>4, <2>5, <2>6, <2>7, <2>8
<1>3. QED
  BY <1>1, <1>2

\* The same of a write that leaves the phase alone.
LEMMA TouchEffect ==
    ASSUME ClusterTypeOK, NEW m \in Monitors, Touch(m)
    PROVE  /\ object' = object /\ feed' = feed
           /\ held' \in [CasProcess -> Monitors \cup {None}]
           /\ \A p \in CasProcess : held'[p] # None => held'[p] = held[p]
BY DEF Touch, Invalidate, ClusterTypeOK

\* Deleting a pod leaves every pod in a state a pod can be in.
LEMMA DeletePodEffect ==
    ASSUME ClusterTypeOK, NEW m, DeletePod(m)
    PROVE  pod' \in [Monitors -> PodState]
BY DEF DeletePod, ClusterTypeOK, PodState

\* A step that only keeps or drops held versions, and keeps the objects they are
\* of, keeps HeldIsActive.
LEMMA HeldKept ==
    ASSUME HeldIsActive,
           \A p \in CasProcess : held'[p] # None =>
              held'[p] = held[p] /\ object'[held[p]] = object[held[p]]
    PROVE  HeldIsActive'
BY DEF HeldIsActive

\* A write that is answered or fails: if it fails, it may still have had its effect.
LEMMA WriteCalled ==
    ASSUME ClusterTypeOK, HeldIsActive, NEW m \in Monitors, NEW s \in ObjectState,
           (Write(m, s) /\ UNCHANGED faults) \/ WriteFails(m, s)
    PROVE  /\ object' = object \/ object' = [object EXCEPT ![m] = s]
           /\ object' \in [Monitors -> ObjectState]
           /\ feed' \in Seq([monitor : Monitors, state : ObjectState])
           /\ held' \in [CasProcess -> Monitors \cup {None}]
           /\ faults' \in Nat
           /\ HeldIsActive'
<1>1. faults' \in Nat /\ (Write(m, s) \/ UNCHANGED <<object, feed, held>>)
  BY DEF WriteFails, Fault, ClusterTypeOK
<1>2. CASE Write(m, s)
  BY <1>1, <1>2, WriteEffect, HeldKept
<1>3. CASE UNCHANGED <<object, feed, held>>
  BY <1>1, <1>3 DEF HeldIsActive, ClusterTypeOK
<1>4. QED
  BY <1>1, <1>2, <1>3

\* The same of a write that leaves the phase alone.
LEMMA TouchCalled ==
    ASSUME ClusterTypeOK, HeldIsActive, NEW m \in Monitors,
           (Touch(m) /\ UNCHANGED faults) \/ TouchFails(m)
    PROVE  /\ object' = object /\ feed' = feed
           /\ held' \in [CasProcess -> Monitors \cup {None}]
           /\ faults' \in Nat
           /\ HeldIsActive'
<1>1. faults' \in Nat /\ (Touch(m) \/ UNCHANGED <<object, feed, held>>)
  BY DEF TouchFails, Fault, ClusterTypeOK
<1>2. QED
  BY <1>1, TouchEffect DEF HeldIsActive, ClusterTypeOK

\* The same of the deletion of a pod.
LEMMA DeletePodCalled ==
    ASSUME ClusterTypeOK, NEW m, (DeletePod(m) /\ UNCHANGED faults) \/ DeletePodFails(m)
    PROVE  pod' \in [Monitors -> PodState] /\ faults' \in Nat
BY DeletePodEffect DEF DeletePodFails, Fault, ClusterTypeOK

\* The same of the conditional write: it can only have had its effect on an active monitor.
LEMMA ConditionalWriteCalled ==
    ASSUME ClusterTypeOK, HeldIsActive, NEW p \in CasProcess, NEW m \in Monitors,
           NEW s \in ObjectState, ConditionalWriteFails(p, m, s)
    PROVE  /\ object' = object \/ (object[m] \in Active /\ object' = [object EXCEPT ![m] = s])
           /\ object' \in [Monitors -> ObjectState]
           /\ feed' \in Seq([monitor : Monitors, state : ObjectState])
           /\ held' \in [CasProcess -> Monitors \cup {None}]
           /\ faults' \in Nat
           /\ HeldIsActive'
<1>1. faults' \in Nat
  BY DEF ConditionalWriteFails, Fault, ClusterTypeOK
<1>2. CASE WriteAccepted(p, m) /\ Write(m, s)
  <2>1. object[m] \in Active
    BY <1>2, NoneAssumption DEF WriteAccepted, HeldIsActive
  <2>2. QED
    BY <1>1, <1>2, <2>1, WriteEffect, HeldKept
<1>3. CASE held' = [held EXCEPT ![p] = None] /\ UNCHANGED <<object, feed>>
  BY <1>1, <1>3 DEF HeldIsActive, ClusterTypeOK, CasProcess
<1>4. QED
  BY <1>2, <1>3 DEF ConditionalWriteFails

-----------------------------------------------------------------------------
LEMMA InitIInv == Init => IInv
<1> SUFFICES ASSUME Init PROVE IInv
  OBVIOUS
<1> USE DEF Init
<1>1. ClusterTypeOK
  BY DEF ClusterInit, ClusterTypeOK, ObjectState, PodState
<1>2. HandlersTypeOK
  BY DEF HandlersInit, HandlersTypeOK, CreateStep
<1>3. ReconcilerTypeOK
  BY DEF ReconcilerInit, ReconcilerTypeOK
<1>4. PodWatcherTypeOK
  BY DEF PodWatcherInit, PodWatcherTypeOK, Terminated
<1>5. TypeOK
  BY <1>1, <1>2, <1>3, <1>4 DEF TypeOK, WorkerState
<1>6. HeldIsActive /\ NothingBeforeCreate /\ WorksOnMonitors
  BY DEF HeldIsActive, NothingBeforeCreate, WorksOnMonitors, ClusterInit,
         HandlersInit, ReconcilerInit, PodWatcherInit
<1>7. QED
  BY <1>5, <1>6 DEF IInv

-----------------------------------------------------------------------------
\* Handlers.

LEMMA CreateKeeps ==
    ASSUME IInv, NEW m \in Monitors, Create(m)
    PROVE  ClusterTypeOK' /\ HandlersTypeOK' /\ HeldIsActive' /\ NothingBeforeCreate'
<1> USE DEF IInv, TypeOK
<1> USE DEF ClusterTypeOK, HandlersTypeOK, CreateStep, CreateEnd, CreateGoesTo, Unstored
<1>1. CASE CountActive(m) \/ Admit(m)
  BY <1>1 DEF CountActive, Admit, clusterVars, HeldIsActive, NothingBeforeCreate
<1>2. CASE StoreObject(m)
  <2>1. "unset" \in ObjectState /\ ((Write(m, "unset") /\ UNCHANGED faults) \/ WriteFails(m, "unset"))
    BY <1>2 DEF StoreObject, ObjectState
  <2>2. /\ object' = object \/ object' = [object EXCEPT ![m] = "unset"]
        /\ object' \in [Monitors -> ObjectState]
        /\ feed' \in Seq([monitor : Monitors, state : ObjectState])
        /\ held' \in [CasProcess -> Monitors \cup {None}]
        /\ faults' \in Nat
        /\ HeldIsActive'
    BY <2>1, WriteCalled
  <2>3. QED
    BY <1>2, <2>2 DEF StoreObject, NothingBeforeCreate
<1>3. CASE SetInitialPhase(m)
  <2>1. "initializing" \in ObjectState
    BY DEF ObjectState, Phase, Active
  <2>2. /\ object' = [object EXCEPT ![m] = "initializing"]
        /\ object' \in [Monitors -> ObjectState]
        /\ feed' \in Seq([monitor : Monitors, state : ObjectState])
        /\ held' \in [CasProcess -> Monitors \cup {None}]
        /\ HeldIsActive'
    BY <1>3, <2>1, WriteEffect, HeldKept DEF SetInitialPhase
  <2>3. QED
    BY <1>3, <2>2 DEF SetInitialPhase, NothingBeforeCreate
<1>4. CASE InitialPhaseFails(m)
  <2>1. CASE object[m] = "unset"
    <3>1. "initializing" \in ObjectState /\ WriteFails(m, "initializing")
      BY <1>4, <2>1 DEF InitialPhaseFails, ObjectState, Phase, Active
    <3>2. /\ object' = object \/ object' = [object EXCEPT ![m] = "initializing"]
          /\ object' \in [Monitors -> ObjectState]
          /\ feed' \in Seq([monitor : Monitors, state : ObjectState])
          /\ held' \in [CasProcess -> Monitors \cup {None}]
          /\ faults' \in Nat
          /\ HeldIsActive'
      BY <3>1, WriteCalled
    <3>3. QED
      BY <1>4, <3>2 DEF InitialPhaseFails, NothingBeforeCreate
  <2>2. CASE object[m] # "unset"
    BY <1>4, <2>2 DEF InitialPhaseFails, HeldIsActive, NothingBeforeCreate
  <2>3. QED
    BY <2>1, <2>2
<1>5. CASE RollBack(m)
  <2>1. "absent" \in ObjectState /\ ((Write(m, "absent") /\ UNCHANGED faults) \/ WriteFails(m, "absent"))
    BY <1>5 DEF RollBack, ObjectState
  <2>2. /\ object' = object \/ object' = [object EXCEPT ![m] = "absent"]
        /\ object' \in [Monitors -> ObjectState]
        /\ feed' \in Seq([monitor : Monitors, state : ObjectState])
        /\ held' \in [CasProcess -> Monitors \cup {None}]
        /\ faults' \in Nat
        /\ HeldIsActive'
    BY <2>1, WriteCalled
  <2>3. QED
    BY <1>5, <2>2 DEF RollBack, NothingBeforeCreate
<1>6. CASE StartPod(m)
  <2>1. pod' \in [Monitors -> PodState] /\ faults' \in Nat
    <3>1. MakePod(m) \/ UNCHANGED pod
      BY <1>6 DEF StartPod
    <3>2. pod' \in [Monitors -> PodState]
      BY <3>1 DEF MakePod, PodState
    <3>3. faults' \in Nat
      BY <1>6 DEF StartPod, Fault
    <3>4. QED
      BY <3>2, <3>3
  <2>2. create' \in [Monitors -> CreateStep] /\ create'[m] \notin Unstored
    BY <1>6 DEF StartPod
  <2>3. \A n \in Monitors \ {m} : create'[n] = create[n]
    BY <1>6 DEF StartPod
  <2>4. QED
    BY <1>6, <2>1, <2>2, <2>3
       DEF StartPod, storeVars, HeldIsActive, NothingBeforeCreate
<1>7. CASE RecordPodName(m)
  <2>1. (Touch(m) /\ UNCHANGED faults) \/ TouchFails(m)
    BY <1>7 DEF RecordPodName
  <2>2. /\ object' = object /\ feed' = feed
        /\ held' \in [CasProcess -> Monitors \cup {None}]
        /\ faults' \in Nat
        /\ HeldIsActive'
    BY <2>1, TouchCalled
  <2>3. QED
    BY <1>7, <2>2 DEF RecordPodName, NothingBeforeCreate
<1>8. CASE MarkCreateFailed(m)
  <2> DEFINE s == IF object[m] = "absent" THEN "absent" ELSE "error"
  <2>1. s \in ObjectState
    BY DEF ObjectState, Phase, Terminal
  <2>2. (Write(m, s) /\ UNCHANGED faults) \/ WriteFails(m, s)
    BY <1>8 DEF MarkCreateFailed
  <2>3. /\ object' = object \/ object' = [object EXCEPT ![m] = s]
        /\ object' \in [Monitors -> ObjectState]
        /\ feed' \in Seq([monitor : Monitors, state : ObjectState])
        /\ held' \in [CasProcess -> Monitors \cup {None}]
        /\ faults' \in Nat
        /\ HeldIsActive'
    <3> HIDE DEF s
    <3> QED
      BY <2>1, <2>2, WriteCalled
  <2>4. QED
    BY <1>8, <2>3 DEF MarkCreateFailed, NothingBeforeCreate
<1>9. QED
  BY <1>1, <1>2, <1>3, <1>4, <1>5, <1>6, <1>7, <1>8 DEF Create

LEMMA RequestKeeps ==
    ASSUME IInv, NEW m \in Monitors,
           \/ DeleteMonitor(m) \/ CleanUpPod(m) \/ PatchMonitor(m)
           \/ \E s \in Phase : UpdateMonitorStatus(m, s)
           \/ UpdateStats(m) \/ TerminateMonitor(m)
    PROVE  ClusterTypeOK' /\ HandlersTypeOK' /\ HeldIsActive' /\ NothingBeforeCreate'
<1> USE DEF IInv, TypeOK
<1>0. "absent" \in ObjectState
  BY DEF ObjectState
<1>1. ASSUME Write(m, "absent"),
             UNCHANGED <<cache, pod, notified, create, stats, revived>>,
             DeleteAnswered(m), report' \subseteq report
      PROVE  ClusterTypeOK' /\ HandlersTypeOK' /\ HeldIsActive' /\ NothingBeforeCreate'
  <2>1. /\ object' = [object EXCEPT ![m] = "absent"]
        /\ object' \in [Monitors -> ObjectState]
        /\ feed' \in Seq([monitor : Monitors, state : ObjectState])
        /\ held' \in [CasProcess -> Monitors \cup {None}]
        /\ HeldIsActive'
    BY <1>0, <1>1, WriteEffect, HeldKept
  <2>2. cleanup' \subseteq Monitors /\ faults' \in Nat
    BY <1>1 DEF DeleteAnswered, Fault, ClusterTypeOK, HandlersTypeOK
  <2>3. QED
    BY <1>1, <2>1, <2>2 DEF NothingBeforeCreate, ClusterTypeOK, HandlersTypeOK
<1>2. ASSUME Touch(m),
             UNCHANGED <<cache, pod, notified, faults, create, cleanup, report, revived>>,
             stats' \subseteq stats
      PROVE  ClusterTypeOK' /\ HandlersTypeOK' /\ HeldIsActive' /\ NothingBeforeCreate'
  <2>1. /\ object' = object /\ feed' = feed
        /\ held' \in [CasProcess -> Monitors \cup {None}]
        /\ HeldIsActive'
    BY <1>2, TouchEffect DEF HeldIsActive
  <2>2. QED
    BY <1>2, <2>1 DEF NothingBeforeCreate, ClusterTypeOK, HandlersTypeOK
<1>3. CASE DeleteMonitor(m)
  BY <1>1, <1>3 DEF DeleteMonitor
<1>4. CASE CleanUpPod(m)
  <2>1. pod' \in [Monitors -> PodState] /\ faults' \in Nat
    BY <1>4, DeletePodCalled DEF CleanUpPod
  <2>2. QED
    BY <1>4, <2>1
       DEF CleanUpPod, storeVars, HeldIsActive, NothingBeforeCreate,
           ClusterTypeOK, HandlersTypeOK
<1>5. CASE PatchMonitor(m)
  BY <1>2, <1>5 DEF PatchMonitor
<1>6. ASSUME NEW s \in Phase, UpdateMonitorStatus(m, s)
      PROVE  ClusterTypeOK' /\ HandlersTypeOK' /\ HeldIsActive' /\ NothingBeforeCreate'
  <2>1. /\ stats' \subseteq Monitors /\ revived' \in [Monitors -> Nat]
        /\ report' \subseteq report /\ faults' \in Nat
    <3>1. stats' \subseteq Monitors /\ report' \subseteq report
      BY <1>6 DEF UpdateMonitorStatus, HandlersTypeOK
    <3>2. revived' \in [Monitors -> Nat]
      BY <1>6 DEF UpdateMonitorStatus, HandlersTypeOK
    <3>3. faults' \in Nat
      BY <1>6 DEF UpdateMonitorStatus, Fault, ClusterTypeOK
    <3>4. QED
      BY <3>1, <3>2, <3>3
  <2>2. CASE object[m] = "absent"
    BY <1>6, <2>1, <2>2
       DEF UpdateMonitorStatus, HeldIsActive, NothingBeforeCreate,
           ClusterTypeOK, HandlersTypeOK
  <2>3. CASE object[m] # "absent"
    <3>1. s \in ObjectState /\ Write(m, s)
      BY <1>6, <2>3 DEF UpdateMonitorStatus, ObjectState
    <3>2. /\ object' = [object EXCEPT ![m] = s]
          /\ object' \in [Monitors -> ObjectState]
          /\ feed' \in Seq([monitor : Monitors, state : ObjectState])
          /\ held' \in [CasProcess -> Monitors \cup {None}]
          /\ HeldIsActive'
      BY <3>1, WriteEffect, HeldKept
    <3>3. QED
      BY <1>6, <2>1, <2>3, <3>2
         DEF UpdateMonitorStatus, NothingBeforeCreate, ClusterTypeOK, HandlersTypeOK
  <2>4. QED
    BY <2>2, <2>3
<1>7. CASE UpdateStats(m)
  <2>1. CASE cache[m] = "absent"
    BY <1>7, <2>1
       DEF UpdateStats, HeldIsActive, NothingBeforeCreate, ClusterTypeOK, HandlersTypeOK
  <2>2. CASE cache[m] # "absent"
    BY <1>2, <1>7, <2>2 DEF UpdateStats
  <2>3. QED
    BY <2>1, <2>2
<1>8. CASE TerminateMonitor(m)
  BY <1>1, <1>8 DEF TerminateMonitor
<1>9. QED
  BY <1>3, <1>4, <1>5, <1>6, <1>7, <1>8

LEMMA HandlerKeepsIInv == IInv /\ HandlerStep => IInv'
<1> SUFFICES ASSUME IInv, HandlerStep PROVE IInv'
  OBVIOUS
<1>1. ClusterTypeOK' /\ HandlersTypeOK' /\ HeldIsActive' /\ NothingBeforeCreate'
  BY CreateKeeps, RequestKeeps DEF HandlerStep, HandlerNext
<1>2. ReconcilerTypeOK' /\ PodWatcherTypeOK' /\ WorksOnMonitors'
  BY DEF HandlerStep, IInv, TypeOK, reconcilerVars, watcherVars,
         ReconcilerTypeOK, PodWatcherTypeOK, WorksOnMonitors
<1>3. TypeOK'
  BY <1>1, <1>2 DEF HandlerStep, IInv, TypeOK
<1>4. QED
  BY <1>1, <1>2, <1>3 DEF IInv

-----------------------------------------------------------------------------
\* The reconciler.

LEMMA ReconcilerKeepsIInv == IInv /\ ReconcilerStep => IInv'
<1> SUFFICES ASSUME IInv, ReconcilerStep PROVE IInv'
  OBVIOUS
<1> USE DEF IInv, TypeOK
<1>1. /\ HandlersTypeOK' /\ PodWatcherTypeOK' /\ crashes' \in Nat
      /\ gateway' \in {"down", "boot", "up"} /\ worker' \in [Monitors -> WorkerState]
      /\ create' = create
      /\ UNCHANGED <<wpc, subject, believed>>
  BY DEF ReconcilerStep, handlerVars, watcherVars, HandlersTypeOK, PodWatcherTypeOK
<1>2. SUFFICES ClusterTypeOK' /\ ReconcilerTypeOK' /\ HeldIsActive'
               /\ NothingBeforeCreate' /\ WorksOnMonitors'
  BY <1>1
<1> DEFINE Works == /\ \A m \in missing : seen[m] \in Active
                    /\ rpc = "idle" => missing = {}
                    /\ rpc \in {"write", "notify"} => marking \in Monitors
<1>3. SUFFICES ClusterTypeOK' /\ ReconcilerTypeOK' /\ HeldIsActive'
               /\ NothingBeforeCreate' /\ Works'
  BY <1>1 DEF WorksOnMonitors
<1>4. CASE SnapshotMonitors
  <2>1. ClusterTypeOK' /\ HeldIsActive' /\ NothingBeforeCreate'
    BY <1>1, <1>4 DEF SnapshotMonitors, clusterVars, ClusterTypeOK, HeldIsActive,
                      NothingBeforeCreate
  <2>2. seen' \in [Monitors -> Active \cup {None}]
    BY <1>4 DEF SnapshotMonitors, ActivePhase
  <2>3. rpc' = "list" /\ UNCHANGED <<missing, orphans, marking>>
    BY <1>4 DEF SnapshotMonitors
  <2>4. ReconcilerTypeOK'
    BY <2>2, <2>3 DEF ReconcilerTypeOK
  <2>5. missing = {}
    BY <1>4 DEF SnapshotMonitors, WorksOnMonitors
  <2>6. QED
    BY <2>1, <2>3, <2>4, <2>5
<1>5. CASE ListPods
  BY <1>1, <1>5 DEF ListPods, WithoutMonitor, clusterVars, ClusterTypeOK, ReconcilerTypeOK,
                    HeldIsActive, NothingBeforeCreate
<1>6. CASE GiveUp
  BY <1>1, <1>6 DEF GiveUp, Fault, Forget, storeVars, ClusterTypeOK, ReconcilerTypeOK,
                    HeldIsActive, NothingBeforeCreate
<1>7. ASSUME NEW m \in Monitors, CheckMissing(m)
      PROVE  ClusterTypeOK' /\ ReconcilerTypeOK' /\ HeldIsActive'
             /\ NothingBeforeCreate' /\ Works'
  <2>1. seen[m] \in Active /\ m \in missing
    BY <1>7 DEF CheckMissing, WorksOnMonitors
  <2>2. held' = held \/ (held' = [held EXCEPT !["reconciler"] = m] /\ object[m] \in Active)
    BY <1>7, <2>1 DEF CheckMissing, Hold, ExpectedPhase
  <2>3. HeldIsActive' /\ held' \in [CasProcess -> Monitors \cup {None}]
    BY <1>7, <2>2 DEF CheckMissing, HeldIsActive, ClusterTypeOK, CasProcess
  <2>4. faults' \in Nat
    BY <1>7 DEF CheckMissing, Fault, ClusterTypeOK
  <2>5. ClusterTypeOK' /\ NothingBeforeCreate'
    BY <1>1, <1>7, <2>3, <2>4 DEF CheckMissing, ClusterTypeOK, NothingBeforeCreate
  <2>6. ReconcilerTypeOK' /\ Works'
    BY <1>7 DEF CheckMissing, ReconcilerTypeOK, WorksOnMonitors
  <2>7. QED
    BY <2>3, <2>5, <2>6
<1>8. CASE MarkMissing
  <2>1. marking \in Monitors /\ rpc = "write"
    BY <1>8 DEF MarkMissing, WorksOnMonitors
  <2>2. CASE /\ WriteAccepted("reconciler", marking)
             /\ Write(marking, "error")
             /\ rpc' = "notify"
             /\ UNCHANGED <<marking, faults>>
    <3>1. "error" \in ObjectState
      BY DEF ObjectState, Phase, Terminal
    <3>2. /\ object' = [object EXCEPT ![marking] = "error"]
          /\ object' \in [Monitors -> ObjectState]
          /\ feed' \in Seq([monitor : Monitors, state : ObjectState])
          /\ held' \in [CasProcess -> Monitors \cup {None}]
          /\ HeldIsActive'
      BY <2>1, <2>2, <3>1, WriteEffect, HeldKept
    <3>3. object[marking] \in Active
      BY <2>1, <2>2, NoneAssumption DEF WriteAccepted, HeldIsActive, CasProcess
    <3>4. NothingBeforeCreate'
      BY <1>1, <2>1, <3>2, <3>3 DEF NothingBeforeCreate, Active, ClusterTypeOK
    <3>5. QED
      BY <1>8, <2>1, <2>2, <3>2, <3>4
         DEF MarkMissing, ClusterTypeOK, ReconcilerTypeOK, WorksOnMonitors
  <2>3. CASE /\ ~WriteAccepted("reconciler", marking)
             /\ rpc' = "loop" /\ marking' = None
             /\ UNCHANGED <<object, feed, held, faults>>
    BY <1>1, <1>8, <2>3 DEF MarkMissing, ClusterTypeOK, ReconcilerTypeOK,
                    HeldIsActive, NothingBeforeCreate, WorksOnMonitors
  <2>4. CASE /\ ConditionalWriteFails("reconciler", marking, "error")
             /\ rpc' = "loop" /\ marking' = None
    <3>1. /\ object' = object
             \/ (object[marking] \in Active /\ object' = [object EXCEPT ![marking] = "error"])
          /\ object' \in [Monitors -> ObjectState]
          /\ feed' \in Seq([monitor : Monitors, state : ObjectState])
          /\ held' \in [CasProcess -> Monitors \cup {None}]
          /\ faults' \in Nat
          /\ HeldIsActive'
      <4>1. "reconciler" \in CasProcess /\ "error" \in ObjectState
        BY DEF CasProcess, ObjectState, Phase, Terminal
      <4>2. QED
        BY <2>1, <2>4, <4>1, ConditionalWriteCalled
    <3>2. NothingBeforeCreate'
      BY <1>1, <2>1, <3>1 DEF NothingBeforeCreate, Active, ClusterTypeOK
    <3>3. ClusterTypeOK'
      BY <1>8, <3>1 DEF MarkMissing, ClusterTypeOK
    <3>4. ReconcilerTypeOK' /\ Works'
      BY <1>8, <2>4 DEF MarkMissing, ReconcilerTypeOK, WorksOnMonitors
    <3>5. QED
      BY <3>1, <3>2, <3>3, <3>4
  <2>5. QED
    BY <1>8, <2>2, <2>3, <2>4 DEF MarkMissing
<1>9. CASE NotifyMissing
  BY <1>1, <1>9 DEF NotifyMissing, storeVars, ClusterTypeOK, ReconcilerTypeOK,
                    HeldIsActive, NothingBeforeCreate, WorksOnMonitors
<1>10. ASSUME NEW m \in Monitors, DeleteOrphan(m)
       PROVE  ClusterTypeOK' /\ ReconcilerTypeOK' /\ HeldIsActive'
              /\ NothingBeforeCreate' /\ Works'
  <2>1. pod' \in [Monitors -> PodState] /\ faults' \in Nat
    BY <1>10, DeletePodCalled DEF DeleteOrphan
  <2>2. QED
    BY <1>1, <1>10, <2>1 DEF DeleteOrphan, storeVars, ClusterTypeOK, ReconcilerTypeOK,
                    HeldIsActive, NothingBeforeCreate, WorksOnMonitors
<1>11. CASE FinishPass
  BY <1>1, <1>11 DEF FinishPass, Forget, clusterVars, ClusterTypeOK, ReconcilerTypeOK,
                    HeldIsActive, NothingBeforeCreate
<1>12. QED
  BY <1>4, <1>5, <1>6, <1>7, <1>8, <1>9, <1>10, <1>11 DEF ReconcilerStep, ReconcilerNext

-----------------------------------------------------------------------------
\* The pod watcher.

LEMMA WatcherKeepsIInv == IInv /\ WatcherStep => IInv'
<1> SUFFICES ASSUME IInv, WatcherStep PROVE IInv'
  OBVIOUS
<1> USE DEF IInv, TypeOK
<1>1. /\ HandlersTypeOK' /\ ReconcilerTypeOK' /\ crashes' \in Nat
      /\ gateway' \in {"down", "boot", "up"} /\ worker' \in [Monitors -> WorkerState]
      /\ create' = create
      /\ UNCHANGED <<rpc, seen, missing, marking>>
  BY DEF WatcherStep, handlerVars, reconcilerVars, HandlersTypeOK, ReconcilerTypeOK
<1> DEFINE Works == /\ wpc \in {"read", "write", "notify", "delete"} => subject \in Monitors
                    /\ wpc = "read" => believed \in Active
<1>2. SUFFICES ClusterTypeOK' /\ PodWatcherTypeOK' /\ HeldIsActive'
               /\ NothingBeforeCreate' /\ Works'
  BY <1>1 DEF WorksOnMonitors
<1> USE DEF LetGo, Resume
<1>3. CASE OpenWatch
  <2>1. ClusterTypeOK' /\ HeldIsActive' /\ NothingBeforeCreate'
    BY <1>1, <1>3 DEF OpenWatch, clusterVars, ClusterTypeOK, HeldIsActive,
                      NothingBeforeCreate
  <2>2. events' \subseteq PodEvent
    BY <1>3 DEF OpenWatch, TerminatedPods, PodEvent
  <2>3. QED
    BY <1>3, <2>1, <2>2 DEF OpenWatch, PodWatcherTypeOK
<1>4. CASE CloseWatch
  BY <1>1, <1>4 DEF CloseWatch, clusterVars, ClusterTypeOK, PodWatcherTypeOK,
                    HeldIsActive, NothingBeforeCreate
<1>5. ASSUME NEW e \in events, TakeEvent(e)
      PROVE  ClusterTypeOK' /\ PodWatcherTypeOK' /\ HeldIsActive'
             /\ NothingBeforeCreate' /\ Works'
  <2>1. ClusterTypeOK' /\ HeldIsActive' /\ NothingBeforeCreate'
    BY <1>1, <1>5 DEF TakeEvent, clusterVars, ClusterTypeOK, HeldIsActive,
                      NothingBeforeCreate
  <2>2. e.monitor \in Monitors /\ e.ended \in Terminated
    BY DEF PodWatcherTypeOK, PodEvent
  <2>3. PodWatcherTypeOK' /\ Works'
    BY <1>5, <2>2 DEF TakeEvent, PodWatcherTypeOK, WorksOnMonitors
  <2>4. QED
    BY <2>1, <2>3
<1>6. CASE CheckTerminated
  <2>1. subject \in Monitors /\ believed \in Active /\ wpc = "read"
    BY <1>6 DEF CheckTerminated, WorksOnMonitors
  <2>2. held' = held \/ (held' = [held EXCEPT !["watcher"] = subject] /\ object[subject] \in Active)
    BY <1>6, <2>1 DEF CheckTerminated, Hold, ExpectedPhase
  <2>3. HeldIsActive' /\ held' \in [CasProcess -> Monitors \cup {None}]
    BY <1>6, <2>1, <2>2 DEF CheckTerminated, HeldIsActive, ClusterTypeOK, CasProcess
  <2>4. faults' \in Nat
    BY <1>6 DEF CheckTerminated, Fault, ClusterTypeOK
  <2>5. ClusterTypeOK' /\ NothingBeforeCreate'
    BY <1>1, <1>6, <2>3, <2>4 DEF CheckTerminated, ClusterTypeOK, NothingBeforeCreate
  <2>6. PodWatcherTypeOK' /\ Works'
    BY <1>6, <2>1 DEF CheckTerminated, PodWatcherTypeOK, Terminated
  <2>7. QED
    BY <2>3, <2>5, <2>6
<1>7. CASE MarkTerminated
  <2>1. subject \in Monitors /\ wpc = "write"
    BY <1>7 DEF MarkTerminated, WorksOnMonitors
  <2>0. Verdict \in ObjectState
    BY DEF Verdict, ObjectState, Phase, Terminal
  <2>2. CASE /\ WriteAccepted("watcher", subject)
             /\ Write(subject, Verdict)
             /\ wpc' = IF ended = "succeeded" THEN "delete" ELSE "notify"
             /\ UNCHANGED <<faults, subject, ended, believed>>
    <3>2. /\ object' = [object EXCEPT ![subject] = Verdict]
          /\ object' \in [Monitors -> ObjectState]
          /\ feed' \in Seq([monitor : Monitors, state : ObjectState])
          /\ held' \in [CasProcess -> Monitors \cup {None}]
          /\ HeldIsActive'
      BY <2>0, <2>1, <2>2, WriteEffect, HeldKept
    <3>3. object[subject] \in Active
      BY <2>1, <2>2, NoneAssumption DEF WriteAccepted, HeldIsActive, CasProcess
    <3>4. NothingBeforeCreate'
      BY <1>1, <2>1, <3>2, <3>3 DEF NothingBeforeCreate, Active, ClusterTypeOK
    <3>5. PodWatcherTypeOK' /\ Works'
      BY <1>7, <2>1, <2>2 DEF MarkTerminated, PodWatcherTypeOK
    <3>6. QED
      BY <1>7, <2>2, <3>2, <3>4, <3>5 DEF MarkTerminated, ClusterTypeOK
  <2>3. CASE /\ ~WriteAccepted("watcher", subject)
             /\ Resume
             /\ UNCHANGED <<object, feed, held, faults>>
    BY <1>1, <1>7, <2>3 DEF MarkTerminated, ClusterTypeOK, PodWatcherTypeOK, Terminated,
                            HeldIsActive, NothingBeforeCreate
  <2>4. CASE ConditionalWriteFails("watcher", subject, Verdict) /\ Resume
    <3>1. /\ object' = object
             \/ (object[subject] \in Active /\ object' = [object EXCEPT ![subject] = Verdict])
          /\ object' \in [Monitors -> ObjectState]
          /\ feed' \in Seq([monitor : Monitors, state : ObjectState])
          /\ held' \in [CasProcess -> Monitors \cup {None}]
          /\ faults' \in Nat
          /\ HeldIsActive'
      <4>1. "watcher" \in CasProcess
        BY DEF CasProcess
      <4>2. QED
        BY <2>0, <2>1, <2>4, <4>1, ConditionalWriteCalled
    <3>2. NothingBeforeCreate'
      BY <1>1, <2>1, <3>1 DEF NothingBeforeCreate, Active, ClusterTypeOK
    <3>3. ClusterTypeOK'
      BY <1>7, <3>1 DEF MarkTerminated, ClusterTypeOK
    <3>4. PodWatcherTypeOK' /\ Works'
      BY <1>7, <2>4 DEF MarkTerminated, PodWatcherTypeOK, Terminated
    <3>5. QED
      BY <3>1, <3>2, <3>3, <3>4
  <2>5. QED
    BY <1>7, <2>2, <2>3, <2>4 DEF MarkTerminated
<1>8. CASE NotifyTerminated
  <2>1. subject \in Monitors
    BY <1>8 DEF NotifyTerminated, WorksOnMonitors
  <2>2. QED
    BY <1>1, <1>8, <2>1 DEF NotifyTerminated, storeVars, ClusterTypeOK, PodWatcherTypeOK,
                            HeldIsActive, NothingBeforeCreate
<1>9. CASE DeleteTerminated
  <2>1. subject \in Monitors
    BY <1>9 DEF DeleteTerminated, WorksOnMonitors
  <2>2. pod' \in [Monitors -> PodState] /\ faults' \in Nat
    BY <1>9, <2>1, DeletePodCalled DEF DeleteTerminated
  <2>3. QED
    BY <1>1, <1>9, <2>2 DEF DeleteTerminated, storeVars, ClusterTypeOK, PodWatcherTypeOK,
                            Terminated, HeldIsActive, NothingBeforeCreate
<1>10. QED
  BY <1>3, <1>4, <1>5, <1>6, <1>7, <1>8, <1>9 DEF WatcherStep, PodWatcherNext

-----------------------------------------------------------------------------
\* Workers and the cluster.

LEMMA WorkerKeepsIInv == IInv /\ WorkerStep => IInv'
<1> SUFFICES ASSUME IInv, WorkerStep PROVE IInv'
  OBVIOUS
<1> USE DEF IInv, TypeOK
<1>1. ASSUME NEW m \in Monitors, NEW kind \in Phase \cup {"terminate"},
             NEW s \in WorkerState, Send(m, kind, s)
      PROVE  IInv'
  <2>1. report' \subseteq Request
    BY <1>1 DEF Send, Request, HandlersTypeOK
  <2>2. worker' \in [Monitors -> WorkerState]
    BY <1>1 DEF Send
  <2>3. UNCHANGED <<clusterVars, create, cleanup, stats, revived,
                    reconcilerVars, watcherVars, gateway, crashes>>
    BY <1>1 DEF Send
  <2>4. HandlersTypeOK'
    BY <2>1, <2>3 DEF HandlersTypeOK
  <2>5. QED
    BY <2>2, <2>3, <2>4
       DEF clusterVars, reconcilerVars, watcherVars, ClusterTypeOK, ReconcilerTypeOK,
           PodWatcherTypeOK, HeldIsActive, NothingBeforeCreate, WorksOnMonitors
<1>2. ASSUME NEW m \in Monitors, ReportStatus(m) \/ RequestTermination(m)
      PROVE  IInv'
  <2>1. ASSUME NEW status \in Reported
        PROVE  status \in Phase /\ AfterReport(worker[m], status) \in WorkerState
    BY <2>1 DEF Reported, AfterReport, WorkerState, Phase, Active
  <2>2. "terminate" \in Phase \cup {"terminate"} /\ "failing" \in WorkerState
    BY DEF WorkerState
  <2>3. QED
    BY <1>1, <1>2, <2>1, <2>2 DEF ReportStatus, RequestTermination
<1>3. ASSUME NEW m \in Monitors, NEW how \in Terminated, PodEnds(m, how)
      PROVE  IInv'
  <2>1. pod' \in [Monitors -> PodState]
    BY <1>3 DEF PodEnds, ClusterTypeOK, PodState, Terminated
  <2>2. events' \subseteq PodEvent
    BY <1>3 DEF PodEnds, PodWatcherTypeOK, PodEvent
  <2>3. UNCHANGED <<storeVars, notified, faults, handlerVars, reconcilerVars,
                    wpc, subject, ended, believed, gateway, crashes, worker>>
    BY <1>3 DEF PodEnds
  <2>4. ClusterTypeOK' /\ PodWatcherTypeOK'
    BY <2>1, <2>2, <2>3 DEF storeVars, ClusterTypeOK, PodWatcherTypeOK
  <2>5. QED
    BY <2>3, <2>4 DEF storeVars, handlerVars, reconcilerVars, HandlersTypeOK,
          ReconcilerTypeOK, HeldIsActive, NothingBeforeCreate, WorksOnMonitors
<1>4. ASSUME NEW r \in report, LoseRequest(r)
      PROVE  IInv'
  BY <1>4 DEF LoseRequest, clusterVars, reconcilerVars, watcherVars, ClusterTypeOK,
       HandlersTypeOK, ReconcilerTypeOK, PodWatcherTypeOK, HeldIsActive,
       NothingBeforeCreate, WorksOnMonitors
<1>5. ASSUME NEW m \in Monitors, NEW s \in {"completed", "error"}, EndQuietly(m, s)
      PROVE  IInv'
  <2>1. worker' \in [Monitors -> WorkerState]
    BY <1>5 DEF EndQuietly, WorkerState, Terminal
  <2>2. UNCHANGED <<clusterVars, handlerVars, reconcilerVars, watcherVars, gateway, crashes>>
    BY <1>5 DEF EndQuietly
  <2>3. QED
    BY <2>1, <2>2
       DEF clusterVars, handlerVars, reconcilerVars, watcherVars, ClusterTypeOK,
           HandlersTypeOK, ReconcilerTypeOK, PodWatcherTypeOK, HeldIsActive,
           NothingBeforeCreate, WorksOnMonitors
<1>6. QED
  BY <1>2, <1>3, <1>4, <1>5 DEF WorkerStep

LEMMA ClusterKeepsIInv == IInv /\ ClusterStep => IInv'
<1> SUFFICES ASSUME IInv, ClusterStep PROVE IInv'
  OBVIOUS
<1> USE DEF IInv, TypeOK
<1>1. CASE InformerStep
  <2>1. feed # <<>> /\ feed \in Seq([monitor : Monitors, state : ObjectState])
    BY <1>1 DEF InformerStep, InformerApplies, ClusterTypeOK
  <2>2. /\ Head(feed) \in [monitor : Monitors, state : ObjectState]
        /\ Tail(feed) \in Seq([monitor : Monitors, state : ObjectState])
    <3> HIDE DEF IInv, TypeOK
    <3> QED
      BY <2>1, HeadTailProperties
  <2>3. Head(feed).state \in ObjectState
    BY <2>2
  <2>4. cache' \in [Monitors -> ObjectState]
    BY <1>1, <2>3 DEF InformerStep, InformerApplies, ClusterTypeOK
  <2>5. UNCHANGED <<object, held, pod, notified, faults>> /\ feed' = Tail(feed)
    BY <1>1 DEF InformerStep, InformerApplies
  <2>6. ClusterTypeOK'
    BY <2>2, <2>4, <2>5 DEF ClusterTypeOK
  <2>7. QED
    BY <1>1, <2>5, <2>6 DEF InformerStep, handlerVars, reconcilerVars, watcherVars,
          HandlersTypeOK, ReconcilerTypeOK, PodWatcherTypeOK, HeldIsActive,
          NothingBeforeCreate, WorksOnMonitors
<1>2. ASSUME NEW m \in Monitors, EvictPod(m) \/ CollectPod(m)
      PROVE  IInv'
  <2>1. pod' \in [Monitors -> PodState]
    BY <1>2, DeletePodEffect DEF EvictPod, CollectPod
  <2>2. UNCHANGED <<storeVars, notified, faults, handlerVars, reconcilerVars,
                    watcherVars, gateway, crashes, worker>>
    BY <1>2 DEF EvictPod, CollectPod
  <2>3. QED
    BY <2>1, <2>2 DEF storeVars, handlerVars, reconcilerVars, watcherVars, ClusterTypeOK,
          HandlersTypeOK, ReconcilerTypeOK, PodWatcherTypeOK, HeldIsActive,
          NothingBeforeCreate, WorksOnMonitors
<1>3. ASSUME NEW m \in Monitors, PodUpdated(m)
      PROVE  IInv'
  <2>1. events' \subseteq PodEvent
    BY <1>3 DEF PodUpdated, PodWatcherTypeOK, PodEvent
  <2>2. UNCHANGED <<clusterVars, handlerVars, reconcilerVars,
                    wpc, subject, ended, believed, gateway, crashes, worker>>
    BY <1>3 DEF PodUpdated
  <2>3. QED
    BY <2>1, <2>2 DEF clusterVars, handlerVars, reconcilerVars, ClusterTypeOK,
          HandlersTypeOK, ReconcilerTypeOK, PodWatcherTypeOK, HeldIsActive,
          NothingBeforeCreate, WorksOnMonitors
<1>4. QED
  BY <1>1, <1>2, <1>3 DEF ClusterStep

-----------------------------------------------------------------------------
\* The gateway process.

LEMMA CrashKeepsIInv == IInv /\ GatewayCrashes => IInv'
<1> SUFFICES ASSUME IInv, GatewayCrashes PROVE IInv'
  OBVIOUS
<1> USE DEF IInv, TypeOK, GatewayCrashes
<1>1. ClusterTypeOK'
  BY DEF ClusterTypeOK
<1>2. create' \in [Monitors -> CreateStep]
  BY DEF HandlersTypeOK, CreateStep, CreateEnd
<1>3. HandlersTypeOK'
  BY <1>2 DEF HandlersTypeOK
<1>4. ReconcilerTypeOK'
  BY DEF Forget, ReconcilerTypeOK
<1>5. PodWatcherTypeOK'
  BY DEF StopWatching, LetGo, PodWatcherTypeOK, Terminated
<1>6. HeldIsActive'
  BY DEF HeldIsActive
<1>7. NothingBeforeCreate'
  BY DEF NothingBeforeCreate, CreateEnd, Unstored
<1>8. WorksOnMonitors'
  BY DEF WorksOnMonitors, Forget, StopWatching
<1>9. crashes' \in Nat /\ gateway' = "down" /\ worker' = worker
  OBVIOUS
<1>10. QED
  BY <1>1, <1>3, <1>4, <1>5, <1>6, <1>7, <1>8, <1>9

LEMMA BootKeepsIInv == IInv /\ GatewayBoots => IInv'
<1> SUFFICES ASSUME IInv, GatewayBoots PROVE IInv'
  OBVIOUS
<1> USE DEF IInv, TypeOK, GatewayBoots
<1>1. ClusterTypeOK'
  BY DEF ClusterTypeOK
<1>2. QED
  BY <1>1 DEF handlerVars, reconcilerVars, watcherVars, HandlersTypeOK, ReconcilerTypeOK,
       PodWatcherTypeOK, HeldIsActive, NothingBeforeCreate, WorksOnMonitors

LEMMA StutterKeepsIInv == IInv /\ UNCHANGED vars => IInv'
<1> SUFFICES ASSUME IInv, UNCHANGED vars PROVE IInv'
  OBVIOUS
<1>1. UNCHANGED <<clusterVars, handlerVars, reconcilerVars, watcherVars,
                  gateway, crashes, worker>>
  BY DEF vars
<1>2. QED
  BY <1>1 DEF clusterVars, handlerVars, reconcilerVars, watcherVars, IInv, TypeOK,
       ClusterTypeOK, HandlersTypeOK, ReconcilerTypeOK, PodWatcherTypeOK,
       HeldIsActive, NothingBeforeCreate, WorksOnMonitors

LEMMA StepKeepsIInv == IInv /\ [Next]_vars => IInv'
BY HandlerKeepsIInv, ReconcilerKeepsIInv, WatcherKeepsIInv, WorkerKeepsIInv,
   ClusterKeepsIInv, CrashKeepsIInv, BootKeepsIInv, StutterKeepsIInv DEF Next

\* In every reachable state, whatever the monitors and the bounds, whoever holds
\* the current version of an object has read an active phase in it
\* (UpdateStatusWithCondition), nothing is stored before its request is admitted
\* (store.Create), and the two loops work on monitors they have seen active.
THEOREM Invariance == Spec => []IInv
BY InitIInv, StepKeepsIInv, PTL DEF Spec

\* Every variable keeps its type.
THEOREM TypeCorrect == Spec => []TypeOK
<1>1. IInv => TypeOK
  BY DEF IInv
<1>2. QED
  BY <1>1, Invariance, PTL

-----------------------------------------------------------------------------
\* Who may write an object, and over what.

LEMMA WritesOne ==
    ASSUME ClusterTypeOK, NEW m \in Monitors, NEW s \in ObjectState,
           Write(m, s) \/ WriteFails(m, s),
           NEW n \in Monitors, object'[n] # object[n]
    PROVE  n = m /\ object'[n] = s
BY WriteEffect DEF WriteFails, ClusterTypeOK

\* The phase writes of the system, each with what its writer knows at that moment.
Written(m) ==
    \/ create[m] = "admitted" /\ object[m] = "absent"
    \/ create[m] = "stored" /\ object[m] = "unset"
    \/ object'[m] = "absent"
    \/ create[m] = "podFailed" /\ object[m] # "absent"
    \/ object[m] # "absent" /\ [monitor |-> m, kind |-> object'[m]] \in report \ report'
    \/ object[m] \in Active

LEMMA CreateWrites ==
    ASSUME IInv, NEW m \in Monitors, Create(m), NEW n \in Monitors, object'[n] # object[n]
    PROVE  Written(n)
<1>0. ClusterTypeOK
  BY DEF IInv, TypeOK
<1>1. {"unset", "initializing", "absent", "error"} \subseteq ObjectState
  BY DEF ObjectState, Phase, Active, Terminal
<1>2. CASE CountActive(m) \/ Admit(m) \/ StartPod(m)
  BY <1>2 DEF CountActive, Admit, StartPod, clusterVars, storeVars
<1>3. CASE StoreObject(m)
  <2>1. create[m] = "admitted" /\ (Write(m, "unset") \/ WriteFails(m, "unset"))
    BY <1>3 DEF StoreObject
  <2>2. n = m
    BY <1>0, <1>1, <2>1, WritesOne
  <2>3. QED
    BY <2>1, <2>2 DEF IInv, NothingBeforeCreate, Unstored, Written
<1>4. CASE SetInitialPhase(m) \/ InitialPhaseFails(m)
  <2>1. CASE object[m] = "unset"
    <3>1. create[m] = "stored" /\ (Write(m, "initializing") \/ WriteFails(m, "initializing"))
      BY <1>4, <2>1 DEF SetInitialPhase, InitialPhaseFails
    <3>2. n = m
      BY <1>0, <1>1, <3>1, WritesOne
    <3>3. QED
      BY <2>1, <3>1, <3>2 DEF Written
  <2>2. CASE object[m] # "unset"
    BY <1>4, <2>2 DEF SetInitialPhase, InitialPhaseFails
  <2>3. QED
    BY <2>1, <2>2
<1>5. CASE RollBack(m)
  <2>1. Write(m, "absent") \/ WriteFails(m, "absent")
    BY <1>5 DEF RollBack
  <2>2. QED
    BY <1>0, <1>1, <2>1, WritesOne DEF Written
<1>6. CASE RecordPodName(m)
  BY <1>0, <1>6, TouchEffect DEF RecordPodName, TouchFails
<1>7. CASE MarkCreateFailed(m)
  <2> DEFINE s == IF object[m] = "absent" THEN "absent" ELSE "error"
  <2>1. s \in ObjectState
    BY <1>1
  <2>2. Write(m, s) \/ WriteFails(m, s)
    BY <1>7 DEF MarkCreateFailed
  <2>3. n = m /\ object'[n] = s
    <3> HIDE DEF s
    <3> QED
      BY <1>0, <2>1, <2>2, WritesOne
  <2>4. QED
    BY <1>7, <2>3 DEF MarkCreateFailed, Written
<1>8. QED
  BY <1>2, <1>3, <1>4, <1>5, <1>6, <1>7 DEF Create

LEMMA RequestWrites ==
    ASSUME IInv, NEW m \in Monitors,
           \/ DeleteMonitor(m) \/ CleanUpPod(m) \/ PatchMonitor(m)
           \/ \E s \in Phase : UpdateMonitorStatus(m, s)
           \/ UpdateStats(m) \/ TerminateMonitor(m),
           NEW n \in Monitors, object'[n] # object[n]
    PROVE  Written(n)
<1>0. ClusterTypeOK
  BY DEF IInv, TypeOK
<1>1. "absent" \in ObjectState
  BY DEF ObjectState
<1>2. CASE DeleteMonitor(m) \/ TerminateMonitor(m)
  BY <1>0, <1>1, <1>2, WritesOne DEF DeleteMonitor, TerminateMonitor, Written
<1>3. CASE CleanUpPod(m)
  BY <1>3 DEF CleanUpPod, storeVars
<1>4. CASE PatchMonitor(m) \/ UpdateStats(m)
  BY <1>0, <1>4, TouchEffect DEF PatchMonitor, UpdateStats
<1>5. ASSUME NEW s \in Phase, UpdateMonitorStatus(m, s)
      PROVE  Written(n)
  <2>1. s \in ObjectState /\ Write(m, s) /\ object[m] # "absent"
    BY <1>5 DEF UpdateMonitorStatus, ObjectState
  <2>2. n = m /\ object'[n] = s
    BY <1>0, <2>1, WritesOne
  <2>3. [monitor |-> m, kind |-> s] \in report \ report'
    BY <1>5 DEF UpdateMonitorStatus
  <2>4. QED
    BY <2>1, <2>2, <2>3 DEF Written
<1>6. QED
  BY <1>2, <1>3, <1>4, <1>5

\* The conditional writes: the version written over is the one that was read.
LEMMA ConditionalWrites ==
    ASSUME IInv, MarkMissing \/ MarkTerminated,
           NEW n \in Monitors, object'[n] # object[n]
    PROVE  object[n] \in Active
<1>0. ClusterTypeOK /\ {"completed", "error"} \subseteq ObjectState
  BY DEF IInv, TypeOK, ObjectState, Phase, Terminal
<1>1. ASSUME NEW p \in CasProcess, NEW m \in Monitors, NEW s \in ObjectState,
             \/ WriteAccepted(p, m) /\ Write(m, s)
             \/ ConditionalWriteFails(p, m, s)
      PROVE  object[n] \in Active
  <2>1. WriteAccepted(p, m) /\ Write(m, s)
    BY <1>1 DEF ConditionalWriteFails
  <2>2. n = m
    BY <1>0, <2>1, WritesOne
  <2>3. QED
    BY <2>1, <2>2, NoneAssumption DEF WriteAccepted, IInv, HeldIsActive
<1>2. CASE MarkMissing
  <2>1. marking \in Monitors /\ "reconciler" \in CasProcess
    BY <1>2 DEF MarkMissing, IInv, WorksOnMonitors, CasProcess
  <2>2. \/ WriteAccepted("reconciler", marking) /\ Write(marking, "error")
        \/ ConditionalWriteFails("reconciler", marking, "error")
    BY <1>2 DEF MarkMissing
  <2>3. QED
    BY <1>0, <1>1, <2>1, <2>2
<1>3. CASE MarkTerminated
  <2>1. subject \in Monitors /\ "watcher" \in CasProcess
    BY <1>3 DEF MarkTerminated, IInv, WorksOnMonitors, CasProcess
  <2>2. \/ WriteAccepted("watcher", subject) /\ Write(subject, Verdict)
        \/ ConditionalWriteFails("watcher", subject, Verdict)
    BY <1>3 DEF MarkTerminated
  <2>3. Verdict \in ObjectState
    BY <1>0 DEF Verdict
  <2>4. QED
    BY <1>1, <2>1, <2>2, <2>3
<1>4. QED
  BY <1>2, <1>3

LEMMA StepWrites ==
    ASSUME IInv, [Next]_vars, NEW n \in Monitors, object'[n] # object[n]
    PROVE  Written(n)
<1>1. CASE HandlerStep
  BY <1>1, CreateWrites, RequestWrites DEF HandlerStep, HandlerNext
<1>2. CASE ReconcilerStep
  <2>1. MarkMissing
    BY <1>2 DEF ReconcilerStep, ReconcilerNext, SnapshotMonitors, ListPods, GiveUp,
         CheckMissing, NotifyMissing, DeleteOrphan, FinishPass, clusterVars, storeVars
  <2>2. QED
    BY <2>1, ConditionalWrites DEF Written
<1>3. CASE WatcherStep
  <2>1. MarkTerminated
    BY <1>3 DEF WatcherStep, PodWatcherNext, OpenWatch, CloseWatch, TakeEvent,
         CheckTerminated, NotifyTerminated, DeleteTerminated, clusterVars, storeVars
  <2>2. QED
    BY <2>1, ConditionalWrites DEF Written
<1>4. CASE WorkerStep
  BY <1>4 DEF WorkerStep, ReportStatus, RequestTermination, EndQuietly, Send,
       PodEnds, LoseRequest, clusterVars, storeVars
<1>5. CASE ClusterStep
  BY <1>5 DEF ClusterStep, InformerStep, InformerApplies, EvictPod, CollectPod, PodUpdated,
       clusterVars, storeVars
<1>6. CASE GatewayCrashes \/ GatewayBoots \/ UNCHANGED vars
  BY <1>6 DEF GatewayCrashes, GatewayBoots, vars, clusterVars
<1>7. QED
  BY <1>1, <1>2, <1>3, <1>4, <1>5, <1>6 DEF Next

\* Only a report of the worker, a deletion, or the handler that could not start
\* the pod overwrites a terminal phase: what the reconciler and the watcher write
\* conditionally never does (UpdateStatusWithCondition).
THEOREM TerminalKept == Spec => TerminalPhaseKept
<1>1. IInv /\ [Next]_vars =>
        [\A m \in Monitors :
            object[m] \in Terminal /\ object'[m] # object[m] =>
                \/ object'[m] = "absent"
                \/ [monitor |-> m, kind |-> object'[m]] \in report \ report'
                \/ create[m] = "podFailed"]_vars
  BY StepWrites DEF Written, Active, Terminal
<1>2. QED
  BY <1>1, Invariance, PTL DEF Spec, TerminalPhaseKept

\* No interleaving of handlers, late reports, conditional writes and restarts
\* brings a deleted monitor back.
THEOREM DeletedKept == Spec => DeletedStaysDeleted
<1>1. IInv /\ [Next]_vars =>
        [\A m \in Monitors :
            object[m] = "absent" /\ create[m] \notin Unstored =>
                object'[m] = "absent"]_vars
  BY StepWrites DEF Written, Active, Unstored
<1>2. QED
  BY <1>1, Invariance, PTL DEF Spec, DeletedStaysDeleted

-----------------------------------------------------------------------------
\* Pods.

LEMMA DeletePodStops ==
    ASSUME ClusterTypeOK, NEW m, DeletePod(m) \/ DeletePodFails(m), NEW n \in Monitors
    PROVE  /\ pod'[n] = "running" => pod[n] = "running"
           /\ pod'[n] # "none" => pod[n] # "none"
BY DEF DeletePod, DeletePodFails, ClusterTypeOK

\* Only the handler of a request that has no pod yet makes one.
LEMMA PodStarts ==
    ASSUME IInv, [Next]_vars, NEW n \in Monitors
    PROVE  /\ n \in PodMade => n \in PodMade'
           /\ pod'[n] = "running" => pod[n] = "running" \/ create[n] = "phased"
           /\ pod'[n] # "none" => pod[n] # "none" \/ n \in PodMade'
<1>0. ClusterTypeOK /\ create \in [Monitors -> CreateStep]
  BY DEF IInv, TypeOK, HandlersTypeOK
<1> USE DEF PodMade, CreateEnd
<1>1. CASE HandlerStep
  <2>1. ASSUME NEW m \in Monitors, StartPod(m)
        PROVE  /\ n \in PodMade => n \in PodMade'
               /\ pod'[n] = "running" => pod[n] = "running" \/ create[n] = "phased"
               /\ pod'[n] # "none" => pod[n] # "none" \/ n \in PodMade'
    BY <1>0, <2>1 DEF StartPod, MakePod, CreateGoesTo, ClusterTypeOK
  <2>2. ASSUME NEW m \in Monitors, Create(m), ~StartPod(m)
        PROVE  (n \in PodMade => n \in PodMade') /\ pod' = pod
    BY <1>0, <2>2 DEF Create, CountActive, Admit, StoreObject, SetInitialPhase, InitialPhaseFails,
         RollBack, RecordPodName, MarkCreateFailed, CreateGoesTo, clusterVars
  <2>3. ASSUME NEW m \in Monitors, CleanUpPod(m)
        PROVE  create' = create /\ (DeletePod(m) \/ DeletePodFails(m))
    BY <2>3 DEF CleanUpPod
  <2>4. ASSUME NEW m \in Monitors,
               \/ DeleteMonitor(m) \/ PatchMonitor(m)
               \/ \E s \in Phase : UpdateMonitorStatus(m, s)
               \/ UpdateStats(m) \/ TerminateMonitor(m)
        PROVE  UNCHANGED <<create, pod>>
    BY <2>4 DEF DeleteMonitor, PatchMonitor, UpdateMonitorStatus, UpdateStats,
         TerminateMonitor
  <2>5. PICK m \in Monitors :
           \/ Create(m)
           \/ DeleteMonitor(m) \/ CleanUpPod(m) \/ PatchMonitor(m)
           \/ \E s \in Phase : UpdateMonitorStatus(m, s)
           \/ UpdateStats(m) \/ TerminateMonitor(m)
    BY <1>1 DEF HandlerStep, HandlerNext
  <2>6. QED
    BY <1>0, <2>1, <2>2, <2>3, <2>4, <2>5, DeletePodStops
<1>2. CASE ReconcilerStep
  <2>1. create' = create
    BY <1>2 DEF ReconcilerStep, handlerVars
  <2>2. pod' = pod \/ \E m \in Monitors : DeletePod(m) \/ DeletePodFails(m)
    BY <1>2 DEF ReconcilerStep, ReconcilerNext, SnapshotMonitors, ListPods, GiveUp,
         CheckMissing, MarkMissing, NotifyMissing, DeleteOrphan, FinishPass,
         clusterVars, storeVars
  <2>3. QED
    BY <1>0, <2>1, <2>2, DeletePodStops
<1>3. CASE WatcherStep
  <2>1. create' = create
    BY <1>3 DEF WatcherStep, handlerVars
  <2>2. pod' = pod \/ DeletePod(subject) \/ DeletePodFails(subject)
    BY <1>3 DEF WatcherStep, PodWatcherNext, OpenWatch, CloseWatch, TakeEvent,
         CheckTerminated, MarkTerminated, NotifyTerminated, DeleteTerminated,
         clusterVars, storeVars
  <2>3. QED
    BY <1>0, <2>1, <2>2, DeletePodStops
<1>4. CASE WorkerStep
  <2>1. ASSUME NEW m \in Monitors, NEW how \in Terminated, PodEnds(m, how)
        PROVE  create' = create /\ (pod'[n] = pod[n] \/ (pod[n] # "none" /\ pod'[n] # "running"))
    BY <1>0, <2>1 DEF PodEnds, Alive, Terminated, ClusterTypeOK, handlerVars
  <2>2. ASSUME NEW m \in Monitors, ReportStatus(m) \/ RequestTermination(m)
        PROVE  UNCHANGED <<create, pod>>
    BY <2>2 DEF ReportStatus, RequestTermination, Send, clusterVars
  <2>3. ASSUME NEW r \in report, LoseRequest(r)
        PROVE  UNCHANGED <<create, pod>>
    BY <2>3 DEF LoseRequest, clusterVars
  <2>4. ASSUME NEW m \in Monitors, NEW s \in {"completed", "error"}, EndQuietly(m, s)
        PROVE  UNCHANGED <<create, pod>>
    BY <2>4 DEF EndQuietly, clusterVars, handlerVars
  <2>5. QED
    BY <1>4, <2>1, <2>2, <2>3, <2>4 DEF WorkerStep
<1>5. CASE ClusterStep
  <2>1. create' = create /\ (pod' = pod \/ \E m \in Monitors : DeletePod(m))
    BY <1>5 DEF ClusterStep, InformerStep, InformerApplies, EvictPod, CollectPod, PodUpdated,
         clusterVars, handlerVars
  <2>2. QED
    BY <1>0, <2>1, DeletePodStops
<1>6. CASE GatewayCrashes
  BY <1>6 DEF GatewayCrashes
<1>7. CASE GatewayBoots \/ UNCHANGED vars
  BY <1>7 DEF GatewayBoots, vars, clusterVars, handlerVars
<1>8. QED
  BY <1>1, <1>2, <1>3, <1>4, <1>5, <1>6, <1>7 DEF Next

\* The watcher learns of a pod when it lists the terminated ones or when one ends.
LEMMA EventsEnter ==
    ASSUME IInv, EndedForGood, [Next]_vars, NEW e \in events', e \notin events
    PROVE  e.monitor \in PodMade' /\ pod'[e.monitor] # "running"
<1>0. ClusterTypeOK
  BY DEF IInv, TypeOK
<1>1. CASE WatcherStep /\ OpenWatch
  BY <1>1 DEF WatcherStep, OpenWatch, TerminatedPods, EndedForGood, PodMade, Terminated, clusterVars,
              handlerVars
<1>2. CASE \E m \in Monitors, how \in Terminated : PodEnds(m, how)
  <2>1. PICK m \in Monitors, how \in Terminated : PodEnds(m, how)
    BY <1>2
  <2>2. e.monitor = m /\ create' = create
    BY <2>1 DEF PodEnds, handlerVars
  <2>3. pod[m] # "none" /\ pod'[m] # "running"
    BY <1>0, <2>1 DEF PodEnds, Alive, Terminated, ClusterTypeOK
  <2>4. QED
    BY <2>2, <2>3 DEF EndedForGood, PodMade
<1>3. CASE \E m \in Monitors : PodUpdated(m)
  BY <1>3 DEF PodUpdated, EndedForGood, PodMade, Terminated, clusterVars, handlerVars
<1>4. events' \subseteq events \/ (WatcherStep /\ OpenWatch)
      \/ (\E m \in Monitors : PodUpdated(m))
      \/ \E m \in Monitors, how \in Terminated : PodEnds(m, how)
  BY DEF Next, HandlerStep, ReconcilerStep, WatcherStep, WorkerStep, ClusterStep,
         ReportStatus, RequestTermination, EndQuietly, Send, LoseRequest,
         InformerStep, EvictPod, CollectPod, GatewayCrashes, StopWatching, GatewayBoots,
         PodWatcherNext, CloseWatch, TakeEvent, CheckTerminated, MarkTerminated,
         NotifyTerminated, DeleteTerminated, watcherVars, vars
<1>5. QED
  BY <1>1, <1>2, <1>3, <1>4

LEMMA SubjectEnters ==
    ASSUME [Next]_vars, subject' # None
    PROVE  subject' = subject \/ \E e \in events : subject' = e.monitor
BY DEF Next, HandlerStep, ReconcilerStep, WatcherStep, WorkerStep, ClusterStep,
       ReportStatus, RequestTermination, EndQuietly, Send, LoseRequest, PodEnds,
       InformerStep, EvictPod, CollectPod, PodUpdated, GatewayCrashes, StopWatching,
       GatewayBoots, PodWatcherNext, OpenWatch, CloseWatch, TakeEvent, CheckTerminated, MarkTerminated,
       NotifyTerminated, DeleteTerminated, Resume, LetGo, watcherVars, vars

\* The watcher only acts on a pod whose process has ended: neither its verdict nor
\* its deletion of the pod can hit a running worker (handlePodEvent).
THEOREM RunningPodsSpared == Spec => []WatcherSparesRunningPods
<1>1. Init => EndedForGood
  BY DEF Init, ClusterInit, PodWatcherInit, EndedForGood
<1>2. ASSUME IInv, EndedForGood, [Next]_vars PROVE EndedForGood'
  <2>1. ASSUME NEW m \in Monitors, pod'[m] # "none" PROVE m \in PodMade'
    BY <1>2, <2>1, PodStarts DEF EndedForGood
  <2>2. ASSUME NEW m \in PodMade, pod[m] # "running"
        PROVE  m \in PodMade' /\ pod'[m] # "running"
    BY <1>2, <2>2, PodStarts DEF PodMade, CreateEnd
  <2>3. ASSUME NEW e \in events' PROVE e.monitor \in PodMade' /\ pod'[e.monitor] # "running"
    BY <1>2, <2>2, EventsEnter DEF EndedForGood
  <2>4. ASSUME subject' # None PROVE subject' \in PodMade' /\ pod'[subject'] # "running"
    BY <1>2, <2>2, <2>4, SubjectEnters DEF EndedForGood
  <2>5. QED
    BY <2>1, <2>3, <2>4 DEF EndedForGood
<1>3. EndedForGood => WatcherSparesRunningPods
  BY DEF EndedForGood, WatcherSparesRunningPods
<1>4. QED
  BY <1>1, <1>2, <1>3, Invariance, PTL DEF Spec

-----------------------------------------------------------------------------
\* Objects without a phase.

LEMMA CrashesGrow ==
    ASSUME IInv, [Next]_vars
    PROVE  crashes \in Nat /\ crashes' \in Nat /\ crashes' >= crashes
<1>1. crashes \in Nat
  BY DEF IInv, TypeOK
<1>2. crashes' = crashes \/ crashes' = crashes + 1
  BY DEF Next, HandlerStep, ReconcilerStep, WatcherStep, WorkerStep, ReportStatus,
         RequestTermination, EndQuietly, Send, PodEnds, LoseRequest, ClusterStep,
         InformerStep, EvictPod, CollectPod, PodUpdated, GatewayCrashes, GatewayBoots, vars
<1>3. QED
  BY <1>1, <1>2

\* Where a request may stand, or have ended, when its object has no phase.
Unphased == {"stored", "rollback", "lost", "unrolled"}

\* A step of store.Create that leaves an object without a phase ends up there, and the
\* other requests' steps do not concern the object.
LEMMA CreateUnphased ==
    ASSUME IInv, NEW m \in Monitors, Create(m), NEW n \in Monitors, object'[n] = "unset"
    PROVE  create'[n] \in Unphased \/ (object[n] = "unset" /\ create[n] \notin Unphased)
<1>0. ClusterTypeOK /\ create \in [Monitors -> CreateStep]
  BY DEF IInv, TypeOK, HandlersTypeOK
<1>1. {"unset", "initializing", "absent", "error"} \subseteq ObjectState
  BY DEF ObjectState, Phase, Active, Terminal
<1> USE DEF CreateGoesTo, Unphased
<1>2. CASE n # m
  <2>1. create'[n] = create[n]
    BY <1>0, <1>2 DEF Create, CountActive, Admit, StoreObject, SetInitialPhase,
       InitialPhaseFails, RollBack, StartPod, RecordPodName, MarkCreateFailed
  <2>2. object[n] = "unset"
    <3>1. CASE MarkCreateFailed(m)
      <4> DEFINE s == IF object[m] = "absent" THEN "absent" ELSE "error"
      <4>1. s \in ObjectState /\ (Write(m, s) \/ WriteFails(m, s))
        BY <1>1, <3>1 DEF MarkCreateFailed
      <4> HIDE DEF s
      <4>2. QED
        BY <1>0, <1>2, <4>1, WritesOne
    <3>2. CASE StoreObject(m)
      <4>1. Write(m, "unset") \/ WriteFails(m, "unset")
        BY <3>2 DEF StoreObject
      <4>2. QED
        BY <1>0, <1>1, <1>2, <4>1, WritesOne
    <3>3. CASE SetInitialPhase(m) \/ InitialPhaseFails(m)
      <4>1. object' = object \/ Write(m, "initializing") \/ WriteFails(m, "initializing")
        BY <3>3 DEF SetInitialPhase, InitialPhaseFails
      <4>2. QED
        BY <1>0, <1>1, <1>2, <4>1, WritesOne
    <3>4. CASE RollBack(m)
      <4>1. Write(m, "absent") \/ WriteFails(m, "absent")
        BY <3>4 DEF RollBack
      <4>2. QED
        BY <1>0, <1>1, <1>2, <4>1, WritesOne
    <3>5. CASE CountActive(m) \/ Admit(m) \/ StartPod(m) \/ RecordPodName(m)
      BY <1>0, <3>5, TouchEffect DEF CountActive, Admit, StartPod, RecordPodName, TouchFails,
         clusterVars, storeVars
    <3>6. QED
      BY <3>1, <3>2, <3>3, <3>4, <3>5 DEF Create
  <2>3. QED
    BY <2>1, <2>2
<1>3. CASE n = m
  <2>1. CASE CountActive(m) \/ Admit(m)
    BY <1>3, <2>1 DEF CountActive, Admit, clusterVars, IInv, NothingBeforeCreate, Unstored
  <2>2. CASE StoreObject(m) \/ InitialPhaseFails(m)
    BY <1>0, <1>3, <2>2 DEF StoreObject, InitialPhaseFails
  <2>3. CASE SetInitialPhase(m)
    BY <1>0, <1>1, <1>3, <2>3, WriteEffect DEF SetInitialPhase, ClusterTypeOK
  <2>4. CASE RollBack(m)
    <3>1. CASE Write(m, "absent")
      BY <1>0, <1>1, <1>3, <3>1, WriteEffect DEF ClusterTypeOK
    <3>2. CASE CreateGoesTo(m, "unrolled")
      BY <1>0, <1>3, <3>2
    <3>3. QED
      BY <2>4, <3>1, <3>2 DEF RollBack
  <2>5. CASE StartPod(m) \/ RecordPodName(m)
    BY <1>0, <1>3, <2>5, TouchEffect DEF StartPod, RecordPodName, TouchFails, storeVars
  <2>6. CASE MarkCreateFailed(m)
    <3> DEFINE s == IF object[m] = "absent" THEN "absent" ELSE "error"
    <3>1. s \in ObjectState /\ s # "unset" /\ (Write(m, s) \/ WriteFails(m, s))
      BY <1>1, <2>6 DEF MarkCreateFailed
    <3>2. object[n] = "unset"
      <4> HIDE DEF s
      <4> QED
        BY <1>0, <3>1, WritesOne
    <3>3. QED
      BY <1>3, <2>6, <3>2 DEF MarkCreateFailed
  <2>7. QED
    BY <2>1, <2>2, <2>3, <2>4, <2>5, <2>6 DEF Create
<1>4. QED
  BY <1>2, <1>3

\* Nobody but store.Create leaves an object without a phase.
LEMMA PhaseStays ==
    ASSUME IInv, [Next]_vars, NEW n \in Monitors, object'[n] = "unset",
           ~ \E m \in Monitors : Create(m) /\ HandlerStep
    PROVE  object[n] = "unset"
<1>1. SUFFICES ASSUME object'[n] # object[n] PROVE FALSE
  OBVIOUS
<1>0. ClusterTypeOK
  BY DEF IInv, TypeOK
<1>2. CASE HandlerStep
  <2>1. PICK m \in Monitors :
           \/ DeleteMonitor(m) \/ CleanUpPod(m) \/ PatchMonitor(m)
           \/ \E s \in Phase : UpdateMonitorStatus(m, s)
           \/ UpdateStats(m) \/ TerminateMonitor(m)
    BY <1>2 DEF HandlerStep, HandlerNext
  <2>2. "absent" \in ObjectState /\ Phase \subseteq ObjectState /\ "unset" \notin Phase
    BY DEF ObjectState, Phase, Active, Terminal
  <2>3. CASE DeleteMonitor(m) \/ TerminateMonitor(m)
    BY <1>0, <1>1, <2>2, <2>3, WritesOne DEF DeleteMonitor, TerminateMonitor
  <2>4. CASE CleanUpPod(m)
    BY <1>1, <2>4 DEF CleanUpPod, storeVars
  <2>5. CASE PatchMonitor(m) \/ UpdateStats(m)
    BY <1>0, <1>1, <2>5, TouchEffect DEF PatchMonitor, UpdateStats
  <2>6. ASSUME NEW s \in Phase, UpdateMonitorStatus(m, s) PROVE FALSE
    BY <1>0, <1>1, <2>2, <2>6, WritesOne DEF UpdateMonitorStatus
  <2>7. QED
    BY <2>1, <2>3, <2>4, <2>5, <2>6
<1>3. CASE ReconcilerStep
  <2>1. MarkMissing
    BY <1>1, <1>3 DEF ReconcilerStep, ReconcilerNext, SnapshotMonitors, ListPods, GiveUp,
         CheckMissing, NotifyMissing, DeleteOrphan, FinishPass, clusterVars, storeVars
  <2>2. marking \in Monitors /\ Write(marking, "error")
    BY <1>1, <2>1 DEF MarkMissing, ConditionalWriteFails, IInv, WorksOnMonitors
  <2>3. QED
    BY <1>0, <1>1, <2>2, WritesOne DEF ObjectState, Phase, Terminal
<1>4. CASE WatcherStep
  <2>1. MarkTerminated
    BY <1>1, <1>4 DEF WatcherStep, PodWatcherNext, OpenWatch, CloseWatch, TakeEvent,
         CheckTerminated, NotifyTerminated, DeleteTerminated, clusterVars, storeVars
  <2>2. subject \in Monitors /\ (Write(subject, "completed") \/ Write(subject, "error"))
    BY <1>1, <2>1 DEF MarkTerminated, ConditionalWriteFails, Verdict, IInv, WorksOnMonitors
  <2>3. QED
    BY <1>0, <1>1, <2>2, WritesOne DEF ObjectState, Phase, Terminal
<1>5. CASE WorkerStep
  BY <1>1, <1>5 DEF WorkerStep, ReportStatus, RequestTermination, EndQuietly,
       Send, PodEnds, LoseRequest, clusterVars, storeVars
<1>6. CASE ClusterStep
  BY <1>1, <1>6 DEF ClusterStep, InformerStep, InformerApplies, EvictPod, CollectPod,
       PodUpdated, clusterVars, storeVars
<1>7. CASE GatewayCrashes \/ GatewayBoots \/ UNCHANGED vars
  BY <1>1, <1>7 DEF GatewayCrashes, GatewayBoots, vars, clusterVars
<1>8. QED
  BY <1>2, <1>3, <1>4, <1>5, <1>6, <1>7 DEF Next

\* Requests move on by their own handler, or are cut off by a crash.
LEMMA PlacesKept ==
    ASSUME IInv, [Next]_vars, ~GatewayCrashes, ~ \E m \in Monitors : Create(m) /\ HandlerStep
    PROVE  create' = create
BY DEF Next, HandlerStep, HandlerNext, DeleteMonitor, CleanUpPod, PatchMonitor,
       UpdateMonitorStatus, UpdateStats, TerminateMonitor, ReconcilerStep, WatcherStep,
       WorkerStep, ReportStatus, RequestTermination, EndQuietly, Send, PodEnds,
       LoseRequest, ClusterStep, InformerStep, EvictPod, CollectPod, PodUpdated,
       GatewayBoots, handlerVars, vars

\* An object without a phase, which neither the informer's index nor the reconciler
\* ever finds, outlives its request only if the answer to its creation was lost, its
\* rollback failed or the gateway crashed, whichever calls fail, with an effect or
\* without, and whatever the other requests and the loops do (store.Create).
THEOREM RemnantsExplained == Spec => []NoPhaselessRemnant
<1>1. Init => NoPhaselessRemnant
  BY DEF Init, ClusterInit, NoPhaselessRemnant
<1>2. ASSUME IInv, NoPhaselessRemnant, [Next]_vars PROVE NoPhaselessRemnant'
  <2>1. SUFFICES ASSUME NEW n \in Monitors, object'[n] = "unset"
        PROVE  create'[n] \in Unphased \/ crashes' >= 1
    BY DEF NoPhaselessRemnant, Unphased
  <2>2. crashes \in Nat /\ crashes' \in Nat /\ crashes' >= crashes
    BY <1>2, CrashesGrow
  <2>3. object[n] = "unset" => create[n] \in Unphased \/ crashes >= 1
    BY <1>2 DEF NoPhaselessRemnant, Unphased
  <2>4. CASE \E m \in Monitors : Create(m) /\ HandlerStep
    BY <1>2, <2>1, <2>2, <2>3, <2>4, CreateUnphased
  <2>5. CASE GatewayCrashes
    BY <1>2, <2>2, <2>5 DEF GatewayCrashes, IInv, TypeOK
  <2>6. CASE ~GatewayCrashes /\ ~ \E m \in Monitors : Create(m) /\ HandlerStep
    BY <1>2, <2>1, <2>2, <2>3, <2>6, PhaseStays, PlacesKept
  <2>7. QED
    BY <2>4, <2>5, <2>6
<1>3. QED
  BY <1>1, <1>2, Invariance, PTL DEF Spec

-----------------------------------------------------------------------------
\* The informer.

LEMMA WriteFollowed ==
    ASSUME ClusterTypeOK, CacheFollows, NEW m \in Monitors, NEW s \in ObjectState,
           Write(m, s), cache' = cache
    PROVE  CacheFollows'
<1>1. CASE object[m] = s
  BY <1>1 DEF Write, CacheFollows
<1>2. CASE object[m] # s
  <2>1. object' = [object EXCEPT ![m] = s] /\ feed' = Append(feed, [monitor |-> m, state |-> s])
    BY <1>2 DEF Write
  <2>2. /\ Len(feed) \in Nat /\ Len(feed') = Len(feed) + 1
        /\ \A i \in 1..Len(feed) : feed'[i] = feed[i]
        /\ feed'[Len(feed) + 1] = [monitor |-> m, state |-> s]
    BY <2>1 DEF ClusterTypeOK
  <2>3. SUFFICES ASSUME NEW n \in Monitors
        PROVE  \/ /\ \A i \in 1..Len(feed') : feed'[i].monitor # n
                  /\ cache'[n] = object'[n]
               \/ \E i \in 1..Len(feed') :
                     /\ feed'[i] = [monitor |-> n, state |-> object'[n]]
                     /\ \A j \in (i + 1)..Len(feed') : feed'[j].monitor # n
    BY DEF CacheFollows
  <2>4. CASE n = m
    <3>1. object'[n] = s
      BY <2>1, <2>4 DEF ClusterTypeOK
    <3>2. Len(feed) + 1 \in 1..Len(feed') /\ (Len(feed) + 2)..Len(feed') = {}
      BY <2>2
    <3>3. QED
      BY <2>2, <2>4, <3>1, <3>2
  <2>5. CASE n # m
    <3>1. object'[n] = object[n]
      BY <2>1, <2>5 DEF ClusterTypeOK
    <3>2. CASE /\ \A i \in 1..Len(feed) : feed[i].monitor # n
               /\ cache[n] = object[n]
      BY <2>2, <2>5, <3>1, <3>2
    <3>3. CASE \E i \in 1..Len(feed) :
                  /\ feed[i] = [monitor |-> n, state |-> object[n]]
                  /\ \A j \in (i + 1)..Len(feed) : feed[j].monitor # n
      <4>1. PICK i \in 1..Len(feed) :
                  /\ feed[i] = [monitor |-> n, state |-> object[n]]
                  /\ \A j \in (i + 1)..Len(feed) : feed[j].monitor # n
        BY <3>3
      <4>2. i \in 1..Len(feed') /\ feed'[i] = [monitor |-> n, state |-> object'[n]]
        BY <2>2, <3>1, <4>1
      <4>3. \A j \in (i + 1)..Len(feed') : feed'[j].monitor # n
        BY <2>2, <2>5, <4>1
      <4>4. QED
        BY <4>2, <4>3
    <3>4. QED
      BY <3>2, <3>3 DEF CacheFollows
  <2>6. QED
    BY <2>4, <2>5
<1>3. QED
  BY <1>1, <1>2

LEMMA AppliesFollowed ==
    ASSUME ClusterTypeOK, CacheFollows, InformerApplies
    PROVE  CacheFollows'
<1>1. /\ feed # <<>> /\ feed \in Seq([monitor : Monitors, state : ObjectState])
      /\ feed' = Tail(feed) /\ object' = object
      /\ cache' = [cache EXCEPT ![Head(feed).monitor] = Head(feed).state]
  BY DEF InformerApplies, ClusterTypeOK
<1>2. /\ Len(feed) \in Nat \ {0} /\ Len(feed') = Len(feed) - 1 /\ Head(feed) = feed[1]
      /\ \A i \in 1..Len(feed') : feed'[i] = feed[i + 1]
  BY <1>1
<1>3. SUFFICES ASSUME NEW n \in Monitors
      PROVE  \/ /\ \A i \in 1..Len(feed') : feed'[i].monitor # n
                /\ cache'[n] = object'[n]
             \/ \E i \in 1..Len(feed') :
                   /\ feed'[i] = [monitor |-> n, state |-> object'[n]]
                   /\ \A j \in (i + 1)..Len(feed') : feed'[j].monitor # n
  BY DEF CacheFollows
<1>4. CASE /\ \A i \in 1..Len(feed) : feed[i].monitor # n
           /\ cache[n] = object[n]
  <2>1. cache'[n] = cache[n]
    BY <1>1, <1>2, <1>4 DEF ClusterTypeOK
  <2>2. QED
    BY <1>1, <1>2, <1>4, <2>1
<1>5. CASE \E i \in 1..Len(feed) :
              /\ feed[i] = [monitor |-> n, state |-> object[n]]
              /\ \A j \in (i + 1)..Len(feed) : feed[j].monitor # n
  <2>1. PICK i \in 1..Len(feed) :
              /\ feed[i] = [monitor |-> n, state |-> object[n]]
              /\ \A j \in (i + 1)..Len(feed) : feed[j].monitor # n
    BY <1>5
  <2>2. CASE i = 1
    <3>1. cache'[n] = object'[n]
      BY <1>1, <1>2, <2>1, <2>2 DEF ClusterTypeOK
    <3>2. \A k \in 1..Len(feed') : feed'[k].monitor # n
      BY <1>2, <2>1, <2>2
    <3>3. QED
      BY <3>1, <3>2
  <2>3. CASE i # 1
    <3>1. i - 1 \in 1..Len(feed') /\ feed'[i - 1] = [monitor |-> n, state |-> object'[n]]
      BY <1>1, <1>2, <2>1, <2>3
    <3>2. \A j \in ((i - 1) + 1)..Len(feed') : feed'[j].monitor # n
      BY <1>2, <2>1, <2>3
    <3>3. QED
      BY <3>1, <3>2
  <2>4. QED
    BY <2>2, <2>3
<1>6. QED
  BY <1>4, <1>5 DEF CacheFollows

\* Every step writes one object, or hands one change on, or does neither.
LEMMA StepShapes ==
    ASSUME IInv, [Next]_vars
    PROVE  \/ cache' = cache /\ \E m \in Monitors, s \in ObjectState : Write(m, s)
           \/ InformerApplies
           \/ cache' = object /\ UNCHANGED object /\ feed' = <<>>
           \/ UNCHANGED <<object, cache, feed>>
<1>0. /\ {"unset", "absent"} \subseteq ObjectState /\ Phase \subseteq ObjectState
      /\ {"initializing", "completed", "error"} \subseteq ObjectState
  BY DEF ObjectState, Phase, Active, Terminal
<1>1. CASE HandlerStep
  <2>1. ASSUME NEW m \in Monitors, Create(m)
        PROVE  \/ cache' = cache /\ \E s \in ObjectState : Write(m, s)
               \/ UNCHANGED <<object, cache, feed>>
    <3>1. CASE MarkCreateFailed(m)
      <4> DEFINE s == IF object[m] = "absent" THEN "absent" ELSE "error"
      <4>1. s \in ObjectState /\ cache' = cache
        BY <1>0, <3>1 DEF MarkCreateFailed
      <4>2. Write(m, s) \/ UNCHANGED <<object, feed>>
        BY <3>1 DEF MarkCreateFailed, WriteFails
      <4> HIDE DEF s
      <4>3. QED
        BY <4>1, <4>2
    <3>2. CASE StoreObject(m)
      BY <1>0, <3>2 DEF StoreObject, WriteFails
    <3>3. CASE SetInitialPhase(m) \/ InitialPhaseFails(m)
      BY <1>0, <3>3 DEF SetInitialPhase, InitialPhaseFails, WriteFails
    <3>4. CASE RollBack(m)
      BY <1>0, <3>4 DEF RollBack, WriteFails
    <3>5. CASE CountActive(m) \/ Admit(m) \/ StartPod(m) \/ RecordPodName(m)
      BY <3>5 DEF CountActive, Admit, StartPod, RecordPodName, Touch, TouchFails, clusterVars,
           storeVars
    <3>6. QED
      BY <2>1, <3>1, <3>2, <3>3, <3>4, <3>5 DEF Create
  <2>2. ASSUME NEW m \in Monitors,
               \/ DeleteMonitor(m) \/ CleanUpPod(m) \/ PatchMonitor(m)
               \/ \E s \in Phase : UpdateMonitorStatus(m, s)
               \/ UpdateStats(m) \/ TerminateMonitor(m)
        PROVE  \/ cache' = cache /\ \E s \in ObjectState : Write(m, s)
               \/ UNCHANGED <<object, cache, feed>>
    <3>1. CASE DeleteMonitor(m) \/ TerminateMonitor(m)
      BY <1>0, <3>1 DEF DeleteMonitor, TerminateMonitor
    <3>2. CASE CleanUpPod(m) \/ PatchMonitor(m) \/ UpdateStats(m)
      BY <3>2 DEF CleanUpPod, PatchMonitor, UpdateStats, Touch, storeVars
    <3>3. ASSUME NEW s \in Phase, UpdateMonitorStatus(m, s)
          PROVE  cache' = cache /\ (Write(m, s) \/ UNCHANGED <<object, feed>>)
      BY <3>3 DEF UpdateMonitorStatus
    <3>4. QED
      BY <1>0, <2>2, <3>1, <3>2, <3>3
  <2>3. QED
    BY <1>1, <2>1, <2>2 DEF HandlerStep, HandlerNext
<1>2. CASE ReconcilerStep
  <2>1. CASE MarkMissing
    BY <1>0, <2>1 DEF MarkMissing, ConditionalWriteFails, IInv, WorksOnMonitors
  <2>2. CASE ~MarkMissing
    BY <1>2, <2>2 DEF ReconcilerStep, ReconcilerNext, SnapshotMonitors, ListPods, GiveUp,
         CheckMissing, NotifyMissing, DeleteOrphan, FinishPass, clusterVars, storeVars
  <2>3. QED
    BY <2>1, <2>2
<1>3. CASE WatcherStep
  <2>1. CASE MarkTerminated
    BY <1>0, <2>1 DEF MarkTerminated, ConditionalWriteFails, Verdict, IInv, WorksOnMonitors
  <2>2. CASE ~MarkTerminated
    BY <1>3, <2>2 DEF WatcherStep, PodWatcherNext, OpenWatch, CloseWatch, TakeEvent,
         CheckTerminated, NotifyTerminated, DeleteTerminated, clusterVars, storeVars
  <2>3. QED
    BY <2>1, <2>2
<1>4. CASE WorkerStep
  BY <1>4 DEF WorkerStep, ReportStatus, RequestTermination, EndQuietly, Send,
       PodEnds, LoseRequest, clusterVars, storeVars
<1>5. CASE ClusterStep
  BY <1>5 DEF ClusterStep, InformerStep, EvictPod, CollectPod, PodUpdated, clusterVars,
       storeVars
<1>6. CASE GatewayCrashes \/ GatewayBoots \/ UNCHANGED vars
  BY <1>6 DEF GatewayCrashes, GatewayBoots, vars, clusterVars
<1>7. QED
  BY <1>1, <1>2, <1>3, <1>4, <1>5, <1>6 DEF Next

LEMMA CacheAlwaysFollows == Spec => []CacheFollows
<1>1. Init => CacheFollows
  BY DEF Init, ClusterInit, CacheFollows
<1>2. ASSUME IInv, CacheFollows, [Next]_vars PROVE CacheFollows'
  <2>0. ClusterTypeOK
    BY <1>2 DEF IInv, TypeOK
  <2>1. CASE cache' = cache /\ \E m \in Monitors, s \in ObjectState : Write(m, s)
    BY <1>2, <2>0, <2>1, WriteFollowed
  <2>2. CASE InformerApplies
    BY <1>2, <2>0, <2>2, AppliesFollowed
  <2>3. CASE cache' = object /\ UNCHANGED object /\ feed' = <<>>
    BY <2>3 DEF CacheFollows
  <2>4. CASE UNCHANGED <<object, cache, feed>>
    BY <1>2, <2>4 DEF CacheFollows
  <2>5. QED
    BY <1>2, <2>1, <2>2, <2>3, <2>4, StepShapes
<1>3. QED
  BY <1>1, <1>2, Invariance, PTL DEF Spec

\* A request gets past a check only by passing it.
LEMMA PassesCheck ==
    ASSUME IInv, [Next]_vars, NEW m \in Monitors, create'[m] # create[m]
    PROVE  /\ create[m] = "new" /\ create'[m] = "counted" => CountActive(m)
           /\ create[m] = "counted" /\ create'[m] = "admitted" => Admit(m)
<1>0. create \in [Monitors -> CreateStep]
  BY DEF IInv, TypeOK, HandlersTypeOK
<1>1. CASE \E k \in Monitors : Create(k)
  <2>1. PICK k \in Monitors : Create(k)
    BY <1>1
  <2>2. k = m
    BY <1>0, <2>1 DEF Create, CountActive, Admit, StoreObject, SetInitialPhase,
       InitialPhaseFails, RollBack, StartPod, RecordPodName, MarkCreateFailed, CreateGoesTo
  <2>3. QED
    BY <1>0, <2>1, <2>2 DEF Create, CountActive, Admit, StoreObject, SetInitialPhase,
       InitialPhaseFails, RollBack, StartPod, RecordPodName, MarkCreateFailed, CreateGoesTo
<1>2. CASE GatewayCrashes
  BY <1>2 DEF GatewayCrashes
<1>3. QED
  BY <1>1, <1>2, PlacesKept

\* The duplicate check of store.Create is as good as the informer's copy: with nothing
\* on its way to it, no second active monitor of a stream is admitted.
THEOREM DuplicatesByLag == Spec => DuplicateNeedsLag
<1>1. ASSUME IInv, CacheFollows, [Next]_vars, NEW m \in Monitors, NEW n \in Monitors,
             create[m] = "counted", create'[m] = "admitted", feed = <<>>, object[n] \in Active
      PROVE  Url[n] # Url[m]
  <2>1. Admit(m) /\ cache[n] = object[n]
    BY <1>1, PassesCheck DEF CacheFollows
  <2>2. QED
    BY <1>1, <2>1 DEF Admit, CachedActive
<1>2. IInv /\ CacheFollows /\ [Next]_vars =>
        [\A m, n \in Monitors :
            create[m] = "counted" /\ create'[m] = "admitted" /\ feed = <<>>
                /\ object[n] \in Active => Url[n] # Url[m]]_vars
  BY <1>1
<1>3. QED
  BY <1>2, Invariance, CacheAlwaysFollows, PTL DEF Spec, DuplicateNeedsLag

\* The limit of CreateMonitor, likewise.
THEOREM ExcessByLag == Spec => LimitNeedsLag
<1>1. ASSUME IInv, CacheFollows, [Next]_vars, NEW m \in Monitors,
             create[m] = "new", create'[m] = "counted", feed = <<>>
      PROVE  Cardinality({n \in Monitors : object[n] \in Active}) < MaxMonitors
  <2>1. CountActive(m) /\ \A n \in Monitors : cache[n] = object[n]
    BY <1>1, PassesCheck DEF CacheFollows
  <2>2. {n \in Monitors : object[n] \in Active} = CachedActive
    BY <2>1 DEF CachedActive
  <2>3. QED
    BY <2>1, <2>2 DEF CountActive
<1>2. IInv /\ CacheFollows /\ [Next]_vars =>
        [\A m \in Monitors :
            create[m] = "new" /\ create'[m] = "counted" /\ feed = <<>> =>
                Cardinality({n \in Monitors : object[n] \in Active}) < MaxMonitors]_vars
  BY <1>1
<1>3. QED
  BY <1>2, Invariance, CacheAlwaysFollows, PTL DEF Spec, LimitNeedsLag

-----------------------------------------------------------------------------
\* Lifecycle implements MonitorContract: every step of the system is a step of the
\* contract, or changes nothing the contract speaks of.

\* What a step leaves alone of a monitor, as the contract sees it.
Same(m) == StateOf(m)' = StateOf(m) /\ OwedTo(m)' = OwedTo(m)

OthersSame(m) == \A n \in Monitors \ {m} : Same(n)

StateType == {"new", "open", "closed", "gone"}

LEMMA StateTyped == \A m \in Monitors : StateOf(m) \in StateType /\ OwedTo(m) \in Nat
BY DEF StateOf, OwedTo, StateType

LEMMA IsStutter ==
    ASSUME \A m \in Monitors : Same(m), UNCHANGED <<notified, revived>>
    PROVE  [Contract!Next]_Contract!contractVars
BY DEF Same, Contract!contractVars

LEMMA IsOpen ==
    ASSUME NEW m \in Monitors, OthersSame(m), UNCHANGED <<notified, revived>>,
           StateOf(m) = "new", StateOf(m)' = "open", OwedTo(m)' = OwedTo(m)
    PROVE  [Contract!Next]_Contract!contractVars
<1>1. Contract!Open(m)
  BY DEF Contract!Open, Contract!Becomes, OthersSame, Same
<1>2. QED
  BY <1>1 DEF Contract!Next

LEMMA IsClose ==
    ASSUME NEW m \in Monitors, OthersSame(m), UNCHANGED <<notified, revived>>,
           StateOf(m) = "open", StateOf(m)' = "closed", OwedTo(m)' = OwedTo(m)
    PROVE  [Contract!Next]_Contract!contractVars
<1>1. Contract!Close(m)
  BY DEF Contract!Close, Contract!Becomes, OthersSame, Same
<1>2. QED
  BY <1>1 DEF Contract!Next

LEMMA IsFail ==
    ASSUME NEW m \in Monitors, OthersSame(m), UNCHANGED <<notified, revived>>,
           StateOf(m) = "open", StateOf(m)' = "closed", OwedTo(m)' = OwedTo(m) + 1
    PROVE  [Contract!Next]_Contract!contractVars
<1>1. Contract!Fail(m)
  BY DEF Contract!Fail, Contract!Becomes, OthersSame, Same
<1>2. QED
  BY <1>1 DEF Contract!Next

LEMMA IsRevive ==
    ASSUME NEW m \in Monitors, OthersSame(m),
           notified' = notified, revived' = [revived EXCEPT ![m] = @ + 1],
           StateOf(m) = "closed", StateOf(m)' = "open", OwedTo(m)' = OwedTo(m)
    PROVE  [Contract!Next]_Contract!contractVars
<1>1. Contract!Revive(m)
  BY DEF Contract!Revive, Contract!Becomes, OthersSame, Same
<1>2. QED
  BY <1>1 DEF Contract!Next

LEMMA IsNotify ==
    ASSUME NEW m \in Monitors, OthersSame(m),
           notified' = [notified EXCEPT ![m] = @ + 1], revived' = revived,
           StateOf(m)' = StateOf(m), OwedTo(m) > 0, OwedTo(m)' = OwedTo(m) - 1
    PROVE  [Contract!Next]_Contract!contractVars
<1>1. Contract!Notify(m)
  BY DEF Contract!Notify, OthersSame, Same
<1>2. QED
  BY <1>1 DEF Contract!Next

LEMMA IsRemove ==
    ASSUME NEW m \in Monitors, OthersSame(m), UNCHANGED <<notified, revived>>,
           StateOf(m) # "gone", StateOf(m)' = "gone", OwedTo(m)' = OwedTo(m)
    PROVE  [Contract!Next]_Contract!contractVars
<1>1. Contract!Remove(m)
  BY DEF Contract!Remove, Contract!Becomes, OthersSame, Same
<1>2. QED
  BY <1>1 DEF Contract!Next

-----------------------------------------------------------------------------
\* Handlers.

LEMMA StateKept ==
    ASSUME NEW m \in Monitors, object'[m] = object[m], create'[m] = create[m]
    PROVE  StateOf(m)' = StateOf(m)
BY DEF StateOf

LEMMA OwedKept ==
    ASSUME NEW m \in Monitors, UNCHANGED <<rpc, marking, wpc, subject>>
    PROVE  OwedTo(m)' = OwedTo(m)
BY DEF OwedTo

\* After a write of one object and a step of the request that made it, the rest
\* is the same to the contract.
LEMMA WriteState ==
    ASSUME ClusterTypeOK, NEW m \in Monitors, NEW s \in ObjectState, Write(m, s),
           UNCHANGED <<rpc, marking, wpc, subject>>,
           \A n \in Monitors \ {m} : create'[n] = create[n]
    PROVE  OthersSame(m) /\ object'[m] = s /\ OwedTo(m)' = OwedTo(m)
<1>1. object' = [object EXCEPT ![m] = s]
  BY WriteEffect
<1>2. object'[m] = s /\ \A n \in Monitors \ {m} : object'[n] = object[n]
  BY <1>1 DEF ClusterTypeOK
<1>3. QED
  BY <1>2, StateKept, OwedKept DEF OthersSame, Same

LEMMA CreateImplements ==
    ASSUME IInv, NEW m \in Monitors, Create(m), UNCHANGED <<rpc, marking, wpc, subject>>
    PROVE  [Contract!Next]_Contract!contractVars
<1>0. ClusterTypeOK /\ create \in [Monitors -> CreateStep]
  BY DEF IInv, TypeOK, HandlersTypeOK
<1>1. {"unset", "initializing", "absent", "error"} \subseteq ObjectState
  BY DEF ObjectState, Phase, Active, Terminal
<1>2. UNCHANGED <<notified, revived>>
  BY DEF Create, CountActive, Admit, StoreObject, SetInitialPhase, InitialPhaseFails, RollBack,
         StartPod, RecordPodName, MarkCreateFailed, clusterVars
<1>3. ASSUME NEW step \in CreateStep, CreateGoesTo(m, step)
      PROVE  create'[m] = step /\ \A n \in Monitors \ {m} : create'[n] = create[n]
  BY <1>0, <1>3 DEF CreateGoesTo
<1>4. ASSUME object' = object, NEW step \in CreateStep, CreateGoesTo(m, step),
             StateOf(m)' = StateOf(m)
      PROVE  [Contract!Next]_Contract!contractVars
  BY <1>2, <1>3, <1>4, IsStutter, StateKept, OwedKept DEF Same
<1>5. ASSUME object' = object, NEW step \in CreateStep, CreateGoesTo(m, step),
             StateOf(m) # "gone", StateOf(m)' = "gone"
      PROVE  [Contract!Next]_Contract!contractVars
  BY <1>2, <1>3, <1>5, IsRemove, StateKept, OwedKept DEF OthersSame, Same
<1> USE DEF CreateStep, CreateEnd, Unstored
<1>6. CASE CountActive(m) \/ Admit(m)
  BY <1>3, <1>4, <1>6 DEF CountActive, Admit, clusterVars, StateOf
<1>7. CASE StoreObject(m)
  <2>1. object[m] = "absent" /\ StateOf(m) = "new"
    BY <1>7 DEF StoreObject, IInv, NothingBeforeCreate, StateOf, Terminal, Unstored
  <2>2. CASE Write(m, "unset") /\ (CreateGoesTo(m, "stored") \/ CreateGoesTo(m, "lost"))
    <3>1. OthersSame(m) /\ object'[m] = "unset" /\ OwedTo(m)' = OwedTo(m)
      BY <1>0, <1>1, <1>3, <2>2, WriteState
    <3>2. StateOf(m)' = "open"
      BY <3>1 DEF StateOf, Terminal
    <3>3. QED
      BY <1>2, <2>1, <3>1, <3>2, IsOpen
  <2>3. CASE CreateGoesTo(m, "lost") /\ object' = object
    BY <1>3, <1>5, <2>1, <2>3 DEF StateOf, Terminal
  <2>4. QED
    BY <1>7, <2>2, <2>3 DEF StoreObject, WriteFails
<1>8. ASSUME create[m] = "stored", object[m] = "unset", Write(m, "initializing"),
             NEW step \in {"phased", "rollback"}, CreateGoesTo(m, step)
      PROVE  [Contract!Next]_Contract!contractVars
  <2>1. create[m] = "stored" /\ object[m] = "unset" /\ Write(m, "initializing")
        /\ CreateGoesTo(m, step) /\ step \in CreateStep
    BY <1>8
  <2>2. OthersSame(m) /\ object'[m] = "initializing" /\ OwedTo(m)' = OwedTo(m)
    BY <1>0, <1>1, <1>3, <2>1, WriteState
  <2>3. Same(m)
    BY <2>1, <2>2 DEF Same, StateOf, Terminal
  <2>4. QED
    BY <1>2, <2>2, <2>3, IsStutter DEF OthersSame
<1>9. CASE SetInitialPhase(m) \/ InitialPhaseFails(m)
  <2>1. CASE object' = object
    <3>1. create[m] = "stored" /\ (CreateGoesTo(m, "phased") \/ CreateGoesTo(m, "rollback"))
      BY <1>9 DEF SetInitialPhase, InitialPhaseFails
    <3>2. QED
      BY <1>3, <1>4, <2>1, <3>1 DEF StateOf
  <2>2. CASE object' # object
    BY <1>8, <1>9, <2>2 DEF SetInitialPhase, InitialPhaseFails, WriteFails
  <2>3. QED
    BY <2>1, <2>2
<1>10. CASE RollBack(m)
  <2>1. create[m] = "rollback" /\ (CreateGoesTo(m, "failed") \/ CreateGoesTo(m, "unrolled"))
    BY <1>10 DEF RollBack
  <2>2. CASE Write(m, "absent")
    <3>1. OthersSame(m) /\ object'[m] = "absent" /\ OwedTo(m)' = OwedTo(m)
      BY <1>0, <1>1, <1>3, <2>1, <2>2, WriteState
    <3>2. StateOf(m)' = "gone"
      BY <1>3, <2>1, <3>1 DEF StateOf, Terminal
    <3>3. CASE StateOf(m) = "gone"
      BY <1>2, <3>1, <3>2, <3>3, IsStutter DEF OthersSame, Same
    <3>4. CASE StateOf(m) # "gone"
      BY <1>2, <3>1, <3>2, <3>4, IsRemove
    <3>5. QED
      BY <3>3, <3>4
  <2>3. CASE object' = object
    BY <1>3, <1>4, <2>1, <2>3 DEF StateOf
  <2>4. QED
    BY <1>10, <2>2, <2>3 DEF RollBack, WriteFails
<1>11. CASE StartPod(m)
  <2>1. CreateGoesTo(m, "podMade") \/ CreateGoesTo(m, "podFailed")
    BY <1>11 DEF StartPod
  <2>2. StateOf(m)' = StateOf(m) /\ object' = object
    BY <1>3, <1>11, <2>1 DEF StartPod, storeVars, StateOf
  <2>3. QED
    BY <1>4, <2>1, <2>2
<1>12. CASE RecordPodName(m)
  BY <1>0, <1>3, <1>4, <1>12, TouchEffect DEF RecordPodName, TouchFails, StateOf
<1>13. CASE MarkCreateFailed(m)
  <2>1. create[m] = "podFailed" /\ CreateGoesTo(m, "failed")
    BY <1>13 DEF MarkCreateFailed
  <2>2. CASE object[m] # "absent" /\ Write(m, "error")
    <3>1. OthersSame(m) /\ object'[m] = "error" /\ OwedTo(m)' = OwedTo(m)
      BY <1>0, <1>1, <1>3, <2>1, <2>2, WriteState
    <3>2. StateOf(m)' = "closed" /\ StateOf(m) \in {"open", "closed"}
      BY <2>2, <3>1 DEF StateOf, Terminal
    <3>3. QED
      BY <1>2, <3>1, <3>2, IsStutter, IsClose DEF OthersSame, Same
  <2>3. CASE object[m] = "absent" /\ Write(m, "absent")
    <3>1. object' = object
      BY <2>3 DEF Write
    <3>2. QED
      BY <1>3, <1>4, <2>1, <3>1 DEF StateOf
  <2>4. CASE object' = object
    BY <1>3, <1>4, <2>1, <2>4 DEF StateOf
  <2>5. QED
    BY <1>13, <2>2, <2>3, <2>4 DEF MarkCreateFailed, WriteFails
<1>14. QED
  BY <1>6, <1>7, <1>9, <1>10, <1>11, <1>12, <1>13 DEF Create

LEMMA RequestImplements ==
    ASSUME IInv, NEW m \in Monitors,
           \/ DeleteMonitor(m) \/ CleanUpPod(m) \/ PatchMonitor(m)
           \/ \E s \in Phase : UpdateMonitorStatus(m, s)
           \/ UpdateStats(m) \/ TerminateMonitor(m),
           UNCHANGED <<rpc, marking, wpc, subject>>
    PROVE  [Contract!Next]_Contract!contractVars
<1>0. ClusterTypeOK
  BY DEF IInv, TypeOK
<1>1. create' = create /\ notified' = notified
  BY DEF DeleteMonitor, CleanUpPod, PatchMonitor, UpdateMonitorStatus, UpdateStats,
         TerminateMonitor
<1>2. ASSUME UNCHANGED <<object, revived>>
      PROVE  [Contract!Next]_Contract!contractVars
  BY <1>1, <1>2, IsStutter, StateKept, OwedKept DEF Same
<1>3. ASSUME Write(m, "absent"), revived' = revived
      PROVE  [Contract!Next]_Contract!contractVars
  <2>1. CASE object[m] = "absent"
    <3>1. object' = object
      BY <1>3, <2>1 DEF Write
    <3>2. QED
      BY <1>2, <1>3, <3>1
  <2>2. CASE object[m] # "absent"
    <3>1. "absent" \in ObjectState
      BY DEF ObjectState
    <3>2. OthersSame(m) /\ object'[m] = "absent" /\ OwedTo(m)' = OwedTo(m)
      BY <1>0, <1>1, <1>3, <3>1, WriteState
    <3>3. StateOf(m) # "gone" /\ StateOf(m)' = "gone"
      BY <1>1, <2>2, <3>2 DEF StateOf, Terminal, IInv, NothingBeforeCreate, Unstored
    <3>4. QED
      BY <1>1, <1>3, <3>2, <3>3, IsRemove
  <2>3. QED
    BY <2>1, <2>2
<1>4. CASE DeleteMonitor(m) \/ TerminateMonitor(m)
  BY <1>3, <1>4 DEF DeleteMonitor, TerminateMonitor
<1>5. CASE CleanUpPod(m) \/ PatchMonitor(m) \/ UpdateStats(m)
  BY <1>0, <1>2, <1>5, TouchEffect DEF CleanUpPod, PatchMonitor, UpdateStats, storeVars
<1>6. ASSUME NEW s \in Phase, UpdateMonitorStatus(m, s)
      PROVE  [Contract!Next]_Contract!contractVars
  <2>1. CASE object[m] = "absent"
    BY <1>2, <1>6, <2>1 DEF UpdateMonitorStatus
  <2>2. CASE object[m] # "absent"
    <3>1. s \in ObjectState /\ Write(m, s) /\ s # "absent"
      BY <1>6, <2>2 DEF UpdateMonitorStatus, ObjectState, Phase, Active, Terminal
    <3>2. OthersSame(m) /\ object'[m] = s /\ OwedTo(m)' = OwedTo(m)
      BY <1>0, <1>1, <3>1, WriteState
    <3>3. CASE Revives(m, s)
      <4>1. StateOf(m) = "closed" /\ StateOf(m)' = "open"
        BY <3>2, <3>3 DEF Revives, StateOf, Active, Terminal
      <4>2. revived' = [revived EXCEPT ![m] = @ + 1]
        BY <1>6, <2>2, <3>3 DEF UpdateMonitorStatus
      <4>3. QED
        BY <1>1, <3>2, <4>1, <4>2, IsRevive
    <3>4. CASE ~Revives(m, s)
      <4>1. revived' = revived
        BY <1>6, <2>2, <3>4 DEF UpdateMonitorStatus
      <4>2. CASE s \in Terminal
        <5>1. StateOf(m)' = "closed" /\ StateOf(m) \in {"open", "closed"}
          BY <2>2, <3>2, <4>2 DEF StateOf, Terminal
        <5>2. QED
          BY <1>1, <3>2, <4>1, <5>1, IsStutter, IsClose DEF OthersSame, Same
      <4>3. CASE s \notin Terminal
        <5>1. object[m] \notin Terminal
          BY <1>6, <3>4, <4>3 DEF Revives, Phase
        <5>2. Same(m)
          BY <2>2, <3>1, <3>2, <4>3, <5>1 DEF StateOf, Same
        <5>3. QED
          BY <1>1, <3>2, <4>1, <5>2, IsStutter DEF OthersSame
      <4>4. QED
        BY <4>2, <4>3
    <3>5. QED
      BY <3>3, <3>4
  <2>3. QED
    BY <2>1, <2>2
<1>7. QED
  BY <1>4, <1>5, <1>6

LEMMA HandlerImplements ==
    IInv /\ HandlerStep => [Contract!Next]_Contract!contractVars
BY CreateImplements, RequestImplements
   DEF HandlerStep, HandlerNext, reconcilerVars, watcherVars

-----------------------------------------------------------------------------
\* The reconciler and the watcher.

LEMMA ConditionalState ==
    ASSUME IInv, create' = create, NEW m \in Monitors, NEW s \in ObjectState,
           NEW p \in CasProcess, WriteAccepted(p, m), Write(m, s), s \in Terminal
    PROVE  /\ \A n \in Monitors \ {m} : StateOf(n)' = StateOf(n)
           /\ StateOf(m) = "open" /\ StateOf(m)' = "closed"
<1>1. ClusterTypeOK
  BY DEF IInv, TypeOK
<1>2. object[m] \in Active
  BY NoneAssumption DEF WriteAccepted, IInv, HeldIsActive
<1>3. object' = [object EXCEPT ![m] = s]
  BY <1>1, WriteEffect
<1>4. object'[m] = s /\ \A n \in Monitors \ {m} : object'[n] = object[n]
  BY <1>1, <1>3 DEF ClusterTypeOK
<1>5. QED
  BY <1>2, <1>4, StateKept DEF StateOf, Active, Terminal

LEMMA ReconcilerImplements ==
    IInv /\ ReconcilerStep => [Contract!Next]_Contract!contractVars
<1> SUFFICES ASSUME IInv, ReconcilerStep
             PROVE  [Contract!Next]_Contract!contractVars
  OBVIOUS
<1>1. UNCHANGED <<create, revived, wpc, subject>>
  BY DEF ReconcilerStep, handlerVars, watcherVars
<1>2. ASSUME UNCHANGED <<object, notified>>, \A m \in Monitors : OwedTo(m)' = OwedTo(m)
      PROVE  [Contract!Next]_Contract!contractVars
  BY <1>1, <1>2, IsStutter, StateKept DEF Same
<1>3. CASE SnapshotMonitors \/ ListPods \/ GiveUp \/ FinishPass
           \/ \E m \in Monitors : CheckMissing(m) \/ DeleteOrphan(m)
  <2>1. UNCHANGED <<object, notified>>
    BY <1>3 DEF SnapshotMonitors, ListPods, GiveUp, FinishPass, CheckMissing,
         DeleteOrphan, clusterVars, storeVars
  <2>2. rpc # "notify" /\ rpc' # "notify"
    BY <1>3 DEF SnapshotMonitors, ListPods, GiveUp, FinishPass, CheckMissing,
         DeleteOrphan, Forget
  <2>3. \A m \in Monitors : OwedTo(m)' = OwedTo(m)
    BY <1>1, <2>2 DEF OwedTo
  <2>4. QED
    BY <1>2, <2>1, <2>3
<1>4. CASE MarkMissing
  <2>0. PICK m \in Monitors : m = marking
    BY <1>4 DEF MarkMissing, IInv, WorksOnMonitors
  <2>1. rpc = "write" /\ notified' = notified
    BY <1>4 DEF MarkMissing, IInv, WorksOnMonitors
  <2>2. CASE /\ WriteAccepted("reconciler", m) /\ Write(m, "error")
             /\ rpc' = "notify" /\ marking' = marking
    <3>1. "error" \in ObjectState /\ "error" \in Terminal /\ "reconciler" \in CasProcess
      BY DEF ObjectState, Phase, Terminal, CasProcess
    <3>2. /\ \A n \in Monitors \ {m} : StateOf(n)' = StateOf(n)
          /\ StateOf(m) = "open" /\ StateOf(m)' = "closed"
      BY <1>1, <2>0, <2>1, <2>2, <3>1, ConditionalState
    <3>3. OwedTo(m)' = OwedTo(m) + 1
      BY <1>1, <2>0, <2>1, <2>2 DEF OwedTo
    <3>4. \A n \in Monitors \ {m} : OwedTo(n)' = OwedTo(n)
      BY <1>1, <2>0, <2>1, <2>2 DEF OwedTo
    <3>5. QED
      BY <1>1, <2>0, <2>1, <3>2, <3>3, <3>4, IsFail DEF OthersSame, Same
  <2>3. CASE rpc' = "loop" /\ object' = object
    BY <1>1, <1>2, <2>0, <2>1, <2>3 DEF OwedTo
  <2>4. CASE WriteAccepted("reconciler", m) /\ Write(m, "error") /\ rpc' = "loop"
    <3>1. "error" \in ObjectState /\ "error" \in Terminal /\ "reconciler" \in CasProcess
      BY DEF ObjectState, Phase, Terminal, CasProcess
    <3>2. /\ \A n \in Monitors \ {m} : StateOf(n)' = StateOf(n)
          /\ StateOf(m) = "open" /\ StateOf(m)' = "closed"
      BY <1>1, <2>4, <3>1, ConditionalState
    <3>3. \A n \in Monitors : OwedTo(n)' = OwedTo(n)
      BY <1>1, <2>1, <2>4 DEF OwedTo
    <3>4. QED
      BY <1>1, <2>1, <3>2, <3>3, IsClose DEF OthersSame, Same
  <2>5. QED
    BY <2>0, <1>4, <2>2, <2>3, <2>4 DEF MarkMissing, ConditionalWriteFails
<1>5. CASE NotifyMissing
  <2>0. PICK m \in Monitors : m = marking
    BY <1>5 DEF NotifyMissing, IInv, WorksOnMonitors
  <2>1. rpc = "notify" /\ rpc' = "loop"
    BY <1>5 DEF NotifyMissing, IInv, WorksOnMonitors
  <2>2. object' = object /\ notified' = [notified EXCEPT ![m] = @ + 1]
    BY <2>0, <1>5 DEF NotifyMissing, storeVars
  <2>3. OwedTo(m) > 0 /\ OwedTo(m)' = OwedTo(m) - 1
    BY <1>1, <2>0, <2>1 DEF OwedTo
  <2>4. \A n \in Monitors \ {m} : OwedTo(n)' = OwedTo(n)
    BY <1>1, <2>0, <2>1 DEF OwedTo
  <2>5. \A n \in Monitors : StateOf(n)' = StateOf(n)
    BY <1>1, <2>2, StateKept
  <2>6. QED
    BY <1>1, <2>0, <2>1, <2>2, <2>3, <2>4, <2>5, IsNotify DEF OthersSame, Same
<1>6. QED
  BY <1>3, <1>4, <1>5 DEF ReconcilerStep, ReconcilerNext

LEMMA WatcherImplements ==
    IInv /\ WatcherStep => [Contract!Next]_Contract!contractVars
<1> SUFFICES ASSUME IInv, WatcherStep
             PROVE  [Contract!Next]_Contract!contractVars
  OBVIOUS
<1>1. UNCHANGED <<create, revived, rpc, marking>>
  BY DEF WatcherStep, handlerVars, reconcilerVars
<1>2. ASSUME UNCHANGED <<object, notified>>, \A m \in Monitors : OwedTo(m)' = OwedTo(m)
      PROVE  [Contract!Next]_Contract!contractVars
  BY <1>1, <1>2, IsStutter, StateKept DEF Same
<1>3. CASE OpenWatch \/ CloseWatch \/ CheckTerminated \/ DeleteTerminated
           \/ \E e \in events : TakeEvent(e)
  <2>1. UNCHANGED <<object, notified>>
    BY <1>3 DEF OpenWatch, CloseWatch, CheckTerminated, DeleteTerminated, TakeEvent,
         clusterVars, storeVars
  <2>2. wpc # "notify" /\ wpc' # "notify"
    BY <1>3 DEF OpenWatch, CloseWatch, CheckTerminated, DeleteTerminated, TakeEvent, Resume
  <2>3. \A m \in Monitors : OwedTo(m)' = OwedTo(m)
    BY <1>1, <2>2 DEF OwedTo
  <2>4. QED
    BY <1>2, <2>1, <2>3
<1>4. CASE MarkTerminated
  <2>0. PICK m \in Monitors : m = subject
    BY <1>4 DEF MarkTerminated, IInv, WorksOnMonitors
  <2>1. wpc = "write" /\ notified' = notified
    BY <1>4 DEF MarkTerminated, IInv, WorksOnMonitors
  <2>2. {"completed", "error"} \subseteq ObjectState \cap Terminal /\ "watcher" \in CasProcess
    BY DEF ObjectState, Phase, Terminal, CasProcess
  <2>3. CASE /\ WriteAccepted("watcher", m) /\ Write(m, "completed")
             /\ (wpc' = "delete" /\ subject' = subject) \/ wpc' = "open"
    <3>1. /\ \A n \in Monitors \ {m} : StateOf(n)' = StateOf(n)
          /\ StateOf(m) = "open" /\ StateOf(m)' = "closed"
      BY <1>1, <2>0, <2>1, <2>2, <2>3, ConditionalState
    <3>2. \A n \in Monitors : OwedTo(n)' = OwedTo(n)
      BY <1>1, <2>0, <2>1, <2>3 DEF OwedTo
    <3>3. QED
      BY <1>1, <2>0, <2>1, <3>1, <3>2, IsClose DEF OthersSame, Same
  <2>4. CASE /\ WriteAccepted("watcher", m) /\ Write(m, "error")
             /\ wpc' = "notify" /\ subject' = subject
    <3>1. /\ \A n \in Monitors \ {m} : StateOf(n)' = StateOf(n)
          /\ StateOf(m) = "open" /\ StateOf(m)' = "closed"
      BY <1>1, <2>0, <2>1, <2>2, <2>4, ConditionalState
    <3>2. OwedTo(m)' = OwedTo(m) + 1
      BY <1>1, <2>0, <2>1, <2>4 DEF OwedTo
    <3>3. \A n \in Monitors \ {m} : OwedTo(n)' = OwedTo(n)
      BY <1>1, <2>0, <2>1, <2>4 DEF OwedTo
    <3>4. QED
      BY <1>1, <2>0, <2>1, <3>1, <3>2, <3>3, IsFail DEF OthersSame, Same
  <2>5. CASE Resume /\ object' = object
    BY <1>1, <1>2, <2>0, <2>1, <2>5 DEF Resume, OwedTo
  <2>6. CASE WriteAccepted("watcher", m) /\ Write(m, "error") /\ wpc' = "open"
    <3>1. /\ \A n \in Monitors \ {m} : StateOf(n)' = StateOf(n)
          /\ StateOf(m) = "open" /\ StateOf(m)' = "closed"
      BY <1>1, <2>2, <2>6, ConditionalState
    <3>2. \A n \in Monitors : OwedTo(n)' = OwedTo(n)
      BY <1>1, <2>1, <2>6 DEF OwedTo
    <3>3. QED
      BY <1>1, <2>1, <3>1, <3>2, IsClose DEF OthersSame, Same
  <2>7. QED
    BY <2>0, <1>4, <2>3, <2>4, <2>5, <2>6
       DEF MarkTerminated, ConditionalWriteFails, Verdict, Resume
<1>5. CASE NotifyTerminated
  <2>0. PICK m \in Monitors : m = subject
    BY <1>5 DEF NotifyTerminated, IInv, WorksOnMonitors
  <2>1. wpc = "notify" /\ wpc' = "delete"
    BY <1>5 DEF NotifyTerminated, IInv, WorksOnMonitors
  <2>2. object' = object /\ notified' = [notified EXCEPT ![m] = @ + 1]
    BY <2>0, <1>5 DEF NotifyTerminated, storeVars
  <2>3. OwedTo(m) > 0 /\ OwedTo(m)' = OwedTo(m) - 1
    BY <1>1, <2>0, <2>1 DEF OwedTo
  <2>4. \A n \in Monitors \ {m} : OwedTo(n)' = OwedTo(n)
    BY <1>1, <2>0, <2>1, <1>5 DEF NotifyTerminated, OwedTo
  <2>5. \A n \in Monitors : StateOf(n)' = StateOf(n)
    BY <1>1, <2>2, StateKept
  <2>6. QED
    BY <1>1, <2>0, <2>1, <2>2, <2>3, <2>4, <2>5, IsNotify DEF OthersSame, Same
<1>6. QED
  BY <1>3, <1>4, <1>5 DEF WatcherStep, PodWatcherNext

-----------------------------------------------------------------------------
\* Workers, the cluster, the gateway process.

LEMMA OutsideImplements ==
    IInv /\ (WorkerStep \/ ClusterStep \/ GatewayBoots \/ UNCHANGED vars)
        => [Contract!Next]_Contract!contractVars
<1> SUFFICES ASSUME IInv, WorkerStep \/ ClusterStep \/ GatewayBoots \/ UNCHANGED vars
             PROVE  [Contract!Next]_Contract!contractVars
  OBVIOUS
<1>1. UNCHANGED <<object, create, notified, revived, rpc, marking, wpc, subject>>
  BY DEF WorkerStep, ReportStatus, RequestTermination, EndQuietly,
         Send, PodEnds, LoseRequest, ClusterStep, InformerStep, InformerApplies, EvictPod,
         CollectPod, PodUpdated,
         GatewayBoots, vars, clusterVars, storeVars, handlerVars, reconcilerVars, watcherVars
<1>2. QED
  BY <1>1, IsStutter, StateKept, OwedKept DEF Same

LEMMA CrashImplements ==
    IInv /\ GatewayCrashes => [Contract!Next]_Contract!contractVars
<1> SUFFICES ASSUME IInv, GatewayCrashes PROVE Contract!Crash
  BY DEF Contract!Next
<1>1. UNCHANGED <<object, notified, revived>> /\ rpc' = "idle" /\ wpc' = "closed"
  BY DEF GatewayCrashes, Forget, StopWatching
<1>2. \A m \in Monitors : create'[m] =
        IF create[m] \in {"new"} \cup CreateEnd THEN create[m] ELSE "failed"
  BY DEF GatewayCrashes
<1>3. \A m \in Monitors : OwedTo(m)' = 0
  BY <1>1 DEF OwedTo
<1> USE DEF CreateEnd, Unstored
<1> DEFINE S == {m \in Monitors : create[m] \in {"counted", "admitted"}}
<1>4. \A m \in S : StateOf(m) = "new" /\ StateOf(m)' = "gone"
  BY <1>1, <1>2 DEF StateOf, IInv, NothingBeforeCreate, Terminal
<1>5. \A m \in Monitors \ S : StateOf(m)' = StateOf(m)
  BY <1>1, <1>2 DEF StateOf
<1>6. S \in SUBSET {m \in Monitors : [n \in Monitors |-> StateOf(n)][m] = "new"}
  BY <1>4
<1>7. [m \in Monitors |-> StateOf(m)'] =
        [m \in Monitors |-> IF m \in S THEN "gone"
                            ELSE [n \in Monitors |-> StateOf(n)][m]]
  BY <1>4, <1>5
<1>8. QED
  BY <1>1, <1>3, <1>6, <1>7 DEF Contract!Crash

\* Whatever the monitors, the bounds and the interleaving, the gateway keeps the
\* contract: a failure is found in an open monitor only and owed exactly when found,
\* a notification pays a failure that is owed, and a removed monitor stays removed.
THEOREM Implementation == Spec => ImplementsContract
<1>1. Init => Contract!Init
  BY DEF Init, ClusterInit, HandlersInit, ReconcilerInit, PodWatcherInit,
         Contract!Init, StateOf, OwedTo, Terminal, Unstored
<1>2. IInv /\ [Next]_vars => [Contract!Next]_Contract!contractVars
  BY HandlerImplements, ReconcilerImplements, WatcherImplements, OutsideImplements,
     CrashImplements DEF Next
<1>3. QED
  BY <1>1, <1>2, Invariance, PTL DEF Spec, ImplementsContract, Contract!Spec

\* The caller gets at most one monitor.error for a monitor, and one more for each
\* time a late report has revived it.
THEOREM NotificationsBounded == Spec => []NotifyBudget
<1>1. Spec => []Contract!Balanced
  BY Implementation, Contract!Balance, PTL DEF ImplementsContract
<1>2. ASSUME IInv, Contract!Balanced PROVE NotifyBudget
  <2>1. SUFFICES ASSUME NEW m \in Monitors PROVE notified[m] <= 1 + revived[m]
    BY DEF NotifyBudget
  <2>2. notified[m] + OwedTo(m) <=
            revived[m] + (IF StateOf(m) \in {"closed", "gone"} THEN 1 ELSE 0)
    BY <1>2 DEF Contract!Balanced
  <2>3. notified[m] \in Nat /\ revived[m] \in Nat /\ OwedTo(m) \in Nat
    BY <1>2, StateTyped DEF IInv, TypeOK, ClusterTypeOK, HandlersTypeOK
  <2>4. QED
    BY <2>2, <2>3
<1>3. QED
  BY <1>1, <1>2, Invariance, PTL
=============================================================================
