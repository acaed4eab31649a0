----------------------------- MODULE ObjectWrites -----------------------------
(***************************************************************************)
(* The fields of one StreamMonitor, and the handlers that write them side  *)
(* by side: PATCH merges a configuration into the informer's copy, and a   *)
(* worker's report lays its statistics over the informer's copy, before    *)
(* the store writes the whole in a loop that starts again on a conflict    *)
(* (internal/api/handlers.go, internal/k8s/store/store.go).  Module        *)
(* Cluster has the phase of many monitors and none of their fields.        *)
(***************************************************************************)
EXTENDS Naturals, Sequences

CONSTANTS
    Patches,    \* PATCH requests
    Settings,   \* the fields of the configuration; "url" is the callback URL
    Request,    \* Request[p]: the fields p names, and their new values
    WithConfig, \* the requests with a configuration, which may name no field
    MaxReports, \* bound: reports the worker makes
    MaxTries,   \* of RetryOnConflict, with its DefaultBackoff
    MaxVersions \* bound: versions of the object

ASSUME WritesAssumption ==
    /\ "url" \notin Settings
    /\ \A p \in Patches :
          /\ DOMAIN Request[p] \subseteq Settings \cup {"url"}
          /\ \A f \in DOMAIN Request[p] : Request[p][f] \in Nat
          /\ DOMAIN Request[p] \cap Settings # {} => p \in WithConfig
    /\ MaxReports \in Nat /\ MaxTries \in Nat \ {0} /\ MaxVersions \in Nat \ {0}

Fields  == Settings \cup {"url"}
Reports == 1..MaxReports

VARIABLES
    versions, \* the versions of the object, the oldest first
    cached,   \* the one the informer has
    patch,    \* patch[p]: where the handler of p stands, the version it has read last,
              \* and how often it has tried before
    merge,    \* merge[p]: the configuration it has merged, and into which version
    made,     \* the reports the worker has made: the black-outs counted so far
    report,   \* report[k]: as patch, for the handler of the k-th report
    laid,     \* laid[k]: the statistics it is about to write
    newest    \* the newest report whose statistics have been written

patches == <<patch, merge>>
reports == <<made, report, laid, newest>>
vars == <<versions, cached, patches, reports>>

Object == versions[Len(versions)]
Write(object) == Len(versions) < MaxVersions /\ versions' = Append(versions, object)

\* A handler that is not at work has no local state, before it as well as after it.
Call(pc, live, tries) == [pc |-> pc, live |-> live, tries |-> tries]
NoMerge == [base |-> 0, config |-> [f \in Settings |-> 0]]
Nothing == <<0, 0>>

Version == [spec : [Fields -> Nat], active : BOOLEAN, stats : Nat \X Nat]
Calls(pcs) == [pc : pcs, live : Nat, tries : 0..(MaxTries - 1)]

TypeOK ==
    /\ versions \in Seq(Version) /\ cached \in 1..Len(versions)
    /\ patch \in [Patches -> Calls({"new", "get", "put", "over", "failed"})]
    /\ merge \in [Patches -> [base : Nat, config : [Settings -> Nat]]]
    /\ \A p \in Patches : patch[p].live <= Len(versions) /\ merge[p].base <= Len(versions)
    /\ made \in Seq(Nat) /\ Len(made) <= MaxReports
    /\ report \in [Reports -> Calls({"sent", "read", "get", "put", "over", "failed"})]
    /\ \A k \in Reports : report[k].live <= Len(versions)
    /\ laid \in [Reports -> Nat \X Nat] /\ newest \in 0..MaxReports

Init ==
    /\ versions = <<[spec |-> [f \in Fields |-> 0], active |-> TRUE, stats |-> Nothing]>>
    /\ cached = 1
    /\ patch = [p \in Patches |-> Call("new", 0, 0)]
    /\ merge = [p \in Patches |-> NoMerge]
    /\ made = <<>> /\ newest = 0
    /\ report = [k \in Reports |-> Call("sent", 0, 0)]
    /\ laid = [k \in Reports |-> Nothing]

InformerApplies ==
    /\ cached < Len(versions)
    /\ cached' = cached + 1
    /\ UNCHANGED <<versions, patches, reports>>

\* The reconciler, the pod watcher or a last report ends the monitor.
Finish ==
    /\ Object.active
    /\ Write([Object EXCEPT !.active = FALSE])
    /\ UNCHANGED <<cached, patches, reports>>

-----------------------------------------------------------------------------
\* RetryOnConflict: what becomes of a call that has lost against another write.
Lost(call) ==
    IF call.tries + 1 = MaxTries THEN Call("failed", 0, 0)
    ELSE Call("get", 0, call.tries + 1)

\* The answer to a write: a conflict, unless the version that was read is the last.
Settles(call) ==
    IF call.live = Len(versions) THEN Call("over", 0, 0) ELSE Lost(call)

-----------------------------------------------------------------------------
\* PATCH /api/v1/monitors/:id

Named(p) == DOMAIN Request[p]

MergedFromDefault(p) ==  \* mutant: the defaults for the existing configuration
    [f \in Settings |-> IF f \in Named(p) THEN Request[p][f] ELSE 0]

\* applyConfigOverrides
Merged(p) ==
    [f \in Settings |-> IF f \in Named(p) THEN Request[p][f] ELSE versions[cached].spec[f]]

\* Up to UpdateMonitor.  Requests that are refused before have no action.
PatchBegins(p) ==
    /\ patch[p].pc = "new"
    /\ patch' = [patch EXCEPT ![p] = Call("get", 0, 0)]
    /\ merge' = [merge EXCEPT ![p] = [base |-> cached, config |-> Merged(p)]]
    /\ UNCHANGED <<versions, cached, reports>>

Read(call) == Call("put", Len(versions), call.tries)

PatchGetsOnce(p) ==  \* mutant: only the first attempt looks at the phase
    /\ patch[p].pc = "get"
    /\ \/ /\ Object.active \/ patch[p].tries > 0
          /\ patch' = [patch EXCEPT ![p] = Read(@)]
          /\ UNCHANGED merge
       \/ /\ ~Object.active /\ patch[p].tries = 0
          /\ patch' = [patch EXCEPT ![p] = Call("over", 0, 0)]
          /\ merge' = [merge EXCEPT ![p] = NoMerge]
    /\ UNCHANGED <<versions, cached, reports>>

PatchGets(p) ==
    /\ patch[p].pc = "get"
    /\ \/ /\ Object.active
          /\ patch' = [patch EXCEPT ![p] = Read(@)]
          /\ UNCHANGED merge
       \/ /\ ~Object.active
          /\ patch' = [patch EXCEPT ![p] = Call("over", 0, 0)]
          /\ merge' = [merge EXCEPT ![p] = NoMerge]
    /\ UNCHANGED <<versions, cached, reports>>

\* The callback URL goes into the object that was read; the configuration as a whole,
\* that of a request whose config is empty included.
Patched(p) ==
    [f \in Fields |->
        IF f = "url" THEN IF "url" \in Named(p) THEN Request[p]["url"] ELSE Object.spec["url"]
        ELSE IF p \in WithConfig THEN merge[p].config[f] ELSE Object.spec[f]]

PatchPuts(p) ==
    /\ patch[p].pc = "put"
    /\ IF patch[p].live = Len(versions) /\ Patched(p) # Object.spec
       THEN Write([Object EXCEPT !.spec = Patched(p)]) ELSE UNCHANGED versions
    /\ patch' = [patch EXCEPT ![p] = Settles(@)]
    /\ merge' = IF patch'[p].pc = "get" THEN merge ELSE [merge EXCEPT ![p] = NoMerge]
    /\ UNCHANGED <<cached, reports>>

-----------------------------------------------------------------------------
\* Reports of the worker: k segments analysed, made[k] black-outs among them.

\* reportStatusUpdate, and PUT status on its way.  The worker does not wait for it
\* longer than its client's timeout.
MakeReport ==
    /\ Len(made) < MaxReports
    /\ LET so_far == IF made = <<>> THEN 0 ELSE made[Len(made)] IN
       made' \in {Append(made, so_far), Append(made, so_far + 1)}
    /\ UNCHANGED <<versions, cached, patches, report, laid, newest>>

\* UpdateStatus; it can be seen as one step, because it starts again on a conflict.
ReportPhase(k) ==
    /\ k <= Len(made) /\ report[k].pc = "sent"
    /\ report' = [report EXCEPT ![k] = Call("read", 0, 0)]
    /\ IF Object.active THEN UNCHANGED versions ELSE Write([Object EXCEPT !.active = TRUE])
    /\ UNCHANGED <<cached, patches, made, laid, newest>>

CountedOnChange(k) ==  \* mutant: the count is sent when it has changed
    IF k = 1 THEN made[1] > 0 ELSE made[k] > made[k - 1]

\* ReportStatus leaves out a count that is zero (omitempty).
Counted(k) == made[k] > 0

\* GetWithStats, and the report laid over it.
ReportReads(k) ==
    /\ report[k].pc = "read"
    /\ report' = [report EXCEPT ![k] = Call("get", 0, 0)]
    /\ laid' = [laid EXCEPT ![k] =
                    <<k, IF Counted(k) THEN made[k] ELSE versions[cached].stats[2]>>]
    /\ UNCHANGED <<versions, cached, patches, made, newest>>

\* UpdateStats.  lastCheckAt makes every write a new version.
ReportGets(k) ==
    /\ report[k].pc = "get"
    /\ report' = [report EXCEPT ![k] = Read(@)]
    /\ UNCHANGED <<versions, cached, patches, made, laid, newest>>

ReportPuts(k) ==
    /\ report[k].pc = "put"
    /\ IF report[k].live = Len(versions)
       THEN /\ Write([Object EXCEPT !.stats = laid[k]])
            /\ newest' = IF k > newest THEN k ELSE newest
       ELSE UNCHANGED <<versions, newest>>
    /\ report' = [report EXCEPT ![k] = Settles(@)]
    /\ laid' = IF report'[k].pc = "get" THEN laid ELSE [laid EXCEPT ![k] = Nothing]
    /\ UNCHANGED <<cached, patches, made>>

Next ==
    \/ InformerApplies \/ Finish \/ MakeReport
    \/ \E p \in Patches : PatchBegins(p) \/ PatchGets(p) \/ PatchPuts(p)
    \/ \E k \in Reports : ReportPhase(k) \/ ReportReads(k) \/ ReportGets(k) \/ ReportPuts(k)

Spec == Init /\ [][Next]_vars

-----------------------------------------------------------------------------
\* A PATCH takes back a setting it does not name only when another one has changed that
\* setting after the version this one was merged into, and never the callback URL.
ChangedSince(f, base) ==
    \E v \in base + 1..Len(versions) : versions[v].spec[f] # versions[v - 1].spec[f]

LostUpdateNeedsLag ==
    [][\A p \in Patches, f \in Fields :
          PatchPuts(p) /\ f \notin Named(p) /\ versions'[Len(versions')].spec[f] # Object.spec[f] =>
              f # "url" /\ ChangedSince(f, merge[p].base)]_vars

\* The configuration of a monitor that has ended is never changed, whenever it ended.
PatchSparesEnded ==
    [][versions'[Len(versions')].spec # Object.spec => Object.active]_vars

\* Whatever the copy that statistics are laid over, they only go back when a report is
\* written after a later one.
StatsBackNeedsOvertaking ==
    [][\A k \in Reports :
          ReportPuts(k) /\ newest < k =>
              LET stats == versions'[Len(versions')].stats IN
              stats[1] >= Object.stats[1] /\ stats[2] >= Object.stats[2]]_vars

\* A call fails by conflicts only if as many other writes have come in between as it
\* has tried.
ConflictsNeedWriters ==
    /\ \A p \in Patches : patch[p].pc = "failed" => Len(versions) > MaxTries
    /\ \A k \in Reports : report[k].pc = "failed" => Len(versions) > MaxTries

-----------------------------------------------------------------------------
\* What the loops implement: a call that is trying is one that has begun.
Trying(call) == IF call.pc \in {"get", "put"} THEN "begun" ELSE call.pc

PatchStage  == [p \in Patches |-> Trying(patch[p])]
PatchConfig == [p \in Patches |-> merge[p].config]
ReportStage == [k \in Reports |-> Trying(report[k])]

Writes == INSTANCE AtomicWrites WITH
    patch <- PatchStage, config <- PatchConfig, report <- ReportStage

\* Every PATCH and every report takes effect in one step, once, or not at all: the phase
\* a PATCH has looked at and the version it changes are those of the moment it writes,
\* however often it has tried, and one that has failed has written nothing.
OneStepOrNone == Writes!Spec
=============================================================================
