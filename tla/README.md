# Formal models of youtube-stream-tracker

TLA+ modules, TLC runs and TLAPS proofs for the gateway and the worker of
`github.com/xpadev-net/youtube-stream-tracker`. Line numbers refer to the
repository; `PROJECT.json` maps every definition to the code it stands for.

1. [The system](#1-the-system)
2. [What is hard](#2-what-is-hard)
3. [The modules](#3-the-modules)
4. [The runs](#4-the-runs)
5. [Fairness](#5-fairness)
6. [The proofs](#6-the-proofs)
7. [Where code and text disagree](#7-where-code-and-text-disagree)
8. [What is not modelled](#8-what-is-not-modelled)
9. [Plan](#9-plan)

## 1. The system

A *gateway* (one replica, `helm/`: `replicaCount: 1`) accepts requests to monitor
a YouTube stream. Each monitor is a StreamMonitor custom resource in the
Kubernetes API server and one worker pod. The *worker* waits for the stream, then
downloads and analyses its segments, sends webhooks to the caller, and reports
its status to the gateway. The gateway watches the pods and reconciles monitors
and pods.

```
  client --HTTP--> handlers --+                       +--webhook--> caller
         (rate limiter)       |                       |
                 reconciler --+--> API server <-- kubelet, GC
                              |     |   objects, pods      |
                 pod watcher -+     v                      v
                              +- informer copy          worker --webhook--> caller
                   ^                                       |  ^
                   +------------- PUT status, terminate ---+  +-- manifest, segments
```

| Component | Source | State | Operations | What makes it correct |
|---|---|---|---|---|
| Monitor status | `internal/model`, `v1alpha1/types.go` | - | `IsActive` | - |
| Store | `internal/k8s/store` | objects in the API server; the informer's copy, which lags | `Create` with rollback, `Delete`, `UpdateStatus` (retried), `UpdateStatusWithCondition` (one try), `UpdatePodName`, `UpdateStats`, `UpdateMonitor`; reads from the copy | a conditional write hits only the phase it expects; creation leaves no phaseless object; a deleted object does not return; what is lost by writing a whole is lost only to a concurrent writer |
| Handlers | `internal/api/handlers.go` | where each request stands | POST, GET, list, PATCH, DELETE; internal PUT status, POST terminate | limits and duplicate check; partial failures are cleaned up |
| Reconciler | `internal/k8s/reconcile.go` | two snapshots per pass | `ReconcileStartup` at boot and every 5 minutes, `CreateMonitorPod`, `DeleteMonitorPod` | monitors without pods are failed and reported once; pods without monitors go |
| Pod watcher | `internal/k8s/watcher.go` | the watch; the event being handled | `watchLoop`, `handlePodEvent` | every ended pod is handled; no running pod is touched |
| Kubernetes client | `internal/k8s/k8s.go` | pods | create with ownerReference, list, watch, delete | - |
| Gateway process | `cmd/gateway` | - | cache sync, reconciliation, then watcher, periodic reconciler and HTTP; stop | a restart repairs what a crash left |
| Worker | `internal/worker/worker.go`, `cmd/worker` | mode, alert flags, timers, segment tracking | `Run`, `waitingMode`, `monitoringMode`, shutdown | order of webhooks and reports; it ends when it should; newer segments are analysed, old ones are not |
| Worker callbacks | `internal/worker/callback.go` | - | `ReportStatus`, `TerminateMonitor`, one try of 10 s each | - |
| Webhook sender | `internal/webhook` | the attempt, the context | `Send` with retries and backoff, signature | a success means the receiver has it or sent it on; repeated requests can be told |
| Black and silence detection | `worker.go:564-676`, `internal/ffmpeg` | running sums, alert flags | one step per segment | an alert means that much of the picture was black, and is taken back |
| Manifest parser | `internal/manifest` | the walk of one poll | `IsEndList`, `GetLatestSegment`, of HLS and DASH | the segment it returns is the last one; a poll ends |
| yt-dlp client | `internal/ytdlp` | - | live status, manifest URL | - |
| Rate limiter | `internal/httpapi/middleware.go` | table of token buckets, heap by last use | one look-up per request, cleanup, eviction at capacity | no bucket is shared; nobody is refused for others; a client gets more than its rate only when a crowd has evicted it |
| Configuration | `internal/config` | - | environment to structures | defaults and bounds |
| Validation, IDs, errors, logging | `internal/validation`, `ids`, `httpapi`, `log` | - | stateless | - |
| Webhook demo | `cmd/webhook-demo` | - | a receiver for trying things out | - |

How they meet: the gateway's three loops share the objects through the API server
(optimistic concurrency by resourceVersion) and read most things from one
informer, which is behind by an unknown amount; the worker's requests arrive late,
out of order or never; pods end on their own, by deletion and by eviction; a
crash of the gateway loses every request under way and everything that was owed.

## 2. What is hard

* Four writers of one phase (handlers, late reports, reconciler, watcher), two
  of them with conditional writes, all of them deciding on a stale copy.
* The reconciler's two snapshots, which are not of the same moment.
* `POST /monitors` is five calls; any may fail, with its effect or without, or the
  gateway may crash, or a `DELETE` may come in between.
* Reports of the worker that are delayed beyond the end of the monitor.
* `PATCH` and the statistics of a report are computed from the stale copy and
  written as a whole by a loop that only protects against conflicts *after* that.
* In the worker: SIGTERM at any point of a cycle that has up to a dozen calls;
  a delivery that fails for good in the middle of the cycle; flags set before the
  call they guard; two ways of finding the stream over.
* Timers: five minutes between live checks, sixty seconds of segment errors, the
  suspension threshold, the delay of a scheduled start.
* Whether a segment is new: playlists that are one segment old, manifest URLs that
  change (`GetManifestURL` also falls back from yt-dlp to streamlink), playlists
  that number differently or not at all, and a note of the change that a failed
  download uses up.
* Requests that arrive although the sender has given them up.
* A table of rate limiters that forgets: by age, and at its capacity.

`PROJECT.json` lists the hazards at their lines, with the properties that watch
over them.

## 3. The modules

```
MonitorPhase            values
  Cluster               objects, versions, informer, pods   (k8s/store, k8s)
    Handlers            HTTP handlers                       (api, store.Create)
    Reconciler          ReconcileStartup                    (k8s/reconcile.go)
    PodWatcher          watchLoop, handlePodEvent           (k8s/watcher.go)
      Lifecycle         all of them, crashes, workers from outside
        MCLifecycle     instances for TLC
        LifecycleProofs invariants, action properties, refinement
MonitorContract         what the caller is promised (abstract), with its proof
AtomicWrites            PATCH and reports in one step each (abstract)
ObjectWrites            the fields of one object, PATCH and reports (api, k8s/store)
WorkerCalls             which request a worker may make when (worker/callback.go)
  WorkerSeen            a worker as the gateway sees it (abstract)
Worker                  one worker process from inside      (worker, cmd/worker)
Manifest                the latest segment of a document    (manifest)
  ManifestPoll          the requests of one poll            (manifest)
  Analysis              which segments are new, black-outs  (worker)
Measure                 how much is black or silent         (ffmpeg)
  Values                ManifestPoll and Measure on any input, reference definitions
    MCValues            small inputs for TLC
Mailbox                 what a sender promises (abstract)
WebhookSender           attempts, timeouts, the network     (webhook)
RateLimiter             the table of buckets                (httpapi/middleware.go)
```

`ObjectWrites`, `Worker`, `Analysis`, `Values`, `WebhookSender` and `RateLimiter`
each have a module of proofs beside them.

**Cluster.** `object[m]` is the phase in the API server (`"unset"` for an object
that has no status yet), `cache[m]` the informer's, `feed` the changes in
between. A resourceVersion appears only as `held[p]`: process `p` has read the live
object and nobody has written it since. Every write clears it (`Invalidate`),
so a conditional write is accepted exactly when the API server would accept it,
without a counter. A call that fails (`Fault`) has had no effect, or has had it and lost its
answer (`WriteFails`, `TouchFails`, `DeletePodFails`, `ConditionalWriteFails`): every one of
them is bound to a context that may end. `UpdateStatusWithCondition` is two steps, the live read
(`ExpectedPhase`, `Hold`) and the write (`WriteAccepted`), because what happens
in between is its purpose; `UpdateStatus` and the other retried writes are one
step, the last, successful attempt.

**Handlers.** `create[m]` is the program counter of the POST handler of `m`; a
monitor ID is made once, so an ID is a request. `CreateMonitor` is `CountActive` and
`Admit`, two reads of the copy with time between them (`handlers.go:128`, `store.go:157`),
`StoreObject`, `SetInitialPhase` (or `InitialPhaseFails` and `RollBack`),
`StartPod`, `RecordPodName` (or `MarkCreateFailed`). The deleting handlers leave
`cleanup` for their second call, `UpdateMonitorStatus` leaves `stats`.

**Reconciler.** One pass: `SnapshotMonitors` (informer), `ListPods` (API server),
the loop over missing pods (`CheckMissing`, `MarkMissing`, `NotifyMissing`), the
loop over orphans (`DeleteOrphan`), `FinishPass`. Its zombie branch
(`reconcile.go:198`) is unreachable, since the snapshot only holds active monitors.

**PodWatcher.** `OpenWatch` lists and watches from the list's version, so no
event falls in between; `CloseWatch` loses what was not delivered; `TakeEvent`
reads the informer, then the conditional write, the webhook and the deletion
of the pod are steps of their own.

**Lifecycle.** `Init` is a fresh installation. Workers are what the gateway sees of
them: `ReportStatus`, `RequestTermination`, `EndQuietly`, `PodEnds`, in the orders
`WorkerCalls` allows. `report` is a set, so requests overtake each other; `LoseRequest` loses one; nothing
is sent while the gateway is down. `main` exits with 0 whatever `Run` returned
(`cmd/worker/main.go:86`), so a pod fails only when it is killed or panics. A crash
clears the gateway's memory, a boot rebuilds the informer's copy and runs a pass
before handlers and watcher start (`cmd/gateway/main.go:76-178`).

**MonitorContract.** Per monitor: `state` (new, open, closed, gone), `owed`, `sent`,
`revivals`. The gateway may find only an *open* monitor failed, owes one
`monitor.error` for that, and a removed monitor never returns. A crash cancels
what is owed: the phase is terminal after a restart, and nobody looks again. That
is a real limit of the code, stated in the contract rather than hidden.
`ImplementsContract` is the refinement of `Lifecycle`.

**ObjectWrites.** One object with all its versions, so that what was read, merged
and overwritten can be compared. PATCH is `PatchBegins` (the merge into the
informer's copy, `handlers.go:646`), then the loop of `RetryOnConflict`:
`PatchGets` reads the object and its phase afresh, `PatchPuts` writes the merged
configuration as a whole, the callback URL only when named, and nothing when
nothing changes. A report writes the phase, reads statistics from the copy,
lays its own over them (a count of zero is not in the request, `omitempty`), and
loops likewise. `WithConfig` are the PATCHes with a configuration, which is merged and written
as a whole though it may name no field. `Cluster` treats the same writes as one step each; this module
is where their loops are opened.

**AtomicWrites.** The same object, and every PATCH and report a write in one step
(`Apply`, `Put`), or none (`Refuse`, `GiveUp`, `Abandon`). The step is conditional on what
the object is at that moment; what it writes may be made of any version there has
been. `OneStepOrNone` is the refinement: an attempt that conflicts is a stutter.

**Worker.** The main goroutine is `pc`, with a label wherever the code calls out or
reads what another goroutine writes; `saying` and `back` are the call of
`sendWebhook`. A timer is a flag the clock may set at any moment (`Tick`) and the
code's assignments reset, which covers every choice of thresholds. The stream is
`stream` (upcoming, live, over), `fresh` (it has an unanalysed segment) and `moved` (its
manifest URL has changed since the last analysed segment, and the known segment
looks new there, or old by its number). `told` and `outage` record what the
receiver has acknowledged. SIGTERM is two steps, because the cancelled context and
`shutdownRequested` are set by different goroutines.

**WorkerCalls, WorkerSeen.** What the gateway may take for granted of a worker, in one
place: `MayReport`, `MayTerminate`, `MayEndQuietly`. `Lifecycle` builds its workers from these
operators; `WorkerSeen` is a worker that is nothing else; and `SeenAsPromised` shows that
`Worker` implements it, whose guards come from `worker.go` and know nothing of them. So
`Lifecycle` is checked against every order of requests the real worker has, among them
those one would not guess: a report of `stopped` after one of `completed` (SIGTERM while
the webhook in between is under way), an `error` told twice, a termination asked for
several times, and the report of `monitoring` after a failed delivery.

**Analysis.** The part of the loop `Worker` takes for granted, with the segments
themselves: the stream is a sequence of segments, black or not, of some length; each
manifest URL numbers them from an offset of its own, or always from 0. `Poll(p, size)`
gets a playlist of `size` segments whose latest is `p`, the newest or the one before (a stale
copy): a playlist may get longer and shorter, and without numbers the latest segment of a
shorter one has a lower number; `IsOld` is the comparison of `worker.go:483-492`;
`Analyze` remembers the segment,
re-baselines or resumes, and runs `processBlackDetection`. Silence is the same code
with other names. Webhooks always succeed here: what follows when one fails is
`Worker`'s business, and `Worker` does not look at segments.

**Manifest, ManifestPoll.** `Manifest` has the operators on one document: `LatestHLS`,
`WalkTimeline` (a fold), `Estimate`, `LatestDASH`. `Estimate` divides floating-point numbers
in the code and rounds up: a document says of itself (`past`) whether that makes one more of an
exact quotient. `ManifestPoll` has the requests:
`IsEndList` follows masters and counts its steps, `GetLatestSegment` follows
them again and does not. Any request may fail (`FetchFails`). The document behind a URL
is taken to stay as it is during one poll.

**Measure.** What ffmpeg prints of a silent stretch: a silence that begins before
the segment has a negative start, which the pattern at `ffmpeg.go:237` does not
match, and one that lasts to the end may lack its end line. The part of a silence before 0,
a few milliseconds that ffmpeg counts in `silence_duration`, counts for nothing here.

**Values.** Any input of these algorithms as a state: a web of playlists, a DASH
template, a pattern of silence; beside each the reference definition its result is
compared with (the list of segments a template stands for, the silent ticks).
`ValuesAssumption` keeps out what no list is defined for: a declared number 0, which is
not told from an absent one, and a negative `r`, which is taken for 0. `RoundedPast` are the
templates, as duration, timescale and total, whose quotient is whole and comes out of the
floating point a little above that; it may hold any whose segment duration has no finite
binary expansion (`Exact`), and no other. `MCValues` has
the small sets TLC runs through.

**Mailbox, WebhookSender.** `Mailbox` is what `sendWebhook`'s callers rely on: one
event after the other, and a success means that the receiver has the event.
`WebhookSender` is the code: validation of the URL, which is not retried, the
attempts, the client's timeout, the wait, cancellation; between it and the
receiver `wire` holds requests that may arrive at any later time, though given up. `Redirect`
is a receiver that answers 301, 302 or 303: the client goes on with a GET without the event,
and the answer to that is the answer to the attempt; `away` are the events it happened to.

**RateLimiter.** One of the registry's limiters: creating and patching share one of
25 per minute, the two queries one of 100; deletion and the internal API have
none. The key is the API key, or the client's address for bearer callers.
Buckets are memory cells, because a request that has looked its bucket up and let
go of the lock keeps it when it is evicted. Levels are counted in ticks, a
token being worth the interval in which it grows back. `balance`, `crowd` and
`rested` are the record of one client that the properties need.

## 4. The runs

All bounds are CONSTANTS and named as such where they are declared. Deadlock is
checked in the runs of `Lifecycle`; in the others the system may stop: the worker's
process exits, all events are sent, the bounded stream, clock or object has
reached its bound, an input has been looked at.

| Run | Instance | Checks |
|---|---|---|
| `lifecycle_safety` | 1 monitor; lag, fault, request, revival 1 each, PATCH, GC | `NotifyBudget`, `WatcherSparesRunningPods`, `TerminalPhaseKept`, `ImplementsContract` |
| `lifecycle_pair` | 2 monitors of one stream, limit 1, lag 1 | `IInv`, `DuplicateNeedsLag`, `LimitNeedsLag` |
| `lifecycle_live` | 1 monitor, lag 1, 1 request, fair | `EndedPodNoticed` |
| `lifecycle_crash` | 1 monitor, lag 1, 2 faults, 1 crash, no GC, fair | `NoPhaselessRemnant`, `MissingPodNoticed`, `DeadPodRemoved` |
| `worker` | no bounds: finite | `StartedFirst`, `OutageAlternates`, `SeenAsPromised`, `CompletedAfterEnded`, `NothingElseAfterEnded`, `LastWord`, `WorkerStops`, `StreamEndNoticed`, `SegmentErrorsTold` |
| `worker_alert` | the same | `SegmentErrorsAlerted`, violated: see section 7 |
| `analysis` | 2 manifest URLs, numbered from 0, from 2 or not, playlists of 1 or 2 of 3 segments | `AlertMeansBlack`, `NewerIsNew`, `OnlyForward`, `ResumedMeansNewer`, `NewestAnalysed` |
| `analysis_resume` | the same | `ResumedNeverFalse`, violated: see section 7 |
| `values` | 3 URLs; 3 timeline elements; 1 template rounded past its end; segments of 10 ticks | `PollEnds`, `LatestIsLast`, `NumbersGoOn`, `SilenceMeasured` |
| `delivery` | 2 events, 4 attempts, redirections | `TimestampsTell`, `KeepsPromise`, `GivenUpLast` |
| `limiter` | 3 clients, 2 requests at a time, a table of 2 | `TableOK`, `AdmissionBound`, `CleanupHarmless`, `EvictionNeedsCrowd`, `RefusalNeedsUse` |
| `store` | 2 PATCHes over 2 settings, one with an empty configuration, 2 reports, 2 tries | `LostUpdateNeedsLag`, `OneStepOrNone`, `StatsBackNeedsOvertaking` |

What they show:

* `NotifyBudget`: a failure is notified once; again only if a late report has
  reopened the monitor. `TerminalPhaseKept`: reconciler and watcher never
  overwrite a terminal phase, however old what they act on. `ImplementsContract`:
  each failure is owed one notification, and a deleted object does not come back.
  `WatcherSparesRunningPods`: neither its verdict nor its deletion can hit a process
  that runs.
* `DuplicateNeedsLag`, `LimitNeedsLag`: a duplicate or an excess monitor is admitted
  only while the informer is behind or an earlier request is between its check
  and its object's first phase. `NoPhaselessRemnant`: a first status write that fails, with its
  effect or without, leaves no object without a phase; what does is a creation whose
  answer is lost (`store.go:195-200` returns without a rollback), a rollback that fails, or
  a crash.
* `MissingPodNoticed`, `EndedPodNoticed`, `DeadPodRemoved`: though the watcher drops
  events and the reconciler takes dead pods for living ones, between them no
  monitor stays active without a live worker and no dead pod stays. The garbage
  collector is off in these runs: the gateway does it alone.
* `worker`: suspensions and resumptions are told alternately, whatever fails in
  between; no alert comes before `stream.started` and nothing but itself after
  `stream.ended`; `completed` is not reported before the receiver knows, shutdowns
  excepted; nothing follows a terminal report; the gateway gets the requests in an
  order it is prepared for (`SeenAsPromised`). A shutdown, a failed delivery and the stream's end each end the
  process, and a minute of segment errors raises the alert or ends the worker, but for a lookup
  that fails then (`SegmentErrorsTold`): `worker_alert` shows that after such a failure the
  alert may stay away for good.
* `analysis`: behind one manifest URL with numbers a newer segment is never passed over
  and no old one analysed (`NewerIsNew`, `OnlyForward`); without numbers a newer one is not
  passed over as long as its playlist is no shorter than that of the last segment; an alert stands for
  as many black seconds of *different* segments as the threshold, unless the
  URL has changed meanwhile or there are no numbers (`AlertMeansBlack`);
  `stream.resumed` is about a newer segment, unless
  the change of URL had been forgotten (`ResumedMeansNewer`). Where all manifests
  have numbers, and the same, the newest segment is reached (`NewestAnalysed`); where they do
  not, it need not be: a URL that numbers lower makes the worker blind
  (`worker.go:485`) until the numbers have caught up.
* `values`: the latest segment of a timeline is the last of those it lists, by number,
  time and duration; without a timeline it is the one the presentation ends in, or, where the floating point
  rounds a whole quotient up, the one that would begin at its end;
  along a live stream numbers go on, whatever leaves the timeline; polls end, though
  only one of their two walks counts its steps; never more silence is measured
  than there is.
* `delivery`: after a success the receiver has the event, or has answered an attempt with a
  redirection to which the client sent a GET without it; an event is given up
  only at the last attempt, on shutdown or for its URL, and a receiver can tell
  by the timestamp which requests repeat the same event, and their order.
* `limiter`: evictions never make clients share a bucket or a request be charged to
  somebody else's; cleaning up forgets full buckets only; a client is admitted
  for more than one bucket only when as many others as the table holds have
  come since; nobody is refused for what others do.
* `store`: however often a loop has tried, its write takes effect once and at once, of
  a monitor that is still active if it is a PATCH, and one that gives up or is refused
  has written nothing (`OneStepOrNone`); a PATCH takes back a setting it does not name
  only when another PATCH has changed it after the version it was merged into;
  statistics go back only when reports overtake each other.

Why the bounds suffice.

* `Lifecycle`: `MaxLag` (changes the informer is behind), `MaxFaults` (calls that fail
  for a reason other than a conflict), `MaxRequests` (worker requests on their
  way), `MaxRevivals` (late reports that reopen a monitor), `MaxCrashes`. What concerns
  one monitor never reads another: the two monitors of `lifecycle_pair`
  meet only in `CountActive` and `Admit` and in the sharing of the two loops. Under its limit
  of one both become active when both are counted before either has a phase. The
  races are between two conditional writers and one other write, so a lag of one,
  one report on its way and one revival let each pair of steps occur in both
  orders; the two faults of `lifecycle_crash` are a status write and its rollback;
  the proofs remove the bounds for the safety properties. Symmetry is
  used in that run only; `SameUrl` is symmetric in the monitors.
* `Analysis`: a window of two, so that a segment leaves the playlist; offsets that
  differ by two, so that renumbering goes both ways and beyond the window; playlists of
  one segment or two, which get longer and shorter; a
  threshold of 3 that two segments or three may reach (lengths 1 and 2); sums stop at
  `MaxSum`, above the threshold.
* `values`: three URLs make circles of masters and a chain to a playlist; the depth
  of 4 is larger than any path without a circle. Three elements let one begin with
  a time, one without and one leave; a presentation of up to 9 units over
  durations up to 4 has every remainder; of the larger values, a duration of 7 at a
  timescale of 10 in 21 s has the quotient 30, and 30.000000000000004 in floating point.
  Of ten ticks nine are not
  yet more than 90 %, and a shortest interval of 2 leaves stretches unreported.
* `delivery`: four attempts, as in the code, at two events, the fewest in which an old
  request can arrive among new ones.
* `limiter`: three clients for a table of two, so that evictions follow each other;
  four cells, so that two buckets outlive their eviction; six ticks, the window
  and one interval more.
* `store`: two writers of each kind; with two tries each may lose once and win, or
  give up; five versions: each of the four can be written, or an end of the monitor, its
  reopening by a report, and two of them.

Each property has a mutant in the module it is about: a changed definition, marked
`mutant` beside the original, under which TLC must find the property violated
(a dropped filter, a check that is not made, a forgotten rollback). The type
invariants have no run of their own but for `Lifecycle`'s, which is a conjunct of
`IInv`: they are proved.

## 5. Fairness

`Lifecycle!Fairness`: the gateway is restarted (a Deployment); the informer applies
what it receives; the reconciler goes on (its ticker fires every five minutes, its
calls have a timeout of 30 s); the watcher reopens its watch a second after it
closed, handles what it has begun, and the API server closes every watch sooner or
later, which makes the watcher list again; an event that stays available
is taken (strong, since the watch closes in between); a pod with a deletion
timestamp ends (grace period of 30 s). Nothing is assumed of requests, reports,
the informer's delay, or of a pod that has no reason to end.

`Worker!Fairness`: each call of the main goroutine returns; live checks become due
again, a minute of errors passes; SIGTERM takes effect in both places once it has in
one; and the lookups of the stream's status do not fail for ever (strong, for each of
the three places: a lookup that is made again and again succeeds once, which does not help a
place that looks but once). That every call returns is an assumption: webhooks and reports
have timeouts, but yt-dlp is started without one of its own, and only a
cancelled context ends it.

`Analysis!Fairness`: a download or an analysis ends, one way or the other (weak: the
HTTP client and the commands); the loop polls, and of polls that find the newest
segment, in a playlist of whatever length, one is made, and one such download succeeds (strong: old
copies, refreshes and failures come in between, but not always). Nothing is
assumed of the refresh.

`Values`: the two calls of a poll go on, one request after the other. `WebhookSender`,
`RateLimiter` and `ObjectWrites` have safety properties only and assume nothing.

## 6. The proofs

All proofs hold for every value of the constants under the assumptions the
modules name (types, `None` outside the sets, positive limits): for every set of
monitors, finite or not, every stream, numbering, number of events, attempts,
clients, requests, PATCHes and reports, templates and playlists. The bounds are constants
too: a theorem holds for every value of theirs. The one finiteness assumed is
that of `Requests`, the requests the rate limiter serves at one time. Every invariant
and every action property of the passing runs is stated by a theorem.

No property is inductive as it stands; each module of proofs has a strengthening
`IInv`, shown to hold initially and to be kept by every action, with a lemma for each
action or group of them.

**Lifecycle** (`LifecycleProofs`). That a conditional write never
hits a terminal phase depends on what was read before. `IInv` is

* `TypeOK`;
* `HeldIsActive`: whoever holds the current version of an object read an active
  phase in it. This is the heart: `seen` and `believed` range over active phases,
  `Hold` happens only on equality, and any write to the object clears `held`;
* `NothingBeforeCreate`: no object before its request is admitted;
* `WorksOnMonitors`: the subjects of both loops are monitors seen active.

TLC checks it in `lifecycle_pair`. Three further invariants rest on it: `EndedForGood`, a
monitor has one pod in its life, so a pod that has ended stays so; `NoPhaselessRemnant`
itself; `CacheFollows`, the informer's copy of a monitor
is the object, or the last entry about it in the feed is.

| Theorem | Says |
|---|---|
| `Invariance`, `TypeCorrect` | `Spec => []IInv`, `Spec => []TypeOK` |
| `TerminalKept` | `Spec => TerminalPhaseKept` |
| `DeletedKept` | `Spec => DeletedStaysDeleted` |
| `RunningPodsSpared` | `Spec => []WatcherSparesRunningPods`, from `EndedForGood` |
| `RemnantsExplained` | `Spec => []NoPhaselessRemnant`, for any number of failing calls, with an effect or without |
| `DuplicatesByLag`, `ExcessByLag` | `Spec => DuplicateNeedsLag`, `Spec => LimitNeedsLag`: with an empty feed `CacheFollows` makes the copy exact, and `CountActive` and `Admit` look at the copy |
| `Implementation` | `Spec => ImplementsContract`: each step is a step of the contract or stutters |
| `NotificationsBounded` | `Spec => []NotifyBudget`, from the contract's |
| `Balance` (`MonitorContract`) | sent plus owed never exceed the closings |

`NotificationsBounded` shows the use of the contract: the bound is an invariant of
eight abstract actions, and reaches the system through the refinement.

**Worker** (`WorkerProofs`). `IInv` says what each label knows: what is sent and where
the worker goes on after it (`Sending`), that nothing unannounced is monitored
(`Announced`), that `suspendedAlertSent` is what the receiver knows but for a webhook
on its way and a worker that is to stop (`FlagIsOutage`), that after a failure no
stream is looked at (`FailureSeen`), and where a worker can be that has announced its end or
reported a terminal status (`EndDelivered`, `EndTold`, `FinalTold`). From it: `StartAlwaysFirst`,
`OutagesAlternate`, `FailureIsFinal` (a delivery that failed is never forgotten),
`CompletedIsTold`, `EndIsLast`, `TerminalStatusLast`.

`SeenIsPromised` is the refinement of `WorkerSeen`. `ReportFits` ties the last report and the
stage of the abstract worker to the label and the flags of the real one (a worker that is
about to report may do so; one that has reported its end has nothing left to say but
`stopped`); each action is then one of the abstract worker's or a stutter.

**Analysis** (`AnalysisProofs`). `Remembered`: the last segment is the newest one that
was analysed behind this URL; `FoundNew`: what is fetched differs from it; `NothingHidden`:
before a segment has been analysed behind a URL, one only looks old because of
another URL, and then the change is still noted or has been forgotten;
`RecoveryTold`: an alert stands only while there is a `blackoutStart`. With the lemma
that numbers grow behind one URL, or, without numbers, do not fall while the playlists get no
shorter: `NewerIsAlwaysNew`, `AlwaysForward`, `ResumedIsNewer`,
`RecoveryAlwaysTold`.

`AlertAlwaysMeansBlack` is about a sum over a set. `Counted` says what the running sum of a
stretch stands for: no less than the lengths of the segments in it, each counted once; and
no more, as long as no segment can have been met twice, because the URL is the same and
its segments are numbered. `Ticks` are the pairs of a segment and a tick within it, so that
such a sum is the size of a set, and adding a segment the union with a disjoint one.

**Values** (`ValuesProofs`). What the folds and recursive functions compute needs
induction over data, and the library's theorems for it take an operator as a parameter.
`SetInduction` takes the *set* of the numbers for which a fact holds instead, which a
first-order prover can be given; `FoldExists` and the lemmas on prefixes follow from it.

* `LatestAlwaysLast`: for every timeline, `WalkTimeline` arrives at the last element of the
  list the timeline stands for (by induction over its prefixes); without a timeline the
  rounded-up division of `Estimate` is the segment the presentation ends in, but for the
  templates of `RoundedPast`, of which it is the next one. Which templates those are is left
  open: any set of templates whose quotient is whole and not exact in binary will do.
* `NumbersAlwaysGoOn`: when elements leave at the front and one joins at the end, the number
  of the latest segment grows by what has joined.
* `SilenceAlwaysMeasured`: of any pattern of silence, by cardinalities of sets of ticks, to the
  margin of what lies before 0.
* `PollAlwaysOnTheWay`, `RequestsAlwaysCount`: the safety half of `PollEnds`. `IsEndList` leaves
  behind a path of lowest variants to an open playlist; `GetLatestSegment`, which counts
  nothing, is always on such a path, and each of its requests fails or is one master nearer to
  that playlist. `PathShrinks` is why: of a master's variants both calls choose the same.

**WebhookSender** (`WebhookSenderProofs`). One event at a time; an answer that is relied
on is to a request that has been taken, or redirected; the timestamps on the wire and taken are
ordered as the events are, and the current one is the newest. From it: the
refinement (`PromiseKept`), `TimestampsAlwaysTell`, `AttemptsAlwaysBounded` (no event reaches the
receiver more than `MaxRetries` times), `GivenUpAtLast`.

**RateLimiter** (`RateLimiterProofs`). `CellsOwned`: a cell that somebody refers to belongs
to one client, evicted buckets included; `Grown`: a bucket in the table holds at
least what has grown since it was looked up, because only who has just looked it up
takes from it; `WatchedRested`: likewise for one client since it was admitted, in the
bucket of the table and in older ones; `CrowdKnown`: whoever was looked up later is in
the crowd. From it: `TableAlwaysOK`, `CleanupIsHarmless`, `EvictionTakesCrowd`, `RefusalTakesUse`.

`AdmissionsBounded` is about all buckets a client ever has. `Covered`: what it may still be
admitted for covers what is left in its bucket and in the evicted ones its requests still
hold, and a full one if it is not in the table (`BalanceCovers`); `Tokens` are the pairs of a
cell and a token in it, so that the sum is again the size of a set.

**ObjectWrites** (`ObjectWritesProofs`). `PatchOK` and `ReportOK`: what a handler at work has
read and merged, into which version, and that it has lost as often as it
has tried; `ChangesShow`: a setting that differs from an older version has been changed
since; `StatsOK`: no version has statistics newer than the newest report that was
written. From it: `UpdatesLostByLag`, `EndedIsSpared`, `StatsBackByOvertaking`, and
`ConflictsAlwaysNeedWriters` (a call gives up only after as many other writes as it may try).

`LoopsAreOneStep` is the refinement of `AtomicWrites`, with one lemma per action
(`PatchPutsShows`, `ReportPutsShows`, ...). The write of a PATCH is the abstract `Apply` because of
`PatchOK`: a loop that is about to write has read an active object, and if that is still
the newest version, the newest object is active.

Only model-checked: liveness (`EndedPodNoticed`, `MissingPodNoticed`, `DeadPodRemoved`, `WorkerStops`,
`StreamEndNoticed`, `SegmentErrorsTold`, `NewestAnalysed`, `PollEnds`), since liveness under fairness and
ENABLED are out of the prover's reach. Only proved, with no run of their own: the type
invariants of the modules other than `Lifecycle`, `DeletedStaysDeleted`, `FailureSticks`,
`RecoveryTold`, `AttemptsBounded`, `PatchSparesEnded`, `ConflictsNeedWriters`, `OnTheWay`, `EveryRequestCounts`.

## 7. Where code and text disagree

Two runs state what a comment and a document say, and TLC finds a behaviour of the code that
contradicts it.

`analysis_resume`: `worker.go:536-538` re-baselines the tracking after a
change of the manifest URL "without triggering a false stream.resumed". But
`manifestURLChanged` is taken down (`worker.go:474-475`) before it is known whether the
poll's segment will be analysed. If it looks old, or its download fails, the change is
forgotten; the next poll takes the same segment, which has another URL, or another number,
for a new one, ends the suspension and sends `stream.resumed`, though the stream has
not moved. `ResumedMeansNewer` is what holds instead.

`worker_alert`: docs/requirements.md:531 wants `alert.segment_error` when segments have failed
for a minute, and line 716 says so of a stream that is live. `handleSegmentError` marks the alert
as sent (`worker.go:693`), then looks the stream up, and returns when the lookup fails
(`worker.go:697-700`). Until a segment succeeds it does not ask again: the errors may go on for
good without an alert. `SegmentErrorsTold` is what holds instead.

More can be read off the models, and has no run of its own:

* docs/requirements.md:1161 (no failure is notified twice): a late report reopens a failed
  monitor (`handlers.go:472`), which fails and is notified again. `NotifyBudget` allows just that.
* store.go:401-403 (a refused conditional write means somebody else handled it): a write of
  podName or a move between active phases refuses it just as well, and the end of
  the pod is dropped (`watcher.go:174`) until the watch is reopened.
* reconcile.go:183 (no monitor): the monitor may have been made after the snapshot; its
  running pod is deleted. Conversely a monitor whose pod is made between the two snapshots
  can be marked as failed although its pod runs.
* docs/requirements.md:729-731 (ended, completed, end): after an end list the loop makes one
  more cycle (`worker.go:464`), in which a live check may announce the end again.
* store.go:211-226 (the rollback of an object that would be invisible): a `Create` whose answer
  is lost has no rollback (`store.go:195-200`), and leaves just such an object.
* worker.go:479-482 (new or old by number, then by URL): a playlist without numbers that gets
  shorter numbers its latest segment lower, be it an HLS list without EXT-X-MEDIA-SEQUENCE
  (`manifest.go:145`) or a DASH timeline without startNumber (`manifest.go:464`), and a newer
  segment is passed over (`worker.go:483`).
* manifest.go:491-495 (the number of segments): 21 s of segments of 7/10 s are 30, and 31 in
  floating point; the latest segment then begins at the end of the presentation.
* webhook.go:56-67 (redirections): a 301, 302 or 303 is followed with a GET without the event,
  and a 2xx to that is a success (`webhook.go:127`), though nobody has been given the event.
* docs/requirements.md section 4.4 (retries): a name lookup that fails (`webhook.go:88`) ends the
  delivery without an attempt, and for a worker that is the end of the monitor.
* docs/requirements.md section 12.3 (25 per minute): a bucket that starts full and grows back
  lets nearly twice the limit into one window; and one key is shared by all that use it.
* 01-streammonitor-crd-migration.md:179 (writes never clobber each other): the loop on
  conflicts starts after the merge, so that two sequential PATCHes may lose the first
  through the informer's lag (`LostUpdateNeedsLag`).
* A worker that failed, whose report was lost, exits with 0 and is marked as completed; two
  concurrent requests for a stream both pass the duplicate check; SIGTERM drops the
  webhook under way and may turn an announced end into `stopped`.
* A PATCH never reaches a worker that runs; `scheduledStartTime` cannot be cleared;
  a threshold of 0 passes `Validate` and is ignored by `LoadWorkerConfig`, which takes its
  default (5 s, 300 s, -50 dB).
* A `startNumber` of 0 is read as absent, hence 1; a negative `r` as 0; a DASH template with a
  timeline and no `startNumber` has numbers that stand still as it slides, so that
  the worker goes by URLs.

## 8. What is not modelled

* `Lifecycle`: the fields of an object other than its phase are `Touch` (a write to them
  makes versions stale) and are in `ObjectWrites`; the delivery of `monitor.error` (sent, not
  received; the sender is in `WebhookSender`); the graceful stop of the
  gateway, which loses less than a crash does; more than one replica.
* `Worker`: alerts of the detection are nondeterministic; segments are new or not. `Analysis` has
  what is left out there, and leaves failures of webhooks to it. The values in
  the payloads are in neither.
* `Manifest`: the resolution of URLs, the grammar of ISO durations, the limit on a segment's
  bytes (an error like any other); documents that change between the requests
  of one poll; totals of a presentation that are not whole seconds. `Measure`: running the
  commands, temporary files, milliseconds, and so the part of a silence before 0.
* `WebhookSender`: a receiver that takes the event and redirects nevertheless, the signature,
  each attempt's own `X-Timestamp`, the length of
  the waits.
* `RateLimiter`: the authentication in the same file, which is stateless; looking a bucket up
  and asking it take no time, so the cleanup never meets a bucket a request is about to ask;
  the limiters of the registry, which share nothing.
* Not modelled at all, and not to be: the yt-dlp client (external commands without
  state, whose answers and failures `Worker` has); the configuration, which is constants; the
  pod's specification; validation, IDs, errors, logging, the demo receiver: stateless
  text work.

## 9. Plan

Done: everything above. What is left:

1. `Cluster` and `AtomicWrites` composed: the same one-step writes with phases on one
   side and fields on the other.
2. `MayEndQuietly` drawn tighter: which of the quiet ends take a cancelled context, and
   hence SIGTERM; `WorkerCalls` allows them at any time.
3. The stop of the gateway: requests drained for a while, then cut off.
