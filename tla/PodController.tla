--------------------------- MODULE PodController ---------------------------
(***************************************************************************)
(* The pod controller of version-checker (pkg/controller/pod_controller.go *)
(* and pod_sync.go) with the parts of controller-runtime it relies on.     *)
(*                                                                         *)
(* Four things run concurrently:                                           *)
(*   - the API server's pods change;                                       *)
(*   - two informers follow them, each at its own pace: the metadata       *)
(*     informer (builder.OnlyMetadata) whose events run the predicates of  *)
(*     SetupWithManager and fill the work queue, and the typed informer    *)
(*     behind r.Get and PodExists (podCache);                              *)
(*   - numWorkers goroutines take keys from the queue and run Reconcile;   *)
(*   - the process may end, whatever it is doing, and be started again.    *)
(*                                                                         *)
(* The work queue never hands a key to two workers at once, so a worker is *)
(* identified by the key it works on: pc[p] is where the reconciliation of *)
(* p stands.                                                               *)
(*                                                                         *)
(* Time is left out: RequeueAfter, its half after an error and the rate    *)
(* limiter's back-off only say when a delayed key returns.                 *)
(***************************************************************************)
EXTENDS Metrics

CONSTANTS
  Specs,        \* pod specs: functions from container names to images
  Annotations,  \* annotation maps a pod may carry
  Mode,         \* Mode[a][c]: what the options make of container c under a
  OverrideURL,  \* OverrideURL[a][c]: its override-url annotation, or Absent
  ImageURL,     \* ImageURL[i]: the image i without its tag and SHA
  NumWorkers,   \* numWorkers, MaxConcurrentReconciles
  MaxChanges    \* bound: changes of pods, and restarts, after the start

\* What IsEnabled and Options say of a container: not enabled; enabled with
\* annotations that do not parse; enabled; enabled with resolve-sha-to-tags
\* but no override-url, on which Checker.Container dereferences nil.
Modes == {"disabled", "invalid", "enabled", "panics"}

PodRecord ==
  [spec : Specs,                    \* the containers and their images
   annotations : Annotations,
   status : SUBSET Containers,      \* containers whose status has an ImageID
   deleting : BOOLEAN]              \* deletionTimestamp is set

ASSUME PodAssumption ==
  /\ Specs \subseteq UNION {[S -> Images] : S \in SUBSET Containers}
  /\ Absent \notin PodRecord
  /\ Absent \notin URLs

ASSUME OptionsAssumption ==
  /\ Mode \in [Annotations -> [Containers -> Modes]]
  /\ OverrideURL \in [Annotations -> [Containers -> URLs \cup {Absent}]]
  /\ ImageURL \in [Images -> URLs]

ASSUME BoundsAssumption == NumWorkers \in Nat \ {0} /\ MaxChanges \in Nat

VARIABLES
  api,       \* the pods of the API server
  metaView,  \* the metadata informer's store
  dirty,     \* keys waiting in the work queue
  delayed,   \* keys that return to the queue later
  pc,        \* where the reconciliation of a key stands
  pod,       \* the pod its r.Get returned
  todo,      \* the containers its sync still has to visit
  changes    \* number of changes of pods and of restarts so far

queueVars == <<dirty, delayed>>
workVars == <<pc, pod, todo>>
viewVars == <<api, metaView, podCache, changes>>
vars == <<metricsVars, queueVars, workVars, viewVars>>

PCs == {"idle", "get", "notfound", "sync", "duration", "unwind"}

Init ==
  /\ api \in [Pods -> {Absent} \cup
                {r \in PodRecord : r.status \subseteq DOMAIN r.spec}]
  /\ podCache = api
  /\ metaView = [p \in Pods |-> Absent]
  /\ dirty = {}
  /\ delayed = {}
  /\ pc = [p \in Pods |-> "idle"]
  /\ pod = [p \in Pods |-> Absent]
  /\ todo = [p \in Pods |-> {}]
  /\ changes = 0
  /\ MetricsInit

----------------------------------------------------------------------------
(* The cluster (external): what users, kubelet and controllers do to pods *)

ChangeAPI(p, new) ==
  /\ changes < MaxChanges
  /\ changes' = changes + 1
  /\ api' = [api EXCEPT ![p] = new]
  /\ UNCHANGED <<metricsVars, queueVars, workVars, metaView, podCache>>

CreatePod(p) ==
  /\ api[p] = Absent
  /\ \E s \in Specs, a \in Annotations :
       ChangeAPI(p, [spec |-> s, annotations |-> a, status |-> {},
                     deleting |-> FALSE])

UpdateAnnotations(p) ==
  /\ api[p] # Absent
  /\ \E a \in Annotations \ {api[p].annotations} :
       ChangeAPI(p, [api[p] EXCEPT !.annotations = a])

\* A pod's containers are fixed, their images are not.
UpdateImage(p) ==
  /\ api[p] # Absent
  /\ \E s \in Specs \ {api[p].spec} :
       /\ DOMAIN s = DOMAIN api[p].spec
       /\ ChangeAPI(p, [api[p] EXCEPT !.spec = s])

ContainerStarts(p) ==
  /\ api[p] # Absent
  /\ \E c \in DOMAIN api[p].spec \ api[p].status :
       ChangeAPI(p, [api[p] EXCEPT !.status = @ \cup {c}])

SetDeleting(p) ==
  /\ api[p] # Absent
  /\ ~ api[p].deleting
  /\ ChangeAPI(p, [api[p] EXCEPT !.deleting = TRUE])

\* At the end of graceful deletion, or at once when it is forced.
DeletePod(p) ==
  /\ api[p] # Absent
  /\ ChangeAPI(p, Absent)

Cluster(p) ==
  \/ CreatePod(p)
  \/ UpdateAnnotations(p)
  \/ UpdateImage(p)
  \/ ContainerStarts(p)
  \/ SetDeleting(p)
  \/ DeletePod(p)

----------------------------------------------------------------------------
(* The process *)

\* External: the process ends, for a rollout, an eviction, an error of the
\* manager or a fatal error of the Go runtime, and another one starts.  What
\* it knew is gone: metrics, queue and workers.  The typed informer lists
\* the pods before a worker runs, the metadata informer announces them again.
Restart ==
  /\ changes < MaxChanges
  /\ changes' = changes + 1
  /\ containerImageVersion' = {}
  /\ containerImageChecked' = {}
  /\ containerImageDuration' = {}
  /\ containerImageErrors' = {}
  /\ podCache' = api
  /\ metaView' = [p \in Pods |-> Absent]
  /\ dirty' = {}
  /\ delayed' = {}
  /\ pc' = [p \in Pods |-> "idle"]
  /\ pod' = [p \in Pods |-> Absent]
  /\ todo' = [p \in Pods |-> {}]
  /\ UNCHANGED api

----------------------------------------------------------------------------
(* The informers.  A store jumps to the present state of a pod: a relist  *)
(* may leave out what was in between.                                      *)

\* External: the typed informer's store follows the API server.
PodCacheSync(p) ==
  /\ podCache[p] # api[p]
  /\ podCache' = [podCache EXCEPT ![p] = api[p]]
  /\ UNCHANGED <<metricsVars, queueVars, workVars, api, metaView, changes>>

MetaSync(p) ==
  /\ metaView' = [metaView EXCEPT ![p] = api[p]]
  /\ UNCHANGED <<workVars, api, podCache, changes, delayed>>

\* CreateFunc: always enqueued.
OnCreate(p) ==
  /\ metaView[p] = Absent /\ api[p] # Absent
  /\ MetaSync(p)
  /\ dirty' = dirty \cup {p}
  /\ UNCHANGED metricsVars

annotationsEqual(a, b) == a = b

\* UpdateFunc: forgets the pod when its annotations differ, then enqueues it.
OnUpdate(p) ==
  /\ metaView[p] # Absent /\ api[p] # Absent /\ metaView[p] # api[p]
  /\ MetaSync(p)
  /\ dirty' = dirty \cup {p}
  /\ IF annotationsEqual(metaView[p].annotations, api[p].annotations)
     THEN UNCHANGED metricsVars
     ELSE RemovePod(p)

\* DeleteFunc: forgets the pod, enqueues nothing.
OnDelete(p) ==
  /\ metaView[p] # Absent /\ api[p] = Absent
  /\ MetaSync(p)
  /\ RemovePod(p)
  /\ UNCHANGED dirty

\* Mutant: an update from an object to itself is filtered out.
OnResync_Filtered(p) ==
  /\ metaView[p] # Absent
  /\ UNCHANGED vars

\* Every cache-sync-period the informer replays its store as updates from an
\* object to itself: the annotations are equal, the key is enqueued.
OnResync(p) ==
  /\ metaView[p] # Absent
  /\ dirty' = dirty \cup {p}
  /\ UNCHANGED <<metricsVars, workVars, viewVars, delayed>>

\* A key added with AddAfter or AddRateLimited comes due.
TimerFires(p) ==
  /\ p \in delayed
  /\ delayed' = delayed \ {p}
  /\ dirty' = dirty \cup {p}
  /\ UNCHANGED <<metricsVars, workVars, viewVars>>

Informers(p) ==
  \/ PodCacheSync(p)
  \/ OnCreate(p)
  \/ OnUpdate(p)
  \/ OnDelete(p)
  \/ OnResync(p)
  \/ TimerFires(p)

----------------------------------------------------------------------------
(* Reconcile *)

Processing == {p \in Pods : pc[p] # "idle"}

Dequeue(p) ==
  /\ p \in dirty
  /\ pc[p] = "idle"
  /\ Cardinality(Processing) < NumWorkers
  /\ dirty' = dirty \ {p}
  /\ pc' = [pc EXCEPT ![p] = "get"]
  /\ UNCHANGED <<metricsVars, viewVars, delayed, pod, todo>>

\* Mutant: NotFound is not told from success.
GetPod_NotFoundIgnored(p) ==
  /\ pc[p] = "get"
  /\ pc' = [pc EXCEPT ![p] = "sync"]
  /\ pod' = [pod EXCEPT ![p] = podCache[p]]
  /\ todo' = [todo EXCEPT ![p] = IF podCache[p] = Absent THEN {}
                                 ELSE DOMAIN podCache[p].spec]
  /\ UNCHANGED <<metricsVars, queueVars, viewVars>>

\* r.Get reads the typed informer's store.
GetPod(p) ==
  /\ pc[p] = "get"
  /\ IF podCache[p] = Absent
     THEN /\ pc' = [pc EXCEPT ![p] = "notfound"]
          /\ UNCHANGED <<pod, todo>>
     ELSE /\ pc' = [pc EXCEPT ![p] = "sync"]
          /\ pod' = [pod EXCEPT ![p] = podCache[p]]
          /\ todo' = [todo EXCEPT ![p] = DOMAIN podCache[p].spec]
  /\ UNCHANGED <<metricsVars, queueVars, viewVars>>

\* The worker lets go of the key; what became dirty meanwhile stays dirty.
EndReconcile(p) ==
  /\ pc' = [pc EXCEPT ![p] = "idle"]
  /\ pod' = [pod EXCEPT ![p] = Absent]
  /\ todo' = [todo EXCEPT ![p] = {}]

\* The key comes back after RequeueDuration, its half, or the back-off.
Requeue(p) == delayed' = delayed \cup {p} /\ UNCHANGED dirty

\* r.Get fails with another error than NotFound: rate-limited retry.
GetError(p) ==
  /\ pc[p] = "get"
  /\ EndReconcile(p)
  /\ Requeue(p)
  /\ UNCHANGED <<metricsVars, viewVars>>

\* Mutant: the pod that was not found keeps its metrics.
RemoveNotFound_Kept(p) ==
  /\ pc[p] = "notfound"
  /\ EndReconcile(p)
  /\ UNCHANGED <<metricsVars, queueVars, viewVars>>

\* The pod was not found: it is forgotten and not requeued.
RemoveNotFound(p) ==
  /\ pc[p] = "notfound"
  /\ RemovePod(p)
  /\ EndReconcile(p)
  /\ UNCHANGED <<queueVars, viewVars>>

\* Mutant: the next check is not scheduled.
FinishReconcile_NoRequeue(p) ==
  /\ pc[p] = "sync"
  /\ todo[p] = {}
  /\ EndReconcile(p)
  /\ UNCHANGED <<metricsVars, queueVars, viewVars>>

\* sync has visited every container, with or without errors.
FinishReconcile(p) ==
  /\ pc[p] = "sync"
  /\ todo[p] = {}
  /\ EndReconcile(p)
  /\ Requeue(p)
  /\ UNCHANGED <<metricsVars, viewVars>>

----------------------------------------------------------------------------
(* syncContainer and checkContainer, for the container whose turn it is *)

First(p, c) == c \in todo[p] /\ \A d \in todo[p] : c <= d

Turn(p, c) == pc[p] = "sync" /\ First(p, c)

ModeOf(p, c) == Mode[pod[p].annotations][c]

\* The URL the check is about: the override, else the image's own.
CheckedURL(rec, c) ==
  IF OverrideURL[rec.annotations][c] # Absent
  THEN OverrideURL[rec.annotations][c]
  ELSE ImageURL[rec.spec[c]]

\* syncContainer returns before the check.
SkipContainer(p, c) ==
  /\ todo' = [todo EXCEPT ![p] = @ \ {c}]
  /\ UNCHANGED <<queueVars, viewVars, pc, pod>>

\* Mutant: a disabled container is left as it is.
SyncDisabled_Kept(p, c) ==
  /\ Turn(p, c)
  /\ ModeOf(p, c) = "disabled"
  /\ SkipContainer(p, c)
  /\ UNCHANGED metricsVars

SyncDisabled(p, c) ==
  /\ Turn(p, c)
  /\ ModeOf(p, c) = "disabled"
  /\ RemoveImage(p, c)
  /\ SkipContainer(p, c)

SyncInvalid(p, c) ==
  /\ Turn(p, c)
  /\ ModeOf(p, c) = "invalid"
  /\ SkipContainer(p, c)
  /\ UNCHANGED metricsVars

\* The container is enabled, and its status names the image it runs.
Checked(p, c) ==
  /\ Turn(p, c)
  /\ ModeOf(p, c) \in {"enabled", "panics"}
  /\ c \in pod[p].status

\* checkContainer goes on to its deferred RegisterImageDuration.
AfterCheck(p, next) ==
  /\ pc' = [pc EXCEPT ![p] = next]
  /\ UNCHANGED <<queueVars, viewVars, pod, todo>>

\* No status yet: Container returns a nil result.
SyncNotReady(p, c) ==
  /\ Turn(p, c)
  /\ ModeOf(p, c) \in {"enabled", "panics"}
  /\ c \notin pod[p].status
  /\ AfterCheck(p, "duration")
  /\ UNCHANGED metricsVars

\* The check reports some versions of the image (ImageLookup says which).
SyncResult(p, c) ==
  /\ Checked(p, c)
  /\ ModeOf(p, c) = "enabled"
  /\ \E ver \in Versions : AddImage(p, c, CheckedURL(pod[p], c), ver)
  /\ AfterCheck(p, "duration")

\* Mutant: a failed check takes the last verdict away.
SyncError_Removes(p, c) ==
  /\ Checked(p, c)
  /\ ModeOf(p, c) = "enabled"
  /\ RemoveImage(p, c)
  /\ AfterCheck(p, "duration")

\* The check fails: no registry, no tags, no suitable version.
SyncError(p, c) ==
  /\ Checked(p, c)
  /\ ModeOf(p, c) = "enabled"
  /\ ReportError(p, c, pod[p].spec[c])
  /\ AfterCheck(p, "duration")

\* Container dereferences the nil OverrideURL.
SyncPanic(p, c) ==
  /\ Checked(p, c)
  /\ ModeOf(p, c) = "panics"
  /\ AfterCheck(p, "unwind")
  /\ UNCHANGED metricsVars

\* The deferred call, on every way out of checkContainer.
RegisterDuration(p, c) ==
  /\ pc[p] = "duration"
  /\ First(p, c)
  /\ RegisterImageDuration(p, c, pod[p].spec[c])
  /\ pc' = [pc EXCEPT ![p] = "sync"]
  /\ todo' = [todo EXCEPT ![p] = @ \ {c}]
  /\ UNCHANGED <<queueVars, viewVars, pod>>

\* The panic runs the deferred call too; controller-runtime recovers it and
\* requeues the key as after an error.
Unwind(p, c) ==
  /\ pc[p] = "unwind"
  /\ First(p, c)
  /\ RegisterImageDuration(p, c, pod[p].spec[c])
  /\ EndReconcile(p)
  /\ Requeue(p)
  /\ UNCHANGED viewVars

SyncContainer(p, c) ==
  \/ SyncDisabled(p, c)
  \/ SyncInvalid(p, c)
  \/ SyncNotReady(p, c)
  \/ SyncResult(p, c)
  \/ SyncError(p, c)
  \/ SyncPanic(p, c)
  \/ RegisterDuration(p, c)
  \/ Unwind(p, c)

Reconcile(p) ==
  \/ GetPod(p)
  \/ GetError(p)
  \/ RemoveNotFound(p)
  \/ \E c \in Containers : SyncContainer(p, c)
  \/ FinishReconcile(p)

----------------------------------------------------------------------------
Next ==
  \/ Restart
  \/ \E p \in Pods : Cluster(p) \/ Informers(p) \/ Dequeue(p) \/ Reconcile(p)

Spec == Init /\ [][Next]_vars

\* Informers deliver, delayed keys come due, the resync period elapses, a
\* started reconciliation goes on.  The queue is first in first out, so a
\* waiting key gets one of the workers that keep becoming free.  Lookups of
\* an image do not fail for ever, and neither do reads of the pod cache.
Fairness ==
  \A p \in Pods :
    /\ WF_vars(PodCacheSync(p))
    /\ WF_vars(OnCreate(p) \/ OnUpdate(p) \/ OnDelete(p))
    /\ WF_vars(OnResync(p))
    /\ WF_vars(TimerFires(p))
    /\ SF_vars(Dequeue(p))
    /\ WF_vars(Reconcile(p))
    /\ SF_vars(GetPod(p))
    /\ \A c \in Containers : SF_vars(SyncResult(p, c))

FairSpec == Spec /\ Fairness
----------------------------------------------------------------------------
(* Safety *)

VariablesOK ==
  /\ MetricsTypeOK
  /\ api \in [Pods -> PodRecord \cup {Absent}]
  /\ podCache \in [Pods -> PodRecord \cup {Absent}]
  /\ metaView \in [Pods -> PodRecord \cup {Absent}]
  /\ dirty \subseteq Pods
  /\ delayed \subseteq Pods
  /\ pc \in [Pods -> PCs]
  /\ pod \in [Pods -> PodRecord \cup {Absent}]
  /\ todo \in [Pods -> SUBSET Containers]
  /\ changes \in 0 .. MaxChanges

WorkOK ==
  \A p \in Pods :
    /\ pc[p] \in {"sync", "duration", "unwind"} =>
         pod[p] # Absent /\ todo[p] \subseteq DOMAIN pod[p].spec
    /\ pc[p] \in {"duration", "unwind"} => todo[p] # {}

\* The variables have their types; a reconciliation that visits containers
\* has a pod and visits only that pod's containers, and one that registers a
\* duration has a container to register it for.
TypeOK == VariablesOK /\ WorkOK

\* AddImage, RemoveImage and RemovePod keep the two vectors that carry a
\* verdict in step, whatever the order in which workers and event handlers
\* call them: a container has at most one version series, however often its
\* image, its URL or its versions changed, and exactly then a last-checked
\* series, with the same image.
SeriesAgree ==
  /\ \A s, t \in containerImageVersion :
       s.pod = t.pod /\ s.container = t.container => s = t
  /\ containerImageChecked =
       {buildLastUpdatedLabels(s.pod, s.container, s.image) :
          s \in containerImageVersion}

\* Whatever handlers and workers did, a pod that any vector has a series of
\* is one that the controller will look at again: its key is queued, waits
\* for its requeue time, or is being reconciled.  Otherwise the series of a
\* pod deleted during its reconciliation would stay for ever: DeleteFunc
\* enqueues nothing, and Reconcile does not requeue a pod it did not find.
Tracked ==
  \A p \in Pods : HasSeries(p) => p \in dirty \cup delayed \cup Processing

\* If the step takes a verdict away, it is one that may.
LossJustified ==
  \A p \in Pods, c \in Containers :
    HasVerdict(p, c) /\ ~ HasVerdict(p, c)' =>
      \/ Restart
      \/ metaView'[p] # metaView[p]
      \/ pc[p] = "notfound"
      \/ Turn(p, c) /\ ModeOf(p, c) = "disabled"

\* A verdict is taken away only by what concerns its own pod: an event that
\* changed or deleted the pod, a reconciliation that did not find it, or one
\* that found the container disabled; or it is lost with the whole process.
\* Failing lookups, other containers and other pods leave it alone.
VerdictKept == [][LossJustified]_vars

----------------------------------------------------------------------------
(* Liveness *)

\* Once a pod is gone for good, every metric of it disappears, also when
\* its last reconciliation reported after the delete event was handled.
DeletedForgotten ==
  \A p \in Pods : <>[](api[p] = Absent) => <>[](~ HasSeries(p))

\* The pod p exists for good with container c in mode m.
Settled(p, c, m) ==
  /\ api[p] # Absent
  /\ c \in DOMAIN api[p].spec
  /\ Mode[api[p].annotations][c] = m

\* Container c, in mode m, runs for good and no check of a container of its
\* pod panics.
Runs(p, c, m) ==
  /\ Settled(p, c, m)
  /\ c \in api[p].status
  /\ \A d \in DOMAIN api[p].spec : Mode[api[p].annotations][d] # "panics"

\* A container that is enabled and runs gets a verdict and keeps it,
\* although a Create event may be handled before the typed informer has the
\* pod, which ends in a reconciliation that is not requeued, and although
\* the process may be restarted at any step.
EnabledReported ==
  \A p \in Pods, c \in Containers :
    <>[]Runs(p, c, "enabled") => <>[]HasVerdict(p, c)

\* A container that is disabled for good loses its verdict, although a
\* reconciliation under way, or one that reads a stale pod cache, may have
\* added it after UpdateFunc removed the pod's metrics.
DisabledForgotten ==
  \A p \in Pods, c \in Containers :
    <>[]Settled(p, c, "disabled") => <>[](~ HasVerdict(p, c))

\* A verdict ends up being about the image that the container has now.
VerdictCurrent ==
  \A p \in Pods, c \in Containers :
    <>[]Runs(p, c, "enabled") =>
      <>[](api[p] # Absent /\ c \in DOMAIN api[p].spec =>
             \A s \in containerImageVersion :
               s.pod = p /\ s.container = c =>
                 s.image = CheckedURL(api[p], c))
=============================================================================
