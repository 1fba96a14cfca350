# version-checker, specified

TLA+ specifications of [version-checker](../src), the controller that compares
the images of running containers, and the version of the cluster, with the
latest ones upstream and exposes the verdicts as Prometheus metrics.  The
modules are translated from the Go source; `PROJECT.json` gives, for every
definition, the lines it models.

## 1. The system

### Parts, their state and operations

| part (source) | state | operations | correct when |
|---|---|---|---|
| pod controller (`pkg/controller/pod_controller.go`, `pod_sync.go`) | work queue and delayed keys (controller-runtime), one reconciliation per key | event predicates Create/Update/Delete, `Reconcile`, `sync`, `syncContainer`, `checkContainer` | metrics converge to the pods; no series is orphaned; a failing lookup costs no verdict |
| container metrics (`pkg/metrics/metrics.go`, `helpers.go`) | four vectors of series, one mutex, the pod cache | `AddImage`, `RemoveImage`, `RemovePod`, `RegisterImageDuration`, `ReportError` | one version series per container, in step with its last-checked series |
| options builder (`pkg/controller/options`) | options, errors so far | eight handlers, `IsEnabled` | options are what the container's own annotations say, or an error |
| checker (`pkg/controller/checker`) | none | `Container`, resolution of a digest, comparison by version and by SHA | a verdict follows from the tags the registry returned |
| search cache (`pkg/controller/search`), version getter and image cache (`pkg/version`), generic cache (`pkg/cache`) | two caches, one with pointers into the lists of the other | `LatestImage`, `ResolveSHAToTag`, `LatestTagFromImage`, `Fetch`, `Get` | right image, bounded age, new tags get through |
| tag selection and semver (`pkg/version/helpers.go`, `filters.go`, `semver/`) | position and best tag | `latestSemver`, `latestSHA`, filters, `LessThan` | independent of the registry's order |
| cluster version (`pkg/controller/kube_controller.go`, `pkg/metrics/kubernetes.go`) | ticker, gauge | `Start`, `runScheduler`, `reconcile` | the present pair is reported in the end, no pair is made up |
| registry dispatch (`pkg/client/client.go`, `*/path.go`) and fallback client (`pkg/client/fallback`) | cache host -> client | `Tags`, `fromImageURL`, `RepoImageFromPath` | the URL's image is asked for; a working client is found |
| quay client (`pkg/client/quay`) | pager: tags, errors, wait group, semaphores | `fetchTags`, `fetchTagsPaged`, one goroutine per tag | every tag once; the lookup ends |
| ACR client (`pkg/client/acr`) | token cache, one mutex | `Tags`, `getACRClient` | a token goes to its own host only, and no lookup waits for ever |
| OCI client (`pkg/client/oci`) | wait group, semaphore, mutex of a lookup | `Tags`, `Manifests`, one goroutine per tag | a failing tag costs only itself |
| docker, ECR, GCR and ghcr clients (`pkg/client/docker`, `ecr`, `gcr`, `ghcr`) | the page a lookup is at; ghcr: types of owners | `Tags` | every page once; the loop ends |
| self-hosted client (`pkg/client/selfhosted`), `util.BuildTags` | entries by tag | `Tags`, two requests per tag | a digest stays with its tag |
| `ImageClient` (`pkg/api/types.go`) | | `Tags` | all clients keep one promise |
| HTTP helpers, wiring, logging | see section 7 | | |

### How they interact

Two informers follow the API server.  The metadata informer's events run the
predicates of `SetupWithManager`, which remove metrics and fill the work queue.
The typed informer's store is what `Reconcile` reads, and what the metrics ask
(`PodExists`) before they register a duration or a failure.  A worker that has
a pod visits its containers one by one: options builder, then checker, then
search cache, image cache, registry client, and back to the metrics.  Workers
share the caches, the tag lists behind the pointers of the search cache, the
registry clients and the metrics.  The cluster-version scheduler runs beside
all that and shares only the process: its first failure ends it.

### What is hard about it

Event handlers change metrics in the middle of a reconciliation of the same
pod; the two informers are at different points; `Get` of the caches is
check-then-act; the checker writes to a tag inside a cached list; two caches
with one timeout are filled one from the other; a client in the fallback's
cache stops working; goroutines of several pages of one quay lookup overlap and
outlive a lookup that fails; a refused request is read as an empty page; a
mutex is held during an HTTP exchange; the scheduler and `Start` reconcile at
the same time; the process ends at any moment and keeps nothing.  `PROJECT.json` lists these hazards at their lines, each with
the properties that would catch it going wrong.

## 2. Modules

| module | models | remarks |
|---|---|---|
| `Metrics` | `pkg/metrics` | A vector is the set of its series, a series the record of its labels, so that `DeletePartialMatch` is modelled by what it does: a label the vector does not have matches nothing.  Each operation holds the mutex throughout and is one action.  Gauge values are left out. |
| `PodController` (extends `Metrics`) | `pod_controller.go`, `pod_sync.go`, the early returns of the checker | `pc[p]` is where the reconciliation of key `p` stands: `get`, `notfound`, `sync`, `duration`, `unwind`.  `dirty` and `delayed` are the queue.  A mode per container stands for what its annotations amount to (`OptionsBuilder` models how they come about); "panics" is the mode in which the checker dereferences a nil override.  Result and error of a lookup are a choice (`VersionChecker` says which).  `Restart` ends the process at any moment: queue, timers, reconciliations and metrics go, the informers list all pods again. |
| `ImageLookup` | checker's comparison, `search`, `version`, `cache` | Tag lists are objects on a heap and the search cache holds pointers into them; `AppendSHA` writes through such a pointer.  A tag has a name, which parses to a number; several names may parse to the same one, and `Equal` compares names, as the code does.  A digest of an entry may be `""`, not known.  A resolution looks for the digest of the image's reference, which may be `""` too; comparisons use the digest of the container's status.  `Get` is a lookup and a later commit.  Ages are counted in ticks. |
| `VersionChecker` (extends `PodController`, instantiates `ImageLookup`) | the composition | A worker of `ImageLookup` is the reconciliation of a pod.  `StartCheck` hands it the container's image, `CheckStep` takes the steps of the check, `CheckReports` and `CheckFails` are its ends, which are at the same time the steps `SyncResult` and `SyncError` of `PodController`.  Containers have options of their own and share the lists of a URL.  A result is the two version labels and the verdict; digests that the code puts behind an `@` are left out of the labels.  A restart takes both caches with it. |
| `Selection` | `latestSemver`, `latestSHA`, filters, the semver order | One iteration of the loop per step.  Parsing is a table from names to numbers and words. |
| `OptionsBuilder` | `options.go`, `annotations.go` | One handler per step, in the order of the code, errors collected. |
| `KubeController` | `kube_controller.go`, `metrics/kubernetes.go` | Two runners, each reading the cluster's version and then the channel's.  Failure of `Start` stops the process, which comes back with an empty gauge. |
| `RegistryClient` | `client.go`, all `path.go`, `fallback.go` | A URL is the sequence of its parts.  `answers` says which anonymous clients a host answers, and changes. |
| `TagsCall` | the state of one call of `Tags` | What the clients' modules share: the repository's pages, the list of entries (how many for a tag, matching which digests), goroutines, semaphores, wait group. |
| `QuayPager` | `quay.go`, `pager.go` | One process per tag; a semaphore per page; wait group; `p.errs`. |
| `OciClient` | `oci.go` | All names first, then one process per tag; one semaphore. |
| `PagedClients` | `docker.go`, `ecr.go`, `gcr.go`, `ghcr.go`, the conversion in `acr.go` | docker, ECR and ghcr take one page after the other, GCR and ACR the first one only.  Each client's action says what it makes of a page: docker's entries, and those of their platforms, may come without a digest, ghcr's too, and ghcr passes over versions without metadata.  Manifests without a tag are not tags here (`Selection` has the nameless entries). |
| `SelfhostedClient` | `selfhosted.go`, `util.BuildTags` | Two requests per tag; `BuildTags` is modelled by the digests that the root and the children it makes have in the end. |
| `TagsPromise` | `ImageClient.Tags` | The abstract specification: one return, an error or every tag but the missed ones. |
| `RegistryTags` | a call of `Tags` with any client | Instantiates the four client modules and, under a refinement mapping, `TagsPromise`. |
| `AcrToken` | `acr.go`, `auth.go` | `cacheMu`, the map of clients, token lifetimes in ticks. |
| `VersionCheckerProofs` | | theorems about `PodController` and about the composition, section 6 |
| `ImageLookupProofs`, `SelectionProofs`, `KubeControllerProofs`, `OptionsBuilderProofs`, `RegistryClientProofs`, `RegistryTagsProofs`, `AcrTokenProofs` | | theorems about the module each is named after |
| `MC...` | | values of constants for TLC |

API server, kubelet, informers' transport, registries, go-cache's expiry and
the clock are external: they are modelled as far as the code depends on them
and marked so in the map.

`PodController` keeps the order of the code inside a step.  `OnUpdate`, for
instance, is the whole of `UpdateFunc`: the informer's store moves, the pod's
metrics go if the annotations differ, the key is enqueued.  `Reconcile` is cut
where another goroutine can get in: after `Get`, before the deferred duration,
between containers.

## 3. Runs

| run | instance | checks | distinct states |
|---|---|---|---|
| `pod_safety` | 1 pod, init container and container, 2 images, 5 annotation maps, 2 changes | `TypeOK`, `SeriesAgree`, `Tracked`, `VerdictKept` | 4.2 M |
| `pod_liveness` | 1 pod, 1 container, 3 annotation maps, 2 changes, fair | `DeletedForgotten`, `EnabledReported`, `DisabledForgotten`, `VerdictCurrent` | 61 k |
| `lookup` | 2 workers, 5 deployments: one URL by version and pinned, by version and by SHA, a digest to resolve next to a version, a tag with resolution, two URLs; a version under two names, an entry without a digest of its own | `TypeOK`, `RightImage`, `StalenessBound`, `OutdatedJustified`, `LatestJustified` | 2.5 M |
| `lookup_repushed` | 2 workers, 2 versions, tag pushed again | `RepushedNotLatest`, **violated** | |
| `controller` | 1 pod; 1 container with an override URL that comes or goes, 1 change or restart, or failures; or 2 containers with different options on one URL; 2 tag lists, fair | `ReportedOfURL`, `ImplementsPodController`, `Fresh` | 68 k |
| `selection` | every list of up to 3 tags over 9 names and 2 timestamps, 8 option records | `TypeOK`, `FoundIfAny`, `StableWins`, `YoungestWins` | 244 k |
| `kube` | 4 versions, one a vendor's build, 2 changes, fair | `TypeOK`, `PairsReal`, `KubeReported` | 57 k |
| `client` | 2 workers, 13 URLs of every kind, 3 fallback clients, 2 changes | `TypeOK`, `AnswersIfAny`, `AskedDirectly` | 976 k |
| `options` | all combinations of annotations of a container, two siblings | `TypeOK`, `OptionsConsistent`, `AnnotationsHonoured` | 1.1 M |
| `registries` | each of 8 clients, three pages, quay's limit 3, 2 permits, fair | `TypeOK`, `EveryTagOnce`, `DigestsKept`, `LookupEnds`, `ImplementsPromise` | 114 k |
| `acr` | 2 workers, 2 hosts, 2 lifetimes, fair | `TypeOK`, `TokenOfHost`, `LookupEnds` | 2.5 k |
| `acr_expiry` | 1 worker, 1 host | `NotReusedAfterExpiry`, **violated** | |

Every property is stated in words above its definition.  Operators marked
"Mutant" in the modules are plausible bugs; substituting one for the definition
that follows it makes TLC find the property violated that `PROJECT.json` pairs
it with.

### Why the bounds are enough

*Pods.*  The safety properties are about one pod at a time and its relation to
its own events; two containers are needed for label sets that tell containers
apart, two changes for a change during a reconciliation that an earlier change
caused.  Independence of several pods is what the theorems add.  For liveness
two changes give create-then-start, disable-then-enable and delete-then-create,
and a restart before or after either.
*Lookups.*  Two workers suffice for every race in the code, which are all
pairwise (miss and miss, append and read).  With a timeout of one tick, a list
can be served by the image cache at age one and its pointer by the search cache
one tick later, which is the worst case.  Ages above `2 * CacheTimeout + 1` are
one.  Five list addresses (four in the other instances) are as many as the
workers and the entries of an instance occupy at once, give or take one; an
answer that finds none free waits, as if the registry were slow.
*Selection.*  Three tags make every relative order of a better tag, a worse one
and one that is skipped; the theorem covers any length.
*Composition.*  The parts are checked alone in larger instances; here the run
has two sorts of pods.  One container, whose check spans changes of the pod, of
the registry and of time, is what the step from a check to one action of the
controller needs, and a mirror with other versions makes a report about the
wrong URL visible; its pod changes or the process restarts once, or lookups
fail.  It is not enough for `Fresh`: what keeps a tag from the metrics of a
container may be the check of another one, with other options, that marked it in
the list they share.  So there is also a pod with two containers of one URL, the
first for any version, the second pinned: the first is to find 2.0 where the
second stays at 1.1, and both dispute the list in which 1.1 was pushed again.
Such a pod runs from the start, does not change, and its lookups do not fail.
The state constraint `Bounded` says which is which, and that no pod is being
deleted (`pod_safety` and `pod_liveness` have that).  It only leaves out changes
of pods, restarts and failing lookups, none of which has to happen, so no state
is cut off from going on fairly.  Checks by SHA that share a list with checks by
version are in `lookup`.  Several pods are in no run of the
composition; that an event of one takes nothing from another is `VerdictsKept`.
The registry may change back and forth for ever; `Fresh` is about the behaviours
in which it stops.
*Registries.*  Two permits and a page of more tags make a goroutine wait; three
pages make a first, a middle and a last one; the page at quay's limit must not
be asked for.  The code's limit is 60 and its permits 10.  One tag has
platforms, the others have not.

`CHECK_DEADLOCK FALSE` appears where the modelled thing ends (a selection, a
call of `Options`, a call of `Tags`) or where the bound on changes of the cluster
lets the controller come to rest.

### Fairness

* `PodController`: informers deliver, the resync period elapses, delayed keys
  come due, a started reconciliation goes on (WF).  The queue is first in,
  first out, so a waiting key gets a worker that keeps becoming free (SF on
  `Dequeue`).  Reads of the cache and lookups of an image do not fail every
  time (SF on `GetPod`, `SyncResult`); without this `EnabledReported` is false
  for the trivial reason that the registry is down.
* `KubeController`: the ticker ticks, the process is restarted (its Deployment
  says so), and neither the API server nor the release server fails every time.
* `VersionChecker`: as `PodController`, with the steps of a check in the place
  of its one step (WF); time passes (SF on `Tick`, which waits for checks that
  are between requests); a registry that is asked again and again for the same
  container answers (SF on `Fetch` in that container's turn; were it per pod,
  one container's answers would make up for another that never gets any).
* `RegistryTags`: some goroutine of the lookup runs as long as one can (WF on
  `Next`); a lookup has finitely many steps, so no goroutine needs fairness of
  its own.  Requests end, in an answer or an error: the clients retry a bounded
  number of times, but not all set a timeout, so that a connection ends is
  assumed of the network, not shown of the code.  No request is assumed to
  succeed.
* `AcrToken`: requests end, assumed in the same way; a Go mutex hands itself to
  a waiter that starves, hence SF on `Lock`.

## 4. What the runs show

* The pod controller converges.  What makes it so is not the event handlers,
  which lose races against reconciliations in several ways, but the requeue and
  the resync: `Tracked` is the reason, and dropping the requeue or filtering
  resync events breaks `Tracked` or `EnabledReported`.
* Staleness is bounded by two cache timeouts, not one.  With a timeout of 0
  nothing expires (`Expire`) and there is no bound.
* A verdict "outdated" is right about the list as the registry returned it,
  whatever checks have done to it since, but for two kinds of image: one whose
  reference has no digest and which a resolution took for another tag
  (`Mistaken`), and one whose digest was resolved to a tag that a check had
  extended.
* A verdict "latest" is right as long as no check has changed a tag of the list
  (`lookup_repushed`), no resolution has mistaken the image, and the list has no
  other name for its version; if it has one, nothing in the list is newer, but
  the digest may not have been compared (`Aliased`).
* The result of a selection is independent of the registry's order among plain
  versions.
* The fallback's cache of hosts is safe although it is check-then-act.
* `PodController` is right to take a check for one step: `VersionChecker`, in
  which a check takes a dozen, implements it (`ImplementsPodController`).
* New tags reach the metrics of every container, whatever other options its
  URL is checked with (`Fresh`), provided that in the end none of the URL's
  containers is disputed, that is runs with another digest than the tag of its
  name, or is resolved.  While one is, its check marks that tag in each new
  list, and a container with other options may be told an older one for as long
  (without that premise, `Undisputed`, TLC finds it happen in the run's second
  sort of pod).  `Fresh` also rests on a hit not renewing an entry of a
  cache: with a timeout that hits push back, a container that is checked more
  often than the timeout keeps its first verdict for ever.
* The eight clients keep one promise (`ImplementsPromise`): a list has all that
  is asked for but for requests that did not succeed and, with ghcr, versions
  without metadata, and nothing touches it once it is returned, although quay
  leaves goroutines behind when a page fails.  What is asked for is not
  everything: ACR, GCR and the self-hosted client ask for one page.
* A digest stays with its tag (`DigestsKept`): an entry never matches another
  tag's.  That it matches one at all holds for ACR, ECR, GCR and quay only.
* A registry's client is asked for the path of the URL, but for names of more
  than two parts with docker, which Docker Hub does not have, and with a
  self-hosted registry, which may have them: of such a name the last two parts
  are asked for, which is another repository.

### Findings

1. `lookup_repushed`: `isLatestSemver` appends `@SHA` to the cached tag.  The
   next check parses that tag as one with metadata, hence neither equal to nor
   greater than the running version, and reports a re-pushed image as latest,
   against the comment at `checker.go:148`.
2. `acr_expiry`: `getACRClient` reuses the cached client if `time.Now().After(
   tokenExpiry)`, that is only once the token has expired, against the comment
   at `auth.go:122`.

### Divergences the models contain but no run is kept for

Modelling met other disagreements of code and comment.  The models do what the
code does; each can be seen in the definition named.

* `RemoveImage` passes a label set with `container_type` to two vectors without
  that label and removes nothing there (`ContainerMismatch` in
  `VersionCheckerProofs`): a disabled container may keep its lookup duration and
  failure count for the life of its pod.
* `resolve-sha-to-tags` without `override-url` dereferences nil
  (`checker.go:49`, `SyncPanic`): the pod's reconciliation panics every time.
* `Equal` compares the tags' strings (`semver.go:113`, `Equal` in
  `ImageLookup`).  If the list has `v1.1` in front of `1.1`, an image `1.1` is
  neither equal to nor less than the tag that is found, its digest is not
  compared, and it is latest although 1.1 was pushed again, against the comment
  at `checker.go:148`.
* A tag extended by `@SHA` has metadata, so searches with other options pass it
  over (`filters.go:28`, `shouldSkipTag`) and find an older tag, against the
  comment at `version.go:40`.
* `Container` resolves the digest of the reference also if there is none
  (`checker.go:52`, `Match`).  The first entry with an unknown digest matches
  `""`, and a tag that was given is replaced by that entry's, although
  `docs/installation.md:83` speaks of images specified by digest.
* A digest may be resolved to a tag extended by `@SHA` (`version.go:88`,
  `Match`), which is no valid semver tag as `docs/installation.md:83` has it:
  the image is then less than every plain tag, and is called outdated.
* Of a path of more than two parts the self-hosted client asks for the last two
  (`selfhosted/path.go:31`, `selfhostedRepoImage`; `path_test.go:120` expects
  it), which is another repository than that of the image URL that the comment
  at `client.go:124` promises the tags of.  So does the docker client, whose
  registry has no such names.
* A pod deleted and re-created under its name with fewer containers, during a
  reconciliation, keeps the verdict of the container that is gone (`SyncResult`
  after `OnDelete`).
* `AddImage` does not ask `PodExists`, unlike the other registrations.
* `LessThan` goes on to the metadata when the numbers already say "greater", so
  1.1.0-beta.1 is taken over 1.2.0-alpha.1 (`LessThan` in `Selection`);
  `StableWins` is therefore about plain versions.
* `RegisterKubeVersion` deletes no old pair.
* The fallback client's `RepoImageFromPath` returns empty repo and image
  (`fallbackRepoImage`), so for hosts that no client claims the URL's image is
  not what is asked for.
* The docker, GCR and quay clients do not look at the status of a response
  (`PageRefused`): a refusal ends the list early, and the caller is not told.
* The OCI client logs and drops a tag it cannot get (`ManifestError`).
* The ACR, the GCR and the self-hosted client ask for one page only (`acrPage`,
  `gcrPage`, `Asked`); what the registry leaves for a next one is lost.
* The children that the self-hosted client gives an entry are all the same
  variable (`BuildTags`): of a manifest list no platform's digest is known if
  the registry sends a header.
* docker's results may have no digest and neither may their images
  (`dockerPage`), and ghcr's versions have one only if their name starts with
  `sha` (`ghcrPage`): an image never matches such an entry.
* Errors of quay's manifest requests are collected in `p.errs` and never read:
  a lookup succeeds without those tags (`EveryTagOnce` takes `errs` away).
* Quay's semaphore is made per page, so the limit is per page.
* With a valid `match-regex`, other annotations are not ignored, as
  `docs/installation.md:75` says, but may still reject the container
  (`Return` in `OptionsBuilder`).

## 5. What is assumed

Named `ASSUME`s give the constants their types.  Some say more:

* `HashAssumption` (`ImageLookup`): the searches in use have different 32-bit
  keys; a collision would let `RightImage` fail.
* `LookupAssumption` (`ImageLookup`): options stay among the options if the
  checker turns to comparing digests; the names of tags parse to numbers, with
  any number of names for one number.
* `TagsAssumption` (`ImageLookup`): the tags of one answer of a registry have
  different names, and none comes with an appended SHA.  Tag names are unique
  in a repository, and only this program appends.
* `CheckAssumption` (`VersionChecker`): the types of the constants, the closure
  of the options as above, and that the results `PodController` chooses from
  include every result a check can report.
* `PagesAssumption` (`TagsCall`): a repository has at least one page, a finite
  number of them with finitely many tags, and no tag on two pages.
* `AnnotationsAssumption` (`OptionsBuilder`): what `strconv` accepts as a number
  and `regexp` as an expression are strings that an annotation may have.

## 6. Proofs

Checked by TLAPS, for every value of the constants that satisfies the
assumptions: any number of pods, containers, workers, annotation maps, changes,
URLs, options, timeouts, pages and goroutines, and lists of any length.  Every
invariant and every action property of the passing runs is the statement of a
theorem.  Each inductive invariant was first checked by TLC on the instance of
the component's run.

### The pod controller (`VersionCheckerProofs`)

* `TypeCorrect`: `Spec => []TypeOK`.  The inductive part beyond types is
  `WorkOK`: a reconciliation that visits containers has a pod and visits that
  pod's containers; without it `pod[p].spec[c]` means nothing.
* `VectorsAgree`: `Spec => []SeriesAgree`.  Rests on what the label sets match
  (`PodMatch`, `ContainerMatch`, `ContainerMismatch`), lifted to the effects of
  the three operations (`RemovePodEffect`, `RemoveImageEffect`,
  `AddImageEffect`).  `SeriesAgree` is inductive together with `TypeOK`.
* `SeriesTracked`: `Spec => []Tracked`.  A step of `p` adds series of `p` only
  (`OtherSeries`) and only while `p` is being reconciled; the one way out of a
  reconciliation that does not requeue removes the pod's series (`RemovedPod`).
* `VerdictsKept`: `Spec => VerdictKept`, an action property, by cases on the
  actions that remove series.  A restart, which takes all of them, is one of
  the justified ones.

### The composition (`VersionCheckerProofs`)

* `SystemAlwaysSound`: `System => []SystemInv`, the inductive invariant of the
  composed system.  To the controller's `TypeOK` it adds `ChecksDue` (a check
  under way is that of the container its reconciliation waits for, about the
  URL which that reconciliation's own pod gives it, whatever the informer has
  stored meanwhile), `ListsOK` (a list has tags of its URL only),
  `CachesOK` (both caches lead to lists of the URL they are asked for) and
  `HoldsOK` (so does the pointer of a check, and it points into the list).
  One lemma per action of the lookup (`...Move`) says what the action does to
  this; `CheckMove` puts them together, `DueKept` is about the controller's
  steps.  `ListsOK` is where `AppendSHA`, which changes lists that others
  hold, could break it: it leaves the name alone.
* `SystemImplementsPodController`: `System => ImplementsPodController`, a
  refinement.  A step of a check changes no variable of the controller and maps
  to a stutter; its end maps to `SyncResult` or `SyncError` (`OneTurn`), for
  which the result must be one of those the controller chooses from
  (`ResultType`) and the container the one whose turn it is (`ChecksDue`).
* `ReportedAlwaysOfURL`: `System => []ReportedOfURL`.  What a check reports is of
  its container's URL by `HoldsOK` and `ListsOK` (`ReportsResult`); what else
  changes the vectors reports no new version (`NoNewVersions`).
* `SystemVectors`: `SeriesAgree`, `Tracked` and `VerdictKept` of the composed
  system, by the refinement.

### The lookup (`ImageLookupProofs`)

* `LookupTypes`, `RightImageAlways`, `StalenessBounded`,
  `OutdatedAlwaysJustified` and `LatestAlwaysJustified`: `TypeOK`,
  `RightImage`, `StalenessBound`, `OutdatedJustified` and `LatestJustified` of
  `ImageLookup`, all from one inductive invariant `IInv`.  Beyond types it says
  of every list that somebody holds: it belongs to the holder's URL
  (`ImageCacheOK`, `SearchCacheOK`, `WorkerOK`); it is no older than its entry
  in the image cache, and at most one timeout older than one in the search
  cache; a search's pointer into it is `Chosen`, that is the youngest tag by
  SHA, and by version one that the pin allows and the greatest as long as the
  list is unchanged; and a verdict is `Justified` by it.  These have the
  premises of the properties: a timeout above 0, no extended tag, no changed list
  (section 4); a version may have any number of names.  The bounds of `StalenessBound` alone are not inductive: a worker between its
  fetch and its commit has a list that no cache knows of yet, so `WorkerOK`
  bounds the age at each point of the check.  The append is handled by
  `SameTags`: it changes no name, SHA or timestamp, and `ChosenKept` and
  `JustifiedKept` show that what other holders of the list know survives it.
  `Fetch` needs that its address is in nobody's hands, which is what `InUse`
  says.  `ShaVerdictRight` and `SemverVerdictRight` are the argument about one
  comparison.

These are theorems of `ImageLookup` with its own `Spec`.  TLAPS cannot cite the
theorems of an instantiated module, so the composition has an invariant of its
own for what it needs of the lookup, lighter than `IInv`: that verdicts are
justified and lists young enough is proved of the lookup alone.

### The other components

* `SelectionProofs`: `LoopAlwaysRight` is `Spec => []LoopInv`, the invariant of
  the loop; `SelectionTypes`, `AllowedAlwaysFound`, `StableAlwaysWins` and
  `YoungestAlwaysWins` are its parts.  Each speaks of the tags visited so far.
  The order on tags is not a total order; what the proof needs of it is
  `StableLessThan` and `NotLessThanStable`.
* `KubeControllerProofs`: `KubeTypes`, `PairsAlwaysReal`.  `ReadsSeen` follows a
  runner: what it has read of the cluster forms a pair that was seen with what
  the channel has now, so that whenever it reads the channel, both of its
  versions form one.  A change of the channel keeps this since it records the
  new version with all that the cluster has had.
* `OptionsBuilderProofs`: `OptionsTypes`, `OptionsAlwaysConsistent`,
  `AnnotationsAlwaysHonoured`.  `HandledOK` says what the handlers that have run
  have made of the annotations, with `PinOK` and `RegexOK` for those that can
  fail: an option is what its annotation says or there is an error.  The
  checks at the end make options of it only if there is none.
* `RegistryClientProofs`: `ClientTypes`, `AnswersAlwaysIfAny`,
  `AlwaysAskedDirectly`.  For the fallback, `CallOK`: the clients that have
  answered all along answer now, and in the loop none of them has been passed.
  For the paths, `PathKept`: what a client's `RepoImageFromPath` makes of a path
  is that path, or the default namespace and its single part: at any length
  (`WholePath`), but with docker and the self-hosted client up to two parts
  (`TwoParts`), beyond which it is not true.
* `RegistryTagsProofs`: `TagsTypes`, `EveryTagAlwaysOnce`, `DigestsAlwaysKept`,
  from an invariant with a part per kind of client (`QuayOK`, `OciOK`,
  `SelfhostedOK`, `PagedOK`) that says which pages' tags have their goroutines
  or entries, and two parts for all of them: `EntriesOK` (a goroutine that has
  read its manifest has made one entry, and an entry matches digests of its own
  tag only) and `PermitsOK` (a semaphore counts
  the goroutines that hold it, without which a permit given back might be one
  never taken).  When the call returns no goroutine counted by the wait group
  is left, and the parts give the property.
* `TagsImplementsPromise`: `Spec => ImplementsPromise`.  Initial states map to
  initial states, and a step before the return maps to a miss, to a return or to
  a stutter (`StepSeen`, `StepPromise`); after it every step is a stutter,
  those of the goroutines that an error has left behind included.
* `AcrTokenProofs`: `TokenTypes`, `TokenAlwaysOfHost`.  `TypeOK` includes mutual
  exclusion: a worker is in `getACRClient` exactly if it has the mutex.
  `ClientsOK` adds that the map keeps under a host the client of that host.

### Only model-checked

* Liveness: `DeletedForgotten`, `EnabledReported`, `DisabledForgotten`,
  `VerdictCurrent`, `Fresh`, `KubeReported`, `LookupEnds` of `RegistryTags` and
  of `AcrToken`.  Fairness and ENABLED are out of the prover's reach.
* The two violations, which are counterexamples.
* That the tables of names and annotations, and the values in the `MC` modules,
  are what the parsers make of real strings.

## 7. Not modelled

* The login of the docker and the self-hosted client, TLS setup and the
  authentication that libraries do: once, before there is any state.
* HTTP back-off and rate limiter: a request is one step with its retries, and
  how long it takes is not bounded anywhere.  Round-tripper metrics: counters
  that nothing reads.  Flags, environment, wiring, logging.
* `Update`, `Delete` and `Shutdown` of the generic cache: nothing calls them.
* What a scrape sees in the middle of an operation on the vectors.
* Parsing of names, image references and annotations' values: tables.

## 8. Plan

Order of construction, most important behaviour first: `Metrics` and
`PodController` with their proofs; `ImageLookup`; `Selection` with its proof;
`KubeController`; `RegistryClient`; `OptionsBuilder`; `AcrToken`; the registry
clients with `TagsPromise`; the composition `VersionChecker`.  All of these are
here, and so are the proofs of every invariant and action property, and of the
two refinements.  Next, proofs:

1. `StalenessBound`, `OutdatedJustified` and `LatestJustified` of the composed
   system, whose restarts and reconciliations the proof about `ImageLookup`
   does not have.
2. Why liveness holds, as far as it is safety: what is enabled while a pod is
   not up to date, and what can take it away.
