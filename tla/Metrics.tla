------------------------------ MODULE Metrics ------------------------------
(***************************************************************************)
(* The metrics registry of version-checker (pkg/metrics).                  *)
(*                                                                         *)
(* Metrics keeps four Prometheus vectors about containers.  A vector is    *)
(* modelled by the set of its series, a series by the record of its        *)
(* labels.  What the gauges and the counter hold (the verdict, a time, a   *)
(* duration, a number of failures) is left out: the properties are about   *)
(* which series exist.  The namespace and the pod's name are one value of  *)
(* Pods; the pair of labels current_version, latest_version is one value   *)
(* of Versions.                                                            *)
(*                                                                         *)
(* Every operation holds the mutex mu from its first to its last line and  *)
(* is therefore one action.                                                *)
(***************************************************************************)
EXTENDS Integers, FiniteSets

CONSTANTS
  Pods,           \* namespace/name of the pods that may exist
  NumContainers,  \* number of container names
  NumInit,        \* the first NumInit of them are init containers
  Images,         \* values of container.Image
  URLs,           \* image URLs a check may report on
  Versions,       \* pairs (current version, latest version) it may report
  Absent          \* "there is no such object"

ASSUME ContainersAssumption ==
  NumContainers \in Nat /\ NumInit \in 0 .. NumContainers

VARIABLES
  containerImageVersion,   \* ..._is_latest_version
  containerImageChecked,   \* ..._last_checked
  containerImageDuration,  \* ..._image_lookup_duration
  containerImageErrors,    \* ..._image_failures_total
  podCache                 \* the typed pod informer's store, m.cache

metricsVars == <<containerImageVersion, containerImageChecked,
                 containerImageDuration, containerImageErrors>>

\* Containers are numbered in the order in which sync visits them, the init
\* containers first.
Containers == 1 .. NumContainers

ContainerTypes == {"init", "container"}

ContainerType(c) == IF c <= NumInit THEN "init" ELSE "container"

----------------------------------------------------------------------------
(* Series and label sets *)

\* The series of each vector, by the labels the vector is declared with.  A
\* container name is used for one kind of container only.
VersionSeries ==
  {s \in [pod : Pods, container : Containers, container_type : ContainerTypes,
          image : URLs, version : Versions] :
     s.container_type = ContainerType(s.container)}
CheckedSeries ==
  {s \in [pod : Pods, container : Containers, container_type : ContainerTypes,
          image : URLs] :
     s.container_type = ContainerType(s.container)}
DurationSeries == [pod : Pods, container : Containers, image : Images]
ErrorSeries == DurationSeries

buildFullLabels(p, c, url, ver) ==
  [pod |-> p, container |-> c, container_type |-> ContainerType(c),
   image |-> url, version |-> ver]

buildLastUpdatedLabels(p, c, url) ==
  [pod |-> p, container |-> c, container_type |-> ContainerType(c),
   image |-> url]

buildPodPartialLabels(p) == [pod |-> p]

buildContainerPartialLabels(p, c) ==
  [pod |-> p, container |-> c, container_type |-> ContainerType(c)]

\* External (client_golang): a series matches when it carries every one of
\* the labels with the same value.  A label that the vector was not declared
\* with is never carried, so such a label set matches nothing.
Matches(s, labels) ==
  \A l \in DOMAIN labels : l \in DOMAIN s /\ s[l] = labels[l]

DeletePartialMatch(vec, labels) == {s \in vec : ~ Matches(s, labels)}

----------------------------------------------------------------------------
(* Operations *)

MetricsInit ==
  /\ containerImageVersion = {}
  /\ containerImageChecked = {}
  /\ containerImageDuration = {}
  /\ containerImageErrors = {}

\* The pod cache has the pod and it is not being deleted.
PodExists(p) == podCache[p] # Absent /\ ~ podCache[p].deleting

\* Mutant: the series of the last version stays.
AddImage_NoDelete(p, c, url, ver) ==
  /\ containerImageVersion' =
       containerImageVersion \cup {buildFullLabels(p, c, url, ver)}
  /\ containerImageChecked' =
       containerImageChecked \cup {buildLastUpdatedLabels(p, c, url)}
  /\ UNCHANGED <<containerImageDuration, containerImageErrors>>

AddImage(p, c, url, ver) ==
  LET labels == buildContainerPartialLabels(p, c) IN
  /\ containerImageVersion' =
       DeletePartialMatch(containerImageVersion, labels)
         \cup {buildFullLabels(p, c, url, ver)}
  /\ containerImageChecked' =
       DeletePartialMatch(containerImageChecked, labels)
         \cup {buildLastUpdatedLabels(p, c, url)}
  /\ UNCHANGED <<containerImageDuration, containerImageErrors>>

\* Drops from all four vectors what matches the labels.
RemoveMatching(labels) ==
  /\ containerImageVersion' = DeletePartialMatch(containerImageVersion, labels)
  /\ containerImageChecked' = DeletePartialMatch(containerImageChecked, labels)
  /\ containerImageDuration' = DeletePartialMatch(containerImageDuration, labels)
  /\ containerImageErrors' = DeletePartialMatch(containerImageErrors, labels)

RemoveImage(p, c) == RemoveMatching(buildContainerPartialLabels(p, c))

RemovePod(p) == RemoveMatching(buildPodPartialLabels(p))

RegisterImageDuration(p, c, img) ==
  /\ containerImageDuration' =
       IF PodExists(p)
       THEN containerImageDuration
              \cup {[pod |-> p, container |-> c, image |-> img]}
       ELSE containerImageDuration
  /\ UNCHANGED <<containerImageVersion, containerImageChecked,
                 containerImageErrors>>

ReportError(p, c, img) ==
  /\ containerImageErrors' =
       IF PodExists(p)
       THEN containerImageErrors
              \cup {[pod |-> p, container |-> c, image |-> img]}
       ELSE containerImageErrors
  /\ UNCHANGED <<containerImageVersion, containerImageChecked,
                 containerImageDuration>>

----------------------------------------------------------------------------
(* What the metrics endpoint shows of a pod and of a container *)

MetricsTypeOK ==
  /\ containerImageVersion \subseteq VersionSeries
  /\ containerImageChecked \subseteq CheckedSeries
  /\ containerImageDuration \subseteq DurationSeries
  /\ containerImageErrors \subseteq ErrorSeries

\* Some vector has a series of pod p.
HasSeries(p) ==
  \/ \E s \in containerImageVersion : s.pod = p
  \/ \E s \in containerImageChecked : s.pod = p
  \/ \E s \in containerImageDuration : s.pod = p
  \/ \E s \in containerImageErrors : s.pod = p

\* The container has a verdict: a version or a last-checked series, which
\* come and go together (SeriesAgree of PodController).
HasVerdict(p, c) ==
  \/ \E s \in containerImageVersion : s.pod = p /\ s.container = c
  \/ \E s \in containerImageChecked : s.pod = p /\ s.container = c
=============================================================================
