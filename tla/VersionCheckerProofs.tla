------------------------ MODULE VersionCheckerProofs ------------------------
(***************************************************************************)
(* Proofs about the pod controller, for any number of pods, containers,    *)
(* workers, annotations and changes; and about the system composed of the  *)
(* controller and the lookup of images, for any number of URLs, options,   *)
(* tags and heap addresses as well: that it implements the controller, and *)
(* that what it reports of an image is true of the image's URL.            *)
(***************************************************************************)
EXTENDS VersionChecker, SequenceTheorems, WellFoundedInduction, TLAPS

----------------------------------------------------------------------------
(* What the operations on the vectors remove *)

\* RemovePod's label set removes exactly the series of the pod, from a vector
\* of any of the four kinds.
LEMMA PodMatch ==
  ASSUME NEW vec, NEW p,
         \/ vec \subseteq VersionSeries
         \/ vec \subseteq CheckedSeries
         \/ vec \subseteq DurationSeries
  PROVE  DeletePartialMatch(vec, buildPodPartialLabels(p))
           = {s \in vec : s.pod # p}
<1>1. \A s \in vec : "pod" \in DOMAIN s
  BY DEF VersionSeries, CheckedSeries, DurationSeries
<1>2. DOMAIN [pod |-> p] = {"pod"} /\ [pod |-> p]["pod"] = p
  OBVIOUS
<1>3. \A s \in vec : Matches(s, buildPodPartialLabels(p)) <=> s.pod = p
  BY <1>1, <1>2 DEF Matches, buildPodPartialLabels
<1> QED BY <1>3 DEF DeletePartialMatch

\* The label set of AddImage and RemoveImage removes exactly the container's
\* series from a vector that has the label container_type.
LEMMA ContainerMatch ==
  ASSUME NEW vec, NEW p, NEW c,
         vec \subseteq VersionSeries \/ vec \subseteq CheckedSeries
  PROVE  DeletePartialMatch(vec, buildContainerPartialLabels(p, c))
           = {s \in vec : ~ (s.pod = p /\ s.container = c)}
<1> DEFINE labels == buildContainerPartialLabels(p, c)
<1>1. \A s \in vec : /\ {"pod", "container", "container_type"} \subseteq DOMAIN s
                     /\ s.container_type = ContainerType(s.container)
  BY DEF VersionSeries, CheckedSeries
<1>2. /\ DOMAIN labels = {"pod", "container", "container_type"}
      /\ labels["pod"] = p
      /\ labels["container"] = c
      /\ labels["container_type"] = ContainerType(c)
  BY DEF buildContainerPartialLabels
<1>3. \A s \in vec : Matches(s, labels) <=> s.pod = p /\ s.container = c
  <2> HIDE DEF labels
  <2> QED BY <1>1, <1>2 DEF Matches
<1> QED BY <1>3 DEF DeletePartialMatch

\* From a vector without the label container_type it removes nothing: that is
\* all RemoveImage does to the lookup durations and failure counts.
LEMMA ContainerMismatch ==
  ASSUME NEW vec, NEW p, NEW c, vec \subseteq DurationSeries
  PROVE  DeletePartialMatch(vec, buildContainerPartialLabels(p, c)) = vec
<1> DEFINE labels == buildContainerPartialLabels(p, c)
<1>1. \A s \in vec : "container_type" \notin DOMAIN s
  BY DEF DurationSeries
<1>2. "container_type" \in DOMAIN labels
  BY DEF buildContainerPartialLabels
<1>3. \A s \in vec : ~ Matches(s, labels)
  <2> HIDE DEF labels
  <2> QED BY <1>1, <1>2 DEF Matches
<1> QED BY <1>3 DEF DeletePartialMatch

----------------------------------------------------------------------------
(* What the operations do to well-typed vectors *)

\* RemovePod drops the pod's series from every vector, and no other.
LEMMA RemovePodEffect ==
  ASSUME MetricsTypeOK, NEW p, RemovePod(p)
  PROVE  /\ containerImageVersion' = {s \in containerImageVersion : s.pod # p}
         /\ containerImageChecked' = {s \in containerImageChecked : s.pod # p}
         /\ containerImageDuration' = {s \in containerImageDuration : s.pod # p}
         /\ containerImageErrors' = {s \in containerImageErrors : s.pod # p}
BY PodMatch DEF MetricsTypeOK, RemovePod, RemoveMatching, ErrorSeries

\* RemoveImage drops the container's verdict, and leaves durations and failures.
LEMMA RemoveImageEffect ==
  ASSUME MetricsTypeOK, NEW p, NEW c, RemoveImage(p, c)
  PROVE  /\ containerImageVersion' =
              {s \in containerImageVersion : ~ (s.pod = p /\ s.container = c)}
         /\ containerImageChecked' =
              {s \in containerImageChecked : ~ (s.pod = p /\ s.container = c)}
         /\ containerImageDuration' = containerImageDuration
         /\ containerImageErrors' = containerImageErrors
BY ContainerMatch, ContainerMismatch
DEF MetricsTypeOK, RemoveImage, RemoveMatching, ErrorSeries

\* AddImage replaces the container's verdict by the new one.
LEMMA AddImageEffect ==
  ASSUME MetricsTypeOK, NEW p, NEW c, NEW url, NEW ver, AddImage(p, c, url, ver)
  PROVE  /\ containerImageVersion' =
              {s \in containerImageVersion : ~ (s.pod = p /\ s.container = c)}
                \cup {buildFullLabels(p, c, url, ver)}
         /\ containerImageChecked' =
              {s \in containerImageChecked : ~ (s.pod = p /\ s.container = c)}
                \cup {buildLastUpdatedLabels(p, c, url)}
         /\ containerImageDuration' = containerImageDuration
         /\ containerImageErrors' = containerImageErrors
BY ContainerMatch DEF MetricsTypeOK, AddImage

\* The label sets that AddImage registers are series of their vectors.
LEMMA LabelTypes ==
  ASSUME NEW p \in Pods, NEW c \in Containers, NEW url \in URLs,
         NEW ver \in Versions
  PROVE  /\ buildFullLabels(p, c, url, ver) \in VersionSeries
         /\ buildLastUpdatedLabels(p, c, url) \in CheckedSeries
         /\ buildFullLabels(p, c, url, ver).pod = p
         /\ buildFullLabels(p, c, url, ver).container = c
         /\ buildFullLabels(p, c, url, ver).image = url
         /\ buildLastUpdatedLabels(p, c, url).pod = p
         /\ buildLastUpdatedLabels(p, c, url).container = c
BY DEF buildFullLabels, buildLastUpdatedLabels, VersionSeries, CheckedSeries,
       ContainerType, ContainerTypes

\* A step of the controller calls at most one operation of Metrics, for one pod.
MetricsStep(p) ==
  \/ RemovePod(p)
  \/ \E c \in Containers : RemoveImage(p, c)
  \/ \E c \in Containers, url \in URLs, ver \in Versions : AddImage(p, c, url, ver)
  \/ \E c \in Containers, img \in Images : RegisterImageDuration(p, c, img)
  \/ \E c \in Containers, img \in Images : ReportError(p, c, img)
  \/ UNCHANGED metricsVars

\* Every operation of Metrics keeps the vectors well typed.
LEMMA MetricsType ==
  ASSUME MetricsTypeOK, NEW p \in Pods, MetricsStep(p)
  PROVE  MetricsTypeOK'
<1>1. CASE RemovePod(p)
  BY <1>1, RemovePodEffect DEF MetricsTypeOK
<1>2. ASSUME NEW c \in Containers, RemoveImage(p, c)
      PROVE  MetricsTypeOK'
  BY <1>2, RemoveImageEffect DEF MetricsTypeOK
<1>3. ASSUME NEW c \in Containers, NEW url \in URLs, NEW ver \in Versions,
             AddImage(p, c, url, ver)
      PROVE  MetricsTypeOK'
  BY <1>3, AddImageEffect, LabelTypes DEF MetricsTypeOK
<1>4. ASSUME NEW c \in Containers, NEW img \in Images,
             RegisterImageDuration(p, c, img)
      PROVE  MetricsTypeOK'
  BY <1>4 DEF MetricsTypeOK, RegisterImageDuration, DurationSeries
<1>5. ASSUME NEW c \in Containers, NEW img \in Images, ReportError(p, c, img)
      PROVE  MetricsTypeOK'
  BY <1>5 DEF MetricsTypeOK, ReportError, ErrorSeries, DurationSeries
<1>6. CASE UNCHANGED metricsVars
  BY <1>6 DEF MetricsTypeOK, metricsVars
<1> QED BY <1>1, <1>2, <1>3, <1>4, <1>5, <1>6 DEF MetricsStep

----------------------------------------------------------------------------
(* Type correctness *)

\* A pod that is there has a spec, annotations, a status and a deletion mark.
LEMMA PodFields ==
  ASSUME NEW r \in PodRecord \cup {Absent}, r # Absent
  PROVE  /\ r \in PodRecord
         /\ r.spec \in Specs
         /\ r.annotations \in Annotations
         /\ DOMAIN r.spec \subseteq Containers
         /\ \A c \in DOMAIN r.spec : r.spec[c] \in Images
         /\ \A c \in DOMAIN r.spec : CheckedURL(r, c) \in URLs
<1>1. r \in PodRecord /\ r.spec \in Specs /\ r.annotations \in Annotations
  BY DEF PodRecord
<1>2. PICK S \in SUBSET Containers : r.spec \in [S -> Images]
  BY <1>1, PodAssumption
<1>3. \A c \in DOMAIN r.spec : CheckedURL(r, c) \in URLs
  BY <1>1, <1>2, OptionsAssumption DEF CheckedURL
<1> QED BY <1>1, <1>2, <1>3

\* A change of the cluster replaces one pod by another or by none.
LEMMA ClusterStep ==
  ASSUME VariablesOK, NEW p \in Pods, Cluster(p)
  PROVE  /\ api' \in [Pods -> PodRecord \cup {Absent}]
         /\ changes' \in 0 .. MaxChanges
         /\ UNCHANGED <<metricsVars, queueVars, workVars, metaView, podCache>>
<1> SUFFICES ASSUME NEW new \in PodRecord \cup {Absent}, ChangeAPI(p, new)
             PROVE  /\ api' \in [Pods -> PodRecord \cup {Absent}]
                    /\ changes' \in 0 .. MaxChanges
                    /\ UNCHANGED <<metricsVars, queueVars, workVars, metaView,
                                   podCache>>
  <2>1. ASSUME CreatePod(p)
        PROVE  \E new \in PodRecord \cup {Absent} : ChangeAPI(p, new)
    BY <2>1 DEF CreatePod, PodRecord
  <2>2. ASSUME UpdateAnnotations(p)
        PROVE  \E new \in PodRecord \cup {Absent} : ChangeAPI(p, new)
    BY <2>2 DEF UpdateAnnotations, VariablesOK, PodRecord
  <2>3. ASSUME UpdateImage(p)
        PROVE  \E new \in PodRecord \cup {Absent} : ChangeAPI(p, new)
    BY <2>3 DEF UpdateImage, VariablesOK, PodRecord
  <2>4. ASSUME ContainerStarts(p)
        PROVE  \E new \in PodRecord \cup {Absent} : ChangeAPI(p, new)
    <3>1. PICK c \in DOMAIN api[p].spec \ api[p].status :
                 ChangeAPI(p, [api[p] EXCEPT !.status = @ \cup {c}])
      BY <2>4 DEF ContainerStarts
    <3>2. api[p] \in PodRecord /\ c \in Containers
      BY <2>4, PodFields DEF ContainerStarts, VariablesOK
    <3> QED BY <3>1, <3>2 DEF PodRecord
  <2>5. ASSUME SetDeleting(p)
        PROVE  \E new \in PodRecord \cup {Absent} : ChangeAPI(p, new)
    BY <2>5 DEF SetDeleting, VariablesOK, PodRecord
  <2>6. ASSUME DeletePod(p)
        PROVE  \E new \in PodRecord \cup {Absent} : ChangeAPI(p, new)
    BY <2>6 DEF DeletePod
  <2> QED BY <2>1, <2>2, <2>3, <2>4, <2>5, <2>6 DEF Cluster
<1> QED BY BoundsAssumption DEF ChangeAPI, VariablesOK

\* In the middle of a visit, the container is one of the pod's.
LEMMA VisitOK ==
  ASSUME TypeOK, NEW p \in Pods, NEW c \in Containers, First(p, c),
         pc[p] \in {"sync", "duration", "unwind"}
  PROVE  /\ pod[p] \in PodRecord
         /\ c \in DOMAIN pod[p].spec
         /\ pod[p].spec[c] \in Images
         /\ CheckedURL(pod[p], c) \in URLs
<1>1. pod[p] # Absent /\ c \in DOMAIN pod[p].spec
  BY DEF TypeOK, WorkOK, First
<1>2. pod[p] \in PodRecord \cup {Absent}
  BY DEF TypeOK, VariablesOK
<1> QED BY <1>1, <1>2, PodFields

\* The steps of an informer keep the types, and work on one pod's metrics.
LEMMA InformersType ==
  ASSUME TypeOK, NEW p \in Pods, Informers(p)
  PROVE  TypeOK' /\ MetricsStep(p)
<1> USE DEF TypeOK, VariablesOK, metricsVars, queueVars, workVars, viewVars
<1>1. MetricsStep(p)
  BY DEF Informers, PodCacheSync, OnCreate, OnUpdate, OnDelete, OnResync,
         TimerFires, MetricsStep
<1>2. MetricsTypeOK'
  BY <1>1, MetricsType
<1>3. UNCHANGED workVars
  BY DEF Informers, PodCacheSync, OnCreate, OnUpdate, OnDelete, OnResync,
         TimerFires, MetaSync
<1>4. WorkOK'
  BY <1>3 DEF WorkOK
<1>5. /\ podCache' \in [Pods -> PodRecord \cup {Absent}]
      /\ metaView' \in [Pods -> PodRecord \cup {Absent}]
      /\ UNCHANGED <<api, changes>>
      /\ dirty' \subseteq Pods
      /\ delayed' \subseteq Pods
  BY DEF Informers, PodCacheSync, OnCreate, OnUpdate, OnDelete, OnResync,
         TimerFires, MetaSync
<1> QED BY <1>1, <1>2, <1>3, <1>4, <1>5

\* The visit of a container keeps the types, and works on one pod's metrics.
LEMMA SyncContainerType ==
  ASSUME TypeOK, NEW p \in Pods, NEW c \in Containers, SyncContainer(p, c)
  PROVE  TypeOK' /\ MetricsStep(p)
<1> USE DEF TypeOK, VariablesOK, metricsVars, queueVars, workVars, viewVars
<1>0. /\ First(p, c)
      /\ pc[p] \in {"sync", "duration", "unwind"}
  BY DEF SyncContainer, SyncDisabled, SyncInvalid, SyncNotReady, SyncResult,
         SyncError, SyncPanic, RegisterDuration, Unwind, Checked, Turn
<1>1. /\ c \in todo[p]
      /\ pod[p].spec[c] \in Images
      /\ CheckedURL(pod[p], c) \in URLs
  BY <1>0, VisitOK DEF First
<1>2. CASE SyncDisabled(p, c)
  <2>1. MetricsStep(p) BY <1>2 DEF SyncDisabled, MetricsStep
  <2>2. MetricsTypeOK' BY <2>1, MetricsType
  <2>3. WorkOK'
    BY <1>2 DEF SyncDisabled, SkipContainer, Turn, WorkOK
  <2> QED BY <1>2, <2>1, <2>2, <2>3 DEF SyncDisabled, SkipContainer
<1>3. CASE SyncInvalid(p, c)
  <2>1. MetricsStep(p) BY <1>3 DEF SyncInvalid, MetricsStep
  <2>2. MetricsTypeOK' BY <2>1, MetricsType
  <2>3. WorkOK'
    BY <1>3 DEF SyncInvalid, SkipContainer, Turn, WorkOK
  <2> QED BY <1>3, <2>1, <2>2, <2>3 DEF SyncInvalid, SkipContainer
<1>4. ASSUME \/ SyncNotReady(p, c)
             \/ SyncResult(p, c)
             \/ SyncError(p, c)
             \/ SyncPanic(p, c)
      PROVE  TypeOK' /\ MetricsStep(p)
  <2>1. MetricsStep(p)
    BY <1>1, <1>4
    DEF SyncNotReady, SyncResult, SyncError, SyncPanic, MetricsStep
  <2>2. MetricsTypeOK' BY <2>1, MetricsType
  <2>3. /\ pc[p] = "sync"
        /\ UNCHANGED <<queueVars, viewVars, pod, todo>>
        /\ \E next \in {"duration", "unwind"} : pc' = [pc EXCEPT ![p] = next]
    BY <1>4
    DEF SyncNotReady, SyncResult, SyncError, SyncPanic, Checked, Turn, AfterCheck
  <2>4. WorkOK'
    BY <1>1, <2>3 DEF WorkOK
  <2>5. pc' \in [Pods -> PCs]
    BY <2>3 DEF PCs
  <2> QED BY <2>1, <2>2, <2>3, <2>4, <2>5
<1>5. CASE RegisterDuration(p, c)
  <2>1. MetricsStep(p) BY <1>1, <1>5 DEF RegisterDuration, MetricsStep
  <2>2. MetricsTypeOK' BY <2>1, MetricsType
  <2>3. WorkOK'
    BY <1>5 DEF RegisterDuration, WorkOK
  <2>4. pc' \in [Pods -> PCs]
    BY <1>5 DEF RegisterDuration, PCs
  <2> QED BY <1>5, <2>1, <2>2, <2>3, <2>4 DEF RegisterDuration
<1>6. CASE Unwind(p, c)
  <2>1. MetricsStep(p) BY <1>1, <1>6 DEF Unwind, MetricsStep
  <2>2. MetricsTypeOK' BY <2>1, MetricsType
  <2>3. WorkOK'
    BY <1>6 DEF Unwind, EndReconcile, WorkOK
  <2>4. pc' \in [Pods -> PCs]
    BY <1>6 DEF Unwind, EndReconcile, PCs
  <2> QED BY <1>6, <2>1, <2>2, <2>3, <2>4 DEF Unwind, EndReconcile, Requeue
<1> QED BY <1>2, <1>3, <1>4, <1>5, <1>6 DEF SyncContainer

\* Dequeue and the other steps of Reconcile keep the types, and work on one
\* pod's metrics.
LEMMA ReconcileType ==
  ASSUME TypeOK, NEW p \in Pods, Dequeue(p) \/ Reconcile(p)
  PROVE  TypeOK' /\ MetricsStep(p)
<1> USE DEF TypeOK, VariablesOK, metricsVars, queueVars, workVars, viewVars
<1>1. CASE Dequeue(p)
  <2>1. MetricsStep(p) BY <1>1 DEF Dequeue, MetricsStep
  <2>2. MetricsTypeOK' BY <2>1, MetricsType
  <2>3. WorkOK' BY <1>1 DEF Dequeue, WorkOK
  <2> QED BY <1>1, <2>1, <2>2, <2>3 DEF Dequeue, PCs
<1>2. CASE GetPod(p)
  <2>1. MetricsStep(p) BY <1>2 DEF GetPod, MetricsStep
  <2>2. MetricsTypeOK' BY <2>1, MetricsType
  <2>3. podCache[p] # Absent => DOMAIN podCache[p].spec \subseteq Containers
    BY PodFields
  <2>4. WorkOK' BY <1>2 DEF GetPod, WorkOK
  <2> QED BY <1>2, <2>1, <2>2, <2>3, <2>4 DEF GetPod, PCs
<1>3. CASE GetError(p)
  <2>1. MetricsStep(p) BY <1>3 DEF GetError, MetricsStep
  <2>2. MetricsTypeOK' BY <2>1, MetricsType
  <2>3. WorkOK' BY <1>3 DEF GetError, EndReconcile, WorkOK
  <2> QED BY <1>3, <2>1, <2>2, <2>3 DEF GetError, EndReconcile, Requeue, PCs
<1>4. CASE RemoveNotFound(p)
  <2>1. MetricsStep(p) BY <1>4 DEF RemoveNotFound, MetricsStep
  <2>2. MetricsTypeOK' BY <2>1, MetricsType
  <2>3. WorkOK' BY <1>4 DEF RemoveNotFound, EndReconcile, WorkOK
  <2> QED BY <1>4, <2>1, <2>2, <2>3 DEF RemoveNotFound, EndReconcile, PCs
<1>5. CASE \E c \in Containers : SyncContainer(p, c)
  BY <1>5, SyncContainerType
<1>6. CASE FinishReconcile(p)
  <2>1. MetricsStep(p) BY <1>6 DEF FinishReconcile, MetricsStep
  <2>2. MetricsTypeOK' BY <2>1, MetricsType
  <2>3. WorkOK' BY <1>6 DEF FinishReconcile, EndReconcile, WorkOK
  <2> QED BY <1>6, <2>1, <2>2, <2>3 DEF FinishReconcile, EndReconcile, Requeue, PCs
<1> QED BY <1>1, <1>2, <1>3, <1>4, <1>5, <1>6 DEF Reconcile

\* A new process has no series.
LEMMA RestartEffect ==
  ASSUME Restart
  PROVE  /\ MetricsTypeOK'
         /\ SeriesAgree'
         /\ \A q \in Pods : ~ HasSeries(q)'
BY DEF Restart, MetricsTypeOK, SeriesAgree, HasSeries

\* Every step keeps the types and, but for a restart, is a step on one pod's
\* metrics.
LEMMA TypeStep ==
  ASSUME TypeOK, [Next]_vars
  PROVE  /\ TypeOK'
         /\ \/ UNCHANGED metricsVars
            \/ \E p \in Pods : MetricsStep(p)
            \/ Restart
<1>1. ASSUME NEW p \in Pods, Cluster(p)
      PROVE  TypeOK' /\ UNCHANGED metricsVars
  <2>1. /\ api' \in [Pods -> PodRecord \cup {Absent}]
        /\ changes' \in 0 .. MaxChanges
        /\ UNCHANGED <<metricsVars, queueVars, workVars, metaView, podCache>>
    BY <1>1, ClusterStep DEF TypeOK
  <2>2. MetricsTypeOK' /\ WorkOK'
    BY <2>1 DEF TypeOK, VariablesOK, MetricsTypeOK, WorkOK, metricsVars, workVars
  <2> QED BY <2>1, <2>2 DEF TypeOK, VariablesOK, queueVars, workVars
<1>2. CASE UNCHANGED vars
  BY <1>2 DEF TypeOK, VariablesOK, MetricsTypeOK, WorkOK, vars, metricsVars,
              queueVars, workVars, viewVars
<1>3. CASE Restart
  <2>1. MetricsTypeOK' BY <1>3, RestartEffect
  <2>2. WorkOK' BY <1>3 DEF Restart, WorkOK
  <2> QED BY <1>3, <2>1, <2>2, BoundsAssumption
          DEF Restart, TypeOK, VariablesOK, PCs
<1> QED BY <1>1, <1>2, <1>3, InformersType, ReconcileType DEF Next

\* The controller starts without work and without series.
LEMMA TypeInit ==
  ASSUME Init
  PROVE  TypeOK
<1>1. MetricsTypeOK BY DEF Init, MetricsInit, MetricsTypeOK
<1>2. WorkOK BY DEF Init, WorkOK
<1> QED BY <1>1, <1>2, BoundsAssumption DEF Init, TypeOK, VariablesOK, PCs

\* Type correctness, together with what a reconciliation knows of its pod.
THEOREM TypeCorrect == Spec => []TypeOK
<1>1. Init => TypeOK
  BY TypeInit
<1>2. TypeOK /\ [Next]_vars => TypeOK'
  BY TypeStep
<1> QED BY <1>1, <1>2, PTL DEF Spec

----------------------------------------------------------------------------
(* At most one verdict, and the two vectors agree *)

\* Every operation of Metrics keeps the two vectors in step.
LEMMA SeriesAgreeStep ==
  ASSUME MetricsTypeOK, SeriesAgree, NEW p \in Pods, MetricsStep(p)
  PROVE  SeriesAgree'
<1>1. ASSUME RemovePod(p) PROVE SeriesAgree'
  BY <1>1, RemovePodEffect DEF SeriesAgree, buildLastUpdatedLabels
<1>2. ASSUME NEW c \in Containers, RemoveImage(p, c) PROVE SeriesAgree'
  BY <1>2, RemoveImageEffect DEF SeriesAgree, buildLastUpdatedLabels
<1>3. ASSUME NEW c \in Containers, NEW url \in URLs, NEW ver \in Versions,
             AddImage(p, c, url, ver)
      PROVE  SeriesAgree'
  <2> DEFINE new == buildFullLabels(p, c, url, ver)
             kept == {s \in containerImageVersion :
                        ~ (s.pod = p /\ s.container = c)}
             labels(s) == buildLastUpdatedLabels(s.pod, s.container, s.image)
  <2>1. /\ containerImageVersion' = kept \cup {new}
        /\ containerImageChecked' =
             {s \in containerImageChecked : ~ (s.pod = p /\ s.container = c)}
               \cup {buildLastUpdatedLabels(p, c, url)}
    BY <1>3, AddImageEffect
  <2>2. new.pod = p /\ new.container = c /\ new.image = url
    BY LabelTypes
  <2>3. \A s \in containerImageVersion :
          labels(s).pod = s.pod /\ labels(s).container = s.container
    BY DEF buildLastUpdatedLabels
  <2>4. {s \in containerImageChecked : ~ (s.pod = p /\ s.container = c)}
          = {labels(s) : s \in kept}
    BY <2>3 DEF SeriesAgree
  <2>5. containerImageChecked' = {labels(s) : s \in containerImageVersion'}
    <3> HIDE DEF new, kept
    <3> QED BY <2>1, <2>2, <2>4
  <2>6. \A s, t \in containerImageVersion' :
          s.pod = t.pod /\ s.container = t.container => s = t
    BY <2>1, <2>2 DEF SeriesAgree
  <2> QED BY <2>5, <2>6 DEF SeriesAgree
<1>4. ASSUME UNCHANGED <<containerImageVersion, containerImageChecked>>
      PROVE  SeriesAgree'
  BY <1>4 DEF SeriesAgree
<1> QED BY <1>1, <1>2, <1>3, <1>4
        DEF MetricsStep, RegisterImageDuration, ReportError, metricsVars

\* For any number of pods and containers, and whatever the interleaving of
\* workers and event handlers: a container has at most one version series,
\* and exactly then a last-checked series of the same image.
THEOREM VectorsAgree == Spec => []SeriesAgree
<1>1. Init => SeriesAgree
  BY DEF Init, MetricsInit, SeriesAgree
<1>2. TypeOK /\ SeriesAgree /\ [Next]_vars => SeriesAgree'
  <2> SUFFICES ASSUME TypeOK, SeriesAgree, [Next]_vars PROVE SeriesAgree'
    OBVIOUS
  <2>1. CASE UNCHANGED metricsVars
    BY <2>1 DEF SeriesAgree, metricsVars
  <2>2. CASE \E p \in Pods : MetricsStep(p)
    BY <2>2, SeriesAgreeStep DEF TypeOK, VariablesOK
  <2>3. CASE Restart
    BY <2>3, RestartEffect
  <2> QED BY <2>1, <2>2, <2>3, TypeStep
<1>3. Spec => []TypeOK
  BY TypeCorrect
<1> QED BY <1>1, <1>2, <1>3, PTL DEF Spec

----------------------------------------------------------------------------
(* A pod with a series is one that the controller will look at again *)

\* An operation for p gives no other pod a series.
LEMMA OtherSeries ==
  ASSUME MetricsTypeOK, NEW p \in Pods, MetricsStep(p), NEW q \in Pods, q # p,
         HasSeries(q)'
  PROVE  HasSeries(q)
<1>1. CASE RemovePod(p)
  BY <1>1, RemovePodEffect DEF HasSeries
<1>2. ASSUME NEW c \in Containers, RemoveImage(p, c) PROVE HasSeries(q)
  BY <1>2, RemoveImageEffect DEF HasSeries
<1>3. ASSUME NEW c \in Containers, NEW url \in URLs, NEW ver \in Versions,
             AddImage(p, c, url, ver)
      PROVE  HasSeries(q)
  BY <1>3, AddImageEffect, LabelTypes DEF HasSeries
<1>4. ASSUME NEW c \in Containers, NEW img \in Images,
             RegisterImageDuration(p, c, img)
      PROVE  HasSeries(q)
  BY <1>4 DEF HasSeries, RegisterImageDuration
<1>5. ASSUME NEW c \in Containers, NEW img \in Images, ReportError(p, c, img)
      PROVE  HasSeries(q)
  BY <1>5 DEF HasSeries, ReportError
<1>6. CASE UNCHANGED metricsVars
  BY <1>6 DEF HasSeries, metricsVars
<1> QED BY <1>1, <1>2, <1>3, <1>4, <1>5, <1>6 DEF MetricsStep

\* Once RemovePod ran, the pod has no series.
LEMMA RemovedPod ==
  ASSUME MetricsTypeOK, NEW p, RemovePod(p)
  PROVE  ~ HasSeries(p)'
BY RemovePodEffect DEF HasSeries

\* What the controller has in hand for a key: queued, delayed or in work.
InHand(p) == p \in dirty \/ p \in delayed \/ pc[p] # "idle"

\* A step of p lets no other key slip.
LEMMA OtherInHand ==
  ASSUME TypeOK, NEW p \in Pods, NEW q \in Pods, q # p, InHand(q),
         Informers(p) \/ Dequeue(p) \/ Reconcile(p)
  PROVE  InHand(q)'
<1> USE DEF InHand, TypeOK, VariablesOK, queueVars, workVars, viewVars
<1>1. CASE Informers(p)
  BY <1>1 DEF Informers, PodCacheSync, OnCreate, OnUpdate, OnDelete, OnResync,
              TimerFires, MetaSync
<1>2. CASE Dequeue(p)
  BY <1>2 DEF Dequeue
<1>3. ASSUME NEW c \in Containers, SyncContainer(p, c) PROVE InHand(q)'
  BY <1>3 DEF SyncContainer, SyncDisabled, SyncInvalid, SyncNotReady, SyncResult,
              SyncError, SyncPanic, RegisterDuration, Unwind, SkipContainer,
              AfterCheck, EndReconcile, Requeue
<1>4. CASE GetPod(p) \/ GetError(p) \/ RemoveNotFound(p) \/ FinishReconcile(p)
  BY <1>4 DEF GetPod, GetError, RemoveNotFound, FinishReconcile, EndReconcile,
              Requeue
<1> QED BY <1>1, <1>2, <1>3, <1>4 DEF Reconcile

\* A step of p either keeps p in hand or removes its series or changes none.
LEMMA OwnInHand ==
  ASSUME TypeOK, NEW p \in Pods, Informers(p) \/ Dequeue(p) \/ Reconcile(p)
  PROVE  \/ InHand(p)'
         \/ RemovePod(p)
         \/ UNCHANGED metricsVars /\ ~ InHand(p)
<1> USE DEF InHand, TypeOK, VariablesOK, queueVars, workVars, viewVars
<1>1. CASE Informers(p)
  BY <1>1 DEF Informers, PodCacheSync, OnCreate, OnUpdate, OnDelete, OnResync,
              TimerFires, MetaSync
<1>2. CASE Dequeue(p)
  BY <1>2 DEF Dequeue
<1>3. ASSUME NEW c \in Containers, SyncContainer(p, c) PROVE InHand(p)'
  BY <1>3 DEF SyncContainer, SyncDisabled, SyncInvalid, SyncNotReady, SyncResult,
              SyncError, SyncPanic, RegisterDuration, Unwind, SkipContainer,
              AfterCheck, EndReconcile, Requeue, Checked, Turn
<1>4. CASE GetPod(p)
  BY <1>4 DEF GetPod
<1>5. CASE GetError(p) \/ RemoveNotFound(p) \/ FinishReconcile(p)
  BY <1>5 DEF GetError, RemoveNotFound, FinishReconcile, EndReconcile, Requeue
<1> QED BY <1>1, <1>2, <1>3, <1>4, <1>5 DEF Reconcile

\* For any number of pods and workers: no series is ever left behind for a
\* pod that the controller will not look at again.
THEOREM SeriesTracked == Spec => []Tracked
<1> USE DEF Tracked, Processing, InHand
<1>1. Init => Tracked
  BY DEF Init, MetricsInit, HasSeries
<1>2. TypeOK /\ Tracked /\ [Next]_vars => Tracked'
  <2> SUFFICES ASSUME TypeOK, Tracked, [Next]_vars,
                      NEW q \in Pods, HasSeries(q)'
               PROVE  InHand(q)'
    BY DEF TypeOK, VariablesOK
  <2>1. MetricsTypeOK
    BY DEF TypeOK, VariablesOK
  <2>2. CASE UNCHANGED vars
    BY <2>2 DEF vars, metricsVars, queueVars, workVars, HasSeries
  <2>3. ASSUME NEW p \in Pods, Cluster(p) PROVE InHand(q)'
    <3>1. UNCHANGED <<metricsVars, queueVars, workVars>>
      BY <2>3, ClusterStep DEF TypeOK
    <3> QED BY <3>1 DEF metricsVars, queueVars, workVars, HasSeries
  <2>4. ASSUME NEW p \in Pods, Informers(p) \/ Dequeue(p) \/ Reconcile(p)
        PROVE  InHand(q)'
    <3>1. CASE p # q
      <4>1. MetricsStep(p) BY <2>4, InformersType, ReconcileType
      <4>2. InHand(q) BY <2>1, <3>1, <4>1, OtherSeries
      <4> QED BY <2>4, <3>1, <4>2, OtherInHand
    <3>2. CASE p = q
      <4>1. CASE RemovePod(p) BY <2>1, <3>2, <4>1, RemovedPod
      <4>2. CASE UNCHANGED metricsVars /\ ~ InHand(p)
        BY <3>2, <4>2 DEF metricsVars, HasSeries
      <4> QED BY <2>4, <3>2, <4>1, <4>2, OwnInHand
    <3> QED BY <3>1, <3>2
  <2>5. CASE Restart
    BY <2>5, RestartEffect
  <2> QED BY <2>2, <2>3, <2>4, <2>5 DEF Next
<1>3. Spec => []TypeOK
  BY TypeCorrect
<1> QED BY <1>1, <1>2, <1>3, PTL DEF Spec

----------------------------------------------------------------------------
(* Who may take a verdict away *)

\* AddImage takes no verdict away, not even the one that it replaces.
LEMMA AddImageKeeps ==
  ASSUME MetricsTypeOK, NEW p \in Pods, NEW c \in Containers,
         NEW url \in URLs, NEW ver \in Versions, AddImage(p, c, url, ver),
         NEW q \in Pods, NEW d \in Containers, HasVerdict(q, d)
  PROVE  HasVerdict(q, d)'
<1>1. CASE q = p /\ d = c
  BY <1>1, AddImageEffect, LabelTypes DEF HasVerdict
<1>2. CASE ~ (q = p /\ d = c)
  BY <1>2, AddImageEffect DEF HasVerdict
<1> QED BY <1>1, <1>2

\* For any number of pods and containers, a verdict is taken away only by an
\* event of its own pod, by a reconciliation that did not find the pod, by one
\* that found the container disabled, or with the whole process.
THEOREM VerdictsKept == Spec => VerdictKept
<1> DEFINE Cause(q, d) == \/ metaView'[q] # metaView[q]
                          \/ pc[q] = "notfound"
                          \/ Turn(q, d) /\ ModeOf(q, d) = "disabled"
<1>1. TypeOK /\ [Next]_vars => [LossJustified]_vars
  <2> SUFFICES ASSUME TypeOK, Next, NEW q \in Pods, NEW d \in Containers,
                      HasVerdict(q, d), ~ HasVerdict(q, d)', ~ Restart
               PROVE  Cause(q, d)
    BY DEF LossJustified
  <2>0. MetricsTypeOK
    BY DEF TypeOK, VariablesOK
  <2>1. ~ UNCHANGED metricsVars
    BY DEF metricsVars, HasVerdict
  <2>2. ~ UNCHANGED <<containerImageVersion, containerImageChecked>>
    BY DEF HasVerdict
  <2>3. PICK p \in Pods : Informers(p) \/ Dequeue(p) \/ Reconcile(p)
    BY <2>1, ClusterStep DEF Next, TypeOK
  <2>4. ASSUME RemovePod(p) PROVE p = q
    BY <2>0, <2>4, RemovePodEffect DEF HasVerdict
  <2>5. CASE Informers(p)
    <3>1. OnUpdate(p) \/ OnDelete(p)
      BY <2>1, <2>5 DEF Informers, PodCacheSync, OnCreate, OnResync, TimerFires
    <3>2. RemovePod(p) /\ metaView'[p] # metaView[p]
      BY <2>1, <3>1 DEF OnUpdate, OnDelete, MetaSync, TypeOK, VariablesOK
    <3> QED BY <2>4, <3>2
  <2>6. CASE Dequeue(p)
    BY <2>1, <2>6 DEF Dequeue
  <2>7. CASE GetPod(p) \/ GetError(p) \/ FinishReconcile(p)
    BY <2>1, <2>7 DEF GetPod, GetError, FinishReconcile
  <2>8. CASE RemoveNotFound(p)
    BY <2>4, <2>8 DEF RemoveNotFound
  <2>9. ASSUME NEW c \in Containers, SyncContainer(p, c)
        PROVE  Cause(q, d)
    <3>1. CASE SyncDisabled(p, c)
      <4>1. RemoveImage(p, c) BY <3>1 DEF SyncDisabled
      <4>2. p = q /\ c = d
        BY <2>0, <4>1, RemoveImageEffect DEF HasVerdict
      <4> QED BY <3>1, <4>2 DEF SyncDisabled
    <3>2. CASE SyncResult(p, c)
      <4>1. CheckedURL(pod[p], c) \in URLs
        BY <3>2, VisitOK DEF SyncResult, Checked, Turn
      <4>2. HasVerdict(q, d)'
        BY <2>0, <3>2, <4>1, AddImageKeeps DEF SyncResult
      <4> QED BY <4>2
    <3>3. CASE \/ SyncInvalid(p, c) \/ SyncNotReady(p, c) \/ SyncError(p, c)
               \/ SyncPanic(p, c) \/ RegisterDuration(p, c) \/ Unwind(p, c)
      BY <2>2, <3>3
      DEF SyncInvalid, SyncNotReady, SyncError, SyncPanic, RegisterDuration,
          Unwind, RegisterImageDuration, ReportError, metricsVars
    <3> QED BY <2>9, <3>1, <3>2, <3>3 DEF SyncContainer
  <2> QED BY <2>3, <2>5, <2>6, <2>7, <2>8, <2>9 DEF Reconcile
<1>2. Spec => []TypeOK
  BY TypeCorrect
<1> QED BY <1>1, <1>2, PTL DEF Spec, VerdictKept
----------------------------------------------------------------------------
(* The composed system: what the checks under way and the caches hold *)

\* The places of a check at which it has a list, a tag of it, a verdict.
Holding == {"resolveCommit", "match", "commitImage", "select", "commitSearch",
            "compare", "append", "done"}

Pointing == {"commitSearch", "compare", "append", "done"}

Judged == {"append", "done"}

\* A list has tags of its URL's registry only; an address that is not used
\* has none.
ListsOK ==
  \A l \in Lists : \A i \in DOMAIN heap[l].tags :
    /\ heap[l].url \in URLs
    /\ heap[l].tags[i].name \in VersionsOf(heap[l].url)

\* Both caches lead to lists of the URL they are asked for.
CachesOK ==
  /\ \A u \in URLs :
       imageCache[u] # Absent => heap[imageCache[u].list].url = u
  /\ \A k \in URLs \X Options :
       searchCache[k] # Absent =>
         /\ heap[searchCache[k].list].url = k[1]
         /\ searchCache[k].index \in DOMAIN heap[searchCache[k].list].tags

ImageTags == {Reference[i].tag : i \in Images} \cup AllVersions

CheckedImage == {img \in Lookup!Current : img.tag \in ImageTags}

\* What the check of a container of p holds at each point.
HoldsOK(p) ==
  /\ check[p] # "idle" => image[p] \in CheckedImage
  /\ check[p] \notin Holding => ptr[p] = Lookup!NoPtr
  /\ check[p] \in Holding =>
       ptr[p].list \in Lists /\ heap[ptr[p].list].url = image[p].url
  /\ check[p] \in Pointing => ptr[p].index \in DOMAIN heap[ptr[p].list].tags
  /\ check[p] \in Judged => verdict[p].isLatest \in BOOLEAN

LookupInv ==
  /\ Lookup!TypeOK
  /\ DOMAIN registry = URLs
  /\ ListsOK
  /\ CachesOK
  /\ \A p \in Pods : HoldsOK(p)

\* A check under way is that of the container whose turn it is, and about the
\* URL that the pod of its reconciliation gives it.
ChecksDue ==
  \A p \in Pods :
    check[p] # "idle" =>
      \E c \in Containers : Due(p, c) /\ image[p].url = CheckedURL(pod[p], c)

SystemInv == TypeOK /\ LookupInv /\ ChecksDue /\ ReportedOfURL

\* A set of natural numbers that is not empty has a least element.
LEMMA LeastNat ==
  ASSUME NEW S, S \subseteq Nat, S # {}
  PROVE  \E i \in S : \A j \in S : i <= j
<1> DEFINE R == OpToRel(<, Nat)
<1>1. \A i, j \in Nat : i < j => <<i, j>> \in R
  BY DEF OpToRel
<1>2. IsWellFoundedOn(R, Nat)
  BY NatLessThanWellFounded
<1> HIDE DEF R
<1>3. PICK i \in S : \A j \in S : ~ (<<j, i>> \in R)
  BY <1>2, WFMin
<1>4. ASSUME NEW j \in S
      PROVE  i <= j
  <2>1. ~ (j < i)
    BY <1>1, <1>3, Zenon
  <2> QED BY <2>1
<1> QED BY <1>3, <1>4

----------------------------------------------------------------------------
(* The steps that only move the check of one pod *)

\* What the proofs use of the constants' types.
LEMMA CheckTypes ==
  /\ CacheTimeout \in Nat
  /\ OptionsOf \in [Annotations -> [Containers -> Options]]
  /\ \A u \in URLs : TagLists[u] \subseteq Seq(Lookup!Tag)
BY CheckAssumption, Zenon

LEMMA MoveStep ==
  ASSUME LookupInv, NEW p \in Pods,
         NEW label \in Lookup!PCs, NEW img \in Lookup!Current \cup {Absent},
         NEW q \in Lookup!Ptr,
         NEW v \in [isLatest : BOOLEAN, read : Lookup!Tag] \cup {Absent},
         UNCHANGED <<running, registry, heap, imageCache, searchCache>>,
         check' = [check EXCEPT ![p] = label],
         image' = [image EXCEPT ![p] = img],
         ptr' = [ptr EXCEPT ![p] = q],
         verdict' = [verdict EXCEPT ![p] = v],
         HoldsOK(p)'
  PROVE  LookupInv'
<1>1. Lookup!TypeOK'
  BY DEF LookupInv, Lookup!TypeOK
<1>2. (DOMAIN registry = URLs)' /\ ListsOK' /\ CachesOK'
  BY DEF LookupInv, ListsOK, CachesOK
<1>3. ASSUME NEW x \in Pods, x # p
      PROVE  HoldsOK(x)'
  <2>1. /\ check'[x] = check[x] /\ image'[x] = image[x] /\ ptr'[x] = ptr[x]
        /\ verdict'[x] = verdict[x] /\ heap' = heap
    BY <1>3 DEF LookupInv, Lookup!TypeOK
  <2> QED BY <2>1 DEF LookupInv, HoldsOK
<1> QED BY <1>1, <1>2, <1>3 DEF LookupInv

\* Nothing that a check starts with changes its URL or its tag.
LEMMA HandleImage ==
  ASSUME NEW img \in CheckedImage
  PROVE  /\ Lookup!handleLatestOrEmptyTag(img) \in CheckedImage
         /\ Lookup!handleLatestOrEmptyTag(img).url = img.url
<1>1. [img.opts EXCEPT !.useSHA = TRUE] \in Options
  BY CheckAssumption DEF CheckedImage, Lookup!Current
<1>2. [img EXCEPT !.opts.useSHA = TRUE]
        = [img EXCEPT !.opts = [img.opts EXCEPT !.useSHA = TRUE]]
  BY DEF CheckedImage, Lookup!Current
<1>3. CASE img.tag \in {"", "latest"}
  BY <1>1, <1>2, <1>3 DEF Lookup!handleLatestOrEmptyTag, CheckedImage, Lookup!Current
<1>4. CASE img.tag \notin {"", "latest"}
  BY <1>4 DEF Lookup!handleLatestOrEmptyTag
<1> QED BY <1>3, <1>4

\* The check of a container starts with the image that its pod gives it.
LEMMA ImageOfType ==
  ASSUME TypeOK, NEW p \in Pods, NEW c \in Containers, Due(p, c)
  PROVE  /\ Lookup!Unresolved(ImageOf(pod[p], c)) \in CheckedImage
         /\ Lookup!Unresolved(ImageOf(pod[p], c)).url = CheckedURL(pod[p], c)
<1>1. /\ pod[p] \in PodRecord /\ pod[p].spec[c] \in Images
      /\ CheckedURL(pod[p], c) \in URLs
  BY VisitOK DEF Due, Checked, Turn
<1>2. pod[p].annotations \in Annotations
  BY <1>1 DEF PodRecord
<1>3. OptionsOf[pod[p].annotations][c] \in Options
  BY <1>2, CheckTypes
<1>4. /\ Reference[pod[p].spec[c]].tag \in Names \cup {""}
      /\ Reference[pod[p].spec[c]].tag \in ImageTags
      /\ Reference[pod[p].spec[c]].sha \in Lookup!Digests
      /\ Reference[pod[p].spec[c]].statusSHA \in SHAs
  BY <1>1, CheckAssumption DEF ImageTags, Lookup!Digests
<1> QED BY <1>1, <1>3, <1>4
        DEF ImageOf, Lookup!Unresolved, CheckedImage, Lookup!Current

LEMMA ContainerMove ==
  ASSUME TypeOK, LookupInv, NEW p \in Pods, NEW c \in Containers, Due(p, c),
         Lookup!Container(p, ImageOf(pod[p], c))
  PROVE  LookupInv' /\ image'[p].url = CheckedURL(pod[p], c)
<1> DEFINE raw == Lookup!Unresolved(ImageOf(pod[p], c))
           resolve == ImageOf(pod[p], c).opts.resolve
           img == IF resolve THEN raw ELSE Lookup!handleLatestOrEmptyTag(raw)
           label == IF resolve THEN "resolve" ELSE "search"
<1>1. raw \in CheckedImage /\ raw.url = CheckedURL(pod[p], c)
  BY ImageOfType
<1>2. /\ check[p] = "idle"
      /\ check' = [check EXCEPT ![p] = label]
      /\ image' = [image EXCEPT ![p] = img]
      /\ UNCHANGED <<running, registry, heap, imageCache, searchCache, ptr, verdict>>
  BY DEF Lookup!Container, Lookup!Goto, Lookup!envVars
<1> HIDE DEF raw, resolve
<1>3. img \in CheckedImage /\ img.url = CheckedURL(pod[p], c)
  BY <1>1, HandleImage
<1>4. label \in {"resolve", "search"}
  OBVIOUS
<1> HIDE DEF img, label
<1>5. /\ check'[p] = label /\ image'[p] = img /\ ptr'[p] = Lookup!NoPtr
      /\ ptr[p] \in Lookup!Ptr
      /\ verdict[p] \in [isLatest : BOOLEAN, read : Lookup!Tag] \cup {Absent}
      /\ ptr' = [ptr EXCEPT ![p] = ptr[p]]
      /\ verdict' = [verdict EXCEPT ![p] = verdict[p]]
  BY <1>2 DEF LookupInv, Lookup!TypeOK, HoldsOK, Holding
<1>6. HoldsOK(p)'
  BY <1>3, <1>4, <1>5 DEF HoldsOK, Holding, Pointing, Judged
<1>7. img \in Lookup!Current /\ label \in Lookup!PCs
  BY <1>3, <1>4 DEF CheckedImage, Lookup!PCs
<1> QED BY <1>2, <1>3, <1>5, <1>6, <1>7, MoveStep

\* The ends of a check.
LEMMA EndMove ==
  ASSUME LookupInv, NEW p \in Pods, Lookup!End(p),
         UNCHANGED <<running, registry, heap, imageCache, searchCache>>
  PROVE  LookupInv'
<1>1. Lookup!NoPtr \in Lookup!Ptr
  BY DEF Lookup!NoPtr, Lookup!Ptr
<1>2. check'[p] = "idle" /\ ptr'[p] = Lookup!NoPtr
  BY DEF Lookup!End, Lookup!Goto, LookupInv, Lookup!TypeOK
<1>3. HoldsOK(p)'
  BY <1>2 DEF HoldsOK, Holding, Pointing, Judged
<1> QED BY <1>1, <1>3, MoveStep DEF Lookup!End, Lookup!Goto, Lookup!PCs

\* A step that leaves image and verdict.
LEMMA PointerMove ==
  ASSUME LookupInv, NEW p \in Pods, NEW label \in Lookup!PCs, NEW q \in Lookup!Ptr,
         check[p] # "idle", label # "idle",
         UNCHANGED <<running, registry, heap, imageCache, searchCache, image, verdict>>,
         check' = [check EXCEPT ![p] = label],
         ptr' = [ptr EXCEPT ![p] = q],
         label \notin Holding => q = Lookup!NoPtr,
         label \in Holding => q.list \in Lists /\ heap[q.list].url = image[p].url,
         label \in Pointing => q.index \in DOMAIN heap[q.list].tags,
         label \in Judged => check[p] \in Judged
  PROVE  LookupInv' /\ image'[p] = image[p]
<1>1. /\ image' = [image EXCEPT ![p] = image[p]]
      /\ verdict' = [verdict EXCEPT ![p] = verdict[p]]
      /\ image[p] \in CheckedImage
      /\ verdict[p] \in [isLatest : BOOLEAN, read : Lookup!Tag] \cup {Absent}
      /\ check'[p] = label /\ image'[p] = image[p] /\ ptr'[p] = q
      /\ verdict'[p] = verdict[p] /\ heap' = heap
  BY DEF LookupInv, Lookup!TypeOK, HoldsOK
<1>2. HoldsOK(p)'
  BY <1>1 DEF LookupInv, HoldsOK
<1>3. image[p] \in Lookup!Current
  BY <1>1 DEF CheckedImage
<1> QED BY <1>1, <1>2, <1>3, MoveStep

\* A pointer to a list of the image's URL, at an index or at none.
LEMMA PtrType ==
  ASSUME NEW l \in Lists, NEW i \in Nat
  PROVE  /\ [list |-> l, index |-> i] \in Lookup!Ptr
         /\ [list |-> l, index |-> i].list = l
         /\ [list |-> l, index |-> i].index = i
BY DEF Lookup!Ptr

LEMMA LatestImageMove ==
  ASSUME LookupInv, NEW p \in Pods, Lookup!LatestImage(p)
  PROVE  LookupInv' /\ image'[p] = image[p]
<1> DEFINE key == Lookup!KeyOf(image[p])
           item == searchCache[key]
<1>1. /\ check[p] = "search" /\ image[p] \in CheckedImage
      /\ ptr[p] = Lookup!NoPtr /\ ptr[p] \in Lookup!Ptr
  BY DEF Lookup!LatestImage, LookupInv, HoldsOK, Holding, Lookup!TypeOK
<1>2. key \in URLs \X Options /\ key[1] = image[p].url
  BY <1>1 DEF Lookup!KeyOf, CheckedImage, Lookup!Current
<1>3. CASE item # Absent
  <2> DEFINE q == [list |-> item.list, index |-> item.index]
  <2>1. /\ item.list \in Lists /\ item.index \in Nat
        /\ heap[item.list].url = image[p].url
        /\ item.index \in DOMAIN heap[item.list].tags
    BY <1>2, <1>3 DEF LookupInv, Lookup!TypeOK, CachesOK
  <2>2. /\ check' = [check EXCEPT ![p] = "compare"]
        /\ ptr' = [ptr EXCEPT ![p] = q]
        /\ UNCHANGED <<running, registry, heap, imageCache, searchCache, image, verdict>>
    BY <1>3 DEF Lookup!LatestImage, Lookup!Goto, Lookup!envVars
  <2>3. q \in Lookup!Ptr /\ q.list = item.list /\ q.index = item.index
    BY <2>1, PtrType
  <2> HIDE DEF item, q
  <2> QED BY <1>1, <2>1, <2>2, <2>3, PointerMove DEF Holding, Judged, Lookup!PCs
<1>4. CASE item = Absent
  <2>1. /\ check' = [check EXCEPT ![p] = "image"]
        /\ ptr' = [ptr EXCEPT ![p] = ptr[p]]
        /\ UNCHANGED <<running, registry, heap, imageCache, searchCache, image, verdict>>
    BY <1>4 DEF Lookup!LatestImage, Lookup!Goto, Lookup!envVars, LookupInv, Lookup!TypeOK
  <2> QED BY <1>1, <2>1, PointerMove DEF Holding, Pointing, Judged, Lookup!PCs
<1> QED BY <1>3, <1>4

\* Both users of the image cache.
LEMMA GetTagsMove ==
  ASSUME LookupInv, NEW p \in Pods, NEW hit, NEW miss, Lookup!GetTags(p, hit, miss),
         \/ check[p] = "resolve" /\ hit = "match" /\ miss = "resolveFetch"
         \/ check[p] = "image" /\ hit = "select" /\ miss = "fetch"
  PROVE  LookupInv' /\ image'[p] = image[p]
<1> DEFINE item == imageCache[image[p].url]
<1>1. /\ check[p] # "idle" /\ image[p] \in CheckedImage
      /\ ptr[p] = Lookup!NoPtr /\ ptr[p] \in Lookup!Ptr
  BY DEF LookupInv, HoldsOK, Holding, Lookup!TypeOK
<1>2. image[p].url \in URLs
  BY <1>1 DEF CheckedImage, Lookup!Current
<1>3. CASE item # Absent
  <2> DEFINE q == [list |-> item.list, index |-> 0]
  <2>1. item.list \in Lists /\ heap[item.list].url = image[p].url
    BY <1>2, <1>3 DEF LookupInv, Lookup!TypeOK, CachesOK
  <2>2. /\ check' = [check EXCEPT ![p] = hit]
        /\ ptr' = [ptr EXCEPT ![p] = q]
        /\ UNCHANGED <<running, registry, heap, imageCache, searchCache, image, verdict>>
    BY <1>3 DEF Lookup!GetTags, Lookup!Goto, Lookup!envVars
  <2>3. q \in Lookup!Ptr /\ q.list = item.list
    BY <2>1, PtrType
  <2> HIDE DEF item, q
  <2> QED BY <1>1, <2>1, <2>2, <2>3, PointerMove
          DEF Holding, Pointing, Judged, Lookup!PCs
<1>4. CASE item = Absent
  <2>1. /\ check' = [check EXCEPT ![p] = miss]
        /\ ptr' = [ptr EXCEPT ![p] = ptr[p]]
        /\ UNCHANGED <<running, registry, heap, imageCache, searchCache, image, verdict>>
    BY <1>4 DEF Lookup!GetTags, Lookup!Goto, Lookup!envVars, LookupInv, Lookup!TypeOK
  <2> QED BY <1>1, <2>1, PointerMove DEF Holding, Pointing, Judged, Lookup!PCs
<1> QED BY <1>3, <1>4

\* A step back to the search, without a pointer and with another image.
LEMMA ResolvedMove ==
  ASSUME LookupInv, NEW p \in Pods, NEW img \in CheckedImage,
         UNCHANGED <<running, registry, heap, imageCache, searchCache, verdict>>,
         check' = [check EXCEPT ![p] = "search"],
         image' = [image EXCEPT ![p] = img],
         ptr' = [ptr EXCEPT ![p] = Lookup!NoPtr]
  PROVE  LookupInv' /\ image'[p] = img
<1>1. /\ verdict' = [verdict EXCEPT ![p] = verdict[p]]
      /\ verdict[p] \in [isLatest : BOOLEAN, read : Lookup!Tag] \cup {Absent}
      /\ Lookup!NoPtr \in Lookup!Ptr
      /\ check'[p] = "search" /\ image'[p] = img /\ ptr'[p] = Lookup!NoPtr
  BY DEF LookupInv, Lookup!TypeOK, Lookup!NoPtr, Lookup!Ptr
<1>2. HoldsOK(p)'
  BY <1>1 DEF HoldsOK, Holding, Pointing, Judged
<1>3. img \in Lookup!Current
  BY DEF CheckedImage
<1> QED BY <1>1, <1>2, <1>3, MoveStep DEF Lookup!PCs

LEMMA ResolveErrorMove ==
  ASSUME LookupInv, NEW p \in Pods, Lookup!ResolveError(p)
  PROVE  LookupInv' /\ image'[p].url = image[p].url
<1>1. image[p] \in CheckedImage /\ ptr[p] = Lookup!NoPtr
  BY DEF Lookup!ResolveError, LookupInv, HoldsOK, Holding
<1> DEFINE img == Lookup!handleLatestOrEmptyTag(image[p])
<1>2. img \in CheckedImage /\ img.url = image[p].url
  BY <1>1, HandleImage
<1>3. ptr' = [ptr EXCEPT ![p] = Lookup!NoPtr]
  BY <1>1 DEF Lookup!ResolveError, LookupInv, Lookup!TypeOK
<1>4. image' = [image EXCEPT ![p] = img]
  BY DEF Lookup!ResolveError
<1> HIDE DEF img
<1> QED BY <1>2, <1>3, <1>4, ResolvedMove
        DEF Lookup!ResolveError, Lookup!Goto, Lookup!envVars

\* The tags on a list are tags of its registry.
LEMMA TagOnList ==
  ASSUME LookupInv, NEW l \in Lists, NEW i \in DOMAIN heap[l].tags
  PROVE  /\ heap[l].tags[i] \in Lookup!Tag
         /\ heap[l].url \in URLs
         /\ heap[l].tags[i].name \in VersionsOf(heap[l].url)
         /\ heap[l].tags[i].name \in AllVersions
<1>1. heap[l].tags \in Seq(Lookup!Tag)
  BY DEF LookupInv, Lookup!TypeOK
<1>2. heap[l].tags[i] \in Lookup!Tag
  BY <1>1
<1>3. heap[l].url \in URLs /\ heap[l].tags[i].name \in VersionsOf(heap[l].url)
  BY DEF LookupInv, ListsOK
<1> QED BY <1>2, <1>3 DEF AllVersions

LEMMA MatchMove ==
  ASSUME LookupInv, NEW p \in Pods, Lookup!Match(p)
  PROVE  LookupInv' /\ image'[p].url = image[p].url
<1> DEFINE tags == heap[ptr[p].list].tags
           known == {i \in DOMAIN tags : Lookup!MatchesSHA(tags[i], image[p].sha)}
           first == CHOOSE i \in known : \A j \in known : i <= j
           img == IF known = {} THEN Lookup!handleLatestOrEmptyTag(image[p])
                  ELSE Lookup!handleLatestOrEmptyTag(
                         [image[p] EXCEPT !.tag = tags[first].name,
                                          !.marked = tags[first].marked])
<1>1. image[p] \in CheckedImage /\ ptr[p].list \in Lists
  BY DEF Lookup!Match, LookupInv, HoldsOK, Holding
<1>2. tags \in Seq(Lookup!Tag)
  BY <1>1 DEF LookupInv, Lookup!TypeOK
<1>3. known # {} => first \in DOMAIN tags
  <2>1. known \subseteq Nat /\ known \subseteq DOMAIN tags
    BY <1>2
  <2> HIDE DEF known
  <2> QED BY <2>1, LeastNat
<1>4. known # {} => tags[first] \in Lookup!Tag /\ tags[first].name \in AllVersions
  <2> HIDE DEF first, known
  <2> QED BY <1>1, <1>3, TagOnList
<1> HIDE DEF first, known, tags
<1>5. img \in CheckedImage /\ img.url = image[p].url
  <2>1. CASE known = {}
    BY <1>1, <2>1, HandleImage
  <2>2. CASE known # {}
    <3> DEFINE found == [image[p] EXCEPT !.tag = tags[first].name,
                                         !.marked = tags[first].marked]
    <3>1. found \in CheckedImage /\ found.url = image[p].url
      BY <1>1, <1>4, <2>2 DEF CheckedImage, Lookup!Current, Lookup!Tag, ImageTags
    <3> HIDE DEF found
    <3> QED BY <2>2, <3>1, HandleImage DEF found
  <2> QED BY <2>1, <2>2
<1>6. image' = [image EXCEPT ![p] = img]
  BY DEF Lookup!Match, first, known, tags
<1> HIDE DEF img
<1> QED BY <1>5, <1>6, ResolvedMove DEF Lookup!Match, Lookup!Goto, Lookup!envVars

LEMMA SelectMove ==
  ASSUME LookupInv, NEW p \in Pods, Lookup!Select(p)
  PROVE  LookupInv' /\ image'[p] = image[p]
<1>1. PICK n \in DOMAIN heap[ptr[p].list].tags : ptr' = [ptr EXCEPT ![p].index = n]
  BY DEF Lookup!Select
<1> DEFINE q == [list |-> ptr[p].list, index |-> n]
<1>2. /\ check[p] = "select" /\ ptr[p].list \in Lists /\ ptr[p] \in Lookup!Ptr
      /\ heap[ptr[p].list].url = image[p].url
  BY DEF Lookup!Select, LookupInv, HoldsOK, Holding, Lookup!TypeOK
<1>3. n \in Nat
  BY <1>1, <1>2 DEF LookupInv, Lookup!TypeOK
<1>4. q \in Lookup!Ptr /\ q.list = ptr[p].list /\ q.index = n
  BY <1>2, <1>3, PtrType
<1>5. ptr' = [ptr EXCEPT ![p] = q]
  <2>1. [ptr[p] EXCEPT !.index = n] = q
    BY <1>2 DEF Lookup!Ptr
  <2> QED BY <1>1, <2>1, Zenon
<1>6. /\ check' = [check EXCEPT ![p] = "commitSearch"]
      /\ UNCHANGED <<running, registry, heap, imageCache, searchCache, image, verdict>>
  BY DEF Lookup!Select, Lookup!Goto, Lookup!envVars
<1> HIDE DEF q
<1> QED BY <1>1, <1>2, <1>4, <1>5, <1>6, PointerMove DEF Holding, Judged, Lookup!PCs

\* A comparison leaves a verdict on the tag behind the pointer.
LEMMA JudgeMove ==
  ASSUME LookupInv, NEW p \in Pods, check[p] = "compare",
         NEW latest \in BOOLEAN, Lookup!Judge(p, latest),
         NEW label \in {"append", "done"}, Lookup!Goto(p, label),
         UNCHANGED <<running, registry, heap, imageCache, searchCache, image, ptr>>
  PROVE  LookupInv' /\ image'[p] = image[p]
<1> DEFINE t == Lookup!Pointee(ptr[p])
           v == [isLatest |-> latest, read |-> t]
<1>1. /\ image[p] \in CheckedImage
      /\ ptr[p] \in Lookup!Ptr /\ ptr[p].list \in Lists
      /\ heap[ptr[p].list].url = image[p].url
      /\ ptr[p].index \in DOMAIN heap[ptr[p].list].tags
  BY DEF LookupInv, Lookup!TypeOK, HoldsOK, Holding, Pointing
<1>2. t \in Lookup!Tag
  BY <1>1, TagOnList DEF Lookup!Pointee
<1>3. v \in [isLatest : BOOLEAN, read : Lookup!Tag] /\ v.isLatest \in BOOLEAN
  BY <1>2
<1>4. /\ check' = [check EXCEPT ![p] = label]
      /\ verdict' = [verdict EXCEPT ![p] = v]
  BY DEF Lookup!Judge, Lookup!Goto
<1> HIDE DEF t, v
<1>5. /\ image' = [image EXCEPT ![p] = image[p]]
      /\ ptr' = [ptr EXCEPT ![p] = ptr[p]]
      /\ check'[p] = label /\ verdict'[p] = v /\ image[p] \in Lookup!Current
  BY <1>1, <1>4 DEF LookupInv, Lookup!TypeOK, CheckedImage
<1>6. HoldsOK(p)'
  BY <1>1, <1>3, <1>5 DEF HoldsOK, Holding
<1> QED BY <1>1, <1>3, <1>4, <1>5, <1>6, MoveStep DEF Lookup!PCs

LEMMA isLatestSHAMove ==
  ASSUME LookupInv, NEW p \in Pods, Lookup!isLatestSHA(p)
  PROVE  LookupInv' /\ image'[p] = image[p]
<1> DEFINE latest == Lookup!MatchesSHA(Lookup!Pointee(ptr[p]), image[p].statusSHA)
<1>1. latest \in BOOLEAN
  BY DEF Lookup!MatchesSHA
<1>2. /\ check[p] = "compare"
      /\ Lookup!Judge(p, latest)
      /\ Lookup!Goto(p, "done")
      /\ UNCHANGED <<running, registry, heap, imageCache, searchCache, image, ptr>>
  BY DEF Lookup!isLatestSHA, Lookup!envVars
<1> HIDE DEF latest
<1> QED BY <1>1, <1>2, JudgeMove

LEMMA isLatestSemverMove ==
  ASSUME LookupInv, NEW p \in Pods, Lookup!isLatestSemver(p)
  PROVE  LookupInv' /\ image'[p] = image[p]
<1>1. /\ check[p] = "compare"
      /\ \E latest \in BOOLEAN, label \in {"append", "done"} :
           Lookup!Judge(p, latest) /\ Lookup!Goto(p, label)
      /\ UNCHANGED <<running, registry, heap, imageCache, searchCache, image, ptr>>
  BY DEF Lookup!isLatestSemver, Lookup!envVars
<1> QED BY <1>1, JudgeMove

----------------------------------------------------------------------------
(* The steps that change the heap or a cache *)

HeapList == [url : URLs \cup {Absent}, tags : Seq(Lookup!Tag), age : Lookup!Ages]

\* What a pointer relies on.
SameList(l) ==
  heap'[l].url = heap[l].url /\ DOMAIN heap'[l].tags = DOMAIN heap[l].tags

\* A check that does not move keeps what it holds.
LEMMA OthersHold ==
  ASSUME NEW x \in Pods, HoldsOK(x),
         check'[x] = check[x], image'[x] = image[x], ptr'[x] = ptr[x],
         verdict'[x] = verdict[x],
         check[x] \in Holding => SameList(ptr[x].list)
  PROVE  HoldsOK(x)'
BY DEF HoldsOK, SameList, Holding, Pointing, Judged

LEMMA CommitImageMove ==
  ASSUME LookupInv, NEW p \in Pods, Lookup!CommitImage(p)
  PROVE  LookupInv' /\ image'[p] = image[p]
<1> DEFINE item == [list |-> ptr[p].list, age |-> 0]
           label == IF check[p] = "commitImage" THEN "select" ELSE "match"
<1>1. /\ check[p] \in {"commitImage", "resolveCommit"}
      /\ ptr[p].list \in Lists
      /\ heap[ptr[p].list].url = image[p].url
      /\ image[p] \in CheckedImage
  BY DEF Lookup!CommitImage, LookupInv, HoldsOK, Holding
<1>2. image[p].url \in URLs
  BY <1>1 DEF CheckedImage, Lookup!Current
<1>3. /\ imageCache' = [imageCache EXCEPT ![image[p].url] = item]
      /\ check' = [check EXCEPT ![p] = label]
      /\ UNCHANGED <<running, registry, heap, searchCache, image, ptr, verdict>>
  BY DEF Lookup!CommitImage, Lookup!Goto, Lookup!envVars
<1>4. item \in [list : Lists, age : 0 .. CacheTimeout] /\ item.list = ptr[p].list
  BY <1>1, CheckTypes
<1>5. label \in {"select", "match"}
  OBVIOUS
<1> HIDE DEF item, label
<1>6. Lookup!TypeOK' /\ DOMAIN registry' = URLs
  BY <1>2, <1>3, <1>4, <1>5 DEF LookupInv, Lookup!TypeOK, Lookup!PCs
<1>7. ListsOK'
  BY <1>3 DEF LookupInv, ListsOK
<1>8. CachesOK'
  <2>1. ASSUME NEW u \in URLs, imageCache'[u] # Absent
        PROVE  heap[imageCache'[u].list].url = u
    <3>1. CASE u = image[p].url
      BY <1>1, <1>3, <1>4, <3>1 DEF LookupInv, Lookup!TypeOK
    <3>2. CASE u # image[p].url
      BY <1>3, <2>1, <3>2 DEF LookupInv, Lookup!TypeOK, CachesOK
    <3> QED BY <3>1, <3>2
  <2> QED BY <1>3, <2>1 DEF LookupInv, CachesOK
<1>9. ASSUME NEW x \in Pods
      PROVE  HoldsOK(x)'
  <2>1. CASE x # p
    BY <1>3, <2>1, OthersHold DEF LookupInv, Lookup!TypeOK, SameList
  <2>2. CASE x = p
    <3>1. check'[p] = label /\ image' = image /\ ptr' = ptr /\ heap' = heap
      BY <1>3 DEF LookupInv, Lookup!TypeOK
    <3> QED BY <1>1, <1>5, <2>2, <3>1 DEF HoldsOK, Holding, Pointing, Judged
  <2> QED BY <2>1, <2>2
<1> QED BY <1>3, <1>6, <1>7, <1>8, <1>9 DEF LookupInv

LEMMA CommitSearchMove ==
  ASSUME LookupInv, NEW p \in Pods, Lookup!CommitSearch(p)
  PROVE  LookupInv' /\ image'[p] = image[p]
<1> DEFINE key == Lookup!KeyOf(image[p])
           item == [list |-> ptr[p].list, index |-> ptr[p].index, age |-> 0]
<1>1. /\ check[p] = "commitSearch"
      /\ ptr[p].list \in Lists /\ ptr[p] \in Lookup!Ptr
      /\ heap[ptr[p].list].url = image[p].url
      /\ ptr[p].index \in DOMAIN heap[ptr[p].list].tags
      /\ image[p] \in CheckedImage
  BY DEF Lookup!CommitSearch, LookupInv, Lookup!TypeOK, HoldsOK, Holding, Pointing
<1>2. key \in URLs \X Options /\ key[1] = image[p].url
  BY <1>1 DEF Lookup!KeyOf, CheckedImage, Lookup!Current
<1>3. /\ searchCache' = [searchCache EXCEPT ![key] = item]
      /\ check' = [check EXCEPT ![p] = "compare"]
      /\ UNCHANGED <<running, registry, heap, imageCache, image, ptr, verdict>>
  BY DEF Lookup!CommitSearch, Lookup!Goto, Lookup!envVars
<1>4. /\ item \in [list : Lists, index : Nat, age : 0 .. CacheTimeout]
      /\ item.list = ptr[p].list /\ item.index = ptr[p].index
  BY <1>1, CheckTypes DEF Lookup!Ptr
<1> HIDE DEF item, key
<1>5. Lookup!TypeOK' /\ DOMAIN registry' = URLs
  BY <1>2, <1>3, <1>4 DEF LookupInv, Lookup!TypeOK, Lookup!PCs
<1>6. ListsOK'
  BY <1>3 DEF LookupInv, ListsOK
<1>7. CachesOK'
  <2>1. ASSUME NEW k \in URLs \X Options, searchCache'[k] # Absent
        PROVE  /\ heap[searchCache'[k].list].url = k[1]
               /\ searchCache'[k].index \in DOMAIN heap[searchCache'[k].list].tags
    <3>1. CASE k = key
      <4>1. searchCache'[k] = item
        BY <1>3, <3>1 DEF LookupInv, Lookup!TypeOK
      <4> QED BY <1>1, <1>2, <1>4, <3>1, <4>1
    <3>2. CASE k # key
      <4>1. searchCache'[k] = searchCache[k]
        BY <1>3, <3>2 DEF LookupInv, Lookup!TypeOK
      <4> QED BY <2>1, <4>1 DEF LookupInv, CachesOK
    <3> QED BY <3>1, <3>2
  <2> QED BY <1>3, <2>1 DEF LookupInv, CachesOK
<1>8. ASSUME NEW x \in Pods
      PROVE  HoldsOK(x)'
  <2>1. CASE x # p
    BY <1>3, <2>1, OthersHold DEF LookupInv, Lookup!TypeOK, SameList
  <2>2. CASE x = p
    <3>1. check'[p] = "compare" /\ image' = image /\ ptr' = ptr /\ heap' = heap
      BY <1>3 DEF LookupInv, Lookup!TypeOK
    <3> QED BY <1>1, <2>2, <3>1 DEF HoldsOK, Holding, Pointing, Judged
  <2> QED BY <2>1, <2>2
<1> QED BY <1>3, <1>5, <1>6, <1>7, <1>8 DEF LookupInv

\* The append marks a tag, and leaves its name and its place.
LEMMA AppendSHAMove ==
  ASSUME LookupInv, NEW p \in Pods, Lookup!AppendSHA(p)
  PROVE  LookupInv' /\ image'[p] = image[p]
<1> DEFINE l == ptr[p].list
           i == ptr[p].index
           t == [heap[l].tags[i] EXCEPT !.marked = TRUE]
           tags == [heap[l].tags EXCEPT ![i] = t]
           list == [heap[l] EXCEPT !.tags = tags]
<1>1. /\ check[p] = "append" /\ l \in Lists /\ i \in DOMAIN heap[l].tags
      /\ heap[l].url = image[p].url /\ image[p] \in CheckedImage
      /\ verdict[p].isLatest \in BOOLEAN
  BY DEF Lookup!AppendSHA, LookupInv, HoldsOK, Holding, Pointing, Judged
<1>2. heap \in [Lists -> HeapList]
  BY DEF LookupInv, Lookup!TypeOK, HeapList
<1>3. heap[l].tags \in Seq(Lookup!Tag)
  BY <1>1, <1>2 DEF HeapList
<1>4. t \in Lookup!Tag /\ t.name = heap[l].tags[i].name
  <2>1. heap[l].tags[i] \in Lookup!Tag
    BY <1>1, TagOnList
  <2> QED BY <2>1 DEF Lookup!Tag
<1>5. tags \in Seq(Lookup!Tag) /\ DOMAIN tags = DOMAIN heap[l].tags
  <2>1. tags \in Seq(Lookup!Tag) /\ Len(tags) = Len(heap[l].tags)
    <3> HIDE DEF t, l, i
    <3> QED BY <1>1, <1>3, <1>4, ExceptSeq
  <2> QED BY <1>3, <2>1
<1>6. \A j \in DOMAIN tags : tags[j].name = heap[l].tags[j].name
  <2> HIDE DEF t
  <2> QED BY <1>1, <1>3, <1>4, <1>5
<1>7. /\ heap' = [heap EXCEPT ![l] = list]
      /\ check' = [check EXCEPT ![p] = "done"]
      /\ UNCHANGED <<running, registry, imageCache, searchCache, image, ptr, verdict>>
  BY DEF Lookup!AppendSHA, Lookup!Goto, Lookup!envVars
<1> HIDE DEF tags
<1>8. list \in HeapList /\ list.url = heap[l].url /\ list.tags = tags
  BY <1>1, <1>2, <1>5 DEF HeapList
<1> HIDE DEF list
<1>9. ASSUME NEW m \in Lists
      PROVE  /\ SameList(m)
             /\ \A j \in DOMAIN heap'[m].tags :
                  heap'[m].tags[j].name = heap[m].tags[j].name
  BY <1>1, <1>2, <1>5, <1>6, <1>7, <1>8 DEF SameList
<1>10. Lookup!TypeOK' /\ DOMAIN registry' = URLs
  <2>1. heap' \in [Lists -> HeapList]
    BY <1>2, <1>7, <1>8
  <2> QED BY <1>7, <2>1 DEF LookupInv, Lookup!TypeOK, HeapList, Lookup!PCs
<1>11. ListsOK'
  BY <1>9 DEF LookupInv, ListsOK, SameList
<1>12. CachesOK'
  BY <1>7, <1>9 DEF LookupInv, Lookup!TypeOK, CachesOK, SameList
<1>13. ASSUME NEW x \in Pods
       PROVE  HoldsOK(x)'
  <2>1. HoldsOK(x) /\ (check[x] \in Holding => SameList(ptr[x].list))
    BY <1>9 DEF LookupInv, HoldsOK
  <2>2. CASE x # p
    BY <1>7, <2>1, <2>2, OthersHold DEF LookupInv, Lookup!TypeOK
  <2>3. CASE x = p
    <3>1. check'[p] = "done" /\ image' = image /\ ptr' = ptr /\ verdict' = verdict
      BY <1>7 DEF LookupInv, Lookup!TypeOK
    <3>2. SameList(ptr[p].list)
      BY <1>1, <1>9
    <3> QED BY <1>1, <2>3, <3>1, <3>2 DEF HoldsOK, Holding, Pointing, SameList
  <2> QED BY <2>2, <2>3
<1> QED BY <1>7, <1>10, <1>11, <1>12, <1>13 DEF LookupInv

\* The answer of a registry goes where nobody looks.
LEMMA FetchMove ==
  ASSUME LookupInv, NEW p \in Pods, Lookup!Fetch(p)
  PROVE  LookupInv' /\ image'[p] = image[p]
<1> DEFINE u0 == image[p].url
           new == Lookup!NewList
           list == [url |-> u0, tags |-> registry[u0], age |-> 0]
           q == [list |-> new, index |-> 0]
           label == IF check[p] = "fetch" THEN "commitImage" ELSE "resolveCommit"
<1>1. check[p] \in {"fetch", "resolveFetch"} /\ image[p] \in CheckedImage
  BY DEF Lookup!Fetch, LookupInv, HoldsOK
<1>2. u0 \in URLs
  BY <1>1 DEF CheckedImage, Lookup!Current
<1>3. new \in Lists /\ new \notin Lookup!InUse
  BY DEF Lookup!Fetch, Lookup!NewList
<1>4. /\ heap' = [heap EXCEPT ![new] = list]
      /\ ptr' = [ptr EXCEPT ![p] = q]
      /\ check' = [check EXCEPT ![p] = label]
      /\ UNCHANGED <<running, registry, imageCache, searchCache, image, verdict>>
  BY DEF Lookup!Fetch, Lookup!Goto, Lookup!envVars
<1>5. /\ list \in HeapList
      /\ list.url = u0
      /\ \A i \in DOMAIN list.tags : list.tags[i].name \in VersionsOf(u0)
  <2>1. registry[u0] \in Seq(Lookup!Tag) /\ registry[u0] \in TagLists[u0]
    BY <1>2, CheckTypes DEF LookupInv, Lookup!TypeOK
  <2>2. 0 \in Lookup!Ages
    BY CheckTypes DEF Lookup!Ages, Lookup!MaxAge
  <2>3. \A i \in DOMAIN registry[u0] : registry[u0][i].name \in VersionsOf(u0)
    BY <2>1 DEF VersionsOf
  <2> HIDE DEF u0
  <2> QED BY <1>2, <2>1, <2>2, <2>3 DEF HeapList
<1>6. q \in Lookup!Ptr /\ q.list = new
  BY <1>3, PtrType
<1>7. label \in {"commitImage", "resolveCommit"}
  OBVIOUS
<1>8. /\ \A u \in URLs : imageCache[u] # Absent => imageCache[u].list \in Lookup!InUse
      /\ \A k \in URLs \X Options :
           searchCache[k] # Absent => searchCache[k].list \in Lookup!InUse
      /\ \A x \in Pods : ptr[x].list \in Lookup!InUse
  BY DEF Lookup!InUse
<1> HIDE DEF list, q, label, new, u0
<1>9. heap \in [Lists -> HeapList] /\ heap' \in [Lists -> HeapList]
  BY <1>3, <1>4, <1>5 DEF LookupInv, Lookup!TypeOK, HeapList
<1>10. \A l \in Lists : l \in Lookup!InUse => heap'[l] = heap[l]
  BY <1>3, <1>4, <1>9
<1>11. Lookup!TypeOK' /\ DOMAIN registry' = URLs
  BY <1>4, <1>6, <1>7, <1>9 DEF LookupInv, Lookup!TypeOK, HeapList, Lookup!PCs
<1>12. ListsOK'
  BY <1>2, <1>3, <1>4, <1>5, <1>9 DEF LookupInv, ListsOK
<1>13. CachesOK'
  BY <1>4, <1>8, <1>10 DEF LookupInv, Lookup!TypeOK, CachesOK
<1>14. ASSUME NEW x \in Pods
       PROVE  HoldsOK(x)'
  <2>1. CASE x # p
    <3>1. check[x] \in Holding => SameList(ptr[x].list)
      BY <1>8, <1>10 DEF LookupInv, HoldsOK, SameList
    <3> QED BY <1>4, <2>1, <3>1, OthersHold DEF LookupInv, Lookup!TypeOK
  <2>2. CASE x = p
    <3>1. check'[p] = label /\ image' = image /\ ptr'[p] = q /\ heap'[new] = list
      BY <1>3, <1>4 DEF LookupInv, Lookup!TypeOK
    <3>2. list.url = image[p].url
      BY <1>5 DEF u0
    <3> QED BY <1>1, <1>3, <1>6, <1>7, <2>2, <3>1, <3>2
            DEF HoldsOK, Holding, Pointing, Judged
  <2> QED BY <2>1, <2>2
<1> QED BY <1>4, <1>11, <1>12, <1>13, <1>14 DEF LookupInv

\* Time changes ages, and frees what nobody uses; no check holds a list then.
LEMMA TickMove ==
  ASSUME LookupInv, Lookup!Tick
  PROVE  LookupInv' /\ UNCHANGED <<check, image>>
<1> DEFINE older(l) == [heap[l] EXCEPT !.age = Lookup!Older(heap[l].age)]
<1>1. /\ \A p \in Pods : check[p] \in {"idle", "fetch", "resolveFetch"}
      /\ heap' = [l \in Lists |-> IF l \in Lookup!InUse THEN older(l)
                                  ELSE Lookup!FreeList]
      /\ imageCache' = [u \in URLs |-> Lookup!Expire(imageCache[u])]
      /\ searchCache' = [k \in URLs \X Options |-> Lookup!Expire(searchCache[k])]
      /\ UNCHANGED <<running, registry, check, image, ptr, verdict>>
  BY DEF Lookup!Tick, Lookup!envVars
<1>2. CacheTimeout \in Nat /\ Lookup!MaxAge \in Nat
  BY CheckTypes DEF Lookup!MaxAge
<1>3. heap \in [Lists -> HeapList]
  BY DEF LookupInv, Lookup!TypeOK, HeapList
<1>4. ASSUME NEW l \in Lists
      PROVE  /\ older(l) \in HeapList
             /\ older(l).url = heap[l].url
             /\ older(l).tags = heap[l].tags
  <2>1. heap[l] \in HeapList
    BY <1>3
  <2>2. Lookup!Older(heap[l].age) \in Lookup!Ages
    BY <1>2, <2>1 DEF HeapList, Lookup!Ages, Lookup!Older
  <2> QED BY <2>1, <2>2 DEF HeapList
<1>5. Lookup!FreeList \in HeapList /\ Lookup!FreeList.tags = <<>>
  BY <1>2 DEF Lookup!FreeList, HeapList, Lookup!Ages
<1> HIDE DEF older
<1>6. heap' \in [Lists -> HeapList]
  BY <1>1, <1>4, <1>5
<1>7. ASSUME NEW u \in URLs, imageCache'[u] # Absent
      PROVE  /\ imageCache[u] # Absent
             /\ imageCache'[u] \in [list : Lists, age : 0 .. CacheTimeout]
             /\ imageCache'[u].list = imageCache[u].list
             /\ heap'[imageCache[u].list] = older(imageCache[u].list)
  <2>1. imageCache'[u] = Lookup!Expire(imageCache[u])
    BY <1>1
  <2>2. /\ imageCache[u] # Absent
        /\ \/ imageCache'[u] = imageCache[u]
           \/ /\ ~ (imageCache[u].age >= CacheTimeout)
              /\ imageCache'[u] = [imageCache[u] EXCEPT !.age = imageCache[u].age + 1]
    BY <1>7, <2>1 DEF Lookup!Expire
  <2>3. imageCache[u] \in [list : Lists, age : 0 .. CacheTimeout]
    BY <2>2 DEF LookupInv, Lookup!TypeOK
  <2>4. imageCache[u].list \in Lookup!InUse
    BY <2>2 DEF Lookup!InUse
  <2> QED BY <1>1, <1>2, <2>2, <2>3, <2>4
<1>8. ASSUME NEW k \in URLs \X Options, searchCache'[k] # Absent
      PROVE  /\ searchCache[k] # Absent
             /\ searchCache'[k] \in
                  [list : Lists, index : Nat, age : 0 .. CacheTimeout]
             /\ searchCache'[k].list = searchCache[k].list
             /\ searchCache'[k].index = searchCache[k].index
             /\ heap'[searchCache[k].list] = older(searchCache[k].list)
  <2>1. searchCache'[k] = Lookup!Expire(searchCache[k])
    BY <1>1
  <2>2. /\ searchCache[k] # Absent
        /\ \/ searchCache'[k] = searchCache[k]
           \/ /\ ~ (searchCache[k].age >= CacheTimeout)
              /\ searchCache'[k] = [searchCache[k] EXCEPT !.age = searchCache[k].age + 1]
    BY <1>8, <2>1 DEF Lookup!Expire
  <2>3. searchCache[k] \in [list : Lists, index : Nat, age : 0 .. CacheTimeout]
    BY <2>2 DEF LookupInv, Lookup!TypeOK
  <2>4. searchCache[k].list \in Lookup!InUse
    BY <2>2 DEF Lookup!InUse
  <2> QED BY <1>1, <1>2, <2>2, <2>3, <2>4
<1>9. Lookup!TypeOK' /\ DOMAIN registry' = URLs
  <2>1. imageCache' \in
          [URLs -> [list : Lists, age : 0 .. CacheTimeout] \cup {Absent}]
    BY <1>1, <1>7
  <2>2. searchCache' \in
          [URLs \X Options ->
             [list : Lists, index : Nat, age : 0 .. CacheTimeout] \cup {Absent}]
    BY <1>1, <1>8
  <2> QED BY <1>1, <1>6, <2>1, <2>2 DEF LookupInv, Lookup!TypeOK, HeapList
<1>10. ListsOK'
  <2> SUFFICES ASSUME NEW l \in Lists, NEW i \in DOMAIN heap'[l].tags
               PROVE  /\ heap'[l].url \in URLs
                      /\ heap'[l].tags[i].name \in VersionsOf(heap'[l].url)
    BY DEF ListsOK
  <2>1. heap'[l] = older(l)
    BY <1>1, <1>5
  <2> QED BY <1>4, <2>1 DEF LookupInv, ListsOK
<1>11. CachesOK'
  <2>1. ASSUME NEW u \in URLs, imageCache'[u] # Absent
        PROVE  heap'[imageCache'[u].list].url = u
    <3>1. imageCache[u].list \in Lists /\ heap[imageCache[u].list].url = u
      BY <1>7, <2>1 DEF LookupInv, CachesOK
    <3> QED BY <1>4, <1>7, <2>1, <3>1
  <2>2. ASSUME NEW k \in URLs \X Options, searchCache'[k] # Absent
        PROVE  /\ heap'[searchCache'[k].list].url = k[1]
               /\ searchCache'[k].index \in DOMAIN heap'[searchCache'[k].list].tags
    <3>1. /\ searchCache[k].list \in Lists
          /\ heap[searchCache[k].list].url = k[1]
          /\ searchCache[k].index \in DOMAIN heap[searchCache[k].list].tags
      BY <1>8, <2>2 DEF LookupInv, CachesOK
    <3> QED BY <1>4, <1>8, <2>2, <3>1
  <2> QED BY <2>1, <2>2 DEF CachesOK
<1>12. ASSUME NEW x \in Pods
       PROVE  HoldsOK(x)'
  <2>1. check[x] \notin Holding
    BY <1>1 DEF Holding
  <2> QED BY <1>1, <2>1, OthersHold DEF LookupInv
<1> QED BY <1>1, <1>9, <1>10, <1>11, <1>12 DEF LookupInv

LEMMA PushMove ==
  ASSUME LookupInv, NEW u \in URLs, Lookup!Push(u)
  PROVE  LookupInv' /\ UNCHANGED <<check, image>>
<1>1. /\ UNCHANGED <<running, heap, imageCache, searchCache, check, image, ptr, verdict>>
      /\ \E tags \in TagLists[u] : registry' = [registry EXCEPT ![u] = tags]
  BY DEF Lookup!Push
<1>2. Lookup!TypeOK' /\ DOMAIN registry' = URLs
  BY <1>1 DEF LookupInv, Lookup!TypeOK
<1>3. ListsOK' /\ CachesOK'
  BY <1>1 DEF LookupInv, ListsOK, CachesOK
<1>4. \A x \in Pods : HoldsOK(x)'
  BY <1>1 DEF LookupInv, HoldsOK
<1> QED BY <1>1, <1>2, <1>3, <1>4 DEF LookupInv

\* A process starts with empty caches and without checks.
NothingCached ==
  /\ running \in {AllImages}
  /\ \A u \in URLs : registry[u] \in TagLists[u]
  /\ DOMAIN registry = URLs
  /\ heap = [l \in Lists |-> Lookup!FreeList]
  /\ imageCache = [u \in URLs |-> Absent]
  /\ searchCache = [k \in URLs \X Options |-> Absent]
  /\ check = [p \in Pods |-> "idle"]
  /\ image = [p \in Pods |-> Absent]
  /\ ptr = [p \in Pods |-> Lookup!NoPtr]
  /\ verdict = [p \in Pods |-> Absent]

LEMMA NothingHeld == NothingCached => LookupInv
<1> SUFFICES ASSUME NothingCached PROVE LookupInv
  OBVIOUS
<1>1. Lookup!FreeList \in HeapList /\ Lookup!FreeList.tags = <<>>
  BY CheckTypes DEF Lookup!FreeList, HeapList, Lookup!Ages, Lookup!MaxAge
<1>2. Lookup!TypeOK
  BY <1>1 DEF NothingCached, Lookup!TypeOK, HeapList, Lookup!NoPtr, Lookup!Ptr, Lookup!PCs
<1>3. ListsOK /\ CachesOK
  BY <1>1 DEF NothingCached, ListsOK, CachesOK
<1>4. \A p \in Pods : HoldsOK(p)
  BY DEF NothingCached, HoldsOK, Holding, Pointing, Judged
<1> QED BY <1>2, <1>3, <1>4 DEF NothingCached, LookupInv

LEMMA NothingHeldNext == NothingCached' => LookupInv'
BY NothingHeld, PTL

\* A step of the check of p keeps the image's URL until it ends, and leaves
\* the checks of other pods alone.
LEMMA CheckMove ==
  ASSUME LookupInv, NEW p \in Pods, Lookup!Check(p)
  PROVE  /\ LookupInv'
         /\ check[p] # "idle"
         /\ check'[p] # "idle" => image'[p].url = image[p].url
         /\ \A q \in Pods \ {p} : check'[q] = check[q] /\ image'[q] = image[q]
<1>1. /\ check[p] # "idle"
      /\ \A q \in Pods \ {p} : check'[q] = check[q] /\ image'[q] = image[q]
  BY DEF Lookup!Check, Lookup!ResolveSHAToTag, Lookup!ResolveError, Lookup!Match,
         Lookup!LatestImage, Lookup!LatestTagFromImage, Lookup!Fetch,
         Lookup!FetchError, Lookup!CommitImage, Lookup!Select, Lookup!SelectError,
         Lookup!CommitSearch, Lookup!isLatestSHA, Lookup!isLatestSemver,
         Lookup!AppendSHA, Lookup!Report,
         Lookup!GetTags, Lookup!Goto, Lookup!End, LookupInv, Lookup!TypeOK
<1>2. CASE Lookup!ResolveSHAToTag(p) \/ Lookup!LatestTagFromImage(p)
  BY <1>1, <1>2, GetTagsMove DEF Lookup!ResolveSHAToTag, Lookup!LatestTagFromImage
<1>3. CASE Lookup!FetchError(p) \/ Lookup!SelectError(p) \/ Lookup!Report(p)
  <2>1. Lookup!End(p) /\ UNCHANGED <<running, registry, heap, imageCache, searchCache>>
    BY <1>3 DEF Lookup!FetchError, Lookup!SelectError, Lookup!Report, Lookup!envVars
  <2>2. check'[p] = "idle"
    BY <2>1 DEF Lookup!End, Lookup!Goto, LookupInv, Lookup!TypeOK
  <2> QED BY <1>1, <2>1, <2>2, EndMove
<1> QED BY <1>1, <1>2, <1>3, ResolveErrorMove, MatchMove, LatestImageMove, FetchMove,
           CommitImageMove, SelectMove, CommitSearchMove, isLatestSHAMove,
           isLatestSemverMove, AppendSHAMove
        DEF Lookup!Check

----------------------------------------------------------------------------
(* The composed system: every step keeps the invariant *)

\* A container stays due while the reconciliation of its pod does not move.
LEMMA DueKept ==
  ASSUME NEW q \in Pods, NEW c \in Containers, Due(q, c),
         pc'[q] = pc[q], todo'[q] = todo[q], pod'[q] = pod[q]
  PROVE  Due(q, c)' /\ CheckedURL(pod[q], c)' = CheckedURL(pod[q], c)
BY DEF Due, Checked, Turn, First, ModeOf, CheckedURL

\* Who moves which reconciliation.
LEMMA OthersWork ==
  ASSUME TypeOK, NEW p \in Pods, NEW q \in Pods,
         \/ Cluster(p) \/ Informers(p)
         \/ q # p /\ (Dequeue(p) \/ Reconcile(p))
  PROVE  pc'[q] = pc[q] /\ todo'[q] = todo[q] /\ pod'[q] = pod[q]
<1> USE DEF workVars
<1>1. CASE Cluster(p)
  BY <1>1, ClusterStep DEF TypeOK
<1>2. CASE Informers(p)
  BY <1>2 DEF Informers, PodCacheSync, OnCreate, OnUpdate, OnDelete, OnResync,
              TimerFires, MetaSync
<1>3. CASE q # p /\ Dequeue(p)
  BY <1>3 DEF Dequeue, TypeOK, VariablesOK
<1>4. CASE q # p /\ Reconcile(p)
  <2>1. ASSUME NEW c \in Containers, SyncContainer(p, c)
        PROVE  pc'[q] = pc[q] /\ todo'[q] = todo[q] /\ pod'[q] = pod[q]
    BY <1>4, <2>1
    DEF SyncContainer, SyncDisabled, SyncInvalid, SyncNotReady, SyncResult,
        SyncError, SyncPanic, RegisterDuration, Unwind, SkipContainer, AfterCheck,
        EndReconcile, TypeOK, VariablesOK
  <2> QED BY <1>4, <2>1
          DEF Reconcile, GetPod, GetError, RemoveNotFound, FinishReconcile,
              EndReconcile, TypeOK, VariablesOK
<1> QED BY <1>1, <1>2, <1>3, <1>4

\* Without a result no series gets a version.
LEMMA NoNewVersions ==
  ASSUME TypeOK, NEW p \in Pods,
         Cluster(p) \/ Informers(p) \/ Dequeue(p) \/ Unchecked(p)
  PROVE  containerImageVersion' \subseteq containerImageVersion
<1> USE DEF metricsVars
<1>1. \A labels : DeletePartialMatch(containerImageVersion, labels)
                    \subseteq containerImageVersion
  BY DEF DeletePartialMatch
<1>2. CASE Cluster(p)
  BY <1>2, ClusterStep DEF TypeOK
<1>3. CASE Informers(p)
  BY <1>1, <1>3 DEF Informers, PodCacheSync, OnCreate, OnUpdate, OnDelete, OnResync,
                    TimerFires, MetaSync, RemovePod, RemoveMatching
<1>4. CASE Dequeue(p)
  BY <1>4 DEF Dequeue
<1>5. CASE Unchecked(p)
  <2>1. ASSUME NEW c \in Containers, SyncContainer(p, c)
        PROVE  containerImageVersion' \subseteq containerImageVersion
    BY <1>1, <1>5, <2>1
    DEF Unchecked, Due, SyncContainer, SyncDisabled, SyncInvalid, SyncNotReady,
        SyncResult, SyncError, SyncPanic, RegisterDuration, Unwind, RemoveImage,
        RemoveMatching, ReportError, RegisterImageDuration
  <2> QED BY <1>1, <1>5, <2>1
          DEF Unchecked, Reconcile, GetPod, GetError, RemoveNotFound, FinishReconcile,
              RemovePod, RemoveMatching
<1> QED BY <1>2, <1>3, <1>4, <1>5

LEMMA ReportedKept ==
  ASSUME ReportedOfURL, containerImageVersion' \subseteq containerImageVersion
  PROVE  ReportedOfURL'
BY DEF ReportedOfURL

\* A check that is done reports a tag of the URL that it is about, or none.
LEMMA ResultType ==
  ASSUME LookupInv, NEW p \in Pods, check[p] = "done"
  PROVE  /\ ResultOf(p) \in Versions
         /\ ResultOf(p).latest \in VersionsOf(image[p].url) \cup {""}
<1>1. /\ image[p] \in CheckedImage
      /\ ptr[p].list \in Lists /\ heap[ptr[p].list].url = image[p].url
      /\ ptr[p].index \in DOMAIN heap[ptr[p].list].tags
      /\ verdict[p].isLatest \in BOOLEAN
  BY DEF LookupInv, HoldsOK, Holding, Pointing, Judged
<1>2. /\ Lookup!Pointee(ptr[p]).name \in VersionsOf(image[p].url)
      /\ Lookup!Pointee(ptr[p]).name \in AllVersions
  BY <1>1, TagOnList DEF Lookup!Pointee
<1>3. image[p].tag \in ImageTags
  BY <1>1 DEF CheckedImage
<1>4. /\ ResultOf(p) \in Results
      /\ ResultOf(p).latest \in {Lookup!Pointee(ptr[p]).name, ""}
  BY <1>1, <1>2, <1>3 DEF ResultOf, Results, ImageTags
<1> QED BY <1>2, <1>4, CheckAssumption

\* The turn is that of one container.
LEMMA OneTurn ==
  ASSUME TypeOK, NEW p \in Pods, NEW c \in Containers, NEW d \in Containers,
         Turn(p, c), Turn(p, d)
  PROVE  c = d
<1>1. Containers \subseteq Nat
  BY ContainersAssumption DEF Containers
<1>2. c <= d /\ d <= c
  BY DEF Turn, First
<1> QED BY <1>1, <1>2

\* What the check under way is about is what the controller adds a series of.
LEMMA ReportsResult ==
  ASSUME SystemInv, NEW p \in Pods, NEW c \in Containers, CheckReports(p, c)
  PROVE  /\ SyncResult(p, c)
         /\ ResultOf(p).latest \in VersionsOf(image[p].url) \cup {""}
         /\ ReportedOfURL'
<1>1. check[p] = "done"
  BY DEF CheckReports, Lookup!Report
<1>2. PICK d \in Containers : Due(p, d) /\ image[p].url = CheckedURL(pod[p], d)
  BY <1>1 DEF SystemInv, ChecksDue
<1>3. d = c
  BY <1>2, OneTurn DEF CheckReports, Due, Checked, SystemInv
<1>4. /\ ResultOf(p) \in Versions
      /\ ResultOf(p).latest \in VersionsOf(image[p].url) \cup {""}
  BY <1>1, ResultType DEF SystemInv
<1>5. SyncResult(p, c)
  BY <1>2, <1>3, <1>4 DEF CheckReports, SyncResult, Due
<1>6. ReportedOfURL'
  <2> DEFINE new == buildFullLabels(p, c, image[p].url, ResultOf(p))
  <2>1. containerImageVersion' \subseteq containerImageVersion \cup {new}
    BY DEF CheckReports, AddImage, DeletePartialMatch
  <2>2. new.image = image[p].url /\ new.version.latest = ResultOf(p).latest
    BY DEF buildFullLabels
  <2> HIDE DEF new
  <2> QED BY <1>4, <2>1, <2>2 DEF SystemInv, ReportedOfURL
<1> QED BY <1>4, <1>5, <1>6

\* The steps that leave every check alone.
LEMMA ChecksDueKept ==
  ASSUME ChecksDue, UNCHANGED <<check, image>>,
         \A q \in Pods : check[q] # "idle" =>
           pc'[q] = pc[q] /\ todo'[q] = todo[q] /\ pod'[q] = pod[q]
  PROVE  ChecksDue'
<1> SUFFICES ASSUME NEW q \in Pods, check'[q] # "idle"
             PROVE  \E c \in Containers :
                      Due(q, c)' /\ image'[q].url = CheckedURL(pod[q], c)'
  BY DEF ChecksDue
<1>1. PICK c \in Containers : Due(q, c) /\ image[q].url = CheckedURL(pod[q], c)
  BY DEF ChecksDue
<1> QED BY <1>1, DueKept

LEMMA OthersInv ==
  ASSUME SystemInv, NEW p \in Pods, Others(p)
  PROVE  LookupInv' /\ ChecksDue' /\ ReportedOfURL'
<1>1. UNCHANGED <<running, registry, heap, imageCache, searchCache, check, image,
                  ptr, verdict>>
  BY DEF Others, lookupVars
<1>2. LookupInv'
  <2>1. Lookup!TypeOK' /\ DOMAIN registry' = URLs
    BY <1>1 DEF SystemInv, LookupInv, Lookup!TypeOK
  <2>2. ListsOK' /\ CachesOK'
    BY <1>1 DEF SystemInv, LookupInv, ListsOK, CachesOK
  <2>3. \A x \in Pods : HoldsOK(x)'
    BY <1>1 DEF SystemInv, LookupInv, HoldsOK
  <2> QED BY <2>1, <2>2, <2>3 DEF LookupInv
<1>3. ASSUME NEW q \in Pods, check[q] # "idle"
      PROVE  pc'[q] = pc[q] /\ todo'[q] = todo[q] /\ pod'[q] = pod[q]
  <2>1. PICK c \in Containers : Due(q, c)
    BY <1>3 DEF SystemInv, ChecksDue
  <2>2. pc[q] = "sync"
    BY <2>1 DEF Due, Checked, Turn
  <2>3. \/ Cluster(p) \/ Informers(p)
        \/ q # p /\ (Dequeue(p) \/ Reconcile(p))
    BY <2>1, <2>2 DEF Others, Unchecked, Dequeue
  <2> QED BY <2>3, OthersWork DEF SystemInv
<1>4. ChecksDue'
  BY <1>1, <1>3, ChecksDueKept DEF SystemInv
<1>5. ReportedOfURL'
  BY NoNewVersions, ReportedKept DEF SystemInv, Others
<1> QED BY <1>2, <1>4, <1>5

\* A step within a check is none of the controller.
LEMMA CheckStepInv ==
  ASSUME SystemInv, NEW p \in Pods,
         CheckStep(p) \/ \E c \in Containers : StartCheck(p, c)
  PROVE  LookupInv' /\ ChecksDue' /\ ReportedOfURL' /\ UNCHANGED vars
<1>1. UNCHANGED vars
  BY DEF CheckStep, StartCheck
<1>2. ReportedOfURL'
  BY <1>1 DEF vars, metricsVars, SystemInv, ReportedOfURL
<1>3. UNCHANGED <<pc, pod, todo>>
  BY <1>1 DEF vars, workVars
<1>4. ASSUME NEW q \in Pods, q # p, check'[q] # "idle",
             check'[q] = check[q], image'[q] = image[q]
      PROVE  \E c \in Containers :
               Due(q, c)' /\ image'[q].url = CheckedURL(pod[q], c)'
  <2>1. PICK c \in Containers : Due(q, c) /\ image[q].url = CheckedURL(pod[q], c)
    BY <1>4 DEF SystemInv, ChecksDue
  <2> QED BY <1>3, <1>4, <2>1, DueKept
<1>5. CASE CheckStep(p)
  <2>1. /\ LookupInv'
        /\ check[p] # "idle" /\ image'[p].url = image[p].url
        /\ \A q \in Pods \ {p} : check'[q] = check[q] /\ image'[q] = image[q]
    BY <1>5, CheckMove DEF CheckStep, SystemInv
  <2>2. PICK c \in Containers : Due(p, c) /\ image[p].url = CheckedURL(pod[p], c)
    BY <2>1 DEF SystemInv, ChecksDue
  <2>3. Due(p, c)' /\ image'[p].url = CheckedURL(pod[p], c)'
    BY <1>3, <2>1, <2>2, DueKept
  <2>4. ChecksDue'
    BY <1>4, <2>1, <2>3 DEF ChecksDue
  <2> QED BY <1>1, <1>2, <2>1, <2>4
<1>6. ASSUME NEW c \in Containers, StartCheck(p, c)
      PROVE  LookupInv' /\ ChecksDue'
  <2>1. Due(p, c) /\ Lookup!Container(p, ImageOf(pod[p], c))
    BY <1>6 DEF StartCheck
  <2>2. LookupInv' /\ image'[p].url = CheckedURL(pod[p], c)
    BY <2>1, ContainerMove DEF SystemInv
  <2>3. \A q \in Pods \ {p} : check'[q] = check[q] /\ image'[q] = image[q]
    BY <2>1 DEF Lookup!Container, Lookup!Goto, SystemInv, LookupInv, Lookup!TypeOK
  <2>4. Due(p, c)' /\ image'[p].url = CheckedURL(pod[p], c)'
    BY <1>3, <2>1, <2>2, DueKept
  <2>5. ChecksDue'
    BY <1>4, <2>3, <2>4 DEF ChecksDue
  <2> QED BY <2>2, <2>5
<1> QED BY <1>1, <1>2, <1>5, <1>6

\* The end of a check is the step of the controller that PodController takes
\* for all of it.
LEMMA CheckEndInv ==
  ASSUME SystemInv, NEW p \in Pods, NEW c \in Containers,
         CheckReports(p, c) \/ CheckFails(p, c)
  PROVE  /\ LookupInv' /\ ChecksDue' /\ ReportedOfURL'
         /\ SyncResult(p, c) \/ SyncError(p, c)
<1>1. Lookup!Check(p) /\ check'[p] = "idle"
  <2>1. CASE CheckReports(p, c)
    BY <2>1 DEF CheckReports, Lookup!Check, Lookup!Report, Lookup!End, Lookup!Goto,
                SystemInv, LookupInv, Lookup!TypeOK
  <2>2. CASE CheckFails(p, c)
    BY <2>2 DEF CheckFails
  <2> QED BY <2>1, <2>2
<1>2. /\ LookupInv'
      /\ \A q \in Pods \ {p} : check'[q] = check[q] /\ image'[q] = image[q]
  BY <1>1, CheckMove DEF SystemInv
<1>3. /\ SyncResult(p, c) \/ SyncError(p, c)
      /\ ReportedOfURL'
  <2>1. CASE CheckReports(p, c)
    BY <2>1, ReportsResult
  <2>2. CASE CheckFails(p, c)
    BY <2>2 DEF CheckFails, SyncError, ReportError, SystemInv, ReportedOfURL
  <2> QED BY <2>1, <2>2
<1>4. Reconcile(p)
  BY <1>3 DEF Reconcile, SyncContainer
<1>5. ChecksDue'
  <2> SUFFICES ASSUME NEW q \in Pods, check'[q] # "idle"
               PROVE  \E d \in Containers :
                        Due(q, d)' /\ image'[q].url = CheckedURL(pod[q], d)'
    BY DEF ChecksDue
  <2>1. q # p /\ check'[q] = check[q] /\ image'[q] = image[q]
    BY <1>1, <1>2
  <2>2. PICK d \in Containers : Due(q, d) /\ image[q].url = CheckedURL(pod[q], d)
    BY <2>1 DEF SystemInv, ChecksDue
  <2>3. pc'[q] = pc[q] /\ todo'[q] = todo[q] /\ pod'[q] = pod[q]
    BY <1>4, <2>1, OthersWork DEF SystemInv
  <2> QED BY <2>1, <2>2, <2>3, DueKept
<1> QED BY <1>2, <1>3, <1>5

LEMMA SystemRestartInv ==
  ASSUME SystemInv, SystemRestart
  PROVE  LookupInv' /\ ChecksDue' /\ ReportedOfURL'
<1>1. NothingCached'
  BY DEF SystemRestart, NothingCached, SystemInv, LookupInv, Lookup!TypeOK
<1>2. LookupInv'
  BY <1>1, NothingHeldNext
<1>3. ChecksDue'
  BY DEF SystemRestart, ChecksDue
<1>4. ReportedOfURL'
  BY DEF SystemRestart, Restart, ReportedOfURL
<1> QED BY <1>2, <1>3, <1>4

LEMMA WorldInv ==
  ASSUME SystemInv, World
  PROVE  LookupInv' /\ ChecksDue' /\ ReportedOfURL'
<1>1. UNCHANGED <<containerImageVersion, pc, todo, pod>>
  BY DEF World, vars, metricsVars, workVars
<1>2. LookupInv' /\ UNCHANGED <<check, image>>
  BY TickMove, PushMove DEF World, SystemInv
<1>3. ChecksDue'
  BY <1>1, <1>2, ChecksDueKept DEF SystemInv
<1>4. ReportedOfURL'
  BY <1>1, ReportedKept DEF SystemInv
<1> QED BY <1>2, <1>3, <1>4

\* Every step of the composed system keeps the invariant, and is a step of the
\* controller or none.
LEMMA SystemStep ==
  ASSUME SystemInv, [SystemNext]_systemVars
  PROVE  SystemInv' /\ [Next]_vars
<1>1. [Next]_vars /\ LookupInv' /\ ChecksDue' /\ ReportedOfURL'
  <2>1. CASE SystemRestart
    BY <2>1, SystemRestartInv DEF SystemRestart, Next
  <2>2. CASE World
    BY <2>2, WorldInv DEF World
  <2>3. ASSUME NEW p \in Pods, Others(p)
        PROVE  [Next]_vars /\ LookupInv' /\ ChecksDue' /\ ReportedOfURL'
    <3>1. Cluster(p) \/ Informers(p) \/ Dequeue(p) \/ Reconcile(p)
      BY <2>3 DEF Others, Unchecked
    <3> QED BY <2>3, <3>1, OthersInv DEF Next
  <2>4. ASSUME NEW p \in Pods, CheckContainer(p)
        PROVE  [Next]_vars /\ LookupInv' /\ ChecksDue' /\ ReportedOfURL'
    <3>1. CASE CheckStep(p) \/ \E c \in Containers : StartCheck(p, c)
      BY <3>1, CheckStepInv
    <3>2. ASSUME NEW c \in Containers, CheckReports(p, c) \/ CheckFails(p, c)
          PROVE  [Next]_vars /\ LookupInv' /\ ChecksDue' /\ ReportedOfURL'
      <4>1. SyncResult(p, c) \/ SyncError(p, c)
        BY <3>2, CheckEndInv
      <4>2. Reconcile(p)
        BY <4>1 DEF Reconcile, SyncContainer
      <4> QED BY <3>2, <4>2, CheckEndInv DEF Next
    <3> QED BY <2>4, <3>1, <3>2 DEF CheckContainer
  <2>5. CASE UNCHANGED systemVars
    <3>1. UNCHANGED vars /\ UNCHANGED lookupVars
      BY <2>5 DEF systemVars
    <3>2. UNCHANGED <<running, registry, heap, imageCache, searchCache, check, image,
                      ptr, verdict, containerImageVersion, pc, todo, pod>>
      BY <3>1 DEF lookupVars, vars, metricsVars, workVars
    <3>3. LookupInv'
      <4>1. Lookup!TypeOK' /\ DOMAIN registry' = URLs
        BY <3>2 DEF SystemInv, LookupInv, Lookup!TypeOK
      <4>2. ListsOK' /\ CachesOK'
        BY <3>2 DEF SystemInv, LookupInv, ListsOK, CachesOK
      <4>3. \A x \in Pods : HoldsOK(x)'
        BY <3>2 DEF SystemInv, LookupInv, HoldsOK
      <4> QED BY <4>1, <4>2, <4>3 DEF LookupInv
    <3> QED BY <3>1, <3>2, <3>3, ChecksDueKept, ReportedKept DEF SystemInv
  <2> QED BY <2>1, <2>2, <2>3, <2>4, <2>5 DEF SystemNext
<1>2. TypeOK'
  BY <1>1, TypeStep DEF SystemInv
<1> QED BY <1>1, <1>2 DEF SystemInv

LEMMA SystemStart == SystemInit => SystemInv /\ Init
<1> SUFFICES ASSUME SystemInit PROVE SystemInv /\ Init
  OBVIOUS
<1>1. Init /\ Lookup!Init
  BY DEF SystemInit
<1>2. TypeOK
  BY <1>1, TypeInit
<1>3. NothingCached
  BY <1>1 DEF Lookup!Init, NothingCached
<1>4. LookupInv
  BY <1>3, NothingHeld
<1>5. ChecksDue /\ ReportedOfURL
  BY <1>1, <1>3 DEF NothingCached, ChecksDue, ReportedOfURL, Init, MetricsInit
<1> QED BY <1>1, <1>2, <1>4, <1>5 DEF SystemInv

----------------------------------------------------------------------------
(* The composed system: the theorems *)

\* In every state of the composed system, whichever pods, registries and other
\* workers moved on during a check, the check is still the one that its
\* reconciliation waits for, and holds tags of the URL it is about.
THEOREM SystemAlwaysSound == System => []SystemInv
<1>1. SystemInit => SystemInv /\ Init
  BY SystemStart
<1>2. SystemInv /\ [SystemNext]_systemVars => SystemInv' /\ [Next]_vars
  BY SystemStep
<1> QED BY <1>1, <1>2, PTL DEF System

\* The check of a container may be taken for one step, as PodController does:
\* every behaviour of the composed system is one of the controller.
THEOREM SystemImplementsPodController == System => ImplementsPodController
<1>1. SystemInit => SystemInv /\ Init
  BY SystemStart
<1>2. SystemInv /\ [SystemNext]_systemVars => SystemInv' /\ [Next]_vars
  BY SystemStep
<1> QED BY <1>1, <1>2, PTL DEF System, ImplementsPodController, Spec

\* A series never names as latest a tag that the registry of the URL in its
\* image label cannot have, through whichever cache entries and overrides it
\* was found.
THEOREM ReportedAlwaysOfURL == System => []ReportedOfURL
BY SystemAlwaysSound, PTL DEF SystemInv

\* So what is proved of the controller is true of the composed system.
THEOREM SystemVectors == System => [](SeriesAgree /\ Tracked) /\ VerdictKept
BY SystemImplementsPodController, VectorsAgree, SeriesTracked, VerdictsKept, PTL
DEF ImplementsPodController
=============================================================================
