--------------------------- MODULE VersionChecker ---------------------------
(***************************************************************************)
(* The pod controller and the lookup of images, composed.                  *)
(*                                                                         *)
(* PodController takes the check of a container for one step with an       *)
(* arbitrary result.  Here it is the check of ImageLookup, step by step,   *)
(* with both caches, while the pod, the registry and the time move on; a   *)
(* worker of ImageLookup is the reconciliation of a pod.  A series carries *)
(* what the check reported: the labels current_version and latest_version, *)
(* and the value that AddImage sets along with them.  A label is the name  *)
(* of a tag; the digests that the code puts behind an "@" are left out.    *)
(***************************************************************************)
EXTENDS PodController, Sequences

CONSTANTS
  Options,       \* options of checks
  OptionsOf,     \* OptionsOf[a][c]: those of container c under a
  Names,         \* tag names
  Version,       \* Version[n]: the number that name n parses to
  Reference,     \* Reference[i]: tag and sha of image i's reference, and statusSHA,
                 \* the digest that it runs with
  TagLists,      \* TagLists[u]: what the registry of u may return
  SHAs,          \* image digests
  Lists,         \* bound: heap addresses of tag lists
  CacheTimeout   \* image-cache-timeout, in ticks

VARIABLES
  running, registry, heap, imageCache, searchCache,  \* as in ImageLookup
  check, image, ptr, verdict                         \* its workers' variables

lookupVars == <<running, registry, heap, imageCache, searchCache, check, image,
                ptr, verdict>>
systemVars == <<vars, lookupVars>>

\* The image that the check of container c of the pod is about.
ImageOf(rec, c) ==
  LET ref == Reference[rec.spec[c]] IN
  [url |-> CheckedURL(rec, c), opts |-> OptionsOf[rec.annotations][c],
   tag |-> ref.tag, sha |-> ref.sha, statusSHA |-> ref.statusSHA]

AllImages ==
  {[url |-> u, opts |-> o, tag |-> Reference[i].tag, sha |-> Reference[i].sha,
    statusSHA |-> Reference[i].statusSHA] : u \in URLs, o \in Options, i \in Images}

Lookup == INSTANCE ImageLookup WITH
  Workers <- Pods, Keys <- URLs \X Options,
  HashIndex <- [x \in URLs \X Options |-> x],
  Images <- AllImages, Deployments <- {AllImages},
  None <- Absent, pc <- check

\* The versions that the registry of a URL may have.
VersionsOf(u) ==
  UNION {{tags[i].name : i \in DOMAIN tags} : tags \in TagLists[u]}

AllVersions == UNION {VersionsOf(u) : u \in URLs}

\* What a check may report: its image's tag is that of the reference or the
\* one that its digest was resolved to.  A latest tag whose digest is not
\* known is not named by a check that compares digests, and neither is the
\* image's own if it is empty or "latest".
Results ==
  [current : {Reference[i].tag : i \in Images} \cup AllVersions \cup {""},
   latest : AllVersions \cup {""}, isLatest : BOOLEAN]

ASSUME CheckAssumption ==
  /\ Options \subseteq
       [useSHA : BOOLEAN, resolve : BOOLEAN, pinMajor : Nat \cup {Absent}]
  /\ \A o \in Options : [o EXCEPT !.useSHA = TRUE] \in Options
  /\ OptionsOf \in [Annotations -> [Containers -> Options]]
  /\ Version \in [Names -> Nat]
  /\ "" \notin Names /\ "" \notin SHAs
  /\ Reference \in [Images -> [tag : Names \cup {""}, sha : SHAs \cup {""},
                              statusSHA : SHAs]]
  /\ DOMAIN TagLists = URLs
  /\ \A u \in URLs : TagLists[u] \subseteq Seq(Lookup!Tag)
  /\ CacheTimeout \in Nat
  /\ Absent \notin Lists
  /\ Absent \notin Nat
  /\ Results \subseteq Versions

SystemInit == Init /\ Lookup!Init

----------------------------------------------------------------------------
(* The check of a container *)

\* It is the turn of a container that is enabled and runs.
Due(p, c) == Checked(p, c) /\ ModeOf(p, c) = "enabled"

StartCheck(p, c) ==
  /\ Due(p, c)
  /\ Lookup!Container(p, ImageOf(pod[p], c))
  /\ UNCHANGED vars

\* The check goes on.
CheckStep(p) ==
  /\ Lookup!Check(p)
  /\ check'[p] # "idle"
  /\ UNCHANGED vars

\* The result: the tag is read once more, through the pointer.
ResultOf(p) ==
  LET t == Lookup!Pointee(ptr[p])
      named == ~ image[p].opts.useSHA \/ t.sha # "" \/ image[p].statusSHA \in t.children IN
  [current |-> IF image[p].tag = "latest" THEN "" ELSE image[p].tag,
   latest |-> IF named THEN t.name ELSE "",
   isLatest |-> verdict[p].isLatest]

\* Mutant: the result is labelled with the image's own URL.
CheckReports_OwnURL(p, c) ==
  /\ Turn(p, c)
  /\ Lookup!Report(p)
  /\ AddImage(p, c, ImageURL[pod[p].spec[c]], ResultOf(p))
  /\ AfterCheck(p, "duration")

CheckReports(p, c) ==
  /\ Turn(p, c)
  /\ Lookup!Report(p)
  /\ AddImage(p, c, image[p].url, ResultOf(p))
  /\ AfterCheck(p, "duration")

\* The check ends without a result.
CheckFails(p, c) ==
  /\ check[p] # "done"
  /\ Lookup!Check(p)
  /\ check'[p] = "idle"
  /\ SyncError(p, c)

----------------------------------------------------------------------------
(* The rest of the system *)

\* The caches and the workers' stacks go with the process.
SystemRestart ==
  /\ Restart
  /\ UNCHANGED <<running, registry>>
  /\ heap' = [l \in Lists |-> Lookup!FreeList]
  /\ imageCache' = [u \in URLs |-> Absent]
  /\ searchCache' = [k \in URLs \X Options |-> Absent]
  /\ check' = [p \in Pods |-> "idle"]
  /\ image' = [p \in Pods |-> Absent]
  /\ ptr' = [p \in Pods |-> Lookup!NoPtr]
  /\ verdict' = [p \in Pods |-> Absent]

\* The steps of the controller and of its surroundings but for the check.
Unchecked(p) == Reconcile(p) /\ ~ \E c \in Containers : Due(p, c)

Others(p) ==
  /\ Cluster(p) \/ Informers(p) \/ Dequeue(p) \/ Unchecked(p)
  /\ UNCHANGED lookupVars

World ==
  /\ Lookup!Tick \/ \E u \in URLs : Lookup!Push(u)
  /\ UNCHANGED vars

CheckContainer(p) ==
  \/ CheckStep(p)
  \/ \E c \in Containers : StartCheck(p, c) \/ CheckReports(p, c) \/ CheckFails(p, c)

SystemNext ==
  \/ SystemRestart
  \/ World
  \/ \E p \in Pods : Others(p) \/ CheckContainer(p)

System == SystemInit /\ [][SystemNext]_systemVars

Alone(action) == action /\ UNCHANGED lookupVars

\* Time passes, and a registry that is asked again and again for the same
\* container answers.  The rest is PodController's fairness, with the check's
\* own steps.
SystemFairness ==
  /\ SF_systemVars(Lookup!Tick /\ UNCHANGED vars)
  /\ \A p \in Pods :
       /\ WF_systemVars(Alone(PodCacheSync(p)))
       /\ WF_systemVars(Alone(OnCreate(p) \/ OnUpdate(p) \/ OnDelete(p)))
       /\ WF_systemVars(Alone(OnResync(p)))
       /\ WF_systemVars(Alone(TimerFires(p)))
       /\ SF_systemVars(Alone(Dequeue(p)))
       /\ SF_systemVars(Alone(GetPod(p)))
       /\ WF_systemVars(Alone(Unchecked(p)))
       /\ WF_systemVars(CheckContainer(p))
       /\ \A c \in Containers :
            SF_systemVars(Turn(p, c) /\ Lookup!Fetch(p) /\ UNCHANGED vars)

FairSystem == System /\ SystemFairness

----------------------------------------------------------------------------
(* Properties *)

\* The check may be taken for one step: seen from outside, the composed
\* system does what PodController does, although pods, informers and even
\* other workers move on between the steps of a check.
ImplementsPodController == Spec

\* What a series says is the latest version is a version that the registry of
\* the URL in its image label may have, whichever entry of the search cache and
\* whichever URL, the image's own or the override, the check went through.
ReportedOfURL ==
  \A s \in containerImageVersion : s.version.latest \in VersionsOf(s.image) \cup {""}

\* The image as the check of container c of pod p starts with it.
JudgedAs(p, c) ==
  Lookup!handleLatestOrEmptyTag(Lookup!Unresolved(ImageOf(api[p], c)))

\* The tags that a check with these options may find: a youngest one, or a
\* greatest one of those that the options allow.
Found(opts, tags) ==
  IF opts.useSHA THEN Lookup!Youngest(tags)
  ELSE {i \in Lookup!Pinned(opts, tags) : \A j \in Lookup!Pinned(opts, tags) :
          Version[tags[j].name] <= Version[tags[i].name]}

\* Of the containers that are checked against URL u by version, none has another
\* digest than the tag of its name, or a digest to resolve: none makes
\* isLatestSemver mark a tag.
Undisputed(u, tags) ==
  \A p \in Pods, c \in Containers :
    Settled(p, c, "enabled") /\ CheckedURL(api[p], c) = u =>
      LET img == JudgedAs(p, c) IN
      /\ ~ img.opts.resolve
      /\ img.opts.useSHA
           \/ \A i \in DOMAIN tags :
                tags[i].name = img.tag => Lookup!MatchesSHA(tags[i], img.statusSHA)

\* Container c runs, and all tags of the URL it is checked against have digests;
\* its options allow one of them, and they are undisputed.
Clear(p, c) ==
  /\ Runs(p, c, "enabled")
  /\ LET u == CheckedURL(api[p], c) IN
     /\ \A i \in DOMAIN registry[u] : registry[u][i].sha # ""
     /\ Found(JudgedAs(p, c).opts, registry[u]) # {}
     /\ Undisputed(u, registry[u])

\* The series of container c is about its URL, names the tag that its options
\* find there and is right about its image.
Tells(p, c) ==
  /\ Runs(p, c, "enabled")
  /\ LET u == CheckedURL(api[p], c)
         tags == registry[u]
         img == JudgedAs(p, c) IN
     \E s \in containerImageVersion :
       /\ s.pod = p /\ s.container = c /\ s.image = u
       /\ \E i \in Found(img.opts, tags) : s.version.latest = tags[i].name
       /\ IF s.version.isLatest THEN Lookup!UpToDate(img, tags)
          ELSE Lookup!Outdated(img, tags)

\* Once the pods and the registries stay as they are, the metrics tell what a
\* container's own options find there, with the right verdict, and go on telling
\* it: new tags get through the informers, the queue, the requeue and both
\* caches, of which one is filled from the other; and what checks with other
\* options, of this or of an earlier state of the pod, did to a list that they
\* shared goes with the list.  (While a container of the URL is disputed, it
\* does not: its check marks the tag that the others look for in each new
\* list, see AppendSHA and shouldSkipTag.)
Fresh ==
  <>[][UNCHANGED <<api, registry>>]_systemVars =>
    \A p \in Pods, c \in Containers : <>[]Clear(p, c) => <>[]Tells(p, c)
=============================================================================
