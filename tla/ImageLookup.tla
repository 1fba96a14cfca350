---------------------------- MODULE ImageLookup ----------------------------
(***************************************************************************)
(* How a container gets its verdict: the checker (pkg/controller/checker), *)
(* the search cache (pkg/controller/search), the version getter with the   *)
(* image cache (pkg/version) and the cache both are built on (pkg/cache).  *)
(*                                                                         *)
(* The image cache maps an image URL to the list of tags its registry      *)
(* returned.  The search cache maps a URL with options to the latest of    *)
(* these tags, as a POINTER into the list.  Lists are therefore objects on *)
(* a heap; a pointer is a list and an index, and isLatestSemver, which     *)
(* appends "@SHA" to the tag behind the pointer, changes what both caches  *)
(* and every other worker see.                                             *)
(*                                                                         *)
(* The name of a tag is "latest", or it parses to a plain version: a       *)
(* number, major * 10 + minor, without metadata.  Several names may parse  *)
(* to one number (1.1, v1.1, 1.1.0).  A tag to which a SHA was appended is *)
(* "marked": it parses to the same number and has metadata.  "" is the     *)
(* empty string, of a reference without a tag or a digest and of an entry  *)
(* whose digest is not known.  Manifests without a tag are not in lists.   *)
(* Unlocked reads that race with the append see the old string, the new    *)
(* one, or the old bytes at the new length, which again is the number with *)
(* metadata: nothing that an unmarked or a marked tag does not cover.      *)
(*                                                                         *)
(* Time is counted in ticks, as the age of what is stored.  It passes      *)
(* while workers are idle or wait for a registry; the steps in between     *)
(* take no time that matters to a cache timeout.                           *)
(***************************************************************************)
EXTENDS Integers, FiniteSets, Sequences

CONSTANTS
  Workers,      \* the controller's workers
  URLs,         \* image URLs
  Options,      \* [useSHA, resolve : BOOLEAN, pinMajor : Nat or None]
  Keys,         \* search cache keys
  HashIndex,    \* HashIndex[<<u, o>>]: the key of URL u with options o
  Names,        \* tag names
  Version,      \* Version[n]: the number that name n parses to
  Images,       \* images: [url, opts, tag, sha, statusSHA], tag and sha of the
                \* reference, which may be "", statusSHA of the container's status
  Deployments,  \* sets of images that may run together
  TagLists,     \* TagLists[u]: what its registry may return, sequences of Tag
  SHAs,         \* image digests
  Lists,        \* bound: heap addresses of tag lists
  CacheTimeout, \* image-cache-timeout, in ticks
  None

Digests == SHAs \cup {""}

Tag == [name : Names, sha : Digests, children : SUBSET Digests,
        timestamp : Nat, marked : BOOLEAN]

ASSUME LookupAssumption ==
  /\ Options \subseteq
       [useSHA : BOOLEAN, resolve : BOOLEAN, pinMajor : Nat \cup {None}]
  /\ \A o \in Options : [o EXCEPT !.useSHA = TRUE] \in Options
  /\ Version \in [Names -> Nat]
  /\ "" \notin Names /\ "" \notin SHAs
  /\ Images \subseteq [url : URLs, opts : Options, tag : Names \cup {""},
                       sha : Digests, statusSHA : SHAs]
  /\ Deployments \subseteq SUBSET Images
  /\ HashIndex \in [URLs \X Options -> Keys]
  /\ DOMAIN TagLists = URLs
  /\ \A u \in URLs : TagLists[u] \subseteq Seq(Tag)
  /\ CacheTimeout \in Nat
  /\ None \notin Lists
  /\ None \notin Nat

\* The tags of a repository have different names, which no check has changed.
ASSUME TagsAssumption ==
  \A u \in URLs : \A tags \in TagLists[u] :
    /\ \A i \in DOMAIN tags : ~ tags[i].marked
    /\ \A i, j \in DOMAIN tags : tags[i].name = tags[j].name => i = j

\* Two searches in use never share a key (32 bit FNV of URL and options).
ASSUME HashAssumption ==
  \A x, y \in URLs \X Options : HashIndex[x] = HashIndex[y] => x = y

\* Ages above this are all the same to the properties.
MaxAge == 2 * CacheTimeout + 1

Ages == 0 .. MaxAge

VARIABLES
  running,      \* the images that the cluster runs
  registry,     \* the tags each registry has of a URL
  heap,         \* [url, tags, age] of a tag list, age since it was returned
  imageCache,   \* per URL: [list, age since it was set], or None
  searchCache,  \* per key: [list, index, age since it was set], or None
  pc,           \* where a worker's check stands
  image,        \* the image it checks, with what it knows of its tag
  ptr,          \* the list and the index it holds
  verdict       \* what it found: [isLatest, read], read a copy of the tag

envVars == <<running, registry>>
vars == <<envVars, heap, imageCache, searchCache, pc, image, ptr, verdict>>

PCs == {"idle", "resolve", "resolveFetch", "resolveCommit", "match",
        "search", "image", "fetch", "commitImage", "select",
        "commitSearch", "compare", "append", "done"}

NoPtr == [list |-> None, index |-> 0]

FreeList == [url |-> None, tags |-> <<>>, age |-> 0]

Init ==
  /\ running \in Deployments
  /\ registry \in {f \in [URLs -> UNION {TagLists[u] : u \in URLs}] :
                     \A u \in URLs : f[u] \in TagLists[u]}
  /\ heap = [l \in Lists |-> FreeList]
  /\ imageCache = [u \in URLs |-> None]
  /\ searchCache = [k \in Keys |-> None]
  /\ pc = [w \in Workers |-> "idle"]
  /\ image = [w \in Workers |-> None]
  /\ ptr = [w \in Workers |-> NoPtr]
  /\ verdict = [w \in Workers |-> None]

----------------------------------------------------------------------------
(* Registries and time *)

\* External: someone pushes, retags or deletes tags.
Push(u) ==
  /\ \E tags \in TagLists[u] \ {registry[u]} :
       registry' = [registry EXCEPT ![u] = tags]
  /\ UNCHANGED <<running, heap, imageCache, searchCache, pc, image, ptr, verdict>>

\* Lists that a cache or a worker holds.
InUse ==
  {imageCache[u].list : u \in {v \in URLs : imageCache[v] # None}}
    \cup {searchCache[k].list : k \in {j \in Keys : searchCache[j] # None}}
    \cup {ptr[w].list : w \in Workers}

Older(age) == IF age < MaxAge THEN age + 1 ELSE MaxAge

\* Mutant: an item lives one tick too long.
Expire_Late(item) ==
  IF item = None \/ item.age > CacheTimeout
  THEN None
  ELSE [item EXCEPT !.age = @ + 1]

\* External (go-cache): an item is found until it is older than the timeout
\* it was set with; finding it does not make it younger.  Without a timeout
\* (cache.New(0, 0)) it is found for ever.
Expire(item) ==
  IF item = None \/ CacheTimeout = 0 THEN item
  ELSE IF item.age >= CacheTimeout THEN None
  ELSE [item EXCEPT !.age = @ + 1]

Tick ==
  /\ \A w \in Workers : pc[w] \in {"idle", "fetch", "resolveFetch"}
  /\ heap' = [l \in Lists |-> IF l \in InUse
                              THEN [heap[l] EXCEPT !.age = Older(@)]
                              ELSE FreeList]
  /\ imageCache' = [u \in URLs |-> Expire(imageCache[u])]
  /\ searchCache' = [k \in Keys |-> Expire(searchCache[k])]
  /\ UNCHANGED <<envVars, pc, image, ptr, verdict>>

----------------------------------------------------------------------------
(* Selecting a tag: latestSemver and latestSHA *)

Major(name) == Version[name] \div 10

\* No suffix of a signature, no regular expression; use-metadata is not set,
\* and both "latest" and a marked name have metadata.
shouldSkipTag(opts, t) ==
  \/ t.marked
  \/ t.name = "latest"
  \/ opts.pinMajor # None /\ opts.pinMajor # Major(t.name)

\* The loop of latestSemver: a tag replaces the best one so far if that is
\* LessThan it.  Of several names for one version the first stays: they are
\* not Equal, so their timestamps are not compared.
isLatestSemverOf(opts, tags, i) ==
  /\ i \in DOMAIN tags
  /\ ~ shouldSkipTag(opts, tags[i])
  /\ \A j \in DOMAIN tags :
       \/ shouldSkipTag(opts, tags[j])
       \/ Version[tags[j].name] < Version[tags[i].name]
       \/ Version[tags[j].name] = Version[tags[i].name] /\ i <= j

\* The loop of latestSHA: the first tag with the latest timestamp.
isLatestSHAOf(tags, i) ==
  /\ i \in DOMAIN tags
  /\ \A j \in DOMAIN tags :
       \/ tags[j].timestamp < tags[i].timestamp
       \/ tags[j].timestamp = tags[i].timestamp /\ i <= j

isLatestTagOf(opts, tags, i) ==
  IF opts.useSHA THEN isLatestSHAOf(tags, i) ELSE isLatestSemverOf(opts, tags, i)

----------------------------------------------------------------------------
(* One check, step by step *)

\* Mutant: the key is that of the options alone.
KeyOf_OptionsOnly(img) == HashIndex[<<CHOOSE u \in URLs : TRUE, img.opts>>]

\* Mutant: the key is that of the URL alone.
KeyOf_URLOnly(img) == HashIndex[<<img.url, CHOOSE o \in Options : TRUE>>]

KeyOf(img) == HashIndex[<<img.url, img.opts>>]

Goto(w, label) == pc' = [pc EXCEPT ![w] = label]

\* The check ends, with a verdict or with an error, and lets go of its list.
End(w) ==
  /\ Goto(w, "idle")
  /\ image' = [image EXCEPT ![w] = None]
  /\ ptr' = [ptr EXCEPT ![w] = NoPtr]
  /\ verdict' = [verdict EXCEPT ![w] = None]

\* With an empty tag or "latest", the check compares digests.
handleLatestOrEmptyTag(img) ==
  IF img.tag \in {"", "latest"} THEN [img EXCEPT !.opts.useSHA = TRUE] ELSE img

\* urlTagSHAFromImage has taken the image's reference apart.  The tag is what
\* a resolution changes; reference keeps what it was.
Unresolved(img) ==
  [url |-> img.url, opts |-> img.opts, tag |-> img.tag, marked |-> FALSE,
   sha |-> img.sha, statusSHA |-> img.statusSHA, reference |-> img.tag]

Container(w, img) ==
  /\ pc[w] = "idle"
  /\ Goto(w, IF img.opts.resolve THEN "resolve" ELSE "search")
  /\ image' = [image EXCEPT ![w] =
                 IF img.opts.resolve THEN Unresolved(img)
                 ELSE handleLatestOrEmptyTag(Unresolved(img))]
  /\ UNCHANGED <<envVars, heap, imageCache, searchCache, ptr, verdict>>

\* Mutant: a hit renews the entry.
LatestImage_Renewed(w) ==
  LET key == KeyOf(image[w])
      item == searchCache[key] IN
  /\ pc[w] = "search"
  /\ IF item # None
     THEN /\ ptr' = [ptr EXCEPT ![w] = [list |-> item.list, index |-> item.index]]
          /\ searchCache' = [searchCache EXCEPT ![key].age = 0]
          /\ Goto(w, "compare")
     ELSE /\ Goto(w, "image")
          /\ UNCHANGED <<ptr, searchCache>>
  /\ UNCHANGED <<envVars, heap, imageCache, image, verdict>>

\* searchCache.Get: a hit is the pointer of an earlier search.
LatestImage(w) ==
  LET item == searchCache[KeyOf(image[w])] IN
  /\ pc[w] = "search"
  /\ IF item # None
     THEN /\ ptr' = [ptr EXCEPT ![w] = [list |-> item.list, index |-> item.index]]
          /\ Goto(w, "compare")
     ELSE /\ Goto(w, "image")
          /\ UNCHANGED ptr
  /\ UNCHANGED <<envVars, heap, imageCache, searchCache, image, verdict>>

\* imageCache.Get: a hit is the list of an earlier fetch.
GetTags(w, hit, miss) ==
  LET item == imageCache[image[w].url] IN
  /\ IF item # None
     THEN /\ ptr' = [ptr EXCEPT ![w] = [list |-> item.list, index |-> 0]]
          /\ Goto(w, hit)
     ELSE /\ Goto(w, miss)
          /\ UNCHANGED ptr
  /\ UNCHANGED <<envVars, heap, imageCache, searchCache, image, verdict>>

ResolveSHAToTag(w) == pc[w] = "resolve" /\ GetTags(w, "match", "resolveFetch")

LatestTagFromImage(w) == pc[w] = "image" /\ GetTags(w, "select", "fetch")

\* Where the answer of a registry is put.
NewList == CHOOSE l \in Lists : l \notin InUse

\* The registry answers with tags.  Every worker that missed the cache asks
\* for itself: there is no single flight.
Fetch(w) ==
  /\ pc[w] \in {"fetch", "resolveFetch"}
  /\ registry[image[w].url] # <<>>
  /\ Lists \ InUse # {}
  /\ heap' = [heap EXCEPT ![NewList] = [url |-> image[w].url,
                                        tags |-> registry[image[w].url],
                                        age |-> 0]]
  /\ ptr' = [ptr EXCEPT ![w] = [list |-> NewList, index |-> 0]]
  /\ Goto(w, IF pc[w] = "fetch" THEN "commitImage" ELSE "resolveCommit")
  /\ UNCHANGED <<envVars, imageCache, searchCache, image, verdict>>

\* The registry has no tags, or the call fails.  Nothing is cached.
FetchError(w) ==
  /\ pc[w] = "fetch"
  /\ End(w)
  /\ UNCHANGED <<envVars, heap, imageCache, searchCache>>

\* An error of the resolution is dropped: the check goes on without a tag.
ResolveError(w) ==
  /\ pc[w] = "resolveFetch"
  /\ image' = [image EXCEPT ![w] = handleLatestOrEmptyTag(@)]
  /\ Goto(w, "search")
  /\ UNCHANGED <<envVars, heap, imageCache, searchCache, ptr, verdict>>

CommitImage(w) ==
  /\ pc[w] \in {"commitImage", "resolveCommit"}
  /\ imageCache' = [imageCache EXCEPT ![image[w].url] =
                      [list |-> ptr[w].list, age |-> 0]]
  /\ Goto(w, IF pc[w] = "commitImage" THEN "select" ELSE "match")
  /\ UNCHANGED <<envVars, heap, searchCache, image, ptr, verdict>>

MatchesSHA(t, sha) == sha = t.sha \/ sha \in t.children

\* The first tag of the list that has the digest of the image's reference, if
\* any, is its tag from now on.  It may be one that a check has appended a SHA
\* to.  For a reference without a digest it is one whose digest, or a child's,
\* is not known.
Match(w) ==
  LET tags == heap[ptr[w].list].tags
      known == {i \in DOMAIN tags : MatchesSHA(tags[i], image[w].sha)} IN
  /\ pc[w] = "match"
  /\ image' = [image EXCEPT ![w] =
       IF known = {} THEN handleLatestOrEmptyTag(@)
       ELSE LET t == tags[CHOOSE i \in known : \A j \in known : i <= j]
            IN  handleLatestOrEmptyTag([@ EXCEPT !.tag = t.name,
                                                 !.marked = t.marked])]
  /\ ptr' = [ptr EXCEPT ![w] = NoPtr]
  /\ Goto(w, "search")
  /\ UNCHANGED <<envVars, heap, imageCache, searchCache, verdict>>

Select(w) ==
  LET tags == heap[ptr[w].list].tags IN
  /\ pc[w] = "select"
  /\ \E i \in DOMAIN tags :
       /\ isLatestTagOf(image[w].opts, tags, i)
       /\ ptr' = [ptr EXCEPT ![w].index = i]
  /\ Goto(w, "commitSearch")
  /\ UNCHANGED <<envVars, heap, imageCache, searchCache, image, verdict>>

\* Every tag is skipped: no version found.  Nothing is cached.
SelectError(w) ==
  LET tags == heap[ptr[w].list].tags IN
  /\ pc[w] = "select"
  /\ ~ \E i \in DOMAIN tags : isLatestTagOf(image[w].opts, tags, i)
  /\ End(w)
  /\ UNCHANGED <<envVars, heap, imageCache, searchCache>>

CommitSearch(w) ==
  /\ pc[w] = "commitSearch"
  /\ searchCache' = [searchCache EXCEPT ![KeyOf(image[w])] =
                       [list |-> ptr[w].list, index |-> ptr[w].index, age |-> 0]]
  /\ Goto(w, "compare")
  /\ UNCHANGED <<envVars, heap, imageCache, image, ptr, verdict>>

\* The results currentImage.Equal may have: it compares the whole tags, not
\* the versions.  Whether two marked tags of one name got the same digests
\* appended is left open.
Equal(img, t) ==
  IF img.tag # t.name \/ img.marked # t.marked THEN {FALSE}
  ELSE IF t.marked THEN BOOLEAN
  ELSE {TRUE}

\* Mutant: "less than or equal".
LessThan_OrEqual(img, t, equal) == {Version[img.tag] <= Version[t.name]}

\* The results currentImage.LessThan may have: no plain version is less than
\* one with metadata, and one with metadata is less than every plain one.
\* With metadata on both sides and no smaller number, the appended digests
\* decide.
LessThan(img, t, equal) ==
  IF img.marked # t.marked THEN {img.marked}
  ELSE IF Version[img.tag] < Version[t.name] THEN {TRUE}
  ELSE IF t.marked /\ ~ equal THEN BOOLEAN
  ELSE {FALSE}

Pointee(p) == heap[p.list].tags[p.index]

\* Mutant: the SHA is not looked at.
Repushed_Never(img, t) == FALSE

\* The tag of the same name upstream has another SHA.
Repushed(img, t) == ~ MatchesSHA(t, img.statusSHA)

Judge(w, latest) ==
  verdict' = [verdict EXCEPT ![w] =
                [isLatest |-> latest, read |-> Pointee(ptr[w])]]

isLatestSHA(w) ==
  /\ pc[w] = "compare"
  /\ image[w].opts.useSHA
  /\ Judge(w, MatchesSHA(Pointee(ptr[w]), image[w].statusSHA))
  /\ Goto(w, "done")
  /\ UNCHANGED <<envVars, heap, imageCache, searchCache, image, ptr>>

\* Up to the append, for which there must be a digest or a child to take one
\* from.
isLatestSemver(w) ==
  LET t == Pointee(ptr[w]) IN
  /\ pc[w] = "compare"
  /\ ~ image[w].opts.useSHA
  /\ \E equal \in Equal(image[w], t) : \E less \in LessThan(image[w], t, equal) :
       LET repushed == equal /\ Repushed(image[w], t) IN
       /\ Judge(w, ~ less /\ ~ repushed)
       /\ Goto(w, IF repushed /\ (t.sha # "" \/ t.children # {})
                  THEN "append" ELSE "done")
  /\ UNCHANGED <<envVars, heap, imageCache, searchCache, image, ptr>>

\* latestImage.Tag = latestImage.Tag + "@" + SHA, in the cached list.
AppendSHA(w) ==
  /\ pc[w] = "append"
  /\ heap' = [heap EXCEPT ![ptr[w].list].tags[ptr[w].index].marked = TRUE]
  /\ Goto(w, "done")
  /\ UNCHANGED <<envVars, imageCache, searchCache, image, ptr, verdict>>

\* The result is handed to AddImage.
Report(w) ==
  /\ pc[w] = "done"
  /\ End(w)
  /\ UNCHANGED <<envVars, heap, imageCache, searchCache>>

Check(w) ==
  \/ ResolveSHAToTag(w)
  \/ ResolveError(w)
  \/ Match(w)
  \/ LatestImage(w)
  \/ LatestTagFromImage(w)
  \/ Fetch(w)
  \/ FetchError(w)
  \/ CommitImage(w)
  \/ Select(w)
  \/ SelectError(w)
  \/ CommitSearch(w)
  \/ isLatestSHA(w)
  \/ isLatestSemver(w)
  \/ AppendSHA(w)
  \/ Report(w)

----------------------------------------------------------------------------
Next ==
  \/ Tick
  \/ \E u \in URLs : Push(u)
  \/ \E w \in Workers : Check(w) \/ \E img \in running : Container(w, img)

Spec == Init /\ [][Next]_vars

----------------------------------------------------------------------------
(* Safety *)

Ptr == [list : Lists \cup {None}, index : Nat]

Current == [url : URLs, opts : Options, tag : Names \cup {""}, marked : BOOLEAN,
            sha : Digests, statusSHA : SHAs, reference : Names \cup {""}]

\* The variables have their types.
TypeOK ==
  /\ running \in Deployments
  /\ \A u \in URLs : registry[u] \in TagLists[u]
  /\ heap \in [Lists -> [url : URLs \cup {None}, tags : Seq(Tag), age : Ages]]
  /\ imageCache \in
       [URLs -> [list : Lists, age : 0 .. CacheTimeout] \cup {None}]
  /\ searchCache \in
       [Keys -> [list : Lists, index : Nat, age : 0 .. CacheTimeout] \cup {None}]
  /\ pc \in [Workers -> PCs]
  /\ image \in [Workers -> Current \cup {None}]
  /\ ptr \in [Workers -> Ptr]
  /\ verdict \in [Workers -> [isLatest : BOOLEAN, read : Tag] \cup {None}]

\* Both caches serve a URL only lists that its own registry returned, and a
\* worker reads only such a list, however long ago the pointer was cached:
\* the heap address is never another URL's.
RightImage ==
  /\ \A u \in URLs :
       imageCache[u] # None => heap[imageCache[u].list].url = u
  /\ \A u \in URLs, o \in Options :
       LET item == searchCache[HashIndex[<<u, o>>]] IN
       item # None =>
         /\ heap[item.list].url = u
         /\ item.index \in DOMAIN heap[item.list].tags
  /\ \A w \in Workers :
       ptr[w].list # None => heap[ptr[w].list].url = image[w].url

\* Two caches with the same timeout, one filled from the other: a verdict is
\* about tags that the registry had at most two timeouts ago, and a tag in
\* the search cache is at most one timeout older than its entry.  With a
\* timeout of 0 nothing expires, and there is no bound.
StalenessBound ==
  CacheTimeout > 0 =>
    /\ \A k \in Keys :
         searchCache[k] # None =>
           heap[searchCache[k].list].age <= searchCache[k].age + CacheTimeout
    /\ \A w \in Workers :
         ptr[w].list # None => heap[ptr[w].list].age <= 2 * CacheTimeout

\* What an image must measure up to in a list, as the registry returned it:
\* by SHA a youngest tag, of which there may be several, by version every tag
\* that the pin allows, and the digest of the tag of its name.
Pinned(opts, tags) ==
  {i \in DOMAIN tags : /\ tags[i].name # "latest"
                       /\ opts.pinMajor \in {None, Major(tags[i].name)}}
Youngest(tags) ==
  {i \in DOMAIN tags :
     \A j \in DOMAIN tags : tags[j].timestamp <= tags[i].timestamp}
NoneNewer(img, tags) ==
  \/ img.opts.useSHA
  \/ \A i \in Pinned(img.opts, tags) : Version[tags[i].name] <= Version[img.tag]
Rivals(img, tags) ==
  IF img.opts.useSHA THEN Youngest(tags)
  ELSE {i \in Pinned(img.opts, tags) : tags[i].name = img.tag}
Outdated(img, tags) ==
  \/ ~ NoneNewer(img, tags)
  \/ \E i \in Rivals(img, tags) : ~ MatchesSHA(tags[i], img.statusSHA)

\* The list has the image's version under another name, which may be the one
\* that is found and is not Equal to it.
Aliased(img, tags) ==
  /\ ~ img.opts.useSHA
  /\ \E i \in Pinned(img.opts, tags) :
       Version[tags[i].name] = Version[img.tag] /\ tags[i].name # img.tag
UpToDate(img, tags) ==
  /\ NoneNewer(img, tags)
  /\ \/ Aliased(img, tags)
     \/ Rivals(img, tags) = {}
     \/ \E i \in Rivals(img, tags) : MatchesSHA(tags[i], img.statusSHA)

Plain(tags) == \A i \in DOMAIN tags : ~ tags[i].marked

\* Another tag was taken for that of a reference without a digest.
Mistaken(img) == img.sha = "" /\ img.tag # img.reference

\* An image is called outdated only if it is: whatever other checks did to
\* the cached list, the list as returned has a newer tag, or its own tag with
\* another SHA.  Left out are an image whose digest was resolved to a marked
\* tag, which with that metadata is less than any plain tag, and one that a
\* resolution gave a foreign tag, about which the verdict is (Mistaken).
OutdatedJustified ==
  \A w \in Workers :
    /\ pc[w] \in {"append", "done"}
    /\ ~ verdict[w].isLatest
    /\ ~ image[w].marked
    /\ ~ Mistaken(image[w])
    => Outdated(image[w], heap[ptr[w].list].tags)

\* An image is called latest only if it is, as long as no check has appended
\* a SHA to a tag of the list (RepushedNotLatest) and it is not mistaken.  If
\* the list is aliased, that means that it has no greater version: the tag that
\* was found may not be Equal to it, and then its digest was not compared.
LatestJustified ==
  \A w \in Workers :
    /\ pc[w] \in {"append", "done"}
    /\ verdict[w].isLatest
    /\ Plain(heap[ptr[w].list].tags)
    /\ ~ Mistaken(image[w])
    => UpToDate(image[w], heap[ptr[w].list].tags)

----------------------------------------------------------------------------
(* What a comment says and the code does not do *)

\* checker.go:148, "If using the same image version, but the SHA has been
\* updated upstream, mark not latest": no image is called latest, by version,
\* with another digest than the tag of its name.
RepushedNotLatest ==
  \A w \in Workers :
    /\ pc[w] \in {"append", "done"}
    /\ ~ image[w].opts.useSHA
    /\ verdict[w].isLatest
    => LET tags == heap[ptr[w].list].tags IN
       \A i \in Rivals(image[w], tags) : MatchesSHA(tags[i], image[w].statusSHA)
=============================================================================
