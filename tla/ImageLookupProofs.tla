------------------------- MODULE ImageLookupProofs -------------------------
(***************************************************************************)
(* Proofs about the lookup of images, for any number of workers, URLs,     *)
(* options, tags and heap addresses, and for every cache timeout.          *)
(***************************************************************************)
EXTENDS ImageLookup, SequenceTheorems, WellFoundedInduction, TLAPS

----------------------------------------------------------------------------
(* The inductive invariant *)

Holding == {"resolveCommit", "match", "commitImage", "select", "commitSearch",
            "compare", "append", "done"}

Pointing == {"commitSearch", "compare", "append", "done"}

Resolving == {"idle", "resolve", "resolveFetch", "resolveCommit", "match"}

Judged == {"append", "done"}

Distinct(tags) ==
  \A i, j \in DOMAIN tags : tags[i].name = tags[j].name => i = j

\* What a pointer that a search returned promises.
Chosen(opts, tags, i) ==
  /\ i \in DOMAIN tags
  /\ opts.useSHA => isLatestSHAOf(tags, i)
  /\ ~ opts.useSHA => i \in Pinned(opts, tags)
  /\ Plain(tags) => isLatestTagOf(opts, tags, i)

\* The same tags, of which some may have got a SHA appended.
SameTags(s, t) ==
  /\ DOMAIN t = DOMAIN s
  /\ \A i \in DOMAIN s :
       /\ t[i].name = s[i].name
       /\ t[i].sha = s[i].sha
       /\ t[i].children = s[i].children
       /\ t[i].timestamp = s[i].timestamp
       /\ s[i].marked => t[i].marked

\* A list has a tag once.
ListsOK == \A l \in Lists : Distinct(heap[l].tags)

\* An entry of the image cache is a list of its URL, and if entries age at all
\* it is never younger than the list.
ImageCacheOK ==
  \A u \in URLs :
    imageCache[u] # None =>
      /\ heap[imageCache[u].list].url = u
      /\ CacheTimeout > 0 => heap[imageCache[u].list].age <= imageCache[u].age

\* An entry of the search cache points into a list of the URL it was searched
\* for, which was at most one timeout old when it was set.
SearchCacheOK ==
  \A k \in Keys :
    searchCache[k] # None =>
      /\ \A u \in URLs, o \in Options :
           HashIndex[<<u, o>>] = k =>
             /\ heap[searchCache[k].list].url = u
             /\ Chosen(o, heap[searchCache[k].list].tags, searchCache[k].index)
      /\ searchCache[k].index \in DOMAIN heap[searchCache[k].list].tags
      /\ CacheTimeout > 0 =>
           heap[searchCache[k].list].age <= searchCache[k].age + CacheTimeout

\* What a verdict is worth.
Justified(v, img, tags) ==
  /\ ~ v.isLatest /\ ~ img.marked => Outdated(img, tags)
  /\ v.isLatest /\ Plain(tags) => UpToDate(img, tags)

\* A check by version is about a tag that has one.
HasVersion(img) == img.opts.useSHA \/ img.tag \in Names \ {"latest"}

\* What a worker holds at each point of its check.
WorkerOK(w) ==
  /\ pc[w] # "idle" => image[w] \in Current
  /\ pc[w] \notin Holding => ptr[w] = NoPtr
  /\ pc[w] \in Holding =>
       /\ ptr[w].list \in Lists
       /\ heap[ptr[w].list].url = image[w].url
       /\ CacheTimeout > 0 => heap[ptr[w].list].age <= 2 * CacheTimeout
  /\ pc[w] \in {"resolveCommit", "commitImage"} => heap[ptr[w].list].age = 0
  /\ pc[w] \in {"match", "select", "commitSearch"} /\ CacheTimeout > 0 =>
       heap[ptr[w].list].age <= CacheTimeout
  /\ pc[w] \notin Resolving => HasVersion(image[w])
  /\ pc[w] \in Pointing =>
       Chosen(image[w].opts, heap[ptr[w].list].tags, ptr[w].index)
  /\ pc[w] \in Judged =>
       Justified(verdict[w], image[w], heap[ptr[w].list].tags)

IInv ==
  /\ TypeOK
  /\ DOMAIN registry = URLs
  /\ ImageCacheOK
  /\ SearchCacheOK
  /\ ListsOK
  /\ \A w \in Workers : WorkerOK(w)

----------------------------------------------------------------------------
(* Facts about the definitions *)

\* A set of natural numbers that is not empty has a least element.
LEMMA Least ==
  ASSUME NEW S, S \subseteq Nat, S # {}
  PROVE  \E i \in S : \A j \in S : i <= j
<1> DEFINE R == OpToRel(<, Nat)
<1>1. \A i, j \in Nat : i < j => <<i, j>> \in R
  BY DEF OpToRel
<1>2. IsWellFoundedOn(R, Nat)
  BY NatLessThanWellFounded
<1> HIDE DEF R
<1>3. PICK i \in S : \A j \in S : ~ (<<j, i>> \in R)
  BY <1>2, WFMin
<1>4. ASSUME NEW j \in S
      PROVE  i <= j
  <2>1. i \in Nat /\ j \in Nat
    OBVIOUS
  <2>2. ~ (j < i)
    BY <1>1, <1>3, <2>1, Zenon
  <2> QED BY <2>1, <2>2
<1> QED BY <1>3, <1>4

\* The numbers among the constants.
LEMMA NumbersType == CacheTimeout \in Nat /\ \A n \in Names : Version[n] \in Nat
BY LookupAssumption

\* The tag behind a good pointer is a tag.
LEMMA TagOfList ==
  ASSUME TypeOK, NEW l \in Lists, NEW i \in DOMAIN heap[l].tags
  PROVE  heap[l].tags[i] \in Tag
<1>1. heap[l].tags \in Seq(Tag)
  BY DEF TypeOK
<1> QED BY <1>1

\* A check by version with an empty tag becomes one by SHA, and is one that the
\* search cache has a key for.
LEMMA HandleType ==
  ASSUME NEW img \in Current
  PROVE  LET i == handleLatestOrEmptyTag(img) IN
         /\ i \in Current
         /\ HasVersion(i)
<1>1. [img.opts EXCEPT !.useSHA = TRUE] \in Options
  BY LookupAssumption DEF Current
<1>2. [img EXCEPT !.opts.useSHA = TRUE]
        = [img EXCEPT !.opts = [img.opts EXCEPT !.useSHA = TRUE]]
  BY DEF Current
<1>3. CASE img.tag \in {"", "latest"}
  <2>1. [img.opts EXCEPT !.useSHA = TRUE].useSHA
    BY LookupAssumption DEF Current
  <2> QED BY <1>1, <1>2, <1>3, <2>1 DEF handleLatestOrEmptyTag, HasVersion, Current
<1>4. CASE img.tag \notin {"", "latest"}
  BY <1>4 DEF handleLatestOrEmptyTag, HasVersion, Current
<1> QED BY <1>3, <1>4

LEMMA KeyType ==
  ASSUME NEW img \in Current
  PROVE  /\ KeyOf(img) \in Keys
         /\ \A u \in URLs, o \in Options :
              HashIndex[<<u, o>>] = KeyOf(img) => u = img.url /\ o = img.opts
<1>1. <<img.url, img.opts>> \in URLs \X Options
  BY DEF Current
<1>2. \A u \in URLs, o \in Options : <<u, o>> \in URLs \X Options
  OBVIOUS
<1>3. KeyOf(img) \in Keys
  BY <1>1, LookupAssumption DEF KeyOf
<1>4. ASSUME NEW u \in URLs, NEW o \in Options, HashIndex[<<u, o>>] = KeyOf(img)
      PROVE  u = img.url /\ o = img.opts
  <2>1. <<u, o>> = <<img.url, img.opts>>
    BY <1>1, <1>2, <1>4, HashAssumption DEF KeyOf
  <2> QED BY <2>1
<1> QED BY <1>3, <1>4

\* Selecting a tag chooses it.
LEMMA SelectChooses ==
  ASSUME NEW opts, NEW tags, NEW i, isLatestTagOf(opts, tags, i)
  PROVE  Chosen(opts, tags, i)
BY DEF isLatestTagOf, isLatestSHAOf, isLatestSemverOf, shouldSkipTag, Pinned, Chosen

\* Appending a SHA takes nothing away from an earlier choice.
LEMMA ChosenKept ==
  ASSUME NEW opts, NEW s, NEW t, NEW i, SameTags(s, t), Chosen(opts, s, i)
  PROVE  Chosen(opts, t, i)
<1>1. isLatestSHAOf(s, i) => isLatestSHAOf(t, i)
  BY DEF isLatestSHAOf, SameTags
<1>2. Plain(t) => Plain(s)
  BY DEF Plain, SameTags
<1>3. Plain(t) /\ isLatestSemverOf(opts, s, i) => isLatestSemverOf(opts, t, i)
  BY DEF isLatestSemverOf, shouldSkipTag, Plain, SameTags
<1>4. Pinned(opts, t) = Pinned(opts, s)
  BY DEF Pinned, SameTags
<1> QED BY <1>1, <1>2, <1>3, <1>4 DEF Chosen, isLatestTagOf, SameTags

LEMMA RivalsKept ==
  ASSUME NEW img, NEW s, NEW t, SameTags(s, t)
  PROVE  /\ Rivals(img, t) = Rivals(img, s)
         /\ NoneNewer(img, t) <=> NoneNewer(img, s)
         /\ Aliased(img, t) <=> Aliased(img, s)
         /\ Rivals(img, s) \subseteq DOMAIN s
<1>1. Pinned(img.opts, t) = Pinned(img.opts, s) /\ Pinned(img.opts, s) \subseteq DOMAIN s
  BY DEF Pinned, SameTags
<1>2. NoneNewer(img, t) <=> NoneNewer(img, s)
  BY <1>1 DEF NoneNewer, SameTags
<1>3. Aliased(img, t) <=> Aliased(img, s)
  BY <1>1 DEF Aliased, SameTags
<1>4. Youngest(t) = Youngest(s) /\ Youngest(s) \subseteq DOMAIN s
  BY DEF Youngest, SameTags
<1>5. Rivals(img, t) = Rivals(img, s) /\ Rivals(img, s) \subseteq DOMAIN s
  BY <1>1, <1>4 DEF Rivals, SameTags
<1> QED BY <1>2, <1>3, <1>5

\* Nor from what a verdict is worth.
LEMMA JustifiedKept ==
  ASSUME NEW img, NEW s, NEW t, SameTags(s, t)
  PROVE  /\ Outdated(img, s) => Outdated(img, t)
         /\ UpToDate(img, s) => UpToDate(img, t)
         /\ Plain(t) => Plain(s)
<1>1. \A i \in DOMAIN s :
        MatchesSHA(t[i], img.statusSHA) <=> MatchesSHA(s[i], img.statusSHA)
  BY DEF MatchesSHA, SameTags
<1>2. Plain(t) => Plain(s)
  BY DEF Plain, SameTags
<1> QED BY <1>1, <1>2, RivalsKept DEF Outdated, UpToDate

\* The comparison by SHA with a chosen tag gives a verdict that the list
\* justifies.
LEMMA ShaVerdictRight ==
  ASSUME NEW img, NEW tags \in Seq(Tag), NEW i,
         Chosen(img.opts, tags, i), img.opts.useSHA,
         NEW v, v.isLatest = MatchesSHA(tags[i], img.statusSHA)
  PROVE  Justified(v, img, tags)
<1>1. i \in DOMAIN tags /\ \A j \in DOMAIN tags : tags[j] \in Tag
  BY DEF Chosen
<1>2. i \in Rivals(img, tags)
  <2>1. isLatestSHAOf(tags, i)
    BY DEF Chosen
  <2>2. \A j \in DOMAIN tags : tags[j].timestamp <= tags[i].timestamp
    BY <1>1, <2>1 DEF isLatestSHAOf, Tag
  <2> QED BY <1>1, <2>2 DEF Rivals, Youngest
<1>3. NoneNewer(img, tags)
  BY DEF NoneNewer
<1>4. ~ v.isLatest => Outdated(img, tags)
  BY <1>2 DEF Outdated
<1>5. v.isLatest => UpToDate(img, tags)
  BY <1>2, <1>3 DEF UpToDate
<1> QED BY <1>4, <1>5 DEF Justified

\* So does the comparison by version.
LEMMA SemverVerdictRight ==
  ASSUME NEW img \in Current, NEW tags \in Seq(Tag), NEW i,
         Chosen(img.opts, tags, i), ~ img.opts.useSHA, HasVersion(img),
         NEW equal \in Equal(img, tags[i]),
         NEW less \in LessThan(img, tags[i], equal),
         NEW v, v.isLatest <=> ~ less /\ ~ (equal /\ Repushed(img, tags[i]))
  PROVE  Justified(v, img, tags)
<1> DEFINE t == tags[i]
<1>1. i \in DOMAIN tags /\ t \in Tag
  BY DEF Chosen
<1>2. \A j \in DOMAIN tags : tags[j] \in Tag /\ Version[tags[j].name] \in Nat
  <2>1. \A j \in DOMAIN tags : tags[j] \in Tag
    OBVIOUS
  <2>2. \A x \in Tag : x.name \in Names
    BY DEF Tag
  <2> QED BY <2>1, <2>2, NumbersType
<1>3. Version[img.tag] \in Nat /\ Version[t.name] \in Nat
  <2>1. img.tag \in Names
    BY DEF HasVersion
  <2> QED BY <1>1, <1>2, <2>1, NumbersType
<1>4. i \in Pinned(img.opts, tags)
  BY DEF Chosen
<1>5. img.marked \in BOOLEAN /\ t.marked \in BOOLEAN
  BY <1>1 DEF Current, Tag
<1>6. ~ img.marked /\ less => Version[img.tag] < Version[t.name]
  BY <1>5 DEF LessThan
<1>7. ASSUME ~ img.marked, less
      PROVE  ~ NoneNewer(img, tags)
  BY <1>3, <1>4, <1>6, <1>7 DEF NoneNewer
<1>8. ASSUME equal, Repushed(img, t)
      PROVE  \E j \in Rivals(img, tags) : ~ MatchesSHA(tags[j], img.statusSHA)
  <2>1. img.tag = t.name
    BY <1>8 DEF Equal
  <2> QED BY <1>4, <1>8, <2>1 DEF Repushed, Rivals
<1>9. ~ v.isLatest /\ ~ img.marked => Outdated(img, tags)
  BY <1>7, <1>8 DEF Outdated
<1>10. ASSUME v.isLatest, Plain(tags)
       PROVE  UpToDate(img, tags)
  <2>1. ~ less /\ ~ (equal /\ Repushed(img, t)) /\ t.marked = FALSE
    BY <1>1, <1>5, <1>10 DEF Plain
  <2>2. img.marked = FALSE /\ ~ (Version[img.tag] < Version[t.name])
    <3>1. CASE img.marked = TRUE
      BY <2>1, <3>1 DEF LessThan
    <3>2. CASE img.marked = FALSE
      BY <2>1, <3>2 DEF LessThan
    <3> QED BY <1>5, <3>1, <3>2
  <2>3. isLatestSemverOf(img.opts, tags, i)
    BY <1>10 DEF Chosen, isLatestTagOf
  <2>4. \A j \in Pinned(img.opts, tags) :
          j \in DOMAIN tags /\ Version[tags[j].name] <= Version[t.name]
    BY <1>2, <1>3, <1>10, <2>3 DEF isLatestSemverOf, shouldSkipTag, Pinned, Plain
  <2>5. NoneNewer(img, tags)
    BY <1>2, <1>3, <2>2, <2>4 DEF NoneNewer
  <2>6. ASSUME ~ Aliased(img, tags), NEW j \in Rivals(img, tags)
        PROVE  i \in Rivals(img, tags) /\ MatchesSHA(t, img.statusSHA)
    <3>1. j \in Pinned(img.opts, tags) /\ tags[j].name = img.tag
      BY <2>6 DEF Rivals
    <3>2. Version[t.name] = Version[img.tag]
      BY <1>3, <2>2, <2>4, <3>1
    <3>3. t.name = img.tag
      BY <1>4, <2>6, <3>2 DEF Aliased
    <3>4. equal = TRUE
      BY <2>1, <2>2, <3>3 DEF Equal
    <3> QED BY <1>4, <2>1, <3>3, <3>4 DEF Repushed, Rivals
  <2> HIDE DEF t
  <2> QED BY <2>5, <2>6 DEF UpToDate, t
<1> QED BY <1>9, <1>10 DEF Justified

\* The steps that only move a worker.
LEMMA WorkerStep ==
  ASSUME IInv, NEW w \in Workers,
         NEW p \in PCs, NEW i \in Current \cup {None}, NEW q \in Ptr,
         NEW v \in [isLatest : BOOLEAN, read : Tag] \cup {None},
         UNCHANGED <<envVars, heap, imageCache, searchCache>>,
         pc' = [pc EXCEPT ![w] = p],
         image' = [image EXCEPT ![w] = i],
         ptr' = [ptr EXCEPT ![w] = q],
         verdict' = [verdict EXCEPT ![w] = v],
         WorkerOK(w)'
  PROVE  IInv'
<1>1. TypeOK'
  BY DEF IInv, TypeOK, envVars
<1>2. (DOMAIN registry = URLs)'
  BY DEF IInv, envVars
<1>3. ImageCacheOK'
  BY DEF IInv, ImageCacheOK
<1>4. SearchCacheOK' /\ ListsOK'
  BY DEF IInv, SearchCacheOK, ListsOK
<1>5. ASSUME NEW x \in Workers
      PROVE  WorkerOK(x)'
  <2>1. CASE x = w
    BY <2>1
  <2>2. CASE x # w
    <3>1. /\ pc'[x] = pc[x] /\ image'[x] = image[x] /\ ptr'[x] = ptr[x]
          /\ verdict'[x] = verdict[x]
          /\ heap' = heap
      BY <2>2 DEF IInv, TypeOK
    <3> QED BY <3>1 DEF IInv, WorkerOK
  <2> QED BY <2>1, <2>2
<1> QED BY <1>1, <1>2, <1>3, <1>4, <1>5 DEF IInv
----------------------------------------------------------------------------
(* Every step keeps the invariant *)

LEMMA ContainerStep ==
  ASSUME IInv, NEW w \in Workers, NEW img \in running, Container(w, img)
  PROVE  IInv'
<1> DEFINE i == IF img.opts.resolve THEN Unresolved(img)
                ELSE handleLatestOrEmptyTag(Unresolved(img))
           p == IF img.opts.resolve THEN "resolve" ELSE "search"
<1>1. img \in Images
  BY LookupAssumption DEF IInv, TypeOK
<1>2. Unresolved(img) \in Current
  BY <1>1, LookupAssumption DEF Unresolved, Current
<1>3. /\ i \in Current
      /\ p = "search" => HasVersion(i)
  BY <1>2, HandleType
<1>4. p \in {"resolve", "search"}
  OBVIOUS
<1>5. /\ pc' = [pc EXCEPT ![w] = p]
      /\ image' = [image EXCEPT ![w] = i]
      /\ UNCHANGED <<envVars, heap, imageCache, searchCache, ptr, verdict>>
      /\ pc[w] = "idle"
  BY DEF Container, Goto
<1> HIDE DEF i, p
<1>6. /\ ptr' = [ptr EXCEPT ![w] = ptr[w]]
      /\ verdict' = [verdict EXCEPT ![w] = verdict[w]]
      /\ ptr[w] \in Ptr
      /\ verdict[w] \in [isLatest : BOOLEAN, read : Tag] \cup {None}
      /\ ptr[w] = NoPtr
      /\ pc'[w] = p /\ image'[w] = i /\ ptr'[w] = ptr[w]
  BY <1>5 DEF IInv, TypeOK, WorkerOK, Holding
<1>7. WorkerOK(w)'
  BY <1>3, <1>4, <1>5, <1>6 DEF WorkerOK, Holding, Pointing, Resolving, Judged
<1> QED BY <1>3, <1>4, <1>5, <1>6, <1>7, WorkerStep DEF PCs

\* The ends of a check.
LEMMA EndStep ==
  ASSUME IInv, NEW w \in Workers, End(w),
         UNCHANGED <<envVars, heap, imageCache, searchCache>>
  PROVE  IInv'
<1>1. NoPtr \in Ptr
  BY DEF NoPtr, Ptr
<1>2. pc'[w] = "idle" /\ ptr'[w] = NoPtr
  BY DEF End, Goto, IInv, TypeOK
<1>3. WorkerOK(w)'
  BY <1>2 DEF WorkerOK, Holding, Pointing, Resolving, Judged
<1> QED BY <1>1, <1>3, WorkerStep DEF End, Goto, PCs

\* A step that leaves image and verdict, and moves on with pointer q.
LEMMA PointerStep ==
  ASSUME IInv, NEW w \in Workers, NEW p \in PCs, NEW q \in Ptr,
         UNCHANGED <<envVars, heap, imageCache, searchCache, image, verdict>>,
         pc' = [pc EXCEPT ![w] = p],
         ptr' = [ptr EXCEPT ![w] = q],
         image[w] \in Current => WorkerOK(w)',
         pc[w] # "idle"
  PROVE  IInv'
<1>1. /\ image' = [image EXCEPT ![w] = image[w]]
      /\ verdict' = [verdict EXCEPT ![w] = verdict[w]]
      /\ image[w] \in Current
      /\ verdict[w] \in [isLatest : BOOLEAN, read : Tag] \cup {None}
  BY DEF IInv, TypeOK, WorkerOK
<1> QED BY <1>1, WorkerStep

LEMMA LatestImageStep ==
  ASSUME IInv, NEW w \in Workers, LatestImage(w)
  PROVE  IInv'
<1> DEFINE item == searchCache[KeyOf(image[w])]
<1>1. /\ image[w] \in Current /\ ptr[w] = NoPtr /\ ptr[w] \in Ptr
      /\ pc[w] = "search"
      /\ HasVersion(image[w])
  BY DEF LatestImage, IInv, WorkerOK, Holding, Resolving, TypeOK
<1>2. KeyOf(image[w]) \in Keys
  BY <1>1, KeyType
<1>3. CASE item # None
  <2> DEFINE q == [list |-> item.list, index |-> item.index]
  <2>1. /\ item \in [list : Lists, index : Nat, age : 0 .. CacheTimeout]
        /\ heap[item.list].url = image[w].url
        /\ Chosen(image[w].opts, heap[item.list].tags, item.index)
        /\ CacheTimeout > 0 => heap[item.list].age <= item.age + CacheTimeout
        /\ heap[item.list].age \in Ages
    <3>1. item \in [list : Lists, index : Nat, age : 0 .. CacheTimeout]
      BY <1>2, <1>3 DEF IInv, TypeOK
    <3>2. /\ CacheTimeout > 0 => heap[item.list].age <= item.age + CacheTimeout
          /\ \A u \in URLs, o \in Options :
               HashIndex[<<u, o>>] = KeyOf(image[w]) =>
                 /\ heap[item.list].url = u
                 /\ Chosen(o, heap[item.list].tags, item.index)
      BY <1>2, <1>3 DEF IInv, SearchCacheOK
    <3>3. /\ heap[item.list].url = image[w].url
          /\ Chosen(image[w].opts, heap[item.list].tags, item.index)
      BY <1>1, <3>2 DEF Current, KeyOf
    <3>4. heap[item.list].age \in Ages
      BY <3>1 DEF IInv, TypeOK
    <3> QED BY <3>1, <3>2, <3>3, <3>4
  <2>2. CacheTimeout > 0 => heap[item.list].age <= 2 * CacheTimeout
    BY <2>1, NumbersType DEF Ages, MaxAge
  <2>3. /\ pc' = [pc EXCEPT ![w] = "compare"]
        /\ ptr' = [ptr EXCEPT ![w] = q]
        /\ UNCHANGED <<envVars, heap, imageCache, searchCache, image, verdict>>
    BY <1>3 DEF LatestImage, Goto
  <2>4. q \in Ptr /\ q.list = item.list /\ q.index = item.index
    BY <2>1 DEF Ptr
  <2> HIDE DEF item, q
  <2>5. pc'[w] = "compare" /\ ptr'[w] = q /\ image'[w] = image[w] /\ heap' = heap
    BY <2>3 DEF IInv, TypeOK
  <2>6. WorkerOK(w)'
    BY <1>1, <2>1, <2>2, <2>4, <2>5 DEF WorkerOK, Holding, Pointing, Resolving, Judged
  <2> QED BY <1>1, <2>3, <2>4, <2>6, PointerStep DEF PCs
<1>4. CASE item = None
  <2>1. /\ pc' = [pc EXCEPT ![w] = "image"]
        /\ ptr' = [ptr EXCEPT ![w] = ptr[w]]
        /\ UNCHANGED <<envVars, heap, imageCache, searchCache, image, verdict>>
    BY <1>4 DEF LatestImage, Goto, IInv, TypeOK
  <2>2. pc'[w] = "image" /\ ptr'[w] = NoPtr /\ image'[w] = image[w]
    BY <1>1, <2>1 DEF IInv, TypeOK
  <2>3. WorkerOK(w)'
    BY <1>1, <2>2 DEF WorkerOK, Holding, Pointing, Resolving, Judged
  <2> QED BY <1>1, <2>1, <2>3, PointerStep DEF PCs
<1> QED BY <1>3, <1>4

\* Both users of the image cache.
LEMMA GetTagsStep ==
  ASSUME IInv, NEW w \in Workers, NEW hit, NEW miss,
         GetTags(w, hit, miss),
         \/ pc[w] = "resolve" /\ hit = "match" /\ miss = "resolveFetch"
         \/ pc[w] = "image" /\ hit = "select" /\ miss = "fetch"
  PROVE  IInv'
<1> DEFINE item == imageCache[image[w].url]
<1>1. /\ image[w] \in Current /\ ptr[w] = NoPtr /\ ptr[w] \in Ptr
      /\ pc[w] # "idle"
      /\ pc[w] = "image" => HasVersion(image[w])
  BY DEF IInv, WorkerOK, Holding, Resolving, TypeOK
<1>2. image[w].url \in URLs
  BY <1>1 DEF Current
<1>3. CASE item # None
  <2> DEFINE q == [list |-> item.list, index |-> 0]
  <2>1. item \in [list : Lists, age : 0 .. CacheTimeout]
    BY <1>2, <1>3 DEF IInv, TypeOK
  <2>2. /\ heap[item.list].url = image[w].url
        /\ CacheTimeout > 0 => heap[item.list].age <= item.age
    BY <1>2, <1>3 DEF IInv, ImageCacheOK
  <2>3. heap[item.list].age \in Ages
    BY <2>1 DEF IInv, TypeOK
  <2>4. CacheTimeout > 0 => /\ heap[item.list].age <= CacheTimeout
                            /\ heap[item.list].age <= 2 * CacheTimeout
    BY <2>1, <2>2, <2>3, NumbersType DEF Ages, MaxAge
  <2>5. /\ pc' = [pc EXCEPT ![w] = hit]
        /\ ptr' = [ptr EXCEPT ![w] = q]
        /\ UNCHANGED <<envVars, heap, imageCache, searchCache, image, verdict>>
    BY <1>3 DEF GetTags, Goto
  <2>6. q \in Ptr /\ q.list = item.list
    BY <2>1 DEF Ptr
  <2> HIDE DEF item, q
  <2>7. pc'[w] = hit /\ ptr'[w] = q /\ image'[w] = image[w] /\ heap' = heap
    BY <2>5 DEF IInv, TypeOK
  <2>8. WorkerOK(w)'
    BY <1>1, <2>1, <2>2, <2>4, <2>6, <2>7 DEF WorkerOK, Holding, Pointing, Resolving, Judged
  <2> QED BY <1>1, <2>5, <2>6, <2>8, PointerStep DEF PCs
<1>4. CASE item = None
  <2>1. /\ pc' = [pc EXCEPT ![w] = miss]
        /\ ptr' = [ptr EXCEPT ![w] = ptr[w]]
        /\ UNCHANGED <<envVars, heap, imageCache, searchCache, image, verdict>>
    BY <1>4 DEF GetTags, Goto, IInv, TypeOK
  <2>2. pc'[w] = miss /\ ptr'[w] = NoPtr /\ image'[w] = image[w]
    BY <1>1, <2>1 DEF IInv, TypeOK
  <2>3. WorkerOK(w)'
    BY <1>1, <2>2 DEF WorkerOK, Holding, Pointing, Resolving, Judged
  <2> QED BY <1>1, <2>1, <2>3, PointerStep DEF PCs
<1> QED BY <1>3, <1>4

\* A step back to the search, without a pointer and with a resolved image.
LEMMA ResolvedStep ==
  ASSUME IInv, NEW w \in Workers, NEW i \in Current,
         HasVersion(i),
         UNCHANGED <<envVars, heap, imageCache, searchCache, verdict>>,
         pc' = [pc EXCEPT ![w] = "search"],
         image' = [image EXCEPT ![w] = i],
         ptr' = [ptr EXCEPT ![w] = NoPtr]
  PROVE  IInv'
<1>1. /\ verdict' = [verdict EXCEPT ![w] = verdict[w]]
      /\ verdict[w] \in [isLatest : BOOLEAN, read : Tag] \cup {None}
      /\ NoPtr \in Ptr
      /\ pc'[w] = "search" /\ image'[w] = i /\ ptr'[w] = NoPtr
  BY DEF IInv, TypeOK, NoPtr, Ptr
<1>2. WorkerOK(w)'
  BY <1>1 DEF WorkerOK, Holding, Pointing, Resolving, Judged
<1> QED BY <1>1, <1>2, WorkerStep DEF PCs

LEMMA ResolveErrorStep ==
  ASSUME IInv, NEW w \in Workers, ResolveError(w)
  PROVE  IInv'
<1>1. image[w] \in Current /\ ptr[w] = NoPtr
  BY DEF ResolveError, IInv, WorkerOK, Holding
<1> DEFINE i == handleLatestOrEmptyTag(image[w])
<1>2. i \in Current /\ HasVersion(i)
  BY <1>1, HandleType
<1>3. ptr' = [ptr EXCEPT ![w] = NoPtr]
  BY <1>1 DEF ResolveError, IInv, TypeOK
<1>4. image' = [image EXCEPT ![w] = handleLatestOrEmptyTag(image[w])]
  BY DEF ResolveError
<1> QED BY <1>2, <1>3, <1>4, ResolvedStep DEF ResolveError, Goto

LEMMA MatchStep ==
  ASSUME IInv, NEW w \in Workers, Match(w)
  PROVE  IInv'
<1> DEFINE tags == heap[ptr[w].list].tags
           known == {i \in DOMAIN tags : MatchesSHA(tags[i], image[w].sha)}
           first == CHOOSE i \in known : \A j \in known : i <= j
           i == IF known = {} THEN handleLatestOrEmptyTag(image[w])
                ELSE handleLatestOrEmptyTag(
                       [image[w] EXCEPT !.tag = tags[first].name,
                                        !.marked = tags[first].marked])
<1>1. image[w] \in Current /\ ptr[w].list \in Lists
  BY DEF Match, IInv, WorkerOK, Holding
<1>2. tags \in Seq(Tag)
  BY <1>1 DEF IInv, TypeOK
<1>3. known # {} => first \in known
  <2>1. known \subseteq Nat
    BY <1>2
  <2> HIDE DEF known
  <2> QED BY <2>1, Least
<1>4. known # {} => tags[first] \in Tag
  <2>1. known # {} => first \in DOMAIN tags
    BY <1>3
  <2> HIDE DEF tags, known, first
  <2> QED BY <1>2, <2>1
<1>5. i \in Current /\ HasVersion(i)
  <2>1. known # {} => [image[w] EXCEPT !.tag = tags[first].name,
                                       !.marked = tags[first].marked] \in Current
    BY <1>1, <1>4 DEF Current, Tag
  <2> HIDE DEF tags, known, first
  <2> QED BY <1>1, <2>1, HandleType
<1>6. image' = [image EXCEPT ![w] = i]
  BY DEF Match
<1> HIDE DEF i
<1> QED BY <1>5, <1>6, ResolvedStep DEF Match, Goto

LEMMA SelectStep ==
  ASSUME IInv, NEW w \in Workers, Select(w)
  PROVE  IInv'
<1>1. PICK n \in DOMAIN heap[ptr[w].list].tags :
        /\ isLatestTagOf(image[w].opts, heap[ptr[w].list].tags, n)
        /\ ptr' = [ptr EXCEPT ![w].index = n]
  BY DEF Select
<1> DEFINE q == [list |-> ptr[w].list, index |-> n]
<1>2. /\ image[w] \in Current
      /\ ptr[w].list \in Lists
      /\ heap[ptr[w].list].url = image[w].url
      /\ CacheTimeout > 0 => heap[ptr[w].list].age <= 2 * CacheTimeout
      /\ CacheTimeout > 0 => heap[ptr[w].list].age <= CacheTimeout
      /\ HasVersion(image[w])
      /\ Chosen(image[w].opts, heap[ptr[w].list].tags, n)
  BY <1>1, SelectChooses DEF Select, IInv, WorkerOK, Holding, Resolving
<1>3. n \in Nat
  BY <1>2 DEF IInv, TypeOK
<1>4. q \in Ptr /\ q.list = ptr[w].list /\ q.index = n
  BY <1>2, <1>3 DEF Ptr
<1>5. ptr' = [ptr EXCEPT ![w] = q]
  <2>1. ptr[w] \in Ptr
    BY DEF IInv, TypeOK
  <2>2. [ptr[w] EXCEPT !.index = n] = q
    BY <2>1 DEF Ptr
  <2> QED BY <1>1, <2>2, Zenon
<1>6. /\ pc' = [pc EXCEPT ![w] = "commitSearch"]
      /\ UNCHANGED <<envVars, heap, imageCache, searchCache, image, verdict>>
      /\ pc[w] # "idle"
  BY DEF Select, Goto
<1> HIDE DEF q
<1>7. pc'[w] = "commitSearch" /\ ptr'[w] = q /\ image'[w] = image[w] /\ heap' = heap
  BY <1>5, <1>6 DEF IInv, TypeOK
<1>8. WorkerOK(w)'
  BY <1>2, <1>4, <1>7 DEF WorkerOK, Holding, Pointing, Resolving, Judged
<1> QED BY <1>4, <1>5, <1>6, <1>8, PointerStep DEF PCs

\* A comparison that gives a verdict that the list justifies.
LEMMA JudgeStep ==
  ASSUME IInv, NEW w \in Workers, pc[w] = "compare",
         NEW latest \in BOOLEAN, Judge(w, latest),
         NEW p \in {"append", "done"}, Goto(w, p),
         UNCHANGED <<envVars, heap, imageCache, searchCache, image, ptr>>,
         \A v : v.isLatest = latest =>
                  Justified(v, image[w], heap[ptr[w].list].tags)
  PROVE  IInv'
<1> DEFINE t == Pointee(ptr[w])
           v == [isLatest |-> latest, read |-> t]
<1>1. /\ WorkerOK(w)
      /\ image[w] \in Current /\ ptr[w] \in Ptr
      /\ ptr[w].list \in Lists
      /\ Chosen(image[w].opts, heap[ptr[w].list].tags, ptr[w].index)
      /\ HasVersion(image[w])
  BY DEF IInv, TypeOK, WorkerOK, Holding, Pointing, Resolving
<1>2. t \in Tag
  BY <1>1, TagOfList DEF Pointee, IInv, Chosen
<1>3. v \in [isLatest : BOOLEAN, read : Tag]
  BY <1>2
<1>4. Justified(v, image[w], heap[ptr[w].list].tags)
  <2>1. v.isLatest = latest
    OBVIOUS
  <2> QED BY <2>1
<1>5. /\ pc' = [pc EXCEPT ![w] = p]
      /\ verdict' = [verdict EXCEPT ![w] = v]
  BY DEF Judge, Goto
<1> HIDE DEF t, v
<1>6. /\ image' = [image EXCEPT ![w] = image[w]]
      /\ ptr' = [ptr EXCEPT ![w] = ptr[w]]
      /\ pc'[w] = p /\ verdict'[w] = v
  BY <1>5 DEF IInv, TypeOK
<1>7. WorkerOK(w)'
  BY <1>1, <1>4, <1>6 DEF WorkerOK, Holding, Pointing, Resolving, Judged
<1> QED BY <1>1, <1>3, <1>5, <1>6, <1>7, WorkerStep DEF PCs

\* What a comparison finds.
LEMMA Comparing ==
  ASSUME IInv, NEW w \in Workers, pc[w] = "compare"
  PROVE  /\ image[w] \in Current
         /\ HasVersion(image[w])
         /\ heap[ptr[w].list].tags \in Seq(Tag)
         /\ Chosen(image[w].opts, heap[ptr[w].list].tags, ptr[w].index)
BY DEF IInv, TypeOK, WorkerOK, Holding, Pointing, Resolving

LEMMA isLatestSHAStep ==
  ASSUME IInv, NEW w \in Workers, isLatestSHA(w)
  PROVE  IInv'
<1> DEFINE latest == MatchesSHA(Pointee(ptr[w]), image[w].statusSHA)
<1>1. pc[w] = "compare" /\ image[w].opts.useSHA
  BY DEF isLatestSHA
<1>2. latest \in BOOLEAN
  BY DEF MatchesSHA
<1>3. ASSUME NEW v, v.isLatest = latest
      PROVE  Justified(v, image[w], heap[ptr[w].list].tags)
  BY <1>1, <1>3, Comparing, ShaVerdictRight DEF Pointee
<1>4. /\ Judge(w, latest)
      /\ Goto(w, "done")
      /\ UNCHANGED <<envVars, heap, imageCache, searchCache, image, ptr>>
  BY DEF isLatestSHA
<1> HIDE DEF latest
<1> QED BY <1>1, <1>2, <1>3, <1>4, JudgeStep

LEMMA isLatestSemverStep ==
  ASSUME IInv, NEW w \in Workers, isLatestSemver(w)
  PROVE  IInv'
<1> DEFINE t == Pointee(ptr[w])
<1>1. PICK equal \in Equal(image[w], t) : \E less \in LessThan(image[w], t, equal) :
        LET repushed == equal /\ Repushed(image[w], t) IN
        /\ Judge(w, ~ less /\ ~ repushed)
        /\ Goto(w, IF repushed /\ (t.sha # "" \/ t.children # {})
                   THEN "append" ELSE "done")
  BY DEF isLatestSemver
<1>2. PICK less \in LessThan(image[w], t, equal) :
        LET repushed == equal /\ Repushed(image[w], t) IN
        /\ Judge(w, ~ less /\ ~ repushed)
        /\ Goto(w, IF repushed /\ (t.sha # "" \/ t.children # {})
                   THEN "append" ELSE "done")
  BY <1>1
<1> DEFINE latest == ~ less /\ ~ (equal /\ Repushed(image[w], t))
           p == IF (equal /\ Repushed(image[w], t)) /\ (t.sha # "" \/ t.children # {})
                THEN "append" ELSE "done"
<1>3. pc[w] = "compare" /\ ~ image[w].opts.useSHA
  BY DEF isLatestSemver
<1>4. latest \in BOOLEAN /\ p \in {"append", "done"}
  OBVIOUS
<1>5. ASSUME NEW v, v.isLatest = latest
      PROVE  Justified(v, image[w], heap[ptr[w].list].tags)
  <2>1. t = heap[ptr[w].list].tags[ptr[w].index]
    BY DEF Pointee
  <2>2. v.isLatest <=> ~ less /\ ~ (equal /\ Repushed(image[w], t))
    BY <1>5, Zenon
  <2> DEFINE img == image[w]
             tags == heap[ptr[w].list].tags
             i == ptr[w].index
  <2>3. img \in Current /\ tags \in Seq(Tag) /\ Chosen(img.opts, tags, i)
        /\ HasVersion(img) /\ ~ img.opts.useSHA
    BY <1>3, Comparing
  <2>4. /\ equal \in Equal(img, tags[i])
        /\ less \in LessThan(img, tags[i], equal)
        /\ v.isLatest <=> ~ less /\ ~ (equal /\ Repushed(img, tags[i]))
    BY <2>1, <2>2
  <2> HIDE DEF latest, p, t, img, tags, i
  <2>5. Justified(v, img, tags)
    BY <2>3, <2>4, SemverVerdictRight
  <2> QED BY <2>5 DEF img, tags
<1>6. /\ Judge(w, latest)
      /\ Goto(w, p)
      /\ UNCHANGED <<envVars, heap, imageCache, searchCache, image, ptr>>
  BY <1>2 DEF isLatestSemver
<1> HIDE DEF latest, p
<1> QED BY <1>3, <1>4, <1>5, <1>6, JudgeStep

----------------------------------------------------------------------------
(* Steps that change the heap or a cache *)

HeapList == [url : URLs \cup {None}, tags : Seq(Tag), age : Ages]

\* What the invariant says of a list is still true of it.
SameList(l) ==
  /\ heap'[l].url = heap[l].url
  /\ heap'[l].age = heap[l].age
  /\ SameTags(heap[l].tags, heap'[l].tags)

\* So it is of a list that stays as it is.
LEMMA UnchangedList ==
  ASSUME NEW l, heap'[l] = heap[l]
  PROVE  SameList(l)
BY DEF SameList, SameTags

\* A worker that does not move keeps what it holds.
LEMMA OthersKeep ==
  ASSUME NEW x \in Workers, WorkerOK(x),
         pc'[x] = pc[x], image'[x] = image[x], ptr'[x] = ptr[x],
         verdict'[x] = verdict[x],
         pc[x] \in Holding => SameList(ptr[x].list)
  PROVE  WorkerOK(x)'
<1> DEFINE s == heap[ptr[x].list].tags
           t == heap'[ptr[x].list].tags
<1>1. CASE pc[x] \notin Holding
  BY <1>1 DEF WorkerOK, Holding, Pointing, Judged
<1>2. CASE pc[x] \in Holding
  <2>1. SameTags(s, t)
    BY <1>2 DEF SameList
  <2>2. pc[x] \in Pointing => Chosen(image[x].opts, t, ptr[x].index)
    BY <2>1, ChosenKept DEF WorkerOK
  <2>3. pc[x] \in Judged => Justified(verdict[x], image[x], t)
    BY <2>1, JustifiedKept DEF WorkerOK, Justified
  <2> QED BY <1>2, <2>2, <2>3 DEF WorkerOK, SameList
<1> QED BY <1>1, <1>2

\* The append changes a name and nothing that the invariant is about.
LEMMA AppendEffect ==
  ASSUME TypeOK, NEW l \in Lists, NEW i \in DOMAIN heap[l].tags,
         heap' = [heap EXCEPT ![l].tags[i].marked = TRUE]
  PROVE  /\ heap' \in [Lists -> HeapList]
         /\ \A m \in Lists : SameList(m)
<1> DEFINE s == heap[l].tags
           t == [heap[l].tags[i] EXCEPT !.marked = TRUE]
           tags == [heap[l].tags EXCEPT ![i] = t]
           list == [heap[l] EXCEPT !.tags = tags]
<1>1. heap \in [Lists -> HeapList]
  BY DEF TypeOK, HeapList
<1>2. heap[l].tags \in Seq(Tag) /\ i \in 1 .. Len(heap[l].tags)
  BY <1>1 DEF HeapList
<1>3. t \in Tag
  BY TagOfList DEF Tag
<1>4. tags \in Seq(Tag) /\ Len(tags) = Len(heap[l].tags)
  <2> HIDE DEF t
  <2> QED BY <1>2, <1>3, ExceptSeq
<1>5. SameTags(s, tags)
  <2>1. DOMAIN tags = DOMAIN s
    BY <1>2
  <2>2. ASSUME NEW j \in DOMAIN s
        PROVE  /\ tags[j].name = s[j].name
               /\ tags[j].sha = s[j].sha
               /\ tags[j].children = s[j].children
               /\ tags[j].timestamp = s[j].timestamp
               /\ s[j].marked => tags[j].marked
    <3>1. s[j] \in Tag
      BY TagOfList
    <3>2. tags[j] = IF j = i THEN t ELSE s[j]
      BY <1>2
    <3>3. t.name = s[i].name /\ t.sha = s[i].sha /\ t.children = s[i].children
          /\ t.timestamp = s[i].timestamp /\ t.marked
      BY TagOfList DEF Tag
    <3> HIDE DEF t, tags, s
    <3> QED BY <3>2, <3>3
  <2> QED BY <2>1, <2>2 DEF SameTags
<1>6. heap' = [heap EXCEPT ![l] = list]
  OBVIOUS
<1> HIDE DEF tags
<1>7. list \in HeapList /\ list.url = heap[l].url /\ list.age = heap[l].age
      /\ list.tags = tags
  BY <1>1, <1>4 DEF HeapList
<1> HIDE DEF list
<1>8. heap' \in [Lists -> HeapList]
  BY <1>1, <1>6, <1>7
<1>9. ASSUME NEW m \in Lists
      PROVE  SameList(m)
  <2>1. CASE m = l
    BY <1>1, <1>5, <1>6, <1>7, <2>1 DEF SameList
  <2>2. CASE m # l
    BY <1>1, <1>6, <2>2, UnchangedList
  <2> QED BY <2>1, <2>2
<1> QED BY <1>8, <1>9

LEMMA AppendSHAStep ==
  ASSUME IInv, NEW w \in Workers, AppendSHA(w)
  PROVE  IInv'
<1>1. /\ pc[w] = "append"
      /\ ptr[w].list \in Lists
      /\ ptr[w].index \in DOMAIN heap[ptr[w].list].tags
  BY DEF AppendSHA, IInv, WorkerOK, Holding, Pointing, Chosen
<1>2. /\ heap' \in [Lists -> HeapList]
      /\ \A m \in Lists : SameList(m)
  BY <1>1, AppendEffect DEF AppendSHA, IInv
<1>3. /\ pc' = [pc EXCEPT ![w] = "done"]
      /\ UNCHANGED <<envVars, imageCache, searchCache, image, ptr, verdict>>
  BY DEF AppendSHA, Goto
<1>4. TypeOK' /\ DOMAIN registry' = URLs
  BY <1>2, <1>3 DEF IInv, TypeOK, HeapList, envVars, PCs
<1>5. ImageCacheOK'
  BY <1>2, <1>3 DEF IInv, TypeOK, ImageCacheOK, SameList
<1>6. SearchCacheOK'
  <2> SUFFICES ASSUME NEW k \in Keys, searchCache[k] # None
               PROVE  LET e == searchCache[k] IN
                      /\ \A u \in URLs, o \in Options :
                           HashIndex[<<u, o>>] = k =>
                             /\ heap'[e.list].url = u
                             /\ Chosen(o, heap'[e.list].tags, e.index)
                      /\ e.index \in DOMAIN heap'[e.list].tags
                      /\ CacheTimeout > 0 => heap'[e.list].age <= e.age + CacheTimeout
    BY <1>3 DEF SearchCacheOK
  <2> DEFINE l == searchCache[k].list
             n == searchCache[k].index
  <2>1. /\ \A u \in URLs, o \in Options :
             HashIndex[<<u, o>>] = k =>
               heap[l].url = u /\ Chosen(o, heap[l].tags, n)
        /\ n \in DOMAIN heap[l].tags
        /\ CacheTimeout > 0 => heap[l].age <= searchCache[k].age + CacheTimeout
    BY DEF IInv, SearchCacheOK
  <2>2. l \in Lists
    BY DEF IInv, TypeOK
  <2>3. SameList(l)
    BY <1>2, <2>2
  <2>4. \A o \in Options : Chosen(o, heap[l].tags, n) => Chosen(o, heap'[l].tags, n)
    BY <2>3, ChosenKept DEF SameList
  <2> QED BY <2>1, <2>3, <2>4 DEF SameList, SameTags
<1>8. ListsOK'
  BY <1>2 DEF IInv, ListsOK, Distinct, SameList, SameTags
<1>7. ASSUME NEW x \in Workers
      PROVE  WorkerOK(x)'
  <2>1. pc[x] \in Holding => SameList(ptr[x].list)
    BY <1>2 DEF IInv, WorkerOK
  <2>2. CASE x # w
    BY <1>3, <2>1, <2>2, OthersKeep DEF IInv, TypeOK
  <2>3. CASE x = w
    <3> DEFINE l == ptr[w].list
    <3>1. pc'[w] = "done" /\ image' = image /\ ptr' = ptr /\ verdict' = verdict
      BY <1>3 DEF IInv, TypeOK
    <3>2. SameList(l)
      BY <1>1, <1>2
    <3>3. /\ WorkerOK(w)
          /\ Chosen(image[w].opts, heap[l].tags, ptr[w].index)
          /\ Justified(verdict[w], image[w], heap[l].tags)
      BY <1>1 DEF IInv, WorkerOK, Pointing, Judged
    <3>4. /\ Chosen(image[w].opts, heap'[l].tags, ptr[w].index)
          /\ Justified(verdict[w], image[w], heap'[l].tags)
      BY <3>2, <3>3, ChosenKept, JustifiedKept DEF SameList, Justified
    <3> QED BY <1>1, <2>3, <3>1, <3>2, <3>3, <3>4
            DEF WorkerOK, SameList, Holding, Resolving
  <2> QED BY <2>2, <2>3
<1> QED BY <1>4, <1>5, <1>6, <1>7, <1>8 DEF IInv

LEMMA CommitImageStep ==
  ASSUME IInv, NEW w \in Workers, CommitImage(w)
  PROVE  IInv'
<1> DEFINE item == [list |-> ptr[w].list, age |-> 0]
           p == IF pc[w] = "commitImage" THEN "select" ELSE "match"
<1>1. /\ pc[w] \in {"commitImage", "resolveCommit"}
      /\ ptr[w].list \in Lists
      /\ heap[ptr[w].list].age = 0
      /\ heap[ptr[w].list].url = image[w].url
      /\ image[w] \in Current
      /\ pc[w] = "commitImage" => HasVersion(image[w])
  BY DEF CommitImage, IInv, WorkerOK, Holding, Resolving
<1>2. image[w].url \in URLs
  BY <1>1 DEF Current
<1>3. /\ imageCache' = [imageCache EXCEPT ![image[w].url] = item]
      /\ pc' = [pc EXCEPT ![w] = p]
      /\ UNCHANGED <<envVars, heap, searchCache, image, ptr, verdict>>
  BY DEF CommitImage, Goto
<1>4. /\ item \in [list : Lists, age : 0 .. CacheTimeout]
      /\ item.list = ptr[w].list
      /\ item.age = 0
  BY <1>1, NumbersType
<1>5. (p = "select" /\ pc[w] = "commitImage") \/ p = "match"
  BY <1>1
<1> HIDE DEF item, p
<1>6. TypeOK' /\ DOMAIN registry' = URLs
  BY <1>2, <1>3, <1>4, <1>5 DEF IInv, TypeOK, envVars, PCs
<1>7. ImageCacheOK'
  <2> SUFFICES ASSUME NEW u \in URLs, imageCache'[u] # None
               PROVE  /\ heap[imageCache'[u].list].url = u
                      /\ CacheTimeout > 0 => heap[imageCache'[u].list].age <= imageCache'[u].age
    BY <1>3 DEF ImageCacheOK
  <2>1. CASE u = image[w].url
    BY <1>1, <1>3, <1>4, <2>1 DEF IInv, TypeOK
  <2>2. CASE u # image[w].url
    BY <1>3, <2>2 DEF IInv, TypeOK, ImageCacheOK
  <2> QED BY <2>1, <2>2
<1>8. SearchCacheOK' /\ ListsOK'
  BY <1>3 DEF IInv, SearchCacheOK, ListsOK
<1>9. ASSUME NEW x \in Workers
      PROVE  WorkerOK(x)'
  <2>1. SameList(ptr[x].list)
    BY <1>3, UnchangedList
  <2>2. CASE x # w
    BY <1>3, <2>1, <2>2, OthersKeep DEF IInv, TypeOK
  <2>3. CASE x = w
    <3>1. pc'[w] = p /\ image' = image /\ ptr' = ptr /\ heap' = heap
      BY <1>3 DEF IInv, TypeOK
    <3> QED BY <1>1, <1>5, <2>3, <3>1, NumbersType
            DEF WorkerOK, Holding, Pointing, Resolving, Judged
  <2> QED BY <2>2, <2>3
<1> QED BY <1>6, <1>7, <1>8, <1>9 DEF IInv

LEMMA CommitSearchStep ==
  ASSUME IInv, NEW w \in Workers, CommitSearch(w)
  PROVE  IInv'
<1> DEFINE key == KeyOf(image[w])
           item == [list |-> ptr[w].list, index |-> ptr[w].index, age |-> 0]
<1>1. /\ pc[w] = "commitSearch"
      /\ ptr[w].list \in Lists
      /\ Chosen(image[w].opts, heap[ptr[w].list].tags, ptr[w].index)
      /\ HasVersion(image[w])
      /\ CacheTimeout > 0 => heap[ptr[w].list].age <= 2 * CacheTimeout
      /\ CacheTimeout > 0 => heap[ptr[w].list].age <= CacheTimeout
      /\ heap[ptr[w].list].url = image[w].url
      /\ image[w] \in Current
      /\ ptr[w] \in Ptr
  BY DEF CommitSearch, IInv, TypeOK, WorkerOK, Holding, Pointing, Resolving, Judged
<1>2. /\ key \in Keys
      /\ \A u \in URLs, o \in Options :
           HashIndex[<<u, o>>] = key => u = image[w].url /\ o = image[w].opts
  BY <1>1, KeyType
<1>3. /\ searchCache' = [searchCache EXCEPT ![key] = item]
      /\ pc' = [pc EXCEPT ![w] = "compare"]
      /\ UNCHANGED <<envVars, heap, imageCache, image, ptr, verdict>>
  BY DEF CommitSearch, Goto
<1>4. /\ item \in [list : Lists, index : Nat, age : 0 .. CacheTimeout]
      /\ item.list = ptr[w].list
      /\ item.index = ptr[w].index
      /\ item.age = 0
  BY <1>1, NumbersType DEF Ptr
<1> HIDE DEF item, key
<1>5. TypeOK' /\ DOMAIN registry' = URLs
  BY <1>2, <1>3, <1>4 DEF IInv, TypeOK, envVars, PCs
<1>6. ImageCacheOK' /\ ListsOK'
  BY <1>3 DEF IInv, ImageCacheOK, ListsOK
<1>7. SearchCacheOK'
  <2> SUFFICES ASSUME NEW k \in Keys, searchCache'[k] # None
               PROVE  LET e == searchCache'[k] IN
                      /\ \A u \in URLs, o \in Options :
                           HashIndex[<<u, o>>] = k =>
                             /\ heap[e.list].url = u
                             /\ Chosen(o, heap[e.list].tags, e.index)
                      /\ e.index \in DOMAIN heap[e.list].tags
                      /\ CacheTimeout > 0 => heap[e.list].age <= e.age + CacheTimeout
    BY <1>3 DEF SearchCacheOK
  <2>1. CASE k = key
    <3>1. searchCache'[k] = item
      BY <1>3, <2>1 DEF IInv, TypeOK
    <3>2. 0 + CacheTimeout = CacheTimeout
      BY NumbersType
    <3>3. ptr[w].index \in DOMAIN heap[ptr[w].list].tags
      BY <1>1 DEF Chosen
    <3> QED BY <1>1, <1>2, <1>4, <2>1, <3>1, <3>2, <3>3
  <2>2. CASE k # key
    <3>1. searchCache'[k] = searchCache[k]
      BY <1>3, <2>2 DEF IInv, TypeOK
    <3> QED BY <3>1 DEF IInv, SearchCacheOK
  <2> QED BY <2>1, <2>2
<1>8. ASSUME NEW x \in Workers
      PROVE  WorkerOK(x)'
  <2>1. SameList(ptr[x].list)
    BY <1>3, UnchangedList
  <2>2. CASE x # w
    BY <1>3, <2>1, <2>2, OthersKeep DEF IInv, TypeOK
  <2>3. CASE x = w
    <3>1. pc'[w] = "compare" /\ image' = image /\ ptr' = ptr /\ heap' = heap
      BY <1>3 DEF IInv, TypeOK
    <3> QED BY <1>1, <2>3, <3>1 DEF WorkerOK, Holding, Pointing, Resolving, Judged
  <2> QED BY <2>2, <2>3
<1> QED BY <1>5, <1>6, <1>7, <1>8 DEF IInv

\* The answer of a registry goes where nobody looks.
LEMMA FetchStep ==
  ASSUME IInv, NEW w \in Workers, Fetch(w)
  PROVE  IInv'
<1> DEFINE u0 == image[w].url
           list == [url |-> u0, tags |-> registry[u0], age |-> 0]
           q == [list |-> NewList, index |-> 0]
           p == IF pc[w] = "fetch" THEN "commitImage" ELSE "resolveCommit"
<1>1. /\ pc[w] \in {"fetch", "resolveFetch"}
      /\ image[w] \in Current
      /\ pc[w] = "fetch" => HasVersion(image[w])
  BY DEF Fetch, IInv, WorkerOK, Resolving
<1>2. u0 \in URLs
  BY <1>1 DEF Current
<1>3. NewList \in Lists /\ NewList \notin InUse
  BY DEF Fetch, NewList
<1>4. /\ heap' = [heap EXCEPT ![NewList] = list]
      /\ ptr' = [ptr EXCEPT ![w] = q]
      /\ pc' = [pc EXCEPT ![w] = p]
      /\ UNCHANGED <<envVars, imageCache, searchCache, image, verdict>>
  BY DEF Fetch, Goto
<1>5. /\ list \in HeapList
      /\ list.url = u0
      /\ list.age = 0
      /\ Distinct(list.tags)
  <2>1. registry[u0] \in Seq(Tag)
    BY <1>2, LookupAssumption DEF IInv, TypeOK
  <2>2. 0 \in Ages
    BY NumbersType DEF Ages, MaxAge
  <2>3. Distinct(registry[u0])
    BY <1>2, TagsAssumption DEF IInv, TypeOK, Distinct
  <2> QED BY <1>2, <2>1, <2>2, <2>3 DEF HeapList
<1>6. q \in Ptr /\ q.list = NewList
  BY <1>3 DEF Ptr
<1>7. (p = "commitImage" /\ pc[w] = "fetch") \/ p = "resolveCommit"
  OBVIOUS
<1>8. /\ \A u \in URLs : imageCache[u] # None => imageCache[u].list \in InUse
      /\ \A k \in Keys : searchCache[k] # None => searchCache[k].list \in InUse
      /\ \A x \in Workers : ptr[x].list \in InUse
  BY DEF InUse
<1> HIDE DEF list, q, p, NewList
<1>9. heap \in [Lists -> HeapList] /\ heap' \in [Lists -> HeapList]
  BY <1>3, <1>4, <1>5 DEF IInv, TypeOK, HeapList
<1>10. \A l \in Lists : l \in InUse => heap'[l] = heap[l]
  BY <1>3, <1>4, <1>9
<1>11. TypeOK' /\ DOMAIN registry' = URLs
  BY <1>4, <1>6, <1>7, <1>9 DEF IInv, TypeOK, HeapList, envVars, PCs
<1>12. ImageCacheOK'
  BY <1>4, <1>8, <1>10 DEF IInv, TypeOK, ImageCacheOK
<1>13. SearchCacheOK'
  BY <1>4, <1>8, <1>10 DEF IInv, TypeOK, SearchCacheOK
<1>14. ASSUME NEW x \in Workers
       PROVE  WorkerOK(x)'
  <2>1. CASE x # w
    <3>1. pc[x] \in Holding => SameList(ptr[x].list)
      BY <1>8, <1>10, UnchangedList DEF IInv, WorkerOK
    <3> QED BY <1>4, <2>1, <3>1, OthersKeep DEF IInv, TypeOK
  <2>2. CASE x = w
    <3>1. pc'[w] = p /\ image' = image /\ ptr'[w] = q /\ heap'[NewList] = list
      BY <1>3, <1>4 DEF IInv, TypeOK
    <3>2. 0 <= 2 * CacheTimeout
      BY NumbersType
    <3> QED BY <1>1, <1>3, <1>5, <1>6, <1>7, <2>2, <3>1, <3>2
            DEF WorkerOK, Holding, Pointing, Resolving, Judged
  <2> QED BY <2>1, <2>2
<1>15. ListsOK'
  BY <1>3, <1>4, <1>5, <1>9 DEF IInv, ListsOK
<1> QED BY <1>11, <1>12, <1>13, <1>14, <1>15 DEF IInv

\* Time makes lists and entries older alike, and no worker holds a list then.
LEMMA TickStep ==
  ASSUME IInv, Tick
  PROVE  IInv'
<1> DEFINE older(l) == [heap[l] EXCEPT !.age = Older(heap[l].age)]
<1>1. /\ \A w \in Workers : pc[w] \in {"idle", "fetch", "resolveFetch"}
      /\ heap' = [l \in Lists |-> IF l \in InUse THEN older(l) ELSE FreeList]
      /\ imageCache' = [u \in URLs |-> Expire(imageCache[u])]
      /\ searchCache' = [k \in Keys |-> Expire(searchCache[k])]
      /\ UNCHANGED <<envVars, pc, image, ptr, verdict>>
  BY DEF Tick
<1>2. CacheTimeout \in Nat /\ MaxAge \in Nat /\ MaxAge = 2 * CacheTimeout + 1
  BY NumbersType DEF MaxAge
<1>3. heap \in [Lists -> HeapList]
  BY DEF IInv, TypeOK, HeapList
<1>4. \A age \in Ages : Older(age) \in Ages /\ Older(age) <= age + 1
  BY <1>2 DEF Ages, Older
<1>5. ASSUME NEW l \in Lists
      PROVE  /\ older(l) \in HeapList
             /\ older(l).url = heap[l].url
             /\ older(l).tags = heap[l].tags
             /\ older(l).age <= heap[l].age + 1
             /\ heap[l].age \in Nat
             /\ older(l).age \in Nat
  <2>1. heap[l] \in HeapList
    BY <1>3
  <2>2. Older(heap[l].age) \in Ages /\ Older(heap[l].age) <= heap[l].age + 1
    BY <1>4, <2>1 DEF HeapList
  <2>3. Ages \subseteq Nat
    BY <1>2 DEF Ages
  <2> QED BY <2>1, <2>2, <2>3 DEF HeapList
<1>6. FreeList \in HeapList
  BY <1>2 DEF FreeList, HeapList, Ages
<1> HIDE DEF older
<1>7. heap' \in [Lists -> HeapList]
  BY <1>1, <1>5, <1>6
<1>8. ASSUME NEW u \in URLs, imageCache'[u] # None
      PROVE  /\ imageCache[u] # None
             /\ imageCache[u] \in [list : Lists, age : 0 .. CacheTimeout]
             /\ imageCache'[u] \in [list : Lists, age : 0 .. CacheTimeout]
             /\ imageCache'[u].list = imageCache[u].list
             /\ CacheTimeout > 0 => imageCache'[u].age = imageCache[u].age + 1
             /\ heap'[imageCache[u].list] = older(imageCache[u].list)
  <2>1. imageCache'[u] = Expire(imageCache[u])
    BY <1>1
  <2>2. /\ imageCache[u] # None
        /\ \/ CacheTimeout = 0 /\ imageCache'[u] = imageCache[u]
           \/ /\ CacheTimeout > 0
              /\ ~ (imageCache[u].age >= CacheTimeout)
              /\ imageCache'[u] = [imageCache[u] EXCEPT !.age = imageCache[u].age + 1]
    BY <1>2, <1>8, <2>1 DEF Expire
  <2>3. imageCache[u] \in [list : Lists, age : 0 .. CacheTimeout]
    BY <2>2 DEF IInv, TypeOK
  <2>4. imageCache[u].list \in InUse
    BY <2>2 DEF InUse
  <2> QED BY <1>1, <1>2, <2>2, <2>3, <2>4
<1>9. ASSUME NEW k \in Keys, searchCache'[k] # None
      PROVE  /\ searchCache[k] # None
             /\ searchCache[k] \in
                  [list : Lists, index : Nat, age : 0 .. CacheTimeout]
             /\ searchCache'[k] \in
                  [list : Lists, index : Nat, age : 0 .. CacheTimeout]
             /\ searchCache'[k].list = searchCache[k].list
             /\ searchCache'[k].index = searchCache[k].index
             /\ CacheTimeout > 0 => searchCache'[k].age = searchCache[k].age + 1
             /\ heap'[searchCache[k].list] = older(searchCache[k].list)
  <2>1. searchCache'[k] = Expire(searchCache[k])
    BY <1>1
  <2>2. /\ searchCache[k] # None
        /\ \/ CacheTimeout = 0 /\ searchCache'[k] = searchCache[k]
           \/ /\ CacheTimeout > 0
              /\ ~ (searchCache[k].age >= CacheTimeout)
              /\ searchCache'[k] = [searchCache[k] EXCEPT !.age = searchCache[k].age + 1]
    BY <1>2, <1>9, <2>1 DEF Expire
  <2>3. searchCache[k] \in [list : Lists, index : Nat, age : 0 .. CacheTimeout]
    BY <2>2 DEF IInv, TypeOK
  <2>4. searchCache[k].list \in InUse
    BY <2>2 DEF InUse
  <2> QED BY <1>1, <1>2, <2>2, <2>3, <2>4
<1>10. TypeOK' /\ DOMAIN registry' = URLs
  <2>1. imageCache' \in [URLs -> [list : Lists, age : 0 .. CacheTimeout] \cup {None}]
    BY <1>1, <1>8
  <2>2. searchCache' \in
          [Keys -> [list : Lists, index : Nat, age : 0 .. CacheTimeout] \cup {None}]
    BY <1>1, <1>9
  <2> QED BY <1>1, <1>7, <2>1, <2>2 DEF IInv, TypeOK, HeapList, envVars
<1>11. ImageCacheOK'
  <2> SUFFICES ASSUME NEW u \in URLs, imageCache'[u] # None
               PROVE  /\ heap'[imageCache'[u].list].url = u
                      /\ CacheTimeout > 0 => heap'[imageCache'[u].list].age <= imageCache'[u].age
    BY DEF ImageCacheOK
  <2> DEFINE l == imageCache[u].list
  <2>1. heap[l].url = u /\ (CacheTimeout > 0 => heap[l].age <= imageCache[u].age)
    BY <1>8 DEF IInv, ImageCacheOK
  <2>2. l \in Lists /\ imageCache[u].age \in Nat
    BY <1>2, <1>8
  <2>3. /\ older(l).url = u
        /\ CacheTimeout > 0 => older(l).age <= imageCache[u].age + 1
    BY <1>5, <2>1, <2>2
  <2> QED BY <1>8, <2>3
<1>12. SearchCacheOK'
  <2> SUFFICES ASSUME NEW k \in Keys, searchCache'[k] # None
               PROVE  LET e == searchCache'[k] IN
                      /\ \A u \in URLs, o \in Options :
                           HashIndex[<<u, o>>] = k =>
                             /\ heap'[e.list].url = u
                             /\ Chosen(o, heap'[e.list].tags, e.index)
                      /\ e.index \in DOMAIN heap'[e.list].tags
                      /\ CacheTimeout > 0 => heap'[e.list].age <= e.age + CacheTimeout
    BY DEF SearchCacheOK
  <2> DEFINE l == searchCache[k].list
  <2>1. /\ \A u \in URLs, o \in Options :
             HashIndex[<<u, o>>] = k =>
               /\ heap[l].url = u
               /\ Chosen(o, heap[l].tags, searchCache[k].index)
        /\ searchCache[k].index \in DOMAIN heap[l].tags
        /\ CacheTimeout > 0 => heap[l].age <= searchCache[k].age + CacheTimeout
    BY <1>9 DEF IInv, SearchCacheOK
  <2>2. l \in Lists /\ searchCache[k].age \in Nat
    BY <1>2, <1>9
  <2>3. /\ older(l).url = heap[l].url
        /\ older(l).tags = heap[l].tags
        /\ CacheTimeout > 0 =>
             older(l).age <= (searchCache[k].age + 1) + CacheTimeout
    BY <1>2, <1>5, <2>1, <2>2
  <2> QED BY <1>9, <2>1, <2>3
<1>13. ASSUME NEW x \in Workers
       PROVE  WorkerOK(x)'
  <2>1. pc[x] \notin Holding
    BY <1>1 DEF Holding
  <2> QED BY <1>1, <2>1, OthersKeep DEF IInv
<1>14. ListsOK'
  <2>1. ASSUME NEW l \in Lists
        PROVE  Distinct(heap'[l].tags)
    <3>1. heap'[l].tags = heap[l].tags \/ heap'[l].tags = <<>>
      BY <1>1, <1>5 DEF FreeList
    <3>2. Distinct(<<>>)
      BY DEF Distinct
    <3> QED BY <3>1, <3>2 DEF IInv, ListsOK
  <2> QED BY <2>1 DEF ListsOK
<1> QED BY <1>10, <1>11, <1>12, <1>13, <1>14 DEF IInv

LEMMA PushStep ==
  ASSUME IInv, NEW u \in URLs, Push(u)
  PROVE  IInv'
<1>1. /\ UNCHANGED <<running, heap, imageCache, searchCache, pc, image, ptr, verdict>>
      /\ \E tags \in TagLists[u] : registry' = [registry EXCEPT ![u] = tags]
  BY DEF Push
<1>2. TypeOK' /\ DOMAIN registry' = URLs
  BY <1>1 DEF IInv, TypeOK
<1>3. ImageCacheOK'
  BY <1>1 DEF IInv, ImageCacheOK
<1>4. SearchCacheOK' /\ ListsOK'
  BY <1>1 DEF IInv, SearchCacheOK, ListsOK
<1>5. \A w \in Workers : WorkerOK(w)'
  BY <1>1 DEF IInv, WorkerOK
<1> QED BY <1>2, <1>3, <1>4, <1>5 DEF IInv

----------------------------------------------------------------------------
(* The theorems *)

\* The program starts with empty caches and idle workers.
LEMMA InitInv == Init => IInv
<1> SUFFICES ASSUME Init PROVE IInv
  OBVIOUS
<1>1. FreeList \in HeapList
  BY NumbersType DEF FreeList, HeapList, Ages, MaxAge
<1>2. TypeOK /\ DOMAIN registry = URLs
  BY <1>1 DEF Init, TypeOK, HeapList, NoPtr, Ptr, PCs
<1>3. ImageCacheOK /\ SearchCacheOK /\ ListsOK
  BY DEF Init, ImageCacheOK, SearchCacheOK, ListsOK, Distinct, FreeList
<1>4. ASSUME NEW w \in Workers
      PROVE  WorkerOK(w)
  BY DEF Init, WorkerOK, Holding, Pointing, Resolving, Judged
<1> QED BY <1>2, <1>3, <1>4 DEF IInv

\* A step of a check.
LEMMA CheckStep ==
  ASSUME IInv, NEW w \in Workers, Check(w)
  PROVE  IInv'
<1>1. CASE ResolveSHAToTag(w)
  BY <1>1, GetTagsStep DEF ResolveSHAToTag
<1>2. CASE LatestTagFromImage(w)
  BY <1>2, GetTagsStep DEF LatestTagFromImage
<1>3. CASE FetchError(w) \/ SelectError(w) \/ Report(w)
  BY <1>3, EndStep DEF FetchError, SelectError, Report
<1> QED BY <1>1, <1>2, <1>3, ResolveErrorStep, MatchStep, LatestImageStep, FetchStep,
           CommitImageStep, SelectStep, CommitSearchStep, isLatestSHAStep,
           isLatestSemverStep, AppendSHAStep
        DEF Check

\* Every step keeps the invariant.
LEMMA NextInv == IInv /\ [Next]_vars => IInv'
<1> SUFFICES ASSUME IInv, [Next]_vars PROVE IInv'
  OBVIOUS
<1>1. CASE Tick
  BY <1>1, TickStep
<1>2. CASE \E u \in URLs : Push(u)
  BY <1>2, PushStep
<1>3. CASE \E w \in Workers : Check(w)
  BY <1>3, CheckStep
<1>4. CASE \E w \in Workers, img \in running : Container(w, img)
  BY <1>4, ContainerStep
<1>5. CASE UNCHANGED vars
  <2>1. /\ UNCHANGED <<running, registry, heap, imageCache, searchCache>>
        /\ UNCHANGED <<pc, image, ptr, verdict>>
    BY <1>5 DEF vars, envVars
  <2>2. TypeOK' /\ DOMAIN registry' = URLs
    BY <2>1 DEF IInv, TypeOK
  <2>3. ImageCacheOK' /\ SearchCacheOK' /\ ListsOK'
    BY <2>1 DEF IInv, ImageCacheOK, SearchCacheOK, ListsOK
  <2>4. \A w \in Workers : WorkerOK(w)'
    BY <2>1 DEF IInv, WorkerOK
  <2> QED BY <2>2, <2>3, <2>4 DEF IInv
<1> QED BY <1>1, <1>2, <1>3, <1>4, <1>5 DEF Next

\* What the invariant is for.
LEMMA InvImplies ==
  IInv => /\ TypeOK /\ RightImage /\ StalenessBound
          /\ OutdatedJustified /\ LatestJustified
<1> SUFFICES ASSUME IInv
             PROVE  /\ TypeOK /\ RightImage /\ StalenessBound
                    /\ OutdatedJustified /\ LatestJustified
  OBVIOUS
<1>1. ASSUME NEW w \in Workers, ptr[w].list # None
      PROVE  /\ heap[ptr[w].list].url = image[w].url
             /\ CacheTimeout > 0 => heap[ptr[w].list].age <= 2 * CacheTimeout
  BY <1>1 DEF IInv, WorkerOK, NoPtr
<1>2. RightImage
  <2>1. ASSUME NEW u \in URLs, NEW o \in Options
        PROVE  LET item == searchCache[HashIndex[<<u, o>>]] IN
               item # None =>
                 /\ heap[item.list].url = u
                 /\ item.index \in DOMAIN heap[item.list].tags
    <3>1. HashIndex[<<u, o>>] \in Keys
      BY LookupAssumption
    <3> QED BY <3>1 DEF IInv, SearchCacheOK
  <2> QED BY <1>1, <2>1 DEF RightImage, IInv, ImageCacheOK
<1>3. StalenessBound
  BY <1>1 DEF StalenessBound, IInv, SearchCacheOK
<1>4. OutdatedJustified /\ LatestJustified
  BY DEF OutdatedJustified, LatestJustified, IInv, WorkerOK, Judged, Justified
<1> QED BY <1>2, <1>3, <1>4 DEF IInv

\* The variables of the lookup have their types, whatever the workers do.
THEOREM LookupTypes == Spec => []TypeOK
BY InitInv, NextInv, InvImplies, PTL DEF Spec

\* Whoever reads a list of tags, through either cache or a pointer kept from
\* an earlier step, reads one of the URL that it checks: misses that overlap,
\* entries that are replaced, addresses that are used again do not matter.
THEOREM RightImageAlways == Spec => []RightImage
BY InitInv, NextInv, InvImplies, PTL DEF Spec

\* No verdict rests on tags older than two timeouts, for any timeout but 0,
\* with which nothing expires.
THEOREM StalenessBounded == Spec => []StalenessBound
BY InitInv, NextInv, InvImplies, PTL DEF Spec

\* An image that is called outdated is outdated with respect to the list that
\* its verdict rests on, whatever tags other checks have appended a SHA to
\* before, between or after the steps of this one: by version, the list has a
\* greater number or the tag of its very name with another digest.  Images that
\* a resolution gave a changed or a foreign tag are left out.
THEOREM OutdatedAlwaysJustified == Spec => []OutdatedJustified
BY InitInv, NextInv, InvImplies, PTL DEF Spec

\* An image that is called latest is up to date with respect to its list if no
\* check has appended a SHA to a tag of that list: nothing has a greater number,
\* and its digest is that of the tag of its name unless another name of the
\* list has its number.  No name is taken to differ in number from another.
THEOREM LatestAlwaysJustified == Spec => []LatestJustified
BY InitInv, NextInv, InvImplies, PTL DEF Spec
=============================================================================
