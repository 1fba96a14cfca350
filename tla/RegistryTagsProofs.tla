------------------------- MODULE RegistryTagsProofs -------------------------
(***************************************************************************)
(* Proofs about the registry clients' lookups, for any pages of tags, any  *)
(* digests, any number of permits and any page limit.                      *)
(***************************************************************************)
EXTENDS RegistryTags, FiniteSetTheorems, SequenceTheorems, TLAPS

----------------------------------------------------------------------------
(* The inductive invariant *)

Pooled == {"quay", "oci"}                  \* a goroutine per tag
Fetching == Pooled \cup {"selfhosted"}     \* a request per tag

\* The tags whose goroutines hold permit n.
SemOf(t) == IF registry = "quay" THEN PageOf(t) ELSE 1
Holders(n) == {t \in AllTags : fetcher[t] \in {"manifest", "leave"} /\ SemOf(t) = n}

\* Permits are taken by those goroutines that have not left.
PermitsOK ==
  registry \in Pooled =>
    \A n \in DOMAIN Pages : sem[n] = Cardinality(Holders(n))

\* An entry has digests of its own tag.  A tag whose manifest has been read
\* has one entry, a tag that was dropped has none, before and after the
\* goroutine leaves.
EntriesOK ==
  \A t \in AllTags :
    /\ shas[t] \subseteq {Digest[t]} \cup Platforms[t]
    /\ copies[t] > 0 /\ registry \in Digested => shas[t] # {}
    /\ registry \in Fetching =>
         /\ copies[t] = IF fetcher[t] \in {"leave", "done"} /\ t \notin errs
                        THEN 1 ELSE 0
         /\ fetcher[t] \in {"ready", "manifest"} => t \notin errs

\* quay: goroutines have been started for the tags of the pages up to the
\* present one, and what is left of the pages is refused, or still to come.
QuayOK ==
  registry = "quay" =>
    /\ pc \in {"page", "wait", "tags", "error"}
    /\ hasAdditional => page <= Len(Pages)
    /\ \A t \in AllTags :
         /\ fetcher[t] # "none" => PageOf(t) < page /\ PageOf(t) < PageLimit
         /\ fetcher[t] = "none" /\ hasAdditional => PageOf(t) >= page /\ t \notin errs
         /\ fetcher[t] = "none" /\ ~ hasAdditional => t \in errs
    /\ pc \in {"wait", "tags"} => ~ (hasAdditional /\ page < PageLimit)

\* OCI: all goroutines are started at once.
OciOK ==
  registry = "oci" =>
    /\ pc \in {"page", "wait", "tags", "error"}
    /\ pc = "page" => errs = {} /\ \A t \in AllTags : fetcher[t] = "none"
    /\ pc \in {"wait", "tags"} => \A t \in AllTags : fetcher[t] # "none"

\* The self-hosted client has the tags of the first page to go through.
SelfhostedOK ==
  registry = "selfhosted" =>
    /\ pc \in {"page", "manifests", "tags", "error"}
    /\ \A t \in AllTags : fetcher[t] # "leave"
    /\ pc = "page" => errs = {} /\ \A t \in AllTags : fetcher[t] = "none"
    /\ pc \in {"manifests", "tags"} =>
         \A t \in AllTags : fetcher[t] # "none" <=> t \in Pages[1]

\* The others have the tags of the pages before the one that they ask for, but
\* for those that were lost.
PagedOK ==
  registry \notin Fetching =>
    /\ pc \in {"owner", "page", "tags", "error"}
    /\ pc = "tags" => ~ hasAdditional
    /\ \A t \in AllTags : fetcher[t] = "none"
    /\ hasAdditional =>
         /\ page \in DOMAIN Pages
         /\ registry \in {"gcr", "acr"} => page = 1
         /\ \A t \in AllTags :
              /\ t \in errs => PageOf(t) < page
              /\ copies[t] = IF PageOf(t) < page /\ t \notin errs THEN 1 ELSE 0
    /\ ~ hasAdditional =>
         \A t \in AllTags : copies[t] = IF t \in Asked \ errs THEN 1 ELSE 0

IInv ==
  /\ TypeOK
  /\ PermitsOK
  /\ EntriesOK
  /\ QuayOK /\ OciOK /\ SelfhostedOK /\ PagedOK
  /\ pc = "tags" => Running = {}

----------------------------------------------------------------------------
(* Facts about pages *)

LEMMA PagesType ==
  /\ Len(Pages) \in Nat /\ Len(Pages) > 0
  /\ DOMAIN Pages = 1 .. Len(Pages)
  /\ \A n \in DOMAIN Pages : Pages[n] \subseteq AllTags
BY PagesAssumption, LenProperties DEF AllTags

\* A tag is on one page.
LEMMA PageOfTag ==
  ASSUME NEW t \in AllTags
  PROVE  /\ PageOf(t) \in DOMAIN Pages
         /\ \A n \in DOMAIN Pages : t \in Pages[n] <=> n = PageOf(t)
         /\ \A n : t \in From(n) <=> PageOf(t) >= n
<1>1. \E n \in DOMAIN Pages : t \in Pages[n]
  BY DEF AllTags
<1>2. PageOf(t) \in DOMAIN Pages /\ t \in Pages[PageOf(t)]
  BY <1>1 DEF PageOf
<1>3. \A n \in DOMAIN Pages : t \in Pages[n] <=> n = PageOf(t)
  BY <1>2, PagesAssumption
<1>4. ASSUME NEW n
      PROVE  t \in From(n) <=> PageOf(t) >= n
  BY <1>2, <1>3 DEF From
<1> QED BY <1>2, <1>3, <1>4

LEMMA FromType == \A n : From(n) \subseteq AllTags
BY DEF From, AllTags

\* A tag's own digests are digests.
LEMMA DigestType ==
  ASSUME NEW t \in AllTags
  PROVE  {Digest[t]} \cup Platforms[t] \subseteq Digests
BY DEF Digests

\* The sets of tags that are counted are finite.
LEMMA Finite ==
  /\ \A T \in SUBSET AllTags : IsFiniteSet(T) /\ Cardinality(T) \in Nat
  /\ Running \subseteq AllTags /\ IsFiniteSet(Running)
  /\ \A n : Holders(n) \subseteq AllTags /\ IsFiniteSet(Holders(n))
<1>1. ASSUME NEW T \in SUBSET AllTags
      PROVE  IsFiniteSet(T) /\ Cardinality(T) \in Nat
  BY PagesAssumption, FS_Subset, FS_CardinalityType
<1> QED BY <1>1 DEF Running, Holders

----------------------------------------------------------------------------
(* The goroutine of a tag *)

\* What a step of it does, with the semaphore that it uses.
Acquires(t) ==
  /\ Move(t, "ready", "manifest")
  /\ sem[SemOf(t)] < Permits
  /\ sem' = [sem EXCEPT ![SemOf(t)] = @ + 1]
  /\ UNCHANGED <<wg, listVars, errs>>

Appends(t) ==
  /\ Move(t, "manifest", "leave")
  /\ \E d : /\ d[t] \subseteq {Digest[t]} \cup Platforms[t]
            /\ registry \in Digested => d[t] # {}
            /\ AppendTags({t}, d)
  /\ UNCHANGED <<wg, sem, errs>>

Drops(t) ==
  /\ Move(t, "manifest", "leave")
  /\ errs' = errs \cup {t}
  /\ UNCHANGED <<wg, sem, listVars>>

Leaves(t) ==
  /\ Move(t, "leave", "done")
  /\ sem' = [sem EXCEPT ![SemOf(t)] = @ - 1]
  /\ wg' = wg - 1
  /\ UNCHANGED <<listVars, errs>>

Goes(t) ==
  /\ Acquires(t) \/ Appends(t) \/ Drops(t) \/ Leaves(t)
  /\ UNCHANGED <<registry, pageVars>>

\* A goroutine that has been started moves; the others stay where they are.
LEMMA GoMoves ==
  ASSUME IInv, NEW t \in AllTags, Goes(t)
  PROVE  /\ fetcher[t] \in {"ready", "manifest", "leave"}
         /\ fetcher'[t] \in {"manifest", "leave", "done"}
         /\ fetcher' = [fetcher EXCEPT ![t] = fetcher'[t]]
         /\ fetcher' \in [AllTags -> FetcherPCs]
         /\ \A s \in AllTags : s # t => fetcher'[s] = fetcher[s]
         /\ t \in Running
<1>1. fetcher \in [AllTags -> FetcherPCs]
  BY DEF IInv, TypeOK
<1> QED
  BY <1>1 DEF Goes, Acquires, Appends, Drops, Leaves, Move, Running, FetcherPCs

\* The wait group counts those that have not left.
LEMMA GoWaits ==
  ASSUME IInv, registry \in Pooled, NEW t \in AllTags, Goes(t)
  PROVE  wg' = Cardinality(Running')
<1>1. wg = Cardinality(Running)
  BY DEF IInv, TypeOK, Pooled
<1>2. t \in Running
  BY GoMoves
<1>3. CASE Leaves(t)
  <2>1. Running' = Running \ {t}
    BY <1>3, GoMoves DEF Running, Leaves, Move
  <2>2. wg' = wg - 1
    BY <1>3 DEF Leaves
  <2> QED BY <1>1, <1>2, <2>1, <2>2, Finite, FS_RemoveElement
<1>4. CASE ~ Leaves(t)
  <2>1. Running' = Running /\ wg' = wg
    BY <1>4, GoMoves DEF Goes, Running, Acquires, Appends, Drops, Move
  <2> QED BY <1>1, <2>1
<1> QED BY <1>3, <1>4

\* The semaphore counts those that acquired it and have not left.
LEMMA GoPermits ==
  ASSUME IInv, registry \in Pooled, NEW t \in AllTags, Goes(t)
  PROVE  /\ PermitsOK'
         /\ sem' \in [DOMAIN Pages -> 0 .. Permits]
<1>1. SemOf(t) \in DOMAIN Pages
  BY PageOfTag, PagesType DEF SemOf
<1>2. /\ sem \in [DOMAIN Pages -> 0 .. Permits]
      /\ \A n \in DOMAIN Pages : sem[n] = Cardinality(Holders(n))
  BY DEF IInv, TypeOK, PermitsOK
<1>3. \A s : SemOf(s)' = SemOf(s)
  BY DEF Goes, SemOf
<1>4. ASSUME NEW n \in DOMAIN Pages
      PROVE  sem'[n] = Cardinality(Holders(n)') /\ sem'[n] \in 0 .. Permits
  <2>1. CASE Acquires(t) /\ SemOf(t) = n
    <3>1. Holders(n)' = Holders(n) \cup {t} /\ t \notin Holders(n)
      BY <1>3, <2>1, GoMoves DEF Holders, Acquires, Move
    <3>2. sem'[n] = sem[n] + 1 /\ sem[n] < Permits
      BY <1>2, <2>1 DEF Acquires
    <3>3. Cardinality(Holders(n)') = Cardinality(Holders(n)) + 1
      BY <3>1, Finite, FS_AddElement
    <3> QED BY <1>2, <3>2, <3>3, PagesAssumption
  <2>2. CASE Leaves(t) /\ SemOf(t) = n
    <3>1. Holders(n)' = Holders(n) \ {t} /\ t \in Holders(n)
      BY <1>3, <2>2, GoMoves DEF Holders, Leaves, Move
    <3>2. sem'[n] = sem[n] - 1
      BY <1>2, <2>2 DEF Leaves
    <3>3. Cardinality(Holders(n)') = Cardinality(Holders(n)) - 1
      BY <3>1, Finite, FS_RemoveElement
    <3>4. Cardinality(Holders(n)') \in Nat
      BY <3>1, Finite
    <3> QED BY <1>2, <3>2, <3>3, <3>4, PagesAssumption
  <2>3. CASE ~ (Acquires(t) \/ Leaves(t)) \/ SemOf(t) # n
    <3>1. SemOf(t) = n => fetcher[t] = "manifest" /\ fetcher'[t] = "leave"
      BY <2>3, GoMoves DEF Goes, Appends, Drops, Move
    <3>2. \A s \in AllTags :
            fetcher'[s] \in {"manifest", "leave"} /\ SemOf(s) = n
              <=> fetcher[s] \in {"manifest", "leave"} /\ SemOf(s) = n
      BY <3>1, GoMoves
    <3>3. Holders(n)' = Holders(n)
      BY <1>3, <3>2, Zenon DEF Holders
    <3>4. sem'[n] = sem[n]
      BY <1>1, <1>2, <2>3 DEF Goes, Acquires, Appends, Drops, Leaves
    <3> QED BY <1>2, <3>3, <3>4
  <2> QED BY <2>1, <2>2, <2>3
<1>5. DOMAIN sem' = DOMAIN Pages /\ sem' = [n \in DOMAIN Pages |-> sem'[n]]
  BY <1>2 DEF Goes, Acquires, Appends, Drops, Leaves
<1> QED BY <1>4, <1>5 DEF PermitsOK

\* A list keeps one entry for each tag that was read.
LEMMA GoEntries ==
  ASSUME IInv, registry \in Pooled, NEW t \in AllTags, Goes(t)
  PROVE  /\ EntriesOK'
         /\ copies' \in [AllTags -> Nat]
         /\ shas' \in [AllTags -> SUBSET Digests]
         /\ errs' \in SUBSET AllTags
<1>1. /\ copies \in [AllTags -> Nat] /\ shas \in [AllTags -> SUBSET Digests]
      /\ errs \in SUBSET AllTags
      /\ registry' = registry /\ registry \in Fetching
  BY DEF IInv, TypeOK, Goes, Fetching
<1>2. CASE Appends(t)
  <2>1. PICK d : /\ d[t] \subseteq {Digest[t]} \cup Platforms[t]
                 /\ registry \in Digested => d[t] # {}
                 /\ AppendTags({t}, d)
    BY <1>2 DEF Appends
  <2>2. d[t] \subseteq Digests
    BY <2>1, DigestType
  <2>3. errs' = errs /\ fetcher[t] = "manifest" /\ fetcher'[t] = "leave"
    BY <1>2, GoMoves DEF Appends, Move
  <2>4. copies' \in [AllTags -> Nat] /\ shas' \in [AllTags -> SUBSET Digests]
    BY <1>1, <2>1, <2>2 DEF AppendTags
  <2>5. ASSUME NEW s \in AllTags
        PROVE  /\ copies'[s] = IF s = t THEN copies[s] + 1 ELSE copies[s]
               /\ shas'[s] = IF s = t THEN shas[s] \cup d[t] ELSE shas[s]
    BY <2>1 DEF AppendTags
  <2>6. EntriesOK'
    <3>1. ASSUME NEW s \in AllTags, s # t
          PROVE  /\ copies'[s] = copies[s] /\ shas'[s] = shas[s]
                 /\ fetcher'[s] = fetcher[s]
      BY <2>5, <3>1, GoMoves
    <3>2. copies[t] = 0 /\ t \notin errs /\ shas[t] \subseteq {Digest[t]} \cup Platforms[t]
      BY <1>1, <2>3 DEF IInv, EntriesOK
    <3>3. copies'[t] = copies[t] + 1 /\ shas'[t] = shas[t] \cup d[t]
      BY <2>5, Zenon
    <3>4. copies'[t] = 1
      BY <3>2, <3>3
    <3> QED BY <1>1, <2>1, <2>3, <3>1, <3>2, <3>3, <3>4 DEF IInv, EntriesOK
  <2> QED BY <1>1, <2>3, <2>4, <2>6
<1>3. CASE Drops(t)
  <2>1. errs' = errs \cup {t} /\ fetcher[t] = "manifest" /\ fetcher'[t] = "leave"
    BY <1>3, GoMoves DEF Drops, Move
  <2>2. UNCHANGED listVars
    BY <1>3 DEF Drops
  <2>3. EntriesOK'
    BY <1>1, <2>1, <2>2, GoMoves DEF IInv, EntriesOK, listVars
  <2> QED BY <1>1, <2>1, <2>2, <2>3 DEF listVars
<1>4. CASE Acquires(t) \/ Leaves(t)
  <2>1. \/ fetcher[t] = "ready" /\ fetcher'[t] = "manifest"
        \/ fetcher[t] = "leave" /\ fetcher'[t] = "done"
    BY <1>4, GoMoves DEF Acquires, Leaves, Move
  <2>2. UNCHANGED <<listVars, errs>>
    BY <1>4 DEF Acquires, Leaves
  <2>3. EntriesOK'
    BY <1>1, <2>1, <2>2, GoMoves DEF IInv, EntriesOK, listVars
  <2> QED BY <1>1, <2>2, <2>3 DEF listVars
<1> QED BY <1>2, <1>3, <1>4 DEF Goes

LEMMA GoStep ==
  ASSUME IInv, registry \in Pooled, NEW t \in AllTags, Goes(t)
  PROVE  IInv'
<1>1. UNCHANGED <<registry, pc, page, hasAdditional>>
  BY DEF Goes, pageVars
<1>2. TypeOK'
  BY <1>1, GoMoves, GoWaits, GoPermits, GoEntries DEF IInv, TypeOK, Pooled
<1>3. errs' \subseteq errs \cup {t} /\ errs \subseteq errs'
  BY DEF Goes, Acquires, Appends, Drops, Leaves
<1>4. \A s \in AllTags : fetcher'[s] = "none" <=> fetcher[s] = "none"
  BY GoMoves
<1>5. \A s \in AllTags : fetcher[s] = "none" => (s \in errs' <=> s \in errs)
  BY <1>3, GoMoves
<1>6. QuayOK'
  BY <1>1, <1>4, <1>5 DEF IInv, QuayOK
<1>7. OciOK'
  BY <1>1, <1>4, GoMoves DEF IInv, OciOK
<1>8. SelfhostedOK' /\ PagedOK'
  BY <1>1 DEF SelfhostedOK, PagedOK, Pooled, Fetching
<1>9. pc' # "tags"
  BY <1>1, GoMoves DEF IInv
<1> QED BY <1>2, <1>6, <1>7, <1>8, <1>9, GoPermits, GoEntries DEF IInv

----------------------------------------------------------------------------
(* quay *)

LEMMA QuayGo ==
  ASSUME IInv, registry = "quay", NEW t \in AllTags, Quay!fetchTag(t),
         UNCHANGED registry
  PROVE  Goes(t)
<1>1. SemOf(t) = Quay!PageOf(t)
  BY DEF SemOf, PageOf, Quay!PageOf
<1>2. CASE Quay!Acquire(t)
  BY <1>1, <1>2 DEF Quay!Acquire, Quay!Move, Quay!pageVars, Quay!listVars,
                    Goes, Acquires, Move, pageVars, listVars
<1>3. CASE Quay!Leave(t)
  BY <1>1, <1>3 DEF Quay!Leave, Quay!Move, Quay!pageVars, Quay!listVars,
                    Goes, Leaves, Move, pageVars, listVars
<1>4. CASE Quay!ManifestError(t)
  BY <1>4 DEF Quay!ManifestError, Quay!Move, Quay!pageVars, Quay!listVars,
              Goes, Drops, Move, pageVars, listVars
<1>5. CASE Quay!AppendTag(t)
  <2>1. PICK d \in {Quay!AllDigests, [s \in Quay!AllTags |-> {Digest[s]}]} :
          Quay!AppendTags({t}, d)
    BY <1>5 DEF Quay!AppendTag
  <2>2. d[t] \subseteq {Digest[t]} \cup Platforms[t] /\ d[t] # {}
    BY <2>1 DEF Quay!AllDigests, Quay!AllTags, AllTags
  <2>3. AppendTags({t}, d)
    BY <2>1 DEF Quay!AppendTags, AppendTags, Quay!AllTags, AllTags
  <2> QED BY <1>5, <2>2, <2>3 DEF Quay!AppendTag, Quay!Move, Quay!pageVars,
             Goes, Appends, Move, pageVars
<1> QED BY <1>2, <1>3, <1>4, <1>5 DEF Quay!fetchTag

\* A page arrives: the goroutines of its tags are started, each for the first
\* time, and counted before they run.
LEMMA QuayPageStep ==
  ASSUME IInv, registry = "quay", Quay!fetchTagsPaged, UNCHANGED registry
  PROVE  IInv'
<1> DEFINE P == Pages[page]
<1>1. /\ pc = "page" /\ hasAdditional /\ page < PageLimit
      /\ wg' = wg + Cardinality(P)
      /\ fetcher' = [t \in AllTags |-> IF t \in P THEN "ready" ELSE fetcher[t]]
      /\ page' = page + 1
      /\ UNCHANGED <<registry, pc, sem, copies, shas, errs>>
  <2>1. Quay!Cardinality(P) = Cardinality(P)
    BY Zenon DEF Quay!Cardinality, Cardinality
  <2> QED BY <2>1, Zenon DEF Quay!fetchTagsPaged, Quay!More, Quay!listVars,
                             Quay!AllTags, AllTags
<1>0. hasAdditional' \in BOOLEAN /\ (hasAdditional' <=> page < Len(Pages))
  <2>1. hasAdditional' = (page < Len(Pages))
    BY Zenon DEF Quay!fetchTagsPaged
  <2>2. (page < Len(Pages)) \in BOOLEAN
    OBVIOUS
  <2> QED BY <2>1, <2>2, Zenon
<1>2. page \in DOMAIN Pages /\ P \subseteq AllTags
  BY <1>1, PagesType DEF IInv, TypeOK, QuayOK
<1>3. ASSUME NEW t \in AllTags
      PROVE  /\ t \in P <=> PageOf(t) = page
             /\ PageOf(t) \in 1 .. Len(Pages)
             /\ t \in P => fetcher[t] = "none" /\ t \notin errs
             /\ fetcher'[t] = IF t \in P THEN "ready" ELSE fetcher[t]
  <2>1. PageOf(t) \in 1 .. Len(Pages) /\ (t \in P <=> PageOf(t) = page)
    BY <1>2, PageOfTag, PagesType
  <2> QED BY <1>1, <2>1 DEF IInv, QuayOK
<1>4. wg' = Cardinality(Running')
  <2>1. Running' = Running \cup P /\ Running \cap P = {}
    BY <1>1, <1>2, <1>3 DEF Running
  <2>2. Cardinality(Running \cap P) = 0
    BY <2>1, FS_EmptySet
  <2>3. /\ Cardinality(Running) \in Nat /\ Cardinality(P) \in Nat
        /\ IsFiniteSet(Running) /\ IsFiniteSet(P)
    BY <1>2, Finite
  <2>4. Cardinality(Running \cup P)
          = Cardinality(Running) + Cardinality(P) - Cardinality(Running \cap P)
    BY <2>3, FS_Union
  <2>5. wg = Cardinality(Running)
    BY DEF IInv, TypeOK
  <2> QED BY <1>1, <2>1, <2>2, <2>3, <2>4, <2>5
<1> HIDE DEF P
<1>5. TypeOK'
  BY <1>0, <1>1, <1>2, <1>3, <1>4, PagesType DEF IInv, TypeOK, FetcherPCs
<1>6. PermitsOK'
  <2>1. ASSUME NEW n
        PROVE  Holders(n)' = Holders(n)
    BY <1>1, <1>3 DEF Holders, SemOf
  <2> QED BY <1>1, <2>1 DEF IInv, PermitsOK
<1>7. EntriesOK'
  BY <1>1, <1>3 DEF IInv, EntriesOK
<1>8. QuayOK'
  <2>1. page \in Nat /\ page <= Len(Pages) /\ Len(Pages) \in Nat /\ PageLimit \in Nat
    BY <1>2, PagesType, PagesAssumption
  <2>2. ASSUME NEW t \in AllTags
        PROVE  /\ fetcher'[t] # "none" => PageOf(t) < page' /\ PageOf(t) < PageLimit
               /\ fetcher'[t] = "none" /\ hasAdditional' => PageOf(t) >= page' /\ t \notin errs'
               /\ fetcher'[t] = "none" /\ ~ hasAdditional' => t \in errs'
    <3>1. CASE t \in P
      BY <1>0, <1>1, <1>3, <2>1, <3>1
    <3>2. CASE t \notin P
      BY <1>0, <1>1, <1>3, <2>1, <3>2 DEF IInv, QuayOK
    <3> QED BY <3>1, <3>2
  <2> QED BY <1>0, <1>1, <2>1, <2>2 DEF QuayOK
<1>9. OciOK' /\ SelfhostedOK' /\ PagedOK'
  BY <1>1 DEF OciOK, SelfhostedOK, PagedOK, Pooled, Fetching
<1> QED BY <1>1, <1>5, <1>6, <1>7, <1>8, <1>9 DEF IInv

\* The steps of the pager that start nothing.
LEMMA QuayPagerStep ==
  ASSUME IInv, registry = "quay", UNCHANGED registry,
         Quay!PageError \/ Quay!PageRefused \/ Quay!LastPage \/ Quay!Wait
  PROVE  IInv'
<1>1. UNCHANGED <<wg, sem, fetcher, copies, shas>>
  BY DEF Quay!PageError, Quay!PageRefused, Quay!LastPage, Quay!Wait, Quay!Abandon,
         Quay!goVars, Quay!listVars
<1>2. Running' = Running /\ \A n : Holders(n)' = Holders(n)
  BY <1>1 DEF Running, Holders, SemOf
<1>3. PermitsOK'
  BY <1>1, <1>2 DEF IInv, PermitsOK
<1>4. OciOK' /\ SelfhostedOK' /\ PagedOK'
  BY DEF OciOK, SelfhostedOK, PagedOK, Pooled, Fetching
<1>5. CASE Quay!PageRefused
  <2>1. /\ pc = "page" /\ hasAdditional /\ page < PageLimit
        /\ hasAdditional' = FALSE /\ page' = page + 1
        /\ errs' = errs \cup From(page) /\ pc' = pc
    BY <1>5 DEF Quay!PageRefused, Quay!More, Quay!From, From
  <2>2. page \in DOMAIN Pages /\ errs' \subseteq AllTags
    BY <2>1, PagesType, FromType DEF IInv, TypeOK, QuayOK
  <2>3. TypeOK'
    <3>1. page' \in 1 .. Len(Pages) + 1
      BY <2>1, <2>2, PagesType
    <3>2. hasAdditional' \in BOOLEAN
      BY <2>1, Zenon
    <3> QED BY <1>1, <1>2, <2>1, <2>2, <3>1, <3>2 DEF IInv, TypeOK
  <2>4. ASSUME NEW t \in AllTags
        PROVE  /\ PageOf(t) \in Nat /\ (t \in errs' <=> t \in errs \/ PageOf(t) >= page)
               /\ fetcher[t] # "none" => PageOf(t) < page /\ PageOf(t) < PageLimit
               /\ fetcher[t] = "none" => PageOf(t) >= page
    BY <2>1, PageOfTag, PagesType DEF IInv, QuayOK
  <2>5. page \in Nat
    BY <2>2, PagesType
  <2>6. EntriesOK'
    <3>1. \A t \in AllTags : fetcher[t] # "none" => (t \in errs' <=> t \in errs)
      BY <2>4, <2>5
    <3> QED BY <1>1, <3>1 DEF IInv, EntriesOK
  <2>7. QuayOK'
    BY <1>1, <2>1, <2>4, <2>5 DEF QuayOK
  <2> QED BY <1>2, <1>3, <1>4, <2>1, <2>3, <2>6, <2>7 DEF IInv
<1>6. CASE Quay!PageError \/ Quay!LastPage \/ Quay!Wait
  <2>1. /\ UNCHANGED <<page, hasAdditional, errs>>
        /\ \/ pc' = "error"
           \/ pc' = "wait" /\ ~ (hasAdditional /\ page < PageLimit)
           \/ pc = "wait" /\ pc' = "tags" /\ wg = 0
    BY <1>6 DEF Quay!PageError, Quay!LastPage, Quay!Wait, Quay!Abandon, Quay!More
  <2>2. TypeOK' /\ EntriesOK' /\ QuayOK'
    BY <1>1, <1>2, <2>1 DEF IInv, TypeOK, PCs, EntriesOK, QuayOK
  <2>3. pc' = "tags" => Running' = {}
    BY <1>2, <2>1, Finite, FS_EmptySet DEF IInv, TypeOK
  <2> QED BY <1>3, <1>4, <2>2, <2>3 DEF IInv
<1> QED BY <1>5, <1>6

LEMMA QuayStep ==
  ASSUME IInv, registry = "quay", UNCHANGED registry, Quay!Next
  PROVE  IInv'
<1>1. CASE Quay!fetchTags
  BY <1>1, QuayPageStep, QuayPagerStep DEF Quay!fetchTags
<1>2. ASSUME NEW t \in AllTags, Quay!fetchTag(t)
      PROVE  IInv'
  BY <1>2, QuayGo, GoStep DEF Pooled
<1> QED BY <1>1, <1>2 DEF Quay!Next, Quay!AllTags, AllTags

----------------------------------------------------------------------------
(* OCI *)

LEMMA OciGo ==
  ASSUME IInv, registry = "oci", NEW t \in AllTags, Oci!Manifests(t),
         UNCHANGED registry
  PROVE  Goes(t)
<1>1. SemOf(t) = 1
  BY DEF SemOf
<1>2. CASE Oci!Acquire(t)
  BY <1>1, <1>2 DEF Oci!Acquire, Oci!Move, Oci!pageVars, Oci!listVars,
                    Goes, Acquires, Move, pageVars, listVars
<1>3. CASE Oci!Leave(t)
  BY <1>1, <1>3 DEF Oci!Leave, Oci!Move, Oci!pageVars, Oci!listVars,
                    Goes, Leaves, Move, pageVars, listVars
<1>4. CASE Oci!ManifestError(t)
  BY <1>4 DEF Oci!ManifestError, Oci!Move, Oci!pageVars, Oci!listVars,
              Goes, Drops, Move, pageVars, listVars
<1>5. CASE Oci!Manifest(t)
  <2>1. PICK k \in {Oci!Known(t), {}} : Oci!AppendTags({t}, [s \in Oci!AllTags |-> k])
    BY <1>5 DEF Oci!Manifest
  <2> DEFINE d == [s \in Oci!AllTags |-> k]
  <2>2. d[t] \subseteq {Digest[t]} \cup Platforms[t]
    BY DEF Oci!Known, Oci!AllTags, AllTags
  <2>3. AppendTags({t}, d)
    BY <2>1 DEF Oci!AppendTags, AppendTags, Oci!AllTags, AllTags
  <2> HIDE DEF d
  <2> QED BY <1>5, <2>2, <2>3 DEF Digested, Oci!Manifest, Oci!Move, Oci!pageVars,
             Goes, Appends, Move, pageVars
<1> QED BY <1>2, <1>3, <1>4, <1>5 DEF Oci!Manifests

\* The names arrive: every tag gets a goroutine, which the wait group counts.
LEMMA OciTagsStep ==
  ASSUME IInv, registry = "oci", UNCHANGED registry, Oci!Tags
  PROVE  IInv'
<1>1. Oci!Cardinality(AllTags) = Cardinality(AllTags)
  BY Zenon DEF Oci!Cardinality, Cardinality
<1>2. /\ pc = "page" /\ pc' = "wait"
      /\ wg' = Cardinality(AllTags)
      /\ fetcher' = [t \in AllTags |-> "ready"]
      /\ UNCHANGED <<registry, page, hasAdditional, sem, copies, shas, errs>>
  BY <1>1, Zenon DEF Oci!Tags, Oci!listVars, Oci!AllTags, AllTags
<1>3. errs = {} /\ \A t \in AllTags : fetcher[t] = "none" /\ fetcher'[t] = "ready"
  BY <1>2 DEF IInv, OciOK
<1>4. Running' = AllTags
  BY <1>3 DEF Running
<1>5. TypeOK'
  BY <1>2, <1>4 DEF IInv, TypeOK, PCs, FetcherPCs
<1>6. PermitsOK'
  <2>1. ASSUME NEW n
        PROVE  Holders(n)' = Holders(n)
    BY <1>3 DEF Holders
  <2> QED BY <1>2, <2>1 DEF IInv, PermitsOK
<1>7. EntriesOK'
  BY <1>2, <1>3 DEF IInv, EntriesOK
<1>8. QuayOK' /\ OciOK' /\ SelfhostedOK' /\ PagedOK'
  BY <1>2, <1>3 DEF QuayOK, OciOK, SelfhostedOK, PagedOK, Pooled, Fetching
<1> QED BY <1>2, <1>5, <1>6, <1>7, <1>8 DEF IInv

LEMMA OciStep ==
  ASSUME IInv, registry = "oci", UNCHANGED registry, Oci!Next
  PROVE  IInv'
<1>1. CASE Oci!ListError \/ Oci!Wait
  <2>1. /\ UNCHANGED <<page, hasAdditional, wg, sem, fetcher, copies, shas, errs>>
        /\ \/ pc' = "error"
           \/ pc = "wait" /\ pc' = "tags" /\ wg = 0
    BY <1>1 DEF Oci!ListError, Oci!Wait, Oci!Abandon, Oci!goVars, Oci!listVars
  <2>2. Running' = Running /\ \A n : Holders(n)' = Holders(n)
    BY <2>1 DEF Running, Holders, SemOf
  <2>3. TypeOK' /\ PermitsOK' /\ EntriesOK'
    BY <2>1, <2>2 DEF IInv, TypeOK, PCs, PermitsOK, EntriesOK
  <2>4. QuayOK' /\ OciOK' /\ SelfhostedOK' /\ PagedOK'
    BY <2>1 DEF IInv, QuayOK, OciOK, SelfhostedOK, PagedOK, Pooled, Fetching
  <2>5. pc' = "tags" => Running' = {}
    BY <2>1, <2>2, Finite, FS_EmptySet DEF IInv, TypeOK
  <2> QED BY <2>3, <2>4, <2>5 DEF IInv
<1>2. ASSUME NEW t \in AllTags, Oci!Manifests(t)
      PROVE  IInv'
  BY <1>2, OciGo, GoStep DEF Pooled
<1> QED BY <1>1, <1>2, OciTagsStep DEF Oci!Next, Oci!AllTags, AllTags

----------------------------------------------------------------------------
(* The self-hosted client *)

\* One tag's turn: its first request, a refusal, or its entry.
LEMMA SelfhostedTagStep ==
  ASSUME IInv, registry = "selfhosted", UNCHANGED registry, NEW t \in AllTags,
         Selfhosted!Manifest(t) \/ Selfhosted!Skip(t) \/ Selfhosted!ManifestList(t)
  PROVE  IInv'
<1>1. /\ pc = "manifests" /\ fetcher[t] \in {"ready", "manifest"}
      /\ UNCHANGED <<pc, page, hasAdditional, wg, sem>>
  BY DEF Selfhosted!Manifest, Selfhosted!Skip, Selfhosted!ManifestList,
         Selfhosted!Turn, Selfhosted!Move, Selfhosted!pageVars
<1>2. /\ fetcher'[t] \in {"manifest", "done"}
      /\ fetcher' = [fetcher EXCEPT ![t] = fetcher'[t]]
      /\ \A s \in AllTags : s # t => fetcher'[s] = fetcher[s]
      /\ fetcher' \in [AllTags -> FetcherPCs]
  BY DEF IInv, TypeOK, FetcherPCs, Selfhosted!Manifest, Selfhosted!Skip,
         Selfhosted!ManifestList, Selfhosted!Move
<1>3. /\ EntriesOK'
      /\ copies' \in [AllTags -> Nat] /\ shas' \in [AllTags -> SUBSET Digests]
      /\ errs' \in SUBSET AllTags
  <2>1. /\ copies \in [AllTags -> Nat] /\ shas \in [AllTags -> SUBSET Digests]
        /\ errs \in SUBSET AllTags
        /\ copies[t] = 0 /\ t \notin errs
        /\ shas[t] \subseteq {Digest[t]} \cup Platforms[t]
    BY <1>1 DEF IInv, TypeOK, EntriesOK, Fetching
  <2>2. CASE Selfhosted!Manifest(t)
    <3>1. UNCHANGED <<copies, shas, errs>> /\ fetcher'[t] = "manifest"
      BY <2>2 DEF Selfhosted!Manifest, Selfhosted!Move, Selfhosted!listVars, IInv, TypeOK
    <3>2. EntriesOK'
      BY <1>1, <1>2, <2>1, <3>1 DEF IInv, EntriesOK
    <3> QED BY <2>1, <3>1, <3>2
  <2>3. CASE Selfhosted!Skip(t)
    <3>1. /\ UNCHANGED <<copies, shas>> /\ errs' = errs \cup {t}
          /\ fetcher'[t] = "done"
      BY <2>3 DEF Selfhosted!Skip, Selfhosted!listVars, IInv, TypeOK
    <3>2. EntriesOK'
      BY <1>1, <1>2, <2>1, <3>1 DEF IInv, EntriesOK
    <3> QED BY <2>1, <3>1, <3>2
  <2>4. CASE Selfhosted!ManifestList(t)
    <3>1. PICK header \in {{Digest[t]}, {}},
               first \in IF Platforms[t] = {} THEN {{}} ELSE {{d} : d \in Platforms[t]} :
            Selfhosted!AppendTags({t},
              [s \in Selfhosted!AllTags |-> Selfhosted!BuildTags(t, header, first)])
      BY <2>4 DEF Selfhosted!ManifestList
    <3> DEFINE k == Selfhosted!BuildTags(t, header, first)
    <3>2. k \subseteq {Digest[t]} \cup Platforms[t]
      BY DEF Selfhosted!BuildTags
    <3>3. k \subseteq Digests
      BY <3>2, DigestType
    <3>4. AppendTags({t}, [s \in AllTags |-> k])
      BY <3>1 DEF Selfhosted!AppendTags, AppendTags, Selfhosted!AllTags, AllTags
    <3> HIDE DEF k
    <3>5. ASSUME NEW s \in AllTags
          PROVE  /\ copies'[s] = IF s = t THEN copies[s] + 1 ELSE copies[s]
                 /\ shas'[s] = IF s = t THEN shas[s] \cup k ELSE shas[s]
      BY <3>4 DEF AppendTags
    <3>6. copies' \in [AllTags -> Nat] /\ shas' \in [AllTags -> SUBSET Digests]
      BY <2>1, <3>3, <3>4 DEF AppendTags
    <3>7. errs' = errs /\ fetcher'[t] = "done"
      BY <2>4 DEF Selfhosted!ManifestList, Selfhosted!Move, IInv, TypeOK
    <3>8. copies'[t] = copies[t] + 1 /\ shas'[t] = shas[t] \cup k
      BY <3>5, Zenon
    <3>9. copies'[t] = 1
      BY <2>1, <3>8
    <3>10. ASSUME NEW s \in AllTags, s # t
           PROVE  copies'[s] = copies[s] /\ shas'[s] = shas[s]
      BY <3>5, <3>10
    <3>11. EntriesOK'
      BY <1>1, <1>2, <2>1, <3>2, <3>7, <3>8, <3>9, <3>10 DEF IInv, EntriesOK, Digested
    <3> QED BY <2>1, <3>6, <3>7, <3>11
  <2> QED BY <2>2, <2>3, <2>4
<1>4. TypeOK'
  BY <1>1, <1>2, <1>3 DEF IInv, TypeOK
<1>5. SelfhostedOK'
  BY <1>1, <1>2 DEF IInv, SelfhostedOK
<1>6. PermitsOK' /\ QuayOK' /\ OciOK' /\ PagedOK'
  BY DEF PermitsOK, QuayOK, OciOK, PagedOK, Pooled, Fetching
<1> QED BY <1>1, <1>3, <1>4, <1>5, <1>6 DEF IInv

LEMMA SelfhostedStep ==
  ASSUME IInv, registry = "selfhosted", UNCHANGED registry, Selfhosted!Next
  PROVE  IInv'
<1>1. PermitsOK' /\ QuayOK' /\ OciOK' /\ PagedOK'
  BY DEF PermitsOK, QuayOK, OciOK, PagedOK, Pooled, Fetching
<1>2. CASE Selfhosted!Tags
  <2>1. /\ pc = "page" /\ pc' = "manifests" /\ page' = 2
        /\ fetcher' = [t \in AllTags |-> IF t \in Pages[1] THEN "ready" ELSE "none"]
        /\ UNCHANGED <<registry, hasAdditional, wg, sem, copies, shas, errs>>
    BY <1>2 DEF Selfhosted!Tags, Selfhosted!listVars, Selfhosted!AllTags, AllTags
  <2>2. page' \in 1 .. Len(Pages) + 1
    BY <2>1, PagesType
  <2>3. TypeOK'
    BY <2>1, <2>2 DEF IInv, TypeOK, PCs, FetcherPCs
  <2>4. errs = {} /\ \A t \in AllTags : fetcher[t] = "none"
    BY <2>1 DEF IInv, SelfhostedOK
  <2>5. EntriesOK' /\ SelfhostedOK'
    BY <2>1, <2>4 DEF IInv, EntriesOK, SelfhostedOK
  <2> QED BY <1>1, <2>1, <2>3, <2>5 DEF IInv
<1>3. CASE Selfhosted!ListError \/ Selfhosted!ManifestError \/ Selfhosted!Return
  <2>1. /\ UNCHANGED <<page, hasAdditional, wg, sem, fetcher, copies, shas, errs>>
        /\ \/ pc' = "error"
           \/ pc = "manifests" /\ pc' = "tags" /\ Selfhosted!Left = {}
    BY <1>3 DEF Selfhosted!ListError, Selfhosted!ManifestError, Selfhosted!Return,
                Selfhosted!Abandon, Selfhosted!goVars, Selfhosted!listVars
  <2>2. TypeOK' /\ EntriesOK' /\ SelfhostedOK'
    BY <2>1 DEF IInv, TypeOK, PCs, EntriesOK, SelfhostedOK
  <2>3. pc' = "tags" => Running' = {}
    BY <2>1 DEF IInv, SelfhostedOK, Running, Selfhosted!Left, Selfhosted!AllTags, AllTags
  <2> QED BY <1>1, <2>2, <2>3 DEF IInv
<1>4. ASSUME NEW t \in AllTags,
             Selfhosted!Manifest(t) \/ Selfhosted!Skip(t) \/ Selfhosted!ManifestList(t)
      PROVE  IInv'
  BY <1>4, SelfhostedTagStep
<1> QED BY <1>2, <1>3, <1>4 DEF Selfhosted!Next, Selfhosted!AllTags, AllTags

----------------------------------------------------------------------------
(* The clients that only ask for pages *)

\* What these clients ask for: all pages, or the first.
LEMMA AskedPages ==
  ASSUME registry \notin Fetching, NEW t \in AllTags
  PROVE  t \in Asked <=> (registry \in {"gcr", "acr"} => PageOf(t) = 1)
BY PageOfTag, PagesType DEF Asked, Fetching, Pooled

\* A page arrives, and its tags are appended, each for the first time.
LEMMA PagedPageStep ==
  ASSUME IInv, registry \notin Fetching, UNCHANGED registry,
         NEW lost, NEW d, NEW more \in BOOLEAN, Paged!Answer(lost, d, more),
         lost \subseteq Pages[page],
         \A t \in AllTags :
           /\ d[t] \subseteq {Digest[t]} \cup Platforms[t]
           /\ registry \in Digested => d[t] # {},
         more => page < Len(Pages) /\ registry \notin {"gcr", "acr"},
         ~ more => page = Len(Pages) \/ registry \in {"gcr", "acr"}
  PROVE  IInv'
<1>1. /\ pc = "page" /\ hasAdditional /\ page' = page + 1 /\ errs' = errs \cup lost
      /\ UNCHANGED <<registry, pc, wg, sem, fetcher>>
  BY DEF Paged!Answer, Paged!goVars
<1>2. hasAdditional' \in BOOLEAN /\ (hasAdditional' <=> more)
  BY Zenon DEF Paged!Answer
<1>3. AppendTags(Pages[page] \ lost, d)
  BY DEF Paged!Answer, Paged!AppendTags, AppendTags, Paged!AllTags, AllTags
<1>4. page \in DOMAIN Pages /\ page \in Nat /\ page <= Len(Pages)
  BY <1>1, PagesType DEF IInv, PagedOK
<1>5. /\ copies \in [AllTags -> Nat] /\ shas \in [AllTags -> SUBSET Digests]
      /\ errs \subseteq AllTags /\ lost \subseteq AllTags
      /\ \A t \in AllTags : fetcher[t] = "none"
  BY <1>1, <1>4, PagesType DEF IInv, TypeOK, PagedOK
<1>6. ASSUME NEW t \in AllTags
       PROVE  /\ PageOf(t) \in Nat /\ PageOf(t) >= 1 /\ PageOf(t) <= Len(Pages)
              /\ t \in Pages[page] <=> PageOf(t) = page
              /\ t \in lost => PageOf(t) = page
              /\ t \in errs' <=> t \in errs \/ t \in lost
              /\ t \in errs => PageOf(t) < page
              /\ copies[t] = IF PageOf(t) < page /\ t \notin errs THEN 1 ELSE 0
  BY <1>1, <1>4, PageOfTag, PagesType DEF IInv, PagedOK
<1>7. ASSUME NEW t \in AllTags
      PROVE  /\ copies'[t] = IF t \in Pages[page] \ lost THEN copies[t] + 1 ELSE copies[t]
             /\ shas'[t] = IF t \in Pages[page] \ lost THEN shas[t] \cup d[t] ELSE shas[t]
  BY <1>3 DEF AppendTags
<1>8. copies' \in [AllTags -> Nat] /\ shas' \in [AllTags -> SUBSET Digests]
  <2>1. \A t \in AllTags : d[t] \subseteq Digests
    BY DigestType
  <2> QED BY <1>3, <1>5, <2>1 DEF AppendTags
<1>9. TypeOK'
  <2>1. page' \in 1 .. Len(Pages) + 1
    BY <1>1, <1>4, PagesType
  <2>2. Running' = Running
    BY <1>1 DEF Running
  <2> QED BY <1>1, <1>2, <1>5, <1>8, <2>1, <2>2 DEF IInv, TypeOK
<1>10. ASSUME NEW t \in AllTags
      PROVE  /\ shas'[t] \subseteq {Digest[t]} \cup Platforms[t]
             /\ copies'[t] > 0 /\ registry \in Digested => shas'[t] # {}
             /\ t \in errs' => PageOf(t) < page'
             /\ copies'[t] = IF PageOf(t) < page' /\ t \notin errs' THEN 1 ELSE 0
  <2>1. /\ shas[t] \subseteq {Digest[t]} \cup Platforms[t]
        /\ copies[t] > 0 /\ registry \in Digested => shas[t] # {}
    BY DEF IInv, EntriesOK
  <2>2. page' = page + 1 /\ page \in Nat
    BY <1>1, <1>4
  <2>3. CASE t \in Pages[page] \ lost
    <3>1. PageOf(t) = page /\ t \notin errs' /\ copies[t] = 0
      BY <1>6, <2>3, <2>2
    <3>2. copies'[t] = copies[t] + 1 /\ shas'[t] = shas[t] \cup d[t]
      BY <1>7, <2>3, Zenon
    <3>3. PageOf(t) < page'
      BY <2>2, <3>1
    <3> QED BY <2>1, <3>1, <3>2, <3>3
  <2>4. CASE t \notin Pages[page] \ lost
    <3>1. copies'[t] = copies[t] /\ shas'[t] = shas[t]
      BY <1>7, <2>4
    <3>2. PageOf(t) < page' /\ t \notin errs' <=> PageOf(t) < page /\ t \notin errs
      BY <1>6, <2>4, <2>2
    <3>3. t \in errs' => PageOf(t) < page'
      BY <1>6, <2>2
    <3> QED BY <1>6, <2>1, <3>1, <3>2, <3>3
  <2> QED BY <2>3, <2>4
<1>11. EntriesOK'
  BY <1>1, <1>10 DEF EntriesOK
<1>12. PagedOK'
  <2>1. more => page' \in DOMAIN Pages
    BY <1>1, <1>4, PagesType
  <2>2. ASSUME ~ more, NEW t \in AllTags
        PROVE  PageOf(t) < page' <=> t \in Asked
    <3>1. registry \in {"gcr", "acr"} => page = 1
      BY <1>1 DEF IInv, PagedOK
    <3>2. t \in Asked <=> (registry \in {"gcr", "acr"} => PageOf(t) = 1)
      BY AskedPages
    <3>3. page' = page + 1 /\ page \in Nat
      BY <1>1, <1>4
    <3> QED BY <1>4, <1>6, <2>2, <3>1, <3>2, <3>3
  <2>3. Asked' = Asked
    BY DEF Asked
  <2> QED BY <1>1, <1>2, <1>5, <1>10, <2>1, <2>2, <2>3 DEF IInv, PagedOK
<1>13. PermitsOK' /\ QuayOK' /\ OciOK' /\ SelfhostedOK'
  BY DEF PermitsOK, QuayOK, OciOK, SelfhostedOK, Pooled, Fetching
<1> QED BY <1>1, <1>9, <1>11, <1>12, <1>13 DEF IInv

\* The other steps of these clients.
LEMMA PagedQuietStep ==
  ASSUME IInv, registry \notin Fetching, UNCHANGED registry,
         \/ Paged!ownerType \/ Paged!OwnerError \/ Paged!PageRefused
         \/ Paged!PageError \/ Paged!Return
  PROVE  IInv'
<1>1. UNCHANGED <<wg, sem, fetcher, copies, shas>>
  BY DEF Paged!ownerType, Paged!OwnerError, Paged!PageRefused, Paged!PageError,
         Paged!Return, Paged!Abandon, Paged!goVars, Paged!listVars
<1>2. Running' = Running /\ Running = {}
  BY <1>1 DEF IInv, PagedOK, Running
<1>3. PermitsOK' /\ QuayOK' /\ OciOK' /\ SelfhostedOK'
  BY DEF PermitsOK, QuayOK, OciOK, SelfhostedOK, Pooled, Fetching
<1>4. EntriesOK'
  BY <1>1 DEF IInv, EntriesOK
<1>5. CASE Paged!PageRefused
  <2>1. /\ pc = "page" /\ pc' = pc /\ hasAdditional
        /\ page' = page + 1 /\ errs' = errs \cup From(page)
    BY <1>5 DEF Paged!PageRefused, Paged!From, From
  <2>2. hasAdditional' = FALSE /\ hasAdditional' \in BOOLEAN
    BY <1>5, Zenon DEF Paged!PageRefused
  <2>3. page \in DOMAIN Pages /\ errs \subseteq AllTags
    BY <2>1 DEF IInv, TypeOK, PagedOK
  <2>4. TypeOK'
    <3>1. page' \in 1 .. Len(Pages) + 1
      BY <2>1, <2>3, PagesType
    <3> QED BY <1>1, <1>2, <2>1, <2>2, <2>3, <3>1, FromType DEF IInv, TypeOK
  <2>5. ASSUME NEW t \in AllTags
        PROVE  copies[t] = IF t \in Asked \ errs' THEN 1 ELSE 0
    <3>1. /\ copies[t] = IF PageOf(t) < page /\ t \notin errs THEN 1 ELSE 0
          /\ t \in errs' <=> t \in errs \/ PageOf(t) >= page
          /\ registry \in {"gcr", "acr"} => page = 1
      BY <2>1, <2>3, PageOfTag DEF IInv, PagedOK
    <3>2. PageOf(t) \in Nat /\ page \in Nat /\ PageOf(t) >= 1
      BY <2>3, PageOfTag, PagesType
    <3> QED BY <3>1, <3>2, AskedPages
  <2>6. PagedOK'
    <3>1. Asked' = Asked
      BY DEF Asked
    <3> QED BY <1>1, <2>1, <2>2, <2>5, <3>1 DEF IInv, PagedOK
  <2> QED BY <1>2, <1>3, <1>4, <2>4, <2>6 DEF IInv
<1>6. CASE Paged!ownerType \/ Paged!OwnerError \/ Paged!PageError \/ Paged!Return
  <2>1. /\ UNCHANGED <<page, hasAdditional, errs>>
        /\ \/ pc' \in {"page", "error"}
           \/ ~ hasAdditional /\ pc' = "tags"
    BY <1>6 DEF Paged!ownerType, Paged!OwnerError, Paged!PageError, Paged!Return,
                Paged!Abandon
  <2>2. Asked' = Asked
    BY DEF Asked
  <2>3. TypeOK' /\ PagedOK'
    BY <1>1, <1>2, <2>1, <2>2 DEF IInv, TypeOK, PCs, PagedOK
  <2> QED BY <1>2, <1>3, <1>4, <2>3 DEF IInv
<1> QED BY <1>5, <1>6

LEMMA PagedStep ==
  ASSUME IInv, registry \notin Fetching, UNCHANGED registry, Paged!Next(registry)
  PROVE  IInv'
<1>1. hasAdditional => page \in DOMAIN Pages /\ page \in Nat /\ page <= Len(Pages)
  BY PagesType DEF IInv, PagedOK
<1>2. /\ Paged!AllTags = AllTags /\ Paged!Digests = Digests
      /\ \A t \in AllTags : /\ Paged!AllDigests[t] = {Digest[t]} \cup Platforms[t]
                            /\ Paged!OwnDigest[t] = {Digest[t]}
  BY DEF Paged!AllTags, AllTags, Paged!AllDigests, Paged!OwnDigest, Paged!Digests, Digests
<1>3. Paged!More \in BOOLEAN /\ (Paged!More <=> page < Len(Pages))
  BY DEF Paged!More
<1>4. ASSUME NEW lost, NEW d, Paged!Answer(lost, d, Paged!More),
             lost \subseteq Pages[page],
             \A t \in AllTags :
               /\ d[t] \subseteq {Digest[t]} \cup Platforms[t]
               /\ registry \in Digested => d[t] # {},
             registry \notin {"gcr", "acr"}
      PROVE  IInv'
  <2>1. ~ Paged!More => page = Len(Pages)
    BY <1>1, <1>3, <1>4, PagesType DEF Paged!Answer
  <2> QED BY <1>3, <1>4, <2>1, PagedPageStep
<1>5. CASE registry = "docker" /\ Paged!dockerPage
  <2>1. PICK named \in SUBSET {p \in Pages[page] \X Paged!Digests :
                               p[2] \in Paged!AllDigests[p[1]]} :
          Paged!Answer({}, [t \in Paged!AllTags |-> {s \in Paged!Digests : <<t, s>> \in named}],
                       Paged!More)
    BY <1>5, Zenon DEF Paged!dockerPage
  <2> DEFINE d == [t \in AllTags |-> {s \in Digests : <<t, s>> \in named}]
  <2>2. \A t \in AllTags : d[t] \subseteq {Digest[t]} \cup Platforms[t]
    BY <1>2, <2>1
  <2>3. Paged!Answer({}, d, Paged!More)
    BY <1>2, <2>1
  <2> HIDE DEF d
  <2> QED BY <1>4, <1>5, <2>2, <2>3 DEF Digested
<1>6. CASE registry = "ghcr" /\ Paged!ghcrPage
  <2>1. PICK lost \in SUBSET Pages[page], named \in SUBSET Pages[page] :
          Paged!Answer(lost, [t \in AllTags |-> IF t \in named THEN {Digest[t]} ELSE {}],
                       Paged!More)
    BY <1>2, <1>6 DEF Paged!ghcrPage
  <2> DEFINE d == [t \in AllTags |-> IF t \in named THEN {Digest[t]} ELSE {}]
  <2>2. \A t \in AllTags : d[t] \subseteq {Digest[t]} \cup Platforms[t]
    OBVIOUS
  <2>3. Paged!Answer(lost, d, Paged!More)
    BY <2>1
  <2> HIDE DEF d
  <2> QED BY <1>4, <1>6, <2>1, <2>2, <2>3 DEF Digested
<1>7. CASE registry = "ecr" /\ Paged!ecrPage
  <2>1. Paged!Answer({}, Paged!OwnDigest, Paged!More)
    BY <1>7 DEF Paged!ecrPage
  <2> QED BY <1>2, <1>4, <1>7, <2>1
<1>8. CASE registry \in {"gcr", "acr"} /\ (Paged!gcrPage \/ Paged!acrPage)
  <2>1. Paged!Answer({}, Paged!OwnDigest, FALSE)
    BY <1>8, Zenon DEF Paged!gcrPage, Paged!acrPage
  <2> QED BY <1>2, <1>8, <2>1, PagedPageStep
<1> QED BY <1>5, <1>6, <1>7, <1>8, PagedQuietStep DEF Paged!Next

----------------------------------------------------------------------------
(* Theorems *)

LEMMA InitInv == Init => IInv
<1> SUFFICES ASSUME Init PROVE IInv
  OBVIOUS
<1>1. /\ registry \in Registries
      /\ pc = "page" \/ (pc = "owner" /\ registry \notin Fetching)
      /\ page = 1 /\ wg = 0 /\ errs = {}
      /\ sem = [n \in DOMAIN Pages |-> 0]
      /\ fetcher = [t \in AllTags |-> "none"]
      /\ copies = [t \in AllTags |-> 0]
      /\ shas = [t \in AllTags |-> {}]
  BY DEF Init, Quay!Init, Oci!Init, Selfhosted!Init, Paged!Init, Quay!CallInit,
         Oci!CallInit, Selfhosted!CallInit, Paged!CallInit, Quay!AllTags,
         Oci!AllTags, Selfhosted!AllTags, Paged!AllTags, AllTags, Fetching, Pooled
<1>2. hasAdditional = TRUE
  BY Zenon DEF Init, Quay!Init, Oci!Init, Selfhosted!Init, Paged!Init, Quay!CallInit,
         Oci!CallInit, Selfhosted!CallInit, Paged!CallInit
<1>3. hasAdditional \in BOOLEAN
  BY <1>2, Zenon
<1>4. Running = {} /\ \A n : Holders(n) = {}
  BY <1>1 DEF Running, Holders
<1>5. TypeOK
  BY <1>1, <1>3, <1>4, FS_EmptySet, PagesType, PagesAssumption
     DEF TypeOK, PCs, FetcherPCs
<1>6. PermitsOK /\ EntriesOK
  BY <1>1, <1>4, FS_EmptySet DEF PermitsOK, EntriesOK
<1>7. \A t \in AllTags : PageOf(t) >= 1 /\ ~ (PageOf(t) < 1)
  BY PageOfTag, PagesType
<1>8. QuayOK /\ OciOK /\ SelfhostedOK
  BY <1>1, <1>2, <1>7, PagesType DEF QuayOK, OciOK, SelfhostedOK, Fetching, Pooled
<1>9. PagedOK
  BY <1>1, <1>2, <1>7, PagesType DEF PagedOK
<1> QED BY <1>1, <1>5, <1>6, <1>8, <1>9 DEF IInv

\* Every step keeps the invariant.
LEMMA NextInv == IInv /\ [Next]_vars => IInv'
<1> SUFFICES ASSUME IInv, [Next]_vars PROVE IInv'
  OBVIOUS
<1>1. CASE Next
  BY <1>1, QuayStep, OciStep, SelfhostedStep, PagedStep DEF Next, Fetching, Pooled
<1>2. CASE UNCHANGED vars
  <2>1. UNCHANGED <<registry, pc, page, hasAdditional, wg, sem, fetcher, copies, shas, errs>>
    BY <1>2 DEF vars, callVars, pageVars, goVars, listVars
  <2>2. Running' = Running /\ \A n : Holders(n)' = Holders(n)
    BY <2>1 DEF Running, Holders, SemOf
  <2>3. TypeOK' /\ PermitsOK' /\ EntriesOK'
    BY <2>1, <2>2 DEF IInv, TypeOK, PermitsOK, EntriesOK
  <2>4. QuayOK' /\ OciOK' /\ SelfhostedOK' /\ PagedOK'
    <3>1. Asked' = Asked
      BY <2>1 DEF Asked
    <3> QED BY <2>1, <3>1 DEF IInv, QuayOK, OciOK, SelfhostedOK, PagedOK
  <2> QED BY <2>1, <2>2, <2>3, <2>4 DEF IInv
<1> QED BY <1>1, <1>2

\* What the invariant says of a lookup that has returned tags.
LEMMA InvResult == IInv => EveryTagOnce /\ DigestsKept
<1> SUFFICES ASSUME IInv PROVE EveryTagOnce /\ DigestsKept
  OBVIOUS
<1>1. DigestsKept
  BY DEF IInv, EntriesOK, DigestsKept
<1>2. ASSUME pc = "tags", NEW t \in AllTags
      PROVE  copies[t] = IF t \in Asked \ errs THEN 1 ELSE 0
  <2>1. fetcher[t] \in {"none", "done"}
    BY <1>2 DEF IInv, TypeOK, FetcherPCs, Running
  <2>2. CASE registry = "quay"
    <3>1. t \in Asked <=> ~ (PageOf(t) >= PageLimit)
      BY <2>2, PageOfTag DEF Asked
    <3>2. PageOf(t) \in Nat /\ page \in Nat /\ PageLimit \in Nat
      BY PageOfTag, PagesType, PagesAssumption DEF IInv, TypeOK
    <3> QED BY <1>2, <2>1, <2>2, <3>1, <3>2 DEF IInv, EntriesOK, QuayOK, Fetching, Pooled
  <2>3. CASE registry = "oci"
    <3>1. t \in Asked
      BY <2>3 DEF Asked
    <3> QED BY <1>2, <2>1, <2>3, <3>1 DEF IInv, EntriesOK, OciOK, Fetching, Pooled
  <2>4. CASE registry = "selfhosted"
    <3>1. t \in Asked <=> t \in Pages[1]
      BY <2>4 DEF Asked
    <3> QED BY <1>2, <2>1, <2>4, <3>1 DEF IInv, EntriesOK, SelfhostedOK, Fetching
  <2>5. CASE registry \notin Fetching
    BY <1>2, <2>5 DEF IInv, PagedOK
  <2> QED BY <2>2, <2>3, <2>4, <2>5 DEF Fetching, Pooled
<1> QED BY <1>1, <1>2 DEF EveryTagOnce

\* The variables have their types, permits are never given back twice, and the
\* wait group counts exactly the goroutines that have not left.
THEOREM TagsTypes == Spec => []TypeOK
BY InitInv, NextInv, PTL DEF Spec, IInv

\* Whichever client is asked, its list has one entry for every tag that was
\* asked for and usably answered, for any number of pages, tags and permits.
THEOREM EveryTagAlwaysOnce == Spec => []EveryTagOnce
BY InitInv, NextInv, InvResult, PTL DEF Spec

\* No entry has another tag's digest, with any client; and every entry that the
\* ACR, the ECR, the GCR or the quay client returns has one of its own.
THEOREM DigestsAlwaysKept == Spec => []DigestsKept
BY InitInv, NextInv, InvResult, PTL DEF Spec

----------------------------------------------------------------------------
(* The promise of ImageClient.Tags *)

\* The steps of a lookup as its caller sees them: it goes on, it ends, or it
\* has ended and nothing of what it returned changes.
Ended == {"tags", "error"}

GoesOn == {pc, pc'} \cap Ended = {} /\ errs \subseteq errs'
Fails == pc \notin Ended /\ pc' = "error"
Returns == pc \notin Ended /\ pc' = "tags" /\ UNCHANGED <<copies, errs>>
Rests == pc \in Ended /\ pc' = pc /\ (pc = "tags" => UNCHANGED <<copies, errs>>)

Seen == registry' = registry /\ (GoesOn \/ Fails \/ Returns \/ Rests)

LEMMA GoSeen ==
  ASSUME IInv, NEW t \in AllTags, Goes(t)
  PROVE  Seen
<1>1. pc # "tags"
  BY GoMoves DEF IInv
<1>2. registry' = registry /\ pc' = pc /\ errs \subseteq errs'
  BY DEF Goes, Acquires, Appends, Drops, Leaves, pageVars
<1> QED BY <1>1, <1>2 DEF Seen, GoesOn, Rests, Ended

LEMMA StepSeen == IInv /\ [Next]_vars => Seen
<1> SUFFICES ASSUME IInv, [Next]_vars PROVE Seen
  OBVIOUS
<1> USE DEF Seen, GoesOn, Fails, Returns, Rests, Ended
<1>1. CASE UNCHANGED vars
  BY <1>1 DEF vars, callVars, pageVars, listVars
<1>2. CASE Next /\ registry = "quay"
  <2>1. CASE Quay!fetchTags
    BY <1>2, <2>1 DEF Next, Quay!fetchTags, Quay!fetchTagsPaged, Quay!PageError,
       Quay!PageRefused, Quay!LastPage, Quay!Wait, Quay!Abandon, Quay!listVars
  <2>2. ASSUME NEW t \in AllTags, Quay!fetchTag(t)
        PROVE  Seen
    BY <1>2, <2>2, QuayGo, GoSeen, Zenon DEF Next
  <2> QED BY <1>2, <2>1, <2>2 DEF Next, Quay!Next, Quay!AllTags, AllTags
<1>3. CASE Next /\ registry = "oci"
  <2>1. CASE Oci!Tags \/ Oci!ListError \/ Oci!Wait
    BY <1>3, <2>1 DEF Next, Oci!Tags, Oci!ListError, Oci!Wait, Oci!Abandon, Oci!listVars
  <2>2. ASSUME NEW t \in AllTags, Oci!Manifests(t)
        PROVE  Seen
    BY <1>3, <2>2, OciGo, GoSeen, Zenon DEF Next
  <2> QED BY <1>3, <2>1, <2>2 DEF Next, Oci!Next, Oci!AllTags, AllTags
<1>4. CASE Next /\ registry = "selfhosted"
  BY <1>4 DEF Next, Selfhosted!Next, Selfhosted!Tags, Selfhosted!ListError,
     Selfhosted!ManifestError, Selfhosted!Return, Selfhosted!Manifest,
     Selfhosted!Skip, Selfhosted!ManifestList, Selfhosted!Turn,
     Selfhosted!Abandon, Selfhosted!listVars, Selfhosted!pageVars
<1>5. CASE Next /\ registry \notin Fetching
  BY <1>5 DEF Next, Fetching, Pooled, Paged!Next, Paged!dockerPage, Paged!ecrPage,
     Paged!ghcrPage, Paged!gcrPage, Paged!acrPage, Paged!Answer, Paged!ownerType,
     Paged!OwnerError, Paged!PageRefused, Paged!PageError, Paged!Return,
     Paged!Abandon, Paged!listVars
<1> QED BY <1>1, <1>2, <1>3, <1>4, <1>5 DEF Fetching, Pooled

\* A lookup starts without what it is not going to ask for.
LEMMA InitPromise == Init => Promise!Init
<1> SUFFICES ASSUME Init PROVE Promise!Init
  OBVIOUS
<1>1. errs = {} /\ pc \notin {"tags", "error"}
  BY DEF Init, Quay!Init, Oci!Init, Selfhosted!Init, Paged!Init, Quay!CallInit,
         Oci!CallInit, Selfhosted!CallInit, Paged!CallInit
<1> QED BY <1>1 DEF Promise!Init

\* Every step is one of the promise, or changes nothing that it speaks of.
LEMMA StepPromise ==
  ASSUME IInv, IInv', Seen
  PROVE  \/ Promise!Miss \/ Promise!Return \/ Promise!Fail
         \/ UNCHANGED Promise!vars
<1>1. Asked' = Asked /\ Asked \subseteq AllTags
  BY PagesType DEF Seen, Asked
<1>2. errs \subseteq AllTags /\ errs' \subseteq AllTags
  BY DEF IInv, TypeOK
<1>3. CASE GoesOn
  <2>1. errs' \cup (AllTags \ Asked') = (errs \cup (AllTags \ Asked)) \cup (errs' \ errs)
    BY <1>1, <1>3 DEF GoesOn
  <2>2. errs' \ errs \in SUBSET AllTags
    BY <1>2
  <2>3. pc \notin {"tags", "error"} /\ pc' \notin {"tags", "error"}
    BY <1>3 DEF GoesOn, Ended
  <2> QED BY <2>1, <2>2, <2>3 DEF Promise!Miss
<1>4. CASE Fails
  BY <1>4 DEF Fails, Ended, Promise!Fail
<1>5. CASE Returns
  <2>1. pc \notin {"tags", "error"} /\ pc' = "tags" /\ errs' = errs
    BY <1>5 DEF Returns, Ended
  <2>2. EveryTagOnce'
    BY InvResult, PTL
  <2>3. {t \in AllTags : copies'[t] > 0} = Asked \ errs
    BY <1>1, <2>1, <2>2 DEF EveryTagOnce
  <2>4. Asked \ errs = AllTags \ (errs \cup (AllTags \ Asked))
    BY <1>1
  <2> QED BY <1>1, <2>1, <2>3, <2>4 DEF Promise!Return
<1>6. CASE Rests
  BY <1>1, <1>6 DEF Rests, Ended, Promise!vars
<1> QED BY <1>3, <1>4, <1>5, <1>6 DEF Seen

\* Every client implements what ImageClient.Tags promises: it returns once,
\* and a list has every tag but those that were missed.
THEOREM TagsImplementsPromise == Spec => ImplementsPromise
<1>1. IInv /\ [Next]_vars
        => [Promise!Miss \/ Promise!Return \/ Promise!Fail]_(Promise!vars)
  <2>1. IInv /\ [Next]_vars => IInv' /\ Seen
    BY NextInv, StepSeen
  <2> QED BY <2>1, StepPromise
<1> QED
  BY <1>1, InitInv, NextInv, InitPromise, PTL
  DEF Spec, ImplementsPromise, Promise!Spec
=============================================================================
