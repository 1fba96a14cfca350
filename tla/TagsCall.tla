------------------------------ MODULE TagsCall ------------------------------
(***************************************************************************)
(* What the lookups of all registry clients (pkg/client) work on: a        *)
(* repository that lists its tags page by page, the goroutines that fetch  *)
(* a tag's manifest, and the list of tags that Tags is going to return.    *)
(* The modules of the clients extend this one; RegistryTags composes them. *)
(*                                                                         *)
(* A request is one step, with its retries: it answers, is refused, or     *)
(* fails.  A context that is done shows as a request that fails.  The      *)
(* order of a list means nothing to its readers (see Selection), so a list *)
(* says how many entries it has for a tag and which digests these match.   *)
(***************************************************************************)
EXTENDS Integers, Sequences, FiniteSets

CONSTANTS
  Pages,      \* what the repository lists: a sequence of disjoint sets of tags
  Digest,     \* Digest[t]: the digest of tag t
  Platforms,  \* Platforms[t]: the digests of its platforms' images, if it has any
  PageLimit,  \* quay: pages from this one on are not asked for
  Permits     \* capacity of a semaphore

AllTags == UNION {Pages[n] : n \in DOMAIN Pages}

ASSUME PagesAssumption ==
  /\ Pages \in Seq(SUBSET AllTags) /\ Len(Pages) > 0
  /\ IsFiniteSet(AllTags)
  /\ \A m, n \in DOMAIN Pages : m # n => Pages[m] \cap Pages[n] = {}
  /\ PageLimit \in Nat
  /\ Permits \in Nat \ {0}

From(n) == UNION {Pages[m] : m \in {k \in DOMAIN Pages : k >= n}}
PageOf(t) == CHOOSE n \in DOMAIN Pages : t \in Pages[n]
Digests == {Digest[t] : t \in AllTags} \cup UNION {Platforms[t] : t \in AllTags}

VARIABLES
  pc,             \* where Tags stands; "tags" and "error" are its returns
  page,           \* the page to ask for
  hasAdditional,  \* whether there is such a page
  wg,             \* the wait group's counter
  sem,            \* sem[n]: permits of semaphore n that are taken
  fetcher,        \* where the manifest of each tag stands
  copies,         \* copies[t]: number of entries of the list for tag t
  shas,           \* shas[t]: the digests these entries match
  errs            \* tags of requests that failed, or answered without the data needed

listVars == <<copies, shas>>
pageVars == <<pc, page, hasAdditional>>
goVars == <<wg, sem, fetcher>>
callVars == <<pageVars, goVars, listVars, errs>>

PCs == {"owner", "page", "manifests", "wait", "tags", "error"}
FetcherPCs == {"none", "ready", "manifest", "leave", "done"}

CallInit ==
  /\ page = 1
  /\ hasAdditional = TRUE
  /\ wg = 0
  /\ sem = [n \in DOMAIN Pages |-> 0]
  /\ fetcher = [t \in AllTags |-> "none"]
  /\ copies = [t \in AllTags |-> 0]
  /\ shas = [t \in AllTags |-> {}]
  /\ errs = {}

\* Entries for the tags of T are appended, that of t with digests d[t].
AppendTags(T, d) ==
  /\ copies' = [t \in AllTags |-> IF t \in T THEN copies[t] + 1 ELSE copies[t]]
  /\ shas' = [t \in AllTags |-> IF t \in T THEN shas[t] \cup d[t] ELSE shas[t]]

AllDigests == [t \in AllTags |-> {Digest[t]} \cup Platforms[t]]

\* The request fails: Tags returns the error, and no list.
Abandon ==
  /\ pc' = "error"
  /\ UNCHANGED <<page, hasAdditional, goVars, listVars, errs>>

Move(t, from, to) ==
  /\ fetcher[t] = from
  /\ fetcher' = [fetcher EXCEPT ![t] = to]

\* The goroutines that have been started and have not left.
Running == {t \in AllTags : fetcher[t] \in {"ready", "manifest", "leave"}}
=============================================================================
