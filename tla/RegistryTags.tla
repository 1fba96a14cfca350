---------------------------- MODULE RegistryTags ----------------------------
(***************************************************************************)
(* The registry clients behind the interface they share: one call of       *)
(* ImageClient.Tags, with any of the clients, and what its caller may rely *)
(* on.  TagsPromise states that abstractly; every client implements it.    *)
(***************************************************************************)
EXTENDS TagsCall

VARIABLE registry  \* the client that the host of the image URL selects

vars == <<registry, callVars>>

Registries ==
  {"acr", "docker", "ecr", "gcr", "ghcr", "oci", "quay", "selfhosted"}

Quay == INSTANCE QuayPager
Oci == INSTANCE OciClient
Selfhosted == INSTANCE SelfhostedClient
Paged == INSTANCE PagedClients

Init ==
  /\ registry \in Registries
  /\ CASE registry = "quay" -> Quay!Init
       [] registry = "oci" -> Oci!Init
       [] registry = "selfhosted" -> Selfhosted!Init
       [] OTHER -> Paged!Init(registry)

Next ==
  /\ \/ registry = "quay" /\ Quay!Next
     \/ registry = "oci" /\ Oci!Next
     \/ registry = "selfhosted" /\ Selfhosted!Next
     \/ registry \notin {"quay", "oci", "selfhosted"} /\ Paged!Next(registry)
  /\ UNCHANGED registry

Spec == Init /\ [][Next]_vars

\* Requests end (with a timeout of the HTTP client or the context) and some
\* goroutine of the lookup runs as long as one can.
FairSpec == Spec /\ WF_vars(Next)

\* The tags a client asks for if nothing goes wrong: quay stops at the page
\* limit; the ACR, the GCR and the self-hosted client ask for one page.
Asked ==
  CASE registry = "quay" -> AllTags \ From(PageLimit)
    [] registry \in {"acr", "gcr", "selfhosted"} -> Pages[1]
    [] OTHER -> AllTags

Promise == INSTANCE TagsPromise WITH
  Available <- AllTags,
  status <- IF pc \in {"tags", "error"} THEN pc ELSE "running",
  returned <- IF pc = "tags" THEN {t \in AllTags : copies[t] > 0} ELSE {},
  missed <- IF pc = "error" THEN {} ELSE errs \cup (AllTags \ Asked)

----------------------------------------------------------------------------
(* Properties *)

\* Every variable has its type.  The wait group counts the goroutines that
\* have been started and have not left, also while Tags is waiting for them.
TypeOK ==
  /\ registry \in Registries
  /\ pc \in PCs
  /\ page \in 1 .. Len(Pages) + 1
  /\ hasAdditional \in BOOLEAN
  /\ sem \in [DOMAIN Pages -> 0 .. Permits]
  /\ fetcher \in [AllTags -> FetcherPCs]
  /\ copies \in [AllTags -> Nat]
  /\ shas \in [AllTags -> SUBSET Digests]
  /\ errs \in SUBSET AllTags
  /\ registry # "selfhosted" => wg = Cardinality(Running)

\* The list that Tags returns has one entry for every tag that was asked for
\* and whose answer was usable, and no other: no goroutine's entry is lost or
\* added twice, no page is skipped or read twice, by whichever client.
EveryTagOnce ==
  pc = "tags" =>
    \A t \in AllTags : copies[t] = IF t \in Asked \ errs THEN 1 ELSE 0

\* The clients whose registries answer every tag with a digest.  docker may
\* answer without any, ghcr with a version that is not named by its digest,
\* a self-hosted registry without the header, and the OCI client takes
\* digests only of media types that it knows.
Digested == {"acr", "ecr", "gcr", "quay"}

\* An entry only matches digests under which the registry keeps its tag, so a
\* container is never taken for another tag's image; and with the clients
\* that get a digest for every tag, it matches one of them, so the container
\* of an up to date image can be recognised by it.
DigestsKept ==
  pc = "tags" =>
    \A t \in AllTags :
      /\ shas[t] \subseteq {Digest[t]} \cup Platforms[t]
      /\ copies[t] > 0 /\ registry \in Digested => shas[t] # {}

\* Tags returns, whichever requests fail: every permit and every place in the
\* wait group is given back, and every loop over pages ends.
LookupEnds == pc \notin {"tags", "error"} ~> pc \in {"tags", "error"}

\* Every client implements the promise of ImageClient.Tags: it returns once,
\* nothing of the result changes afterwards (goroutines of an abandoned or
\* finished lookup included), and no tag is missing but for a failed request.
ImplementsPromise == Promise!Spec
=============================================================================
