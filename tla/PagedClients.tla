---------------------------- MODULE PagedClients ----------------------------
(***************************************************************************)
(* One lookup with the clients that ask for pages and for nothing else:    *)
(* docker, ECR and ghcr (after the type of the owner) for one after the    *)
(* other, GCR and ACR for a single one: what the registry leaves for a     *)
(* next page is never asked for (AcrToken has what precedes ACR's          *)
(* request).                                                               *)
(*                                                                         *)
(* All but docker list manifests with their tags; a tag belongs to one of  *)
(* them.  Manifests without a tag, which ACR, ECR and GCR return as        *)
(* entries without a name, and docker's results without an image, which it *)
(* leaves out, are not tags here.                                          *)
(***************************************************************************)
EXTENDS TagsCall

Init(client) ==
  /\ pc = IF client = "ghcr" THEN "owner" ELSE "page"
  /\ CallInit

OwnDigest == [t \in AllTags |-> {Digest[t]}]

\* ownerType finds the owner in the map, or asks and remembers.
ownerType ==
  /\ pc = "owner"
  /\ pc' = "page"
  /\ UNCHANGED <<page, hasAdditional, goVars, listVars, errs>>

OwnerError == pc = "owner" /\ Abandon

\* The page arrives; its tags but the lost ones are appended.
Answer(lost, d, more) ==
  /\ pc = "page"
  /\ hasAdditional
  /\ AppendTags(Pages[page] \ lost, d)
  /\ errs' = errs \cup lost
  /\ page' = page + 1
  /\ hasAdditional' = more
  /\ UNCHANGED <<pc, goVars>>

More == page < Len(Pages)

\* A result may come without a digest of its own, and so may each of its
\* images, which is then no child; named has the digests that do come.
dockerPage ==
  /\ hasAdditional
  /\ \E named \in SUBSET {p \in Pages[page] \X Digests : p[2] \in AllDigests[p[1]]} :
       Answer({}, [t \in AllTags |-> {s \in Digests : <<t, s>> \in named}], More)

ecrPage == Answer({}, OwnDigest, More)

\* Mutant: the page number of the options is not moved on.
ghcrPage_Again ==
  /\ pc = "page"
  /\ hasAdditional
  /\ AppendTags(Pages[1], OwnDigest)
  /\ page' = page + 1
  /\ hasAdditional' = More
  /\ UNCHANGED <<pc, goVars, errs>>

\* A version without metadata is passed over with its tags.  The name of a
\* version is its digest if it starts with "sha"; there is none otherwise.
ghcrPage ==
  /\ hasAdditional
  /\ \E lost, named \in SUBSET Pages[page] :
       Answer(lost, [t \in AllTags |-> IF t \in named THEN {Digest[t]} ELSE {}], More)

gcrPage == Answer({}, OwnDigest, FALSE)

acrPage == Answer({}, OwnDigest, FALSE)

\* docker and GCR do not look at the status of a response: a refusal is read
\* as a page without tags and without a next page.
PageRefused ==
  /\ pc = "page"
  /\ hasAdditional
  /\ hasAdditional' = FALSE
  /\ page' = page + 1
  /\ errs' = errs \cup From(page)
  /\ UNCHANGED <<pc, goVars, listVars>>

\* No response, a body that does not decode, a timestamp that does not parse.
PageError == pc = "page" /\ hasAdditional /\ Abandon

Return ==
  /\ pc = "page"
  /\ ~ hasAdditional
  /\ pc' = "tags"
  /\ UNCHANGED <<page, hasAdditional, goVars, listVars, errs>>

Next(client) ==
  \/ client = "docker" /\ (dockerPage \/ PageRefused)
  \/ client = "ecr" /\ ecrPage
  \/ client = "ghcr" /\ (ownerType \/ OwnerError \/ ghcrPage)
  \/ client = "gcr" /\ (gcrPage \/ PageRefused)
  \/ client = "acr" /\ acrPage
  \/ PageError
  \/ Return
=============================================================================
