----------------------------- MODULE OciClient -----------------------------
(***************************************************************************)
(* One lookup with the OCI client (pkg/client/oci): the puller lists the   *)
(* names of all tags, then one goroutine per tag gets its manifest.  They  *)
(* share a semaphore and a mutex; a goroutine that fails logs it and       *)
(* leaves, and Manifests returns no error.                                 *)
(***************************************************************************)
EXTENDS TagsCall

Init == pc = "page" /\ CallInit

\* puller.List answers; Manifests counts the tags and starts the goroutines.
Tags ==
  /\ pc = "page"
  /\ wg' = Cardinality(AllTags)
  /\ fetcher' = [t \in AllTags |-> "ready"]
  /\ pc' = "wait"
  /\ UNCHANGED <<page, hasAdditional, sem, listVars, errs>>

\* The host does not parse or the list cannot be had.
ListError == pc = "page" /\ Abandon

Acquire(t) ==
  /\ Move(t, "ready", "manifest")
  /\ sem[1] < Permits
  /\ sem' = [sem EXCEPT ![1] = @ + 1]
  /\ UNCHANGED <<pageVars, wg, listVars, errs>>

\* An index has the digests of its images, not its own; an image its own.
Known(t) == IF Platforms[t] # {} THEN Platforms[t] ELSE {Digest[t]}

\* puller.Get answers; the entry is added under the mutex, without a digest
\* if the manifest is of another media type.
Manifest(t) ==
  /\ Move(t, "manifest", "leave")
  /\ \E d \in {Known(t), {}} : AppendTags({t}, [s \in AllTags |-> d])
  /\ UNCHANGED <<pageVars, wg, sem, errs>>

\* A bad name, a failed request, a bad timestamp, an index or an image that
\* cannot be read: the tag is dropped.
ManifestError(t) ==
  /\ Move(t, "manifest", "leave")
  /\ errs' = errs \cup {t}
  /\ UNCHANGED <<pageVars, wg, sem, listVars>>

\* The deferred calls.
Leave(t) ==
  /\ Move(t, "leave", "done")
  /\ sem' = [sem EXCEPT ![1] = @ - 1]
  /\ wg' = wg - 1
  /\ UNCHANGED <<pageVars, listVars, errs>>

Wait ==
  /\ pc = "wait"
  /\ wg = 0
  /\ pc' = "tags"
  /\ UNCHANGED <<page, hasAdditional, goVars, listVars, errs>>

Manifests(t) == Acquire(t) \/ Manifest(t) \/ ManifestError(t) \/ Leave(t)

Next == Tags \/ ListError \/ Wait \/ \E t \in AllTags : Manifests(t)
=============================================================================
