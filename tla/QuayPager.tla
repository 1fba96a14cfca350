----------------------------- MODULE QuayPager -----------------------------
(***************************************************************************)
(* One lookup with the quay client (pkg/client/quay): the pager asks for   *)
(* one page of tags after the other and starts a goroutine for each tag of *)
(* a page, which fetches the tag's manifest and adds it to the pager's     *)
(* result.  A semaphore made for each page limits the goroutines of that   *)
(* page; a wait group is waited for at the end.                            *)
(***************************************************************************)
EXTENDS TagsCall

Init == pc = "page" /\ CallInit

----------------------------------------------------------------------------
(* fetchTags *)

More == hasAdditional /\ page < PageLimit

\* Mutant: a goroutine adds itself to the wait group once it runs.
fetchTagsPaged_LateAdd ==
  /\ pc = "page"
  /\ More
  /\ fetcher' = [t \in AllTags |-> IF t \in Pages[page] THEN "ready" ELSE fetcher[t]]
  /\ hasAdditional' = (page < Len(Pages))
  /\ page' = page + 1
  /\ UNCHANGED <<pc, wg, sem, listVars, errs>>

\* The page arrives: the wait group counts its tags, their goroutines start.
fetchTagsPaged ==
  /\ pc = "page"
  /\ More
  /\ wg' = wg + Cardinality(Pages[page])
  /\ fetcher' = [t \in AllTags |-> IF t \in Pages[page] THEN "ready" ELSE fetcher[t]]
  /\ hasAdditional' = (page < Len(Pages))
  /\ page' = page + 1
  /\ UNCHANGED <<pc, sem, listVars, errs>>

\* The context is done or the request fails: the pager is abandoned.
PageError ==
  /\ pc = "page"
  /\ More
  /\ Abandon

\* The status of a response is not looked at: a refusal is an answer without
\* tags and without further pages.
PageRefused ==
  /\ pc = "page"
  /\ More
  /\ hasAdditional' = FALSE
  /\ page' = page + 1
  /\ errs' = errs \cup From(page)
  /\ UNCHANGED <<pc, goVars, listVars>>

LastPage ==
  /\ pc = "page"
  /\ ~ More
  /\ pc' = "wait"
  /\ UNCHANGED <<page, hasAdditional, goVars, listVars, errs>>

\* Mutant: the goroutines are not waited for.
Wait_Not ==
  /\ pc = "wait"
  /\ pc' = "tags"
  /\ UNCHANGED <<page, hasAdditional, goVars, listVars, errs>>

Wait ==
  /\ pc = "wait"
  /\ wg = 0
  /\ pc' = "tags"
  /\ UNCHANGED <<page, hasAdditional, goVars, listVars, errs>>

----------------------------------------------------------------------------
(* The goroutine of a tag *)

Acquire(t) ==
  /\ Move(t, "ready", "manifest")
  /\ sem[PageOf(t)] < Permits
  /\ sem' = [sem EXCEPT ![PageOf(t)] = @ + 1]
  /\ UNCHANGED <<pageVars, wg, listVars, errs>>

\* fetchImageManifest answers; the tag is added under the pager's mutex.  A
\* manifest list that comes with a status is ignored: no platforms then.
AppendTag(t) ==
  /\ Move(t, "manifest", "leave")
  /\ \E d \in {AllDigests, [s \in AllTags |-> {Digest[s]}]} : AppendTags({t}, d)
  /\ UNCHANGED <<pageVars, wg, sem, errs>>

\* A bad timestamp, a failed request or a manifest that does not decode.
ManifestError(t) ==
  /\ Move(t, "manifest", "leave")
  /\ errs' = errs \cup {t}
  /\ UNCHANGED <<pageVars, wg, sem, listVars>>

\* Mutant: the permit is only given back after a success.
Leave_Leaks(t) ==
  /\ Move(t, "leave", "done")
  /\ sem' = [sem EXCEPT ![PageOf(t)] = IF t \in errs THEN @ ELSE @ - 1]
  /\ wg' = wg - 1
  /\ UNCHANGED <<pageVars, listVars, errs>>

\* The deferred calls.
Leave(t) ==
  /\ Move(t, "leave", "done")
  /\ sem' = [sem EXCEPT ![PageOf(t)] = @ - 1]
  /\ wg' = wg - 1
  /\ UNCHANGED <<pageVars, listVars, errs>>

fetchTag(t) == Acquire(t) \/ AppendTag(t) \/ ManifestError(t) \/ Leave(t)

fetchTags == fetchTagsPaged \/ PageError \/ PageRefused \/ LastPage \/ Wait

Next == fetchTags \/ \E t \in AllTags : fetchTag(t)
=============================================================================
