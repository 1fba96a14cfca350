-------------------------- MODULE SelfhostedClient --------------------------
(***************************************************************************)
(* One lookup with the self-hosted client (pkg/client/selfhosted): one     *)
(* request for the names of the tags, whose further pages are not asked    *)
(* for, then two requests for each tag, one tag after the other, for its   *)
(* time and for its digest.  A status other than 200 costs the tag, any    *)
(* other error the lookup.                                                 *)
(***************************************************************************)
EXTENDS TagsCall

Init == pc = "page" /\ CallInit

Tags ==
  /\ pc = "page"
  /\ fetcher' = [t \in AllTags |-> IF t \in Pages[1] THEN "ready" ELSE "none"]
  /\ page' = 2
  /\ pc' = "manifests"
  /\ UNCHANGED <<hasAdditional, wg, sem, listVars, errs>>

ListError == pc = "page" /\ Abandon

\* The tag whose turn it is: the one between its requests, else any.
Turn(t) ==
  /\ pc = "manifests"
  /\ \A s \in AllTags : fetcher[s] = "manifest" => s = t

\* The first request is answered: the time of the image.
Manifest(t) ==
  /\ Turn(t)
  /\ Move(t, "ready", "manifest")
  /\ UNCHANGED <<pageVars, wg, sem, listVars, errs>>

Skip(t) ==
  /\ Turn(t)
  /\ fetcher[t] \in {"ready", "manifest"}
  /\ fetcher' = [fetcher EXCEPT ![t] = "done"]
  /\ errs' = errs \cup {t}
  /\ UNCHANGED <<pageVars, wg, sem, listVars>>

\* Mutant: one variable current for all tags; without a header, its digest is
\* still that of an earlier one.
BuildTags_OneCurrent(t, header, first) ==
  IF header # {} THEN header ELSE UNION {shas[s] : s \in AllTags}

\* The digests of the entry that BuildTags makes of current: the root is a
\* copy with the digest of the header; every image of a manifest list adds a
\* child, but all of them are the one variable current, whose digest is the
\* header's, or the list's first where there was no header.
BuildTags(t, header, first) == IF header # {} THEN header ELSE first

\* The second request is answered, with the digest in a header or without.
ManifestList(t) ==
  /\ Turn(t)
  /\ Move(t, "manifest", "done")
  /\ \E header \in {{Digest[t]}, {}},
        first \in IF Platforms[t] = {} THEN {{}} ELSE {{d} : d \in Platforms[t]} :
       AppendTags({t}, [s \in AllTags |-> BuildTags(t, header, first)])
  /\ UNCHANGED <<pageVars, wg, sem, errs>>

Left == {t \in AllTags : fetcher[t] \in {"ready", "manifest"}}

ManifestError == pc = "manifests" /\ Left # {} /\ Abandon

Return ==
  /\ pc = "manifests"
  /\ Left = {}
  /\ pc' = "tags"
  /\ UNCHANGED <<page, hasAdditional, goVars, listVars, errs>>

Next ==
  \/ Tags
  \/ ListError
  \/ ManifestError
  \/ Return
  \/ \E t \in AllTags : Manifest(t) \/ Skip(t) \/ ManifestList(t)
=============================================================================
