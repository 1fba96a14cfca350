--------------------------- MODULE MCRegistryTags ---------------------------
(* Instances of RegistryTags for TLC. *)
EXTENDS RegistryTags

\* The last page is above the limit; only tag "a" is a manifest list.
ThreePages == <<{"a", "b", "c"}, {"d", "e"}, {"f"}>>
Tags == UNION {ThreePages[n] : n \in DOMAIN ThreePages}
OneDigestEach == [t \in Tags |-> <<t, "own">>]
OneList == [t \in Tags |->
  IF t = "a" THEN {<<t, "amd64">>, <<t, "arm64">>} ELSE {}]
=============================================================================
