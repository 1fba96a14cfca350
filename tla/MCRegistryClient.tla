-------------------------- MODULE MCRegistryClient --------------------------
(* Instances of RegistryClient for TLC. *)
EXTENDS RegistryClient, TLC

\* URLs for each registry, with a default namespace and without.
MCURLs ==
  {<<"nginx">>, <<"a", "b">>,
   <<"docker.io", "a", "b", "c">>, <<"gcr.io", "nginx">>,
   <<"gcr.io", "a", "b", "c">>, <<"x.azurecr.io", "a", "b">>,
   <<"x.amazonaws.com", "b">>, <<"ghcr.io", "a", "b", "c">>,
   <<"quay.io", "a", "b">>, <<"quay.io", "b">>, <<"my.host", "b">>,
   <<"my.host", "a", "b">>, <<"my.host", "a", "b", "c">>}

\* Hosts that no client claims.
OtherURLs == {<<"one.org", "a">>, <<"two.org", "a", "b">>}

AllURLs == MCURLs \cup OtherURLs

MCDotted == {"docker.io", "gcr.io", "x.azurecr.io", "x.amazonaws.com", "ghcr.io",
             "quay.io", "my.host", "one.org", "two.org"}

MCHostsOf ==
  [c \in Registries |->
     CASE c = "selfhosted" -> {"my.host"}
       [] c = "acr" -> {"x.azurecr.io"}
       [] c = "ecr" -> {"x.amazonaws.com"}
       [] c = "docker" -> {"docker.io"}
       [] c = "gcr" -> {"gcr.io"}
       [] c = "ghcr" -> {"ghcr.io"}
       [] OTHER -> {"quay.io"}]

Perms == Permutations(Workers)
=============================================================================
