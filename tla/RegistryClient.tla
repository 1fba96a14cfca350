--------------------------- MODULE RegistryClient ---------------------------
(***************************************************************************)
(* Which registry is asked for the tags of an image URL, and for what:     *)
(* Client.Tags and fromImageURL (pkg/client/client.go), the IsHost and     *)
(* RepoImageFromPath of each registry's client (pkg/client/*/path.go), and *)
(* the fallback client with its cache of hosts (pkg/client/fallback).      *)
(*                                                                         *)
(* The workers of the pod controller share one Client.  A registered       *)
(* client answers or fails in one step, its HTTP exchange being left out.  *)
(* The fallback client tries anonymous clients in turn; which of them a    *)
(* host answers changes with time.                                         *)
(*                                                                         *)
(* An image URL is the sequence of its parts between slashes.              *)
(***************************************************************************)
EXTENDS Integers, Sequences

CONSTANTS
  Workers,      \* goroutines that look images up
  URLs,         \* image URLs without tag and SHA
  Dotted,       \* parts with a '.' or a ':' in them
  HostsOf,      \* HostsOf[c]: hosts that client c claims (its IsHost)
  Empty,        \* the empty host
  None,         \* no client
  NumFallback,  \* number of clients behind the fallback client
  MaxFlips      \* bound: changes of what registries answer

Registries == {"selfhosted", "acr", "ecr", "docker", "gcr", "ghcr", "quay"}

ASSUME URLsAssumption ==
  /\ \A u \in URLs : u \in Seq(STRING) /\ u # <<>>
  /\ DOMAIN HostsOf = Registries
  /\ NumFallback \in Nat \ {0}
  /\ None \notin 1 .. NumFallback
  /\ MaxFlips \in Nat

\* The anonymous clients, in the order in which they are tried: selfhosted,
\* docker, oci.
Fallbacks == 1 .. NumFallback

HasHost(u) == Len(u) > 1 /\ \E k \in DOMAIN u : u[k] \in Dotted

hostOf(u) == IF HasHost(u) THEN u[1] ELSE Empty
pathOf(u) == IF HasHost(u) THEN Tail(u) ELSE u

VARIABLES
  answers,    \* answers[h]: fallback clients that get an answer for host h
  flips,      \* number of changes of answers
  hostCache,  \* hostCache[h]: the fallback client that last worked, or None
  pc,         \* where the call of Tags stands
  call,       \* its URL, host, client, repo and image
  next,       \* the fallback client to ask next
  outcome,    \* how the last call ended
  steady      \* history: fallback clients that would have answered all along

callVars == <<pc, call, next, outcome>>
vars == <<answers, flips, hostCache, callVars, steady>>

----------------------------------------------------------------------------
(* From an image URL to a client, a repo and an image *)

\* Order of the clients in New.
Order == <<"selfhosted", "acr", "ecr", "docker", "gcr", "ghcr", "quay">>

IsHost(c, h) == h \in HostsOf[c] \/ (c = "docker" /\ h = Empty)

fromImageURL(u) ==
  IF \E c \in Registries : IsHost(c, hostOf(u))
  THEN Order[CHOOSE k \in DOMAIN Order :
               /\ IsHost(Order[k], hostOf(u))
               /\ \A j \in 1 .. k - 1 : ~ IsHost(Order[j], hostOf(u))]
  ELSE "fallback"

\* Hosts that no client claims: what the fallback client is asked about.
Hosts == {hostOf(u) : u \in {v \in URLs : fromImageURL(v) = "fallback"}}

AllButLast(p) == SubSeq(p, 1, Len(p) - 1)
LastOf(p) == <<p[Len(p)]>>

\* What RepoImageFromPath of each client makes of a path: repo and image are
\* sequences of parts, <<>> is "".
acrRepoImage(p) == [repo |-> AllButLast(p), image |-> LastOf(p)]

ecrRepoImage(p) == [repo |-> AllButLast(p), image |-> LastOf(p)]

quayRepoImage(p) ==
  IF Len(p) = 1 THEN [repo |-> p, image |-> <<>>]
  ELSE [repo |-> AllButLast(p), image |-> LastOf(p)]

gcrRepoImage(p) ==
  IF Len(p) = 1 THEN [repo |-> <<"google-containers">>, image |-> p]
  ELSE [repo |-> AllButLast(p), image |-> LastOf(p)]

\* Mutant: the parts between the owner and the last one are left out.
ghcrRepoImage_FirstLast(p) == [repo |-> <<p[1]>>, image |-> LastOf(p)]

ghcrRepoImage(p) == [repo |-> <<p[1]>>, image |-> Tail(p)]

dockerRepoImage(p) ==
  IF Len(p) = 1 THEN [repo |-> <<"library">>, image |-> p]
  ELSE [repo |-> <<p[Len(p) - 1]>>, image |-> LastOf(p)]

selfhostedRepoImage(p) ==
  IF Len(p) = 1 THEN [repo |-> <<>>, image |-> p]
  ELSE [repo |-> <<p[Len(p) - 1]>>, image |-> LastOf(p)]

fallbackRepoImage(p) == [repo |-> <<>>, image |-> <<>>]

RepoImageFromPath(c, p) ==
  CASE c = "acr" -> acrRepoImage(p)
    [] c = "ecr" -> ecrRepoImage(p)
    [] c = "quay" -> quayRepoImage(p)
    [] c = "gcr" -> gcrRepoImage(p)
    [] c = "ghcr" -> ghcrRepoImage(p)
    [] c = "docker" -> dockerRepoImage(p)
    [] c = "selfhosted" -> selfhostedRepoImage(p)
    [] OTHER -> fallbackRepoImage(p)

Request(u) ==
  LET c == fromImageURL(u)
      q == RepoImageFromPath(c, pathOf(u))
  IN  [url |-> u, host |-> hostOf(u), client |-> c, repo |-> q.repo,
       image |-> q.image]

Requests == {Request(u) : u \in URLs}

NoCall == [url |-> <<>>, host |-> Empty, client |-> None, repo |-> <<>>,
           image |-> <<>>]

----------------------------------------------------------------------------
Init ==
  /\ answers \in [Hosts -> SUBSET Fallbacks]
  /\ flips = 0
  /\ hostCache = [h \in Hosts |-> None]
  /\ pc = [w \in Workers |-> "idle"]
  /\ call = [w \in Workers |-> NoCall]
  /\ next = [w \in Workers |-> None]
  /\ outcome = [w \in Workers |-> "none"]
  /\ steady = [w \in Workers |-> {}]

\* External: a registry starts or stops answering one of the clients.
Flip(h, f) ==
  /\ flips < MaxFlips
  /\ flips' = flips + 1
  /\ answers' = [answers EXCEPT
                   ![h] = IF f \in @ THEN @ \ {f} ELSE @ \cup {f}]
  /\ steady' = [w \in Workers |-> IF call[w].host = h
                                  THEN steady[w] \cap answers'[h]
                                  ELSE steady[w]]
  /\ UNCHANGED <<hostCache, callVars>>

\* External: go-cache drops an entry after five hours.
Expire(h) ==
  /\ hostCache[h] # None
  /\ hostCache' = [hostCache EXCEPT ![h] = None]
  /\ UNCHANGED <<answers, flips, callVars, steady>>

\* Client.Tags up to its first request.  A host found in the fallback's cache
\* is asked through the client that was found there.
Tags(w) ==
  /\ pc[w] = "idle"
  /\ \E r \in Requests :
       /\ call' = [call EXCEPT ![w] = r]
       /\ IF r.client = "fallback"
          THEN LET found == hostCache[r.host] IN
               /\ steady' = [steady EXCEPT ![w] = answers[r.host]]
               /\ pc' = [pc EXCEPT ![w] = IF found # None THEN "cached" ELSE "try"]
               /\ next' = [next EXCEPT ![w] = IF found # None THEN found ELSE 1]
          ELSE /\ steady' = [steady EXCEPT ![w] = {}]
               /\ pc' = [pc EXCEPT ![w] = "direct"]
               /\ next' = [next EXCEPT ![w] = None]
  /\ outcome' = [outcome EXCEPT ![w] = "none"]
  /\ UNCHANGED <<answers, flips, hostCache>>

Return(w, o) ==
  /\ pc' = [pc EXCEPT ![w] = "idle"]
  /\ outcome' = [outcome EXCEPT ![w] = o]
  /\ UNCHANGED <<answers, flips, call, next, steady>>

\* The registry's own client answers or fails.
Direct(w) ==
  /\ pc[w] = "direct"
  /\ pc' = [pc EXCEPT ![w] = "idle"]
  /\ call' = [call EXCEPT ![w] = NoCall]
  /\ UNCHANGED <<answers, flips, hostCache, next, outcome, steady>>

CachedAnswers(w) ==
  /\ pc[w] = "cached"
  /\ next[w] \in answers[call[w].host]
  /\ Return(w, "tags")
  /\ UNCHANGED hostCache

\* Mutant: the error of the cached client is the caller's.
CachedFails_Returned(w) ==
  /\ pc[w] = "cached"
  /\ next[w] \notin answers[call[w].host]
  /\ Return(w, "error")
  /\ UNCHANGED hostCache

CachedFails(w) ==
  /\ pc[w] = "cached"
  /\ next[w] \notin answers[call[w].host]
  /\ pc' = [pc EXCEPT ![w] = "try"]
  /\ next' = [next EXCEPT ![w] = 1]
  /\ UNCHANGED <<answers, flips, hostCache, call, outcome, steady>>

TryAnswers(w) ==
  /\ pc[w] = "try"
  /\ next[w] \in answers[call[w].host]
  /\ hostCache' = [hostCache EXCEPT ![call[w].host] = next[w]]
  /\ Return(w, "tags")

\* Mutant: one client too many.
TryFails_Past(w) ==
  /\ pc[w] = "try"
  /\ next[w] \notin answers[call[w].host]
  /\ next[w] <= NumFallback
  /\ next' = [next EXCEPT ![w] = next[w] + 1]
  /\ UNCHANGED <<answers, flips, hostCache, pc, call, outcome, steady>>

TryFails(w) ==
  /\ pc[w] = "try"
  /\ next[w] \notin answers[call[w].host]
  /\ next[w] < NumFallback
  /\ next' = [next EXCEPT ![w] = next[w] + 1]
  /\ UNCHANGED <<answers, flips, hostCache, pc, call, outcome, steady>>

GivesUp(w) ==
  /\ pc[w] = "try"
  /\ next[w] \notin answers[call[w].host]
  /\ next[w] = NumFallback
  /\ Return(w, "error")
  /\ UNCHANGED hostCache

Next ==
  \/ \E h \in Hosts, f \in Fallbacks : Flip(h, f)
  \/ \E h \in Hosts : Expire(h)
  \/ \E w \in Workers :
       \/ Tags(w)
       \/ Direct(w)
       \/ CachedAnswers(w)
       \/ CachedFails(w)
       \/ TryAnswers(w)
       \/ TryFails(w)
       \/ GivesUp(w)

Spec == Init /\ [][Next]_vars

----------------------------------------------------------------------------
(* Properties *)

\* Every variable has its type; a call that asks a fallback client asks one
\* that exists.
TypeOK ==
  /\ answers \in [Hosts -> SUBSET Fallbacks]
  /\ flips \in 0 .. MaxFlips
  /\ hostCache \in [Hosts -> Fallbacks \cup {None}]
  /\ pc \in [Workers -> {"idle", "direct", "cached", "try"}]
  /\ call \in [Workers -> {NoCall} \cup Requests]
  /\ next \in [Workers -> Fallbacks \cup {None}]
  /\ outcome \in [Workers -> {"none", "tags", "error"}]
  /\ steady \in [Workers -> SUBSET Fallbacks]

\* A lookup through the fallback client only fails if none of its clients
\* would have answered all along: a cached client that has stopped working,
\* or that another worker just replaced, never hides one that works.
AnswersIfAny ==
  \A w \in Workers :
    outcome[w] = "error" /\ call[w].client = "fallback" => steady[w] = {}

\* What a call asks for is the path of its URL, a single part after the
\* namespace that the registry has for such.
DefaultNamespace == [docker |-> <<"library">>, gcr |-> <<"google-containers">>]
AsksForPath(r) ==
  LET p == pathOf(r.url)
      q == r.repo \o r.image
  IN  \/ q = p
      \/ /\ Len(p) = 1
         /\ r.client \in DOMAIN DefaultNamespace
         /\ q = DefaultNamespace[r.client] \o p

\* A registry's own client asks for the path of the URL (fromImageURL,
\* RepoImageFromPath), however long it is; docker's and a self-hosted one's are
\* left out beyond two parts, of which the code asks for the last two.  Docker
\* Hub has no such names, self-hosted registries do, and are asked for another
\* repository.
AskedDirectly ==
  \A w \in Workers :
    /\ pc[w] = "direct"
    /\ call[w].client \in {"docker", "selfhosted"} => Len(pathOf(call[w].url)) <= 2
    => AsksForPath(call[w])
=============================================================================
