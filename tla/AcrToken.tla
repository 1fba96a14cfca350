------------------------------ MODULE AcrToken ------------------------------
(***************************************************************************)
(* Access tokens of the Azure client (pkg/client/acr): workers share one   *)
(* Client, whose cachedACRClient maps a registry host to an autorest       *)
(* client that carries an access token.  getACRClient holds cacheMu while  *)
(* it looks into the map, and also while it asks the host for a new token. *)
(*                                                                         *)
(* A token is the host that issued it and the time it has left, in ticks.  *)
(* Time passes while nobody is between two local steps; it may pass while  *)
(* a worker waits for a host.                                              *)
(***************************************************************************)
EXTENDS Integers

CONSTANTS
  Workers,    \* goroutines that look images up
  Hosts,      \* registries
  Lifetimes,  \* lifetimes of the tokens that hosts issue, in ticks
  None        \* no client, no worker

ASSUME TokensAssumption ==
  Lifetimes \subseteq Nat /\ None \notin Workers

\* An autorest client with its token; left = -1 once tokenExpiry has passed.
acrClient == [host : Hosts, left : Nat \cup {-1}]

VARIABLES
  cacheMu,          \* the worker that holds the mutex, or None
  cachedACRClient,  \* per host
  pc,               \* where a worker's call of Tags stands
  host,             \* the host it is about
  client,           \* the client that getACRClient returned
  outcome           \* how its last call ended: "none", "tags", "error"

vars == <<cacheMu, cachedACRClient, pc, host, client, outcome>>

PCs == {"idle", "lock", "cached", "request", "send"}

Init ==
  /\ cacheMu = None
  /\ cachedACRClient = [h \in Hosts |-> None]
  /\ pc = [w \in Workers |-> "idle"]
  /\ host = [w \in Workers |-> None]
  /\ client = [w \in Workers |-> None]
  /\ outcome = [w \in Workers |-> "none"]

Goto(w, l) == pc' = [pc EXCEPT ![w] = l]

Older(c) == IF c = None \/ c.left = -1 THEN c ELSE [c EXCEPT !.left = @ - 1]

\* External: the clock.
Tick ==
  /\ \A w \in Workers : pc[w] \in {"idle", "lock", "request"}
  /\ cachedACRClient' = [h \in Hosts |-> Older(cachedACRClient[h])]
  /\ client' = [w \in Workers |-> Older(client[w])]
  /\ UNCHANGED <<cacheMu, pc, host, outcome>>

Tags(w) ==
  /\ pc[w] = "idle"
  /\ \E h \in Hosts : host' = [host EXCEPT ![w] = h]
  /\ Goto(w, "lock")
  /\ outcome' = [outcome EXCEPT ![w] = "none"]
  /\ UNCHANGED <<cacheMu, cachedACRClient, client>>

Lock(w) ==
  /\ pc[w] = "lock"
  /\ cacheMu = None
  /\ cacheMu' = w
  /\ Goto(w, "cached")
  /\ UNCHANGED <<cachedACRClient, host, client, outcome>>

\* time.Now().After(client.tokenExpiry)
After(c) == c.left = -1

\* The condition under which getACRClient returns what it found in the map.
Usable(h) == cachedACRClient[h] # None /\ After(cachedACRClient[h])

\* A cached client is used; the mutex is let go.
Reuse(w) ==
  /\ pc[w] = "cached"
  /\ Usable(host[w])
  /\ client' = [client EXCEPT ![w] = cachedACRClient[host[w]]]
  /\ cacheMu' = None
  /\ Goto(w, "send")
  /\ UNCHANGED <<cachedACRClient, host, outcome>>

\* Otherwise a token is asked for, with the mutex held.
RequestToken(w) ==
  /\ pc[w] = "cached"
  /\ ~ Usable(host[w])
  /\ Goto(w, "request")
  /\ UNCHANGED <<cacheMu, cachedACRClient, host, client, outcome>>

\* Mutant: the map has a single entry for all hosts.
getAuthorizedClient_Shared(w) ==
  /\ pc[w] = "request"
  /\ \E n \in Lifetimes :
       LET c == [host |-> host[w], left |-> n] IN
       /\ cachedACRClient' = [h \in Hosts |-> c]
       /\ client' = [client EXCEPT ![w] = c]
  /\ cacheMu' = None
  /\ Goto(w, "send")
  /\ UNCHANGED <<host, outcome>>

\* The host issues a token whose expiry can be read; the client is cached.
getAuthorizedClient(w) ==
  /\ pc[w] = "request"
  /\ \E n \in Lifetimes :
       LET c == [host |-> host[w], left |-> n] IN
       /\ cachedACRClient' = [cachedACRClient EXCEPT ![host[w]] = c]
       /\ client' = [client EXCEPT ![w] = c]
  /\ cacheMu' = None
  /\ Goto(w, "send")
  /\ UNCHANGED <<host, outcome>>

End(w, o) ==
  /\ Goto(w, "idle")
  /\ outcome' = [outcome EXCEPT ![w] = o]
  /\ host' = [host EXCEPT ![w] = None]
  /\ client' = [client EXCEPT ![w] = None]

\* Mutant: the error return does not unlock.
TokenError_Locked(w) ==
  /\ pc[w] = "request"
  /\ End(w, "error")
  /\ UNCHANGED <<cacheMu, cachedACRClient>>

\* No response, or a token without a readable expiry.  Nothing is cached.
TokenError(w) ==
  /\ pc[w] = "request"
  /\ cacheMu' = None
  /\ End(w, "error")
  /\ UNCHANGED cachedACRClient

\* The host accepts its own tokens until they expire.
getManifestsWithClient(w) ==
  /\ pc[w] = "send"
  /\ client[w].host = host[w]
  /\ ~ After(client[w])
  /\ End(w, "tags")
  /\ UNCHANGED <<cacheMu, cachedACRClient>>

ManifestsError(w) ==
  /\ pc[w] = "send"
  /\ End(w, "error")
  /\ UNCHANGED <<cacheMu, cachedACRClient>>

Step(w) ==
  \/ Lock(w)
  \/ Reuse(w)
  \/ RequestToken(w)
  \/ getAuthorizedClient(w)
  \/ TokenError(w)
  \/ getManifestsWithClient(w)
  \/ ManifestsError(w)

Next == Tick \/ \E w \in Workers : Tags(w) \/ Step(w)

Spec == Init /\ [][Next]_vars

\* A worker keeps running; a Go mutex that is let go again and again is not
\* withheld from a waiter for ever (starvation mode).
FairSpec ==
  /\ Spec
  /\ \A w \in Workers : WF_vars(Step(w)) /\ SF_vars(Lock(w))

----------------------------------------------------------------------------
(* Properties *)

\* Every variable has its type; exactly the workers between Lock and the
\* return of getACRClient hold the mutex, so at most one of them is there.
TypeOK ==
  /\ cacheMu \in Workers \cup {None}
  /\ cachedACRClient \in [Hosts -> acrClient \cup {None}]
  /\ pc \in [Workers -> PCs]
  /\ host \in [Workers -> Hosts \cup {None}]
  /\ client \in [Workers -> acrClient \cup {None}]
  /\ outcome \in [Workers -> {"none", "tags", "error"}]
  /\ \A w \in Workers : pc[w] \in {"cached", "request"} <=> cacheMu = w

\* A request carries a token of the very host it goes to, whichever worker
\* obtained that token for whichever lookup.
TokenOfHost ==
  \A w \in Workers : pc[w] = "send" => client[w].host = host[w]

\* Every lookup ends, although all of them wait for one mutex that is held
\* during requests: every way out of getACRClient gives it back.
LookupEnds == \A w \in Workers : pc[w] # "idle" ~> pc[w] = "idle"

\* Stated by auth.go:122, "client is not reused after expiry anyway (see
\* cachedACRClient)": a request carries a token that has not expired.
NotReusedAfterExpiry ==
  \A w \in Workers : pc[w] = "send" => ~ After(client[w])
=============================================================================
