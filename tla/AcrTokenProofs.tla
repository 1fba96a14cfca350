--------------------------- MODULE AcrTokenProofs ---------------------------
(***************************************************************************)
(* Proofs about the Azure client's tokens, for any number of workers and   *)
(* hosts and tokens of any lifetime.                                       *)
(***************************************************************************)
EXTENDS AcrToken, TLAPS

\* The map keeps a client under the host whose token it carries, a lookup
\* keeps its host, and what it is going to send has been filled in.
ClientsOK ==
  /\ \A h \in Hosts : cachedACRClient[h] # None => cachedACRClient[h].host = h
  /\ \A w \in Workers : pc[w] # "idle" => host[w] \in Hosts
  /\ \A w \in Workers :
       pc[w] = "send" => client[w] \in acrClient /\ client[w].host = host[w]

IInv == TypeOK /\ ClientsOK

\* A client that grows older stays the client of its host.
LEMMA OlderType ==
  ASSUME NEW c \in acrClient \cup {None}
  PROVE  /\ Older(c) \in acrClient \cup {None}
         /\ Older(c) # None => c # None /\ (c \in acrClient => Older(c).host = c.host)
BY DEF Older, acrClient

\* Time passes for the clients in the map; nobody is about to send then.
LEMMA TickStep ==
  ASSUME IInv, Tick
  PROVE  IInv'
<1>1. TypeOK'
  BY OlderType DEF IInv, TypeOK, Tick
<1>2. ASSUME NEW h \in Hosts, cachedACRClient'[h] # None
      PROVE  cachedACRClient'[h].host = h
  <2>1. cachedACRClient'[h] = Older(cachedACRClient[h])
    BY DEF Tick
  <2>2. cachedACRClient[h] \in acrClient \cup {None}
    BY DEF IInv, TypeOK
  <2>3. cachedACRClient[h] # None /\ cachedACRClient[h].host = h
    BY <1>2, <2>1, <2>2, OlderType DEF IInv, ClientsOK
  <2> QED BY <2>1, <2>2, <2>3, <1>2, OlderType
<1>3. \A w \in Workers : pc'[w] # "send" /\ pc'[w] = pc[w] /\ host'[w] = host[w]
  BY DEF Tick
<1>4. ClientsOK'
  BY <1>2, <1>3 DEF IInv, ClientsOK
<1> QED BY <1>1, <1>4 DEF IInv

\* A new lookup.
LEMMA TagsStep ==
  ASSUME IInv, NEW w \in Workers, Tags(w)
  PROVE  IInv'
<1> USE DEF Tags, Goto
<1>1. TypeOK'
  BY DEF IInv, TypeOK, PCs
<1>2. ClientsOK'
  BY DEF IInv, TypeOK, ClientsOK
<1> QED BY <1>1, <1>2 DEF IInv

\* Only a worker that finds the mutex free gets it.
LEMMA LockStep ==
  ASSUME IInv, NEW w \in Workers, Lock(w)
  PROVE  IInv'
<1> USE DEF Lock, Goto
<1>1. TypeOK'
  BY TokensAssumption DEF IInv, TypeOK, PCs
<1>2. ClientsOK'
  BY DEF IInv, TypeOK, ClientsOK
<1> QED BY <1>1, <1>2 DEF IInv

\* A client from the map has a token of the host that is looked up.
LEMMA ReuseStep ==
  ASSUME IInv, NEW w \in Workers, Reuse(w)
  PROVE  IInv'
<1> DEFINE c == cachedACRClient[host[w]]
<1>1. host[w] \in Hosts /\ cacheMu = w
  BY DEF Reuse, IInv, TypeOK, ClientsOK
<1>2. c \in acrClient /\ c.host = host[w]
  BY <1>1 DEF Reuse, Usable, IInv, TypeOK, ClientsOK
<1>3. TypeOK'
  BY <1>1, <1>2, TokensAssumption DEF Reuse, Goto, IInv, TypeOK, PCs
<1>4. ClientsOK'
  BY <1>2 DEF Reuse, Goto, IInv, TypeOK, ClientsOK
<1> QED BY <1>3, <1>4 DEF IInv

LEMMA RequestTokenStep ==
  ASSUME IInv, NEW w \in Workers, RequestToken(w)
  PROVE  IInv'
<1> USE DEF RequestToken, Goto
<1>1. TypeOK'
  BY DEF IInv, TypeOK, PCs
<1>2. ClientsOK'
  BY DEF IInv, TypeOK, ClientsOK
<1> QED BY <1>1, <1>2 DEF IInv

\* A new token goes into the map under the host that issued it, while no
\* other worker can be between its look at the map and its use.
LEMMA TokenStep ==
  ASSUME IInv, NEW w \in Workers, getAuthorizedClient(w)
  PROVE  IInv'
<1>1. host[w] \in Hosts /\ cacheMu = w
  BY DEF getAuthorizedClient, IInv, TypeOK, ClientsOK
<1>2. PICK n \in Lifetimes :
        LET c == [host |-> host[w], left |-> n] IN
        /\ cachedACRClient' = [cachedACRClient EXCEPT ![host[w]] = c]
        /\ client' = [client EXCEPT ![w] = c]
  BY DEF getAuthorizedClient
<1> DEFINE c == [host |-> host[w], left |-> n]
<1>3. c \in acrClient /\ c.host = host[w]
  BY <1>1, TokensAssumption DEF acrClient
<1>4. /\ cachedACRClient' = [cachedACRClient EXCEPT ![host[w]] = c]
      /\ client' = [client EXCEPT ![w] = c]
  BY <1>2
<1> HIDE DEF c
<1>5. TypeOK'
  BY <1>1, <1>3, <1>4, TokensAssumption
     DEF getAuthorizedClient, Goto, IInv, TypeOK, PCs
<1>6. ClientsOK'
  BY <1>1, <1>3, <1>4 DEF getAuthorizedClient, Goto, IInv, TypeOK, ClientsOK
<1> QED BY <1>5, <1>6 DEF IInv

\* The ways out of a lookup.  An error in getACRClient gives the mutex back,
\* and a lookup that ends later no longer has it.
LEMMA EndStep ==
  ASSUME IInv, NEW w \in Workers,
         TokenError(w) \/ getManifestsWithClient(w) \/ ManifestsError(w)
  PROVE  IInv'
<1> USE DEF TokenError, getManifestsWithClient, ManifestsError, End, Goto
<1>1. TypeOK'
  BY TokensAssumption DEF IInv, TypeOK, PCs
<1>2. ClientsOK'
  BY DEF IInv, TypeOK, ClientsOK
<1> QED BY <1>1, <1>2 DEF IInv

\* Every step keeps the invariant.
LEMMA NextInv == IInv /\ [Next]_vars => IInv'
<1> SUFFICES ASSUME IInv, [Next]_vars PROVE IInv'
  OBVIOUS
<1>1. CASE Tick
  BY <1>1, TickStep
<1>2. CASE \E w \in Workers : Tags(w)
  BY <1>2, TagsStep
<1>3. CASE \E w \in Workers : Step(w)
  BY <1>3, LockStep, ReuseStep, RequestTokenStep, TokenStep, EndStep DEF Step
<1>4. CASE UNCHANGED vars
  BY <1>4 DEF vars, IInv, TypeOK, ClientsOK
<1> QED BY <1>1, <1>2, <1>3, <1>4 DEF Next

LEMMA InitInv == Init => IInv
BY TokensAssumption DEF Init, IInv, TypeOK, ClientsOK, PCs

\* The variables have their types, and the mutex is held by exactly one worker
\* while any is inside getACRClient: requests for tokens never overlap.
THEOREM TokenTypes == Spec => []TypeOK
BY InitInv, NextInv, PTL DEF Spec, IInv

\* No request carries the token of another host, for any number of workers
\* that fill and read the shared map.
THEOREM TokenAlwaysOfHost == Spec => []TokenOfHost
<1>1. IInv => TokenOfHost
  BY DEF IInv, ClientsOK, TokenOfHost
<1> QED BY <1>1, InitInv, NextInv, PTL DEF Spec
=============================================================================
