------------------------ MODULE RegistryClientProofs ------------------------
(***************************************************************************)
(* Proofs about the dispatch of image URLs and the fallback client, for    *)
(* any URLs, any hosts that the clients claim, and any number of workers   *)
(* and fallback clients.                                                   *)
(***************************************************************************)
EXTENDS RegistryClient, SequenceTheorems, TLAPS

----------------------------------------------------------------------------
(* Facts about URLs *)

\* A path has a part.
LEMMA PathType ==
  ASSUME NEW u \in URLs
  PROVE  pathOf(u) \in Seq(STRING) /\ Len(pathOf(u)) > 0
<1>1. u \in Seq(STRING) /\ u # <<>>
  BY URLsAssumption
<1>2. CASE HasHost(u)
  <2>1. Tail(u) \in Seq(STRING) /\ Len(Tail(u)) = Len(u) - 1
    BY <1>1, HeadTailProperties
  <2>2. Len(u) > 1 /\ Len(u) \in Nat
    BY <1>1, <1>2, LenProperties DEF HasHost
  <2> QED BY <1>2, <2>1, <2>2 DEF pathOf
<1>3. CASE ~ HasHost(u)
  BY <1>1, <1>3, LenProperties, EmptySeq DEF pathOf
<1> QED BY <1>2, <1>3

\* Of the clients that claim a host, the first in the order of New is taken.
LEMMA ClientType ==
  ASSUME NEW u
  PROVE  /\ fromImageURL(u) \in Registries \cup {"fallback"}
         /\ fromImageURL(u) # "fallback" => IsHost(fromImageURL(u), hostOf(u))
<1> DEFINE P(k) == IsHost(Order[k], hostOf(u))
           First(k) == P(k) /\ \A j \in 1 .. k - 1 : ~ P(j)
<1>1. DOMAIN Order = 1 .. 7 /\ \A k \in 1 .. 7 : Order[k] \in Registries
  BY DEF Order, Registries
<1>2. \A c \in Registries : \E k \in 1 .. 7 : Order[k] = c
  BY DEF Order, Registries
<1>3. CASE \E c \in Registries : IsHost(c, hostOf(u))
  <2>1. \E k \in 1 .. 7 : P(k)
    BY <1>2, <1>3
  <2> HIDE DEF P
  <2>2. \E k \in 1 .. 7 : First(k)
    <3>1. SUFFICES ASSUME \A k \in 1 .. 7 : ~ First(k) PROVE FALSE
      OBVIOUS
    <3>2. ~ P(1) BY <3>1
    <3>3. ~ P(2) BY <3>1, <3>2
    <3>4. ~ P(3) BY <3>1, <3>2, <3>3
    <3>5. ~ P(4) BY <3>1, <3>2, <3>3, <3>4
    <3>6. ~ P(5) BY <3>1, <3>2, <3>3, <3>4, <3>5
    <3>7. ~ P(6) BY <3>1, <3>2, <3>3, <3>4, <3>5, <3>6
    <3>8. ~ P(7) BY <3>1, <3>2, <3>3, <3>4, <3>5, <3>6, <3>7
    <3> QED BY <2>1, <3>2, <3>3, <3>4, <3>5, <3>6, <3>7, <3>8
  <2> DEFINE k == CHOOSE i \in DOMAIN Order : First(i)
  <2>3. k \in 1 .. 7 /\ First(k)
    BY <1>1, <2>2
  <2>4. fromImageURL(u) = Order[k]
    BY <1>3 DEF fromImageURL, P
  <2>5. Order[k] \in Registries /\ P(k)
    BY <1>1, <2>3
  <2> QED BY <2>4, <2>5 DEF P
<1>4. CASE ~ \E c \in Registries : IsHost(c, hostOf(u))
  BY <1>4 DEF fromImageURL
<1> QED BY <1>3, <1>4

LEMMA RequestType ==
  ASSUME NEW r \in Requests
  PROVE  /\ r.url \in URLs
         /\ r = Request(r.url)
         /\ r.client = "fallback" => r.host \in Hosts
BY DEF Requests, Request, Hosts

----------------------------------------------------------------------------
(* What the clients make of a path *)

\* A sequence of one part.
LEMMA OnePart ==
  ASSUME NEW S, NEW x \in S
  PROVE  <<x>> \in Seq(S) /\ Len(<<x>>) = 1 /\ <<x>>[1] = x
OBVIOUS

\* Repo and image together are the path, for the clients that keep all of it.
LEMMA WholePath ==
  ASSUME NEW S, NEW p \in Seq(S), Len(p) > 0
  PROVE  /\ AllButLast(p) \o LastOf(p) = p
         /\ <<p[1]>> \o Tail(p) = p
<1>1. Len(p) \in Nat /\ 1 \in 1 .. Len(p) /\ Len(p) \in 1 .. Len(p)
  BY LenProperties
<1>2. SubSeq(p, 1, Len(p)) = p
  BY SubSeqFull
<1>3. SubSeq(p, 1, Len(p) - 1) \o <<p[Len(p)]>> = p
  BY <1>1, <1>2, SubSeqRecursiveSecond
<1>4. Tail(p) = SubSeq(p, 2, Len(p))
  BY EmptySeq, TailIsSubSeq
<1>5. <<p[1]>> \o Tail(p) = p
  BY <1>1, <1>2, <1>4, SubSeqRecursiveFirst
<1> QED BY <1>3, <1>5 DEF AllButLast, LastOf

\* Two parts, one after the other, are a path of two parts.
LEMMA TwoParts ==
  ASSUME NEW S, NEW p \in Seq(S), Len(p) = 2
  PROVE  <<p[1]>> \o LastOf(p) = p
<1> DEFINE t == Tail(p)
           y == p[2]
<1>0. p # <<>> /\ Len(p) > 0
  BY EmptySeq
<1>1. /\ t \in Seq(S)
      /\ Len(t) = Len(p) - 1
      /\ \A i \in 1 .. Len(t) : t[i] = p[i + 1]
  BY <1>0, HeadTailProperties
<1>2. y \in S
  BY ElementOfSeq
<1>3. t = <<y>>
  <2> HIDE DEF t
  <2>1. Len(t) = 1 /\ t[1] = y
    BY <1>1
  <2> HIDE DEF y
  <2>2. <<y>> \in Seq(S) /\ Len(<<y>>) = 1 /\ <<y>>[1] = y
    BY <1>2, OnePart
  <2> DEFINE s == <<y>>
  <2> HIDE DEF s
  <2>3. s \in Seq(S) /\ Len(s) = 1 /\ s[1] = y
    BY <2>2 DEF s
  <2>4. t = s
    BY <1>1, <2>1, <2>3, SeqEqual
  <2> QED BY <2>4 DEF s
<1>4. <<p[1]>> \o Tail(p) = p
  BY <1>0, WholePath
<1> QED BY <1>3, <1>4 DEF LastOf

\* What every client's RepoImageFromPath makes of a path is all of it.
LEMMA PathKept ==
  ASSUME NEW S, NEW p \in Seq(S), Len(p) > 0, NEW c \in Registries,
         c \in {"docker", "selfhosted"} => Len(p) <= 2
  PROVE  LET r == RepoImageFromPath(c, p)
             q == r.repo \o r.image
         IN  \/ q = p
             \/ /\ Len(p) = 1
                /\ c \in DOMAIN DefaultNamespace
                /\ q = DefaultNamespace[c] \o p
<1> DEFINE L == Len(p)
           r == RepoImageFromPath(c, p)
           q == r.repo \o r.image
<1>1. L \in Nat /\ L > 0
  BY LenProperties
<1> HIDE DEF L
<1>2. CASE c \in {"acr", "ecr"} \/ (c \in {"quay", "gcr"} /\ L # 1)
  <2>1. r = [repo |-> AllButLast(p), image |-> LastOf(p)]
    BY <1>2 DEF RepoImageFromPath, acrRepoImage, ecrRepoImage, quayRepoImage,
                gcrRepoImage, L
  <2>2. q = AllButLast(p) \o LastOf(p)
    <3> HIDE DEF r
    <3> QED BY <2>1
  <2>3. q = p
    <3> HIDE DEF q
    <3> QED BY <2>2, WholePath
  <2> QED BY <2>3
<1>3. CASE c = "ghcr"
  BY <1>3, WholePath DEF RepoImageFromPath, ghcrRepoImage
<1>4. CASE c = "quay" /\ L = 1
  BY <1>4, ConcatEmptySeq DEF RepoImageFromPath, quayRepoImage, L
<1>5. CASE c = "selfhosted" /\ L = 1
  BY <1>5, ConcatEmptySeq DEF RepoImageFromPath, selfhostedRepoImage, L
<1>6. CASE c \in {"gcr", "docker"} /\ L = 1
  <2>1. CASE c = "gcr"
    BY <1>6, <2>1 DEF RepoImageFromPath, gcrRepoImage, DefaultNamespace, L
  <2>2. CASE c = "docker"
    BY <1>6, <2>2 DEF RepoImageFromPath, dockerRepoImage, DefaultNamespace, L
  <2> QED BY <1>6, <2>1, <2>2
<1>7. CASE c \in {"docker", "selfhosted"} /\ L # 1
  <2>1. L = 2
    <3>1. L <= 2
      BY <1>7 DEF L
    <3> QED BY <1>1, <1>7, <3>1
  <2>2. r = dockerRepoImage(p) \/ r = selfhostedRepoImage(p)
    BY <1>7 DEF RepoImageFromPath
  <2>3. r = [repo |-> <<p[1]>>, image |-> LastOf(p)]
    <3>1. L - 1 = 1
      BY <2>1
    <3> HIDE DEF r
    <3> QED BY <1>7, <2>2, <3>1, Zenon DEF dockerRepoImage, selfhostedRepoImage, L
  <2>4. q = <<p[1]>> \o LastOf(p)
    <3> HIDE DEF r
    <3> QED BY <2>3
  <2>5. q = p
    <3> HIDE DEF q
    <3> QED BY <2>1, <2>4, TwoParts DEF L
  <2> QED BY <2>5
<1> QED
  BY <1>2, <1>3, <1>4, <1>5, <1>6, <1>7 DEF Registries

----------------------------------------------------------------------------
(* The inductive invariant *)

\* What a call that is under way asks.  A client that would have answered all
\* along is still to be asked.
CallOK(w) ==
  /\ pc[w] # "idle" => outcome[w] = "none" /\ call[w] \in Requests
  /\ pc[w] = "direct" => call[w].client # "fallback"
  /\ pc[w] \in {"cached", "try"} =>
       /\ call[w].client = "fallback"
       /\ next[w] \in Fallbacks
       /\ steady[w] \subseteq answers[call[w].host]
  /\ pc[w] = "try" => \A f \in steady[w] : next[w] <= f

IInv == TypeOK /\ AnswersIfAny /\ \A w \in Workers : CallOK(w)

LEMMA FallbackType ==
  /\ 1 \in Fallbacks
  /\ NumFallback \in Nat /\ NumFallback \in Fallbacks
  /\ \A f \in Fallbacks : f # None /\ f \in Nat /\ f <= NumFallback
BY URLsAssumption DEF Fallbacks

LEMMA InitInv == Init => IInv
BY URLsAssumption DEF Init, IInv, TypeOK, CallOK, AnswersIfAny

\* What a registry answers to one client changes.
LEMMA FlipStep ==
  ASSUME IInv, NEW h \in Hosts, NEW f \in Fallbacks, Flip(h, f)
  PROVE  IInv'
<1> USE DEF Flip, callVars
<1>1. TypeOK'
  BY URLsAssumption DEF IInv, TypeOK
<1>2. AnswersIfAny'
  BY DEF IInv, TypeOK, AnswersIfAny
<1>3. ASSUME NEW w \in Workers
      PROVE  CallOK(w)'
  <2>1. /\ steady'[w] \subseteq steady[w]
        /\ call[w].host = h => steady'[w] \subseteq answers'[h]
        /\ call[w].host # h => answers'[call[w].host] = answers[call[w].host]
    BY DEF IInv, TypeOK
  <2> QED BY <2>1 DEF IInv, CallOK
<1> QED BY <1>1, <1>2, <1>3 DEF IInv

LEMMA ExpireStep ==
  ASSUME IInv, NEW h \in Hosts, Expire(h)
  PROVE  IInv'
<1> USE DEF Expire, callVars
<1>1. TypeOK'
  BY DEF IInv, TypeOK
<1>2. AnswersIfAny' /\ \A w \in Workers : CallOK(w)'
  BY DEF IInv, AnswersIfAny, CallOK
<1> QED BY <1>1, <1>2 DEF IInv

\* A new call is for a URL; through the fallback, for a host nobody claims.
LEMMA TagsStep ==
  ASSUME IInv, NEW w \in Workers, Tags(w)
  PROVE  IInv'
<1>1. PICK r \in Requests :
        /\ call' = [call EXCEPT ![w] = r]
        /\ r.client = "fallback" =>
             /\ steady' = [steady EXCEPT ![w] = answers[r.host]]
             /\ \/ /\ pc' = [pc EXCEPT ![w] = "cached"]
                   /\ next' = [next EXCEPT ![w] = hostCache[r.host]]
                   /\ hostCache[r.host] # None
                \/ /\ pc' = [pc EXCEPT ![w] = "try"]
                   /\ next' = [next EXCEPT ![w] = 1]
        /\ r.client # "fallback" =>
             /\ steady' = [steady EXCEPT ![w] = {}]
             /\ pc' = [pc EXCEPT ![w] = "direct"]
             /\ next' = [next EXCEPT ![w] = None]
  BY DEF Tags
<1>2. r.client = "fallback" => r.host \in Hosts
  BY RequestType
<1>3. /\ pc[w] = "idle" /\ UNCHANGED <<answers, flips, hostCache>>
      /\ outcome' = [outcome EXCEPT ![w] = "none"]
  BY DEF Tags
<1>4. TypeOK'
  BY <1>1, <1>2, <1>3, FallbackType DEF IInv, TypeOK
<1>5. AnswersIfAny'
  BY <1>1, <1>3 DEF IInv, TypeOK, AnswersIfAny
<1>6. ASSUME NEW v \in Workers
      PROVE  CallOK(v)'
  <2>1. CASE v = w
    <3>1. call'[w] = r /\ outcome'[w] = "none"
      BY <1>1, <1>3 DEF IInv, TypeOK
    <3>2. CASE r.client # "fallback"
      BY <1>1, <2>1, <3>1, <3>2 DEF IInv, TypeOK, CallOK
    <3>3. CASE r.client = "fallback"
      <4>1. steady'[w] = answers[r.host] /\ answers[r.host] \subseteq Fallbacks
        BY <1>1, <1>2, <3>3 DEF IInv, TypeOK
      <4>2. \A f \in steady'[w] : 1 <= f
        BY <4>1 DEF Fallbacks
      <4>3. next'[w] \in Fallbacks /\ (pc'[w] = "try" => next'[w] = 1)
        BY <1>1, <1>2, <3>3, FallbackType DEF IInv, TypeOK
      <4> QED BY <1>1, <1>3, <2>1, <3>1, <3>3, <4>1, <4>2, <4>3
              DEF IInv, TypeOK, CallOK
    <3> QED BY <3>2, <3>3
  <2>2. CASE v # w
    BY <1>1, <1>3, <2>2 DEF IInv, TypeOK, CallOK
  <2> QED BY <2>1, <2>2
<1> QED BY <1>4, <1>5, <1>6 DEF IInv

LEMMA DirectStep ==
  ASSUME IInv, NEW w \in Workers, Direct(w)
  PROVE  IInv'
<1> USE DEF Direct
<1>1. TypeOK'
  BY DEF IInv, TypeOK
<1>2. AnswersIfAny' /\ \A v \in Workers : CallOK(v)'
  BY DEF IInv, TypeOK, AnswersIfAny, CallOK
<1> QED BY <1>1, <1>2 DEF IInv

\* The client found in the cache, or the one whose turn it is, answers; its
\* host is one that the cache is about.
LEMMA AnswersStep ==
  ASSUME IInv, NEW w \in Workers, CachedAnswers(w) \/ TryAnswers(w)
  PROVE  IInv'
<1>1. call[w].host \in Hosts /\ next[w] \in Fallbacks
  BY RequestType DEF CachedAnswers, TryAnswers, IInv, CallOK
<1> USE DEF CachedAnswers, TryAnswers, Return
<1>2. TypeOK'
  BY <1>1 DEF IInv, TypeOK
<1>3. AnswersIfAny' /\ \A v \in Workers : CallOK(v)'
  BY DEF IInv, TypeOK, AnswersIfAny, CallOK
<1> QED BY <1>2, <1>3 DEF IInv

\* The client from the cache fails: all are tried from the first.
LEMMA CachedFailsStep ==
  ASSUME IInv, NEW w \in Workers, CachedFails(w)
  PROVE  IInv'
<1> USE DEF CachedFails
<1>1. TypeOK'
  BY FallbackType DEF IInv, TypeOK
<1>2. AnswersIfAny'
  BY DEF IInv, TypeOK, AnswersIfAny
<1>3. \A f \in steady[w] : 1 <= f
  BY DEF IInv, TypeOK, Fallbacks
<1>4. \A v \in Workers : CallOK(v)'
  BY <1>3, FallbackType DEF IInv, TypeOK, CallOK
<1> QED BY <1>1, <1>2, <1>4 DEF IInv

\* The client whose turn it is fails; so it is none of those that would have
\* answered all along.
LEMMA TryFailsStep ==
  ASSUME IInv, NEW w \in Workers, TryFails(w)
  PROVE  IInv'
<1> USE DEF TryFails
<1>1. next[w] \in Fallbacks /\ next[w] + 1 \in Fallbacks
  BY URLsAssumption DEF IInv, CallOK, Fallbacks
<1>2. TypeOK'
  BY <1>1 DEF IInv, TypeOK
<1>3. AnswersIfAny'
  BY DEF IInv, TypeOK, AnswersIfAny
<1>4. \A f \in steady[w] : f \in Nat /\ f # next[w] /\ next[w] <= f
  BY FallbackType DEF IInv, TypeOK, CallOK
<1>5. ASSUME NEW f \in steady[w] PROVE next[w] + 1 <= f
  <2>1. next[w] \in Nat
    BY <1>1, FallbackType
  <2> QED BY <1>4, <2>1
<1>6. \A v \in Workers : CallOK(v)'
  BY <1>1, <1>5 DEF IInv, TypeOK, CallOK
<1> QED BY <1>2, <1>3, <1>6 DEF IInv

\* The last client fails: none would have answered all along.
LEMMA GivesUpStep ==
  ASSUME IInv, NEW w \in Workers, GivesUp(w)
  PROVE  IInv'
<1> USE DEF GivesUp, Return
<1>1. TypeOK'
  BY DEF IInv, TypeOK
<1>2. steady[w] = {}
  <2>1. \A f \in steady[w] : f \in Nat /\ f <= NumFallback /\ f # NumFallback /\ NumFallback <= f
    BY FallbackType DEF IInv, TypeOK, CallOK
  <2> QED BY <2>1, FallbackType
<1>3. AnswersIfAny'
  BY <1>2 DEF IInv, TypeOK, AnswersIfAny
<1>4. \A v \in Workers : CallOK(v)'
  BY DEF IInv, TypeOK, CallOK
<1> QED BY <1>1, <1>3, <1>4 DEF IInv

\* Every step keeps the invariant.
LEMMA NextInv == IInv /\ [Next]_vars => IInv'
<1> SUFFICES ASSUME IInv, [Next]_vars PROVE IInv'
  OBVIOUS
<1>1. CASE UNCHANGED vars
  BY <1>1 DEF vars, callVars, IInv, TypeOK, AnswersIfAny, CallOK
<1> QED
  BY <1>1, FlipStep, ExpireStep, TagsStep, DirectStep, AnswersStep,
     CachedFailsStep, TryFailsStep, GivesUpStep DEF Next

----------------------------------------------------------------------------
(* Theorems *)

\* The variables have their types, and a call that asks a fallback client asks
\* one that exists, although the cache is shared and loses entries.
THEOREM ClientTypes == Spec => []TypeOK
BY InitInv, NextInv, PTL DEF Spec, IInv

\* No lookup fails while one of the fallback clients would have answered all
\* along, whatever the cache said of the host.
THEOREM AnswersAlwaysIfAny == Spec => []AnswersIfAny
BY InitInv, NextInv, PTL DEF Spec, IInv

\* A registry's own client asks for the whole path of the URL, for URLs of any
\* length; for docker and self-hosted registries, of at most two parts.
THEOREM AlwaysAskedDirectly == Spec => []AskedDirectly
<1>1. IInv => AskedDirectly
  <2> SUFFICES ASSUME IInv, NEW w \in Workers, pc[w] = "direct",
                      call[w].client \in {"docker", "selfhosted"} =>
                        Len(pathOf(call[w].url)) <= 2
               PROVE  AsksForPath(call[w])
    BY DEF AskedDirectly
  <2>1. call[w] \in Requests /\ call[w].client # "fallback"
    BY DEF IInv, CallOK
  <2> DEFINE u == call[w].url
  <2>2. u \in URLs /\ call[w] = Request(u)
    BY <2>1, RequestType
  <2>3. /\ call[w].client = fromImageURL(u)
        /\ call[w].repo = RepoImageFromPath(fromImageURL(u), pathOf(u)).repo
        /\ call[w].image = RepoImageFromPath(fromImageURL(u), pathOf(u)).image
    BY <2>2 DEF Request
  <2>4. fromImageURL(u) \in Registries
    BY <2>1, <2>3, ClientType
  <2>5. pathOf(u) \in Seq(STRING) /\ Len(pathOf(u)) > 0
    BY <2>2, PathType
  <2> HIDE DEF u
  <2> QED BY <2>3, <2>4, <2>5, PathKept DEF u, AsksForPath
<1> QED BY <1>1, InitInv, NextInv, PTL DEF Spec
=============================================================================
