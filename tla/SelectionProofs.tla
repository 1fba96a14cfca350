-------------------------- MODULE SelectionProofs --------------------------
(***************************************************************************)
(* What the loops of latestSemver and latestSHA return, for lists of any   *)
(* length, any tags and any options.                                       *)
(***************************************************************************)
EXTENDS Selection, TLAPS

\* A name parses to three numbers.
LEMMA ParseNumbers ==
  ASSUME NEW n \in Names
  PROVE  /\ Parse[n].numbers[1] \in Nat
         /\ Parse[n].numbers[2] \in Nat
         /\ Parse[n].numbers[3] \in Nat
<1>1. Parse[n].numbers \in Nat \X Nat \X Nat
  BY SelectionAssumption
<1> QED BY <1>1

\* compareVersionNumbers is a strict order: irreflexive and transitive.
LEMMA NumbersOrder ==
  ASSUME NEW m \in Names, NEW n \in Names, NEW o \in Names
  PROVE  /\ ~ compareVersionNumbers(m, m)
         /\ compareVersionNumbers(m, n) /\ compareVersionNumbers(n, o)
              => compareVersionNumbers(m, o)
BY ParseNumbers DEF compareVersionNumbers

\* What makes a tag less than another, if the first is a plain version: the
\* other is a plain version with greater numbers.
LEMMA StableLessThan ==
  ASSUME NEW m \in Names, NEW n \in Names, Stable(m), LessThan(m, n)
  PROVE  Stable(n) /\ compareVersionNumbers(m, n)
<1>1. n # Empty /\ ~ HasMetaData(n)
  BY DEF Stable, LessThan
<1>2. ~ comparePreReleaseMetadata(m, n)
  BY DEF Stable, HasMetaData, comparePreReleaseMetadata
<1> QED BY <1>1, <1>2 DEF Stable, LessThan

\* What is not less than a plain version is a plain version, and its numbers
\* are not less.
LEMMA NotLessThanStable ==
  ASSUME NEW m \in Names, NEW n \in Names, Stable(n), ~ LessThan(m, n)
  PROVE  Stable(m) /\ ~ compareVersionNumbers(m, n)
BY DEF Stable, LessThan

----------------------------------------------------------------------------
\* The loop invariant: after each iteration the result is right for the tags
\* visited so far.
LoopInv == TypeOK /\ FoundIfAny /\ StableWins /\ YoungestWins

\* The elements of the list are tags.
LEMMA TagTypes ==
  ASSUME TypeOK, NEW j \in 1 .. Len(tags)
  PROVE  tags[j].name \in Names /\ tags[j].timestamp \in Nat
<1>1. tags \in Seq(ImageTag)
  BY SelectionAssumption DEF TypeOK
<1>2. tags[j] \in ImageTag
  BY <1>1
<1> QED BY <1>2, SelectionAssumption DEF ImageTag

\* A skipped tag changes nothing.
LEMMA SkipStep ==
  ASSUME LoopInv, SkipTag
  PROVE  LoopInv'
<1> USE DEF LoopInv
<1>0. Len(tags) \in Nat
  BY SelectionAssumption DEF TypeOK
<1>1. TypeOK'
  BY <1>0 DEF TypeOK, SkipTag
<1>2. Allowed' = Allowed
  <2>1. \A j : shouldSkip(tags[j].name)' = shouldSkip(tags[j].name)
    BY DEF SkipTag, shouldSkip, shouldSkipSHA, shouldSkipTag
  <2> QED BY <1>0, <2>1 DEF TypeOK, SkipTag, Allowed
<1>3. UNCHANGED <<opts, tags, latest>>
  BY DEF SkipTag
<1>4. FoundIfAny'
  BY <1>2, <1>3 DEF FoundIfAny
<1>5. StableWins'
  BY <1>2, <1>3 DEF StableWins
<1>6. YoungestWins'
  BY <1>2, <1>3 DEF YoungestWins
<1> QED BY <1>1, <1>4, <1>5, <1>6

\* An allowed tag joins the tags visited.
LEMMA AllowedStep ==
  ASSUME TypeOK, TakeTag \/ PassTag
  PROVE  Allowed' = Allowed \cup {i} /\ TypeOK' /\ i \in 1 .. Len(tags)
<1>0. Len(tags) \in Nat
  BY SelectionAssumption DEF TypeOK
<1>1. \A j : shouldSkip(tags[j].name)' = shouldSkip(tags[j].name)
  BY DEF TakeTag, PassTag, shouldSkip, shouldSkipSHA, shouldSkipTag
<1>2. Allowed' = Allowed \cup {i}
  BY <1>0, <1>1 DEF TypeOK, TakeTag, PassTag, Allowed
<1>3. TypeOK' /\ i \in 1 .. Len(tags)
  BY <1>0 DEF TypeOK, TakeTag, PassTag
<1> QED BY <1>2, <1>3

\* Taking a better tag keeps the result right.
LEMMA TakeStep ==
  ASSUME LoopInv, TakeTag
  PROVE  LoopInv'
<1> USE DEF LoopInv
<1>1. /\ Allowed' = Allowed \cup {i} /\ TypeOK' /\ i \in 1 .. Len(tags)
      /\ latest' = i /\ UNCHANGED <<opts, tags>>
  BY AllowedStep DEF TakeTag
<1>2. FoundIfAny'
  BY <1>1 DEF FoundIfAny
<1>3. latest = 0 => Allowed = {}
  BY DEF FoundIfAny, Allowed
<1>4. latest # 0 => latest \in 1 .. Len(tags) /\ latest < i
  BY DEF TypeOK
<1>5. StableWins'
  <2> SUFFICES ASSUME ~ opts.useSHA, NEW j \in Allowed \cup {i},
                      Stable(tags[j].name)
               PROVE  /\ Stable(tags[i].name)
                      /\ ~ compareVersionNumbers(tags[i].name, tags[j].name)
    BY <1>1 DEF StableWins, TypeOK
  <2>1. tags[i].name \in Names
    BY <1>1, TagTypes
  <2>2. CASE j = i
    BY <2>1, <2>2, NumbersOrder
  <2>3. CASE j \in Allowed
    <3>1. /\ latest \in 1 .. Len(tags)
          /\ Stable(tags[latest].name)
          /\ ~ compareVersionNumbers(tags[latest].name, tags[j].name)
      BY <1>3, <1>4, <2>3 DEF StableWins
    <3>2. tags[latest].name \in Names /\ tags[j].name \in Names
      BY <1>1, <2>3, <3>1, TagTypes DEF Allowed, TypeOK
    <3>3. CASE LessThan(tags[latest].name, tags[i].name)
      BY <2>1, <3>1, <3>2, <3>3, StableLessThan, NumbersOrder
    <3>4. CASE tags[latest].name = tags[i].name
      BY <3>1, <3>4
    <3> QED BY <3>1, <3>3, <3>4 DEF TakeTag, isBetter, isBetterSemVer, Equal
  <2> QED BY <2>2, <2>3
<1>6. YoungestWins'
  <2> SUFFICES ASSUME opts.useSHA, NEW j \in Allowed \cup {i}
               PROVE  \/ tags[j].timestamp < tags[i].timestamp
                      \/ tags[j].timestamp = tags[i].timestamp /\ i <= j
    BY <1>1 DEF YoungestWins, TypeOK
  <2>1. CASE j = i
    BY <1>1, <2>1
  <2>2. CASE j \in Allowed
    <3>1. /\ latest \in 1 .. Len(tags)
          /\ tags[j].timestamp <= tags[latest].timestamp
          /\ tags[i].timestamp > tags[latest].timestamp
      BY <1>1, <1>3, <1>4, <2>2, TagTypes
      DEF YoungestWins, TakeTag, isBetter, Allowed, TypeOK
    <3>2. /\ tags[j].timestamp \in Nat /\ tags[latest].timestamp \in Nat
          /\ tags[i].timestamp \in Nat
      BY <1>1, <2>2, <3>1, TagTypes DEF Allowed, TypeOK
    <3> QED BY <3>1, <3>2
  <2> QED BY <2>1, <2>2
<1> QED BY <1>1, <1>2, <1>5, <1>6

\* Passing over a tag that is not better keeps the result right.
LEMMA PassStep ==
  ASSUME LoopInv, PassTag
  PROVE  LoopInv'
<1> USE DEF LoopInv
<1>1. /\ Allowed' = Allowed \cup {i} /\ TypeOK' /\ i \in 1 .. Len(tags)
      /\ UNCHANGED <<opts, tags, latest>>
  BY AllowedStep DEF PassTag
<1>2. latest # 0 /\ latest \in 1 .. Len(tags) /\ latest < i
  BY DEF PassTag, isBetter, TypeOK
<1>3. latest \in Allowed
  BY <1>2 DEF FoundIfAny, Allowed
<1>4. FoundIfAny'
  BY <1>1, <1>3 DEF FoundIfAny
<1>5. tags[i].name \in Names /\ tags[latest].name \in Names
  BY <1>1, <1>2, TagTypes
<1>6. StableWins'
  <2> SUFFICES ASSUME ~ opts.useSHA, Stable(tags[i].name)
               PROVE  /\ Stable(tags[latest].name)
                      /\ ~ compareVersionNumbers(tags[latest].name, tags[i].name)
    BY <1>1, <1>2 DEF StableWins
  <2>1. ~ LessThan(tags[latest].name, tags[i].name)
    BY <1>2 DEF PassTag, isBetter, isBetterSemVer
  <2> QED BY <1>5, <2>1, NotLessThanStable
<1>7. YoungestWins'
  <2>1. opts.useSHA => ~ (tags[i].timestamp > tags[latest].timestamp)
    BY <1>2 DEF PassTag, isBetter
  <2>2. tags[i].timestamp \in Nat /\ tags[latest].timestamp \in Nat
    BY <1>1, <1>2, TagTypes
  <2> QED BY <1>1, <1>2, <2>1, <2>2 DEF YoungestWins, TypeOK
<1> QED BY <1>1, <1>4, <1>6, <1>7

\* The invariant holds before the first tag.
LEMMA LoopInit ==
  ASSUME Init
  PROVE  LoopInv
<1>1. Len(tags) \in Nat
  BY SelectionAssumption DEF Init
<1>2. Allowed = {}
  BY DEF Init, Allowed
<1> QED BY <1>1, <1>2 DEF Init, LoopInv, TypeOK, FoundIfAny, StableWins, YoungestWins

\* Every step keeps the invariant.
LEMMA LoopNext ==
  ASSUME LoopInv, [Next]_vars
  PROVE  LoopInv'
<1>1. CASE Return \/ UNCHANGED vars
  BY <1>1 DEF Return, vars, LoopInv, TypeOK, FoundIfAny, StableWins, YoungestWins,
              Allowed, shouldSkip, shouldSkipSHA, shouldSkipTag
<1> QED BY <1>1, SkipStep, TakeStep, PassStep DEF Next

\* In every state of the loop the result is right for the tags visited so far.
THEOREM LoopAlwaysRight == Spec => []LoopInv
BY LoopInit, LoopNext, PTL DEF Spec

\* The index and the result stay within the list, for every list.
THEOREM SelectionTypes == Spec => []TypeOK
BY LoopAlwaysRight, PTL DEF LoopInv

\* Whatever the list and the options, a tag is returned if, and only if, one
\* that the options allow has been seen: shouldSkipTag is the only reason to
\* find nothing.
THEOREM AllowedAlwaysFound == Spec => []FoundIfAny
BY LoopAlwaysRight, PTL DEF LoopInv

\* For every list, of any length and in any order: if the options allow a
\* plain version, latestSemver returns a plain version with the greatest
\* numbers, although its comparison is no total order of tags.
THEOREM StableAlwaysWins == Spec => []StableWins
BY LoopAlwaysRight, PTL DEF LoopInv

\* For every list latestSHA returns the first of the youngest allowed tags.
THEOREM YoungestAlwaysWins == Spec => []YoungestWins
BY LoopAlwaysRight, PTL DEF LoopInv
=============================================================================
