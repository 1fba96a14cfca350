----------------------------- MODULE Selection -----------------------------
(***************************************************************************)
(* Which of the tags that a registry returned is "the latest": the loops   *)
(* of latestSemver and latestSHA (pkg/version/helpers.go), the filters     *)
(* (filters.go) and the order on tags (pkg/version/semver).                *)
(*                                                                         *)
(* A tag's name is what the registry calls it.  Parse is the table of what *)
(* semver.Parse makes of each name: three numbers, and the rest cut into   *)
(* words, a run of digits or a run of other characters.  A word of digits  *)
(* has the number it spells as its value, another word its rank among      *)
(* words in ASCII order.  Several names may parse to the same numbers      *)
(* ("1.2", "1.2.0", "v1.2.0").                                             *)
(***************************************************************************)
EXTENDS Integers, Sequences

CONSTANTS
  Names,       \* tag names
  Parse,       \* Parse[n]: [numbers, metadata] of a name
  Empty,       \* the empty name
  Signatures,  \* names that end in .att, .sig or .sbom
  Timestamps,  \* when an image may have been created
  Lists,       \* what the registry may return: sequences of [name, timestamp]
  Options,     \* [useSHA, useMetaData, regex, pinMajor, pinMinor, pinPatch]
  None         \* a regex or pin that is not set

Word == [digits : BOOLEAN, value : Nat]

\* regex is the set of names that the expression matches.
OptionRecord ==
  [useSHA : BOOLEAN, useMetaData : BOOLEAN, regex : SUBSET Names \cup {None},
   pinMajor : Nat \cup {None}, pinMinor : Nat \cup {None},
   pinPatch : Nat \cup {None}]

ImageTag == [name : Names, timestamp : Timestamps]

ASSUME SelectionAssumption ==
  /\ Parse \in [Names -> [numbers : Nat \X Nat \X Nat, metadata : Seq(Word)]]
  /\ Signatures \subseteq Names
  /\ Timestamps \subseteq Nat
  /\ Lists \subseteq Seq(ImageTag)
  /\ Options \subseteq OptionRecord

VARIABLES
  opts,    \* the options of this search
  tags,    \* what the registry returned, in its order
  i,       \* the loop's position in tags
  latest,  \* index of the latest tag so far, 0 if there is none
  pc       \* "loop" or "done"

vars == <<opts, tags, i, latest, pc>>

----------------------------------------------------------------------------
(* The order on tags *)

HasMetaData(n) == Parse[n].metadata # <<>>

compareVersionNumbers(m, n) ==
  LET a == Parse[m].numbers
      b == Parse[n].numbers
  IN  \/ a[1] < b[1]
      \/ a[1] = b[1] /\ a[2] < b[2]
      \/ a[1] = b[1] /\ a[2] = b[2] /\ a[3] < b[3]

\* Words of different kinds count as equal.
wordEqual(v, w) == v.digits # w.digits \/ v.value = w.value

\* At the first position where the words differ or one side has none left:
\* the side with none left is the greater one.
comparePreReleaseMetadata(m, n) ==
  LET a == Parse[m].metadata
      b == Parse[n].metadata
  IN  \E k \in DOMAIN a :
        /\ k <= Len(b) + 1
        /\ \A j \in 1 .. k - 1 : wordEqual(a[j], b[j])
        /\ \/ k = Len(b) + 1
           \/ k \in DOMAIN b /\ ~ wordEqual(a[k], b[k]) /\ a[k].value < b[k].value

\* Mutant: plain versions and pre-releases are not told apart.
LessThan_NoStable(m, n) ==
  IF m = Empty \/ n = Empty
  THEN m = Empty /\ n # Empty
  ELSE compareVersionNumbers(m, n) \/ comparePreReleaseMetadata(m, n)

\* An empty name is compared by length only.  A name with metadata is less
\* than any without, whatever the numbers; else the numbers decide, and if
\* they do not say "less", the metadata.
LessThan(m, n) ==
  IF m = Empty \/ n = Empty
  THEN m = Empty /\ n # Empty
  ELSE \/ HasMetaData(m) /\ ~ HasMetaData(n)
       \/ /\ HasMetaData(m) <=> HasMetaData(n)
          /\ compareVersionNumbers(m, n) \/ comparePreReleaseMetadata(m, n)

Equal(m, n) == m = n

----------------------------------------------------------------------------
(* The filters *)

isSBOMAttestationOrSig(n) == n \in Signatures

\* A regex makes the other options irrelevant.
shouldSkipTag(n) ==
  \/ isSBOMAttestationOrSig(n)
  \/ IF opts.regex # None
     THEN n \notin opts.regex
     ELSE \/ ~ opts.useMetaData /\ HasMetaData(n)
          \/ opts.pinMajor # None /\ opts.pinMajor # Parse[n].numbers[1]
          \/ opts.pinMinor # None /\ opts.pinMinor # Parse[n].numbers[2]
          \/ opts.pinPatch # None /\ opts.pinPatch # Parse[n].numbers[3]

shouldSkipSHA(n) ==
  \/ isSBOMAttestationOrSig(n)
  \/ opts.regex # None /\ n \notin opts.regex

shouldSkip(n) == IF opts.useSHA THEN shouldSkipSHA(n) ELSE shouldSkipTag(n)

isBetterSemVer(old, new) ==
  \/ LessThan(old.name, new.name)
  \/ Equal(old.name, new.name) /\ new.timestamp > old.timestamp

\* Mutant: of equally young tags the last one wins.
isBetter_NotBefore ==
  IF latest = 0 THEN TRUE
  ELSE IF opts.useSHA THEN tags[i].timestamp >= tags[latest].timestamp
  ELSE isBetterSemVer(tags[latest], tags[i])

\* The tag at the loop's position replaces the latest so far.
isBetter ==
  IF latest = 0 THEN TRUE
  ELSE IF opts.useSHA THEN tags[i].timestamp > tags[latest].timestamp
  ELSE isBetterSemVer(tags[latest], tags[i])

----------------------------------------------------------------------------
(* The loop *)

Init ==
  /\ opts \in Options
  /\ tags \in Lists
  /\ i = 1
  /\ latest = 0
  /\ pc = "loop"

SkipTag ==
  /\ pc = "loop"
  /\ i <= Len(tags)
  /\ shouldSkip(tags[i].name)
  /\ i' = i + 1
  /\ UNCHANGED <<opts, tags, latest, pc>>

\* Mutant: the address of the loop variable is kept, not the element's.
TakeTag_Next ==
  /\ pc = "loop"
  /\ i <= Len(tags)
  /\ ~ shouldSkip(tags[i].name)
  /\ isBetter
  /\ latest' = i + 1
  /\ i' = i + 1
  /\ UNCHANGED <<opts, tags, pc>>

\* Mutant: the filter is not consulted.
TakeTag_Unfiltered ==
  /\ pc = "loop"
  /\ i <= Len(tags)
  /\ isBetter
  /\ latest' = i
  /\ i' = i + 1
  /\ UNCHANGED <<opts, tags, pc>>

TakeTag ==
  /\ pc = "loop"
  /\ i <= Len(tags)
  /\ ~ shouldSkip(tags[i].name)
  /\ isBetter
  /\ latest' = i
  /\ i' = i + 1
  /\ UNCHANGED <<opts, tags, pc>>

PassTag ==
  /\ pc = "loop"
  /\ i <= Len(tags)
  /\ ~ shouldSkip(tags[i].name)
  /\ ~ isBetter
  /\ i' = i + 1
  /\ UNCHANGED <<opts, tags, latest, pc>>

\* Without a latest tag the result is an error: no suitable version found.
Return ==
  /\ pc = "loop"
  /\ i > Len(tags)
  /\ pc' = "done"
  /\ UNCHANGED <<opts, tags, i, latest>>

Next == SkipTag \/ TakeTag \/ PassTag \/ Return

Spec == Init /\ [][Next]_vars

----------------------------------------------------------------------------
(* What the result is *)

\* The variables have their types; the latest tag is one already visited.
TypeOK ==
  /\ opts \in Options
  /\ tags \in Lists
  /\ i \in 1 .. Len(tags) + 1
  /\ latest \in 0 .. Len(tags)
  /\ latest < i
  /\ pc \in {"loop", "done"}

\* The tags visited so far that the options allow.
Allowed == {j \in 1 .. i - 1 : ~ shouldSkip(tags[j].name)}

\* A plain version: a name without anything after the numbers.
Stable(n) == n # Empty /\ ~ HasMetaData(n)

\* The result is an allowed tag, and there is one as soon as a tag is
\* allowed: the comparison with the empty start value, and names that parse
\* to nothing, never lose the only candidate or let a skipped one in.
FoundIfAny ==
  IF Allowed = {} THEN latest = 0 ELSE latest \in Allowed

\* If any allowed tag is a plain version, the result is one, and no allowed
\* plain version has greater numbers: whatever the order of the list, and
\* whatever pre-releases came before.
StableWins ==
  ~ opts.useSHA =>
    \A j \in Allowed :
      Stable(tags[j].name) =>
        /\ latest # 0
        /\ Stable(tags[latest].name)
        /\ ~ compareVersionNumbers(tags[latest].name, tags[j].name)

\* By SHA, the result is the youngest allowed tag, the first of them if
\* there are several.
YoungestWins ==
  opts.useSHA =>
    \A j \in Allowed :
      /\ latest # 0
      /\ \/ tags[j].timestamp < tags[latest].timestamp
         \/ tags[j].timestamp = tags[latest].timestamp /\ latest <= j
=============================================================================
