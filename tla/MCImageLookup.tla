--------------------------- MODULE MCImageLookup ---------------------------
(* Instances of ImageLookup for TLC. *)
EXTENDS ImageLookup, TLC

O(bySHA, major, resolve) ==
  [useSHA |-> bySHA, pinMajor |-> major, resolve |-> resolve]

Semver == O(FALSE, None, FALSE)
PinnedTo1 == O(FALSE, 1, FALSE)
BySHA  == O(TRUE, None, FALSE)
Resolve == O(FALSE, None, TRUE)

MCOptions == {Semver, PinnedTo1, BySHA, Resolve} \cup
             {O(TRUE, 1, FALSE), O(TRUE, None, TRUE)}
MCKeys == URLs \X Options
MCHashIndex == [x \in URLs \X Options |-> x]
MCVersion == [n \in Names |-> CASE n \in {"1.1", "v1.1"} -> 11
                                [] n = "1.0" -> 10
                                [] n = "2.0" -> 20
                                [] n = "latest" -> 0]

T(name, sha, time) ==
  [name |-> name, sha |-> sha, children |-> {}, timestamp |-> time,
   marked |-> FALSE]

\* A tag whose platforms' digests alone are known.
Index(name, children, time) ==
  [T(name, "", time) EXCEPT !.children = children]

\* Version 1.1; 1.1 pushed again under two names, and 2.0 at the same time.
NewVersion == {<<T("1.1", "a", 1)>>,
               <<Index("1.1", {"b"}, 3), T("v1.1", "b", 3), T("2.0", "c", 3)>>}

\* Version 1.1, and the same pushed again, next to 1.0.
TwoPushes == {<<T("1.1", "a", 1)>>, <<T("1.1", "b", 2), T("1.0", "a", 1)>>}

\* The registry of u changes, that of v does not.
Changing(lists) ==
  [u \in URLs |-> IF u = "u" THEN lists ELSE {<<T("1.1", "b", 2)>>}]
MCTagLists == Changing(NewVersion)
RepushedTagLists == Changing(TwoPushes)

\* An image whose reference has a tag, or a digest, alone.
Img(u, o, tag, statusSHA) ==
  [url |-> u, opts |-> o, tag |-> tag, sha |-> "", statusSHA |-> statusSHA]
ByDigest(u, o, sha) == [Img(u, o, "", sha) EXCEPT !.sha = sha]

\* Containers that share a URL, with other options; a digest and a tag that are
\* to be resolved; two URLs.
Shared(o, sha) == {Img("u", Semver, "1.1", "a"), Img("u", o, "1.1", sha)}
Resolved == {ByDigest("u", Resolve, "b"), Img("u", Semver, "1.1", "a")}
Tagged == {Img("u", Resolve, "1.1", "a")}
TwoURLs == {Img("u", Semver, "1.1", "a"), Img("v", Semver, "1.1", "b")}
MCDeployments ==
  {Shared(PinnedTo1, "a"), Shared(BySHA, "b"), Resolved, Tagged, TwoURLs}

TwoVersions ==
  {{Img("u", Semver, "1.1", "a"), Img("u", Semver, "1.0", "a")}}

MCImages == UNION (MCDeployments \cup TwoVersions)

Perms == Permutations(Workers)
=============================================================================
