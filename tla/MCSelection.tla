---------------------------- MODULE MCSelection ----------------------------
(* Instances of Selection for TLC. *)
EXTENDS Selection, TLC

\* Words: "-alpha." < "-beta." < "-rc"; numbers stand for themselves.
Letters(r) == [digits |-> FALSE, value |-> r]
Number(v) == [digits |-> TRUE, value |-> v]
P(a, b, c, words) == [numbers |-> <<a, b, c>>, metadata |-> words]

MCParse ==
  [n \in Names |->
     CASE n = ""              -> P(0, 0, 0, <<>>)
       [] n = "1.1.0"         -> P(1, 1, 0, <<>>)
       [] n = "v1.1"          -> P(1, 1, 0, <<>>)
       [] n = "1.2.0"         -> P(1, 2, 0, <<>>)
       [] n = "2.0.3"         -> P(2, 0, 3, <<>>)
       [] n = "1.2.0-alpha.1" -> P(1, 2, 0, <<Letters(1), Number(1)>>)
       [] n = "1.1.0-beta.1"  -> P(1, 1, 0, <<Letters(2), Number(1)>>)
       [] n = "2.0.3-rc"      -> P(2, 0, 3, <<Letters(3)>>)
       [] n = "2.0.3.sig"     -> P(2, 0, 3, <<Letters(4)>>)]

UpTo(n) == UNION {[1 .. m -> ImageTag] : m \in 0 .. n}
ListsOf3 == UpTo(3)

Opt(sha, meta, regex, major, minor, patch) ==
  [useSHA |-> sha, useMetaData |-> meta, regex |-> regex, pinMajor |-> major,
   pinMinor |-> minor, pinPatch |-> patch]

AnyTag  == Opt(FALSE, FALSE, None, None, None, None)
AnyMeta == Opt(FALSE, TRUE, None, None, None, None)

MCOptions ==
  {AnyTag, AnyMeta,
   Opt(TRUE, FALSE, None, None, None, None),
   Opt(FALSE, FALSE, {"1.1.0", "1.2.0-alpha.1", "2.0.3-rc"}, 2, None, None),
   Opt(TRUE, FALSE, {"1.1.0", "v1.1", "2.0.3.sig"}, None, None, None),
   Opt(FALSE, TRUE, None, 1, None, None),
   Opt(FALSE, FALSE, None, 1, 2, None),
   Opt(FALSE, TRUE, None, 2, 0, 3)}
=============================================================================
