-------------------------- MODULE MCOptionsBuilder --------------------------
(* Instances of OptionsBuilder for TLC. *)
EXTENDS OptionsBuilder, TLC

\* Of the strings, only "4" is a number.
MCInteger == [v \in {"4"} |-> 4]

\* Of each annotation, the values that are told apart.
Own ==
  {a @@ b @@ c @@ d :
     a \in [{"enable"} -> {Absent, "true", "false", "4"}],
     b \in [{"use-sha", "resolve-sha-to-tags", "use-metadata"} ->
              {Absent, "true", "false"}],
     c \in [PinKeys \cup {"match-regex"} -> {Absent, "4", "("}],
     d \in [{"override-url"} -> {Absent, "4"}]}

\* The sibling has no annotation, or asks for everything.
Sibling == {[k \in Keys |-> Absent], [k \in Keys |-> IF k \in PinKeys THEN "4" ELSE "true"]}

MCAnnotations ==
  {[c \in Containers |-> IF c = "app" THEN f ELSE g] : f \in Own, g \in Sibling}
=============================================================================
