-------------------------- MODULE MCPodController --------------------------
(* Instances of PodController for TLC. *)
EXTENDS PodController, TLC

\* One container.
OneContainer == {[c \in {1} |-> i] : i \in Images}

\* An init container and a container whose image may change.
TwoContainers == {[c \in 1 .. 2 |-> IF c = 1 THEN "app:1" ELSE i] : i \in Images}

MCImageURL == [i \in Images |-> IF i = "app:1" THEN "app" ELSE "lib"]

\* One annotation map for each mode of the first container; the second is
\* enabled.  "override" enables both and overrides their URLs.
MCMode ==
  [a \in Annotations |->
     [c \in Containers |-> IF c = 1 /\ a \in Modes THEN a ELSE "enabled"]]

MCOverrideURL ==
  [a \in Annotations |->
     [c \in Containers |-> IF a = "override" THEN "mirror" ELSE Absent]]
=============================================================================
