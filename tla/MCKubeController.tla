-------------------------- MODULE MCKubeController --------------------------
(* Instances of KubeController for TLC. *)
EXTENDS KubeController

\* A vendor's build of 1.29.1 has the rank of 1.29.1.
MCNumber ==
  [v \in Versions |->
     CASE v = "v1.28.2" -> 1
       [] v \in {"v1.29.1", "v1.29.1-gke.5"} -> 2
       [] OTHER -> 3]
=============================================================================
