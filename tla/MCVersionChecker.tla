-------------------------- MODULE MCVersionChecker --------------------------
(* Instances of VersionChecker for TLC. *)
EXTENDS VersionChecker

\* A pod has one container or two.
OneOrTwo == {[c \in 1 .. n |-> "app:1.1"] : n \in 1 .. 2}
MCMode == [a \in Annotations |-> [c \in Containers |-> "enabled"]]
MCOverrideURL ==
  [a \in Annotations |->
     [c \in Containers |-> IF a = "override" THEN "mirror" ELSE Absent]]
MCImageURL == [i \in Images |-> "app"]
MCReference == [i \in Images |-> [tag |-> "1.1", sha |-> "", statusSHA |-> "a"]]

O(bySHA, major) == [useSHA |-> bySHA, pinMajor |-> major, resolve |-> FALSE]
MCOptions == {O(bySHA, major) : bySHA \in BOOLEAN, major \in {1, Absent}}

\* The containers have the same image and different options: the first takes
\* any version, the second one below 2.
MCOptionsOf ==
  [a \in Annotations |->
     [c \in Containers |->
        IF c = 1 THEN O(FALSE, Absent) ELSE O(FALSE, 1)]]

MCVersion ==
  [n \in Names |-> CASE n = "1.0" -> 10 [] n = "1.1" -> 11
                     [] n = "2.0" -> 20 [] n = "3.0" -> 30]

T(name, sha) == [name |-> name, sha |-> sha, children |-> {},
                 timestamp |-> MCVersion[name], marked |-> FALSE]

\* 1.1 was pushed again, or is what it was and below a new version; the mirror
\* does not change.
Repushed == <<T("1.1", "b"), T("1.0", "a")>>
NewVersion == <<T("2.0", "c"), T("1.1", "a")>>
MCTagLists ==
  [u \in URLs |-> IF u = "app" THEN {Repushed, NewVersion}
                  ELSE {<<T("3.0", "d"), T("1.1", "a")>>}]

MCVersions ==
  [current : Names \cup {""}, latest : Names \cup {""}, isLatest : BOOLEAN]

\* One container is checked for its own URL or the mirror; its pod changes or the
\* process restarts, or lookups fail.  Two share one URL, run from the start and
\* have none of these.  No pod is being deleted.
Bounded ==
  \A p \in Pods : \A rec \in {api[p], podCache[p]} \ {Absent} :
    /\ ~ rec.deleting
    /\ containerImageErrors # {} => changes = 0
    /\ DOMAIN rec.spec = {1, 2} =>
         /\ rec.status = {1, 2}
         /\ rec.annotations # "override"
         /\ changes = 0
         /\ containerImageErrors = {}
=============================================================================
