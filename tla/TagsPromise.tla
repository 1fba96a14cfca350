---------------------------- MODULE TagsPromise ----------------------------
(***************************************************************************)
(* What ImageClient.Tags (pkg/api/types.go) promises to whoever calls it:  *)
(* it returns once, with an error and nothing else, or with every tag of   *)
(* the repository save those that it missed.  It misses a tag, before it   *)
(* returns, for a request that did not succeed, or from the start if it    *)
(* never asks for it.                                                      *)
(***************************************************************************)
CONSTANTS Available  \* the tags of the repository

VARIABLES
  status,    \* "running", "tags" or "error"
  returned,  \* the tags of the list that was returned
  missed     \* tags that will not be in it

vars == <<status, returned, missed>>

Init ==
  /\ status = "running"
  /\ returned = {}
  /\ missed \in SUBSET Available

Miss ==
  /\ status = "running"
  /\ \E T \in SUBSET Available : missed' = missed \cup T
  /\ UNCHANGED <<status, returned>>

Return ==
  /\ status = "running"
  /\ status' = "tags"
  /\ returned' = Available \ missed
  /\ UNCHANGED missed

Fail ==
  /\ status = "running"
  /\ status' = "error"
  /\ returned' = {}
  /\ missed' = {}

Spec == Init /\ [][Miss \/ Return \/ Fail]_vars
=============================================================================
