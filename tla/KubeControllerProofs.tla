------------------------ MODULE KubeControllerProofs ------------------------
(***************************************************************************)
(* Proofs about the check of the cluster's version, for any versions and   *)
(* any number of upgrades, releases and crashes.                           *)
(***************************************************************************)
EXTENDS KubeController, TLAPS

\* What a runner has read was the cluster's version once; what it read of the
\* channel after that was offered while, or after, the cluster had it.  The
\* present pair is one of those seen, and a version never seen is not read.
ReadsSeen ==
  /\ <<Number[server], Number[upstream]>> \in seen
  /\ \A r \in Runners :
       pc[r] \in {"fetch", "register"} =>
         <<Number[current[r]], Number[upstream]>> \in seen
  /\ \A r \in Runners :
       pc[r] = "register" => <<Number[current[r]], Number[latest[r]]>> \in seen

IInv == TypeOK /\ ReadsSeen /\ PairsReal

LEMMA NumberType ==
  /\ \A v \in Versions : Number[v] \in Numbers
  /\ \A n \in Numbers : n \in Nat
  /\ \A r \in Runners : r \in {"start", "scheduler"}
BY VersionsAssumption DEF Numbers, Runners

\* A fresh process reads and reports nothing.
LEMMA RebootType ==
  /\ Boot.manager = "running"
  /\ Boot.pc \in [Runners -> {"version", "select"}]
  /\ Boot.read \in [Runners -> {None}]
  /\ Boot.gauge = [n \in Numbers \X Numbers |-> None]
  /\ \A n \in Numbers \X Numbers : Boot.gauge[n] = None
BY DEF Boot

LEMMA InitInv == Init => IInv
<1> SUFFICES ASSUME Init PROVE IInv
  OBVIOUS
<1> USE DEF Init
<1>1. TypeOK
  BY NumberType, RebootType, VersionsAssumption DEF TypeOK, PCs
<1>2. ReadsSeen /\ PairsReal
  BY RebootType DEF ReadsSeen, PairsReal
<1> QED BY <1>1, <1>2 DEF IInv

LEMMA UpgradeStep ==
  ASSUME IInv, Upgrade
  PROVE  IInv'
<1> USE DEF Upgrade, Change, runVars
<1>1. TypeOK'
  BY NumberType, VersionsAssumption DEF IInv, TypeOK
<1>2. ReadsSeen' /\ PairsReal'
  BY DEF IInv, ReadsSeen, PairsReal
<1> QED BY <1>1, <1>2 DEF IInv

\* A release pairs with every version the cluster had, so with those that a
\* reconcile under way has read.
LEMMA ReleaseStep ==
  ASSUME IInv, Release
  PROVE  IInv'
<1> USE DEF Release, Change, runVars
<1>1. seen \subseteq Numbers \X Numbers /\ Number[upstream'] \in Numbers
  BY NumberType DEF IInv, TypeOK
<1>2. \A p \in seen : p[1] \in Numbers
  BY <1>1
<1>3. seen' \in SUBSET (Numbers \X Numbers)
  BY <1>1, <1>2
<1>4. TypeOK'
  BY <1>3, VersionsAssumption DEF IInv, TypeOK
<1>5. \A n : <<n, Number[upstream]>> \in seen => <<n, Number[upstream']>> \in seen'
  OBVIOUS
<1>6. ReadsSeen' /\ PairsReal'
  BY <1>5 DEF IInv, ReadsSeen, PairsReal
<1> QED BY <1>4, <1>6 DEF IInv

\* A crash and the restart after an error of Start alike.
LEMMA RebootStep ==
  ASSUME IInv, Crash \/ Restart
  PROVE  IInv'
<1>1. /\ Reboot
      /\ UNCHANGED <<server, upstream, seen>>
      /\ \/ changes' = changes
         \/ changes < MaxChanges /\ changes' = changes + 1
  BY DEF Crash, Restart, Change, worldVars
<1>2. TypeOK'
  BY <1>1, RebootType, VersionsAssumption DEF Reboot, IInv, TypeOK, PCs
<1>3. ReadsSeen' /\ PairsReal'
  BY <1>1, RebootType DEF Reboot, IInv, ReadsSeen, PairsReal
<1> QED BY <1>2, <1>3 DEF IInv

\* The scheduler's waiting.
LEMMA SchedulerStep ==
  ASSUME IInv, Tick \/ SchedulerStops
  PROVE  IInv'
<1> USE DEF Tick, SchedulerStops, Goto, worldVars
<1>1. TypeOK'
  BY NumberType DEF IInv, TypeOK, PCs, Runners
<1>2. ReadsSeen' /\ PairsReal'
  BY DEF IInv, TypeOK, ReadsSeen, PairsReal, Runners
<1> QED BY <1>1, <1>2 DEF IInv

LEMMA ErrorStep ==
  ASSUME IInv, NEW r \in Runners, ServerVersionError(r) \/ FetchError(r)
  PROVE  IInv'
<1> USE DEF ServerVersionError, FetchError, Fail, Goto, worldVars
<1>1. TypeOK'
  BY DEF IInv, TypeOK, PCs
<1>2. ReadsSeen' /\ PairsReal'
  BY DEF IInv, TypeOK, ReadsSeen, PairsReal
<1> QED BY <1>1, <1>2 DEF IInv

LEMMA ServerVersionStep ==
  ASSUME IInv, NEW r \in Runners, ServerVersion(r)
  PROVE  IInv'
<1> USE DEF ServerVersion, Goto, worldVars
<1>1. TypeOK'
  BY VersionsAssumption DEF IInv, TypeOK, PCs
<1>2. ReadsSeen' /\ PairsReal'
  BY DEF IInv, TypeOK, ReadsSeen, PairsReal
<1> QED BY <1>1, <1>2 DEF IInv

LEMMA LatestVersionStep ==
  ASSUME IInv, NEW r \in Runners, getLatestVersionFromUpstream(r)
  PROVE  IInv'
<1> USE DEF getLatestVersionFromUpstream, Goto, worldVars
<1>1. TypeOK'
  BY VersionsAssumption DEF IInv, TypeOK, PCs
<1>2. ReadsSeen' /\ PairsReal'
  BY DEF IInv, TypeOK, ReadsSeen, PairsReal
<1> QED BY <1>1, <1>2 DEF IInv

\* The pair that a runner registers is the one that it read.
LEMMA RegisterStep ==
  ASSUME IInv, NEW r \in Runners, RegisterKubeVersion(r)
  PROVE  IInv'
<1> DEFINE p == <<Number[current[r]], Number[latest[r]]>>
           v == ~ (Number[current[r]] < Number[latest[r]])
<1>1. p \in seen /\ p \in Numbers \X Numbers /\ v \in BOOLEAN
  BY DEF RegisterKubeVersion, IInv, TypeOK, ReadsSeen
<1>2. kubernetesVersion' = [kubernetesVersion EXCEPT ![p] = v]
  BY DEF RegisterKubeVersion
<1> HIDE DEF p, v
<1> USE DEF RegisterKubeVersion, Goto, worldVars
<1>3. TypeOK'
  BY <1>1, <1>2 DEF IInv, TypeOK, PCs
<1>4. ReadsSeen'
  BY DEF IInv, TypeOK, ReadsSeen
<1>5. PairsReal'
  BY <1>1, <1>2 DEF IInv, TypeOK, PairsReal
<1> QED BY <1>3, <1>4, <1>5 DEF IInv

\* Every step keeps the invariant.
LEMMA NextInv == IInv /\ [Next]_vars => IInv'
<1> SUFFICES ASSUME IInv, [Next]_vars PROVE IInv'
  OBVIOUS
<1>1. CASE UNCHANGED vars
  BY <1>1 DEF vars, runVars, worldVars, IInv, TypeOK, ReadsSeen, PairsReal
<1>2. CASE \E r \in Runners : reconcile(r)
  BY <1>2, ErrorStep, ServerVersionStep, LatestVersionStep, RegisterStep
     DEF reconcile
<1> QED BY <1>1, <1>2, UpgradeStep, ReleaseStep, RebootStep, SchedulerStep DEF Next

\* The variables have their types, and a runner that registers has read both
\* versions, whenever the process crashes or a request fails.
THEOREM KubeTypes == Spec => []TypeOK
BY InitInv, NextInv, PTL DEF Spec, IInv

\* No pair of versions is made up: the cluster ran the first while, or before,
\* the channel offered the second, however the reconcile of Start and those of
\* the ticker overlap.
THEOREM PairsAlwaysReal == Spec => []PairsReal
BY InitInv, NextInv, PTL DEF Spec, IInv
=============================================================================
