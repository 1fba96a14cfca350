--------------------------- MODULE KubeController ---------------------------
(***************************************************************************)
(* The check of the cluster's own version (pkg/controller/kube_controller  *)
(* .go) and the gauge it writes (pkg/metrics/kubernetes.go).               *)
(*                                                                         *)
(* Start launches the scheduler's goroutine and then runs one reconcile    *)
(* itself, so two reconciliations may be under way at once; each reads the *)
(* cluster's version, then the channel's, then registers the pair.  Start  *)
(* returning an error stops the manager, hence the process; the kubelet    *)
(* starts it again with empty metrics.                                     *)
(*                                                                         *)
(* Versions are what the API server and the channel's file say; Number is  *)
(* their rank once everything after the three numbers is cut off.  The     *)
(* interval of the ticker is left out: a tick may come at any time.        *)
(***************************************************************************)
EXTENDS Integers

CONSTANTS
  Versions,       \* versions of clusters and channels
  Number,         \* Number[v]: rank of Major.Minor.Patch
  channel,        \* the configured channel
  ValidChannels,  \* stable, latest, latest-1.x, stable-1.x
  None,           \* no version read, no series
  MaxChanges      \* bound: upgrades, releases and crashes

ASSUME VersionsAssumption ==
  /\ Number \in [Versions -> Nat]
  /\ None \notin Versions
  /\ None \notin BOOLEAN
  /\ MaxChanges \in Nat

Runners == {"start", "scheduler"}
Numbers == {Number[v] : v \in Versions}

VARIABLES
  server,    \* the cluster's version
  upstream,  \* the version in the channel's file
  manager,   \* "running", or "stopping" once Start returned an error
  pc,        \* where each runner stands
  current,   \* the cluster version its reconcile read
  latest,    \* the channel version its reconcile read
  kubernetesVersion,  \* the gauge, by <<current_version, latest_version>>
  changes,   \* number of changes so far
  seen       \* history: cluster versions so far, with later channel versions

runVars == <<pc, current, latest>>
worldVars == <<server, upstream, changes, seen>>
vars == <<runVars, worldVars, manager, kubernetesVersion>>

PCs == {"select", "version", "fetch", "register", "done"}

\* A fresh process: the scheduler waits for its ticker, Start reconciles.
Boot ==
  [manager |-> "running",
   pc |-> [r \in Runners |-> IF r = "start" THEN "version" ELSE "select"],
   read |-> [r \in Runners |-> None],
   gauge |-> [n \in Numbers \X Numbers |-> None]]

Init ==
  /\ server \in Versions
  /\ upstream \in Versions
  /\ changes = 0
  /\ seen = {<<Number[server], Number[upstream]>>}
  /\ manager = Boot.manager
  /\ pc = Boot.pc
  /\ current = Boot.read
  /\ latest = Boot.read
  /\ kubernetesVersion = Boot.gauge

----------------------------------------------------------------------------
(* The cluster, the release channel and the kubelet (external) *)

Change == changes < MaxChanges /\ changes' = changes + 1

Upgrade ==
  /\ Change
  /\ server' \in Versions
  /\ Number[server'] > Number[server]
  /\ seen' = seen \cup {<<Number[server'], Number[upstream]>>}
  /\ UNCHANGED <<runVars, upstream, manager, kubernetesVersion>>

\* Every version the cluster had so far precedes the new release.
Release ==
  /\ Change
  /\ upstream' \in Versions
  /\ Number[upstream'] > Number[upstream]
  /\ seen' = seen \cup {<<p[1], Number[upstream']>> : p \in seen}
  /\ UNCHANGED <<runVars, server, manager, kubernetesVersion>>

Reboot ==
  /\ manager' = Boot.manager
  /\ pc' = Boot.pc
  /\ current' = Boot.read
  /\ latest' = Boot.read
  /\ kubernetesVersion' = Boot.gauge

Crash == Change /\ Reboot /\ UNCHANGED <<server, upstream, seen>>

\* The manager has returned Start's error: the process ends, in the middle
\* of a scheduled reconcile perhaps, and is started again.
Restart == manager = "stopping" /\ Reboot /\ UNCHANGED worldVars

----------------------------------------------------------------------------
(* The scheduler and reconcile *)

Goto(r, l) == pc' = [pc EXCEPT ![r] = l]

Tick ==
  /\ pc["scheduler"] = "select"
  /\ Goto("scheduler", "version")
  /\ UNCHANGED <<worldVars, current, latest, manager, kubernetesVersion>>

\* ctx.Done: the manager cancels the context when it stops.
SchedulerStops ==
  /\ pc["scheduler"] = "select"
  /\ manager = "stopping"
  /\ Goto("scheduler", "done")
  /\ UNCHANGED <<worldVars, current, latest, manager, kubernetesVersion>>

\* Mutant: the scheduler returns on the first error.
Fail_Stops(r) ==
  /\ Goto(r, "done")
  /\ manager' = IF r = "start" THEN "stopping" ELSE manager

\* reconcile returns an error: Start passes it on, the scheduler logs it.
Fail(r) ==
  /\ Goto(r, IF r = "start" THEN "done" ELSE "select")
  /\ manager' = IF r = "start" THEN "stopping" ELSE manager

ServerVersion(r) ==
  /\ pc[r] = "version"
  /\ Goto(r, "fetch")
  /\ current' = [current EXCEPT ![r] = server]
  /\ UNCHANGED <<worldVars, latest, manager, kubernetesVersion>>

ServerVersionError(r) ==
  /\ pc[r] = "version"
  /\ Fail(r)
  /\ UNCHANGED <<worldVars, current, latest, kubernetesVersion>>

isValidKubernetesChannel == channel \in ValidChannels

getLatestVersionFromUpstream(r) ==
  /\ pc[r] = "fetch"
  /\ isValidKubernetesChannel
  /\ Goto(r, "register")
  /\ latest' = [latest EXCEPT ![r] = upstream]
  /\ UNCHANGED <<worldVars, current, manager, kubernetesVersion>>

\* Mutant: the error of the lookup is not looked at.
FetchError_Ignored(r) ==
  /\ pc[r] = "fetch"
  /\ Goto(r, "register")
  /\ UNCHANGED <<worldVars, current, latest, manager, kubernetesVersion>>

\* An unsupported channel, no response, a bad status or content type, an
\* empty body.
FetchError(r) ==
  /\ pc[r] = "fetch"
  /\ Fail(r)
  /\ UNCHANGED <<worldVars, current, latest, kubernetesVersion>>

\* Mutant: what reconcile read is kept in the scheduler, not in variables of
\* its own.
RegisterKubeVersion_Shared(r) ==
  /\ pc[r] = "register"
  /\ \E q \in Runners :
       /\ current[q] # None
       /\ LET c == Number[current[q]]
              l == Number[latest[r]]
          IN  kubernetesVersion' = [kubernetesVersion EXCEPT ![<<c, l>>] = ~ (c < l)]
  /\ Goto(r, IF r = "start" THEN "done" ELSE "select")
  /\ UNCHANGED <<worldVars, current, latest, manager>>

RegisterKubeVersion(r) ==
  /\ pc[r] = "register"
  /\ LET c == Number[current[r]]
         l == Number[latest[r]]
     IN  kubernetesVersion' = [kubernetesVersion EXCEPT ![<<c, l>>] = ~ (c < l)]
  /\ Goto(r, IF r = "start" THEN "done" ELSE "select")
  /\ UNCHANGED <<worldVars, current, latest, manager>>

reconcile(r) ==
  \/ ServerVersion(r)
  \/ ServerVersionError(r)
  \/ getLatestVersionFromUpstream(r)
  \/ FetchError(r)
  \/ RegisterKubeVersion(r)

Next ==
  \/ Upgrade
  \/ Release
  \/ Crash
  \/ Restart
  \/ Tick
  \/ SchedulerStops
  \/ \E r \in Runners : reconcile(r)

Spec == Init /\ [][Next]_vars

\* The ticker ticks, a runner keeps running, the kubelet restarts what ended,
\* and neither the API server nor the channel fails every time it is asked.
Fairness ==
  /\ WF_vars(Restart)
  /\ WF_vars(Tick)
  /\ \A r \in Runners :
       /\ WF_vars(reconcile(r))
       /\ SF_vars(ServerVersion(r))
       /\ SF_vars(getLatestVersionFromUpstream(r))

FairSpec == Spec /\ Fairness

----------------------------------------------------------------------------
(* Properties *)

\* A runner has read both versions by the time it registers them, and the
\* gauge holds a verdict or nothing.
TypeOK ==
  /\ server \in Versions
  /\ upstream \in Versions
  /\ changes \in 0 .. MaxChanges
  /\ seen \in SUBSET (Numbers \X Numbers)
  /\ manager \in {"running", "stopping"}
  /\ pc \in [Runners -> PCs]
  /\ current \in [Runners -> Versions \cup {None}]
  /\ latest \in [Runners -> Versions \cup {None}]
  /\ kubernetesVersion \in [Numbers \X Numbers -> BOOLEAN \cup {None}]
  /\ \A r \in Runners :
       /\ pc[r] \in {"fetch", "register"} => current[r] # None
       /\ pc[r] = "register" => latest[r] # None

\* A pair of versions is only reported if the cluster ran the first while, or
\* before, the channel offered the second: the concurrent reconciles of Start
\* and of the ticker never mix what they read (reconcile's local variables).
PairsReal ==
  \A p \in Numbers \X Numbers : kubernetesVersion[p] # None => p \in seen

\* Once the cluster and the channel are quiet, the verdict on the versions
\* they have is reported, and it is "latest" exactly when the cluster's is not
\* the lower one, whatever failed, crashed or ran concurrently before.
KubeReported ==
  <>[](kubernetesVersion[<<Number[server], Number[upstream]>>]
         = (Number[server] >= Number[upstream]))
=============================================================================
