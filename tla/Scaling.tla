-------------------------------- MODULE Scaling --------------------------------
(***************************************************************************)
(* Waits for the replicas of a Deployment, MachineSet or DaemonSet. The    *)
(* caller changes the object, or just made it, and waits; the controller   *)
(* adds and removes pods (machines) until there are as many as wanted and, *)
(* behind that, reports what it counted. A wait sees only the report. The  *)
(* requests of the waits may fail; those that the sampler retries leave    *)
(* everything as it was.                                                   *)
(***************************************************************************)
EXTENDS Naturals

CONSTANTS
  Settings,     \* what is waited for and how, see Setting
  MaxReplicas   \* replicas wanted, at most

\*   kind      the class
\*   deployed  the argument of Deployment.wait_for_replicas
\*   fresh     the object was just created; otherwise it is settled
\*   change    what the caller does before it waits: "none", "scale" or "template"
\*   patient   the timeout is longer than anything the controller does
\*   deletes   another client may delete the object
Setting ==
  [kind : {"deployment", "machine_set", "daemon_set"}, deployed : BOOLEAN, fresh : BOOLEAN,
   change : {"none", "scale", "template"}, patient : BOOLEAN, deletes : BOOLEAN]

ASSUME ScalingAssumption ==
  /\ Settings \subseteq Setting
  /\ \A s \in Settings : s.kind = "daemon_set" => s.change = "none"
  /\ MaxReplicas \in Nat \ {0}

VARIABLES
  setting,   \* the setting of this execution
  object,    \* the object is on the cluster
  wanted,    \* spec.replicas; of a DaemonSet, the nodes it is for
  old,       \* pods of the template before the change, all of them ready
  starting,  \* pods that are not ready
  ready,     \* pods that are
  status,    \* what the controller last reported
  pc,        \* where the caller is
  seen       \* readyReplicas, as the first read of MachineSet's wait returned it

pods == <<old, starting, ready>>
vars == <<setting, object, wanted, pods, status, pc, seen>>

Kind == setting.kind
Total == old + starting + ready
Waiting == pc \in {"exists", "poll", "compare"}

\* A DaemonSet reports the nodes it is for where the others report the pods there are.
Counts ==
  [replicas |-> IF Kind = "daemon_set" THEN wanted ELSE Total,
   updated |-> starting + ready, available |-> old + ready, ready |-> old + ready]
Nothing == [replicas |-> 0, updated |-> 0, available |-> 0, ready |-> 0]

TypeOK ==
  /\ setting \in Settings
  /\ object \in BOOLEAN
  /\ wanted \in 0..MaxReplicas
  /\ old \in Nat /\ starting \in Nat /\ ready \in Nat
  /\ status \in [{"replicas", "updated", "available", "ready"} -> Nat]
  /\ pc \in {"caller", "exists", "poll", "compare", "returned", "expired", "raised"}
  /\ seen \in Nat

Init ==
  /\ setting \in Settings
  /\ object = TRUE
  /\ wanted \in 1..MaxReplicas
  /\ old = 0 /\ starting = 0
  /\ ready = (IF setting.fresh THEN 0 ELSE wanted)
  /\ status = (IF setting.fresh THEN Nothing ELSE Counts)
  /\ pc = "caller"
  /\ seen = 0

-------------------------------------------------------------------------------
\* The caller. Deployment's wait polls `exists` first.
StartWait == pc = "caller" /\ pc' = IF Kind = "deployment" THEN "exists" ELSE "poll"

\* scale_replicas sends the number; whoever called it waits next.
Scale(n) ==
  /\ setting.change = "scale" /\ object
  /\ StartWait
  /\ n # wanted /\ wanted' = n
  /\ UNCHANGED <<setting, object, pods, status, seen>>

\* An update of the pods' template makes all there are old.
ChangeTemplate ==
  /\ setting.change = "template" /\ object /\ starting = 0
  /\ StartWait
  /\ old' = ready /\ ready' = 0
  /\ UNCHANGED <<setting, object, wanted, starting, status, seen>>

WaitUnchanged ==
  /\ setting.change = "none"
  /\ StartWait
  /\ UNCHANGED <<setting, object, wanted, pods, status, seen>>

At(p) == pc = p /\ UNCHANGED <<setting, object, wanted, pods, status>>

SeesObject ==
  /\ At("exists") /\ object
  /\ pc' = "poll"
  /\ UNCHANGED seen

\* Bugs: the ready pods are not looked at; nor those that are left; one too many is
\* waited for.
SatisfiedByUpdated ==
  IF setting.deployed THEN wanted # 0 /\ status.updated = wanted
                      ELSE wanted = 0 /\ status.replicas = 0
SatisfiedByNone ==
  IF setting.deployed
    THEN wanted # 0 /\ {status.updated, status.available, status.ready} = {wanted}
    ELSE wanted = 0
SatisfiedByMore ==
  IF setting.deployed
    THEN wanted # 0 /\ {status.updated, status.available, status.ready} = {wanted + 1}
    ELSE wanted = 0 /\ status.replicas = 0

\* Deployment.wait_for_replicas, of one read of the object.
DeploymentSatisfied ==
  IF setting.deployed
    THEN wanted # 0 /\ {status.updated, status.available, status.ready} = {wanted}
    ELSE wanted = 0 /\ status.replicas = 0

\* DaemonSet.wait_until_deployed: the nodes too are as they were reported.
DaemonSetSatisfied == status.replicas > 0 /\ status.replicas = status.ready

PollDeployment ==
  /\ Kind = "deployment" /\ At("poll") /\ object
  /\ DeploymentSatisfied
  /\ pc' = "returned"
  /\ UNCHANGED seen

\* An object that is gone is an error of this sampler's function, and not retried.
PollDeploymentGone ==
  /\ Kind = "deployment" /\ At("poll") /\ ~object
  /\ pc' = "raised"
  /\ UNCHANGED seen

PollDaemonSet ==
  /\ Kind = "daemon_set" /\ At("poll") /\ object
  /\ DaemonSetSatisfied
  /\ pc' = "returned"
  /\ UNCHANGED seen

\* MachineSet.wait_for_replicas reads twice: ready_replicas in the sampler ...
ReadReady ==
  /\ Kind = "machine_set" /\ At("poll") /\ object
  /\ status.ready # 0
  /\ seen' = status.ready
  /\ pc' = "compare"

\* ... and desired_replicas, which is status.replicas, outside of it.
ReadDesired ==
  /\ At("compare") /\ object
  /\ pc' = IF seen = status.replicas THEN "returned" ELSE "poll"
  /\ UNCHANGED seen

ReadDesiredGone ==
  /\ At("compare") /\ ~object
  /\ pc' = "raised"
  /\ UNCHANGED seen

\* The handler of MachineSet's expiry reads the replicas again, for its message.
Expire ==
  /\ ~setting.patient
  /\ pc \in {"exists", "poll"} /\ At(pc)
  /\ pc' = IF Kind = "machine_set" /\ ~object THEN "raised" ELSE "expired"
  /\ UNCHANGED seen

-------------------------------------------------------------------------------
\* The controllers. A Deployment's has at most one pod too many while it replaces
\* old ones, and none too few (maxSurge 1, maxUnavailable 0); the MachineSet's makes
\* all machines that miss before it reports.
Controls == object /\ UNCHANGED <<setting, object, wanted, pc, seen>>

AddPods ==
  /\ Controls
  /\ LET limit == IF old > 0 THEN wanted + 1 ELSE wanted
         missing == limit - Total
     IN  /\ Total < limit
         /\ starting' = starting + IF Kind = "machine_set" THEN missing ELSE 1
  /\ UNCHANGED <<old, ready, status>>

PodReady ==
  /\ Controls /\ starting > 0
  /\ starting' = starting - 1 /\ ready' = ready + 1
  /\ UNCHANGED <<old, status>>

\* Pods that are not ready go first.
DropPod ==
  /\ Controls /\ old = 0 /\ Total > wanted
  /\ IF starting > 0 THEN starting' = starting - 1 /\ UNCHANGED ready
                     ELSE ready' = ready - 1 /\ UNCHANGED starting
  /\ UNCHANGED <<old, status>>

\* Bug: pods that are gone are dropped again.
DropOldAgain ==
  /\ Controls /\ old + ready > wanted
  /\ old' = old - 1
  /\ UNCHANGED <<starting, ready, status>>

DropOld ==
  /\ Controls /\ old > 0 /\ old + ready > wanted
  /\ old' = old - 1
  /\ UNCHANGED <<starting, ready, status>>

Report ==
  /\ Controls /\ status # Counts
  /\ status' = Counts
  /\ UNCHANGED pods

AnotherDeletes ==
  /\ setting.deletes /\ object
  /\ object' = FALSE
  /\ UNCHANGED <<setting, wanted, pods, status, pc, seen>>

-------------------------------------------------------------------------------
CallerStep == WaitUnchanged \/ ChangeTemplate \/ \E n \in 0..MaxReplicas : Scale(n)

WaitStep ==
  \/ SeesObject \/ PollDeployment \/ PollDeploymentGone \/ PollDaemonSet
  \/ ReadReady \/ ReadDesired \/ ReadDesiredGone \/ Expire

ControllerStep == AddPods \/ PodReady \/ DropPod \/ DropOld \/ Report

Next == CallerStep \/ WaitStep \/ ControllerStep \/ AnotherDeletes

\* The wait goes on polling, and the controller works on.
Spec == Init /\ [][Next]_vars /\ WF_vars(WaitStep) /\ WF_vars(ControllerStep)

-------------------------------------------------------------------------------
WaitsForPods == Kind = "deployment" => setting.deployed

\* A wait for pods that returned: as many as wanted are ready, now and not only in a
\* report of what there was before the change.
DoneMeansReady == pc = "returned" /\ WaitsForPods => old + ready >= wanted

\* A wait for a deployment without pods that returned: none is left.
DoneMeansNone == pc = "returned" /\ ~WaitsForPods => Total = 0

\* A wait does not miss what it waits for: once the controller has all that is wanted,
\* the wait returns, even if it was ready long before the first poll.
NotMissed ==
  Waiting /\ setting.patient /\ (Kind = "deployment" => (setting.deployed <=> wanted > 0))
    ~> pc = "returned"
===============================================================================
