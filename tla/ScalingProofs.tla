----------------------------- MODULE ScalingProofs -----------------------------
(***************************************************************************)
(* The waits for the pods of a Deployment, a MachineSet or a DaemonSet,    *)
(* for any number of replicas: although they may decide by a report from   *)
(* before the change, what they wait for is so when they return.           *)
(***************************************************************************)
EXTENDS Scaling, TLAPS

SettingStays == setting' = setting /\ Kind' = Kind /\ WaitsForPods' = WaitsForPods

LEMMA StaysInSetting == [Next]_vars => SettingStays
BY DEF Next, CallerStep, WaitUnchanged, ChangeTemplate, Scale, WaitStep, SeesObject,
       PollDeployment, PollDeploymentGone, PollDaemonSet, ReadReady, ReadDesired,
       ReadDesiredGone, Expire, At, ControllerStep, AddPods, PodReady, DropPod, DropOld,
       Report, Controls, AnotherDeletes, vars, SettingStays, Kind, WaitsForPods

-------------------------------------------------------------------------------
(***************************************************************************)
(* Types.                                                                  *)
(***************************************************************************)
LEMMA InitType == Init => TypeOK
<1> SUFFICES ASSUME Init PROVE TypeOK
  OBVIOUS
<1> USE ScalingAssumption
<1>1. Counts \in [{"replicas", "updated", "available", "ready"} -> Nat]
  BY DEF Init, Counts, Total
<1>2. Nothing \in [{"replicas", "updated", "available", "ready"} -> Nat]
  BY DEF Nothing
<1> QED
  BY <1>1, <1>2 DEF Init, TypeOK

LEMMA NextType == TypeOK /\ [Next]_vars => TypeOK'
<1> SUFFICES ASSUME TypeOK, [Next]_vars PROVE TypeOK'
  OBVIOUS
<1> USE ScalingAssumption DEF TypeOK
<1>1. CASE WaitUnchanged
  BY <1>1 DEF WaitUnchanged, StartWait, pods
<1>2. CASE ChangeTemplate
  BY <1>2 DEF ChangeTemplate, StartWait
<1>3. ASSUME NEW n \in 0..MaxReplicas, Scale(n) PROVE TypeOK'
  BY <1>3 DEF Scale, StartWait, pods
<1>4. CASE WaitStep
  BY <1>4 DEF WaitStep, SeesObject, PollDeployment, PollDeploymentGone, PollDaemonSet,
              ReadReady, ReadDesired, ReadDesiredGone, Expire, At, pods
<1>5. CASE AddPods
  <2>1. starting' \in Nat
    BY <1>5 DEF AddPods, Total
  <2> QED
    BY <1>5, <2>1 DEF AddPods, Controls
<1>6. CASE PodReady
  BY <1>6 DEF PodReady, Controls
<1>7. CASE DropPod
  BY <1>7 DEF DropPod, Controls, Total
<1>8. CASE DropOld
  BY <1>8 DEF DropOld, Controls
<1>9. CASE Report
  <2>1. Counts \in [{"replicas", "updated", "available", "ready"} -> Nat]
    BY DEF Counts, Total
  <2> QED
    BY <1>9, <2>1 DEF Report, Controls, pods
<1>10. CASE AnotherDeletes
  BY <1>10 DEF AnotherDeletes, pods
<1>11. CASE UNCHANGED vars
  BY <1>11 DEF vars, pods
<1> QED
  BY <1>1, <1>2, <1>3, <1>4, <1>5, <1>6, <1>7, <1>8, <1>9, <1>10, <1>11
  DEF Next, CallerStep, ControllerStep

\* Numbers of pods stay numbers: no controller drops a pod that is not there.
THEOREM TypeCorrect == Spec => []TypeOK
BY InitType, NextType, PTL DEF Spec

-------------------------------------------------------------------------------
(***************************************************************************)
(* What a report from before tells of now.                                 *)
(***************************************************************************)
\* A MachineSet is not changed before it is waited for, and a Deployment that is to be
\* emptied has settled before. Without the first the waits do not tell the truth
\* (scaling_machine_set), and neither without the second: a report of nothing may be from
\* before the first pod.
TruthfulSettings ==
  \A s \in Settings :
    /\ s.kind = "machine_set" => s.change = "none"
    /\ s.kind = "deployment" /\ ~s.deployed /\ s.change = "scale" => ~s.fresh

\* A report may be of more pods than there are only if there still are enough of them,
\* since none is removed before. Before the change the controller removes nothing.
NotBehind ==
  /\ status.ready <= old + ready \/ wanted <= old + ready
  /\ setting.change # "template" => old = 0
  /\ pc = "caller" => old = 0 /\ Total <= wanted /\ status.ready <= ready
  /\ pc = "compare" => Kind = "machine_set"
  /\ DoneMeansReady

\* What is not changed only grows. The MachineSet's controller makes all machines before
\* it reports, and the DaemonSet's reports the nodes as the replicas: so a report of any
\* replicas is of all.
Unscaled ==
  Kind # "deployment" =>
    /\ old = 0 /\ Total <= wanted /\ status.ready <= ready
    /\ Kind = "machine_set" => Total \in {0, wanted}
    /\ status.replicas \in {0, wanted}
    /\ pc = "compare" => 0 < seen /\ seen <= ready

\* A Deployment that has settled reports no fewer pods than there are, if it is to have
\* none; one that is not scaled is to have some.
Shrinking ==
  ~WaitsForPods =>
    /\ pc = "caller" \/ setting.change # "scale" => wanted > 0
    /\ pc = "caller" /\ setting.change = "scale" => Total = wanted /\ status.replicas = Total
    /\ wanted = 0 => Total <= status.replicas
    /\ pc = "returned" => wanted = 0
    /\ DoneMeansNone

\* The settings, as the steps use them.
Chosen ==
  /\ Kind \in {"deployment", "machine_set", "daemon_set"}
  /\ setting.change \in {"none", "scale", "template"}
  /\ Kind # "deployment" => WaitsForPods /\ setting.change = "none"
  /\ WaitsForPods /\ Kind = "deployment" => setting.deployed
  /\ ~WaitsForPods => Kind = "deployment" /\ ~setting.deployed
  /\ ~WaitsForPods /\ setting.change = "scale" => ~setting.fresh

LEMMA ChosenIsSo == ASSUME TruthfulSettings, TypeOK PROVE Chosen
BY ScalingAssumption DEF TypeOK, Setting, TruthfulSettings, Chosen, WaitsForPods, Kind

\* The numbers are numbers.
LEMMA Numbers ==
  ASSUME TypeOK
  PROVE  /\ wanted \in Nat /\ old \in Nat /\ starting \in Nat /\ ready \in Nat /\ seen \in Nat
         /\ status.ready \in Nat /\ status.replicas \in Nat
BY ScalingAssumption DEF TypeOK

Truthful == NotBehind /\ Unscaled /\ Shrinking

LEMMA InitTruthful == ASSUME TruthfulSettings, Init PROVE Truthful
<1>1. TypeOK /\ Chosen
  BY InitType, ChosenIsSo
<1>2. /\ wanted \in Nat /\ wanted > 0 /\ old = 0 /\ starting = 0 /\ pc = "caller"
      /\ ready = (IF setting.fresh THEN 0 ELSE wanted)
      /\ status.ready = ready
      /\ status.replicas = (IF setting.fresh THEN 0 ELSE wanted)
  <2>1. wanted \in Nat /\ wanted > 0 /\ old = 0 /\ starting = 0 /\ pc = "caller"
    BY ScalingAssumption DEF Init
  <2>2. CASE setting.fresh
    BY <2>1, <2>2 DEF Init, Nothing
  <2>3. CASE ~setting.fresh
    BY <2>1, <2>3 DEF Init, Counts, Total
  <2> QED
    BY <2>1, <2>2, <2>3
<1>3. NotBehind
  BY <1>2 DEF NotBehind, Total, DoneMeansReady
<1>4. Unscaled
  BY <1>2 DEF Unscaled, Total
<1>5. Shrinking
  BY <1>1, <1>2 DEF Shrinking, Chosen, Total, DoneMeansNone
<1> QED
  BY <1>3, <1>4, <1>5 DEF Truthful

LEMMA NextTruthful ==
  ASSUME TruthfulSettings, TypeOK, Truthful, [Next]_vars
  PROVE  Truthful'
<1>1. Chosen /\ NotBehind /\ Unscaled /\ Shrinking
  BY ChosenIsSo DEF Truthful
<1>2. setting' = setting /\ Kind' = Kind /\ (WaitsForPods' <=> WaitsForPods)
  BY StaysInSetting DEF SettingStays
<1>3. /\ wanted \in Nat /\ old \in Nat /\ starting \in Nat /\ ready \in Nat /\ seen \in Nat
      /\ status.ready \in Nat /\ status.replicas \in Nat
  BY Numbers
\* The caller changes the object before anything was removed.
<1>4. CASE WaitUnchanged
  <2>1. /\ pc = "caller" /\ pc' \in {"exists", "poll"} /\ setting.change = "none"
        /\ UNCHANGED <<wanted, old, starting, ready, status, seen>>
    BY <1>4 DEF WaitUnchanged, StartWait, pods
  <2> QED
    BY <1>1, <1>2, <1>3, <2>1
    DEF Truthful, NotBehind, Unscaled, Shrinking, DoneMeansReady, DoneMeansNone, Total
<1>5. ASSUME NEW n \in 0..MaxReplicas, Scale(n) PROVE Truthful'
  <2>1. /\ pc = "caller" /\ pc' \in {"exists", "poll"} /\ setting.change = "scale"
        /\ UNCHANGED <<old, starting, ready, status, seen>>
    BY <1>5 DEF Scale, StartWait, pods
  <2>2. NotBehind' /\ Unscaled'
    BY <1>1, <1>2, <1>3, <2>1 DEF NotBehind, Unscaled, Chosen, DoneMeansReady
  <2>3. Shrinking'
    BY <1>1, <1>2, <1>3, <2>1 DEF Shrinking, DoneMeansNone, Total
  <2> QED
    BY <2>2, <2>3 DEF Truthful
<1>6. CASE ChangeTemplate
  <2>1. /\ pc = "caller" /\ pc' \in {"exists", "poll"} /\ setting.change = "template"
        /\ starting = 0 /\ old' = ready /\ ready' = 0
        /\ UNCHANGED <<wanted, starting, status, seen>>
    BY <1>6 DEF ChangeTemplate, StartWait
  <2>2. NotBehind' /\ Unscaled'
    BY <1>1, <1>2, <1>3, <2>1 DEF NotBehind, Unscaled, Chosen, DoneMeansReady
  <2>3. Shrinking'
    BY <1>1, <1>2, <1>3, <2>1 DEF Shrinking, DoneMeansNone, Total
  <2> QED
    BY <2>2, <2>3 DEF Truthful
\* The waits decide by a report.
<1>7. CASE PollDeployment
  <2>1. /\ Kind = "deployment" /\ pc' = "returned" /\ DeploymentSatisfied
        /\ UNCHANGED <<wanted, old, starting, ready, status, seen>>
    BY <1>7 DEF PollDeployment, At, pods
  <2>2. CASE WaitsForPods
    <3>1. status.ready = wanted
      BY <1>1, <2>1, <2>2 DEF DeploymentSatisfied, Chosen
    <3>2. wanted <= old + ready
      BY <1>1, <1>3, <3>1 DEF NotBehind
    <3> QED
      BY <1>1, <1>2, <1>3, <2>1, <2>2, <3>2
      DEF Truthful, NotBehind, Unscaled, Shrinking, DoneMeansReady
  <2>3. CASE ~WaitsForPods
    <3>1. wanted = 0 /\ status.replicas = 0
      BY <1>1, <2>1, <2>3 DEF DeploymentSatisfied, Chosen
    <3>2. Total = 0
      BY <1>1, <1>3, <2>3, <3>1 DEF Shrinking, Total
    <3>3. setting.change = "scale"
      BY <1>1, <1>3, <2>3, <3>1 DEF Shrinking
    <3> QED
      BY <1>1, <1>2, <1>3, <2>1, <2>3, <3>1, <3>2, <3>3
      DEF Truthful, NotBehind, Unscaled, Shrinking, DoneMeansReady, DoneMeansNone, Total
  <2> QED
    BY <2>2, <2>3
<1>8. CASE PollDaemonSet
  <2>1. /\ Kind = "daemon_set" /\ pc' = "returned" /\ DaemonSetSatisfied
        /\ UNCHANGED <<wanted, old, starting, ready, status, seen>>
    BY <1>8 DEF PollDaemonSet, At, pods
  <2>2. wanted <= old + ready
    BY <1>1, <1>3, <2>1 DEF DaemonSetSatisfied, Unscaled
  <2>3. NotBehind' /\ Unscaled'
    BY <1>1, <1>2, <1>3, <2>1, <2>2 DEF NotBehind, Unscaled, DoneMeansReady, Total
  <2>4. Shrinking'
    BY <1>1, <1>2, <2>1 DEF Shrinking, Chosen
  <2> QED
    BY <2>3, <2>4 DEF Truthful
<1>9. CASE ReadReady
  <2>1. /\ Kind = "machine_set" /\ pc' = "compare" /\ status.ready # 0 /\ seen' = status.ready
        /\ UNCHANGED <<wanted, old, starting, ready, status>>
    BY <1>9 DEF ReadReady, At, pods
  <2> QED
    BY <1>1, <1>2, <1>3, <2>1
    DEF Truthful, NotBehind, Unscaled, Shrinking, Chosen, DoneMeansReady, Total
<1>10. CASE ReadDesired
  <2>1. /\ pc = "compare" /\ pc' = (IF seen = status.replicas THEN "returned" ELSE "poll")
        /\ UNCHANGED <<wanted, old, starting, ready, status, seen>>
    BY <1>10 DEF ReadDesired, At, pods
  <2>2. Kind = "machine_set"
    BY <1>1, <2>1 DEF NotBehind
  <2>3. seen = status.replicas => wanted <= old + ready
    BY <1>1, <1>3, <2>1, <2>2 DEF Unscaled
  <2> QED
    BY <1>1, <1>2, <1>3, <2>1, <2>2, <2>3
    DEF Truthful, NotBehind, Unscaled, Shrinking, Chosen, DoneMeansReady, Total
<1>11. CASE SeesObject \/ PollDeploymentGone \/ ReadDesiredGone \/ Expire
  <2>1. /\ pc # "caller" /\ pc' \in {"poll", "expired", "raised"}
        /\ UNCHANGED <<wanted, old, starting, ready, status, seen>>
    BY <1>11 DEF SeesObject, PollDeploymentGone, ReadDesiredGone, Expire, At, pods
  <2> QED
    BY <1>1, <1>2, <1>3, <2>1
    DEF Truthful, NotBehind, Unscaled, Shrinking, DoneMeansReady, DoneMeansNone, Total
\* The controllers.
<1>12. CASE AddPods
  <2>1. /\ Total < (IF old > 0 THEN wanted + 1 ELSE wanted)
        /\ starting' = starting + (IF Kind = "machine_set"
                                     THEN (IF old > 0 THEN wanted + 1 ELSE wanted) - Total ELSE 1)
        /\ UNCHANGED <<wanted, old, ready, status, pc, seen>>
    BY <1>12 DEF AddPods, Controls
  <2>2. CASE Kind = "machine_set"
    <3>1. old = 0 /\ Total < wanted
      BY <1>1, <2>1, <2>2 DEF Unscaled
    <3>2. Total' = wanted
      BY <1>3, <2>1, <2>2, <3>1 DEF Total
    <3>3. NotBehind' /\ Unscaled'
      BY <1>1, <1>2, <1>3, <2>1, <2>2, <3>1, <3>2 DEF NotBehind, Unscaled, DoneMeansReady
    <3> QED
      BY <1>1, <1>2, <2>2, <3>3 DEF Truthful, Shrinking, Chosen
  <2>3. CASE Kind # "machine_set"
    <3>1. Total \in Nat /\ Total' = Total + 1
      BY <1>3, <2>1, <2>3 DEF Total
    <3>2. old = 0 => Total < wanted
      BY <1>3, <2>1
    <3>3. NotBehind'
      BY <1>1, <1>2, <1>3, <2>1, <3>1, <3>2 DEF NotBehind, DoneMeansReady
    <3>4. Unscaled'
      BY <1>1, <1>2, <1>3, <2>1, <2>3, <3>1, <3>2 DEF Unscaled
    <3>5. Shrinking'
      <4> SUFFICES ASSUME ~WaitsForPods PROVE Shrinking'
        BY <1>2 DEF Shrinking
      <4>1. setting.change = "scale" => old = 0
        BY <1>1 DEF NotBehind
      <4>2. CASE setting.change = "scale"
        <5>1. Total < wanted
          BY <3>2, <4>1, <4>2
        <5>2. pc # "caller" /\ pc # "returned" /\ wanted # 0
          BY <1>1, <1>3, <3>1, <4>2, <5>1 DEF Shrinking
        <5> QED
          BY <1>2, <2>1, <4>2, <5>2 DEF Shrinking, DoneMeansNone
      <4>3. CASE setting.change # "scale"
        BY <1>1, <1>2, <1>3, <2>1, <4>3 DEF Shrinking, DoneMeansNone
      <4> QED
        BY <4>2, <4>3
    <3> QED
      BY <3>3, <3>4, <3>5 DEF Truthful
  <2> QED
    BY <2>2, <2>3
<1>13. CASE PodReady
  <2>1. /\ Total' = Total /\ ready' = ready + 1
        /\ UNCHANGED <<wanted, old, status, pc, seen>>
    BY <1>3, <1>13 DEF PodReady, Controls, Total
  <2>2. NotBehind' /\ Unscaled'
    BY <1>1, <1>2, <1>3, <2>1 DEF NotBehind, Unscaled, DoneMeansReady
  <2>3. Shrinking'
    BY <1>1, <1>2, <1>3, <2>1 DEF Shrinking, DoneMeansNone
  <2> QED
    BY <2>2, <2>3 DEF Truthful
<1>14. CASE DropPod
  <2>1. /\ old = 0 /\ Total > wanted
        /\ \/ starting > 0 /\ starting' = starting - 1 /\ ready' = ready
           \/ starting = 0 /\ starting' = starting /\ ready' = ready - 1
        /\ UNCHANGED <<wanted, old, status, pc, seen>>
    BY <1>3, <1>14 DEF DropPod, Controls
  <2>2. Total \in Nat /\ Total' = Total - 1
    BY <1>3, <2>1 DEF Total
  <2>3. pc # "caller" /\ Kind = "deployment"
    BY <1>1, <1>3, <2>1, <2>2 DEF NotBehind, Unscaled
  <2>4. ready' = ready \/ wanted <= old + ready'
    BY <1>3, <2>1 DEF Total
  <2>5. NotBehind'
    BY <1>1, <1>2, <1>3, <2>1, <2>3, <2>4 DEF NotBehind, DoneMeansReady
  <2>6. Shrinking'
    BY <1>1, <1>2, <1>3, <2>1, <2>2, <2>3 DEF Shrinking, DoneMeansNone
  <2> QED
    BY <1>2, <2>3, <2>5, <2>6 DEF Truthful, Unscaled
<1>15. CASE DropOld
  <2>1. /\ old > 0 /\ old + ready > wanted /\ old' = old - 1
        /\ UNCHANGED <<wanted, starting, ready, status, pc, seen>>
    BY <1>15 DEF DropOld, Controls
  <2>2. pc # "caller" /\ Kind = "deployment" /\ setting.change = "template"
    BY <1>1, <2>1 DEF NotBehind, Unscaled
  <2>3. wanted <= old' + ready'
    BY <1>3, <2>1
  <2>4. NotBehind'
    BY <1>1, <1>2, <1>3, <2>1, <2>2, <2>3 DEF NotBehind, DoneMeansReady
  <2>5. Shrinking'
    BY <1>1, <1>2, <1>3, <2>1, <2>2 DEF Shrinking, DoneMeansNone, Total
  <2> QED
    BY <1>2, <2>2, <2>4, <2>5 DEF Truthful, Unscaled
<1>16. CASE Report
  <2>1. /\ status'.ready = old + ready
        /\ status'.replicas = (IF Kind = "daemon_set" THEN wanted ELSE Total)
        /\ UNCHANGED <<wanted, old, starting, ready, pc, seen>>
    BY <1>16 DEF Report, Controls, Counts, pods
  <2>2. NotBehind'
    BY <1>1, <1>2, <1>3, <2>1 DEF NotBehind, DoneMeansReady, Total
  <2>3. Unscaled'
    BY <1>1, <1>2, <1>3, <2>1 DEF Unscaled, Chosen, Total
  <2>4. Shrinking'
    BY <1>1, <1>2, <1>3, <2>1 DEF Shrinking, DoneMeansNone, Chosen, Total
  <2> QED
    BY <2>2, <2>3, <2>4 DEF Truthful
<1>17. CASE AnotherDeletes \/ UNCHANGED vars
  <2>1. UNCHANGED <<wanted, old, starting, ready, status, pc, seen>>
    BY <1>17 DEF AnotherDeletes, vars, pods
  <2> QED
    BY <1>1, <1>2, <2>1
    DEF Truthful, NotBehind, Unscaled, Shrinking, DoneMeansReady, DoneMeansNone, Total
<1> QED
  BY <1>4, <1>5, <1>6, <1>7, <1>8, <1>9, <1>10, <1>11, <1>12, <1>13, <1>14, <1>15, <1>16, <1>17
  DEF Next, CallerStep, WaitStep, ControllerStep

LEMMA TruthfulHolds ==
  ASSUME TruthfulSettings PROVE Spec => []Truthful
<1>1. Init => TypeOK /\ Truthful
  BY InitType, InitTruthful
<1>2. TypeOK /\ Truthful /\ [Next]_vars => (TypeOK /\ Truthful)'
  BY NextType, NextTruthful
<1> QED
  BY <1>1, <1>2, PTL DEF Spec

\* When a wait for pods returns, after a Deployment was created, scaled or rolled out, or
\* for a MachineSet or DaemonSet, as many pods as are wanted are ready, however far the
\* reports lag behind.
THEOREM DoneIsReady ==
  ASSUME TruthfulSettings PROVE Spec => []DoneMeansReady
<1>1. Truthful => DoneMeansReady
  BY DEF Truthful, NotBehind
<1> QED
  BY <1>1, TruthfulHolds, PTL

\* When wait_for_replicas(deployed=False) returns, the Deployment has no pods.
THEOREM DoneIsNone ==
  ASSUME TruthfulSettings PROVE Spec => []DoneMeansNone
<1>1. Truthful => DoneMeansNone
  BY DEF Truthful, Shrinking, DoneMeansNone
<1> QED
  BY <1>1, TruthfulHolds, PTL
===============================================================================
