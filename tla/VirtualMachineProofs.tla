-------------------------- MODULE VirtualMachineProofs --------------------------
(***************************************************************************)
(* VirtualMachine, for any number of calls, instances and settings.        *)
(***************************************************************************)
EXTENDS VirtualMachine, TLAPS

\* What a step may do, one action each.
LEMMA EveryAction ==
  ASSUME [Next]_vars
  PROVE  \/ \E o \in Ops, wait \in BOOLEAN : Call(o, wait)
         \/ PollReady \/ PollVmiDeleted \/ ReadUid \/ ListPods \/ ReadMigrationState
         \/ PollPodDeleted \/ PollVmiRunning \/ ReadDomstate \/ PollConditions \/ Expire
         \/ CreateVmi \/ CreatePod \/ Run \/ DeleteVmi \/ Shutdown \/ VmiGone \/ Migrate \/ Report
         \/ \E r \in Roles : RemovePod(r)
         \/ UNCHANGED vars
BY DEF Next, WaitStep, KubeVirtStep

LEMMA SettingStays == [Next]_vars => setting' = setting
<1> SUFFICES ASSUME [Next]_vars PROVE setting' = setting
  OBVIOUS
<1> QED
  BY EveryAction
  DEF Call, PollReady, PollVmiDeleted, ReadUid, ListPods, ReadMigrationState, PollPodDeleted,
      PollVmiRunning, ReadDomstate, PollConditions, Expire, At, CreateVmi, CreatePod, Run,
      DeleteVmi, Shutdown, VmiGone, Migrate, Report, RemovePod, Controls, vars

-------------------------------------------------------------------------------
(***************************************************************************)
(* Types, the places of the calls, and the pods.                           *)
(***************************************************************************)
\* A VMI that can still be made without another call.
Needed == wanted /\ (again \/ deleting \/ phase \in {"none", "final"})

\* Every VMI but a first one was asked for by a call.
Counted ==
  /\ gen + (IF Needed THEN 1 ELSE 0) <= calls + 1
  /\ phase = "final" => deleting

\* Where each call may be.
Places ==
  /\ op = "start" => pc \in {"idle", "ready", "returned", "raised"}
  /\ op = "stop" => pc \in {"ready", "vmi_deleted", "returned", "raised"}
  /\ op = "restart" =>
       pc \in {"uid", "list", "state", "pod_deleted", "vmi_running", "returned", "raised"}
  /\ op \in {"pause", "unpause"} =>
       pc \in {"uid", "list", "state", "domstate", "conditions", "returned", "raised"}

\* The domain of a VMI that runs is in a pod that is there and has not ended: the first,
\* or the target of a migration that was done.
Pods ==
  /\ phase = "none" => pods = {}
  /\ phase = "scheduling" => migration = "none" /\ completed = {} /\ pods \subseteq {"first"}
  /\ phase = "running" =>
       /\ migration \in {"none", "scheduled", "running"} => completed = {} /\ "first" \in pods
       /\ migration \in {"scheduled", "running", "done"} => "target" \in pods
       /\ migration = "done" => completed \subseteq {"first"}
       /\ migration = "failed" => completed \subseteq {"target"} /\ "first" \in pods
  /\ migration = "failed" => setting.migrations = "fail"

TypeInv == TypeOK /\ Counted /\ Places /\ Pods

LEMMA InitType == Init => TypeInv
<1> SUFFICES ASSUME Init PROVE TypeInv
  OBVIOUS
<1>1. TypeOK
  <2>1. setting \in Settings /\ MaxCalls \in Nat
    BY MachineAssumption DEF Init
  <2>2. gen \in 0..1
    BY DEF Init
  <2>3. before \in 0..gen /\ uid \in 0..gen /\ pod \in (0..gen) \X Roles
    BY <2>2 DEF Init, NoPod, Roles
  <2>4. /\ wanted \in BOOLEAN /\ again \in BOOLEAN /\ deleting \in BOOLEAN /\ paused \in BOOLEAN
        /\ ready \in BOOLEAN /\ condition \in BOOLEAN
        /\ hasty \in BOOLEAN /\ lagging \in BOOLEAN /\ result \in BOOLEAN
    BY DEF Init
  <2>5. phase \in {"none", "running"} /\ migration \in {"none", "done"}
    BY DEF Init
  <2>6. pods \subseteq Roles /\ completed \subseteq pods /\ listed \subseteq Roles
    BY DEF Init, Roles
  <2>7. pc = "idle" /\ op \in Ops /\ calls \in 0..MaxCalls /\ gen \in 0..(MaxCalls + 1)
    BY <2>1, <2>2 DEF Init, Ops
  <2> QED
    BY <2>1, <2>3, <2>4, <2>5, <2>6, <2>7 DEF TypeOK
<1>2. Counted /\ Places
  BY MachineAssumption DEF Init, Counted, Needed, Places
<1>3. Pods
  BY DEF Init, Pods
<1> QED
  BY <1>1, <1>2, <1>3 DEF TypeInv

\* What a step of the program may do to what it reads, and what it leaves alone.
LEMMA CallType ==
  ASSUME TypeInv, NEW o \in Ops, NEW wait \in BOOLEAN, Call(o, wait)
  PROVE  TypeInv'
<1> USE MachineAssumption DEF TypeInv
<1>1. /\ calls < MaxCalls /\ calls' = calls + 1 /\ op' = o /\ before' = gen /\ result' = TRUE
      /\ UNCHANGED <<setting, gen, phase, deleting, pods, completed, migration, ready,
                     condition, uid, listed, pod>>
  BY DEF Call, reports, lookup
<1>2. /\ wanted' \in BOOLEAN /\ again' \in BOOLEAN /\ paused' \in BOOLEAN
      /\ hasty' \in BOOLEAN /\ lagging' \in BOOLEAN
  <2>1. CASE Accepted(o)
    BY <2>1 DEF Call, TypeOK
  <2>2. CASE ~Accepted(o)
    BY <2>2 DEF Call, TypeOK
  <2> QED
    BY <2>1, <2>2
<1>3. pc' \in {FirstWait[o], "returned", "raised"}
  BY DEF Call
<1>4. FirstWait[o] = CASE o \in {"start", "stop"} -> "ready" [] OTHER -> "uid"
  BY DEF FirstWait, Ops
<1>5. TypeOK'
  BY <1>1, <1>2, <1>3, <1>4 DEF TypeOK
<1>6. Counted'
  BY <1>1 DEF Counted, Needed, TypeOK
<1>7. Places'
  BY <1>1, <1>3, <1>4 DEF Places, Ops
<1>8. Pods'
  BY <1>1 DEF Pods
<1> QED
  BY <1>5, <1>6, <1>7, <1>8

LEMMA WaitType ==
  ASSUME TypeInv, WaitStep
  PROVE  TypeInv'
<1> USE MachineAssumption DEF TypeInv
<1>1. /\ UNCHANGED <<setting, wanted, again, gen, phase, deleting, pods, completed, migration,
                     paused, ready, condition, op, calls, hasty, lagging, before>>
  BY DEF WaitStep, PollReady, PollVmiDeleted, ReadUid, ListPods, ReadMigrationState,
         PollPodDeleted, PollVmiRunning, ReadDomstate, PollConditions, Expire, At, machine, reports
<1>2. Counted' /\ Pods'
  BY <1>1 DEF Counted, Needed, Pods
<1>3. /\ uid' \in 0..gen /\ listed' \subseteq Roles /\ result' \in BOOLEAN
      /\ pod' \in (0..gen) \X Roles
  <2>1. CASE ReadMigrationState
    <3>1. Chosen \subseteq (0..gen) \X Roles
      BY DEF Chosen, TypeOK
    <3> QED
      BY <2>1, <3>1 DEF ReadMigrationState, TypeOK
  <2>2. CASE ReadUid
    BY <2>2 DEF ReadUid, TypeOK
  <2>3. CASE ListPods
    BY <2>3 DEF ListPods, TypeOK
  <2>4. CASE Expire
    BY <2>4 DEF Expire, TypeOK, lookup
  <2>5. CASE PollReady \/ PollVmiDeleted \/ PollPodDeleted \/ PollVmiRunning \/ ReadDomstate \/ PollConditions
    BY <2>5 DEF PollReady, PollVmiDeleted, PollPodDeleted, PollVmiRunning, ReadDomstate,
                PollConditions, TypeOK, lookup
  <2> QED
    BY <2>1, <2>2, <2>3, <2>4, <2>5 DEF WaitStep
<1>4. \/ pc = "ready" /\ pc' = IF op = "start" THEN "returned" ELSE "vmi_deleted"
      \/ pc = "vmi_deleted" /\ pc' = "returned"
      \/ pc = "uid" /\ pc' \in {"list", "raised"}
      \/ pc = "list" /\ pc' \in {"state", "raised"}
      \/ pc = "state" /\ pc' \in {"raised", IF op = "restart" THEN "pod_deleted" ELSE "domstate"}
      \/ pc = "pod_deleted" /\ pc' = "vmi_running"
      \/ pc = "vmi_running" /\ pc' = "returned"
      \/ pc = "domstate" /\ pc' \in {"conditions", "uid", "raised"}
      \/ pc = "conditions" /\ pc' = "returned"
      \/ pc' = "raised"
  <2>1. CASE PollReady \/ PollVmiDeleted \/ ReadUid \/ ListPods \/ ReadMigrationState
    BY <2>1 DEF PollReady, AfterReady, PollVmiDeleted, ReadUid, ListPods, ReadMigrationState, AfterLookup, At
  <2>2. CASE PollPodDeleted \/ PollVmiRunning \/ ReadDomstate \/ PollConditions
    BY <2>2 DEF PollPodDeleted, PollVmiRunning, ReadDomstate, PollConditions, At
  <2>3. CASE Expire
    BY <2>3 DEF Expire
  <2> QED
    BY <2>1, <2>2, <2>3 DEF WaitStep
<1>5. Places'
  BY <1>1, <1>4 DEF Places, TypeOK, Ops
<1>6. pc' \in {"idle", "ready", "vmi_deleted", "uid", "list", "state", "pod_deleted",
               "vmi_running", "domstate", "conditions", "returned", "raised"}
  BY <1>4
<1>7. TypeOK'
  BY <1>1, <1>3, <1>6 DEF TypeOK
<1> QED
  BY <1>2, <1>5, <1>7

LEMMA KubeVirtType ==
  ASSUME TypeInv, KubeVirtStep
  PROVE  TypeInv'
<1> USE MachineAssumption DEF TypeInv
<1>1. UNCHANGED <<setting, wanted, pc, op, calls, hasty, lagging, before, uid, listed, pod, result>>
  BY DEF KubeVirtStep, CreateVmi, CreatePod, Run, DeleteVmi, Shutdown, VmiGone, Migrate, Report,
         RemovePod, Controls, program, lookup
<1>2. Places'
  BY <1>1 DEF Places
<1>3. CASE CreateVmi
  <2>1. /\ wanted /\ phase = "none" /\ gen' = gen + 1 /\ phase' = "scheduling"
        /\ again' = FALSE /\ deleting' = FALSE
        /\ migration' = "none" /\ paused' = FALSE /\ condition' = FALSE
        /\ UNCHANGED <<pods, completed, ready>>
    BY <1>3 DEF CreateVmi
  <2>2. Counted'
    BY <1>1, <2>1 DEF Counted, Needed, TypeOK
  <2>3. gen' \in 0..(MaxCalls + 1) /\ 0..gen \subseteq 0..gen'
    BY <1>1, <2>1 DEF Counted, Needed, TypeOK
  <2>4. TypeOK'
    BY <1>1, <2>1, <2>3 DEF TypeOK
  <2>5. Pods'
    BY <2>1 DEF Pods, TypeOK
  <2> QED
    BY <1>2, <2>2, <2>4, <2>5
<1>4. CASE CreatePod
  <2>1. /\ phase = "scheduling" /\ pods = {} /\ pods' = {"first"}
        /\ UNCHANGED <<again, gen, phase, deleting, completed, migration, paused, ready, condition>>
    BY <1>4 DEF CreatePod, reports
  <2>2. TypeOK'
    BY <1>1, <2>1 DEF TypeOK, Roles
  <2>3. Counted'
    BY <1>1, <2>1 DEF Counted, Needed, TypeOK
  <2>4. Pods'
    BY <1>1, <2>1 DEF Pods, TypeOK, Roles
  <2> QED
    BY <1>2, <2>2, <2>3, <2>4
<1>5. CASE Run
  <2>1. /\ phase = "scheduling" /\ pods # {} /\ phase' = "running"
        /\ UNCHANGED <<again, gen, deleting, pods, completed, migration, paused, ready, condition>>
    BY <1>5 DEF Run, reports
  <2>2. TypeOK'
    BY <1>1, <2>1 DEF TypeOK, Roles
  <2>3. Counted'
    BY <1>1, <2>1 DEF Counted, Needed, TypeOK
  <2>4. Pods'
    BY <1>1, <2>1 DEF Pods, TypeOK, Roles
  <2> QED
    BY <1>2, <2>2, <2>3, <2>4
<1>6. CASE DeleteVmi
  <2>1. /\ phase \in {"scheduling", "running"} /\ ~deleting /\ (again \/ ~wanted)
        /\ deleting' = TRUE /\ again' = FALSE
        /\ UNCHANGED <<gen, phase, pods, completed, migration, paused, ready, condition>>
    BY <1>6 DEF DeleteVmi, reports
  <2>2. deleting' \in BOOLEAN /\ again' \in BOOLEAN
    BY <2>1
  <2>3. TypeOK'
    BY <1>1, <2>1, <2>2 DEF TypeOK
  <2>4. Counted'
    BY <1>1, <2>1 DEF Counted, Needed, TypeOK
  <2>5. Pods'
    BY <1>1, <2>1, <2>2 DEF Pods, TypeOK, Roles
  <2> QED
    BY <1>2, <2>3, <2>4, <2>5
<1>7. CASE Shutdown
  <2>1. /\ deleting /\ phase \in {"scheduling", "running"}
        /\ phase' = "final" /\ completed' = pods
        /\ UNCHANGED <<again, gen, deleting, pods, migration, paused, ready, condition>>
    BY <1>7 DEF Shutdown, reports
  <2>2. TypeOK'
    BY <1>1, <2>1 DEF TypeOK, Roles
  <2>3. Counted'
    BY <1>1, <2>1 DEF Counted, Needed, TypeOK
  <2>4. Pods'
    BY <1>1, <2>1 DEF Pods, TypeOK, Roles
  <2> QED
    BY <1>2, <2>2, <2>3, <2>4
<1>8. CASE VmiGone
  <2>1. /\ phase = "final" /\ pods = {} /\ phase' = "none"
        /\ UNCHANGED <<again, gen, deleting, pods, completed, migration, paused, ready, condition>>
    BY <1>8 DEF VmiGone, reports
  <2>2. TypeOK'
    BY <1>1, <2>1 DEF TypeOK, Roles
  <2>3. Counted'
    BY <1>1, <2>1 DEF Counted, Needed, TypeOK
  <2>4. Pods'
    BY <1>1, <2>1 DEF Pods, TypeOK, Roles
  <2> QED
    BY <1>2, <2>2, <2>3, <2>4
<1>9. CASE Migrate
  <2>1. /\ phase = "running" /\ ~deleting
        /\ \/ migration = "none" /\ migration' = "scheduled" /\ pods' = pods \cup {"target"}
              /\ completed' = completed
           \/ migration = "scheduled" /\ migration' = "running" /\ pods' = pods
              /\ completed' = completed
           \/ migration = "running" /\ migration' = "done" /\ pods' = pods
              /\ completed' = {"first"}
           \/ migration = "running" /\ migration' = "failed" /\ pods' = pods
              /\ completed' = {"target"} /\ setting.migrations = "fail"
        /\ UNCHANGED <<again, gen, phase, deleting, paused, ready, condition>>
    BY <1>9 DEF Migrate, reports
  <2>2. pods' \subseteq Roles /\ completed' \subseteq pods'
    BY <2>1 DEF Pods, TypeOK, Roles
  <2>3. TypeOK'
    BY <1>1, <2>1, <2>2 DEF TypeOK
  <2>4. Counted'
    BY <1>1, <2>1 DEF Counted, Needed, TypeOK
  <2>5. Pods'
    BY <1>1, <2>1 DEF Pods
  <2> QED
    BY <1>2, <2>3, <2>4, <2>5
<1>10. CASE Report
  <2>1. /\ ready' \in BOOLEAN /\ condition' \in BOOLEAN
        /\ UNCHANGED <<again, gen, phase, deleting, pods, completed, migration, paused>>
    BY <1>10 DEF Report, machine, TypeOK
  <2>2. TypeOK'
    BY <1>1, <2>1 DEF TypeOK
  <2> QED
    BY <1>1, <1>2, <2>1, <2>2 DEF Counted, Needed, Pods
<1>11. ASSUME NEW r \in Roles, RemovePod(r)
       PROVE  TypeInv'
  <2>1. /\ r \in completed /\ (phase = "final" \/ migration \in {"done", "failed"})
        /\ pods' = pods \ {r} /\ completed' = completed \ {r}
        /\ UNCHANGED <<again, gen, phase, deleting, migration, paused, ready, condition>>
    BY <1>11 DEF RemovePod, Removable, reports
  <2>2. TypeOK'
    BY <1>1, <2>1 DEF TypeOK
  <2>3. Counted'
    BY <1>1, <2>1 DEF Counted, Needed
  <2>4. Pods'
    BY <1>1, <2>1 DEF Pods
  <2> QED
    BY <1>2, <2>2, <2>3, <2>4
<1> QED
  BY <1>3, <1>4, <1>5, <1>6, <1>7, <1>8, <1>9, <1>10, <1>11 DEF KubeVirtStep

LEMMA NextType == TypeInv /\ [Next]_vars => TypeInv'
<1>1. ASSUME TypeInv, UNCHANGED vars PROVE TypeInv'
  BY <1>1 DEF vars, machine, reports, program, lookup, TypeInv, TypeOK, Counted, Needed, Places, Pods
<1> QED
  BY <1>1, CallType, WaitType, KubeVirtType DEF Next

\* However often the program calls, there is no VMI that was not asked for, and no pod
\* has ended that is not there.
THEOREM TypeCorrect == Spec => []TypeOK
<1>1. TypeInv => TypeOK
  BY DEF TypeInv
<1> QED
  BY InitType, NextType, <1>1, PTL DEF Spec

\* The pod that virt_launcher_pod chooses while the VMI runs has not ended, unless a
\* migration may have failed.
THEOREM LauncherHasNotEnded == Spec => LauncherRuns
<1>1. TypeInv /\ [Next]_vars =>
        [setting.migrations # "fail" /\ phase = "running" /\ pod' # pod => pod'[2] \notin completed]_vars
  <2> SUFFICES ASSUME TypeInv, [Next]_vars, setting.migrations # "fail", phase = "running", pod' # pod
               PROVE  pod'[2] \notin completed
    OBVIOUS
  <2>1. ReadMigrationState
    BY EveryAction
    DEF Call, PollReady, PollVmiDeleted, ReadUid, ListPods, PollPodDeleted, PollVmiRunning,
        ReadDomstate, PollConditions, Expire, CreateVmi, CreatePod, Run, DeleteVmi, Shutdown,
        VmiGone, Migrate, Report, RemovePod, Controls, program, lookup, vars
  <2>2. pod' \in Chosen
    BY <2>1 DEF ReadMigrationState
  <2>3. CASE migration \in {"running", "done", "failed"}
    <3>1. pod'[2] = "target"
      BY <2>2, <2>3 DEF Chosen
    <3> QED
      BY <2>3, <3>1 DEF TypeInv, Pods
  <2>4. CASE migration \in {"none", "scheduled"}
    BY <2>4 DEF TypeInv, Pods
  <2> QED
    BY <2>3, <2>4 DEF TypeInv, TypeOK
<1> QED
  BY <1>1, InitType, NextType, PTL DEF Spec, LauncherRuns

-------------------------------------------------------------------------------
(***************************************************************************)
(* What a step leaves alone, and how a call begins.                        *)
(***************************************************************************)
LEMMA WaitKeeps ==
  ASSUME WaitStep
  PROVE  /\ UNCHANGED <<setting, wanted, again, gen, phase, deleting, pods, completed, migration,
                        paused, ready, condition, op, calls, hasty, lagging, before>>
         /\ pc \notin {"idle", "returned", "raised"}
BY DEF WaitStep, PollReady, PollVmiDeleted, ReadUid, ListPods, ReadMigrationState,
       PollPodDeleted, PollVmiRunning, ReadDomstate, PollConditions, Expire, At, machine, reports

LEMMA KubeVirtKeeps ==
  ASSUME KubeVirtStep
  PROVE  UNCHANGED <<setting, wanted, pc, op, calls, hasty, lagging, before, uid, listed, pod, result>>
BY DEF KubeVirtStep, CreateVmi, CreatePod, Run, DeleteVmi, Shutdown, VmiGone, Migrate, Report,
       RemovePod, Controls, program, lookup

\* A call that was accepted and is waited for, after calls that were.
LEMMA WaitedCall ==
  ASSUME NEW o \in Ops, NEW wait \in BOOLEAN, Call(o, wait), pc' # "raised", ~hasty'
  PROVE  /\ wait /\ ~hasty /\ result /\ Accepted(o) /\ pc \in {"idle", "returned"}
         /\ pc' = (IF o \in {"start", "stop"} THEN "ready" ELSE "uid")
         /\ op' = o /\ before' = gen /\ result' = TRUE
         /\ wanted' = (IF o = "start" THEN TRUE ELSE IF o = "stop" THEN FALSE ELSE wanted)
         /\ again' = (again \/ o = "restart")
         /\ paused' = (IF o = "pause" THEN TRUE ELSE IF o = "unpause" THEN FALSE ELSE paused)
         /\ lagging' = (lagging \/ o \notin {"start", "stop"})
         /\ UNCHANGED <<setting, gen, phase, deleting, pods, completed, migration, ready,
                        condition, uid, listed, pod>>
<1>1. Accepted(o)
  BY DEF Call
<1>2. hasty' = (hasty \/ ~wait \/ ~result)
  BY <1>1 DEF Call
<1>3. wait /\ ~hasty /\ result
  BY <1>2
<1>4. FirstWait[o] = IF o \in {"start", "stop"} THEN "ready" ELSE "uid"
  BY DEF FirstWait, Ops
<1> QED
  BY <1>1, <1>3, <1>4 DEF Call, reports, lookup

-------------------------------------------------------------------------------
(***************************************************************************)
(* A machine that was stopped.                                             *)
(***************************************************************************)
\* It is not to run while stop waits, and its VMI is gone when that did not take too long.
Stopped ==
  op = "stop" /\ ~hasty /\ pc \in {"ready", "vmi_deleted", "returned"} =>
    ~wanted /\ (pc = "returned" /\ result => phase = "none")

LEMMA NextStopped == TypeInv /\ Stopped /\ [Next]_vars => Stopped'
<1> SUFFICES ASSUME TypeInv, Stopped, [Next]_vars PROVE Stopped'
  OBVIOUS
<1>1. ASSUME NEW o \in Ops, NEW wait \in BOOLEAN, Call(o, wait) PROVE Stopped'
  BY <1>1, WaitedCall DEF Stopped
<1>2. CASE WaitStep
  <2>1. CASE PollReady
    BY <2>1, <1>2, WaitKeeps DEF PollReady, At, AfterReady, Stopped
  <2>2. CASE PollVmiDeleted
    BY <2>2, <1>2, WaitKeeps DEF PollVmiDeleted, At, Stopped
  <2>3. CASE Expire
    BY <2>3, <1>2, WaitKeeps DEF Expire, At, Stopped, TypeInv, Places
  <2>4. CASE pc \notin {"ready", "vmi_deleted", "returned"}
    BY <2>4, <1>2, WaitKeeps DEF Stopped, TypeInv, TypeOK, Places
  <2> QED
    BY <1>2, <2>1, <2>2, <2>3, <2>4
    DEF WaitStep, ReadUid, ListPods, ReadMigrationState, PollPodDeleted, PollVmiRunning,
        ReadDomstate, PollConditions, At
<1>3. CASE KubeVirtStep
  <2>1. ~wanted /\ phase = "none" => phase' = "none"
    BY <1>3 DEF KubeVirtStep, CreateVmi, CreatePod, Run, DeleteVmi, Shutdown, VmiGone, Migrate,
                Report, RemovePod, machine
  <2> QED
    BY <2>1, <1>3, KubeVirtKeeps DEF Stopped
<1>4. CASE UNCHANGED vars
  BY <1>4 DEF vars, machine, program, Stopped
<1> QED
  BY <1>1, <1>2, <1>3, <1>4 DEF Next

\* Whoever was told that a stop is done finds no VMI, whatever the calls before it did, if
\* they were waited for and not in vain.
THEOREM StopTellsTheTruth == Spec => []StoppedIsGone
<1>1. Init => Stopped
  BY DEF Init, Stopped
<1>2. Stopped => StoppedIsGone
  BY DEF Stopped, StoppedIsGone
<1> QED
  BY InitType, NextType, NextStopped, <1>1, <1>2, PTL DEF Spec

-------------------------------------------------------------------------------
(***************************************************************************)
(* A machine that was started.                                             *)
(***************************************************************************)
\* A VMI that goes.
Going == phase \in {"final", "none"} \/ (phase = "running" /\ deleting)

\* As long as each call waits for status.ready, what was reported when a call begins is
\* right, and a report that changes during the call says that it is done.
Started ==
  /\ hasty => lagging
  /\ ~lagging /\ pc # "raised" =>
       /\ op \in {"start", "stop"} /\ ~again /\ ~paused
       /\ pc = "idle" =>
            IF wanted THEN phase = "running" /\ ~deleting /\ ready ELSE phase = "none" /\ ~ready
       /\ op = "start" /\ pc # "idle" =>
            /\ wanted /\ phase # "final"
            /\ phase # "none" => ~deleting
            /\ ready => phase = "running"
            /\ pc = "returned" => ready
       /\ op = "stop" =>
            /\ ~wanted /\ phase # "scheduling"
            /\ ready \/ Going
            /\ pc # "ready" => ~ready
            /\ pc = "returned" /\ result => phase = "none"

LEMMA NextStarted == TypeInv /\ Started /\ [Next]_vars => Started'
<1> SUFFICES ASSUME TypeInv, Started, [Next]_vars PROVE Started'
  OBVIOUS
<1>1. ASSUME NEW o \in Ops, NEW wait \in BOOLEAN, Call(o, wait) PROVE Started'
  <2>1. hasty' => lagging'
    BY <1>1 DEF Call, Started
  <2>2. ASSUME ~lagging', pc' # "raised"
        PROVE  Started'
    <3>1. /\ Accepted(o) /\ pc \in {"idle", "returned"} /\ pc' \in {"ready", "uid"}
          /\ result /\ op' = o
          /\ wanted' = (IF o = "start" THEN TRUE ELSE IF o = "stop" THEN FALSE ELSE wanted)
          /\ again' = (again \/ o = "restart")
          /\ paused' = (IF o = "pause" THEN TRUE ELSE IF o = "unpause" THEN FALSE ELSE paused)
          /\ lagging' = (lagging \/ o \notin {"start", "stop"})
          /\ UNCHANGED <<gen, phase, deleting, ready>>
      BY <1>1, <2>1, <2>2, WaitedCall
    <3>2. ~lagging /\ o \in {"start", "stop"} /\ pc' = "ready"
      BY <1>1, <2>1, <2>2, <3>1, WaitedCall
    <3>3. CASE o = "start"
      BY <2>1, <3>1, <3>2, <3>3 DEF Started, Accepted, TypeInv, TypeOK, Going
    <3>4. CASE o = "stop"
      BY <2>1, <3>1, <3>2, <3>4 DEF Started, Accepted, TypeInv, TypeOK, Going
    <3> QED
      BY <3>2, <3>3, <3>4
  <2> QED
    BY <2>1, <2>2 DEF Started
<1>2. CASE WaitStep
  <2> SUFFICES ASSUME ~lagging', pc' # "raised" PROVE Started'
    BY <1>2, WaitKeeps DEF Started
  <2>1. /\ ~lagging /\ op \in {"start", "stop"}
        /\ pc \in {"ready", "vmi_deleted"} /\ (pc = "vmi_deleted" => op = "stop")
    BY <1>2, WaitKeeps DEF Started, TypeInv, Places
  <2>2. CASE PollReady
    <3>1. pc = "ready" /\ (op = "stop" => ~ready) /\ (op = "start" => ready)
      BY <2>1, <2>2 DEF PollReady, At, AsAsked, TypeInv, TypeOK
    <3>2. pc' = (IF op = "start" THEN "returned" ELSE "vmi_deleted")
      BY <2>2 DEF PollReady, AfterReady
    <3> QED
      BY <2>1, <3>1, <3>2, <1>2, WaitKeeps DEF Started, Going
  <2>3. CASE PollVmiDeleted
    BY <2>1, <2>3, <1>2, WaitKeeps DEF PollVmiDeleted, At, Started, Going
  <2>4. CASE Expire
    <3>1. pc = "vmi_deleted" /\ op = "stop" /\ pc' = "returned" /\ ~result'
      BY <2>1, <2>2, <2>4 DEF Expire
    <3> QED
      BY <2>1, <3>1, <1>2, WaitKeeps DEF Started, Going
  <2> QED
    BY <1>2, <2>1, <2>2, <2>3, <2>4
    DEF WaitStep, ReadUid, ListPods, ReadMigrationState, PollPodDeleted, PollVmiRunning,
        ReadDomstate, PollConditions, At
<1>3. CASE KubeVirtStep
  <2> SUFFICES ASSUME ~lagging', pc' # "raised" PROVE Started'
    BY <1>3, KubeVirtKeeps DEF Started
  <2>1. UNCHANGED <<wanted, pc, op, hasty, lagging, result>>
    BY <1>3, KubeVirtKeeps
  <2>2. CASE CreateVmi
    BY <2>1, <2>2 DEF CreateVmi, Started, Going
  <2>3. CASE CreatePod \/ Migrate \/ \E r \in Roles : RemovePod(r)
    BY <2>1, <2>3 DEF CreatePod, Migrate, RemovePod, reports, Started, Going
  <2>4. CASE Run
    BY <2>1, <2>4 DEF Run, reports, Started, Going
  <2>5. CASE DeleteVmi
    BY <2>1, <2>5 DEF DeleteVmi, reports, Started, Going
  <2>6. CASE Shutdown
    BY <2>1, <2>6 DEF Shutdown, reports, Started, Going
  <2>7. CASE VmiGone
    BY <2>1, <2>7 DEF VmiGone, reports, Started, Going
  <2>8. CASE Report
    BY <2>1, <2>8 DEF Report, machine, Started, Going, TypeInv, TypeOK
  <2> QED
    BY <1>3, <2>2, <2>3, <2>4, <2>5, <2>6, <2>7, <2>8 DEF KubeVirtStep
<1>4. CASE UNCHANGED vars
  BY <1>4 DEF vars, machine, reports, program, Started, Going
<1> QED
  BY <1>1, <1>2, <1>3, <1>4 DEF Next

\* A machine that was started runs when the call returns, if the calls before it waited
\* for status.ready too.
THEOREM StartTellsTheTruth == Spec => []StartedRuns
<1>1. Init => Started
  BY DEF Init, Started
<1>2. Started => StartedRuns
  BY DEF Started, StartedRuns
<1> QED
  BY InitType, NextType, NextStarted, <1>1, <1>2, PTL DEF Spec

-------------------------------------------------------------------------------
(***************************************************************************)
(* A machine whose calls are all waited for, and are not disturbed.        *)
(***************************************************************************)
\* Restart sees the old VMI until it is on its way out, finds a pod of that one or of a
\* later one, and a pod of that one goes only with it.
Restarted ==
  /\ wanted
  /\ gen = before =>
       \/ phase = "running" /\ again /\ ~deleting
       \/ ~again /\ deleting /\ phase \in {"running", "final", "none"}
  /\ gen > before => ~again /\ ~deleting /\ phase \in {"scheduling", "running"}
  /\ pc \in {"list", "state"} => uid >= before
  /\ pc = "state" /\ gen = before /\ phase = "running" /\ migration = "none" => listed \subseteq pods
  /\ pc = "pod_deleted" => pod[1] >= before
  /\ pc = "pod_deleted" /\ gen = before /\ phase = "running" => PodThere /\ pod[2] \notin completed
  /\ pc = "vmi_running" => gen > before \/ phase # "running"
  /\ pc = "returned" => gen > before /\ phase = "running"

\* The VMI stays, paused or not, and its conditions follow.
Paused ==
  /\ wanted /\ phase = "running" /\ ~again /\ ~deleting
  /\ paused = (op = "pause")
  /\ pc = "returned" => IF op = "pause" THEN condition ELSE ~setting.shadowed => ~condition

\* What each call finds and leaves.
Settled ==
  ~hasty /\ Undisturbed /\ pc # "raised" =>
    /\ result /\ migration \in {"none", "done"}
    /\ pc = "idle" => ~again /\ IF wanted THEN phase = "running" /\ ~deleting ELSE phase = "none"
    /\ op = "start" /\ pc # "idle" =>
         wanted /\ ~again /\ phase # "final" /\ (phase # "none" => ~deleting)
    /\ op = "stop" => ~wanted /\ ~again /\ (pc = "returned" => phase = "none")
    /\ op = "restart" => Restarted
    /\ op \in {"pause", "unpause"} => Paused

LEMMA CallSettled ==
  ASSUME TypeInv, Settled, NEW o \in Ops, NEW wait \in BOOLEAN, Call(o, wait)
  PROVE  Settled'
<1> SUFFICES ASSUME ~hasty', Undisturbed', pc' # "raised" PROVE Settled'
  BY DEF Settled
<1>1. /\ ~hasty /\ result /\ Accepted(o) /\ pc \in {"idle", "returned"}
      /\ pc' = (IF o \in {"start", "stop"} THEN "ready" ELSE "uid")
      /\ op' = o /\ before' = gen /\ result' = TRUE
      /\ wanted' = (IF o = "start" THEN TRUE ELSE IF o = "stop" THEN FALSE ELSE wanted)
      /\ again' = (again \/ o = "restart")
      /\ paused' = (IF o = "pause" THEN TRUE ELSE IF o = "unpause" THEN FALSE ELSE paused)
      /\ UNCHANGED <<setting, gen, phase, deleting, pods, completed, migration, condition>>
  BY WaitedCall
<1>2. Undisturbed /\ migration \in {"none", "done"} /\ pc' \notin {"idle", "returned"}
  BY <1>1 DEF Undisturbed, Settled
\* What the last call left.
<1>3. \/ ~wanted /\ ~again /\ phase = "none"
      \/ wanted /\ ~again /\ phase # "final" /\ (phase # "none" => ~deleting)
  BY <1>1, <1>2 DEF Settled, Restarted, Paused, TypeInv, TypeOK, Ops
<1>4. CASE o = "start"
  BY <1>1, <1>2, <1>3, <1>4 DEF Settled, Accepted
<1>5. CASE o = "stop"
  BY <1>1, <1>2, <1>3, <1>5 DEF Settled, Accepted
<1>6. CASE o = "restart"
  <2>1. gen \in Nat
    BY MachineAssumption DEF TypeInv, TypeOK
  <2>2. phase = "running" /\ wanted
    BY <1>1, <1>6 DEF Accepted
  <2>3. wanted' /\ again'
    BY <1>1, <1>6, <2>2
  <2>4. Restarted'
    BY <1>1, <1>2, <1>3, <2>1, <2>2, <2>3 DEF Restarted
  <2> QED
    BY <1>1, <1>2, <1>6, <2>4 DEF Settled
<1>7. CASE o \in {"pause", "unpause"}
  <2>1. wanted /\ phase = "running"
    BY <1>1, <1>3, <1>7 DEF Accepted
  <2>2. Paused'
    BY <1>1, <1>2, <1>3, <1>7, <2>1 DEF Paused
  <2> QED
    BY <1>1, <1>2, <1>7, <2>2 DEF Settled
<1> QED
  BY <1>4, <1>5, <1>6, <1>7 DEF Ops

LEMMA WaitSettled ==
  ASSUME TypeInv, Settled, WaitStep
  PROVE  Settled'
<1> SUFFICES ASSUME ~hasty', Undisturbed', pc' # "raised" PROVE Settled'
  BY DEF Settled
<1>1. UNCHANGED <<setting, wanted, again, gen, phase, deleting, pods, completed, migration,
                  paused, condition, op, hasty, before>>
  BY WaitKeeps
<1>2. ~hasty /\ Undisturbed /\ ~Expire /\ pc \notin {"idle", "returned", "raised"}
  BY <1>1, WaitKeeps DEF Undisturbed, Expire
<1>3. result /\ result' = result /\ migration \in {"none", "done"}
  BY <1>2 DEF Settled, WaitStep, PollReady, PollVmiDeleted, ReadUid, ListPods, ReadMigrationState,
              PollPodDeleted, PollVmiRunning, ReadDomstate, PollConditions
<1>4. CASE PollReady
  <2>1. op \in {"start", "stop"} /\ pc' = IF op = "start" THEN "returned" ELSE "vmi_deleted"
    BY <1>4 DEF PollReady, At, AfterReady, TypeInv, TypeOK, Places, Ops
  <2> QED
    BY <1>1, <1>2, <1>3, <2>1 DEF Settled
<1>5. CASE PollVmiDeleted
  BY <1>1, <1>2, <1>3, <1>5 DEF PollVmiDeleted, At, Settled, TypeInv, TypeOK, Places, Ops
<1>6. CASE ReadUid
  <2>1. op \in {"restart", "pause", "unpause"} /\ pc' = "list" /\ uid' = gen
    BY <1>6 DEF ReadUid, At, TypeInv, TypeOK, Places, Ops
  <2>2. op = "restart" => Restarted'
    BY <1>1, <1>2, <2>1 DEF Settled, Restarted, TypeInv, TypeOK
  <2>3. op \in {"pause", "unpause"} => Paused'
    BY <1>1, <1>2, <2>1 DEF Settled, Paused
  <2> QED
    BY <1>1, <1>3, <2>1, <2>2, <2>3 DEF Settled
<1>7. CASE ListPods
  <2>1. /\ op \in {"restart", "pause", "unpause"} /\ pc = "list" /\ pc' = "state"
        /\ listed' = pods /\ uid' = uid
    BY <1>7 DEF ListPods, At, TypeInv, TypeOK, Places, Ops
  <2>2. op = "restart" => Restarted'
    BY <1>1, <1>2, <2>1 DEF Settled, Restarted
  <2>3. op \in {"pause", "unpause"} => Paused'
    BY <1>1, <1>2, <2>1 DEF Settled, Paused
  <2> QED
    BY <1>1, <1>3, <2>1, <2>2, <2>3 DEF Settled
<1>8. CASE ReadMigrationState
  <2>1. /\ op \in {"restart", "pause", "unpause"} /\ pc = "state" /\ pod' \in Chosen
        /\ pc' = IF op = "restart" THEN "pod_deleted" ELSE "domstate"
    BY <1>8 DEF ReadMigrationState, AfterLookup, At, TypeInv, TypeOK, Places, Ops
  <2>2. ASSUME op = "restart" PROVE Restarted'
    <3>1. Restarted /\ uid >= before /\ uid \in 0..gen /\ gen \in Nat /\ before \in 0..gen
      BY <1>2, <2>1, <2>2, MachineAssumption DEF Settled, Restarted, TypeInv, TypeOK
    <3>2. PICK r \in listed : pod' = <<uid, r>> /\ (migration = "done" => r = "target")
      BY <2>1 DEF Chosen
    <3>3. ASSUME gen = before, phase = "running" PROVE PodThere' /\ pod'[2] \notin completed
      <4>1. uid = gen
        BY <3>1, <3>3
      <4>2. r \in pods /\ r \notin completed
        BY <1>3, <2>1, <3>1, <3>2, <3>3 DEF Restarted, TypeInv, Pods
      <4> QED
        BY <1>1, <3>2, <4>1, <4>2 DEF PodThere
    <3>4. pod'[1] >= before
      BY <3>1, <3>2
    <3> QED
      BY <1>1, <2>1, <2>2, <3>1, <3>3, <3>4 DEF Restarted
  <2>3. op \in {"pause", "unpause"} => Paused'
    BY <1>1, <1>2, <2>1 DEF Settled, Paused
  <2> QED
    BY <1>1, <1>3, <2>1, <2>2, <2>3 DEF Settled
<1>9. CASE PollPodDeleted
  <2>1. op = "restart" /\ pc = "pod_deleted" /\ pc' = "vmi_running" /\ ~PodThere
    BY <1>9 DEF PollPodDeleted, PodGone, At, TypeInv, TypeOK, Places, Ops
  <2>2. Restarted'
    BY <1>1, <1>2, <2>1 DEF Settled, Restarted, TypeInv, TypeOK
  <2> QED
    BY <1>1, <1>3, <2>1, <2>2 DEF Settled
<1>10. CASE PollVmiRunning
  <2>1. op = "restart" /\ pc = "vmi_running" /\ pc' = "returned" /\ phase = "running"
    BY <1>10 DEF PollVmiRunning, At, TypeInv, TypeOK, Places, Ops
  <2>2. Restarted'
    BY <1>1, <1>2, <2>1 DEF Settled, Restarted
  <2> QED
    BY <1>1, <1>3, <2>1, <2>2 DEF Settled
<1>11. CASE ReadDomstate
  <2>1. op \in {"pause", "unpause"} /\ pc' \in {"conditions", "uid"}
    BY <1>11 DEF ReadDomstate, At, TypeInv, TypeOK, Places, Ops
  <2>2. Paused'
    BY <1>1, <1>2, <2>1 DEF Settled, Paused
  <2> QED
    BY <1>1, <1>3, <2>1, <2>2 DEF Settled
<1>12. CASE PollConditions
  <2>1. op \in {"pause", "unpause"} /\ pc' = "returned" /\ StateChanged
    BY <1>12 DEF PollConditions, At, TypeInv, TypeOK, Places, Ops
  <2>2. IF op = "pause" THEN condition ELSE ~setting.shadowed => ~condition
    BY <2>1 DEF StateChanged, Reason
  <2>3. Paused'
    BY <1>1, <1>2, <2>1, <2>2 DEF Settled, Paused
  <2> QED
    BY <1>1, <1>3, <2>1, <2>3 DEF Settled
<1> QED
  BY <1>2, <1>4, <1>5, <1>6, <1>7, <1>8, <1>9, <1>10, <1>11, <1>12 DEF WaitStep

LEMMA KubeVirtSettled ==
  ASSUME TypeInv, Settled, KubeVirtStep
  PROVE  Settled'
<1> SUFFICES ASSUME ~hasty', Undisturbed', pc' # "raised" PROVE Settled'
  BY DEF Settled
<1>1. UNCHANGED <<setting, wanted, pc, op, hasty, before, uid, listed, pod, result>>
  BY KubeVirtKeeps
<1>2. ~hasty /\ Undisturbed /\ pc # "raised" /\ result /\ migration \in {"none", "done"}
  BY <1>1 DEF Undisturbed, Settled
<1>3. gen \in Nat /\ before \in Nat /\ before <= gen /\ pod[1] \in Nat
  BY MachineAssumption DEF TypeInv, TypeOK
<1>4. CASE CreateVmi
  <2>1. /\ wanted /\ phase = "none" /\ gen' = gen + 1 /\ phase' = "scheduling"
        /\ again' = FALSE /\ deleting' = FALSE /\ migration' = "none"
    BY <1>4 DEF CreateVmi
  <2>2. pc # "idle" /\ op \in {"start", "restart"}
    BY <1>2, <2>1 DEF Settled, Paused, TypeInv, TypeOK, Ops
  <2>3. op = "restart" => Restarted'
    BY <1>1, <1>2, <1>3, <2>1 DEF Settled, Restarted
  <2> QED
    BY <1>1, <1>2, <2>1, <2>2, <2>3 DEF Settled
<1>5. CASE CreatePod \/ Run
  <2>1. /\ phase = "scheduling" /\ phase' \in {"scheduling", "running"}
        /\ UNCHANGED <<again, gen, deleting, migration>>
    BY <1>5 DEF CreatePod, Run
  <2>2. pc # "idle" /\ op \in {"start", "stop", "restart"}
    BY <1>2, <2>1 DEF Settled, Paused, TypeInv, TypeOK, Ops
  <2>3. op = "restart" => Restarted'
    BY <1>1, <1>2, <1>3, <2>1 DEF Settled, Restarted
  <2> QED
    BY <1>1, <1>2, <2>1, <2>2, <2>3 DEF Settled
<1>6. CASE DeleteVmi
  <2>1. /\ ~deleting /\ (again \/ ~wanted) /\ deleting' = TRUE /\ again' = FALSE
        /\ phase \in {"scheduling", "running"}
        /\ UNCHANGED <<gen, phase, pods, completed, migration>>
    BY <1>6 DEF DeleteVmi
  <2>2. pc # "idle" /\ op \in {"stop", "restart"}
    BY <1>2, <2>1 DEF Settled, Paused, TypeInv, TypeOK, Ops
  <2>3. op = "restart" => Restarted'
    BY <1>1, <1>2, <1>3, <2>1 DEF Settled, Restarted, PodThere
  <2> QED
    BY <1>1, <1>2, <2>1, <2>2, <2>3 DEF Settled
<1>7. CASE Shutdown
  <2>1. /\ deleting /\ phase \in {"scheduling", "running"} /\ phase' = "final"
        /\ UNCHANGED <<again, gen, deleting, pods, migration>>
    BY <1>7 DEF Shutdown
  <2>2. pc # "idle" /\ op \in {"stop", "restart"}
    BY <1>2, <2>1 DEF Settled, Paused, TypeInv, TypeOK, Ops
  <2>3. op = "restart" => Restarted'
    BY <1>1, <1>2, <1>3, <2>1 DEF Settled, Restarted
  <2> QED
    BY <1>1, <1>2, <2>1, <2>2, <2>3 DEF Settled
<1>8. CASE VmiGone
  <2>1. /\ phase = "final" /\ phase' = "none"
        /\ UNCHANGED <<again, gen, deleting, pods, migration>>
    BY <1>8 DEF VmiGone
  <2>2. pc # "idle" /\ op \in {"stop", "restart"}
    BY <1>2, <2>1 DEF Settled, Paused, TypeInv, TypeOK, Ops
  <2>3. op = "restart" => Restarted'
    BY <1>1, <1>2, <1>3, <2>1 DEF Settled, Restarted
  <2> QED
    BY <1>1, <1>2, <2>1, <2>2, <2>3 DEF Settled
<1>9. ~Migrate
  BY <1>2 DEF Undisturbed, Migrate
<1>10. CASE Report
  <2>1. /\ condition' = (paused /\ phase = "running")
        /\ UNCHANGED <<again, gen, phase, deleting, pods, completed, migration, paused>>
    BY <1>10 DEF Report, machine
  <2>2. Restarted => Restarted'
    BY <1>1, <2>1 DEF Restarted, PodThere
  <2>3. Paused => Paused'
    BY <1>1, <2>1 DEF Paused
  <2> QED
    BY <1>1, <1>2, <2>1, <2>2, <2>3 DEF Settled
<1>11. ASSUME NEW r \in Roles, RemovePod(r)
       PROVE  Settled'
  <2>1. /\ r \in completed /\ (phase = "final" \/ migration = "done")
        /\ pods' = pods \ {r} /\ completed' = completed \ {r}
        /\ UNCHANGED <<again, gen, phase, deleting, migration, paused, condition>>
    BY <1>2, <1>11 DEF RemovePod, Removable, reports
  <2>2. Restarted => Restarted'
    BY <1>1, <2>1 DEF Restarted, PodThere
  <2>3. Paused => Paused'
    BY <1>1, <2>1 DEF Paused
  <2> QED
    BY <1>1, <1>2, <2>1, <2>2, <2>3 DEF Settled
<1> QED
  BY <1>4, <1>5, <1>6, <1>7, <1>8, <1>9, <1>10, <1>11 DEF KubeVirtStep

LEMMA InitSettled == Init => Settled
BY DEF Init, Settled

LEMMA NextSettled == TypeInv /\ Settled /\ [Next]_vars => Settled'
<1>1. ASSUME Settled, UNCHANGED vars PROVE Settled'
  BY <1>1 DEF vars, machine, reports, program, lookup, Settled, Restarted, Paused, PodThere, Undisturbed
<1> QED
  BY <1>1, CallSettled, WaitSettled, KubeVirtSettled DEF Next

\* A restarted machine runs in another VMI than before, whatever the calls before it were.
THEOREM RestartMakesANewOne == Spec => []RestartedIsNew
<1>1. Settled => RestartedIsNew
  BY DEF Settled, Restarted, RestartedIsNew, Waited
<1> QED
  BY InitType, NextType, InitSettled, NextSettled, <1>1, PTL DEF Spec

\* A paused VMI is paused, and is reported to be, when pause returns, an unpaused one not.
THEOREM PauseTellsTheTruth == Spec => []PausedIsPaused
<1>1. Settled => PausedIsPaused
  BY DEF Settled, Paused, PausedIsPaused, Waited
<1> QED
  BY InitType, NextType, InitSettled, NextSettled, <1>1, PTL DEF Spec
===============================================================================
