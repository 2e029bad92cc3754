----------------------------- MODULE VirtualMachine -----------------------------
(***************************************************************************)
(* A program that starts, stops, restarts, pauses and unpauses one virtual *)
(* machine, through VirtualMachine and VirtualMachineInstance, and may     *)
(* wait after each call. KubeVirt makes an instance (VMI) and its          *)
(* virt-launcher pod for a machine that is to run, migrates it to another  *)
(* pod, and reports what it did later. Every read of a wait is a request   *)
(* of its own.                                                             *)
(***************************************************************************)
EXTENDS Naturals

CONSTANTS
  Settings,  \* see Setting
  MaxCalls   \* calls of the program

\*   patient     the timeouts are longer than anything KubeVirt does
\*   migrations  of the VMI: "none"; one that was done "before" the program starts; one
\*               that succeeds or that may fail, at any time
\*   shadowed    the VMI has another condition with a reason, listed after Paused
Setting == [patient : BOOLEAN, migrations : {"none", "before", "succeed", "fail"}, shadowed : BOOLEAN]

ASSUME MachineAssumption == Settings \subseteq Setting /\ MaxCalls \in Nat

VARIABLES
  setting,
  wanted,     \* the machine is to run
  again,      \* a restart was requested, the VMI not yet deleted for it
  gen,        \* the number of VMIs there were: the uid of the last one
  phase,      \* its phase; "none" when it is gone
  deleting,   \* its deletion was requested
  pods,       \* its pods: "first", and "target" of a migration
  completed,  \* those of them that have ended
  migration,  \* "none", "scheduled" (the pod was made), "running", "done", "failed"
  paused,     \* its domain is
  ready,      \* status.ready of the machine, as last reported
  condition,  \* Paused among the VMI's conditions, as last reported
  pc, op,     \* where the program is, and in which call
  calls,
  hasty,      \* a call was not waited for, or in vain
  lagging,    \* or its wait does not look at status.ready
  before,     \* gen when the call was made
  uid, listed, pod,  \* of a lookup of the virt-launcher pod: what was read
  result

machine == <<wanted, again, gen, phase, deleting, pods, completed, migration, paused>>
reports == <<ready, condition>>
lookup == <<uid, listed, pod>>
program == <<pc, op, calls, hasty, lagging, before, lookup, result>>
vars == <<setting, machine, reports, program>>

Ops == {"start", "stop", "restart", "pause", "unpause"}
Roles == {"first", "target"}
NoPod == <<0, "first">>
Ended == pc \in {"returned", "raised"}

TypeOK ==
  /\ setting \in Settings
  /\ wanted \in BOOLEAN /\ again \in BOOLEAN /\ deleting \in BOOLEAN /\ paused \in BOOLEAN
  /\ gen \in 0..(MaxCalls + 1)
  /\ phase \in {"none", "scheduling", "running", "final"}
  /\ pods \subseteq Roles /\ completed \subseteq pods
  /\ migration \in {"none", "scheduled", "running", "done", "failed"}
  /\ ready \in BOOLEAN /\ condition \in BOOLEAN
  /\ pc \in {"idle", "ready", "vmi_deleted", "uid", "list", "state", "pod_deleted",
             "vmi_running", "domstate", "conditions", "returned", "raised"}
  /\ op \in Ops
  /\ calls \in 0..MaxCalls /\ hasty \in BOOLEAN /\ lagging \in BOOLEAN
  /\ before \in 0..gen /\ uid \in 0..gen
  /\ listed \subseteq Roles
  /\ pod \in (0..gen) \X Roles
  /\ result \in BOOLEAN

\* A machine that is halted, or has run for a while.
Init ==
  /\ setting \in Settings
  /\ wanted \in BOOLEAN
  /\ gen = (IF wanted THEN 1 ELSE 0)
  /\ phase = (IF wanted THEN "running" ELSE "none")
  /\ migration = (IF wanted /\ setting.migrations = "before" THEN "done" ELSE "none")
  /\ completed = (IF migration = "done" THEN {"first"} ELSE {})
  /\ pods = (IF wanted THEN {"first"} ELSE {}) \cup (IF migration = "done" THEN {"target"} ELSE {})
  /\ ready = wanted
  /\ again = FALSE /\ deleting = FALSE /\ paused = FALSE /\ condition = FALSE
  /\ pc = "idle" /\ op = "start" /\ calls = 0 /\ hasty = FALSE /\ lagging = FALSE
  /\ before = 0 /\ uid = 0 /\ listed = {} /\ pod = NoPod
  /\ result = TRUE

-------------------------------------------------------------------------------
(***************************************************************************)
(* The program.                                                            *)
(***************************************************************************)
\* Whether the API accepts a call.
Accepted(o) ==
  CASE o = "start"   -> ~wanted /\ phase \in {"none", "final"}
    [] o = "stop"    -> wanted
    [] o = "restart" -> wanted /\ phase = "running"
    [] o = "pause"   -> phase = "running" /\ ~paused
    [] o = "unpause" -> phase = "running" /\ condition

\* Where the wait of a call begins.
FirstWait == [start |-> "ready", stop |-> "ready", restart |-> "uid",
              pause |-> "uid", unpause |-> "uid"]

Call(o, wait) ==
  /\ pc \in {"idle", "returned"} /\ calls < MaxCalls
  /\ calls' = calls + 1 /\ op' = o /\ before' = gen /\ result' = TRUE
  /\ UNCHANGED <<setting, gen, phase, deleting, pods, completed, migration, reports, lookup>>
  /\ IF Accepted(o)
       THEN /\ wanted' = (IF o = "start" THEN TRUE ELSE IF o = "stop" THEN FALSE ELSE wanted)
            /\ again' = (again \/ o = "restart")
            /\ paused' = (IF o = "pause" THEN TRUE ELSE IF o = "unpause" THEN FALSE ELSE paused)
            /\ pc' = IF wait THEN FirstWait[o] ELSE "returned"
            /\ hasty' = (hasty \/ ~wait \/ ~result)
            /\ lagging' = (lagging \/ ~wait \/ ~result \/ o \notin {"start", "stop"})
       ELSE pc' = "raised" /\ UNCHANGED <<wanted, again, paused, hasty, lagging>>

At(p) ==
  /\ pc = p
  /\ UNCHANGED <<setting, machine, reports, op, calls, hasty, lagging, before>>

\* Bugs: the machine is only looked for; a stopped one is to report FALSE.
Found == TRUE
AsReported == op = "start" /\ ready
\* wait_for_ready_status, to be TRUE for start and None for stop.
AsAsked == ready = (op = "start")

\* Bug: stop does not wait for the VMI.
AfterReadyOnly == "returned"
\* What the calls do then.
AfterReady == IF op = "start" THEN "returned" ELSE "vmi_deleted"

PollReady ==
  /\ At("ready")
  /\ AsAsked
  /\ pc' = AfterReady
  /\ UNCHANGED <<lookup, result>>

PollVmiDeleted ==
  /\ At("vmi_deleted")
  /\ phase = "none"
  /\ pc' = "returned"
  /\ UNCHANGED <<lookup, result>>

\* virt_launcher_pod: the uid of the VMI, its pods, and its migration state, of whatever
\* VMI has the name by then.
ReadUid ==
  /\ At("uid")
  /\ pc' = IF phase = "none" THEN "raised" ELSE "list"
  /\ uid' = gen
  /\ UNCHANGED <<listed, pod, result>>

ListPods ==
  /\ At("list")
  /\ listed' = IF uid = gen THEN pods ELSE {}
  /\ pc' = IF listed' = {} THEN "raised" ELSE "state"
  /\ UNCHANGED <<uid, pod, result>>

\* Bug: the first of the pods is taken.
ChosenFirst == {<<uid, r>> : r \in listed}
\* The target of a migration, however it ended, if it was listed; any without one.
Chosen ==
  IF migration \in {"running", "done", "failed"}
    THEN {<<uid, r>> : r \in {q \in listed : uid = gen /\ q = "target"}}
    ELSE {<<uid, r>> : r \in listed}

AfterLookup == IF op = "restart" THEN "pod_deleted" ELSE "domstate"

ReadMigrationState ==
  /\ At("state")
  /\ \/ phase # "none" /\ pod' \in Chosen /\ pc' = AfterLookup
     \* NotFoundError; None has no wait_deleted, and no execute.
     \/ (phase = "none" \/ Chosen = {}) /\ pc' = "raised" /\ UNCHANGED pod
  /\ UNCHANGED <<uid, listed, result>>

PodThere == pod[1] = gen /\ pod[2] \in pods

\* Bug: restart does not wait for the pod.
PodAnyway == TRUE
PodGone == ~PodThere

\* restart waits for the pod to be deleted, and then for the VMI to run.
PollPodDeleted ==
  /\ At("pod_deleted")
  /\ PodGone
  /\ pc' = "vmi_running"
  /\ UNCHANGED <<lookup, result>>

PollVmiRunning ==
  /\ At("vmi_running")
  /\ phase = "running"
  /\ pc' = "returned"
  /\ UNCHANGED <<lookup, result>>

\* virsh domstate, where the domain is; an error in another pod, which is not retried.
InDomain == PodThere /\ pod[2] \notin completed /\ phase = "running"
            /\ pod[2] = IF migration = "done" THEN "target" ELSE "first"
\* For the command virsh_cmd looks the launcher up again, reads its user, and asks it for
\* the socket, unless that is root; these lookups are made in one step.
AskedAgain == IF migration \in {"running", "done", "failed"} THEN {"target"} ELSE pods
Answering == {r \in pods \ completed : r = "target" => migration # "scheduled"}
ReadDomstate ==
  /\ At("domstate")
  /\ \/ ~(InDomain /\ AskedAgain \subseteq Answering) /\ pc' = "raised"
     \/ /\ InDomain /\ AskedAgain \cap pods # {}
        /\ pc' = IF paused = (op = "pause") THEN "conditions" ELSE "uid"
  /\ UNCHANGED <<lookup, result>>

Reason == IF setting.shadowed THEN "other" ELSE IF condition THEN "PausedByUser" ELSE "none"

\* Bug: a VMI without a reason is taken for a paused one.
NoStateChange == op = "unpause" => Reason # "PausedByUser"
\* wait_for_vmi_condition_pause_status
StateChanged == op = "pause" <=> Reason = "PausedByUser"

PollConditions ==
  /\ At("conditions")
  /\ \/ phase = "none" /\ pc' = "raised"
     \/ phase # "none" /\ StateChanged /\ pc' = "returned"
  /\ UNCHANGED <<lookup, result>>

\* A timeout. wait_deleted returns False, which restart does not look at.
Expire ==
  /\ ~setting.patient
  /\ pc \in {"ready", "vmi_deleted", "pod_deleted", "vmi_running", "domstate", "conditions"}
  /\ At(pc)
  /\ pc' = CASE pc = "vmi_deleted" -> "returned"
             [] pc = "pod_deleted" -> "vmi_running"
             [] OTHER -> "raised"
  /\ result' = (pc # "vmi_deleted")
  /\ UNCHANGED lookup

-------------------------------------------------------------------------------
(***************************************************************************)
(* KubeVirt.                                                               *)
(***************************************************************************)
Controls == UNCHANGED <<setting, wanted, program>>

CreateVmi ==
  /\ Controls
  /\ wanted /\ phase = "none"
  /\ gen' = gen + 1 /\ phase' = "scheduling"
  /\ again' = FALSE /\ deleting' = FALSE
  /\ migration' = "none" /\ paused' = FALSE /\ condition' = FALSE
  /\ UNCHANGED <<pods, completed, ready>>

CreatePod ==
  /\ Controls
  /\ phase = "scheduling" /\ pods = {}
  /\ pods' = {"first"}
  /\ UNCHANGED <<again, gen, phase, deleting, completed, migration, paused, reports>>

Run ==
  /\ Controls
  /\ phase = "scheduling" /\ pods # {}
  /\ phase' = "running"
  /\ UNCHANGED <<again, gen, deleting, pods, completed, migration, paused, reports>>

DeleteVmi ==
  /\ Controls
  /\ phase \in {"scheduling", "running"} /\ ~deleting /\ (again \/ ~wanted)
  /\ deleting' = TRUE /\ again' = FALSE
  /\ UNCHANGED <<gen, phase, pods, completed, migration, paused, reports>>

\* The guest takes its time; a migration under way is over with it.
Shutdown ==
  /\ Controls
  /\ deleting /\ phase \in {"scheduling", "running"}
  /\ phase' = "final" /\ completed' = pods
  /\ UNCHANGED <<again, gen, deleting, pods, migration, paused, reports>>

Removable(r) == r \in completed /\ (phase = "final" \/ migration \in {"done", "failed"})

\* Bug: the list of those that have ended is not kept.
RemovePodOnly(r) ==
  /\ Controls
  /\ Removable(r)
  /\ pods' = pods \ {r}
  /\ UNCHANGED <<again, gen, phase, deleting, completed, migration, paused, reports>>

\* The pods of a VMI that has ended go before it does. One that a migration ended in may
\* go any time.
RemovePod(r) ==
  /\ Controls
  /\ Removable(r)
  /\ pods' = pods \ {r} /\ completed' = completed \ {r}
  /\ UNCHANGED <<again, gen, phase, deleting, migration, paused, reports>>

VmiGone ==
  /\ Controls
  /\ phase = "final" /\ pods = {}
  /\ phase' = "none"
  /\ UNCHANGED <<again, gen, deleting, pods, completed, migration, paused, reports>>

\* Somebody migrates the VMI, once.
Migrate ==
  /\ Controls
  /\ setting.migrations \in {"succeed", "fail"}
  /\ phase = "running" /\ ~deleting
  /\ \/ /\ migration = "none"
        /\ migration' = "scheduled" /\ pods' = pods \cup {"target"}
        /\ UNCHANGED completed
     \/ /\ migration = "scheduled"
        /\ migration' = "running" /\ UNCHANGED <<pods, completed>>
     \/ /\ migration = "running"
        /\ migration' = "done" /\ completed' = {"first"} /\ UNCHANGED pods
     \/ /\ setting.migrations = "fail"
        /\ migration = "running"
        /\ migration' = "failed" /\ completed' = {"target"} /\ UNCHANGED pods
  /\ UNCHANGED <<again, gen, phase, deleting, paused, reports>>

Report ==
  /\ Controls
  /\ ready' = (phase = "running" /\ ~deleting /\ ~paused)
  /\ condition' = (paused /\ phase = "running")
  /\ reports' # reports
  /\ UNCHANGED machine

-------------------------------------------------------------------------------
WaitStep ==
  \/ PollReady \/ PollVmiDeleted \/ ReadUid \/ ListPods \/ ReadMigrationState
  \/ PollPodDeleted \/ PollVmiRunning \/ ReadDomstate \/ PollConditions \/ Expire

KubeVirtStep ==
  \/ CreateVmi \/ CreatePod \/ Run \/ DeleteVmi \/ Shutdown \/ VmiGone \/ Migrate \/ Report
  \/ \E r \in Roles : RemovePod(r)

Next == WaitStep \/ KubeVirtStep \/ \E o \in Ops, wait \in BOOLEAN : Call(o, wait)

\* A wait goes on polling, and KubeVirt working.
Spec == Init /\ [][Next]_vars /\ WF_vars(WaitStep) /\ WF_vars(KubeVirtStep)

-------------------------------------------------------------------------------
\* A program that waits for each call before it makes the next, and a call of it that
\* returned.
Waited == pc = "returned" /\ ~hasty
\* Nothing takes longer than a timeout, and nobody migrates the VMI meanwhile.
Undisturbed == setting.patient /\ setting.migrations \in {"none", "before"}

\* A machine that was started runs, if the calls before it waited for status.ready too:
\* restart, pause and unpause do not, the next stop may then find it still unset, and the
\* next start still set.
StartedRuns == pc = "returned" /\ op = "start" /\ ~lagging => phase = "running"

\* Whoever was told that a stop is done finds no VMI, after any calls that took too long.
StoppedIsGone == pc = "returned" /\ op = "stop" /\ result /\ ~hasty => phase = "none"

\* A restarted machine has another VMI than before, and it runs.
RestartedIsNew ==
  Waited /\ Undisturbed /\ op = "restart" => phase = "running" /\ gen > before

\* A paused VMI is, and is reported to be; an unpaused one is not.
PausedIsPaused ==
  Waited /\ Undisturbed =>
    /\ op = "pause" => paused /\ condition
    /\ op = "unpause" => ~paused /\ (~setting.shadowed => ~condition)

\* "We need to return the Pod that is not in Completed status", unless the VMI has ended
\* and there is none, or a migration failed.
LauncherRuns ==
  [][setting.migrations # "fail" /\ phase = "running" /\ pod' # pod => pod'[2] \notin completed]_vars

\* The same of any migration.
LauncherIsNotCompleted == [][phase = "running" /\ pod' # pod => pod'[2] \notin completed]_vars

\* A wait does not miss what it waits for, but restart may: it may find the new pod and
\* wait for that to be deleted.
Answered ==
  Undisturbed /\ ~hasty /\ ~setting.shadowed /\ op # "restart" /\ pc # "idle" ~> Ended
===============================================================================
