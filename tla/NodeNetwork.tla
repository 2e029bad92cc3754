------------------------------ MODULE NodeNetwork ------------------------------
(***************************************************************************)
(* A NodeNetworkConfigurationPolicy used with `with`: a bridge over a port *)
(* is configured on every node, and removed again when the policy is       *)
(* cleaned up; the port, which loses its IP configuration to the bridge,   *)
(* gets it back. nmstate configures the nodes one after the other, rolls a *)
(* node that failed back, and reports in the policy's Available condition. *)
(***************************************************************************)
EXTENDS Naturals

CONSTANTS
  Node,
  First,     \* nodes[0], whose state stands for that of all
  Settings,  \* see Setting
  None       \* no IP configuration

\*   addresses  of the port: "dhcp", or "static", another on each node
\*   resets     an edit of the policy takes back what was reported before it
\*   patient    success_timeout is longer than nmstate takes, and requests succeed
\*   failures   nodes that fail to be configured, at most
\*   teardown, teardownAbsentIfaces  the constructor's arguments
\*   skip       SKIP_RESOURCE_TEARDOWN names the policy
Setting ==
  [addresses : {"dhcp", "static"}, resets : BOOLEAN, patient : BOOLEAN, failures : 0..1,
   teardown : BOOLEAN, teardownAbsentIfaces : BOOLEAN, skip : BOOLEAN]

ASSUME NetworkAssumption ==
  /\ First \in Node /\ None \notin Node /\ None # "dhcp"
  /\ Settings \subseteq Setting

VARIABLES
  setting,
  policy,     \* desiredState: "none" without a policy, "up", or "absent"
  restored,   \* the IP configuration of the port in it
  bridge,     \* nodes that have the bridge
  ip,         \* of each node, the port's IP configuration
  todo,       \* nodes that nmstate has not configured for the policy's last edit
  available,  \* "none", "unknown", "true" or "failed"
  failures,
  pc,
  backup,     \* ipv4_ports_backup_dict and ipv6_ports_backup_dict
  failed      \* deploy is about to raise

cluster == <<policy, restored, bridge, ip, todo, available, failures>>
vars == <<setting, cluster, pc, backup, failed>>

Conf == Node \cup {"dhcp", None}
Original(n) == IF setting.addresses = "dhcp" THEN "dhcp" ELSE n

TypeOK ==
  /\ setting \in Settings
  /\ policy \in {"none", "up", "absent"}
  /\ restored \in Conf /\ backup \in Conf
  /\ bridge \subseteq Node /\ todo \subseteq Node
  /\ ip \in [Node -> Conf]
  /\ available \in {"none", "unknown", "true", "failed"}
  /\ failures \in 0..1 /\ failures <= setting.failures
  /\ pc \in {"backup", "create", "wait", "body", "exit", "absent", "wait_absent", "delete", "end"}
  /\ failed \in BOOLEAN

Init ==
  /\ setting \in Settings
  /\ policy = "none" /\ restored = None
  /\ bridge = {} /\ todo = {}
  /\ ip = [n \in Node |-> Original(n)]
  /\ available = "none"
  /\ failures = 0
  /\ pc = "backup" /\ backup = None /\ failed = FALSE

-------------------------------------------------------------------------------
(***************************************************************************)
(* The program: deploy, the body, __exit__ with clean_up.                  *)
(***************************************************************************)
\* Bug: no backup.
NoBackup == None
\* _ports_backup, of both families.
PortsBackup == ip[First]

BackUp ==
  /\ pc = "backup"
  /\ backup' = PortsBackup
  /\ pc' = "create"
  /\ UNCHANGED <<setting, cluster, failed>>

Create ==
  /\ pc = "create"
  /\ policy' = "up" /\ todo' = Node
  /\ pc' = "wait"
  /\ UNCHANGED <<setting, restored, bridge, ip, available, failures, backup, failed>>

\* Bug: a policy that has not failed is taken for one that is configured.
NotFailed == available # "failed"
\* wait_for_status_success
Success == available = "true"

WaitSuccess ==
  /\ pc = "wait"
  /\ Success
  /\ pc' = "body"
  /\ UNCHANGED <<setting, cluster, backup, failed>>

\* Failed or expired: deploy calls __exit__, and then raises.
WaitFailed ==
  /\ pc = "wait"
  /\ ~Success /\ (available = "failed" \/ ~setting.patient)
  /\ pc' = "exit" /\ failed' = TRUE
  /\ UNCHANGED <<setting, cluster, backup>>

Leave ==
  /\ pc = "body"
  /\ pc' = "exit"
  /\ UNCHANGED <<setting, cluster, backup, failed>>

Exit ==
  /\ pc = "exit"
  /\ pc' = IF ~setting.teardown THEN "end"
           ELSE IF setting.teardownAbsentIfaces THEN "absent" ELSE "delete"
  /\ UNCHANGED <<setting, cluster, backup, failed>>

\* What becomes of the condition.
Reset == IF setting.resets THEN "none" ELSE available

\* _absent_interface: one edit.
Absent ==
  /\ pc = "absent"
  /\ policy' = "absent" /\ restored' = backup /\ todo' = Node
  /\ available' = Reset
  /\ pc' = "wait_absent"
  /\ UNCHANGED <<setting, bridge, ip, failures, backup, failed>>

\* The edit may fail too; that is logged.
AbsentFails ==
  /\ pc = "absent" /\ ~setting.patient
  /\ pc' = "delete"
  /\ UNCHANGED <<setting, cluster, backup, failed>>

\* Bugs: the policy is deleted at once; only success is waited for.
AtOnce == TRUE
OnSuccess == Success \/ ~setting.patient
\* Any exception of the wait is logged, and the policy deleted.
WaitOver == available \in {"true", "failed"} \/ ~setting.patient

WaitAbsent ==
  /\ pc = "wait_absent"
  /\ WaitOver
  /\ pc' = "delete"
  /\ UNCHANGED <<setting, cluster, backup, failed>>

\* Bug: a deploy that failed keeps its policy.
KeptWhenFailed == setting.skip \/ failed
\* Resource.clean_up
Skipped == setting.skip

Delete ==
  /\ pc = "delete"
  /\ IF Skipped THEN UNCHANGED <<policy, todo, available>>
                ELSE policy' = "none" /\ todo' = {} /\ available' = "none"
  /\ pc' = "end"
  /\ UNCHANGED <<setting, restored, bridge, ip, failures, backup, failed>>

-------------------------------------------------------------------------------
(***************************************************************************)
(* nmstate.                                                                *)
(***************************************************************************)
Controls == UNCHANGED <<setting, policy, restored, pc, backup, failed>>

Progress ==
  /\ Controls
  /\ policy # "none" /\ todo # {} /\ available # "unknown"
  /\ available' = "unknown"
  /\ UNCHANGED <<bridge, ip, todo, failures>>

Configure(n) ==
  /\ Controls
  /\ available = "unknown" /\ n \in todo
  /\ todo' = todo \ {n}
  /\ bridge' = IF policy = "up" THEN bridge \cup {n} ELSE bridge \ {n}
  /\ ip' = [ip EXCEPT ![n] = IF policy = "up" THEN None ELSE IF restored = None THEN @ ELSE restored]
  /\ UNCHANGED <<available, failures>>

\* Bug: it goes on failing.
FailAgain(n) ==
  /\ Controls
  /\ available = "unknown" /\ n \in todo
  /\ failures' = failures + 1
  /\ todo' = {}
  /\ available' = "failed"
  /\ UNCHANGED <<bridge, ip>>

\* A node fails, is rolled back, and no other is tried.
Fail(n) ==
  /\ Controls
  /\ available = "unknown" /\ n \in todo
  /\ failures < setting.failures /\ failures' = failures + 1
  /\ todo' = {}
  /\ available' = "failed"
  /\ UNCHANGED <<bridge, ip>>

Report ==
  /\ Controls
  /\ available = "unknown" /\ todo = {}
  /\ available' = "true"
  /\ UNCHANGED <<bridge, ip, todo, failures>>

-------------------------------------------------------------------------------
ProgramStep ==
  \/ BackUp \/ Create \/ WaitSuccess \/ WaitFailed \/ Leave \/ Exit
  \/ Absent \/ AbsentFails \/ WaitAbsent \/ Delete
NmstateStep == Progress \/ Report \/ \E n \in Node : Configure(n) \/ Fail(n)
Next == ProgramStep \/ NmstateStep

\* The body ends; waits go on polling; nmstate goes on.
Spec == Init /\ [][Next]_vars /\ WF_vars(ProgramStep) /\ WF_vars(NmstateStep)

-------------------------------------------------------------------------------
\* What the body runs in: the bridge is on every node.
BodyHasBridge == pc = "body" => bridge = Node

\* Nothing is left of a policy that is to be torn down, nor of one that failed.
NoPolicyLeft == pc = "end" /\ setting.teardown /\ ~setting.skip => policy = "none"

\* nmstate reports nothing of before an edit, is fast enough and does not fail twice; all
\* nodes' ports have the configuration of the first.
Favourable == setting.resets /\ setting.patient /\ setting.addresses = "dhcp"

\* A policy that is done has left the nodes as they were, also if it failed on some.
NodesRestored ==
  pc = "end" /\ Favourable /\ setting.teardown /\ setting.teardownAbsentIfaces /\ ~setting.skip
    /\ (setting.failures = 0 \/ failed)
    => bridge = {} /\ \A n \in Node : ip[n] = Original(n)

\* Whatever nmstate does, and whatever fails, the program comes to its end: each of its waits
\* is over when nmstate reports, or with its timeout.
Ends == <>(pc = "end")
===============================================================================
