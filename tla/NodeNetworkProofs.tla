--------------------------- MODULE NodeNetworkProofs ---------------------------
(***************************************************************************)
(* What a policy leaves behind, for any number of nodes.                   *)
(***************************************************************************)
EXTENDS NodeNetwork, TLAPS

LEMMA OriginalType == ASSUME NEW n \in Node PROVE Original(n) \in Conf
BY DEF Original, Conf

-------------------------------------------------------------------------------
(***************************************************************************)
(* The inductive invariant.                                                *)
(***************************************************************************)
\* Before the policy is created, nothing is changed; the backup is of what was.
Untouched ==
  /\ pc \in {"backup", "create"} =>
       /\ policy = "none" /\ bridge = {} /\ todo = {} /\ available = "none" /\ ~failed
       /\ \A n \in Node : ip[n] = Original(n)
  /\ pc # "backup" => backup = Original(First)

\* Where the program is, and which edit of the policy it is.
Edit ==
  /\ pc \in {"wait", "body", "exit", "absent"} => policy = "up"
  /\ pc = "body" => available = "true"
  /\ policy = "absent" => pc \in {"wait_absent", "delete", "end"} /\ restored = backup
  /\ pc = "wait_absent" => policy = "absent"
  /\ policy = "none" => todo = {} /\ available = "none"
  /\ pc = "end" /\ setting.teardown /\ ~setting.skip => policy = "none"

\* A node that nmstate has done has the bridge, and its port no configuration.
Up ==
  policy = "up" =>
    /\ \A n \in Node : IF n \in bridge THEN ip[n] = None ELSE ip[n] = Original(n)
    /\ available = "none" => todo = Node /\ bridge = {}
    /\ available = "unknown" => bridge = Node \ todo
    /\ available = "true" => bridge = Node
    /\ available \in {"true", "failed"} => todo = {}

\* A node that nmstate has done, for the edit that removes the bridge, is as it was.
Absented ==
  policy = "absent" /\ Favourable =>
    /\ \A n \in Node : n \notin bridge => ip[n] = Original(n)
    /\ available = "none" => todo = Node
    /\ available = "unknown" => bridge \subseteq todo
    /\ available = "true" => bridge = {}
    /\ available \in {"true", "failed"} => todo = {}

\* At most the configured number of failures is used up, one by a deploy that failed.
Failures ==
  /\ available = "failed" => failures = 1
  /\ setting.patient /\ failed => failures = 1
  /\ policy = "absent" /\ setting.resets /\ (setting.failures = 0 \/ (setting.patient /\ failed))
       => available # "failed"

\* Once the program deletes the policy, or has done so, the nodes are restored.
Removed ==
  /\ pc \in {"delete", "end"} /\ Favourable /\ setting.teardown /\ setting.teardownAbsentIfaces
       /\ (setting.failures = 0 \/ failed)
       => bridge = {} /\ \A n \in Node : ip[n] = Original(n)
  /\ pc \in {"delete", "end"} /\ Favourable /\ setting.teardown /\ setting.teardownAbsentIfaces
       /\ (setting.failures = 0 \/ failed) => available = "true" \/ policy = "none"
  /\ pc \in {"absent", "wait_absent", "delete"} => setting.teardown

IInv == TypeOK /\ Untouched /\ Edit /\ Up /\ Absented /\ Failures /\ Removed

USE NetworkAssumption

-------------------------------------------------------------------------------
LEMMA InitInv == Init => IInv
<1> SUFFICES ASSUME Init PROVE IInv
  OBVIOUS
<1>1. TypeOK
  <2>1. setting \in Settings /\ setting.failures \in 0..1
    BY DEF Init, Setting
  <2>2. ip \in [Node -> Conf]
    BY OriginalType DEF Init
  <2>3. failures \in 0..1 /\ failures <= setting.failures
    BY <2>1 DEF Init
  <2>4. policy = "none" /\ available = "none" /\ pc = "backup" /\ failed = FALSE
        /\ bridge = {} /\ todo = {} /\ restored = None /\ backup = None
    BY DEF Init
  <2> QED
    BY <2>1, <2>2, <2>3, <2>4 DEF TypeOK, Conf
<1> QED
  BY <1>1 DEF Init, IInv, Untouched, Edit, Up, Absented, Failures, Removed

LEMMA BackUpKeeps == ASSUME IInv, BackUp PROVE IInv'
<1>1. TypeOK'
  BY OriginalType DEF IInv, BackUp, PortsBackup, cluster, TypeOK, Setting, Conf
<1>2. Untouched'
  BY DEF IInv, BackUp, PortsBackup, cluster, TypeOK, Untouched, Original
<1>3. Edit'
  BY DEF IInv, BackUp, PortsBackup, cluster, TypeOK, Untouched, Edit
<1>4. Up'
  BY DEF IInv, BackUp, PortsBackup, cluster, TypeOK, Untouched, Edit, Up, Original
<1>5. Absented'
  BY DEF IInv, BackUp, PortsBackup, cluster, TypeOK, Untouched, Edit, Up, Absented, Original, Favourable
<1>6. Failures'
  BY DEF IInv, BackUp, PortsBackup, cluster, TypeOK, Setting, Untouched, Edit, Failures, Favourable
<1>7. Removed'
  BY DEF IInv, BackUp, PortsBackup, cluster, TypeOK, Setting, Untouched, Edit, Absented, Failures, Removed, Original, Favourable
<1> QED
  BY <1>1, <1>2, <1>3, <1>4, <1>5, <1>6, <1>7 DEF IInv

LEMMA CreateKeeps == ASSUME IInv, Create PROVE IInv'
<1>1. TypeOK'
  BY OriginalType DEF IInv, Create, cluster, TypeOK, Setting, Conf
<1>2. Untouched'
  BY DEF IInv, Create, cluster, TypeOK, Untouched, Original
<1>3. Edit'
  BY DEF IInv, Create, cluster, TypeOK, Untouched, Edit
<1>4. Up'
  BY DEF IInv, Create, cluster, TypeOK, Untouched, Edit, Up, Original
<1>5. Absented'
  BY DEF IInv, Create, cluster, TypeOK, Untouched, Edit, Up, Absented, Original, Favourable
<1>6. Failures'
  BY DEF IInv, Create, cluster, TypeOK, Setting, Untouched, Edit, Failures, Favourable
<1>7. Removed'
  BY DEF IInv, Create, cluster, TypeOK, Setting, Untouched, Edit, Absented, Failures, Removed, Original, Favourable
<1> QED
  BY <1>1, <1>2, <1>3, <1>4, <1>5, <1>6, <1>7 DEF IInv

LEMMA WaitSuccessKeeps == ASSUME IInv, WaitSuccess PROVE IInv'
<1>1. TypeOK'
  BY OriginalType DEF IInv, WaitSuccess, Success, cluster, TypeOK, Setting, Conf
<1>2. Untouched'
  BY DEF IInv, WaitSuccess, Success, cluster, TypeOK, Untouched, Original
<1>3. Edit'
  BY DEF IInv, WaitSuccess, Success, cluster, TypeOK, Untouched, Edit
<1>4. Up'
  BY DEF IInv, WaitSuccess, Success, cluster, TypeOK, Untouched, Edit, Up, Original
<1>5. Absented'
  BY DEF IInv, WaitSuccess, Success, cluster, TypeOK, Untouched, Edit, Up, Absented, Original, Favourable
<1>6. Failures'
  BY DEF IInv, WaitSuccess, Success, cluster, TypeOK, Setting, Untouched, Edit, Failures, Favourable
<1>7. Removed'
  BY DEF IInv, WaitSuccess, Success, cluster, TypeOK, Setting, Untouched, Edit, Absented, Failures, Removed, Original, Favourable
<1> QED
  BY <1>1, <1>2, <1>3, <1>4, <1>5, <1>6, <1>7 DEF IInv

LEMMA WaitFailedKeeps == ASSUME IInv, WaitFailed PROVE IInv'
<1>1. TypeOK'
  BY OriginalType DEF IInv, WaitFailed, Success, cluster, TypeOK, Setting, Conf
<1>2. Untouched'
  BY DEF IInv, WaitFailed, Success, cluster, TypeOK, Untouched, Original
<1>3. Edit'
  BY DEF IInv, WaitFailed, Success, cluster, TypeOK, Untouched, Edit
<1>4. Up'
  BY DEF IInv, WaitFailed, Success, cluster, TypeOK, Untouched, Edit, Up, Original
<1>5. Absented'
  BY DEF IInv, WaitFailed, Success, cluster, TypeOK, Untouched, Edit, Up, Absented, Original, Favourable
<1>6. Failures'
  BY DEF IInv, WaitFailed, Success, cluster, TypeOK, Setting, Untouched, Edit, Failures, Favourable
<1>7. Removed'
  BY DEF IInv, WaitFailed, Success, cluster, TypeOK, Setting, Untouched, Edit, Absented, Failures, Removed, Original, Favourable
<1> QED
  BY <1>1, <1>2, <1>3, <1>4, <1>5, <1>6, <1>7 DEF IInv

LEMMA LeaveKeeps == ASSUME IInv, Leave PROVE IInv'
<1>1. TypeOK'
  BY OriginalType DEF IInv, Leave, cluster, TypeOK, Setting, Conf
<1>2. Untouched'
  BY DEF IInv, Leave, cluster, TypeOK, Untouched, Original
<1>3. Edit'
  BY DEF IInv, Leave, cluster, TypeOK, Untouched, Edit
<1>4. Up'
  BY DEF IInv, Leave, cluster, TypeOK, Untouched, Edit, Up, Original
<1>5. Absented'
  BY DEF IInv, Leave, cluster, TypeOK, Untouched, Edit, Up, Absented, Original, Favourable
<1>6. Failures'
  BY DEF IInv, Leave, cluster, TypeOK, Setting, Untouched, Edit, Failures, Favourable
<1>7. Removed'
  BY DEF IInv, Leave, cluster, TypeOK, Setting, Untouched, Edit, Absented, Failures, Removed, Original, Favourable
<1> QED
  BY <1>1, <1>2, <1>3, <1>4, <1>5, <1>6, <1>7 DEF IInv

LEMMA ExitKeeps == ASSUME IInv, Exit PROVE IInv'
<1>1. TypeOK'
  BY OriginalType DEF IInv, Exit, cluster, TypeOK, Setting, Conf
<1>2. Untouched'
  BY DEF IInv, Exit, cluster, TypeOK, Untouched, Original
<1>3. Edit'
  BY DEF IInv, Exit, cluster, TypeOK, Untouched, Edit
<1>4. Up'
  BY DEF IInv, Exit, cluster, TypeOK, Untouched, Edit, Up, Original
<1>5. Absented'
  BY DEF IInv, Exit, cluster, TypeOK, Untouched, Edit, Up, Absented, Original, Favourable
<1>6. Failures'
  BY DEF IInv, Exit, cluster, TypeOK, Setting, Untouched, Edit, Failures, Favourable
<1>7. Removed'
  BY DEF IInv, Exit, cluster, TypeOK, Setting, Untouched, Edit, Absented, Failures, Removed, Original, Favourable
<1> QED
  BY <1>1, <1>2, <1>3, <1>4, <1>5, <1>6, <1>7 DEF IInv

LEMMA AbsentKeeps == ASSUME IInv, Absent PROVE IInv'
<1>1. TypeOK'
  BY OriginalType DEF IInv, Absent, Reset, cluster, TypeOK, Setting, Conf
<1>2. Untouched'
  BY DEF IInv, Absent, Reset, cluster, TypeOK, Untouched, Original
<1>3. Edit'
  BY DEF IInv, Absent, Reset, cluster, TypeOK, Untouched, Edit
<1>4. Up'
  BY DEF IInv, Absent, Reset, cluster, TypeOK, Untouched, Edit, Up, Original
<1>5. Absented'
  BY DEF IInv, Absent, Reset, cluster, TypeOK, Untouched, Edit, Up, Absented, Original, Favourable
<1>6. Failures'
  BY DEF IInv, Absent, Reset, cluster, TypeOK, Setting, Untouched, Edit, Failures, Favourable
<1>7. Removed'
  BY DEF IInv, Absent, Reset, cluster, TypeOK, Setting, Untouched, Edit, Absented, Failures, Removed, Original, Favourable
<1> QED
  BY <1>1, <1>2, <1>3, <1>4, <1>5, <1>6, <1>7 DEF IInv

LEMMA AbsentFailsKeeps == ASSUME IInv, AbsentFails PROVE IInv'
<1>1. TypeOK'
  BY OriginalType DEF IInv, AbsentFails, cluster, TypeOK, Setting, Conf
<1>2. Untouched'
  BY DEF IInv, AbsentFails, cluster, TypeOK, Untouched, Original
<1>3. Edit'
  BY DEF IInv, AbsentFails, cluster, TypeOK, Untouched, Edit
<1>4. Up'
  BY DEF IInv, AbsentFails, cluster, TypeOK, Untouched, Edit, Up, Original
<1>5. Absented'
  BY DEF IInv, AbsentFails, cluster, TypeOK, Untouched, Edit, Up, Absented, Original, Favourable
<1>6. Failures'
  BY DEF IInv, AbsentFails, cluster, TypeOK, Setting, Untouched, Edit, Failures, Favourable
<1>7. Removed'
  BY DEF IInv, AbsentFails, cluster, TypeOK, Setting, Untouched, Edit, Absented, Failures, Removed, Original, Favourable
<1> QED
  BY <1>1, <1>2, <1>3, <1>4, <1>5, <1>6, <1>7 DEF IInv

LEMMA WaitAbsentKeeps == ASSUME IInv, WaitAbsent PROVE IInv'
<1>1. TypeOK'
  BY OriginalType DEF IInv, WaitAbsent, WaitOver, cluster, TypeOK, Setting, Conf
<1>2. Untouched'
  BY DEF IInv, WaitAbsent, WaitOver, cluster, TypeOK, Untouched, Original
<1>3. Edit'
  BY DEF IInv, WaitAbsent, WaitOver, cluster, TypeOK, Untouched, Edit
<1>4. Up'
  BY DEF IInv, WaitAbsent, WaitOver, cluster, TypeOK, Untouched, Edit, Up, Original
<1>5. Absented'
  BY DEF IInv, WaitAbsent, WaitOver, cluster, TypeOK, Untouched, Edit, Up, Absented, Original, Favourable
<1>6. Failures'
  BY DEF IInv, WaitAbsent, WaitOver, cluster, TypeOK, Setting, Untouched, Edit, Failures, Favourable
<1>7. Removed'
  BY DEF IInv, WaitAbsent, WaitOver, cluster, TypeOK, Setting, Untouched, Edit, Absented, Failures, Removed, Original, Favourable
<1> QED
  BY <1>1, <1>2, <1>3, <1>4, <1>5, <1>6, <1>7 DEF IInv

LEMMA DeleteKeeps == ASSUME IInv, Delete PROVE IInv'
<1>1. TypeOK'
  BY OriginalType DEF IInv, Delete, Skipped, cluster, TypeOK, Setting, Conf
<1>2. Untouched'
  BY DEF IInv, Delete, Skipped, cluster, TypeOK, Untouched, Original
<1>3. Edit'
  BY DEF IInv, Delete, Skipped, cluster, TypeOK, Untouched, Edit
<1>4. Up'
  BY DEF IInv, Delete, Skipped, cluster, TypeOK, Untouched, Edit, Up, Original
<1>5. Absented'
  BY DEF IInv, Delete, Skipped, cluster, TypeOK, Untouched, Edit, Up, Absented, Original, Favourable
<1>6. Failures'
  BY DEF IInv, Delete, Skipped, cluster, TypeOK, Setting, Untouched, Edit, Failures, Favourable
<1>7. Removed'
  BY DEF IInv, Delete, Skipped, cluster, TypeOK, Setting, Untouched, Edit, Absented, Failures, Removed, Original, Favourable
<1> QED
  BY <1>1, <1>2, <1>3, <1>4, <1>5, <1>6, <1>7 DEF IInv

LEMMA ProgressKeeps == ASSUME IInv, Progress PROVE IInv'
<1>1. TypeOK'
  BY OriginalType DEF IInv, Progress, Controls, cluster, TypeOK, Setting, Conf
<1>2. Untouched'
  BY DEF IInv, Progress, Controls, cluster, TypeOK, Untouched, Original
<1>3. Edit'
  BY DEF IInv, Progress, Controls, cluster, TypeOK, Untouched, Edit, Up
<1>4. Up'
  BY DEF IInv, Progress, Controls, cluster, TypeOK, Untouched, Edit, Up, Original
<1>5. Absented'
  BY DEF IInv, Progress, Controls, cluster, TypeOK, Untouched, Edit, Up, Absented, Original, Favourable
<1>6. Failures'
  BY DEF IInv, Progress, Controls, cluster, TypeOK, Setting, Untouched, Edit, Failures, Favourable
<1>7. Removed'
  BY DEF IInv, Progress, Controls, cluster, TypeOK, Setting, Untouched, Edit, Up, Absented, Failures, Removed, Original, Favourable
<1> QED
  BY <1>1, <1>2, <1>3, <1>4, <1>5, <1>6, <1>7 DEF IInv

LEMMA ReportKeeps == ASSUME IInv, Report PROVE IInv'
<1>1. TypeOK'
  BY OriginalType DEF IInv, Report, Controls, cluster, TypeOK, Setting, Conf
<1>2. Untouched'
  BY DEF IInv, Report, Controls, cluster, TypeOK, Untouched, Original
<1>3. Edit'
  BY DEF IInv, Report, Controls, cluster, TypeOK, Untouched, Edit
<1>4. Up'
  BY DEF IInv, Report, Controls, cluster, TypeOK, Untouched, Edit, Up, Original
<1>5. Absented'
  BY DEF IInv, Report, Controls, cluster, TypeOK, Untouched, Edit, Up, Absented, Original, Favourable
<1>6. Failures'
  BY DEF IInv, Report, Controls, cluster, TypeOK, Setting, Untouched, Edit, Failures, Favourable
<1>7. Removed'
  BY DEF IInv, Report, Controls, cluster, TypeOK, Setting, Untouched, Edit, Absented, Failures, Removed, Original, Favourable
<1> QED
  BY <1>1, <1>2, <1>3, <1>4, <1>5, <1>6, <1>7 DEF IInv

LEMMA ConfigureKeeps == ASSUME NEW n \in Node, IInv, Configure(n) PROVE IInv'
<1>1. TypeOK'
  BY OriginalType DEF IInv, Configure, Controls, cluster, TypeOK, Setting, Conf
<1>2. Untouched'
  BY DEF IInv, Configure, Controls, cluster, TypeOK, Untouched, Original
<1>3. Edit'
  BY DEF IInv, Configure, Controls, cluster, TypeOK, Untouched, Edit
<1>4. Up'
  BY DEF IInv, Configure, Controls, cluster, TypeOK, Untouched, Edit, Up, Original
<1>5. Absented'
  BY DEF IInv, Configure, Controls, cluster, TypeOK, Untouched, Edit, Up, Absented, Original, Favourable
<1>6. Failures'
  BY DEF IInv, Configure, Controls, cluster, TypeOK, Setting, Untouched, Edit, Failures, Favourable
<1>7. Removed'
  BY DEF IInv, Configure, Controls, cluster, TypeOK, Setting, Untouched, Edit, Up, Absented, Failures, Removed, Original, Favourable
<1> QED
  BY <1>1, <1>2, <1>3, <1>4, <1>5, <1>6, <1>7 DEF IInv

LEMMA FailKeeps == ASSUME NEW n \in Node, IInv, Fail(n) PROVE IInv'
<1>1. TypeOK'
  BY OriginalType DEF IInv, Fail, Controls, cluster, TypeOK, Setting, Conf
<1>2. Untouched'
  BY DEF IInv, Fail, Controls, cluster, TypeOK, Untouched, Original
<1>3. Edit'
  BY DEF IInv, Fail, Controls, cluster, TypeOK, Untouched, Edit
<1>4. Up'
  BY DEF IInv, Fail, Controls, cluster, TypeOK, Untouched, Edit, Up, Original
<1>5. Absented'
  BY DEF IInv, Fail, Controls, cluster, TypeOK, Untouched, Edit, Up, Absented, Original, Favourable
<1>6. Failures'
  BY DEF IInv, Fail, Controls, cluster, TypeOK, Setting, Untouched, Edit, Failures, Favourable
<1>7. Removed'
  BY DEF IInv, Fail, Controls, cluster, TypeOK, Setting, Untouched, Edit, Absented, Failures, Removed, Original, Favourable
<1> QED
  BY <1>1, <1>2, <1>3, <1>4, <1>5, <1>6, <1>7 DEF IInv

-------------------------------------------------------------------------------
LEMMA NextInv == IInv /\ [Next]_vars => IInv'
<1> SUFFICES ASSUME IInv, [Next]_vars PROVE IInv'
  OBVIOUS
<1>1. CASE ProgramStep
  BY <1>1, BackUpKeeps, CreateKeeps, WaitSuccessKeeps, WaitFailedKeeps, LeaveKeeps, ExitKeeps,
     AbsentKeeps, AbsentFailsKeeps, WaitAbsentKeeps, DeleteKeeps
  DEF ProgramStep
<1>2. CASE NmstateStep
  BY <1>2, ProgressKeeps, ReportKeeps, ConfigureKeeps, FailKeeps DEF NmstateStep
<1>3. CASE UNCHANGED vars
  BY <1>3 DEF IInv, TypeOK, Untouched, Edit, Up, Absented, Failures, Removed, Original, Favourable,
              vars, cluster
<1> QED
  BY <1>1, <1>2, <1>3 DEF Next

LEMMA Invariant == Spec => []IInv
BY InitInv, NextInv, PTL DEF Spec

\* Policy, nodes and program keep their form, for any nodes and settings.
THEOREM TypeCorrect == Spec => []TypeOK
<1>1. IInv => TypeOK
  BY DEF IInv
<1> QED
  BY Invariant, <1>1, PTL

\* deploy (node_network_configuration_policy.py:294-305) returns only when the bridge is on
\* every node.
THEOREM BridgeIsThere == Spec => []BodyHasBridge
<1>1. IInv => BodyHasBridge
  BY DEF IInv, Edit, Up, BodyHasBridge
<1> QED
  BY Invariant, <1>1, PTL

\* clean_up (node_network_configuration_policy.py:307-315) leaves no policy behind that is
\* to be torn down, whatever fails in it or before it.
THEOREM PoliciesAreRemoved == Spec => []NoPolicyLeft
<1>1. IInv => NoPolicyLeft
  BY DEF IInv, Edit, NoPolicyLeft
<1> QED
  BY Invariant, <1>1, PTL

\* Under the conditions that Favourable names, the bridge and what it took from its port are
\* undone on every node, also those a failed deploy got to.
THEOREM NodesAreRestored == Spec => []NodesRestored
<1>1. IInv => NodesRestored
  BY DEF IInv, Removed, NodesRestored
<1> QED
  BY Invariant, <1>1, PTL
===============================================================================
