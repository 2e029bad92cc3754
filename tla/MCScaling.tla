------------------------------- MODULE MCScaling -------------------------------
(***************************************************************************)
(* Settings of Scaling for TLC.                                            *)
(***************************************************************************)
EXTENDS Scaling

\* A Deployment that is scaled, waited for with any timeout, and may be deleted; one that
\* is waited for to be empty, whose status is settled before.
Deployments ==
  [kind : {"deployment"}, deployed : {TRUE}, fresh : BOOLEAN, change : {"none", "scale"},
   patient : {FALSE}, deletes : {TRUE}]
Emptied ==
  [kind : {"deployment"}, deployed : {FALSE}, fresh : {FALSE}, change : {"scale"},
   patient : {FALSE}, deletes : {TRUE}]
\* The others are waited for when they were just made.
Others ==
  [kind : {"machine_set", "daemon_set"}, deployed : {TRUE}, fresh : {TRUE},
   change : {"none"}, patient : {FALSE}, deletes : {TRUE}]
Patient(settings) == {[s EXCEPT !.patient = TRUE, !.deletes = FALSE] : s \in settings}

Impatient == Deployments \cup Emptied \cup Others
\* A rollout that is waited for long enough.
Rollout == [kind : {"deployment"}, deployed : {TRUE}, fresh : {FALSE}, change : {"template"},
            patient : {TRUE}, deletes : {FALSE}]

MCSettings == Impatient \cup Patient(Impatient) \cup Rollout

\* MachineSet.scale_replicas.
OnlyScaledMachineSet == {[s EXCEPT !.change = "scale", !.fresh = FALSE] :
                           s \in {t \in Patient(Others) : t.kind = "machine_set"}}
===============================================================================
