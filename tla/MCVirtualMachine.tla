---------------------------- MODULE MCVirtualMachine ----------------------------
(***************************************************************************)
(* Settings of VirtualMachine for TLC.                                     *)
(***************************************************************************)
EXTENDS VirtualMachine

Calm == [patient |-> TRUE, migrations |-> "none", shadowed |-> FALSE]
MCSettings ==
  {[Calm EXCEPT !.migrations = m] : m \in {"none", "before", "succeed", "fail"}}
    \cup {[Calm EXCEPT !.patient = FALSE], [Calm EXCEPT !.shadowed = TRUE]}
OnlyFailing == {[patient |-> TRUE, migrations |-> "fail", shadowed |-> FALSE]}
===============================================================================
