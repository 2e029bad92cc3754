-------------------------- MODULE MCResourceLifecycle --------------------------
(***************************************************************************)
(* Settings of ResourceLifecycle for TLC.                                  *)
(***************************************************************************)
EXTENDS ResourceLifecycle

\* An object that may be reused, Ctrl-C anywhere; and one of its own.
Reused == [reuse |-> TRUE, waitForCreate |-> TRUE, teardown |-> TRUE, skipTeardown |-> FALSE,
           sigintIn |-> Part, otherCreates |-> {"before", "later"}, otherDeletes |-> TRUE]
Owned == [Reused EXCEPT !.reuse = FALSE, !.waitForCreate = FALSE,
                        !.sigintIn = {"body", "exit"}, !.otherCreates = {"before"}]

MCSettings == {Reused, Owned}
===============================================================================
