----------------------------- MODULE TemporaryEdit -----------------------------
(***************************************************************************)
(* What a with statement on a ResourceEditor promises, without patches,    *)
(* backups, requests or retries: the things wanted are edited one by one   *)
(* while it is entered, all of them are edited inside, and they are put    *)
(* back one by one while it is left.  It may fail on the way in or out.    *)
(***************************************************************************)
CONSTANT Thing

VARIABLES
    wanted,  \* the things whose edit changes something
    edited,  \* the things that are edited
    phase    \* "before", "entering", "inside", "leaving", "after", "failed"

vars == <<wanted, edited, phase>>

Init ==
    /\ wanted \subseteq Thing
    /\ edited = {}
    /\ phase = "before"

Go(from, to) == phase = from /\ phase' = to /\ UNCHANGED <<wanted, edited>>

Enter == Go("before", "entering")
Inside == edited = wanted /\ Go("entering", "inside")
Leave == Go("inside", "leaving")
Leaving == edited = {} /\ Go("leaving", "after")

\* One thing is edited or put back; the step that does it may also fail.
Change(from, set) ==
    /\ phase = from
    /\ phase' \in {from, "failed"}
    /\ edited' = set
    /\ UNCHANGED wanted

EditOne == \E t \in wanted : Change("entering", edited \union {t})
UndoOne == \E t \in wanted : Change("leaving", edited \ {t})

Fail == Go("entering", "failed") \/ Go("leaving", "failed")

Next == Enter \/ Inside \/ Leave \/ Leaving \/ EditOne \/ UndoOne \/ Fail

Spec == Init /\ [][Next]_vars
===============================================================================
