--------------------------- MODULE MCResourceEditor ---------------------------
(***************************************************************************)
(* Small instances of ResourceEditor for TLC.                              *)
(***************************************************************************)
EXTENDS ResourceEditor, TLC

CONSTANTS Spec1, F, G, A, B

MCKey == {Meta, Spec1}
MCField == {F, G}
MCAtom == {A, B}

\* {metadata: {}}, {metadata: {F: A}, spec: {F: A}}, {metadata: {}, spec: A}.
Bare == Meta :> Empty
Full == Meta :> (F :> A) @@ Spec1 :> (F :> A)
Flat == Meta :> Empty @@ Spec1 :> A

MCInitDocs == {Full, Bare}
MCInitDocs3 == {Full, Bare, Flat}

\* Change a field and add one; remove a field; remove a section; write a scalar;
\* a patch that changes nothing in Full; one that names a field of metadata.
Change == Spec1 :> (F :> B @@ G :> A)
DropField == Spec1 :> (F :> None)
DropSection == Spec1 :> None
Scalars == Spec1 :> A
Label == Meta :> (F :> A)

MCPatches == {Change, DropSection, Scalars, Label}

\* The ways to use an editor; others write where a with statement is open.
With == [action |-> "update", protocol |-> "with", userBackups |-> FALSE, hidden |-> {},
         maxCalls |-> 0, maxWrites |-> 1]
Manual == [With EXCEPT !.protocol = "manual", !.hidden = {2}, !.maxCalls = 3, !.maxWrites = 0]
Replace == [With EXCEPT !.action = "replace", !.userBackups = TRUE]
ReplaceAlone == [Replace EXCEPT !.maxWrites = 0]

MCSettings == {With, Manual, Replace, ReplaceAlone}
OnlyReplace == {[With EXCEPT !.action = "replace"]}
===============================================================================
