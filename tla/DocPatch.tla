------------------------------- MODULE DocPatch -------------------------------
(***************************************************************************)
(* The documents a ResourceEditor edits, and the functions applied to them:*)
(*                                                                         *)
(*   Backup(o, p)   ResourceEditor._create_backup: the part of o that the  *)
(*                  patch p would change, None where o has nothing;        *)
(*   Named(p)       what _apply_patches adds to p before it is sent;       *)
(*   Merge(d, p)    what the API server does with the body p of a PATCH of *)
(*                  content type application/merge-patch+json (external);  *)
(*   DropNulls(p)   what the API server stores for the body p of a PUT     *)
(*                  (external).                                            *)
(*                                                                         *)
(* A document is a tree of dictionaries.  It is modelled two dictionaries  *)
(* deep - sections such as "spec", holding fields - the smallest depth at  *)
(* which the recursion of _create_backup takes all of its branches.        *)
(* Whatever is below a field is an Atom: the code only compares it.        *)
(* metadata.name is left out of the documents: it never differs between a  *)
(* resource, its patch and its backup.                                     *)
(***************************************************************************)

CONSTANTS
    Key,    \* names of the sections
    Meta,   \* the section "metadata", which every document has
    Field,  \* names of the fields
    Atom,   \* values that are not dictionaries
    None    \* Python's None, JSON's null

Scalar == Atom \union {None}

\* v is a dictionary with keys in K and values in S.
DictOver(v, K, S) == DOMAIN v \subseteq K /\ v \in [DOMAIN v -> S]

\* None is not one of the atoms; no dictionary is a scalar.
ASSUME DocAssumption ==
    /\ None \notin Atom
    /\ Meta \in Key
    /\ \A D \in SUBSET Field : [D -> Scalar] \cap Scalar = {}

IsDict(v) == v \notin Scalar

\* Documents hold no null: the API server stores none.
IsSection(s) == s \in Atom \/ (IsDict(s) /\ DictOver(s, Field, Atom))

IsDoc(d) ==
    /\ d = [k \in DOMAIN d |-> d[k]]
    /\ Meta \in DOMAIN d /\ DOMAIN d \subseteq Key
    /\ \A k \in DOMAIN d : IsSection(d[k])
    /\ IsDict(d[Meta])

\* A patch may hold nulls: that is how a field is removed.
IsPatchSection(s) == s \in Scalar \/ (IsDict(s) /\ DictOver(s, Field, Scalar))

IsPatch(p) ==
    /\ p = [k \in DOMAIN p |-> p[k]]
    /\ DOMAIN p \subseteq Key
    /\ \A k \in DOMAIN p : IsPatchSection(p[k])
    /\ Meta \in DOMAIN p => IsDict(p[Meta])

Empty == [k \in {} |-> None]

SetKey(d, k, v) == [x \in DOMAIN d \union {k} |-> IF x = k THEN v ELSE d[x]]

SetField(d, k, f, a) == [d EXCEPT ![k] = SetKey(@, f, a)]

-------------------------------------------------------------------------------
(***************************************************************************)
(* _create_backup.  On two dictionaries it recurses into the keys of the   *)
(* patch (Rec is the recursive call) and keeps the keys whose recursive    *)
(* result is not None; on anything else it compares.                       *)
(***************************************************************************)
BackupScalar(o, p) == IF p # o THEN o ELSE None

BackupDict(Rec(_, _), o, p) ==
    LET changed == {k \in DOMAIN p : k \in DOMAIN o => Rec(o[k], p[k]) # None}
    IN  [k \in changed |-> IF k \in DOMAIN o THEN Rec(o[k], p[k]) ELSE None]

BackupSection(o, p) ==
    IF IsDict(o) /\ IsDict(p) THEN BackupDict(BackupScalar, o, p)
                              ELSE BackupScalar(o, p)

\* Bug: keys that are not in the original are passed over, not marked None.
BackupForgetsNew(o, p) ==
    LET changed == {k \in DOMAIN p \cap DOMAIN o : BackupSection(o[k], p[k]) # None}
    IN  [k \in changed |-> BackupSection(o[k], p[k])]

Backup(o, p) == BackupDict(BackupSection, o, p)

\* _apply_patches gives the patch a metadata dictionary, to hold the name.
Named(p) == IF Meta \in DOMAIN p THEN p ELSE SetKey(p, Meta, Empty)

-------------------------------------------------------------------------------
(***************************************************************************)
(* JSON merge patch: a null removes the key, a dictionary is merged into   *)
(* the dictionary that is there (or into an empty one), any other value    *)
(* replaces what is there.                                                 *)
(***************************************************************************)
MergeScalar(t, p) == p

MergeDict(Rec(_, _), t, p) ==
    LET kept == {k \in DOMAIN t \union DOMAIN p : k \in DOMAIN p => p[k] # None}
    IN  [k \in kept |->
            IF k \notin DOMAIN p THEN t[k]
            ELSE Rec(IF k \in DOMAIN t THEN t[k] ELSE Empty, p[k])]

\* The dictionary that a section's patch is merged into.
Target(t) == IF IsDict(t) THEN t ELSE Empty

MergeSection(t, p) ==
    IF IsDict(p) THEN MergeDict(MergeScalar, Target(t), p) ELSE p

Merge(d, p) == MergeDict(MergeSection, d, p)

\* A PUT stores the body itself; its nulls decode to "not set".
DropNullFields(s) ==
    IF IsDict(s) THEN [f \in {g \in DOMAIN s : s[g] # None} |-> s[f]] ELSE s

DropNulls(p) ==
    [k \in {j \in DOMAIN p : p[j] # None} |-> DropNullFields(p[k])]
===============================================================================
