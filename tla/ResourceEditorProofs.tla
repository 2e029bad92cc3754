------------------------- MODULE ResourceEditorProofs -------------------------
(***************************************************************************)
(* ResourceEditor, for any number of resources, any documents and patches, *)
(* any number of attempts and of writes of other clients.                  *)
(*                                                                         *)
(* First facts about Backup, Named and Merge, for every document and every *)
(* patch over any sections, fields and atoms; then the editor: its types,  *)
(* its safety when it PATCHes, when it PUTs, and the refinement.           *)
(***************************************************************************)
EXTENDS ResourceEditor, TLAPS

\* The empty dictionary is a dictionary.
LEMMA EmptyIsDict == IsDict(Empty)
  BY DocAssumption DEF IsDict, Empty, Scalar

-------------------------------------------------------------------------------
(***************************************************************************)
(* One section.                                                            *)
(***************************************************************************)
\* Merging into a section gives a section.
LEMMA MergeSectionType ==
  ASSUME NEW o, IsSection(o) \/ o = Empty, NEW p, IsPatchSection(p), p # None
  PROVE  IsSection(MergeSection(o, p)) /\ (IsDict(p) => IsDict(MergeSection(o, p)))
<1>1. CASE ~IsDict(p)
  BY <1>1, DocAssumption
  DEF MergeSection, IsSection, IsPatchSection, IsDict, Scalar
<1>2. CASE IsDict(p)
  <2> DEFINE old == IF IsDict(o) THEN o ELSE Empty
             kept == {k \in DOMAIN old \union DOMAIN p : k \in DOMAIN p => p[k] # None}
             new == [k \in kept |-> IF k \notin DOMAIN p THEN old[k] ELSE p[k]]
  <2>1. MergeSection(o, p) = new
    BY <1>2 DEF MergeSection, MergeDict, MergeScalar, Target
  <2>2. DOMAIN old \subseteq Field /\ \A k \in DOMAIN old : old[k] \in Atom
    BY DEF IsSection, DictOver, Empty, IsDict, Scalar
  <2>3. DOMAIN p \subseteq Field /\ \A k \in DOMAIN p : p[k] \in Atom \union {None}
    BY <1>2 DEF IsPatchSection, DictOver, Scalar, IsDict
  <2>4. kept \subseteq Field
    BY <2>2, <2>3
  <2>5. \A k \in kept : (IF k \notin DOMAIN p THEN old[k] ELSE p[k]) \in Atom
    BY <2>2, <2>3
  <2>6. new \in [kept -> Atom]
    BY <2>5
  <2>7. new \in [kept -> Scalar]
    BY <2>6 DEF Scalar
  <2>8. new \notin Scalar
    BY <2>4, <2>7, DocAssumption
  <2> HIDE DEF new
  <2>9. DOMAIN new = kept
    BY DEF new
  <2> HIDE DEF kept
  <2> QED
    BY <2>1, <2>4, <2>6, <2>8, <2>9 DEF IsSection, DictOver, IsDict
<1> QED
  BY <1>1, <1>2

\* A backup of a section is a section of a patch; between dictionaries it is a
\* dictionary, never None.
LEMMA BackupSectionType ==
  ASSUME NEW o, IsSection(o), NEW p, IsPatchSection(p)
  PROVE  /\ IsPatchSection(BackupSection(o, p))
         /\ IsDict(o) /\ IsDict(p) => IsDict(BackupSection(o, p))
<1>1. CASE ~(IsDict(o) /\ IsDict(p))
  <2>1. BackupSection(o, p) = BackupScalar(o, p)
    BY <1>1 DEF BackupSection
  <2>2. BackupScalar(o, p) \in {o, None}
    BY DEF BackupScalar
  <2> QED
    BY <1>1, <2>1, <2>2, DocAssumption DEF IsSection, IsPatchSection, IsDict, Scalar, DictOver
<1>2. CASE IsDict(o) /\ IsDict(p)
  <2> DEFINE changed == {k \in DOMAIN p : k \in DOMAIN o => BackupScalar(o[k], p[k]) # None}
             b == [k \in changed |-> IF k \in DOMAIN o THEN BackupScalar(o[k], p[k]) ELSE None]
  <2>1. BackupSection(o, p) = b
    BY <1>2 DEF BackupSection, BackupDict
  <2>2. /\ DOMAIN p \subseteq Field
        /\ \A k \in DOMAIN o : o[k] \in Atom
    BY <1>2 DEF IsSection, IsPatchSection, DictOver, IsDict, Scalar
  <2>3. changed \subseteq Field
    BY <2>2
  <2>4. b \in [changed -> Scalar]
    BY <2>2 DEF BackupScalar, Scalar
  <2>5. b \notin Scalar
    BY <2>3, <2>4, DocAssumption
  <2> HIDE DEF b
  <2>6. DOMAIN b = changed
    BY DEF b
  <2> HIDE DEF changed
  <2> QED
    BY <2>1, <2>3, <2>4, <2>5, <2>6 DEF IsPatchSection, DictOver, IsDict
<1> QED
  BY <1>1, <1>2

\* The keys of what p merged into o gives.
Kept(o, p) == {k \in DOMAIN o \union DOMAIN p : k \in DOMAIN p => p[k] # None}

\* What a dictionary merged into a section gives, and its backup, written out.
LEMMA MergeSectionDict ==
  ASSUME NEW o, NEW p, IsDict(p)
  PROVE  MergeSection(o, p) =
           [k \in Kept(Target(o), p) |-> IF k \notin DOMAIN p THEN Target(o)[k] ELSE p[k]]
  BY DEF MergeSection, MergeDict, MergeScalar, Kept

Changed(o, p) == {k \in DOMAIN p : k \in DOMAIN o => p[k] # o[k]}

LEMMA BackupSectionDict ==
  ASSUME NEW o, IsSection(o), IsDict(o), NEW p, IsDict(p)
  PROVE  BackupSection(o, p) =
           [k \in Changed(o, p) |-> IF k \in DOMAIN o THEN o[k] ELSE None]
<1>1. \A k \in DOMAIN o : o[k] # None
  BY DocAssumption DEF IsSection, DictOver, IsDict, Scalar
<1>2. \A k \in DOMAIN o : BackupScalar(o[k], p[k]) = IF p[k] # o[k] THEN o[k] ELSE None
  BY DEF BackupScalar
<1> DEFINE changed == {k \in DOMAIN p : k \in DOMAIN o => BackupScalar(o[k], p[k]) # None}
<1>3. BackupSection(o, p) =
        [k \in changed |-> IF k \in DOMAIN o THEN BackupScalar(o[k], p[k]) ELSE None]
  BY DEF BackupSection, BackupDict
<1>4. changed = Changed(o, p)
  BY <1>1, <1>2 DEF Changed
<1>5. \A k \in changed : (IF k \in DOMAIN o THEN BackupScalar(o[k], p[k]) ELSE None)
                        = (IF k \in DOMAIN o THEN o[k] ELSE None)
  BY <1>1, <1>2
<1> QED
  BY <1>3, <1>4, <1>5

\* A section that was merged with p and then with its backup is what it was; one
\* that p does not change needs no backup; applying a backup to the section it was
\* taken of changes nothing.
LEMMA SectionRoundTrip ==
  ASSUME NEW o, IsSection(o), NEW p, IsPatchSection(p),
         NEW b, b = BackupSection(o, p)
  PROVE  /\ b # None /\ p # None => MergeSection(MergeSection(o, p), b) = o
         /\ b # None => MergeSection(Empty, b) = o \/ (IsDict(o) /\ IsDict(p))
         /\ b # None => MergeSection(o, b) = o
         /\ b = None => p # None /\ MergeSection(o, p) = o
<1>0. o # None
  BY DocAssumption DEF IsSection, IsDict, Scalar
<1>1. CASE ~(IsDict(o) /\ IsDict(p))
  <2>1. b = IF p # o THEN o ELSE None
    BY <1>1 DEF BackupSection, BackupScalar
  <2>2. CASE p = o
    BY <1>0, <1>1, <2>1, <2>2 DEF MergeSection
  <2>3. CASE p # o /\ ~IsDict(o)
    BY <1>0, <2>1, <2>3 DEF MergeSection
  <2>4. CASE p # o /\ IsDict(o)
    <3>1. ~IsDict(p)
      BY <1>1, <2>4
    <3>2. MergeSection(o, p) = p
      BY <3>1 DEF MergeSection
    <3>3. \A k \in DOMAIN o : o[k] # None
      BY <2>4, DocAssumption DEF IsSection, DictOver, IsDict, Scalar
    <3>4. o = [k \in DOMAIN o |-> o[k]]
      BY <2>4 DEF IsSection, DictOver, IsDict, Scalar
    <3>5. Target(p) = Empty /\ Target(Empty) = Empty /\ Target(o) = o
      BY <2>4, <3>1 DEF Target
    <3>6. DOMAIN Empty = {}
      BY DEF Empty
    <3>7. Kept(Empty, o) = DOMAIN o /\ Kept(o, o) = DOMAIN o
      BY <3>3, <3>5, <3>6 DEF Kept
    <3>8. MergeSection(p, o) = o /\ MergeSection(Empty, o) = o /\ MergeSection(o, o) = o
      BY <2>4, <3>4, <3>5, <3>7, MergeSectionDict
    <3> QED
      BY <1>0, <2>1, <2>4, <3>2, <3>8
  <2> QED
    BY <2>2, <2>3, <2>4
<1>2. CASE IsDict(o) /\ IsDict(p)
  <2> DEFINE q == MergeSection(o, p)
  <2>1. b = [k \in Changed(o, p) |-> IF k \in DOMAIN o THEN o[k] ELSE None]
    BY <1>2, BackupSectionDict
  <2>2. IsDict(b)
    BY <1>2, BackupSectionType
  <2>3. b # None /\ p # None
    BY <1>2, <2>2 DEF IsDict, Scalar
  <2>4. /\ o = [k \in DOMAIN o |-> o[k]]
        /\ \A k \in DOMAIN o : o[k] # None
    BY <1>2, DocAssumption DEF IsSection, DictOver, IsDict, Scalar
  <2>5. q = [k \in Kept(o, p) |-> IF k \notin DOMAIN p THEN o[k] ELSE p[k]]
    BY <1>2, MergeSectionDict DEF Target
  <2>6. IsDict(q)
    BY <1>2, <2>3, MergeSectionType
  <2> HIDE DEF q
  <2>7. Target(q) = q /\ Target(o) = o
    BY <1>2, <2>6 DEF Target
  <2>8. DOMAIN b = Changed(o, p) /\ DOMAIN q = Kept(o, p)
    BY <2>1, <2>5
  <2>9. Kept(q, b) = DOMAIN o
    <3>1. \A k : k \in Kept(q, b) <=>
                   /\ k \in Kept(o, p) \/ k \in Changed(o, p)
                   /\ k \in Changed(o, p) => k \in DOMAIN o
      BY <2>1, <2>4, <2>7, <2>8 DEF Kept
    <3> QED
      BY <3>1, <2>4, <2>7 DEF Kept, Changed
  <2>10. \A k \in DOMAIN o : (IF k \notin DOMAIN b THEN q[k] ELSE b[k]) = o[k]
    BY <2>1, <2>4, <2>5, <2>7, <2>8 DEF Kept, Changed
  <2>11. MergeSection(q, b) = o
    BY <2>2, <2>4, <2>7, <2>9, <2>10, MergeSectionDict
  <2>12. Kept(o, b) = DOMAIN o
    BY <2>1, <2>4, <2>7, <2>8 DEF Kept, Changed
  <2>13. MergeSection(o, b) = o
    BY <2>1, <2>2, <2>4, <2>7, <2>12, MergeSectionDict
  <2> QED
    BY <1>2, <2>3, <2>11, <2>13 DEF q
<1> QED
  BY <1>1, <1>2

\* A section merged with p twice is the section merged with p once.
LEMMA MergeSectionIdempotent ==
  ASSUME NEW o, IsSection(o) \/ o = Empty, NEW p, IsPatchSection(p), p # None
  PROVE  MergeSection(MergeSection(o, p), p) = MergeSection(o, p)
<1>1. CASE ~IsDict(p)
  BY <1>1 DEF MergeSection
<1>2. CASE IsDict(p)
  <2> DEFINE q == MergeSection(o, p)
  <2>1. q = [k \in Kept(Target(o), p) |-> IF k \notin DOMAIN p THEN Target(o)[k] ELSE p[k]]
    BY <1>2, MergeSectionDict
  <2>2. IsDict(q)
    BY <1>2, MergeSectionType
  <2> HIDE DEF q
  <2>3. Target(q) = q /\ DOMAIN q = Kept(Target(o), p)
    BY <2>1, <2>2 DEF Target
  <2>4. Kept(q, p) = Kept(Target(o), p)
    BY <2>3 DEF Kept
  <2>5. MergeSection(q, p) =
          [k \in Kept(q, p) |-> IF k \notin DOMAIN p THEN q[k] ELSE p[k]]
    BY <1>2, <2>3, MergeSectionDict
  <2>6. \A k \in Kept(Target(o), p) : (IF k \notin DOMAIN p THEN q[k] ELSE p[k])
                             = (IF k \notin DOMAIN p THEN Target(o)[k] ELSE p[k])
    BY <2>1
  <2> QED
    BY <2>1, <2>4, <2>5, <2>6 DEF q
<1> QED
  BY <1>1, <1>2

\* Merging the empty dictionary changes nothing, and it needs no backup.
LEMMA EmptySection ==
  ASSUME NEW o, IsSection(o), IsDict(o)
  PROVE  MergeSection(o, Empty) = o /\ BackupSection(o, Empty) = Empty
<1>1. IsDict(Empty) /\ DOMAIN Empty = {}
  BY EmptyIsDict DEF Empty
<1>2. o = [k \in DOMAIN o |-> o[k]]
  BY DEF IsSection, DictOver, IsDict, Scalar
<1>3. Target(o) = o /\ Kept(o, Empty) = DOMAIN o /\ Changed(o, Empty) = {}
  BY <1>1 DEF Target, Kept, Changed
<1>4. MergeSection(o, Empty) = o
  BY <1>1, <1>2, <1>3, MergeSectionDict
<1>5. BackupSection(o, Empty) = Empty
  <2>1. BackupSection(o, Empty) = [k \in {} |-> IF k \in DOMAIN o THEN o[k] ELSE None]
    BY <1>1, <1>3, BackupSectionDict
  <2> QED
    BY <2>1 DEF Empty
<1> QED
  BY <1>4, <1>5

\* A field that the patch does not name may be written before or after it.
LEMMA SetFieldOfSection ==
  ASSUME NEW o, IsSection(o), IsDict(o), NEW f \in Field, NEW a \in Atom
  PROVE  /\ IsSection(SetKey(o, f, a)) /\ IsDict(SetKey(o, f, a))
         /\ \A p : IsPatchSection(p) /\ IsDict(p) /\ f \notin DOMAIN p =>
              /\ MergeSection(SetKey(o, f, a), p) = SetKey(MergeSection(o, p), f, a)
              /\ BackupSection(SetKey(o, f, a), p) = BackupSection(o, p)
<1> DEFINE n == SetKey(o, f, a)
<1>1. DOMAIN o \subseteq Field /\ \A k \in DOMAIN o : o[k] \in Atom
  BY DEF IsSection, DictOver, IsDict, Scalar
<1>2. n = [x \in DOMAIN o \union {f} |-> IF x = f THEN a ELSE o[x]]
  BY DEF SetKey
<1>3. n \in [DOMAIN o \union {f} -> Atom]
  BY <1>1, <1>2
<1>4. n \in [DOMAIN o \union {f} -> Scalar]
  BY <1>3 DEF Scalar
<1>5. DOMAIN o \union {f} \subseteq Field
  BY <1>1
<1>6. IsDict(n)
  BY <1>4, <1>5, DocAssumption DEF IsDict
<1> HIDE DEF n
<1>7. DOMAIN n = DOMAIN o \union {f}
  BY <1>3
<1>8. IsSection(n)
  BY <1>3, <1>5, <1>6, <1>7 DEF IsSection, DictOver
<1>9. ASSUME NEW p, IsPatchSection(p), IsDict(p), f \notin DOMAIN p
      PROVE  /\ MergeSection(n, p) = SetKey(MergeSection(o, p), f, a)
             /\ BackupSection(n, p) = BackupSection(o, p)
  <2>1. Target(n) = n /\ Target(o) = o
    BY <1>6 DEF Target
  <2>2. Kept(n, p) = Kept(o, p) \union {f}
    BY <1>7, <1>9 DEF Kept
  <2>3. MergeSection(n, p) =
          [k \in Kept(o, p) \union {f} |-> IF k \notin DOMAIN p THEN n[k] ELSE p[k]]
    BY <1>9, <2>1, <2>2, MergeSectionDict
  <2>4. MergeSection(o, p) =
          [k \in Kept(o, p) |-> IF k \notin DOMAIN p THEN o[k] ELSE p[k]]
    BY <1>9, <2>1, MergeSectionDict
  <2>5. MergeSection(n, p) = SetKey(MergeSection(o, p), f, a)
    <3> DEFINE q == MergeSection(o, p)
    <3>1. DOMAIN q = Kept(o, p)
      BY <2>4
    <3>2. SetKey(q, f, a) = [k \in Kept(o, p) \union {f} |-> IF k = f THEN a ELSE q[k]]
      BY <3>1 DEF SetKey
    <3>3. \A k \in Kept(o, p) \union {f} :
             (IF k \notin DOMAIN p THEN n[k] ELSE p[k]) = (IF k = f THEN a ELSE q[k])
      BY <1>2, <1>7, <1>9, <2>4 DEF Kept
    <3> QED
      BY <2>3, <3>2, <3>3
  <2>6. Changed(n, p) = Changed(o, p) /\ f \notin Changed(o, p)
    BY <1>2, <1>7, <1>9 DEF Changed
  <2>7. \A k \in Changed(o, p) : (IF k \in DOMAIN n THEN n[k] ELSE None)
                                = (IF k \in DOMAIN o THEN o[k] ELSE None)
    BY <1>2, <1>7, <2>6
  <2>8. BackupSection(n, p) = BackupSection(o, p)
    BY <1>6, <1>8, <1>9, <2>6, <2>7, BackupSectionDict
  <2> QED
    BY <2>5, <2>8
<1> QED
  BY <1>6, <1>8, <1>9 DEF n

-------------------------------------------------------------------------------
(***************************************************************************)
(* Documents.                                                              *)
(***************************************************************************)
\* What the section k of a document is merged with.
At(d, k) == IF k \in DOMAIN d THEN d[k] ELSE Empty

LEMMA MergeDoc ==
  ASSUME NEW d, NEW p
  PROVE  Merge(d, p) =
           [k \in Kept(d, p) |-> IF k \notin DOMAIN p THEN d[k] ELSE MergeSection(At(d, k), p[k])]
  BY DEF Merge, MergeDict, Kept, At

Differs(o, p) == {k \in DOMAIN p : k \in DOMAIN o => BackupSection(o[k], p[k]) # None}

LEMMA BackupDoc ==
  ASSUME NEW o, NEW p
  PROVE  Backup(o, p) =
           [k \in Differs(o, p) |-> IF k \in DOMAIN o THEN BackupSection(o[k], p[k]) ELSE None]
  BY DEF Backup, BackupDict, Differs

\* Documents stay documents, patches stay patches.
LEMMA MergeType ==
  ASSUME NEW d, IsDoc(d), NEW p, IsPatch(p)
  PROVE  IsDoc(Merge(d, p))
<1> DEFINE q == Merge(d, p)
<1>1. q = [k \in Kept(d, p) |-> IF k \notin DOMAIN p THEN d[k] ELSE MergeSection(At(d, k), p[k])]
  BY MergeDoc
<1> HIDE DEF q
<1>2. DOMAIN q = Kept(d, p)
  BY <1>1
<1>3. Kept(d, p) \subseteq Key
  BY DEF Kept, IsDoc, IsPatch
<1>4. ASSUME NEW k \in Kept(d, p)
      PROVE  IsSection(q[k]) /\ (k = Meta => IsDict(q[k]))
  <2>1. CASE k \notin DOMAIN p
    BY <1>1, <2>1 DEF Kept, IsDoc
  <2>2. CASE k \in DOMAIN p
    <3>1. IsSection(At(d, k)) \/ At(d, k) = Empty
      BY DEF At, IsDoc
    <3>2. IsPatchSection(p[k]) /\ p[k] # None /\ (k = Meta => IsDict(p[k]))
      BY <2>2 DEF Kept, IsPatch
    <3>3. q[k] = MergeSection(At(d, k), p[k])
      BY <1>1, <2>2
    <3> QED
      BY <3>1, <3>2, <3>3, MergeSectionType
  <2> QED
    BY <2>1, <2>2
<1>5. Meta \in Kept(d, p)
  BY DocAssumption DEF Kept, IsDoc, IsPatch, IsDict, Scalar
<1> QED
  BY <1>1, <1>2, <1>3, <1>4, <1>5 DEF IsDoc, q

LEMMA BackupType ==
  ASSUME NEW o, IsDoc(o), NEW p, IsPatch(p)
  PROVE  IsPatch(Backup(o, p))
<1> DEFINE b == Backup(o, p)
<1>1. b = [k \in Differs(o, p) |-> IF k \in DOMAIN o THEN BackupSection(o[k], p[k]) ELSE None]
  BY BackupDoc
<1> HIDE DEF b
<1>2. DOMAIN b = Differs(o, p)
  BY <1>1
<1>3. Differs(o, p) \subseteq Key
  BY DEF Differs, IsPatch
<1>4. ASSUME NEW k \in Differs(o, p)
      PROVE  IsPatchSection(b[k]) /\ (k = Meta => IsDict(b[k]))
  <2>1. CASE k \in DOMAIN o
    <3>1. /\ IsSection(o[k]) /\ (k = Meta => IsDict(o[k]))
          /\ IsPatchSection(p[k]) /\ (k = Meta => IsDict(p[k]))
      BY <2>1 DEF IsDoc, IsPatch, Differs
    <3>2. b[k] = BackupSection(o[k], p[k])
      BY <1>1, <2>1
    <3> QED
      BY <3>1, <3>2, BackupSectionType
  <2>2. CASE k \notin DOMAIN o
    BY <1>1, <2>2 DEF IsDoc, IsPatchSection, Scalar
  <2> QED
    BY <2>1, <2>2
<1> QED
  BY <1>1, <1>2, <1>3, <1>4 DEF IsPatch, b

LEMMA NamedType ==
  ASSUME NEW p, IsPatch(p)
  PROVE  /\ IsPatch(Named(p)) /\ Named(Named(p)) = Named(p)
         /\ Meta \in DOMAIN Named(p) /\ IsDict(Named(p)[Meta])
<1>1. IsDict(Empty) /\ IsPatchSection(Empty)
  BY EmptyIsDict DEF IsPatchSection, DictOver, Empty
<1>2. CASE Meta \in DOMAIN p
  BY <1>2 DEF Named, IsPatch
<1>3. CASE Meta \notin DOMAIN p
  <2>1. Named(p) = [x \in DOMAIN p \union {Meta} |-> IF x = Meta THEN Empty ELSE p[x]]
    BY <1>3 DEF Named, SetKey
  <2>2. DOMAIN Named(p) = DOMAIN p \union {Meta}
    BY <2>1
  <2>3. IsPatch(Named(p))
    BY <1>1, <2>1, <2>2, DocAssumption DEF IsPatch
  <2> QED
    BY <1>1, <2>1, <2>2, <2>3 DEF Named
<1> QED
  BY <1>2, <1>3

\* The name that _apply_patches adds to a patch, or to a backup, makes no
\* difference to the document, nor to the backup as it will be sent.
LEMMA NamedMerge ==
  ASSUME NEW d, IsDoc(d), NEW p, IsPatch(p)
  PROVE  Merge(d, Named(p)) = Merge(d, p)
<1>1. CASE Meta \in DOMAIN p
  BY <1>1 DEF Named
<1>2. CASE Meta \notin DOMAIN p
  <2> DEFINE n == Named(p)
  <2>1. n = [x \in DOMAIN p \union {Meta} |-> IF x = Meta THEN Empty ELSE p[x]]
    BY <1>2 DEF Named, SetKey
  <2>2. DOMAIN n = DOMAIN p \union {Meta} /\ n[Meta] = Empty /\ Empty # None
    BY <2>1, EmptyIsDict DEF IsDict, Scalar
  <2> HIDE DEF n
  <2>3. Meta \in DOMAIN d /\ MergeSection(d[Meta], Empty) = d[Meta]
    BY EmptySection DEF IsDoc
  <2>4. Kept(d, n) = Kept(d, p)
    BY <1>2, <2>1, <2>2, <2>3 DEF Kept
  <2>5. \A k \in Kept(d, p) :
           (IF k \notin DOMAIN n THEN d[k] ELSE MergeSection(At(d, k), n[k]))
         = (IF k \notin DOMAIN p THEN d[k] ELSE MergeSection(At(d, k), p[k]))
    BY <1>2, <2>1, <2>2, <2>3 DEF At
  <2>6. Merge(d, n) = Merge(d, p)
    BY <2>4, <2>5, MergeDoc
  <2> QED
    BY <2>6 DEF n
<1> QED
  BY <1>1, <1>2

LEMMA NamedBackup ==
  ASSUME NEW o, IsDoc(o), NEW p, IsPatch(p)
  PROVE  Named(Backup(o, Named(p))) = Named(Backup(o, p))
<1>1. CASE Meta \in DOMAIN p
  BY <1>1 DEF Named
<1>2. CASE Meta \notin DOMAIN p
  <2> DEFINE n == Named(p)
             b == Backup(o, p)
             c == Backup(o, n)
  <2>1. n = [x \in DOMAIN p \union {Meta} |-> IF x = Meta THEN Empty ELSE p[x]]
    BY <1>2 DEF Named, SetKey
  <2>2. DOMAIN n = DOMAIN p \union {Meta} /\ n[Meta] = Empty /\ Empty # None
    BY <2>1, EmptyIsDict DEF IsDict, Scalar
  <2>3. /\ b = [k \in Differs(o, p) |-> IF k \in DOMAIN o THEN BackupSection(o[k], p[k]) ELSE None]
        /\ c = [k \in Differs(o, n) |-> IF k \in DOMAIN o THEN BackupSection(o[k], n[k]) ELSE None]
    BY BackupDoc
  <2> HIDE DEF n, b, c
  <2>4. Meta \in DOMAIN o /\ BackupSection(o[Meta], Empty) = Empty
    BY EmptySection DEF IsDoc
  <2>5. Differs(o, n) = Differs(o, p) \union {Meta} /\ Meta \notin Differs(o, p)
    BY <1>2, <2>1, <2>2, <2>4 DEF Differs
  <2>6. DOMAIN b = Differs(o, p) /\ DOMAIN c = Differs(o, p) \union {Meta}
    BY <2>3, <2>5
  <2>7. Named(c) = c
    BY <2>6 DEF Named
  <2>8. Named(b) = [x \in Differs(o, p) \union {Meta} |-> IF x = Meta THEN Empty ELSE b[x]]
    BY <2>5, <2>6 DEF Named, SetKey
  <2>9. \A k \in Differs(o, p) \union {Meta} :
           (IF k \in DOMAIN o THEN BackupSection(o[k], n[k]) ELSE None)
         = (IF k = Meta THEN Empty ELSE b[k])
    BY <1>2, <2>1, <2>2, <2>3, <2>4, <2>5 DEF Differs
  <2>10. Named(c) = Named(b)
    BY <2>3, <2>5, <2>7, <2>8, <2>9
  <2> QED
    BY <2>10 DEF n, b, c
<1> QED
  BY <1>1, <1>2

\* The backup, merged into the patched document or into the document itself,
\* gives the document.
LEMMA RoundTrip ==
  ASSUME NEW o, IsDoc(o), NEW p, IsPatch(p)
  PROVE  /\ Merge(Merge(o, p), Backup(o, p)) = o
         /\ Merge(o, Backup(o, p)) = o
<1> DEFINE q == Merge(o, p)
           b == Backup(o, p)
<1>1. q = [k \in Kept(o, p) |-> IF k \notin DOMAIN p THEN o[k] ELSE MergeSection(At(o, k), p[k])]
  BY MergeDoc
<1>2. b = [k \in Differs(o, p) |-> IF k \in DOMAIN o THEN BackupSection(o[k], p[k]) ELSE None]
  BY BackupDoc
<1> HIDE DEF q, b
<1>3. DOMAIN q = Kept(o, p) /\ DOMAIN b = Differs(o, p)
  BY <1>1, <1>2
<1>4. o = [k \in DOMAIN o |-> o[k]]
  BY DEF IsDoc
<1>5. \A k \in DOMAIN b : b[k] # None <=> k \in DOMAIN o
  BY <1>2, <1>3 DEF Differs
<1>6. \A k \in DOMAIN o : k \notin Kept(o, p) => k \in DOMAIN p /\ p[k] = None
  BY DEF Kept
<1>7. ASSUME NEW k \in DOMAIN o, k \in DOMAIN p
      PROVE  LET s == BackupSection(o[k], p[k])
             IN  /\ s # None /\ p[k] # None => MergeSection(MergeSection(o[k], p[k]), s) = o[k]
                 /\ s # None /\ p[k] = None => MergeSection(Empty, s) = o[k]
                 /\ s # None => MergeSection(o[k], s) = o[k]
                 /\ s = None => p[k] # None /\ MergeSection(o[k], p[k]) = o[k]
  <2>1. IsSection(o[k]) /\ IsPatchSection(p[k])
    BY <1>7 DEF IsDoc, IsPatch
  <2>2. p[k] = None => ~IsDict(p[k])
    BY DEF IsDict, Scalar
  <2> QED
    BY <2>1, <2>2, SectionRoundTrip
<1>8. Kept(q, b) = DOMAIN o
  <2>1. \A k \in DOMAIN o : k \in Kept(q, b)
    BY <1>3, <1>5, <1>6, <1>7 DEF Kept, Differs
  <2>2. \A k \in Kept(q, b) : k \in DOMAIN o
    BY <1>3, <1>5 DEF Kept, Differs
  <2> QED
    BY <2>1, <2>2
<1>9. \A k \in DOMAIN o :
         (IF k \notin DOMAIN b THEN q[k] ELSE MergeSection(At(q, k), b[k])) = o[k]
  <2> TAKE k \in DOMAIN o
  <2>1. CASE k \notin DOMAIN p
    BY <1>1, <1>3, <2>1 DEF Kept, Differs
  <2>2. CASE k \in DOMAIN p /\ k \notin DOMAIN b
    <3>1. BackupSection(o[k], p[k]) = None
      BY <1>3, <2>2 DEF Differs
    <3>2. k \in Kept(o, p) /\ q[k] = MergeSection(o[k], p[k])
      BY <1>1, <1>7, <2>2, <3>1 DEF Kept, At
    <3> QED
      BY <1>7, <2>2, <3>1, <3>2
  <2>3. CASE k \in DOMAIN p /\ k \in DOMAIN b
    <3>1. b[k] = BackupSection(o[k], p[k]) /\ b[k] # None
      BY <1>2, <1>5, <2>3
    <3>2. p[k] = None => At(q, k) = Empty
      BY <1>3, <2>3 DEF Kept, At
    <3>3. p[k] # None => At(q, k) = MergeSection(o[k], p[k])
      BY <1>1, <1>3, <2>3 DEF Kept, At
    <3> QED
      BY <1>7, <2>3, <3>1, <3>2, <3>3
  <2> QED
    BY <2>1, <2>2, <2>3
<1>10. Merge(q, b) = o
  BY <1>4, <1>8, <1>9, MergeDoc
<1>11. Kept(o, b) = DOMAIN o
  BY <1>3, <1>5 DEF Kept
<1>12. \A k \in DOMAIN o :
         (IF k \notin DOMAIN b THEN o[k] ELSE MergeSection(At(o, k), b[k])) = o[k]
  BY <1>2, <1>3, <1>5, <1>7 DEF At, Differs
<1>13. Merge(o, b) = o
  BY <1>4, <1>11, <1>12, MergeDoc
<1> QED
  BY <1>10, <1>13 DEF q, b

\* Sending a patch again changes nothing.
LEMMA MergeIdempotent ==
  ASSUME NEW o, IsDoc(o), NEW p, IsPatch(p)
  PROVE  Merge(Merge(o, p), p) = Merge(o, p)
<1> DEFINE q == Merge(o, p)
<1>1. q = [k \in Kept(o, p) |-> IF k \notin DOMAIN p THEN o[k] ELSE MergeSection(At(o, k), p[k])]
  BY MergeDoc
<1> HIDE DEF q
<1>2. DOMAIN q = Kept(o, p)
  BY <1>1
<1>3. Kept(q, p) = Kept(o, p)
  BY <1>2 DEF Kept
<1>4. \A k \in Kept(o, p) :
         (IF k \notin DOMAIN p THEN q[k] ELSE MergeSection(At(q, k), p[k])) = q[k]
  <2> TAKE k \in Kept(o, p)
  <2>1. CASE k \in DOMAIN p
    <3>1. q[k] = MergeSection(At(o, k), p[k]) /\ At(q, k) = q[k]
      BY <1>1, <1>2, <2>1 DEF At
    <3>2. IsSection(At(o, k)) \/ At(o, k) = Empty
      BY DEF At, IsDoc
    <3>3. IsPatchSection(p[k]) /\ p[k] # None
      BY <2>1 DEF Kept, IsPatch
    <3> QED
      BY <2>1, <3>1, <3>2, <3>3, MergeSectionIdempotent
  <2> QED
    BY <2>1
<1>5. Merge(q, p) = q
  BY <1>1, <1>2, <1>3, <1>4, MergeDoc
<1> QED
  BY <1>5 DEF q

\* A patch whose backup is empty changes nothing.
LEMMA NoDiff ==
  ASSUME NEW o, IsDoc(o), NEW p, IsPatch(p), Backup(o, p) = Empty
  PROVE  Merge(o, p) = o
<1>1. Differs(o, p) = {}
  BY BackupDoc DEF Empty
<1>2. \A k \in DOMAIN p : k \in DOMAIN o /\ BackupSection(o[k], p[k]) = None
  BY <1>1 DEF Differs
<1>3. \A k \in DOMAIN p : p[k] # None /\ MergeSection(o[k], p[k]) = o[k]
  BY <1>2, SectionRoundTrip DEF IsDoc, IsPatch
<1>4. Kept(o, p) = DOMAIN o
  BY <1>2, <1>3 DEF Kept
<1>5. \A k \in DOMAIN o :
         (IF k \notin DOMAIN p THEN o[k] ELSE MergeSection(At(o, k), p[k])) = o[k]
  BY <1>3 DEF At
<1> QED
  BY <1>4, <1>5, MergeDoc DEF IsDoc

\* A section that the patch does not name may be written before or after it.
LEMMA SetSection ==
  ASSUME NEW o, IsDoc(o), NEW k \in Key \ {Meta}, NEW a \in Atom
  PROVE  /\ IsDoc(SetKey(o, k, a))
         /\ \A p : IsPatch(p) /\ k \notin DOMAIN p =>
              /\ Merge(SetKey(o, k, a), p) = SetKey(Merge(o, p), k, a)
              /\ Backup(SetKey(o, k, a), p) = Backup(o, p)
<1> DEFINE n == SetKey(o, k, a)
<1>1. n = [x \in DOMAIN o \union {k} |-> IF x = k THEN a ELSE o[x]]
  BY DEF SetKey
<1> HIDE DEF n
<1>2. DOMAIN n = DOMAIN o \union {k}
  BY <1>1
<1>3. IsDoc(n)
  BY <1>1, <1>2 DEF IsDoc, IsSection
<1>4. ASSUME NEW p, IsPatch(p), k \notin DOMAIN p
      PROVE  /\ Merge(n, p) = SetKey(Merge(o, p), k, a)
             /\ Backup(n, p) = Backup(o, p)
  <2> DEFINE q == Merge(o, p)
  <2>1. q = [x \in Kept(o, p) |-> IF x \notin DOMAIN p THEN o[x] ELSE MergeSection(At(o, x), p[x])]
    BY MergeDoc
  <2> HIDE DEF q
  <2>2. SetKey(q, k, a) = [x \in Kept(o, p) \union {k} |-> IF x = k THEN a ELSE q[x]]
    BY <2>1 DEF SetKey
  <2>3. Kept(n, p) = Kept(o, p) \union {k}
    BY <1>2, <1>4 DEF Kept
  <2>4. \A x \in Kept(o, p) \union {k} :
           (IF x \notin DOMAIN p THEN n[x] ELSE MergeSection(At(n, x), p[x]))
         = (IF x = k THEN a ELSE q[x])
    BY <1>1, <1>2, <1>4, <2>1 DEF Kept, At
  <2>5. Merge(n, p) = SetKey(q, k, a)
    BY <2>2, <2>3, <2>4, MergeDoc
  <2>6. Differs(n, p) = Differs(o, p)
    BY <1>1, <1>2, <1>4 DEF Differs
  <2>7. \A x \in Differs(o, p) :
           (IF x \in DOMAIN n THEN BackupSection(n[x], p[x]) ELSE None)
         = (IF x \in DOMAIN o THEN BackupSection(o[x], p[x]) ELSE None)
    BY <1>1, <1>2, <1>4 DEF Differs
  <2> QED
    BY <2>5, <2>6, <2>7, BackupDoc DEF q
<1> QED
  BY <1>3, <1>4 DEF n

\* So may a field that the patch does not name, of a section that is a dictionary.
LEMMA SetFieldOfDoc ==
  ASSUME NEW o, IsDoc(o), NEW k \in DOMAIN o, IsDict(o[k]), NEW f \in Field, NEW a \in Atom
  PROVE  /\ IsDoc(SetField(o, k, f, a))
         /\ \A p : /\ IsPatch(p)
                   /\ k \in DOMAIN p => IsDict(p[k]) /\ f \notin DOMAIN p[k]
              => /\ Merge(SetField(o, k, f, a), p) = SetField(Merge(o, p), k, f, a)
                 /\ Backup(SetField(o, k, f, a), p) = Backup(o, p)
<1> DEFINE n == SetField(o, k, f, a)
           s == SetKey(o[k], f, a)
<1>1. n = [x \in DOMAIN o |-> IF x = k THEN s ELSE o[x]]
  BY DEF SetField, IsDoc
<1>2. IsSection(o[k])
  BY DEF IsDoc
<1>3. IsSection(s) /\ IsDict(s)
  BY <1>2, SetFieldOfSection
<1> HIDE DEF n
<1>4. DOMAIN n = DOMAIN o /\ n[k] = s /\ \A x \in DOMAIN o \ {k} : n[x] = o[x]
  BY <1>1
<1>5. IsDoc(n)
  <2> HIDE DEF s
  <2> QED
    BY <1>1, <1>3, <1>4 DEF IsDoc
<1>6. ASSUME NEW p, IsPatch(p), k \in DOMAIN p => IsDict(p[k]) /\ f \notin DOMAIN p[k]
      PROVE  /\ Merge(n, p) = SetField(Merge(o, p), k, f, a)
             /\ Backup(n, p) = Backup(o, p)
  <2>1. k \in DOMAIN p => /\ MergeSection(s, p[k]) = SetKey(MergeSection(o[k], p[k]), f, a)
                          /\ BackupSection(s, p[k]) = BackupSection(o[k], p[k])
    <3> SUFFICES ASSUME k \in DOMAIN p
                 PROVE  /\ MergeSection(s, p[k]) = SetKey(MergeSection(o[k], p[k]), f, a)
                        /\ BackupSection(s, p[k]) = BackupSection(o[k], p[k])
      OBVIOUS
    <3>1. IsPatchSection(p[k]) /\ IsDict(p[k]) /\ f \notin DOMAIN p[k]
      BY <1>6 DEF IsPatch
    <3> QED
      BY <1>2, <3>1, SetFieldOfSection
  <2> DEFINE q == Merge(o, p)
             sq == SetKey(q[k], f, a)
  <2>2. q = [x \in Kept(o, p) |-> IF x \notin DOMAIN p THEN o[x] ELSE MergeSection(At(o, x), p[x])]
    BY MergeDoc
  <2> HIDE DEF q
  <2>3. SetField(q, k, f, a) = [x \in Kept(o, p) |-> IF x = k THEN sq ELSE q[x]]
    BY <2>2 DEF SetField
  <2>4. k \in Kept(o, p)
    BY <1>6 DEF Kept, IsDict, Scalar
  <2>5. k \in DOMAIN p => sq = MergeSection(s, p[k])
    BY <2>1, <2>2, <2>4 DEF At
  <2>6. k \notin DOMAIN p => sq = s
    BY <2>2, <2>4
  <2>7. Kept(n, p) = Kept(o, p)
    BY <1>4 DEF Kept
  <2> HIDE DEF s, sq
  <2>8. \A x \in Kept(o, p) :
           (IF x \notin DOMAIN p THEN n[x] ELSE MergeSection(At(n, x), p[x]))
         = (IF x = k THEN sq ELSE q[x])
    BY <1>4, <2>2, <2>5, <2>6 DEF Kept, At
  <2>9. Merge(n, p) = SetField(q, k, f, a)
    BY <2>3, <2>7, <2>8, MergeDoc
  <2>10. Differs(n, p) = Differs(o, p)
    BY <1>4, <2>1 DEF Differs
  <2>11. \A x \in Differs(o, p) :
           (IF x \in DOMAIN n THEN BackupSection(n[x], p[x]) ELSE None)
         = (IF x \in DOMAIN o THEN BackupSection(o[x], p[x]) ELSE None)
    BY <1>4, <2>1 DEF Differs
  <2> QED
    BY <2>9, <2>10, <2>11, BackupDoc DEF q
<1> QED
  BY <1>5, <1>6 DEF n

-------------------------------------------------------------------------------
(***************************************************************************)
(* Types.                                                                  *)
(***************************************************************************)
\* A document can be given as a patch.
LEMMA DocIsPatch ==
  ASSUME NEW d, IsDoc(d)
  PROVE  IsPatch(d)
<1>1. \A v : v \in [DOMAIN v -> Atom] => v \in [DOMAIN v -> Scalar]
  BY DEF Scalar
<1> QED
  BY <1>1 DEF IsDoc, IsPatch, IsSection, IsPatchSection, DictOver, Scalar

\* What a PUT stores of a patch that names the metadata is a document.
LEMMA DropNullsType ==
  ASSUME NEW p, IsPatch(p), Meta \in DOMAIN p
  PROVE  IsDoc(DropNulls(p))
<1> DEFINE q == DropNulls(p)
           kept == {j \in DOMAIN p : p[j] # None}
<1>1. q = [k \in kept |-> DropNullFields(p[k])]
  BY DEF DropNulls
<1> HIDE DEF q
<1>2. DOMAIN q = kept /\ kept \subseteq Key
  BY <1>1 DEF IsPatch
<1>3. ASSUME NEW s, IsPatchSection(s), s # None
      PROVE  IsSection(DropNullFields(s)) /\ (IsDict(s) => IsDict(DropNullFields(s)))
  <2>1. CASE ~IsDict(s)
    BY <1>3, <2>1 DEF DropNullFields, IsSection, IsPatchSection, IsDict, Scalar
  <2>2. CASE IsDict(s)
    <3> DEFINE D == {g \in DOMAIN s : s[g] # None}
               t == [f \in D |-> s[f]]
    <3>1. DropNullFields(s) = t
      BY <2>2 DEF DropNullFields
    <3>2. DOMAIN s \subseteq Field /\ \A f \in DOMAIN s : s[f] \in Atom \union {None}
      BY <1>3, <2>2 DEF IsPatchSection, DictOver, IsDict, Scalar
    <3>3. D \subseteq Field /\ t \in [D -> Atom] /\ DOMAIN t = D
      BY <3>2
    <3>4. t \in [D -> Scalar]
      BY <3>3 DEF Scalar
    <3> HIDE DEF D, t
    <3>5. IsDict(t)
      BY <3>3, <3>4, DocAssumption DEF IsDict
    <3> QED
      BY <3>1, <3>3, <3>5 DEF IsSection, DictOver
  <2> QED
    BY <2>1, <2>2
<1>4. \A k \in kept : IsSection(q[k]) /\ (k = Meta => IsDict(q[k]))
  BY <1>1, <1>3 DEF IsPatch
<1>5. Meta \in kept
  BY DEF IsPatch, IsDict, Scalar
<1> QED
  BY <1>1, <1>2, <1>4, <1>5 DEF IsDoc, q

\* What the cluster stores for a patch, or a backup, is a document.
LEMMA StoredType ==
  ASSUME NEW d, IsDoc(d), NEW p, IsPatch(p)
  PROVE  IsDoc(Stored(d, Named(p)))
  BY MergeType, NamedType, DropNullsType DEF Stored

\* restore() only handles resources that have a backup: without this, what it
\* sends, and so what the cluster stores, could be anything.
TypeInv == TypeOK /\ (call = "restore" => batch \union todo \subseteq DOMAIN backups)

\* The setting is that of the whole execution.
SettingStays ==
    /\ setting' = setting
    /\ Action' = Action /\ Protocol' = Protocol /\ UserBackups' = UserBackups
    /\ Hidden' = Hidden /\ MaxCalls' = MaxCalls /\ MaxWrites' = MaxWrites

LEMMA StaysInSetting == [Next]_vars => SettingStays
BY DEF Next, EditorStep, CallerStep, OtherStep, vars, SettingStays,
       Action, Protocol, UserBackups, Hidden, MaxCalls, MaxWrites

LEMMA InitType == Init => TypeInv
<1> SUFFICES ASSUME Init PROVE TypeInv
  OBVIOUS
<1> USE EditorAssumption
<1>1. \A r \in Resource : IsDoc(server[r]) /\ IsPatch(patches[r])
  BY DEF Init
<1>2. MaxCalls \in Nat /\ MaxWrites \in Nat
  BY DEF Init, Setting, MaxCalls, MaxWrites
<1> QED
  BY <1>1, <1>2 DEF Init, TypeOK, TypeInv

LEMMA NextType == TypeInv /\ [Next]_vars => TypeInv'
<1> SUFFICES ASSUME TypeInv, [Next]_vars PROVE TypeInv'
  OBVIOUS
<1> USE EditorAssumption DEF TypeInv
<1> SettingStays /\ setting' \in Settings
  BY StaysInSetting DEF SettingStays, TypeOK
<1> MaxCalls \in Nat /\ MaxWrites \in Nat
  BY DEF TypeOK, Setting, MaxCalls, MaxWrites
<1> USE DEF SettingStays
<1>1. CASE CallEnter
  BY <1>1 DEF TypeOK, CallEnter, Call, MayCall
<1>2. CASE CallEnterUserBackups
  <2>1. /\ \A r \in Resource : IsPatch(server[r])
        /\ DOMAIN server = Resource
    BY DocIsPatch DEF TypeOK
  <2> QED
    BY <1>2, <2>1 DEF TypeOK, CallEnterUserBackups, Call, MayCall, Submit
<1>3. CASE CallUpdate
  BY <1>3 DEF TypeOK, CallUpdate, Call, MayCall, Submit
<1>4. CASE CallRestore
  BY <1>4 DEF TypeOK, CallRestore, Call, MayCall, Submit
<1>5. CASE BackupsDone
  BY <1>5 DEF TypeOK, BackupsDone, Return, Submit
<1>6. CASE BatchDone
  BY <1>6 DEF TypeOK, BatchDone, Return
<1>7. CASE Retry
  BY <1>7 DEF TypeOK, Retry
<1>8. CASE TimeoutExpired
  BY <1>8 DEF TypeOK, TimeoutExpired, Raise
<1>9. ASSUME NEW r \in Resource, BackupOne(r)
      PROVE  TypeInv'
  <2>1. IsPatch(Backup(server[r], patches[r]))
    BY BackupType DEF TypeOK
  <2>2. CASE UNCHANGED <<backups, batch>>
    BY <1>9, <2>2 DEF TypeOK, BackupOne
  <2>3. CASE KeepBackup(r, Backup(server[r], patches[r]))
    BY <1>9, <2>1, <2>3 DEF TypeOK, BackupOne, KeepBackup
  <2> QED
    BY <1>9, <2>2, <2>3 DEF BackupOne
<1>10. ASSUME NEW r \in Resource, SkipHidden(r) \/ BackupRaises(r)
       PROVE  TypeInv'
  BY <1>10 DEF TypeOK, SkipHidden, BackupRaises, Raise
<1>11. ASSUME NEW r \in Resource, NameBody(r)
       PROVE  /\ patches' = [q \in Resource |-> patches'[q]]
              /\ \A q \in Resource : IsPatch(patches'[q])
              /\ backups' = [q \in DOMAIN backups' |-> backups'[q]]
              /\ DOMAIN backups' = DOMAIN backups
              /\ \A q \in DOMAIN backups' : IsPatch(backups'[q])
  <2>1. \A p : IsPatch(p) => IsPatch(Named(p))
    BY NamedType
  <2> QED
    BY <1>11, <2>1 DEF TypeOK, NameBody
<1>12. ASSUME NEW r \in Resource, Applying(r), Effect(r) \/ UNCHANGED server
       PROVE  server' = [q \in Resource |-> server'[q]] /\ \A q \in Resource : IsDoc(server'[q])
  <2>1. IsDoc(Stored(server[r], Named(Body(r))))
    BY <1>12, StoredType DEF TypeOK, Body, Applying, IsNext
  <2> QED
    BY <1>12, <2>1 DEF TypeOK, Effect
<1>13. ASSUME NEW r \in Resource, ReadVersion(r)
       PROVE  TypeInv'
  BY <1>11, <1>13 DEF TypeOK, ReadVersion
<1>14. ASSUME NEW r \in Resource, ApplyOne(r)
       PROVE  TypeInv'
  BY <1>11, <1>12, <1>14 DEF TypeOK, ApplyOne, MaySend
<1>15. ASSUME NEW r \in Resource, RequestRetriable(r)
       PROVE  TypeInv'
  BY <1>11, <1>12, <1>15 DEF TypeOK, RequestRetriable, MaySend
<1>16. ASSUME NEW r \in Resource, RequestRaises(r)
       PROVE  TypeInv'
  BY <1>11, <1>12, <1>16 DEF TypeOK, RequestRaises, Raise
<1>17. ASSUME NEW r \in Resource, NEW s, NEW b, IsDoc(s), IsDoc(b), OtherWrite(r, s, b)
       PROVE  TypeInv'
  <2>1. server' = [q \in Resource |-> server'[q]] /\ \A q \in Resource : IsDoc(server'[q])
    BY <1>17 DEF TypeOK, OtherWrite
  <2>2. base' = [q \in Resource |-> base'[q]] /\ \A q \in Resource : IsDoc(base'[q])
    BY <1>17 DEF TypeOK, OtherWrite
  <2>3. writes' \in 0..MaxWrites /\ version' \in {"none", "fresh", "stale"}
    BY <1>17 DEF TypeOK, OtherWrite
  <2> QED
    BY <1>17, <2>1, <2>2, <2>3 DEF TypeOK, OtherWrite
<1>18. ASSUME NEW r \in Resource, NEW k \in Key, NEW a \in Atom, OtherSetsSection(r, k, a)
       PROVE  TypeInv'
  <2>1. IsDoc(SetKey(server[r], k, a)) /\ IsDoc(SetKey(base[r], k, a))
    BY <1>18, SetSection DEF TypeOK, OtherSetsSection
  <2> QED
    BY <1>17, <1>18, <2>1 DEF OtherSetsSection
<1>19. ASSUME NEW r \in Resource, NEW k \in Key, NEW a \in Atom, NEW f \in Field,
              OtherSetsField(r, k, f, a)
       PROVE  TypeInv'
  <2>1. IsDoc(SetField(server[r], k, f, a)) /\ IsDoc(SetField(base[r], k, f, a))
    BY <1>19, SetFieldOfDoc DEF TypeOK, OtherSetsField
  <2> QED
    BY <1>17, <1>19, <2>1 DEF OtherSetsField
<1>20. CASE UNCHANGED vars
  BY <1>20 DEF TypeOK, vars, editor
<1> QED
  BY <1>1, <1>2, <1>3, <1>4, <1>5, <1>6, <1>7, <1>8, <1>9, <1>10, <1>13, <1>14, <1>15,
     <1>16, <1>18, <1>19, <1>20
  DEF Next, CallerStep, EditorStep, OtherStep

\* Patches, backups and documents keep their form, and the number of attempts its
\* bound, with either action, either protocol and any errors.
THEOREM TypeCorrect == Spec => []TypeOK
<1>1. TypeInv => TypeOK
  BY DEF TypeInv
<1> QED
  BY InitType, NextType, <1>1, PTL DEF Spec

-------------------------------------------------------------------------------
(***************************************************************************)
(* Safety of an editor that PATCHes and takes its own backups, in a with   *)
(* statement or by calls in any order.                                     *)
(*                                                                         *)
(* The inductive invariant.  RestoredOnExit is not inductive: what makes   *)
(* it true is that no resource is ever in any state but its two -          *)
(* untouched, or edited - and that the backup held for it leads from both  *)
(* to the first (RoundTrip), whatever attempts were repeated.              *)
(***************************************************************************)
Patching == Action = "update" /\ ~UserBackups

\* Where the loops are; a with statement cannot make its calls in a wrong order.
Control ==
    /\ call = "none" => pc = "idle" /\ outcome = "none" /\ batch = {} /\ DOMAIN backups = {}
    /\ call = "enter" => batch \subseteq DOMAIN backups
    /\ call = "restore" => batch = DOMAIN backups
    /\ pc = "backup" => call = "enter"
    /\ pc \in {"apply", "sleep"} => todo \subseteq batch
    /\ pc = "idle" => todo = {}
    /\ pc # "idle" => outcome = "none"
    /\ Protocol = "with" => covered /\ call # "update" /\ batch = DOMAIN backups

\* A backup is the one that the document without the edits has.
BackupsRight ==
    \A r \in DOMAIN backups :
        Named(backups[r]) = Named(Backup(base[r], Named(patches[r])))

\* Every resource is untouched or edited, untouched if it has no backup.
TwoStates ==
    \A r \in Resource :
        /\ server[r] \in {base[r], Edited(r)}
        /\ r \notin DOMAIN backups \/ pc = "backup" => server[r] = base[r]

\* The resources that update(backup_resources=True) left out of the batch have
\* nothing to change, those that update() sends without a backup neither.
LeftOut ==
    /\ call = "enter" =>
         \A r \in Resource \ (batch \union Hidden) :
             \/ pc = "backup" /\ r \notin todo
             \/ pc \in {"apply", "sleep"}
             \/ outcome = "returned"
             => Edited(r) = base[r]
    /\ call = "update" => \A r \in Resource \ DOMAIN backups : Edited(r) = base[r]

\* The loop has left behind what it was to reach.
LoopDone ==
    pc = "apply" \/ outcome = "returned" =>
        \A r \in batch \ todo :
            server[r] = IF call = "restore" THEN base[r] ELSE Edited(r)

EditInv ==
    /\ TypeInv
    /\ Control
    /\ BackupsRight
    /\ TwoStates
    /\ LeftOut
    /\ LoopDone

\* A caller that edits what is not backed up has no promise left.
CoveredInv ==
    /\ TypeInv
    /\ Control
    /\ covered => EditInv

\* Whatever state a resource is in, its patch takes it to the edited state and its
\* backup to the untouched one.
LEMMA Effects ==
  ASSUME Patching, EditInv, NEW r \in Resource
  PROVE  /\ IsDoc(base[r]) /\ IsPatch(Named(patches[r])) /\ IsPatch(patches[r])
         /\ Edited(r) = Merge(base[r], Named(patches[r]))
         /\ Stored(server[r], Named(patches[r])) = Edited(r)
         /\ r \in DOMAIN backups => Stored(server[r], Named(backups[r])) = base[r]
<1> DEFINE o == base[r]
           p == Named(patches[r])
           b == Backup(o, p)
<1>1. IsDoc(o) /\ IsPatch(p) /\ IsPatch(patches[r])
  BY NamedType DEF EditInv, TypeInv, TypeOK
<1>2. Edited(r) = Merge(o, p)
  BY DEF Edited, Stored, Patching
<1>3. server[r] \in {o, Merge(o, p)}
  BY <1>2 DEF EditInv, TwoStates
<1>4. Merge(server[r], p) = Merge(o, p)
  BY <1>1, <1>3, MergeIdempotent
<1>5. IsDoc(server[r]) /\ IsPatch(b)
  BY <1>1, BackupType DEF EditInv, TypeInv, TypeOK
<1>6. Merge(server[r], Named(b)) = o
  BY <1>1, <1>3, <1>5, RoundTrip, NamedMerge
<1>7. r \in DOMAIN backups => Named(backups[r]) = Named(b)
  BY DEF EditInv, BackupsRight
<1> QED
  BY <1>1, <1>2, <1>4, <1>6, <1>7 DEF Stored, Patching

\* Writing the name into a patch or a backup changes neither what it does to a
\* document nor what the backup ought to be.
LEMMA Naming ==
  ASSUME Patching, EditInv, SettingStays, NEW r \in Resource, NameBody(r),
         UNCHANGED base
  PROVE  /\ DOMAIN backups' = DOMAIN backups
         /\ BackupsRight'
         /\ \A q \in Resource : Edited(q)' = Edited(q)
<1>1. \A p : IsPatch(p) => Named(Named(p)) = Named(p)
  BY NamedType
<1>2. \A q \in Resource : Named(patches'[q]) = Named(patches[q])
  BY <1>1 DEF NameBody, EditInv, TypeInv, TypeOK
<1>3. DOMAIN backups' = DOMAIN backups
  BY DEF NameBody
<1>4. \A q \in DOMAIN backups : Named(backups'[q]) = Named(backups[q])
  BY <1>1 DEF NameBody, EditInv, TypeInv, TypeOK
<1>5. DOMAIN backups \subseteq Resource
  BY DEF EditInv, TypeInv, TypeOK
<1>6. BackupsRight'
  BY <1>2, <1>3, <1>4, <1>5 DEF BackupsRight, EditInv
<1>7. \A q \in Resource : Edited(q)' = Edited(q)
  BY <1>2 DEF Edited, Stored, SettingStays
<1> QED
  BY <1>3, <1>6, <1>7

\* A request that took effect leaves its resource in the state its loop is after.
LEMMA Sending ==
  ASSUME Patching, EditInv, NEW r \in Resource, Applying(r), NameBody(r), Effect(r),
         UNCHANGED base
  PROVE  server' = [server EXCEPT ![r] = IF call = "restore" THEN base[r] ELSE Edited(r)]
<1>1. call = "restore" => r \in DOMAIN backups
  BY DEF Applying, IsNext, EditInv, Control
<1> QED
  BY <1>1, Effects DEF Effect, Body

\* A write of another client, outside what the patch names, is made alike to the
\* untouched and to the edited document, and the backup is as right as it was.
LEMMA OtherWritePreserves ==
  ASSUME Patching, EditInv, TypeInv', Control', SettingStays, NEW r \in Resource,
         NEW s, NEW b,
         OtherWrite(r, s, b),
         server[r] = base[r] => s = b,
         server[r] = Edited(r) => s = Merge(b, Named(patches[r])),
         Edited(r) = base[r] => Merge(b, Named(patches[r])) = b,
         Backup(b, Named(patches[r])) = Backup(base[r], Named(patches[r]))
  PROVE  EditInv'
<1> USE DEF SettingStays
<1>1. /\ server' = [server EXCEPT ![r] = s]
      /\ base' = [base EXCEPT ![r] = b]
      /\ UNCHANGED <<patches, backups, batch, todo, pc, call, outcome, covered>>
  BY DEF OtherWrite
<1>2. /\ server'[r] = s /\ base'[r] = b
      /\ \A q \in Resource \ {r} : server'[q] = server[q] /\ base'[q] = base[q]
  BY <1>1 DEF EditInv, TypeInv, TypeOK
<1>3. Edited(r)' = Merge(b, Named(patches[r]))
  BY <1>1, <1>2 DEF Edited, Stored, Patching
<1>4. \A q \in Resource \ {r} : Edited(q)' = Edited(q)
  BY <1>1, <1>2 DEF Edited, Stored
<1>5. DOMAIN backups \subseteq Resource /\ batch \subseteq Resource
  BY DEF EditInv, TypeInv, TypeOK
<1>6. BackupsRight'
  BY <1>1, <1>2, <1>5 DEF BackupsRight, EditInv
<1>7. TwoStates'
  BY <1>1, <1>2, <1>3, <1>4 DEF TwoStates, EditInv
<1>8. LeftOut'
  BY <1>1, <1>2, <1>3, <1>4 DEF LeftOut, EditInv
<1>9. LoopDone'
  BY <1>1, <1>2, <1>3, <1>4, <1>5 DEF LoopDone, EditInv
<1> QED
  BY <1>6, <1>7, <1>8, <1>9 DEF EditInv

\* The steps of other clients.
LEMMA OtherPreserves ==
  ASSUME Patching, EditInv, TypeInv', Control', SettingStays, OtherStep
  PROVE  EditInv'
<1>1. PICK r \in Resource, k \in Key, a \in Atom :
         \/ OtherSetsSection(r, k, a)
         \/ \E f \in Field : OtherSetsField(r, k, f, a)
  BY DEF OtherStep
<1> DEFINE o == base[r]
           p == Named(patches[r])
<1>2. IsDoc(o) /\ IsPatch(p) /\ IsPatch(patches[r]) /\ Edited(r) = Merge(o, p)
  BY Effects
<1>3. DOMAIN p = DOMAIN patches[r] \union {Meta}
  BY DEF Named, SetKey
<1>4. CASE OtherSetsSection(r, k, a)
  <2>1. k \notin DOMAIN p /\ k \in Key \ {Meta}
    BY <1>3, <1>4 DEF OtherSetsSection
  <2> DEFINE s == SetKey(server[r], k, a)
             b == SetKey(o, k, a)
  <2>2. OtherWrite(r, s, b)
    BY <1>4 DEF OtherSetsSection
  <2>3. Merge(b, p) = SetKey(Merge(o, p), k, a) /\ Backup(b, p) = Backup(o, p)
    BY <1>2, <2>1, SetSection
  <2>4. server[r] = Edited(r) => s = Merge(b, p)
    BY <1>2, <2>3
  <2>5. Edited(r) = o => Merge(b, p) = b
    BY <1>2, <2>3
  <2>6. server[r] = o => s = b
    OBVIOUS
  <2> HIDE DEF s, b, p
  <2> QED
    BY <2>2, <2>3, <2>4, <2>5, <2>6, OtherWritePreserves DEF p
<1>5. ASSUME NEW f \in Field, OtherSetsField(r, k, f, a)
      PROVE  EditInv'
  <2> DEFINE s == SetField(server[r], k, f, a)
             b == SetField(o, k, f, a)
  <2>1. k \in DOMAIN o /\ IsDict(o[k])
    BY <1>5 DEF OtherSetsField
  <2>2. k \in DOMAIN p => IsDict(p[k]) /\ f \notin DOMAIN p[k]
    <3>1. CASE k \in DOMAIN patches[r]
      <4>1. p[k] = patches[r][k]
        BY <3>1 DEF Named, SetKey
      <4> QED
        BY <1>5, <3>1, <4>1 DEF OtherSetsField
    <3>2. CASE k \notin DOMAIN patches[r]
      <4>1. k \in DOMAIN p => p[k] = Empty
        BY <3>2 DEF Named, SetKey
      <4> QED
        BY <4>1, EmptyIsDict DEF Empty
    <3> QED
      BY <3>1, <3>2
  <2>3. OtherWrite(r, s, b)
    BY <1>5 DEF OtherSetsField
  <2>4. Merge(b, p) = SetField(Merge(o, p), k, f, a) /\ Backup(b, p) = Backup(o, p)
    BY <1>2, <2>1, <2>2, SetFieldOfDoc
  <2>5. server[r] = Edited(r) => s = Merge(b, p)
    BY <1>2, <2>4
  <2>6. Edited(r) = o => Merge(b, p) = b
    BY <1>2, <2>4
  <2>7. server[r] = o => s = b
    OBVIOUS
  <2> HIDE DEF s, b, p
  <2> QED
    BY <2>3, <2>4, <2>5, <2>6, <2>7, OtherWritePreserves DEF p
<1> QED
  BY <1>1, <1>4, <1>5

\* The steps of the caller, if it has backups of what it edits.
LEMMA CallerPreserves ==
  ASSUME Patching, EditInv, TypeInv', Control', SettingStays, CallerStep, covered'
  PROVE  EditInv'
<1> USE DEF SettingStays
<1>1. CASE CallEnter
  <2>1. /\ UNCHANGED <<patches, backups, server, base>>
        /\ pc' = "backup" /\ todo' = Resource /\ call' = "enter" /\ outcome' = "none"
        /\ server = base
    BY <1>1 DEF CallEnter, Call
  <2>2. \A r \in Resource : Edited(r)' = Edited(r)
    BY <2>1 DEF Edited, Stored
  <2> QED
    BY <2>1, <2>2 DEF EditInv, BackupsRight, TwoStates, LeftOut, LoopDone
<1>2. CASE CallEnterUserBackups
  BY <1>2 DEF CallEnterUserBackups, Patching
<1>3. CASE CallUpdate
  <2>1. /\ UNCHANGED <<patches, backups, server, base>>
        /\ pc' = "apply" /\ batch' = Resource /\ todo' = Resource
        /\ call' = "update" /\ outcome' = "none"
        /\ \A r \in Resource \ DOMAIN backups : Edited(r) = base[r]
    BY <1>3 DEF CallUpdate, Call, Submit
  <2>2. \A r \in Resource : Edited(r)' = Edited(r)
    BY <2>1 DEF Edited, Stored
  <2> QED
    BY <2>1, <2>2 DEF EditInv, BackupsRight, TwoStates, LeftOut, LoopDone
<1>4. CASE CallRestore
  <2>1. /\ pc' = "apply" /\ call' = "restore" /\ outcome' = "none"
        /\ batch' = DOMAIN backups /\ todo' = DOMAIN backups
        /\ UNCHANGED <<patches, backups, server, base>>
    BY <1>4 DEF CallRestore, Call, Submit
  <2>2. \A r \in Resource : Edited(r)' = Edited(r)
    BY <2>1 DEF Edited, Stored
  <2> QED
    BY <2>1, <2>2 DEF EditInv, BackupsRight, TwoStates, LeftOut, LoopDone
<1> QED
  BY <1>1, <1>2, <1>3, <1>4 DEF CallerStep

\* The steps of the editor that send no request.
LEMMA QuietPreserves ==
  ASSUME Patching, EditInv, TypeInv', Control', SettingStays,
         \/ BackupsDone \/ BatchDone \/ Retry \/ TimeoutExpired
         \/ \E r \in Resource : BackupOne(r) \/ SkipHidden(r) \/ BackupRaises(r)
  PROVE  EditInv'
<1> USE DEF SettingStays
<1>1. UNCHANGED <<patches, server, base, covered, call>>
  BY DEF BackupsDone, BatchDone, Retry, TimeoutExpired, BackupOne, SkipHidden, BackupRaises
<1>2. \A r \in Resource : Edited(r)' = Edited(r)
  BY <1>1 DEF Edited, Stored
<1>3. CASE BackupsDone
  BY <1>1, <1>2, <1>3
  DEF BackupsDone, Return, Submit, EditInv, Control, BackupsRight, TwoStates, LeftOut, LoopDone
<1>4. CASE BatchDone
  <2>1. /\ pc = "apply" /\ todo = {} /\ pc' = "idle" /\ outcome' = "returned"
        /\ UNCHANGED <<backups, batch, todo>>
    BY <1>4 DEF BatchDone, Return
  <2>2. BackupsRight' /\ TwoStates'
    BY <1>1, <1>2, <2>1 DEF EditInv, BackupsRight, TwoStates
  <2>3. LeftOut'
    BY <1>1, <1>2, <2>1 DEF EditInv, LeftOut
  <2>4. LoopDone'
    <3>1. batch \subseteq Resource
      BY DEF EditInv, TypeInv, TypeOK
    <3> QED
      BY <1>1, <1>2, <2>1, <3>1 DEF EditInv, LoopDone
  <2> QED
    BY <2>2, <2>3, <2>4 DEF EditInv
<1>5. CASE Retry
  BY <1>1, <1>2, <1>5
  DEF Retry, EditInv, Control, BackupsRight, TwoStates, LeftOut, LoopDone
<1>6. CASE TimeoutExpired
  BY <1>1, <1>2, <1>6
  DEF TimeoutExpired, Raise, EditInv, Control, BackupsRight, TwoStates, LeftOut, LoopDone
<1>7. ASSUME NEW r \in Resource, SkipHidden(r)
      PROVE  EditInv'
  BY <1>1, <1>2, <1>7
  DEF SkipHidden, BackingUp, EditInv, Control, BackupsRight, TwoStates, LeftOut, LoopDone
<1>8. ASSUME NEW r \in Resource, BackupRaises(r)
      PROVE  EditInv'
  BY <1>1, <1>2, <1>8
  DEF BackupRaises, BackingUp, Raise, EditInv, Control, BackupsRight, TwoStates, LeftOut, LoopDone
<1>9. ASSUME NEW r \in Resource, BackupOne(r)
      PROVE  EditInv'
  <2> DEFINE b == Backup(server[r], patches[r])
  <2>1. pc = "backup" /\ server[r] = base[r]
    BY <1>9 DEF BackupOne, BackingUp, EditInv, TwoStates
  <2>2. IsDoc(base[r]) /\ IsPatch(patches[r]) /\ Edited(r) = Merge(base[r], Named(patches[r]))
    BY Effects
  <2>3. CASE b = Empty
    <3>1. Edited(r) = base[r]
      BY <2>1, <2>2, <2>3, NoDiff, NamedMerge
    <3>2. UNCHANGED <<backups, batch>>
      BY <1>9, <2>3 DEF BackupOne, Patching
    <3> QED
      BY <1>1, <1>2, <1>9, <2>1, <3>1, <3>2
      DEF BackupOne, EditInv, Control, BackupsRight, TwoStates, LeftOut, LoopDone
  <2>4. CASE b # Empty
    <3>1. Named(b) = Named(Backup(base[r], Named(patches[r])))
      BY <2>1, <2>2, NamedBackup
    <3>2. KeepBackup(r, b)
      BY <1>9, <2>4 DEF BackupOne
    <3>3. /\ DOMAIN backups' = DOMAIN backups \union {r}
          /\ batch' = batch \union {r}
          /\ backups'[r] = b
          /\ \A q \in DOMAIN backups \ {r} : backups'[q] = backups[q]
      BY <3>2 DEF KeepBackup
    <3> HIDE DEF b
    <3> QED
      BY <1>1, <1>2, <1>9, <2>1, <3>1, <3>3
      DEF BackupOne, EditInv, Control, BackupsRight, TwoStates, LeftOut, LoopDone
  <2> QED
    BY <2>3, <2>4
<1> QED
  BY <1>3, <1>4, <1>5, <1>6, <1>7, <1>8, <1>9

\* The steps that send a request, or read the version it will carry.
LEMMA RequestPreserves ==
  ASSUME Patching, EditInv, TypeInv', Control', SettingStays, NEW r \in Resource,
         \/ ReadVersion(r) \/ ApplyOne(r) \/ RequestRetriable(r) \/ RequestRaises(r)
  PROVE  EditInv'
<1> DEFINE target == IF call = "restore" THEN base[r] ELSE Edited(r)
<1>1. CASE ReadVersion(r)
  BY <1>1 DEF ReadVersion, Patching
<1>2. CASE ApplyOne(r) \/ RequestRetriable(r) \/ RequestRaises(r)
  <2>1. /\ Applying(r) /\ NameBody(r) /\ UNCHANGED <<base, covered, call, batch>>
        /\ Effect(r) \/ UNCHANGED server
    BY <1>2 DEF ApplyOne, RequestRetriable, RequestRaises, MaySend
  <2>2. /\ pc = "apply" /\ r \in todo /\ r \in batch /\ batch \subseteq Resource
        /\ outcome = "none"
        /\ call \in {"enter", "restore"} => r \in DOMAIN backups
    BY <2>1 DEF Applying, IsNext, EditInv, Control, TypeInv, TypeOK
  <2>3. /\ DOMAIN backups' = DOMAIN backups /\ BackupsRight'
        /\ \A q \in Resource : Edited(q)' = Edited(q)
    BY <2>1, Naming
  <2>4. server' = [server EXCEPT ![r] = target] \/ server' = server
    BY <2>1, Sending
  <2>5. /\ server'[r] \in {server[r], target}
        /\ \A q \in Resource \ {r} : server'[q] = server[q]
    BY <2>4 DEF EditInv, TypeInv, TypeOK
  <2>6. /\ todo' \in {todo, todo \ {r}, {}}
        /\ \/ pc' = "apply" /\ outcome' = outcome /\ todo' = todo \ {r}
           \/ pc' = "sleep" /\ outcome' = outcome /\ todo' = todo
           \/ pc' = "idle" /\ outcome' = "raised" /\ todo' = {}
    BY <1>2, <2>2 DEF ApplyOne, RequestRetriable, RequestRaises, Raise, Applying
  <2>7. pc' = "apply" => server'[r] = target
    <3>1. pc' = "apply" => ApplyOne(r)
      BY <1>2 DEF RequestRetriable, RequestRaises, Raise
    <3>2. ApplyOne(r) => server' = [server EXCEPT ![r] = target]
      BY <2>1, Sending DEF ApplyOne
    <3> QED
      BY <3>1, <3>2 DEF EditInv, TypeInv, TypeOK
  <2> HIDE DEF target
  <2>8. target \in {base[r], Edited(r)} /\ target = IF call = "restore" THEN base[r] ELSE Edited(r)
    BY DEF target
  <2>9. r \notin DOMAIN backups => Edited(r) = base[r]
    BY <2>2 DEF EditInv, Control, LeftOut, TypeInv, TypeOK
  <2>10. TwoStates'
    BY <2>1, <2>2, <2>3, <2>5, <2>6, <2>8, <2>9 DEF EditInv, TwoStates
  <2>11. LeftOut'
    <3>1. /\ call = "enter" => \A q \in Resource \ (batch \union Hidden) : Edited(q) = base[q]
          /\ call = "update" => \A q \in Resource \ DOMAIN backups : Edited(q) = base[q]
      BY <2>2 DEF EditInv, LeftOut
    <3> QED
      BY <2>1, <2>3, <3>1 DEF LeftOut, SettingStays
  <2>12. LoopDone'
    BY <2>1, <2>2, <2>3, <2>5, <2>6, <2>7, <2>8 DEF EditInv, LoopDone
  <2> QED
    BY <2>3, <2>10, <2>11, <2>12 DEF EditInv
<1> QED
  BY <1>1, <1>2

\* The loops keep their order. A with statement enters once, before it edits, and
\* so has a backup of what it edits.
LEMMA NextControl ==
  ASSUME Patching, CoveredInv, SettingStays, Next
  PROVE  Control'
<1> USE DEF SettingStays
<1>1. Control /\ batch \subseteq Resource /\ DOMAIN backups \subseteq Resource
  BY DEF CoveredInv, TypeInv, TypeOK
<1>2. CASE CallEnter
  <2>1. /\ pc' = "backup" /\ call' = "enter" /\ outcome' = "none" /\ batch' = {}
        /\ UNCHANGED backups
        /\ covered' = (covered /\ server = base)
        /\ Protocol = "with" => call = "none"
    BY <1>2 DEF CallEnter, Call, MayCall
  <2>2. Protocol = "with" => covered /\ server = base /\ DOMAIN backups = {}
    <3> SUFFICES ASSUME Protocol = "with"
                 PROVE  covered /\ server = base /\ DOMAIN backups = {}
      OBVIOUS
    <3>1. covered /\ DOMAIN backups = {}
      BY <1>1, <2>1 DEF Control
    <3>2. \A r \in Resource : server[r] = base[r]
      BY <3>1 DEF CoveredInv, EditInv, TwoStates
    <3> QED
      BY <3>1, <3>2 DEF CoveredInv, TypeInv, TypeOK
  <2> QED
    BY <2>1, <2>2 DEF Control
<1>3. CASE CallEnterUserBackups
  BY <1>3 DEF CallEnterUserBackups, Patching
<1>4. CASE CallUpdate
  BY <1>4 DEF Control, CallUpdate, Call, MayCall, Submit
<1>5. CASE CallRestore
  BY <1>1, <1>5 DEF Control, CallRestore, Call, MayCall, Submit
<1>6. CASE EditorStep
  <2>1. CASE BackupsDone \/ BatchDone \/ Retry \/ TimeoutExpired
    BY <1>1, <2>1 DEF Control, BackupsDone, BatchDone, Retry, TimeoutExpired, Return, Raise, Submit
  <2>2. ASSUME NEW r \in Resource, BackupOne(r) \/ SkipHidden(r) \/ BackupRaises(r)
        PROVE  Control'
    BY <1>1, <2>2 DEF Control, BackupOne, SkipHidden, BackupRaises, BackingUp, KeepBackup, Raise
  <2>3. ASSUME NEW r \in Resource,
               ReadVersion(r) \/ ApplyOne(r) \/ RequestRetriable(r) \/ RequestRaises(r)
        PROVE  Control'
    <3>1. NameBody(r) /\ Applying(r) /\ UNCHANGED <<batch, call, covered>>
      BY <2>3 DEF ReadVersion, ApplyOne, RequestRetriable, RequestRaises, MaySend
    <3>2. DOMAIN backups' = DOMAIN backups
      BY <3>1 DEF NameBody
    <3>3. \/ pc' = "apply" /\ outcome' = outcome /\ todo' \subseteq todo
          \/ pc' = "sleep" /\ outcome' = outcome /\ todo' = todo
          \/ pc' = "idle" /\ outcome' = "raised" /\ todo' = {}
      BY <2>3, <3>1 DEF ReadVersion, ApplyOne, RequestRetriable, RequestRaises, Raise, Applying
    <3>4. pc = "apply"
      BY <3>1 DEF Applying
    <3> QED
      BY <1>1, <3>1, <3>2, <3>3, <3>4 DEF Control
  <2> QED
    BY <1>6, <2>1, <2>2, <2>3 DEF EditorStep
<1>7. CASE OtherStep
  BY <1>1, <1>7 DEF Control, OtherStep, OtherSetsSection, OtherSetsField, OtherWrite
<1> QED
  BY <1>2, <1>3, <1>4, <1>5, <1>6, <1>7 DEF Next, CallerStep

\* What is not covered stays so.
LEMMA CoveredBefore ==
  ASSUME TypeInv, Next, covered'
  PROVE  covered
<1>1. covered' = covered \/ CallEnter \/ CallEnterUserBackups \/ CallUpdate
  BY DEF Next, CallerStep, CallRestore, EditorStep, BackupsDone, BatchDone, Retry, TimeoutExpired,
     BackupOne, SkipHidden, BackupRaises, ReadVersion, ApplyOne, RequestRetriable, RequestRaises,
     OtherStep, OtherSetsSection, OtherSetsField, OtherWrite
<1>2. CallEnter \/ CallEnterUserBackups \/ CallUpdate => covered
  BY ZenonT(30) DEF CallEnter, CallEnterUserBackups, CallUpdate
<1> QED
  BY <1>1, <1>2

LEMMA NextEdit ==
  ASSUME Patching, CoveredInv, [Next]_vars
  PROVE  CoveredInv' /\ Patching'
<1> SettingStays
  BY StaysInSetting
<1> USE DEF SettingStays
<1>1. TypeInv' /\ Patching'
  BY NextType DEF CoveredInv, Patching
<1>2. CASE UNCHANGED vars
  <2>1. \A r \in Resource : Edited(r)' = Edited(r)
    BY <1>2 DEF Edited, Stored, vars, editor
  <2>2. batch \subseteq Resource /\ DOMAIN backups \subseteq Resource
    BY DEF CoveredInv, TypeInv, TypeOK
  <2>3. Control' /\ covered' = covered
    BY <1>2 DEF CoveredInv, Control, vars, editor
  <2>4. ASSUME EditInv PROVE BackupsRight' /\ TwoStates'
    BY <1>2, <2>1, <2>2, <2>4 DEF EditInv, BackupsRight, TwoStates, vars, editor
  <2>5. ASSUME EditInv PROVE LeftOut' /\ LoopDone'
    BY <1>2, <2>1, <2>2, <2>5 DEF EditInv, LeftOut, LoopDone, vars, editor
  <2> QED
    BY <1>1, <2>3, <2>4, <2>5 DEF CoveredInv, EditInv
<1>3. CASE Next
  <2>1. Control'
    BY <1>3, NextControl
  <2>2. ASSUME covered' PROVE EditInv'
    <3>1. EditInv
      BY <1>3, <2>2, CoveredBefore DEF CoveredInv
    <3>2. CASE CallerStep
      BY <1>1, <2>1, <2>2, <3>1, <3>2, CallerPreserves
    <3>3. CASE EditorStep
      BY <1>1, <2>1, <3>1, <3>3, QuietPreserves, RequestPreserves DEF EditorStep
    <3>4. CASE OtherStep
      BY <1>1, <2>1, <3>1, <3>4, OtherPreserves
    <3> QED
      BY <1>3, <3>2, <3>3, <3>4 DEF Next
  <2> QED
    BY <1>1, <2>1, <2>2 DEF CoveredInv
<1> QED
  BY <1>2, <1>3

LEMMA InitEdit ==
  ASSUME Patching, Init
  PROVE  CoveredInv
<1>1. TypeInv
  BY InitType
<1>2. DOMAIN backups = {}
  BY DEF Init
<1>3. EditInv
  BY <1>1, <1>2 DEF EditInv, Control, BackupsRight, TwoStates, LeftOut, LoopDone, Init
<1> QED
  BY <1>3 DEF CoveredInv, EditInv

-------------------------------------------------------------------------------
(***************************************************************************)
(* Safety of an editor that PUTs whole documents, as long as nobody else   *)
(* writes. The caller keeps them, since what _create_backup keeps is not   *)
(* enough (editor_replace_loses).                                          *)
(***************************************************************************)
Replacing == Action = "replace" /\ UserBackups

\* A document is stored as it is.
LEMMA DocIsStored ==
  ASSUME NEW d, IsDoc(d)
  PROVE  Named(d) = d /\ DropNulls(d) = d
<1>1. Named(d) = d
  BY DEF Named, IsDoc
<1>2. \A k \in DOMAIN d : d[k] # None /\ DropNullFields(d[k]) = d[k]
  <2> SUFFICES ASSUME NEW k \in DOMAIN d PROVE d[k] # None /\ DropNullFields(d[k]) = d[k]
    OBVIOUS
  <2>1. IsSection(d[k])
    BY DEF IsDoc
  <2>2. CASE IsDict(d[k])
    <3>1. d[k] \in [DOMAIN d[k] -> Atom]
      BY <2>1, <2>2 DEF IsSection, IsDict, Scalar, DictOver
    <3>2. {g \in DOMAIN d[k] : d[k][g] # None} = DOMAIN d[k]
      BY <3>1, DocAssumption
    <3>3. d[k] = [f \in DOMAIN d[k] |-> d[k][f]]
      BY <3>1
    <3> QED
      BY <2>2, <3>2, <3>3 DEF DropNullFields, IsDict, Scalar
  <2>3. CASE ~IsDict(d[k])
    BY <2>1, <2>3, DocAssumption DEF IsSection, DropNullFields
  <2> QED
    BY <2>2, <2>3
<1>3. {j \in DOMAIN d : d[j] # None} = DOMAIN d
  BY <1>2
<1>4. DropNulls(d) = [k \in DOMAIN d |-> d[k]]
  BY <1>2, <1>3 DEF DropNulls
<1> QED
  BY <1>1, <1>4 DEF IsDoc

\* The whole batch is all of the resources, in the one with statement there is.
PutControl ==
    /\ Protocol = "with" /\ pc # "backup"
    /\ call \in {"none", "enter", "restore"}
    /\ call = "none" => pc = "idle" /\ outcome = "none" /\ DOMAIN backups = {}
    /\ call # "none" => batch = Resource /\ DOMAIN backups = Resource
    /\ pc = "idle" => todo = {}
    /\ pc # "idle" => outcome = "none"

\* The backups are the documents; every resource is untouched or edited, and what the
\* loop is past is where it was to be.
PutStates ==
    /\ \A r \in DOMAIN backups : backups[r] = base[r]
    /\ \A r \in Resource : server[r] \in {base[r], Edited(r)}
    /\ call = "none" => server = base
    /\ call # "none" /\ (pc = "apply" \/ outcome = "returned") =>
         \A r \in Resource \ todo :
             server[r] = IF call = "restore" THEN base[r] ELSE Edited(r)

PutInv == TypeInv /\ PutControl /\ (writes = 0 => PutStates)

LEMMA InitPut ==
  ASSUME Replacing, Init
  PROVE  PutInv
<1>1. TypeInv
  BY InitType
<1>2. Protocol = "with"
  BY EditorAssumption DEF Init, Replacing, UserBackups, Protocol
<1>3. DOMAIN backups = {}
  BY DEF Init
<1> QED
  BY <1>1, <1>2, <1>3 DEF Init, PutInv, PutControl, PutStates

\* A PUT leaves its resource in the state its loop is after.
LEMMA PutSends ==
  ASSUME Replacing, PutInv, SettingStays, writes = 0, NEW r \in Resource,
         Applying(r), NameBody(r), Effect(r) \/ UNCHANGED server, UNCHANGED base
  PROVE  /\ \A q \in DOMAIN backups' : backups'[q] = base[q]
         /\ \A q \in Resource : Edited(q)' = Edited(q)
         /\ \A q \in Resource \ {r} : server'[q] = server[q]
         /\ server'[r] \in {server[r], IF call = "restore" THEN base[r] ELSE Edited(r)}
         /\ Effect(r) => server'[r] = IF call = "restore" THEN base[r] ELSE Edited(r)
<1>1. PutStates /\ TypeOK
  BY DEF PutInv, TypeInv
<1>2. \A p : IsPatch(p) => Named(Named(p)) = Named(p)
  BY NamedType
<1>3. \A q \in Resource : Named(patches'[q]) = Named(patches[q])
  BY <1>1, <1>2 DEF NameBody, TypeOK
<1>4. \A q \in Resource : Edited(q)' = Edited(q)
  BY <1>3 DEF Edited, Stored, SettingStays
<1>5. \A q \in Resource : IsDoc(base[q]) /\ Named(base[q]) = base[q] /\ DropNulls(base[q]) = base[q]
  BY <1>1, DocIsStored DEF TypeOK
<1>6. \A q \in DOMAIN backups' : backups'[q] = base[q]
  BY <1>1, <1>5 DEF NameBody, PutStates, TypeOK
<1>7. call = "restore" => r \in DOMAIN backups /\ backups[r] = base[r]
  BY <1>1 DEF PutInv, PutControl, PutStates
<1>8. Stored(server[r], Named(Body(r))) = IF call = "restore" THEN base[r] ELSE Edited(r)
  BY <1>5, <1>7 DEF Stored, Edited, Body, Replacing
<1>9. Effect(r) => server' = [server EXCEPT ![r] = Stored(@, Named(Body(r)))]
  BY DEF Effect
<1>10. DOMAIN server = Resource
  BY <1>1 DEF TypeOK
<1> QED
  BY <1>4, <1>6, <1>8, <1>9, <1>10

LEMMA NextPut ==
  ASSUME Replacing, PutInv, [Next]_vars
  PROVE  PutInv' /\ Replacing'
<1> SettingStays
  BY StaysInSetting
<1>1. TypeInv' /\ Replacing' /\ Protocol' = Protocol
  BY NextType DEF PutInv, Replacing, SettingStays
<1>2. TypeInv /\ PutControl /\ Protocol = "with"
  BY DEF PutInv, PutControl
<1>3. ASSUME UNCHANGED <<patches, base>> PROVE \A r \in Resource : Edited(r)' = Edited(r)
  BY <1>3 DEF Edited, Stored, SettingStays
<1>4. ~CallEnter /\ ~CallUpdate
  BY <1>2 DEF CallEnter, CallUpdate, Call, MayCall, Replacing
<1>5. CASE CallEnterUserBackups
  <2>1. /\ call = "none" /\ call' = "enter" /\ pc' = "apply" /\ outcome' = "none"
        /\ batch' = Resource /\ todo' = Resource /\ backups' = server
        /\ UNCHANGED <<patches, server, base, writes>>
    BY <1>2, <1>5 DEF CallEnterUserBackups, Call, MayCall, Submit
  <2>2. DOMAIN backups' = Resource
    BY <1>2, <2>1 DEF TypeInv, TypeOK
  <2>3. PutControl'
    BY <1>1, <1>2, <2>1, <2>2 DEF PutControl
  <2>4. writes' = 0 => PutStates'
    BY <1>3, <2>1, <2>2 DEF PutInv, PutStates
  <2> QED
    BY <1>1, <2>3, <2>4 DEF PutInv
<1>6. CASE CallRestore
  <2>1. /\ call = "enter" /\ call' = "restore" /\ pc' = "apply" /\ outcome' = "none"
        /\ batch' = DOMAIN backups /\ todo' = DOMAIN backups
        /\ UNCHANGED <<patches, backups, server, base, writes>>
    BY <1>2, <1>6 DEF CallRestore, Call, MayCall, Submit
  <2>2. DOMAIN backups = Resource
    BY <1>2, <2>1 DEF PutControl
  <2>3. PutControl'
    BY <1>1, <1>2, <2>1, <2>2 DEF PutControl
  <2>4. writes' = 0 => PutStates'
    BY <1>3, <2>1, <2>2 DEF PutInv, PutStates
  <2> QED
    BY <1>1, <2>3, <2>4 DEF PutInv
<1>7. CASE BatchDone \/ Retry \/ TimeoutExpired
  <2>1. /\ pc \in {"apply", "sleep"} /\ UNCHANGED <<patches, backups, batch, call, server, base, writes>>
        /\ \/ pc = "apply" /\ todo = {} /\ pc' = "idle" /\ outcome' = "returned" /\ todo' = todo
           \/ pc' = "apply" /\ outcome' = outcome /\ todo' = batch
           \/ pc' = "idle" /\ outcome' = "raised" /\ todo' = {}
    BY <1>7 DEF BatchDone, Retry, TimeoutExpired, Return, Raise
  <2>2. PutControl'
    BY <1>1, <1>2, <2>1 DEF PutControl
  <2>3. writes' = 0 => PutStates'
    BY <1>2, <1>3, <2>1 DEF PutInv, PutStates, PutControl
  <2> QED
    BY <1>1, <2>2, <2>3 DEF PutInv
<1>8. ASSUME NEW r \in Resource,
             ReadVersion(r) \/ ApplyOne(r) \/ RequestRetriable(r) \/ RequestRaises(r)
      PROVE  PutInv'
  <2>1. /\ Applying(r) /\ NameBody(r) /\ (Effect(r) \/ UNCHANGED server)
        /\ UNCHANGED <<batch, call, base, writes>>
    BY <1>8 DEF ReadVersion, ApplyOne, RequestRetriable, RequestRaises, MaySend
  <2>2. pc = "apply" /\ call # "none" /\ outcome = "none" /\ r \in todo
    BY <1>2, <2>1 DEF Applying, IsNext, PutControl
  <2>3. \/ pc' = "apply" /\ outcome' = outcome /\ todo' = todo /\ server' = server
        \/ pc' = "apply" /\ outcome' = outcome /\ todo' = todo \ {r} /\ Effect(r)
        \/ pc' = "sleep" /\ outcome' = outcome /\ todo' = todo
        \/ pc' = "idle" /\ outcome' = "raised" /\ todo' = {}
    BY <1>8, <2>2 DEF ReadVersion, ApplyOne, RequestRetriable, RequestRaises, Raise
  <2>4. DOMAIN backups' = DOMAIN backups
    BY <2>1 DEF NameBody
  <2>5. PutControl'
    BY <1>1, <1>2, <2>1, <2>2, <2>3, <2>4 DEF PutControl
  <2>6. ASSUME writes' = 0 PROVE PutStates'
    <3>1. writes = 0 /\ PutStates
      BY <2>1, <2>6 DEF PutInv
    <3>2. /\ \A q \in DOMAIN backups' : backups'[q] = base[q]
          /\ \A q \in Resource : Edited(q)' = Edited(q)
          /\ \A q \in Resource \ {r} : server'[q] = server[q]
          /\ server'[r] \in {server[r], IF call = "restore" THEN base[r] ELSE Edited(r)}
          /\ Effect(r) => server'[r] = IF call = "restore" THEN base[r] ELSE Edited(r)
      BY <2>1, <3>1, PutSends
    <3>3. \A q \in Resource : server'[q] \in {base[q], Edited(q)}
      BY <3>1, <3>2 DEF PutStates
    <3>4. ASSUME pc' = "apply" \/ outcome' = "returned", NEW q \in Resource \ todo'
          PROVE  server'[q] = IF call = "restore" THEN base[q] ELSE Edited(q)
      BY <2>2, <2>3, <3>1, <3>2, <3>4 DEF PutStates
    <3> QED
      BY <2>1, <2>2, <3>2, <3>3, <3>4 DEF PutStates
  <2> QED
    BY <1>1, <2>5, <2>6 DEF PutInv
<1>9. \A r \in Resource : ~BackupsDone /\ ~BackupOne(r) /\ ~SkipHidden(r) /\ ~BackupRaises(r)
  BY <1>2 DEF PutControl, BackupsDone, BackupOne, SkipHidden, BackupRaises, BackingUp
<1>10. CASE OtherStep
  <2>1. /\ writes' = writes + 1 /\ writes \in Nat
        /\ UNCHANGED <<backups, batch, todo, pc, call, outcome>>
    BY <1>2, <1>10, EditorAssumption
    DEF OtherStep, OtherSetsSection, OtherSetsField, OtherWrite, TypeInv, TypeOK, Setting, MaxWrites
  <2> QED
    BY <1>1, <1>2, <2>1 DEF PutInv, PutControl
<1>11. CASE UNCHANGED vars
  BY <1>1, <1>2, <1>3, <1>11 DEF vars, editor, PutInv, PutControl, PutStates
<1>12. N \in Nat \ {0}
  BY EditorAssumption
<1> QED
  BY <1>1, <1>4, <1>5, <1>6, <1>7, <1>8, <1>9, <1>10, <1>11, <1>12
  DEF Next, CallerStep, EditorStep, Resource

-------------------------------------------------------------------------------
(***************************************************************************)
(* What an editor promises, of either kind.                                *)
(***************************************************************************)
\* PATCH with the editor's own backups, or PUT with the caller's.
SafeSettings ==
    \A s \in Settings :
        \/ s.action = "update" /\ ~s.userBackups
        \/ s.action = "replace" /\ s.userBackups

Safe == (Patching /\ CoveredInv) \/ (Replacing /\ PutInv)

LEMMA SafeHolds ==
  ASSUME SafeSettings
  PROVE  Spec => []Safe
<1>1. Init => Safe
  <2>1. Init => Patching \/ Replacing
    BY DEF Init, SafeSettings, Patching, Replacing, Action, UserBackups
  <2> QED
    BY <2>1, InitEdit, InitPut DEF Safe
<1>2. Safe /\ [Next]_vars => Safe'
  BY NextEdit, NextPut DEF Safe
<1> QED
  BY <1>1, <1>2, PTL DEF Spec

\* At every moment, in a with statement or between calls in any order, the backups
\* that are held take the cluster back, whatever failed, was retried or was written
\* by others; what a caller edited without a backup is excepted, and a PUT over what
\* others wrote.
THEOREM AlwaysRecoverable ==
  ASSUME SafeSettings
  PROVE  Spec => []Recoverable
<1>1. Patching /\ CoveredInv => Recoverable
  <2> SUFFICES ASSUME Patching, CoveredInv, covered PROVE Recoverable
    BY DEF Recoverable
  <2>1. EditInv
    BY DEF CoveredInv
  <2>2. \A r \in Resource : r \notin DOMAIN backups => server[r] = base[r]
    BY <2>1 DEF EditInv, TwoStates
  <2>3. \A r \in Resource : r \in DOMAIN backups => Stored(server[r], Named(backups[r])) = base[r]
    BY <2>1, Effects
  <2> QED
    BY <2>2, <2>3 DEF Recoverable
<1>2. Replacing /\ PutInv => Recoverable
  <2> SUFFICES ASSUME Replacing, PutInv, writes = 0, NEW r \in Resource
               PROVE  IF r \in DOMAIN backups THEN Stored(server[r], Named(backups[r])) = base[r]
                                              ELSE server[r] = base[r]
    BY DEF Recoverable, Quiet, Replacing
  <2>1. PutStates /\ PutControl /\ IsDoc(base[r])
    BY DEF PutInv, TypeInv, TypeOK
  <2>2. CASE r \in DOMAIN backups
    <3>1. backups[r] = base[r]
      BY <2>1, <2>2 DEF PutStates
    <3> QED
      BY <2>1, <2>2, <3>1, DocIsStored DEF Stored, Replacing
  <2>3. CASE r \notin DOMAIN backups
    BY <2>1, <2>3 DEF PutStates, PutControl
  <2> QED
    BY <2>2, <2>3
<1>3. Safe => Recoverable
  BY <1>1, <1>2 DEF Safe
<1> QED
  BY <1>3, SafeHolds, PTL

\* When __enter__, or update(backup_resources=True), returns, the patch of every
\* resource that is found by name is in force.
THEOREM EditsAreApplied ==
  ASSUME SafeSettings
  PROVE  Spec => []EditsApplied
<1>1. Patching /\ CoveredInv => EditsApplied
  <2> SUFFICES ASSUME Patching, CoveredInv, covered, Finished("enter", "returned"),
                      NEW r \in Resource \ Hidden
               PROVE  server[r] = Edited(r)
    BY DEF EditsApplied
  <2>1. EditInv /\ todo = {} /\ call = "enter" /\ outcome = "returned"
    BY DEF Finished, CoveredInv, Control
  <2>2. CASE r \in batch
    <3>1. r \in batch \ todo
      BY <2>1, <2>2
    <3> QED
      BY <2>1, <3>1 DEF EditInv, LoopDone
  <2>3. CASE r \notin batch
    BY <2>1, <2>3 DEF EditInv, TwoStates, LeftOut
  <2> QED
    BY <2>2, <2>3
<1>2. Replacing /\ PutInv => EditsApplied
  BY DEF EditsApplied, Finished, Quiet, Replacing, PutInv, PutControl, PutStates
<1>3. Safe => EditsApplied
  BY <1>1, <1>2 DEF Safe
<1> QED
  BY <1>3, SafeHolds, PTL

\* When __exit__, or restore(), returns, every document is what it would be had the
\* editor not been there, the writes of other clients to what was PATCHed included.
THEOREM EditsAreUndone ==
  ASSUME SafeSettings
  PROVE  Spec => []RestoredOnExit
<1>1. Patching /\ CoveredInv => RestoredOnExit
  <2> SUFFICES ASSUME Patching, CoveredInv, covered, Finished("restore", "returned")
               PROVE  server = base
    BY DEF RestoredOnExit
  <2>1. /\ EditInv /\ todo = {} /\ call = "restore" /\ outcome = "returned"
        /\ batch = DOMAIN backups
    BY DEF Finished, CoveredInv, Control
  <2>2. \A r \in Resource : server[r] = base[r]
    BY <2>1 DEF EditInv, LoopDone, TwoStates
  <2> QED
    BY <2>2 DEF CoveredInv, TypeInv, TypeOK
<1>2. Replacing /\ PutInv => RestoredOnExit
  <2> SUFFICES ASSUME Replacing, PutInv, writes = 0, Finished("restore", "returned")
               PROVE  server = base
    BY DEF RestoredOnExit, Quiet, Replacing
  <2>1. \A r \in Resource : server[r] = base[r]
    BY DEF Finished, PutInv, PutControl, PutStates
  <2> QED
    BY <2>1 DEF PutInv, TypeInv, TypeOK
<1>3. Safe => RestoredOnExit
  BY <1>1, <1>2 DEF Safe
<1> QED
  BY <1>3, SafeHolds, PTL

-------------------------------------------------------------------------------
(***************************************************************************)
(* The with statement implements TemporaryEdit, if no resource is hidden.  *)
(***************************************************************************)
WithStatement == Patching /\ Protocol = "with"

\* A with statement that PATCHes finds its resources by name.
FoundSettings ==
    SafeSettings
    /\ \A s \in Settings : s.protocol = "with" /\ s.action = "update" => s.hidden = {}

\* The things wanted and edited of a statement that is mapped.
Wanted == {r \in Resource : Edited(r) # base[r]}
Touched == {r \in Resource : server[r] # base[r]}

\* A write outside a patch does not hide that the patch changes something.
LEMMA SetSectionReveals ==
  ASSUME NEW o, IsDoc(o), NEW p, IsPatch(p), NEW k, k \notin DOMAIN p, NEW a,
         SetKey(Merge(o, p), k, a) = SetKey(o, k, a)
  PROVE  Merge(o, p) = o
<1> DEFINE q == Merge(o, p)
<1>1. q = [x \in Kept(o, p) |-> IF x \notin DOMAIN p THEN o[x] ELSE MergeSection(At(o, x), p[x])]
  BY MergeDoc
<1> HIDE DEF q
<1>2. k \in DOMAIN q <=> k \in DOMAIN o
  BY <1>1 DEF Kept
<1>3. k \in DOMAIN o => q[k] = o[k]
  BY <1>1, <1>2
<1>4. DOMAIN SetKey(q, k, a) = DOMAIN q \union {k} /\ DOMAIN SetKey(o, k, a) = DOMAIN o \union {k}
  BY DEF SetKey
<1>5. DOMAIN q = DOMAIN o
  BY <1>2, <1>4 DEF q
<1>6. \A x \in DOMAIN o \ {k} : SetKey(q, k, a)[x] = q[x] /\ SetKey(o, k, a)[x] = o[x]
  BY <1>5 DEF SetKey
<1>7. \A x \in DOMAIN o : q[x] = o[x]
  BY <1>3, <1>6 DEF q
<1>8. o = [x \in DOMAIN o |-> o[x]] /\ q = [x \in DOMAIN q |-> q[x]]
  BY <1>1 DEF IsDoc
<1> QED
  BY <1>5, <1>7, <1>8 DEF q

LEMMA SetFieldReveals ==
  ASSUME NEW o, IsDoc(o), NEW p, IsPatch(p), NEW k \in DOMAIN o, IsDict(o[k]), NEW f, NEW a,
         k \in DOMAIN p => IsDict(p[k]) /\ f \notin DOMAIN p[k],
         SetField(Merge(o, p), k, f, a) = SetField(o, k, f, a)
  PROVE  Merge(o, p) = o
<1> DEFINE q == Merge(o, p)
<1>1. q = [x \in Kept(o, p) |-> IF x \notin DOMAIN p THEN o[x] ELSE MergeSection(At(o, x), p[x])]
  BY MergeDoc
<1> HIDE DEF q
<1>2. /\ SetField(q, k, f, a) = [x \in DOMAIN q |-> IF x = k THEN SetKey(q[k], f, a) ELSE q[x]]
      /\ SetField(o, k, f, a) = [x \in DOMAIN o |-> IF x = k THEN SetKey(o[k], f, a) ELSE o[x]]
  BY <1>1 DEF SetField, IsDoc
<1>3. DOMAIN q = DOMAIN o /\ \A x \in DOMAIN o \ {k} : q[x] = o[x]
  BY <1>2 DEF q
<1>4. SetKey(q[k], f, a) = SetKey(o[k], f, a)
  BY <1>2, <1>3 DEF q
<1>5. q[k] = o[k]
  <2>1. CASE k \notin DOMAIN p
    BY <1>1, <1>3, <2>1
  <2>2. CASE k \in DOMAIN p
    <3> DEFINE t == q[k]
    <3>1. t = [x \in Kept(o[k], p[k]) |-> IF x \notin DOMAIN p[k] THEN o[k][x] ELSE p[k][x]]
      BY <1>1, <1>3, <2>2, MergeSectionDict DEF At, Target
    <3> HIDE DEF t
    <3>2. f \notin DOMAIN p[k]
      BY <2>2
    <3>3. (f \in DOMAIN t <=> f \in DOMAIN o[k]) /\ (f \in DOMAIN o[k] => t[f] = o[k][f])
      BY <3>1, <3>2 DEF Kept
    <3>4. DOMAIN SetKey(t, f, a) = DOMAIN t \union {f} /\ DOMAIN SetKey(o[k], f, a) = DOMAIN o[k] \union {f}
      BY DEF SetKey
    <3>5. DOMAIN t = DOMAIN o[k]
      BY <1>4, <3>3, <3>4 DEF t
    <3>6. \A x \in DOMAIN t \ {f} : SetKey(t, f, a)[x] = t[x] /\ SetKey(o[k], f, a)[x] = o[k][x]
      BY <3>5 DEF SetKey
    <3>7. \A x \in DOMAIN t : t[x] = o[k][x]
      BY <1>4, <3>3, <3>5, <3>6 DEF t
    <3>8. o[k] = [x \in DOMAIN o[k] |-> o[k][x]] /\ t = [x \in DOMAIN t |-> t[x]]
      BY <3>1 DEF IsDoc, IsSection, DictOver, IsDict, Scalar
    <3> QED
      BY <3>5, <3>7, <3>8 DEF t
  <2> QED
    BY <2>1, <2>2
<1>6. o = [x \in DOMAIN o |-> o[x]] /\ q = [x \in DOMAIN q |-> q[x]]
  BY <1>1 DEF IsDoc
<1> QED
  BY <1>3, <1>5, <1>6 DEF q

\* What TemporaryEdit sees of a statement that is mapped.
LEMMA Seen ==
  ASSUME Mapped
  PROVE  /\ {r \in Resource : Mapped /\ Edited(r) # base[r]} = Wanted
         /\ {r \in Resource : Mapped /\ server[r] # base[r]} = Touched
         /\ (IF Mapped THEN Phase ELSE "before") = Phase
BY DEF Wanted, Touched

\* The steps of TemporaryEdit, in these terms: only phases change, or one thing is
\* edited or put back, with or without an error.
LEMMA PhaseStep ==
  ASSUME Mapped, Mapped', Wanted' = Wanted, Touched' = Touched,
         \/ Phase' = Phase
         \/ Phase = "before" /\ Phase' = "entering"
         \/ Phase = "entering" /\ Phase' = "inside" /\ Touched = Wanted
         \/ Phase = "inside" /\ Phase' = "leaving"
         \/ Phase = "leaving" /\ Phase' = "after" /\ Touched = {}
         \/ Phase \in {"entering", "leaving"} /\ Phase' = "failed"
  PROVE  [Abstract!Next]_(Abstract!vars)
<1>1. /\ {r \in Resource : Mapped /\ Edited(r) # base[r]} = Wanted
      /\ {r \in Resource : Mapped /\ server[r] # base[r]} = Touched
      /\ (IF Mapped THEN Phase ELSE "before") = Phase
  BY Seen
<1>2. /\ {r \in Resource : Mapped /\ Edited(r) # base[r]}' = Wanted'
      /\ {r \in Resource : Mapped /\ server[r] # base[r]}' = Touched'
      /\ (IF Mapped THEN Phase ELSE "before")' = Phase'
  BY DEF Wanted, Touched
<1> QED
  BY <1>1, <1>2 DEF Abstract!Next, Abstract!vars, Abstract!Enter, Abstract!Inside, Abstract!Leave,
     Abstract!Leaving, Abstract!Fail, Abstract!Go

LEMMA ChangeStep ==
  ASSUME Mapped, Mapped', Wanted' = Wanted, NEW r \in Wanted,
         \/ Phase = "entering" /\ Touched' = Touched \union {r}
         \/ Phase = "leaving" /\ Touched' = Touched \ {r},
         Phase' \in {Phase, "failed"}
  PROVE  Abstract!Next
<1>1. /\ {q \in Resource : Mapped /\ Edited(q) # base[q]} = Wanted
      /\ {q \in Resource : Mapped /\ server[q] # base[q]} = Touched
      /\ (IF Mapped THEN Phase ELSE "before") = Phase
  BY Seen
<1>2. /\ {q \in Resource : Mapped /\ Edited(q) # base[q]}' = Wanted'
      /\ {q \in Resource : Mapped /\ server[q] # base[q]}' = Touched'
      /\ (IF Mapped THEN Phase ELSE "before")' = Phase'
  BY DEF Wanted, Touched
<1>3. Abstract!EditOne \/ Abstract!UndoOne
  BY <1>1, <1>2 DEF Abstract!EditOne, Abstract!UndoOne, Abstract!Change
<1> QED
  BY <1>3 DEF Abstract!Next

\* The calls, and the editor's steps that send no request.
LEMMA QuietMaps ==
  ASSUME WithStatement, Mapped, Mapped', EditInv, SettingStays, Hidden = {},
         \/ CallerStep
         \/ BackupsDone \/ BatchDone \/ Retry \/ TimeoutExpired
         \/ \E r \in Resource : BackupOne(r) \/ SkipHidden(r) \/ BackupRaises(r)
  PROVE  [Abstract!Next]_(Abstract!vars)
<1> USE DEF SettingStays
<1>1. UNCHANGED <<patches, server, base>>
  BY DEF CallerStep, CallEnter, CallEnterUserBackups, CallUpdate, CallRestore, Call,
     BackupsDone, BatchDone, Retry, TimeoutExpired, BackupOne, SkipHidden, BackupRaises
<1>2. \A r \in Resource : Edited(r)' = Edited(r)
  BY <1>1 DEF Edited, Stored
<1>3. Wanted' = Wanted /\ Touched' = Touched
  BY <1>1, <1>2 DEF Wanted, Touched
<1>4. pc = "backup" => Touched = {}
  BY DEF EditInv, TwoStates, Touched
<1>5. /\ Control
      /\ call \in {"none", "enter", "restore"}
      /\ batch = DOMAIN backups
  BY DEF EditInv, Control, TypeInv, TypeOK, WithStatement
<1>6. CASE CallerStep
  <2>1. \/ /\ call = "none" /\ outcome = "none" /\ call' = "enter"
           /\ pc' \in {"backup", "apply"} /\ outcome' = "none"
        \/ /\ call = "enter" /\ outcome = "returned" /\ pc = "idle" /\ call' = "restore"
           /\ pc' = "apply" /\ outcome' = "none"
    BY <1>5, <1>6 DEF CallerStep, CallEnter, CallEnterUserBackups, CallUpdate, CallRestore,
       Call, MayCall, Submit, Control, WithStatement, Patching
  <2>2. \/ Phase = "before" /\ Phase' = "entering"
        \/ Phase = "inside" /\ Phase' = "leaving"
    BY <2>1 DEF Phase
  <2> QED
    BY <1>3, <2>2, PhaseStep
<1>7. CASE BackupsDone
  <2>1. /\ pc = "backup" /\ todo = {} /\ call = "enter" /\ outcome = "none" /\ call' = call
        /\ \/ batch = {} /\ pc' = "idle" /\ outcome' = "returned"
           \/ pc' = "apply" /\ outcome' = outcome
    BY <1>5, <1>7 DEF BackupsDone, Return, Submit, Control
  <2>2. batch = {} => Wanted = {}
    BY <2>1 DEF EditInv, LeftOut, Wanted
  <2>3. Phase = "entering" /\ Phase' \in {"inside", "entering"}
    BY <2>1 DEF Phase
  <2>4. Phase' = "inside" => Touched = Wanted
    BY <1>4, <2>1, <2>2 DEF Phase
  <2> QED
    BY <1>3, <2>3, <2>4, PhaseStep
<1>8. CASE BatchDone
  <2>1. /\ pc = "apply" /\ todo = {} /\ call \in {"enter", "restore"} /\ outcome = "none"
        /\ call' = call /\ pc' = "idle" /\ outcome' = "returned"
    BY <1>5, <1>8 DEF BatchDone, Return, Control
  <2>2. CASE call = "enter"
    <3>1. \A r \in Resource : server[r] = Edited(r)
      <4>1. \A r \in batch : server[r] = Edited(r)
        BY <2>1, <2>2 DEF EditInv, LoopDone
      <4>2. \A r \in Resource \ batch : server[r] = base[r] /\ Edited(r) = base[r]
        BY <1>5, <2>1, <2>2 DEF EditInv, TwoStates, LeftOut
      <4> QED
        BY <4>1, <4>2
    <3>2. Touched = Wanted
      BY <3>1 DEF Touched, Wanted
    <3>3. Phase = "entering" /\ Phase' = "inside"
      BY <2>1, <2>2 DEF Phase
    <3> QED
      BY <1>3, <3>2, <3>3, PhaseStep
  <2>3. CASE call = "restore"
    <3>1. Touched = {}
      BY <1>5, <2>1, <2>3 DEF EditInv, LoopDone, TwoStates, Touched
    <3>2. Phase = "leaving" /\ Phase' = "after"
      BY <2>1, <2>3 DEF Phase
    <3> QED
      BY <1>3, <3>1, <3>2, PhaseStep
  <2> QED
    BY <2>1, <2>2, <2>3
<1>9. CASE Retry
  <2>1. pc = "sleep" /\ pc' = "apply" /\ UNCHANGED <<call, outcome>>
    BY <1>9 DEF Retry
  <2>2. Phase' = Phase
    BY <2>1 DEF Phase
  <2> QED
    BY <1>3, <2>2, PhaseStep
<1>10. ASSUME \E r \in Resource : BackupOne(r) \/ SkipHidden(r)
       PROVE  [Abstract!Next]_(Abstract!vars)
  <2>1. UNCHANGED <<pc, call, outcome>>
    BY <1>10 DEF BackupOne, SkipHidden
  <2>2. Phase' = Phase
    BY <2>1 DEF Phase
  <2> QED
    BY <1>3, <2>2, PhaseStep
<1>11. ASSUME TimeoutExpired \/ \E r \in Resource : BackupRaises(r)
       PROVE  [Abstract!Next]_(Abstract!vars)
  <2>1. /\ pc \in {"sleep", "backup"} /\ outcome = "none" /\ call \in {"enter", "restore"}
        /\ call' = call /\ pc' = "idle" /\ outcome' = "raised"
    BY <1>5, <1>11 DEF TimeoutExpired, BackupRaises, BackingUp, Raise, Control
  <2>2. Phase \in {"entering", "leaving"} /\ Phase' = "failed"
    BY <2>1 DEF Phase
  <2> QED
    BY <1>3, <2>2, PhaseStep
<1> QED
  BY <1>6, <1>7, <1>8, <1>9, <1>10, <1>11

\* A request that took effect edits its resource or puts it back, unless its patch
\* changes nothing; an error after it ends the statement, or the batch starts again.
LEMMA RequestMaps ==
  ASSUME WithStatement, Mapped, Mapped', EditInv, SettingStays, NEW r \in Resource,
         \/ ReadVersion(r) \/ ApplyOne(r) \/ RequestRetriable(r) \/ RequestRaises(r)
  PROVE  [Abstract!Next]_(Abstract!vars)
<1>1. CASE ReadVersion(r)
  BY <1>1 DEF ReadVersion, WithStatement, Patching
<1>2. CASE ApplyOne(r) \/ RequestRetriable(r) \/ RequestRaises(r)
  <2> DEFINE target == IF call = "restore" THEN base[r] ELSE Edited(r)
  <2>1. /\ Applying(r) /\ NameBody(r) /\ UNCHANGED <<base, call>>
        /\ Effect(r) \/ UNCHANGED server
    BY <1>2 DEF ApplyOne, RequestRetriable, RequestRaises, MaySend
  <2>2. /\ pc = "apply" /\ outcome = "none" /\ call \in {"enter", "restore"}
    BY <2>1 DEF Applying, EditInv, Control, TypeInv, TypeOK, WithStatement
  <2>3. \/ pc' \in {"apply", "sleep"} /\ outcome' = outcome
        \/ pc' = "idle" /\ outcome' = "raised"
    BY <1>2, <2>2 DEF ApplyOne, RequestRetriable, RequestRaises, Raise
  <2>4. /\ Phase = IF call = "enter" THEN "entering" ELSE "leaving"
        /\ Phase' \in {Phase, "failed"}
    BY <2>1, <2>2, <2>3 DEF Phase
  <2>5. \A q \in Resource : Edited(q)' = Edited(q)
    BY <2>1, Naming DEF WithStatement
  <2>6. Wanted' = Wanted
    BY <2>1, <2>5 DEF Wanted
  <2>7. server' = server \/ server' = [server EXCEPT ![r] = target]
    BY <2>1, Sending DEF WithStatement
  <2>8. CASE server' = server
    <3>1. Touched' = Touched
      BY <2>1, <2>8 DEF Touched
    <3> QED
      BY <2>2, <2>4, <2>6, <3>1, PhaseStep
  <2>9. CASE server' = [server EXCEPT ![r] = target]
    <3> HIDE DEF target
    <3>1. server'[r] = target /\ \A q \in Resource \ {r} : server'[q] = server[q]
      BY <2>9 DEF EditInv, TypeInv, TypeOK
    <3>2. Touched' = IF target = base[r] THEN Touched \ {r} ELSE Touched \union {r}
      BY <2>1, <3>1 DEF Touched
    <3>3. CASE r \in Wanted
      <4>1. \/ Phase = "entering" /\ Touched' = Touched \union {r}
            \/ Phase = "leaving" /\ Touched' = Touched \ {r}
        BY <2>2, <2>4, <3>2, <3>3 DEF Wanted, target
      <4> QED
        BY <2>4, <2>6, <3>3, <4>1, ChangeStep
    <3>4. CASE r \notin Wanted
      <4>1. target = base[r] /\ r \notin Touched
        BY <3>4 DEF Wanted, Touched, target, EditInv, TwoStates
      <4>2. Touched' = Touched
        BY <3>2, <4>1
      <4> QED
        BY <2>2, <2>4, <2>6, <4>2, PhaseStep
    <3> QED
      BY <3>3, <3>4
  <2> QED
    BY <2>7, <2>8, <2>9
<1> QED
  BY <1>1, <1>2

\* A write of another client changes neither what is wanted nor what is edited.
LEMMA OtherWriteMaps ==
  ASSUME WithStatement, Mapped, Mapped', EditInv, SettingStays, NEW r \in Resource,
         NEW s, NEW b,
         OtherWrite(r, s, b),
         server[r] = base[r] => s = b,
         server[r] = Edited(r) => s = Merge(b, Named(patches[r])),
         Edited(r) = base[r] <=> Merge(b, Named(patches[r])) = b
  PROVE  [Abstract!Next]_(Abstract!vars)
<1> USE DEF SettingStays
<1>1. /\ server' = [server EXCEPT ![r] = s]
      /\ base' = [base EXCEPT ![r] = b]
      /\ UNCHANGED <<patches, pc, call, outcome>>
  BY DEF OtherWrite
<1>2. /\ server'[r] = s /\ base'[r] = b
      /\ \A q \in Resource \ {r} : server'[q] = server[q] /\ base'[q] = base[q]
  BY <1>1 DEF EditInv, TypeInv, TypeOK
<1>3. Edited(r)' = Merge(b, Named(patches[r]))
  BY <1>1, <1>2 DEF Edited, Stored, WithStatement, Patching
<1>4. \A q \in Resource \ {r} : Edited(q)' = Edited(q)
  BY <1>1, <1>2 DEF Edited, Stored
<1>5. Wanted' = Wanted
  BY <1>2, <1>3, <1>4 DEF Wanted
<1>6. Touched' = Touched
  <2>1. server[r] \in {base[r], Edited(r)}
    BY DEF EditInv, TwoStates
  <2>2. s = b <=> server[r] = base[r]
    BY <2>1
  <2> QED
    BY <1>2, <2>2 DEF Touched
<1>7. Phase' = Phase
  BY <1>1 DEF Phase
<1> QED
  BY <1>5, <1>6, <1>7, PhaseStep

LEMMA OtherMaps ==
  ASSUME WithStatement, Mapped, Mapped', EditInv, SettingStays, OtherStep
  PROVE  [Abstract!Next]_(Abstract!vars)
<1>1. PICK r \in Resource, k \in Key, a \in Atom :
         \/ OtherSetsSection(r, k, a)
         \/ \E f \in Field : OtherSetsField(r, k, f, a)
  BY DEF OtherStep
<1> DEFINE o == base[r]
           p == Named(patches[r])
<1>2. IsDoc(o) /\ IsPatch(p) /\ IsPatch(patches[r]) /\ Edited(r) = Merge(o, p)
  BY Effects DEF WithStatement
<1>3. DOMAIN p = DOMAIN patches[r] \union {Meta}
  BY DEF Named, SetKey
<1>4. CASE OtherSetsSection(r, k, a)
  <2>1. k \notin DOMAIN p /\ k \in Key \ {Meta}
    BY <1>3, <1>4 DEF OtherSetsSection
  <2> DEFINE s == SetKey(server[r], k, a)
             b == SetKey(o, k, a)
  <2>2. OtherWrite(r, s, b)
    BY <1>4 DEF OtherSetsSection
  <2>3. Merge(b, p) = SetKey(Merge(o, p), k, a)
    BY <1>2, <2>1, SetSection
  <2>4. server[r] = Edited(r) => s = Merge(b, p)
    BY <1>2, <2>3
  <2>5. Edited(r) = o <=> Merge(b, p) = b
    BY <1>2, <2>1, <2>3, SetSectionReveals
  <2>6. server[r] = o => s = b
    OBVIOUS
  <2> HIDE DEF s, b, p
  <2> QED
    BY <2>2, <2>4, <2>5, <2>6, OtherWriteMaps DEF p
<1>5. ASSUME NEW f \in Field, OtherSetsField(r, k, f, a)
      PROVE  [Abstract!Next]_(Abstract!vars)
  <2> DEFINE s == SetField(server[r], k, f, a)
             b == SetField(o, k, f, a)
  <2>1. k \in DOMAIN o /\ IsDict(o[k])
    BY <1>5 DEF OtherSetsField
  <2>2. k \in DOMAIN p => IsDict(p[k]) /\ f \notin DOMAIN p[k]
    <3>1. CASE k \in DOMAIN patches[r]
      <4>1. p[k] = patches[r][k]
        BY <3>1 DEF Named, SetKey
      <4> QED
        BY <1>5, <3>1, <4>1 DEF OtherSetsField
    <3>2. CASE k \notin DOMAIN patches[r]
      <4>1. k \in DOMAIN p => p[k] = Empty
        BY <3>2 DEF Named, SetKey
      <4> QED
        BY <4>1, EmptyIsDict DEF Empty
    <3> QED
      BY <3>1, <3>2
  <2>3. OtherWrite(r, s, b)
    BY <1>5 DEF OtherSetsField
  <2>4. Merge(b, p) = SetField(Merge(o, p), k, f, a)
    BY <1>2, <2>1, <2>2, SetFieldOfDoc
  <2>5. server[r] = Edited(r) => s = Merge(b, p)
    BY <1>2, <2>4
  <2>6. Edited(r) = o <=> Merge(b, p) = b
    BY <1>2, <2>1, <2>2, <2>4, SetFieldReveals
  <2>7. server[r] = o => s = b
    OBVIOUS
  <2> HIDE DEF s, b, p
  <2> QED
    BY <2>3, <2>5, <2>6, <2>7, OtherWriteMaps DEF p
<1> QED
  BY <1>1, <1>4, <1>5

\* With "replace" and no other writer, every PUT edits its resource or puts it back.
LEMMA PutMaps ==
  ASSUME Replacing, Mapped, Mapped', PutInv, writes = 0, SettingStays,
         CallerStep \/ EditorStep
  PROVE  [Abstract!Next]_(Abstract!vars)
<1>1. PutControl /\ PutStates /\ TypeOK
  BY DEF PutInv, TypeInv
<1>2. ASSUME UNCHANGED <<patches, server, base>> PROVE Wanted' = Wanted /\ Touched' = Touched
  <2>1. \A r \in Resource : Edited(r)' = Edited(r)
    BY <1>2 DEF Edited, Stored, SettingStays
  <2> QED
    BY <1>2, <2>1 DEF Wanted, Touched
<1>3. CASE CallerStep
  <2>1. /\ UNCHANGED <<patches, server, base>>
        /\ \/ /\ call = "none" /\ outcome = "none" /\ call' = "enter"
              /\ pc' = "apply" /\ outcome' = "none"
           \/ /\ call = "enter" /\ outcome = "returned" /\ pc = "idle" /\ call' = "restore"
              /\ pc' = "apply" /\ outcome' = "none"
    BY <1>1, <1>3 DEF CallerStep, CallEnter, CallEnterUserBackups, CallUpdate, CallRestore,
       Call, MayCall, Submit, PutControl, Replacing
  <2>2. \/ Phase = "before" /\ Phase' = "entering"
        \/ Phase = "inside" /\ Phase' = "leaving"
    BY <2>1 DEF Phase
  <2> QED
    BY <1>2, <2>1, <2>2, PhaseStep
<1>4. CASE BatchDone
  <2>1. /\ UNCHANGED <<patches, server, base, call>> /\ call \in {"enter", "restore"}
        /\ pc = "apply" /\ todo = {} /\ outcome = "none" /\ pc' = "idle" /\ outcome' = "returned"
    BY <1>1, <1>4 DEF BatchDone, Return, PutControl
  <2>2. \A r \in Resource : server[r] = IF call = "restore" THEN base[r] ELSE Edited(r)
    BY <1>1, <2>1 DEF PutStates
  <2>3. \/ Phase = "entering" /\ Phase' = "inside" /\ Touched = Wanted
        \/ Phase = "leaving" /\ Phase' = "after" /\ Touched = {}
    BY <2>1, <2>2 DEF Phase, Touched, Wanted
  <2> QED
    BY <1>2, <2>1, <2>3, PhaseStep
<1>5. CASE Retry \/ TimeoutExpired
  <2>1. /\ UNCHANGED <<patches, server, base, call>> /\ call \in {"enter", "restore"}
        /\ pc = "sleep" /\ outcome = "none"
        /\ \/ pc' = "apply" /\ outcome' = outcome
           \/ pc' = "idle" /\ outcome' = "raised"
    BY <1>1, <1>5 DEF Retry, TimeoutExpired, Raise, PutControl
  <2>2. \/ Phase' = Phase
        \/ Phase \in {"entering", "leaving"} /\ Phase' = "failed"
    BY <2>1 DEF Phase
  <2> QED
    BY <1>2, <2>1, <2>2, PhaseStep
<1>6. ASSUME NEW r \in Resource,
             ReadVersion(r) \/ ApplyOne(r) \/ RequestRetriable(r) \/ RequestRaises(r)
      PROVE  [Abstract!Next]_(Abstract!vars)
  <2> DEFINE target == IF call = "restore" THEN base[r] ELSE Edited(r)
  <2>1. /\ Applying(r) /\ NameBody(r) /\ (Effect(r) \/ UNCHANGED server)
        /\ UNCHANGED <<base, call>>
    BY <1>6 DEF ReadVersion, ApplyOne, RequestRetriable, RequestRaises, MaySend
  <2>2. pc = "apply" /\ call \in {"enter", "restore"} /\ outcome = "none"
    BY <1>1, <2>1 DEF Applying, PutControl
  <2>3. \/ pc' \in {"apply", "sleep"} /\ outcome' = outcome
        \/ pc' = "idle" /\ outcome' = "raised"
    BY <1>6, <2>2 DEF ReadVersion, ApplyOne, RequestRetriable, RequestRaises, Raise
  <2>4. /\ Phase = IF call = "enter" THEN "entering" ELSE "leaving"
        /\ Phase' \in {Phase, "failed"}
    BY <2>1, <2>2, <2>3 DEF Phase
  <2>5. /\ \A q \in Resource : Edited(q)' = Edited(q)
        /\ \A q \in Resource \ {r} : server'[q] = server[q]
        /\ server'[r] \in {server[r], target}
    BY <2>1, PutSends
  <2>6. Wanted' = Wanted
    BY <2>1, <2>5 DEF Wanted
  <2>7. server[r] \in {base[r], Edited(r)}
    BY <1>1 DEF PutStates
  <2>8. CASE server'[r] = server[r] \/ target = server[r]
    <3>1. Touched' = Touched
      BY <2>1, <2>5, <2>8 DEF Touched
    <3> QED
      BY <2>2, <2>4, <2>6, <3>1, PhaseStep
  <2>9. CASE server'[r] = target /\ target # server[r]
    <3>1. Edited(r) # base[r]
      BY <2>7, <2>9
    <3>2. r \in Wanted
      BY <3>1 DEF Wanted
    <3>3. \/ Phase = "entering" /\ Touched' = Touched \union {r}
          \/ Phase = "leaving" /\ Touched' = Touched \ {r}
      BY <2>1, <2>2, <2>4, <2>5, <2>9, <3>1 DEF Touched
    <3> QED
      BY <2>4, <2>6, <3>2, <3>3, ChangeStep
  <2> QED
    BY <2>5, <2>8, <2>9
<1>7. \A r \in Resource : ~BackupsDone /\ ~BackupOne(r) /\ ~SkipHidden(r) /\ ~BackupRaises(r)
  BY <1>1 DEF PutControl, BackupsDone, BackupOne, SkipHidden, BackupRaises, BackingUp
<1>8. N \in Nat \ {0}
  BY EditorAssumption
<1> QED
  BY <1>3, <1>4, <1>5, <1>6, <1>7, <1>8 DEF EditorStep, Resource

\* A with statement is a temporary edit: whatever requests are lost, repeated or
\* refused, it edits what its patches change, holds all of it inside, and puts all of
\* it back, or it ends in an error. It does so by PATCHes, whatever others write, and
\* by PUTs of whole documents that the caller keeps, if nobody else writes.
THEOREM WithIsTemporaryEdit ==
  ASSUME FoundSettings
  PROVE  Spec => IsTemporaryEdit
<1>1. Init => Abstract!Init
  <2> SUFFICES ASSUME Init PROVE Abstract!Init
    OBVIOUS
  <2>1. Phase = "before" /\ server = base
    BY DEF Init, Phase
  <2> QED
    BY <2>1 DEF Abstract!Init
<1>2. ASSUME Mapped, Patching, CoveredInv, [Next]_vars
      PROVE  [Abstract!Next]_(Abstract!vars)
  <2>1. setting \in Settings /\ Protocol = "with"
    BY <1>2 DEF CoveredInv, TypeInv, TypeOK, Mapped
  <2>2. Hidden = {}
    BY <1>2, <2>1 DEF FoundSettings, Hidden, Protocol, Action, Patching
  <2>3. SettingStays /\ Patching' /\ Protocol' = Protocol
    BY <1>2, StaysInSetting, NextEdit DEF SettingStays
  <2>4. WithStatement /\ Mapped'
    BY <1>2, <2>1, <2>3 DEF WithStatement, Mapped, SettingStays
  <2>5. EditInv
    BY <1>2, <2>1 DEF CoveredInv, Control
  <2>6. CASE UNCHANGED vars
    <3>1. \A r \in Resource : Edited(r)' = Edited(r)
      BY <2>6 DEF Edited, Stored, vars, editor, Action
    <3>2. Wanted' = Wanted /\ Touched' = Touched
      BY <2>6, <3>1 DEF Wanted, Touched, vars, editor
    <3>3. Phase' = Phase
      BY <2>6 DEF Phase, vars, editor
    <3> QED
      BY <1>2, <2>4, <3>2, <3>3, PhaseStep
  <2>7. CASE CallerStep
    BY <1>2, <2>2, <2>3, <2>4, <2>5, <2>7, QuietMaps
  <2>8. CASE EditorStep
    BY <1>2, <2>2, <2>3, <2>4, <2>5, <2>8, QuietMaps, RequestMaps DEF EditorStep
  <2>9. CASE OtherStep
    BY <1>2, <2>3, <2>4, <2>5, <2>9, OtherMaps
  <2> QED
    BY <1>2, <2>6, <2>7, <2>8, <2>9 DEF Next
<1>3. ASSUME Mapped, Replacing, PutInv, [Next]_vars
      PROVE  [Abstract!Next]_(Abstract!vars)
  <2>1. MaxWrites = 0 /\ writes = 0 /\ ~OtherStep
    BY <1>3 DEF Mapped, Replacing, PutInv, TypeInv, TypeOK,
       OtherStep, OtherSetsSection, OtherSetsField, OtherWrite
  <2>2. SettingStays /\ Mapped'
    BY <1>3, StaysInSetting DEF Mapped, SettingStays
  <2>3. CASE UNCHANGED vars
    <3>1. \A r \in Resource : Edited(r)' = Edited(r)
      BY <2>3 DEF Edited, Stored, vars, editor, Action
    <3>2. Wanted' = Wanted /\ Touched' = Touched /\ Phase' = Phase
      BY <2>3, <3>1 DEF Wanted, Touched, Phase, vars, editor
    <3> QED
      BY <1>3, <2>2, <3>2, PhaseStep
  <2> QED
    BY <1>3, <2>1, <2>2, <2>3, PutMaps DEF Next
\* The other executions are not mapped.
<1>4. ASSUME ~Mapped, [Next]_vars
      PROVE  [Abstract!Next]_(Abstract!vars)
  <2>1. ~Mapped'
    BY <1>4, StaysInSetting DEF Mapped, SettingStays
  <2> QED
    BY <1>4, <2>1 DEF Abstract!vars
<1>5. Safe /\ [Next]_vars => [Abstract!Next]_(Abstract!vars)
  BY <1>2, <1>3, <1>4 DEF Safe
<1>6. FoundSettings => SafeSettings
  BY DEF FoundSettings
<1> QED
  BY <1>1, <1>5, <1>6, SafeHolds, PTL DEF Spec, IsTemporaryEdit, Abstract!Spec
===============================================================================
