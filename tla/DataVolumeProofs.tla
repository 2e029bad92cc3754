---------------------------- MODULE DataVolumeProofs ----------------------------
(***************************************************************************)
(* What a DataVolume's waits and its teardown guarantee, for any number of *)
(* waits and whatever CDI, Kubernetes and another client do meanwhile.     *)
(***************************************************************************)
EXTENDS DataVolume, TLAPS

LEMMA EveryAction ==
    ASSUME Next
    PROVE
           \/ Create \/ NonePending \/ StatusSucceeded \/ StatusFailed \/ SampleSucceeds
           \/ SampleStops \/ PvcBound \/ WaitExpires \/ CallSuccess \/ Leave
           \/ Choose \/ Exists \/ GetInstance \/ Delete \/ DeleteNotFound
           \/ DvGone \/ PvcGone \/ PvcGoneExpires \/ RequestFails \/ CdiStarts
           \/ CdiCreatesPvc \/ PvcBinds \/ CdiImports \/ CdiEnds \/ CdiCollects
           \/ DvFinalized \/ PvcFinalized \/ AnotherDeletes
  BY DEF Next, WaitStep, DeleteStep, ClusterStep

-------------------------------------------------------------------------------
(***************************************************************************)
(* Types.                                                                  *)
(***************************************************************************)
Phases ==
    /\ dv \in {"absent", "new", "Pending", "InProgress", "Succeeded", "Failed"}
    /\ pvc \in {"absent", "Pending", "Bound"}
    /\ leaving \subseteq {"dv", "pvc"}
    /\ "dv" \in leaving => dv # "absent"
    /\ "pvc" \in leaving => pvc # "absent"

Program ==
    /\ pc \in Waiting \union Deleting \union {"post", "body", "over"}
    /\ target \in {"dv", "pvc"}
    /\ exc \in Raised \union {"none", "BodyError"}
    /\ result \in Raised \union {"none", "returned", "BodyError"}
    /\ calls \in 0..MaxCalls

Flags ==
    /\ owned \in BOOLEAN /\ gc \in BOOLEAN /\ waited \in BOOLEAN
    /\ imported \in BOOLEAN /\ foreign \in BOOLEAN

LEMMA TypeParts == TypeOK <=> Phases /\ Program /\ Flags
  BY DEF TypeOK, Phases, Program, Flags

LEMMA InitType == Init => TypeOK
<1> SUFFICES ASSUME Init PROVE Phases /\ Program /\ Flags
  BY TypeParts
<1>1. Phases
  BY DEF Init, Phases
<1>2. Program
  BY DataVolumeAssumption DEF Init, Program, Waiting, Raised
<1>3. Flags
  BY DEF Init, Flags
<1> QED
  BY <1>1, <1>2, <1>3

LEMMA NextType == TypeOK /\ [Next]_vars => TypeOK'
<1> SUFFICES ASSUME TypeOK, [Next]_vars PROVE TypeOK'
  OBVIOUS
<1> USE DataVolumeAssumption
<1>1. CASE Create
  BY <1>1 DEF Create, observers, End, TypeOK, Waiting, Deleting, Raised
<1>2. CASE NonePending
  BY <1>2 DEF NonePending, cluster, observers, Entering, TypeOK, Waiting, Deleting, Raised
<1>3. CASE StatusSucceeded
  BY <1>3 DEF StatusSucceeded, cluster, observers, TypeOK, Waiting, Deleting, Raised
<1>4. CASE StatusFailed
  BY <1>4 DEF StatusFailed, cluster, observers, Raise, End, Entering, TypeOK, Waiting, Deleting, Raised
<1>5. CASE SampleSucceeds
  BY <1>5 DEF SampleSucceeds, cluster, observers, TypeOK, Waiting, Deleting, Raised
<1>6. CASE SampleStops
  BY <1>6 DEF SampleStops, cluster, observers, Raise, End, Entering, TypeOK, Waiting, Deleting, Raised
<1>7. CASE PvcBound
  BY <1>7 DEF PvcBound, cluster, TypeOK, Waiting, Deleting, Raised
<1>8. CASE WaitExpires
  BY <1>8 DEF WaitExpires, cluster, observers, Raise, End, Entering, TypeOK, Waiting, Deleting, Raised
<1>9. CASE CallSuccess
  <2>1. Phases'
    BY <1>9, TypeParts DEF CallSuccess, cluster, Phases
  <2>2. Program'
    BY <1>9, TypeParts DEF CallSuccess, cluster, Program, Waiting
  <2>3. Flags'
    BY <1>9, TypeParts DEF CallSuccess, cluster, Flags
  <2> QED
    BY <2>1, <2>2, <2>3 DEF TypeOK, Phases, Program, Flags
<1>10. CASE Leave
  BY <1>10 DEF Leave, cluster, observers, TypeOK, Waiting, Deleting, Raised
<1>11. CASE Choose
  BY <1>11 DEF Choose, cluster, observers, Present, TypeOK, Waiting, Deleting, Raised
<1>12. CASE Exists
  BY <1>12 DEF Exists, cluster, observers, Done, End, Present, TypeOK, Waiting, Deleting, Raised
<1>13. CASE GetInstance
  BY <1>13 DEF GetInstance, cluster, observers, Raise, End, Entering, Present, TypeOK, Waiting, Deleting, Raised
<1>14. CASE Delete
  BY <1>14 DEF Delete, observers, Raise, End, Entering, Present, TypeOK, Waiting, Deleting, Raised
<1>15. CASE DeleteNotFound
  BY <1>15 DEF DeleteNotFound, cluster, observers, Raise, End, Entering, Present, TypeOK, Waiting, Deleting, Raised
<1>16. CASE DvGone
  BY <1>16 DEF DvGone, cluster, observers, TypeOK, Waiting, Deleting, Raised
<1>17. CASE PvcGone
  BY <1>17 DEF PvcGone, cluster, observers, End, Done, TypeOK, Waiting, Deleting, Raised
<1>18. CASE PvcGoneExpires
  BY <1>18 DEF PvcGoneExpires, cluster, observers, Raise, End, Entering, TypeOK, Waiting, Deleting, Raised
<1>19. CASE RequestFails
  BY <1>19 DEF RequestFails, cluster, observers, Raise, End, Entering, TypeOK, Waiting, Deleting, Raised
<1>20. CASE CdiStarts
  BY <1>20 DEF CdiStarts, program, TypeOK, Waiting, Deleting, Raised
<1>21. CASE CdiCreatesPvc
  BY <1>21 DEF CdiCreatesPvc, program, TypeOK, Waiting, Deleting, Raised
<1>22. CASE PvcBinds
  BY <1>22 DEF PvcBinds, program, TypeOK, Waiting, Deleting, Raised
<1>23. CASE CdiImports
  BY <1>23 DEF CdiImports, program, TypeOK, Waiting, Deleting, Raised
<1>24. CASE CdiEnds
  <2>1. Phases'
    BY <1>24, TypeParts DEF CdiEnds, program, Phases
  <2>2. Program'
    BY <1>24, TypeParts DEF CdiEnds, program, Program, Waiting
  <2>3. Flags'
    BY <1>24, TypeParts DEF CdiEnds, program, Flags
  <2> QED
    BY <2>1, <2>2, <2>3 DEF TypeOK, Phases, Program, Flags
<1>25. CASE CdiCollects
  <2>1. Phases'
    BY <1>25, TypeParts DEF CdiCollects, program, Phases
  <2>2. Program'
    BY <1>25, TypeParts DEF CdiCollects, program, Program, Waiting
  <2>3. Flags'
    BY <1>25, TypeParts DEF CdiCollects, program, Flags
  <2> QED
    BY <2>1, <2>2, <2>3 DEF TypeOK, Phases, Program, Flags
<1>26. CASE DvFinalized
  BY <1>26 DEF DvFinalized, program, TypeOK, Waiting, Deleting, Raised
<1>27. CASE PvcFinalized
  BY <1>27 DEF PvcFinalized, program, TypeOK, Waiting, Deleting, Raised
<1>28. CASE AnotherDeletes
  BY <1>28 DEF AnotherDeletes, program, TypeOK, Waiting, Deleting, Raised
<1>29. CASE UNCHANGED vars
  BY <1>29 DEF vars, cluster, observers, TypeOK, Waiting, Deleting, Raised
<1> QED
  BY <1>1, <1>2, <1>3, <1>4, <1>5, <1>6, <1>7, <1>8, <1>9, <1>10, <1>11, <1>12, <1>13, <1>14, <1>15, <1>16, <1>17, <1>18, <1>19, <1>20, <1>21, <1>22, <1>23, <1>24, <1>25, <1>26, <1>27, <1>28, <1>29, EveryAction

\* No object is being deleted that is not there, and every wait and every step of
\* the deletion is at a place its code has.
THEOREM TypeCorrect == Spec => []TypeOK
  BY InitType, NextType, PTL DEF Spec

-------------------------------------------------------------------------------
(***************************************************************************)
(* A wait that returns.  A DataVolume has succeeded, or else it is there   *)
(* as long as nobody deletes it before __exit__.                           *)
(***************************************************************************)
Imports ==
    /\ dv = "Succeeded" => imported
    /\ pc = "post" => dv = "absent"
    /\ pc \in Waiting \union {"body"} /\ (dv = "absent" \/ "dv" \in leaving)
         => imported \/ foreign
    /\ pc = "bound" => imported \/ (gc /\ foreign)

LEMMA NextImports ==
  ASSUME TypeOK, Imports, SuccessMeansImported, [Next]_vars
  PROVE  Imports' /\ SuccessMeansImported'
<1>1. CASE Create
  BY <1>1 DEF Create, observers, End, Imports, SuccessMeansImported, TypeOK, Waiting, Deleting
<1>2. CASE NonePending
  BY <1>2 DEF NonePending, cluster, observers, Entering, Imports, SuccessMeansImported, TypeOK, Waiting, Deleting
<1>3. CASE StatusSucceeded
  BY <1>3 DEF StatusSucceeded, cluster, observers, Imports, SuccessMeansImported, TypeOK, Waiting, Deleting
<1>4. CASE StatusFailed
  BY <1>4 DEF StatusFailed, cluster, observers, Raise, End, Entering, Imports, SuccessMeansImported, TypeOK, Waiting, Deleting
<1>5. CASE SampleSucceeds
  BY <1>5 DEF SampleSucceeds, cluster, observers, Imports, SuccessMeansImported, TypeOK, Waiting, Deleting
<1>6. CASE SampleStops
  BY <1>6 DEF SampleStops, cluster, observers, Raise, End, Entering, Imports, SuccessMeansImported, TypeOK, Waiting, Deleting
<1>7. CASE PvcBound
  BY <1>7 DEF PvcBound, cluster, Imports, SuccessMeansImported, TypeOK, Waiting, Deleting
<1>8. CASE WaitExpires
  BY <1>8 DEF WaitExpires, cluster, observers, Raise, End, Entering, Imports, SuccessMeansImported, TypeOK, Waiting, Deleting
<1>9. CASE CallSuccess
  BY <1>9 DEF CallSuccess, cluster, Imports, SuccessMeansImported, TypeOK, Waiting, Deleting
<1>10. CASE Leave
  BY <1>10 DEF Leave, cluster, observers, Imports, SuccessMeansImported, TypeOK, Waiting, Deleting
<1>11. CASE Choose
  BY <1>11 DEF Choose, cluster, observers, Present, Imports, SuccessMeansImported, TypeOK, Waiting, Deleting
<1>12. CASE Exists
  BY <1>12 DEF Exists, cluster, observers, Done, End, Present, Imports, SuccessMeansImported, TypeOK, Waiting, Deleting
<1>13. CASE GetInstance
  BY <1>13 DEF GetInstance, cluster, observers, Raise, End, Entering, Present, Imports, SuccessMeansImported, TypeOK, Waiting, Deleting
<1>14. CASE Delete
  BY <1>14 DEF Delete, observers, Raise, End, Entering, Present, Imports, SuccessMeansImported, TypeOK, Waiting, Deleting
<1>15. CASE DeleteNotFound
  BY <1>15 DEF DeleteNotFound, cluster, observers, Raise, End, Entering, Present, Imports, SuccessMeansImported, TypeOK, Waiting, Deleting
<1>16. CASE DvGone
  BY <1>16 DEF DvGone, cluster, observers, Imports, SuccessMeansImported, TypeOK, Waiting, Deleting
<1>17. CASE PvcGone
  BY <1>17 DEF PvcGone, cluster, observers, End, Done, Imports, SuccessMeansImported, TypeOK, Waiting, Deleting
<1>18. CASE PvcGoneExpires
  BY <1>18 DEF PvcGoneExpires, cluster, observers, Raise, End, Entering, Imports, SuccessMeansImported, TypeOK, Waiting, Deleting
<1>19. CASE RequestFails
  BY <1>19 DEF RequestFails, cluster, observers, Raise, End, Entering, Imports, SuccessMeansImported, TypeOK, Waiting, Deleting
<1>20. CASE CdiStarts
  BY <1>20 DEF CdiStarts, program, Imports, SuccessMeansImported, TypeOK, Waiting, Deleting
<1>21. CASE CdiCreatesPvc
  BY <1>21 DEF CdiCreatesPvc, program, Imports, SuccessMeansImported, TypeOK, Waiting, Deleting
<1>22. CASE PvcBinds
  BY <1>22 DEF PvcBinds, program, Imports, SuccessMeansImported, TypeOK, Waiting, Deleting
<1>23. CASE CdiImports
  BY <1>23 DEF CdiImports, program, Imports, SuccessMeansImported, TypeOK, Waiting, Deleting
<1>24. CASE CdiEnds
  BY <1>24 DEF CdiEnds, program, Imports, SuccessMeansImported, TypeOK, Waiting, Deleting
<1>25. CASE CdiCollects
  BY <1>25 DEF CdiCollects, program, Imports, SuccessMeansImported, TypeOK, Waiting, Deleting
<1>26. CASE DvFinalized
  BY <1>26 DEF DvFinalized, program, Imports, SuccessMeansImported, TypeOK, Waiting, Deleting
<1>27. CASE PvcFinalized
  BY <1>27 DEF PvcFinalized, program, Imports, SuccessMeansImported, TypeOK, Waiting, Deleting
<1>28. CASE AnotherDeletes
  BY <1>28 DEF AnotherDeletes, program, Imports, SuccessMeansImported, TypeOK, Waiting, Deleting
<1>29. CASE UNCHANGED vars
  BY <1>29 DEF vars, cluster, observers, Imports, SuccessMeansImported, TypeOK, Waiting, Deleting
<1> QED
  BY <1>1, <1>2, <1>3, <1>4, <1>5, <1>6, <1>7, <1>8, <1>9, <1>10, <1>11, <1>12, <1>13, <1>14, <1>15, <1>16, <1>17, <1>18, <1>19, <1>20, <1>21, <1>22, <1>23, <1>24, <1>25, <1>26, <1>27, <1>28, <1>29, EveryAction

\* When wait(), or wait_for_dv_success(), returns, the import succeeded; or the
\* caller said that the DataVolume may be collected, and somebody else deleted it.
THEOREM WaitsForImport == Spec => []SuccessMeansImported
<1>1. Init => Imports /\ SuccessMeansImported
  BY DEF Init, Imports, SuccessMeansImported, Waiting
<1> QED
  BY InitType, NextType, <1>1, NextImports, PTL DEF Spec

-------------------------------------------------------------------------------
(***************************************************************************)
(* A teardown that returns, while CDI collects nothing during it.          *)
(***************************************************************************)
DvGoes == dv = "absent" \/ "dv" \in leaving
PvcGoes == pvc = "absent" \/ "pvc" \in leaving

Deletion ==
    /\ ~owned => dv = "absent"
    /\ pc = "post" => dv = "absent" /\ pvc = "absent" /\ owned
    /\ pc \notin {"dv_gone", "pvc_gone", "over"} /\ "dv" \in leaving => foreign
    /\ pc \in Deleting \ {"choose"} =>
         /\ target = "pvc" => dv = "absent"
         /\ target = "dv" /\ dv = "absent" => PvcGoes
    /\ pc \in {"exists", "instance", "delete"} /\ target = "dv" /\ dv = "absent" => foreign
    /\ pc \in {"dv_gone", "pvc_gone"} => DvGoes
    /\ pc = "over" /\ result \in {"returned", "BodyError"} =>
         /\ DvGoes
         /\ pvc = "absent" \/ (foreign /\ "pvc" \in leaving)
    /\ pc # "over" => result = "none"

NoRace == "delete" \notin CollectIn

LEMMA NextDeletion ==
  ASSUME NoRace, TypeOK, Deletion, [Next]_vars
  PROVE  Deletion'
<1> USE DEF NoRace, DvGoes, PvcGoes
<1>1. CASE Create
  <2>1. CASE pc' \in {"none_pending", "body"} /\ UNCHANGED result
    BY <1>1, <2>1 DEF Create, observers, Deletion, TypeOK, Deleting
  <2>2. CASE End("Error")
    BY <1>1, <2>2 DEF Create, observers, End, Deletion, TypeOK, Deleting
  <2> QED
    BY <1>1, <2>1, <2>2 DEF Create
<1>2. CASE NonePending
  BY <1>2 DEF NonePending, cluster, observers, Entering, Deletion, TypeOK, Waiting, Deleting
<1>3. CASE StatusSucceeded
  BY <1>3 DEF StatusSucceeded, cluster, observers, Deletion, TypeOK, Waiting, Deleting
<1>4. CASE StatusFailed
  BY <1>4 DEF StatusFailed, cluster, observers, Raise, End, Entering, Deletion, TypeOK, Waiting, Deleting
<1>5. CASE SampleSucceeds
  BY <1>5 DEF SampleSucceeds, cluster, observers, Deletion, TypeOK, Waiting, Deleting
<1>6. CASE SampleStops
  BY <1>6 DEF SampleStops, cluster, observers, Raise, End, Entering, Deletion, TypeOK, Waiting, Deleting
<1>7. CASE PvcBound
  BY <1>7 DEF PvcBound, cluster, Deletion, TypeOK, Waiting, Deleting
<1>8. CASE WaitExpires
  BY <1>8 DEF WaitExpires, cluster, observers, Raise, End, Entering, Deletion, TypeOK, Waiting, Deleting
<1>9. CASE CallSuccess
  BY <1>9 DEF CallSuccess, cluster, Deletion, TypeOK, Waiting, Deleting
<1>10. CASE Leave
  BY <1>10 DEF Leave, cluster, observers, Deletion, TypeOK, Waiting, Deleting
<1>11. CASE Choose
  BY <1>11 DEF Choose, cluster, observers, Present, Deletion, TypeOK, Waiting, Deleting
<1>12. CASE Exists
  BY <1>12 DEF Exists, cluster, observers, Done, End, Present, Deletion, TypeOK, Waiting, Deleting
<1>13. CASE GetInstance
  BY <1>13 DEF GetInstance, cluster, observers, Raise, End, Entering, Present, Deletion, TypeOK, Waiting, Deleting
<1>14. CASE Delete
  BY <1>14 DEF Delete, observers, Raise, End, Entering, Present, Deletion, TypeOK, Waiting, Deleting
<1>15. CASE DeleteNotFound
  BY <1>15 DEF DeleteNotFound, cluster, observers, Raise, End, Entering, Present, Deletion, TypeOK, Waiting, Deleting
<1>16. CASE DvGone
  BY <1>16 DEF DvGone, cluster, observers, Deletion, TypeOK, Waiting, Deleting
<1>17. CASE PvcGone
  BY <1>17 DEF PvcGone, cluster, observers, End, Done, Deletion, TypeOK, Waiting, Deleting
<1>18. CASE PvcGoneExpires
  BY <1>18 DEF PvcGoneExpires, cluster, observers, Raise, End, Entering, Deletion, TypeOK, Waiting, Deleting
<1>19. CASE RequestFails
  BY <1>19 DEF RequestFails, cluster, observers, Raise, End, Entering, Deletion, TypeOK, Waiting, Deleting
<1>20. CASE CdiStarts
  BY <1>20 DEF CdiStarts, program, Deletion, TypeOK, Waiting, Deleting
<1>21. CASE CdiCreatesPvc
  BY <1>21 DEF CdiCreatesPvc, program, Deletion, TypeOK, Waiting, Deleting
<1>22. CASE PvcBinds
  BY <1>22 DEF PvcBinds, program, Deletion, TypeOK, Waiting, Deleting
<1>23. CASE CdiImports
  BY <1>23 DEF CdiImports, program, Deletion, TypeOK, Waiting, Deleting
<1>24. CASE CdiEnds
  BY <1>24 DEF CdiEnds, program, Deletion, TypeOK, Waiting, Deleting
<1>25. CASE CdiCollects
  BY <1>25 DEF CdiCollects, program, Deletion, TypeOK, Waiting, Deleting
<1>26. CASE DvFinalized
  BY <1>26 DEF DvFinalized, program, Deletion, TypeOK, Waiting, Deleting
<1>27. CASE PvcFinalized
  BY <1>27 DEF PvcFinalized, program, Deletion, TypeOK, Waiting, Deleting
<1>28. CASE AnotherDeletes
  BY <1>28 DEF AnotherDeletes, program, Deletion, TypeOK, Waiting, Deleting
<1>29. CASE UNCHANGED vars
  BY <1>29 DEF vars, cluster, observers, Deletion, TypeOK, Waiting, Deleting
<1> QED
  BY <1>1, <1>2, <1>3, <1>4, <1>5, <1>6, <1>7, <1>8, <1>9, <1>10, <1>11, <1>12, <1>13, <1>14, <1>15, <1>16, <1>17, <1>18, <1>19, <1>20, <1>21, <1>22, <1>23, <1>24, <1>25, <1>26, <1>27, <1>28, <1>29, EveryAction

\* A with statement whose teardown reports no error leaves no PVC, as long as CDI
\* does not collect the DataVolume between the two requests that look for it.
THEOREM DeletesPvc == NoRace /\ Spec => []NoPvcLeft
<1> SUFFICES ASSUME NoRace PROVE Spec => []NoPvcLeft
  OBVIOUS
<1>1. Init => Deletion
  BY DEF Init, Deletion, Deleting
<1>2. Deletion => NoPvcLeft
  BY DEF Deletion, NoPvcLeft
<1> QED
  BY InitType, NextType, <1>1, <1>2, NextDeletion, PTL DEF Spec
===============================================================================
