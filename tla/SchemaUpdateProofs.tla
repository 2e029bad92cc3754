--------------------------- MODULE SchemaUpdateProofs ---------------------------
(***************************************************************************)
(* What an update of the schemas keeps, for any clusters and definitions.  *)
(***************************************************************************)
EXTENDS SchemaUpdate, TLAPS

-------------------------------------------------------------------------------
(***************************************************************************)
(* Files that are written one after the other.                             *)
(***************************************************************************)
\* Whether all of them are written or not, each is an old one, a new one or torn.
LEMMA OverType ==
  ASSUME NEW old \in Files, NEW new \in Files, NEW files \in SUBSET Kind
  PROVE  Over(old, new, files) \in Files
BY DEF Over, Files

LEMMA CutShortType ==
  ASSUME NEW old \in Files, NEW new \in Files, NEW files \in SUBSET Kind,
         NEW several \in BOOLEAN, NEW cut \in CutShort(old, new, files, several)
  PROVE  cut \in Files
<1>1. PICK done, torn :
        /\ done \in SUBSET files
        /\ cut = [k \in Kind |-> IF k \in torn THEN Torn ELSE Over(old, new, done)[k]]
  BY DEF CutShort
<1>2. Over(old, new, done) \in Files
  BY <1>1, OverType
<1> QED
  BY <1>1, <1>2 DEF Files

-------------------------------------------------------------------------------
(***************************************************************************)
(* Types.                                                                  *)
(***************************************************************************)
LEMMA VersionFact == 0 \in Version /\ \A c \in Cluster : VersionOf[c] \in Version
BY DEF Version

LEMMA InitType == ASSUME Init PROVE TypeOK
BY SchemaAssumption, VersionFact DEF Init, TypeOK, Files

\* What a run writes to the directory and to the repository, and copies of it.
LEMMA WrittenType ==
  ASSUME TypeOK
  PROVE  /\ Fresh \in Files /\ staged[target] \in Files /\ schemas \in Files
         /\ Generated \subseteq Kind /\ Copied \subseteq Kind
         /\ StagedPartly \subseteq Files
         /\ \A several \in BOOLEAN : CopiedPartly(several) \subseteq Files
<1>1. Fresh \in Files /\ staged[target] \in Files /\ schemas \in Files
  BY DEF Fresh, Files, TypeOK
<1>2. Generated \subseteq Kind /\ Copied \subseteq Kind
  BY SchemaAssumption DEF Generated, Copied, TypeOK
<1>3. StagedPartly \subseteq Files
  BY <1>1, <1>2, CutShortType DEF StagedPartly
<1>4. ASSUME NEW several \in BOOLEAN PROVE CopiedPartly(several) \subseteq Files
  BY <1>1, <1>2, CutShortType DEF CopiedPartly
<1> QED
  BY <1>1, <1>2, <1>3, <1>4

LEMMA FoundType ==
  ASSUME TypeOK
  PROVE  /\ \A k \in Kind : FoundOf(k) \subseteq Definition \X Cluster
         /\ Updated \in [Kind -> SUBSET (Definition \X Cluster)]
BY DEF TypeOK, FoundOf, Updated

\* A run that ended early, and what it left of the files.
LEMMA EndType ==
  ASSUME TypeOK, Exit \/ Crash
  PROVE  schemas' \in Files /\ staged' \in [Version -> Files]
<1>1. schemas' = schemas \/ \E several \in BOOLEAN : schemas' \in CopiedPartly(several)
  BY DEF Exit, Crash, TypeOK
<1>2. staged' = staged \/ \E files \in StagedPartly : staged' = [staged EXCEPT ![target] = files]
  BY DEF Exit, Crash
<1>3. schemas' \in Files
  BY <1>1, WrittenType
<1>4. staged' \in [Version -> Files]
  BY <1>2, WrittenType DEF TypeOK
<1> QED
  BY <1>3, <1>4

LEMMA NextType == ASSUME TypeOK, [Next]_vars PROVE TypeOK'
<1> USE SchemaAssumption DEF TypeOK, disk, run
<1>1. ASSUME NEW c \in Cluster, Login(c) PROVE TypeOK'
  BY <1>1 DEF Login
<1>2. CASE Fetch
  BY <1>2 DEF Fetch
<1>3. CASE Compare
  BY <1>3, VersionFact DEF Compare
<1>4. CASE WriteVersion
  BY <1>4 DEF WriteVersion
<1>5. CASE Convert
  <2>1. Over(staged[target], Fresh, Generated) \in Files
    BY WrittenType, OverType
  <2> QED
    BY <1>5, <2>1 DEF Convert
<1>6. CASE Copy
  <2>1. Over(schemas, staged[target], Copied) \in Files
    BY WrittenType, OverType
  <2>2. Asked \subseteq Definition
    BY DEF Asked
  <2> QED
    BY <1>6, <2>1, <2>2 DEF Copy
<1>7. ASSUME NEW d \in Definition, Answer(d) PROVE TypeOK'
  BY <1>7 DEF Answer
<1>8. ASSUME NEW d \in Definition, NoAnswer(d) PROVE TypeOK'
  BY <1>8 DEF NoAnswer
<1>9. CASE WriteMapping
  BY <1>9, FoundType DEF WriteMapping
<1>10. CASE WriteNotKind
  BY <1>10 DEF WriteNotKind, NotKindList
<1>11. CASE Exit
  BY <1>11, EndType, VersionFact DEF Exit, Forgotten
<1>12. CASE Crash
  <2>1. version' \in Version \cup {Torn} /\ mapping' \in [Kind -> SUBSET (Definition \X Cluster)]
    BY <1>12 DEF Crash
  <2>2. notKind' \subseteq Definition
    BY <1>12 DEF Crash, NotKindList
  <2> QED
    BY <1>12, <2>1, <2>2, EndType, VersionFact DEF Crash, Forgotten
<1>13. CASE UNCHANGED vars
  BY <1>13 DEF vars
<1> QED
  BY <1>1, <1>2, <1>3, <1>4, <1>5, <1>6, <1>7, <1>8, <1>9, <1>10, <1>11, <1>12, <1>13
  DEF Next, Step

\* The files hold what their readers expect, also after a crash while one is written.
THEOREM TypeCorrect == Spec => []TypeOK
BY InitType, NextType, PTL DEF Spec

-------------------------------------------------------------------------------
(***************************************************************************)
(* The inductive invariant: what an update under way has found, and what   *)
(* it still has to ask.                                                    *)
(***************************************************************************)
\* What is asked about and found is of the cluster whose document was fetched; unless
\* something goes wrong, it is also the one that is asked.
OfTheFetched ==
  /\ pending \subseteq Served[fetched]
  /\ \A e \in found : e[2] = fetched
  /\ ~Resting => fetched \in asked
  /\ Answered /\ ~Resting => cluster = fetched

\* Each definition that is refused is one that a cluster does not list.
Refusals ==
  Answered => \A d \in notKind \cup refused : \E c \in asked : d \in Served[c] \ Listed[c]

\* Each definition of a kind is found, is still asked about, was refused before, or its
\* kind was mapped.
Covered ==
  Answered /\ pc = "ask" =>
    \A d \in Listed[fetched] :
      \/ <<d, fetched>> \in found \/ d \in pending \/ d \in notKind
      \/ ~newer /\ mapping[KindOf[d]] # {}

\* Once the mapping is written, all are mapped.
Mapped ==
  Answered /\ pc \in {"not_kind", "done"} =>
    \A d \in Listed[fetched] :
      \/ d \in notKind
      \/ mapping[KindOf[d]] # {} /\ (newer => <<d, fetched>> \in mapping[KindOf[d]])

\* Once they are converted, the files of the cluster are in the directory of the version,
\* and once they are copied, in the repository.
Converted == pc = "copy" => \A k \in Generated : staged[target][k] = fetched
InPlace ==
  pc \in {"ask", "not_kind", "done"} =>
    \A k \in Generated : schemas[k] # None /\ (newer => schemas[k] = fetched)

\* Without kills and failures no file is torn.
Whole ==
  ~setting.crashes /\ ~setting.failures =>
    \A k \in Kind : schemas[k] # Torn /\ \A v \in Version : staged[v][k] # Torn

IInv ==
  TypeOK /\ OfTheFetched /\ Refusals /\ Covered /\ Mapped /\ Converted /\ InPlace /\ Whole
    /\ OneCluster

LEMMA ServedFact ==
  /\ Torn \notin Cluster /\ None \notin Cluster /\ None # Torn
  /\ \A c \in Cluster : Served[c] \subseteq Definition /\ Listed[c] \subseteq Served[c]
  /\ \A d \in Definition : KindOf[d] \in Kind
BY SchemaAssumption

LEMMA InitInv == ASSUME Init PROVE IInv
<1>1. OfTheFetched /\ Refusals /\ Covered /\ Mapped /\ Converted /\ InPlace /\ OneCluster
  BY DEF Init, OfTheFetched, Refusals, Covered, Mapped, Converted, InPlace, OneCluster, Resting
<1>2. Whole
  BY ServedFact DEF Init, Whole
<1> QED
  BY <1>1, <1>2, InitType DEF IInv

LEMMA LoginInv == ASSUME IInv, NEW c \in Cluster, Login(c), TypeOK' PROVE IInv'
BY DEF Login, IInv, OfTheFetched, Refusals, Covered, Mapped, Converted, InPlace, Whole, Generated,
       OneCluster, Resting, disk, run, Answered

LEMMA FetchInv == ASSUME IInv, Fetch, TypeOK' PROVE IInv'
BY DEF Fetch, IInv, OfTheFetched, Refusals, Covered, Mapped, Converted, InPlace, Whole,
       OneCluster, Resting, disk, Answered

\* Steps on the way to the files.
LEMMA PreparationInv == ASSUME IInv, Compare \/ WriteVersion, TypeOK' PROVE IInv'
BY DEF Compare, WriteVersion, IInv, OfTheFetched, Refusals, Covered, Mapped, Converted, InPlace,
       Whole, OneCluster, Resting, disk, run, Answered

LEMMA ConvertInv == ASSUME IInv, Convert, TypeOK' PROVE IInv'
<1> USE DEF IInv
<1>1. /\ pc = "convert" /\ pc' = "copy"
      /\ staged' = [staged EXCEPT ![target] = Over(staged[target], Fresh, Generated)]
      /\ UNCHANGED <<setting, cluster, schemas, mapping, notKind, run, asked>>
  BY DEF Convert
<1>2. OfTheFetched' /\ Refusals' /\ Covered' /\ Mapped' /\ InPlace' /\ OneCluster'
  BY <1>1 DEF OfTheFetched, Refusals, Covered, Mapped, InPlace, OneCluster, Resting, Answered, run
<1>3. \A k \in Kind : staged'[target][k] = IF k \in Generated THEN fetched ELSE staged[target][k]
  BY <1>1 DEF Over, Fresh, TypeOK
<1>4. \A v \in Version : v # target => staged'[v] = staged[v]
  BY <1>1 DEF TypeOK
<1>5. Generated' = Generated /\ Generated \subseteq Kind
  BY <1>1, WrittenType DEF Generated, run
<1>6. Converted'
  BY <1>1, <1>3, <1>5 DEF Converted, run
<1>7. Whole'
  BY <1>1, <1>3, <1>4, ServedFact DEF Whole, TypeOK
<1> QED
  BY <1>2, <1>6, <1>7

LEMMA CopyInv == ASSUME IInv, Copy, TypeOK' PROVE IInv'
<1> USE DEF IInv
<1>1. /\ pc = "copy" /\ pc' = "ask" /\ pending' = Asked
      /\ schemas' = Over(schemas, staged[target], Copied)
      /\ UNCHANGED <<setting, cluster, mapping, notKind, staged, fetched, target, newer, found,
                     refused, asked>>
  BY DEF Copy
<1>2. OfTheFetched'
  BY <1>1 DEF OfTheFetched, Asked, Resting, Answered
<1>3. Refusals' /\ OneCluster' /\ Mapped' /\ Converted'
  BY <1>1 DEF Refusals, OneCluster, Mapped, Converted, Answered
<1>4. \A k \in Kind : schemas'[k] = IF k \in Copied THEN staged[target][k] ELSE schemas[k]
  BY <1>1 DEF Over
<1>5. InPlace'
  <2>1. Generated' = Generated /\ Generated \subseteq Kind
    BY <1>1, WrittenType DEF Generated
  <2>2. ASSUME NEW k \in Generated PROVE schemas'[k] # None /\ (newer => schemas'[k] = fetched)
    <3>1. k \in Kind /\ staged[target][k] = fetched /\ fetched # None
      BY <1>1, <2>1, ServedFact DEF Converted, TypeOK
    <3> QED
      BY <3>1, <1>4 DEF Copied
  <2> QED
    BY <1>1, <2>1, <2>2 DEF InPlace
<1>6. Covered'
  BY <1>1, ServedFact DEF Covered, Asked, Answered, TypeOK
<1>7. Whole'
  BY <1>1, <1>4 DEF Whole, TypeOK
<1> QED
  BY <1>2, <1>3, <1>5, <1>6, <1>7

LEMMA AnswerInv == ASSUME IInv, NEW d \in Definition, Answer(d), TypeOK' PROVE IInv'
<1> USE DEF IInv
<1>1. /\ pc = "ask" /\ d \in pending /\ pending' = pending \ {d}
      /\ UNCHANGED <<setting, cluster, schemas, mapping, notKind, staged, pc, fetched, target,
                     newer, asked>>
  BY DEF Answer, disk
<1>2. \/ d \in Listed[cluster] /\ found' = found \cup {<<d, fetched>>} /\ refused' = refused
      \/ d \notin Listed[cluster] /\ refused' = refused \cup {d} /\ found' = found
  BY DEF Answer
<1>3. (Answered => cluster = fetched) /\ fetched \in asked
  BY <1>1 DEF OfTheFetched, Resting
<1>4. OfTheFetched'
  BY <1>1, <1>2 DEF OfTheFetched, Resting, Answered
<1>5. Refusals'
  <2>1. Answered /\ d \notin Listed[cluster] => fetched \in asked /\ d \in Served[fetched] \ Listed[fetched]
    BY <1>1, <1>3 DEF OfTheFetched
  <2> QED
    BY <1>1, <1>2, <2>1 DEF Refusals, Answered
<1>6. Covered'
  BY <1>1, <1>2, <1>3 DEF Covered, Answered
<1>7. Mapped' /\ Converted' /\ InPlace' /\ Whole' /\ OneCluster'
  BY <1>1 DEF Mapped, Converted, InPlace, Whole, OneCluster, Answered, Generated
<1> QED
  BY <1>4, <1>5, <1>6, <1>7

LEMMA NoAnswerInv == ASSUME IInv, NEW d \in Definition, NoAnswer(d), TypeOK' PROVE IInv'
BY DEF NoAnswer, IInv, OfTheFetched, Refusals, Covered, Mapped, Converted, InPlace, Whole,
       OneCluster, Resting, disk, Answered, Generated

LEMMA WriteMappingInv == ASSUME IInv, WriteMapping, TypeOK' PROVE IInv'
<1> USE DEF IInv
<1>1. /\ pc = "ask" /\ pc' = "not_kind" /\ pending = {} /\ mapping' = Updated
      /\ UNCHANGED <<setting, cluster, schemas, notKind, staged, run, asked>>
  BY DEF WriteMapping
<1>2. \A k \in Kind : mapping'[k] = IF FoundOf(k) # {} THEN FoundOf(k) ELSE mapping[k]
  BY <1>1 DEF Updated
<1>3. OfTheFetched' /\ Refusals' /\ Covered' /\ Converted' /\ InPlace' /\ Whole'
  BY <1>1 DEF OfTheFetched, Refusals, Covered, Converted, InPlace, Whole, Resting, Answered, run,
              Generated
<1>4. OneCluster'
  <2>1. \A k \in Kind : \A e, f \in FoundOf(k) : e[2] = f[2]
    BY DEF OfTheFetched, FoundOf
  <2>2. \A k \in Kind : \A e, f \in mapping[k] : e[2] = f[2]
    BY DEF OneCluster
  <2> QED
    BY <2>1, <2>2, <1>2 DEF OneCluster
<1>5. Mapped'
  <2> SUFFICES ASSUME Answered, NEW d \in Listed[fetched], d \notin notKind
               PROVE  /\ mapping'[KindOf[d]] # {}
                      /\ newer => <<d, fetched>> \in mapping'[KindOf[d]]
    BY <1>1 DEF Mapped, Answered, run
  <2>1. KindOf[d] \in Kind
    BY ServedFact DEF TypeOK
  <2>2. CASE <<d, fetched>> \in found
    <3>1. <<d, fetched>> \in FoundOf(KindOf[d])
      BY <2>2 DEF FoundOf
    <3> QED
      BY <3>1, <2>1, <1>2
  <2>3. CASE ~newer /\ mapping[KindOf[d]] # {}
    BY <2>1, <2>3, <1>2
  <2> QED
    BY <2>2, <2>3, <1>1 DEF Covered
<1> QED
  BY <1>3, <1>4, <1>5

LEMMA WriteNotKindInv == ASSUME IInv, WriteNotKind, TypeOK' PROVE IInv'
BY DEF WriteNotKind, NotKindList, IInv, OfTheFetched, Refusals, Covered, Mapped, Converted,
       InPlace, Whole, OneCluster, Resting, run, Answered, Generated

\* A run that ends early leaves files torn, and the mapping as it is or empty.
LEMMA EndInv == ASSUME IInv, Exit \/ Crash, TypeOK' PROVE IInv'
<1> USE DEF IInv
<1>1. /\ pc' = "idle" /\ fetched' = cluster /\ pending' = {} /\ found' = {} /\ refused' = {}
      /\ UNCHANGED <<setting, cluster, asked>> /\ (setting.crashes \/ setting.failures)
  BY DEF Exit, Crash, Forgotten
<1>2. notKind' \subseteq notKind \cup refused
  BY DEF Exit, Crash, NotKindList
<1>3. mapping' = mapping \/ mapping' = [k \in Kind |-> {}]
  BY DEF Exit, Crash
<1>4. OneCluster'
  BY <1>3 DEF OneCluster
<1>5. OfTheFetched' /\ Covered' /\ Mapped' /\ Converted' /\ InPlace'
  BY <1>1 DEF OfTheFetched, Covered, Mapped, Converted, InPlace, Resting
<1>6. Refusals'
  BY <1>1, <1>2 DEF Refusals, Answered
<1>7. Whole'
  BY <1>1 DEF Whole
<1> QED
  BY <1>4, <1>5, <1>6, <1>7

LEMMA NextInv == ASSUME IInv, [Next]_vars PROVE IInv'
<1>1. TypeOK'
  BY NextType DEF IInv
<1>2. CASE UNCHANGED vars
  BY <1>1, <1>2 DEF vars, IInv, OfTheFetched, Refusals, Covered, Mapped, Converted, InPlace,
              Whole, OneCluster, Resting, disk, run, Answered, Generated
<1>3. CASE Next
  BY <1>1, <1>3, LoginInv, FetchInv, PreparationInv, ConvertInv, CopyInv, AnswerInv, NoAnswerInv,
     WriteMappingInv, WriteNotKindInv, EndInv DEF Next, Step
<1> QED
  BY <1>2, <1>3

LEMMA InvHolds == Spec => []IInv
BY InitInv, NextInv, PTL DEF Spec

\* After a run of --update-schema that completes, whatever became of those before it, each
\* kind of its cluster has a file, and is mapped unless its definition is in the list; and
\* no file is torn but after a kill or a failure.
THEOREM UpdatesComplete == Spec => []Complete
<1>1. IInv => Complete
  BY DEF IInv, Mapped, InPlace, Whole, Complete
<1> QED
  BY <1>1, InvHolds, PTL

\* One from a newer cluster replaces the files of all its kinds, and the definitions that
\* were not refused before.
THEOREM UpdatesAreCurrent == Spec => []Current
<1>1. IInv => Current
  BY DEF IInv, Mapped, InPlace, Current
<1> QED
  BY <1>1, InvHolds, PTL

\* The definitions of one kind never come from two clusters.
THEOREM OneClusterHolds == Spec => []OneCluster
<1>1. IInv => OneCluster
  BY DEF IInv
<1> QED
  BY <1>1, InvHolds, PTL

\* While every question is answered, the list has only definitions that a cluster met
\* before does not list.
THEOREM OnlyUnlistedRefused == Spec => []RefusedRightly
<1>1. IInv => RefusedRightly
  BY DEF IInv, Refusals, RefusedRightly
<1> QED
  BY <1>1, InvHolds, PTL

\* Whatever fails, a kind that was mapped stays so.
THEOREM KindsAreKept == Spec => NoKindLost
<1>1. ASSUME TypeOK, [Next]_vars
      PROVE  [~setting.crashes => \A k \in Kind : mapping[k] # {} => mapping'[k] # {}]_vars
  <2>1. CASE WriteMapping
    BY <1>1, <2>1 DEF WriteMapping, Updated
  <2>2. CASE Crash
    BY <2>2 DEF Crash
  <2>3. CASE Fetch \/ Compare \/ WriteVersion \/ Convert \/ Copy \/ WriteNotKind \/ Exit
    BY <2>3 DEF Fetch, Compare, WriteVersion, Convert, Copy, WriteNotKind, Exit, disk
  <2>4. ASSUME NEW d \in Definition, Answer(d) \/ NoAnswer(d) PROVE mapping' = mapping
    BY <2>4 DEF Answer, NoAnswer, disk
  <2>5. ASSUME NEW c \in Cluster, Login(c) PROVE mapping' = mapping
    BY <2>5 DEF Login, disk
  <2> QED
    BY <1>1, <2>1, <2>2, <2>3, <2>4, <2>5 DEF Next, Step
<1> QED
  BY <1>1, TypeCorrect, PTL DEF Spec, NoKindLost
===============================================================================
