------------------------ MODULE ResourceLifecycleProofs ------------------------
(***************************************************************************)
(* What the with statement of a Resource guarantees for every setting of   *)
(* reuse, waiting and teardown, any number of SIGINTs and any behaviour of *)
(* the other clients: the type invariant, that an entered with statement   *)
(* leaves nothing behind, and that it deletes only what is its own.        *)
(***************************************************************************)
EXTENDS ResourceLifecycle, TLAPS

InWith == InExit \union {"body"}

(***************************************************************************)
(* Where the with statement is tells what became of its POST, and handlers *)
(* are only ever in __exit__.                                              *)
(***************************************************************************)
Position ==
    /\ \A i \in Frame \ {0} : at[i] \in InExit
    /\ at[0] \in {"deploy", "post"} => request = "none"
    /\ at[0] = "posted" => request # "none"
    /\ at[0] \in {"version", "wait"} => request = "created"
    /\ at[0] \in InEnter => ~entered
    /\ entered => request # "sent"
    /\ at[0] \in InWith => entered
    /\ at[0] = "over" \/ result = "none"

(***************************************************************************)
(* The exceptions that tell of a completed teardown are raised after the   *)
(* object was seen to be gone; once it is, the program makes no new one.   *)
(***************************************************************************)
TornDown ==
    entered /\ Teardown /\ ~SkipTeardown
        /\ exc \in {"SystemExit", "NotFoundError"} => object # "us"

\* NoLeftover also while a handler runs on top of the statement that is over.
EndedClean ==
    at[0] = "over" /\ entered /\ Teardown /\ ~SkipTeardown
        /\ result \in {"returned", "BodyError", "SystemExit"} => object # "us"

EndInv == TypeOK /\ Position /\ TornDown /\ EndedClean

(***************************************************************************)
(* If a SIGINT comes in the body or the teardown only, there is no __exit__*)
(* but after a POST that succeeded, and the object it made is ours.        *)
(***************************************************************************)
OwnInv ==
    /\ request = "created" => object # "other"
    /\ depth > 0 \/ at[0] \in InWith => request = "created"
    /\ DeletesOnlyItsOwn

Alone ==
    /\ ~Reuse
    /\ "later" \notin OtherCreates
    /\ SigintIn \subseteq {"body", "exit"}

LEMMA EveryAction ==
    ASSUME Next
    PROVE  \/ DeployReuses \/ DeployCreates \/ SendPost \/ PostReturns
           \/ ReadVersion \/ WaitReturns \/ EnterRaises \/ Leave
           \/ ExitKeeps \/ ExitFinds \/ GetInstance \/ Delete \/ ExitRaises
           \/ WaitDeletedReturns \/ WaitDeletedExpires
           \/ Swallow \/ TakeForNotFound \/ Unwind \/ Sigint
           \/ ServerCreates \/ ServerRefuses \/ Finalized
           \/ AnotherDeletes \/ AnotherCreates
  BY DEF Next, EnterStep, ExitStep, ExceptionStep, UserStep, ServerStep

\* The setting is that of the whole execution.
SettingStays ==
    /\ setting' = setting
    /\ Reuse' = Reuse /\ Teardown' = Teardown /\ SkipTeardown' = SkipTeardown
    /\ OtherCreates' = OtherCreates /\ SigintIn' = SigintIn

LEMMA StaysInSetting == [Next]_vars => SettingStays
  BY DEF Next, EnterStep, ExitStep, ExceptionStep, UserStep, ServerStep, vars, SettingStays,
         Reuse, Teardown, SkipTeardown, OtherCreates, SigintIn

(***************************************************************************)
(* Frames are entered and left within MaxSignals.                          *)
(***************************************************************************)
LEMMA FrameFacts ==
    /\ 0 \in Frame
    /\ \A i \in Frame : i # 0 => i - 1 \in Frame
    /\ \A i \in Frame : i < MaxSignals => i + 1 \in Frame
    /\ \A i \in Frame : i \in Nat /\ i + 1 # 0 /\ i + 1 # i /\ (i # 0 <=> i > 0)
  BY LifecycleAssumption DEF Frame

\* A handler on the stack stands for a SIGINT that was counted.
Counted == depth <= signals

-------------------------------------------------------------------------------
(***************************************************************************)
(* Types.                                                                  *)
(***************************************************************************)
LEMMA InitType == Init => TypeOK /\ Counted
<1> SUFFICES ASSUME Init PROVE TypeOK /\ Counted
  OBVIOUS
<1>1. at \in [Frame -> InEnter \union InExit \union {"body", "over"}]
  BY DEF Init, InEnter, InExit
<1>2. object \in Owner \union {"none"}
  BY DEF Init, Owner
<1>3. depth \in Frame /\ signals \in Frame /\ depth <= signals
  BY FrameFacts DEF Init
<1> QED
  BY <1>1, <1>2, <1>3 DEF Init, TypeOK, Counted

\* A frame that ends leaves the stack as it should be.
LEMMA EndFrameType ==
  ASSUME TypeOK, Counted, NEW e, EndFrame(e),
         e \in Raised \/ (depth = 0 /\ e \in {"none", "BodyError", "returned"})
  PROVE  /\ at' \in [Frame -> InEnter \union InExit \union {"body", "over"}]
         /\ depth' \in Frame /\ depth' <= depth
         /\ exc' \in Raised \union {"none"}
         /\ result' \in Raised \union {"none", "BodyError", "returned"}
<1>1. CASE depth = 0
  BY <1>1, FrameFacts DEF EndFrame, GoTo, TypeOK
<1>2. CASE depth # 0
  BY <1>2, FrameFacts DEF EndFrame, TypeOK
<1> QED
  BY <1>1, <1>2

LEMMA NextType == TypeOK /\ Counted /\ [Next]_vars => TypeOK' /\ Counted'
<1> SUFFICES ASSUME TypeOK, Counted, [Next]_vars
             PROVE  TypeOK' /\ Counted'
  OBVIOUS
<1> SettingStays
  BY StaysInSetting
<1> USE DEF SettingStays
<1> USE FrameFacts
<1>1. CASE DeployReuses
  BY <1>1 DEF DeployReuses, At, GoTo, EnterBody, cluster, TypeOK, InEnter, InExit, Owner, Raised, Counted, Frame
<1>2. CASE DeployCreates
  BY <1>2 DEF DeployCreates, At, GoTo, cluster, TypeOK, InEnter, InExit, Owner, Raised, Counted, Frame
<1>3. CASE SendPost
  BY <1>3 DEF SendPost, At, GoTo, TypeOK, InEnter, InExit, Owner, Raised, Counted, Frame
<1>4. CASE PostReturns
  BY <1>4 DEF PostReturns, At, GoTo, cluster, TypeOK, InEnter, InExit, Owner, Raised, Counted, Frame
<1>5. CASE ReadVersion
  BY <1>5 DEF ReadVersion, At, GoTo, EnterBody, cluster, TypeOK, InEnter, InExit, Owner, Raised, Counted, Frame
<1>6. CASE WaitReturns
  BY <1>6 DEF WaitReturns, At, GoTo, EnterBody, cluster, TypeOK, InEnter, InExit, Owner, Raised, Counted, Frame
<1>7. CASE EnterRaises
  BY <1>7 DEF EnterRaises, GoTo, EndFrame, cluster, TypeOK, InEnter, InExit, Owner, Raised, Counted, Frame
<1>8. CASE Leave
  BY <1>8 DEF Leave, At, GoTo, cluster, TypeOK, InEnter, InExit, Owner, Raised, Counted, Frame
<1>9. CASE ExitKeeps
  BY <1>9 DEF ExitKeeps, At, GoTo, EndFrame, ExitReturns, cluster, TypeOK, InEnter, InExit, Owner, Raised, Counted, Frame
<1>10. CASE ExitFinds
  BY <1>10 DEF ExitFinds, At, GoTo, cluster, TypeOK, InEnter, InExit, Owner, Raised, Counted, Frame
<1>11. CASE GetInstance
  BY <1>11 DEF GetInstance, At, GoTo, EndFrame, cluster, TypeOK, InEnter, InExit, Owner, Raised, Counted, Frame
<1>12. CASE Delete
  <2>1. CASE object = "none"
    <3>1. EndFrame("NotFoundError") /\ UNCHANGED <<object, leaving, request, deleted, pending, entered, signals>>
      BY <1>12, <2>1 DEF Delete, Remove, cluster
    <3> QED
      BY <3>1, EndFrameType DEF TypeOK, Counted, Raised
  <2>2. CASE object # "none"
    BY <1>12, <2>2 DEF Delete, At, GoTo, Remove, TypeOK, Counted, InExit
  <2> QED
    BY <2>1, <2>2
<1>13. CASE ExitRaises
  <2>1. EndFrame("Error") /\ UNCHANGED <<pending, entered, signals>>
    BY <1>13 DEF ExitRaises
  <2>2. CASE Remove
    BY <2>1, <2>2, EndFrameType DEF Remove, TypeOK, Counted, Raised
  <2>3. CASE UNCHANGED <<cluster, deleted>>
    BY <2>1, <2>3, EndFrameType DEF cluster, TypeOK, Counted, Raised
  <2> QED
    BY <1>13, <2>2, <2>3 DEF ExitRaises
<1>14. CASE WaitDeletedReturns
  BY <1>14 DEF WaitDeletedReturns, At, GoTo, EndFrame, ExitReturns, cluster, TypeOK, InEnter, InExit, Owner, Raised, Counted, Frame
<1>15. CASE WaitDeletedExpires
  BY <1>15 DEF WaitDeletedExpires, At, GoTo, EndFrame, cluster, TypeOK, InEnter, InExit, Owner, Raised, Counted, Frame
<1>16. CASE Swallow
  BY <1>16 DEF Swallow, Retried, cluster, TypeOK, InEnter, InExit, Owner, Raised, Counted, Frame
<1>17. CASE TakeForNotFound
  <2>1. CASE at[depth] \in {"exit", "wait_deleted"}
    BY <1>17, <2>1, EndFrameType DEF TakeForNotFound, ExitReturns, cluster, TypeOK, Raised, Counted
  <2>2. CASE at[depth] \notin {"exit", "wait_deleted"}
    <3>1. /\ \E q \in {"post", "wait", "body"} : GoTo(q)
          /\ exc' = "none" /\ entered' \in BOOLEAN
          /\ UNCHANGED <<object, leaving, request, pending, deleted, signals, depth, result>>
      BY <1>17, <2>2 DEF TakeForNotFound, EnterBody, cluster, TypeOK
    <3>2. at' \in [Frame -> InEnter \union InExit \union {"body", "over"}]
      BY <3>1 DEF GoTo, TypeOK, InEnter
    <3> QED
      BY <3>1, <3>2 DEF TypeOK, Counted
  <2> QED
    BY <2>1, <2>2
<1>18. CASE Unwind
  BY <1>18 DEF Unwind, GoTo, EndFrame, cluster, TypeOK, InEnter, InExit, Owner, Raised, Counted, Frame
<1>19. CASE Sigint
  <2>1. depth + 1 \in Frame /\ signals + 1 \in Frame /\ depth + 1 <= signals + 1
    BY <1>19, LifecycleAssumption DEF Sigint, TypeOK, Counted, Frame
  <2> QED
    BY <1>19, <2>1 DEF Sigint, PartOf, cluster, TypeOK, InEnter, InExit, Owner, Raised, Counted
<1>20. CASE ServerCreates
  BY <1>20 DEF ServerCreates, program, TypeOK, InEnter, InExit, Owner, Raised, Counted, Frame
<1>21. CASE ServerRefuses
  BY <1>21 DEF ServerRefuses, program, TypeOK, InEnter, InExit, Owner, Raised, Counted, Frame
<1>22. CASE Finalized
  BY <1>22 DEF Finalized, program, TypeOK, InEnter, InExit, Owner, Raised, Counted, Frame
<1>23. CASE AnotherDeletes
  BY <1>23 DEF AnotherDeletes, program, TypeOK, InEnter, InExit, Owner, Raised, Counted, Frame
<1>24. CASE AnotherCreates
  BY <1>24 DEF AnotherCreates, program, TypeOK, InEnter, InExit, Owner, Raised, Counted, Frame
<1>25. CASE UNCHANGED vars
  BY <1>25 DEF vars, program, cluster, TypeOK, InEnter, InExit, Owner, Raised, Counted
<1> QED
  BY <1>1, <1>2, <1>3, <1>4, <1>5, <1>6, <1>7, <1>8, <1>9, <1>10, <1>11, <1>12, <1>13, <1>14, <1>15, <1>16, <1>17, <1>18, <1>19, <1>20, <1>21, <1>22, <1>23, <1>24, <1>25, EveryAction

\* Every variable keeps to its values: the stack of handlers is never deeper
\* than the SIGINTs, and no frame is at a place its code does not have.
THEOREM TypeCorrect == Spec => []TypeOK
<1>1. Spec => [](TypeOK /\ Counted)
  BY InitType, NextType, PTL DEF Spec
<1> QED
  BY <1>1, PTL

-------------------------------------------------------------------------------
(***************************************************************************)
(* What an entered with statement leaves behind.                           *)
(***************************************************************************)
LEMMA InitEnd == Init => EndInv
<1> SUFFICES ASSUME Init PROVE EndInv
  OBVIOUS
<1>1. TypeOK
  BY InitType
<1> QED
  BY <1>1, FrameFacts DEF Init, EndInv, Position, TornDown, EndedClean, InWith, InEnter, InExit

LEMMA NextPosition ==
  ASSUME TypeOK, Counted, Position, [Next]_vars
  PROVE  Position'
<1> USE FrameFacts
<1>1. CASE DeployReuses
  BY <1>1 DEF DeployReuses, At, GoTo, EnterBody, cluster, Position, InWith, TypeOK, InEnter, InExit
<1>2. CASE DeployCreates
  BY <1>2 DEF DeployCreates, At, GoTo, cluster, Position, InWith, TypeOK, InEnter, InExit
<1>3. CASE SendPost
  BY <1>3 DEF SendPost, At, GoTo, Position, InWith, TypeOK, InEnter, InExit
<1>4. CASE PostReturns
  BY <1>4 DEF PostReturns, At, GoTo, cluster, Position, InWith, TypeOK, InEnter, InExit
<1>5. CASE ReadVersion
  BY <1>5 DEF ReadVersion, At, GoTo, EnterBody, cluster, Position, InWith, TypeOK, InEnter, InExit
<1>6. CASE WaitReturns
  BY <1>6 DEF WaitReturns, At, GoTo, EnterBody, cluster, Position, InWith, TypeOK, InEnter, InExit
<1>7. CASE EnterRaises
  BY <1>7 DEF EnterRaises, GoTo, EndFrame, cluster, Position, InWith, TypeOK, InEnter, InExit
<1>8. CASE Leave
  BY <1>8 DEF Leave, At, GoTo, cluster, Position, InWith, TypeOK, InEnter, InExit
<1>9. CASE ExitKeeps
  BY <1>9 DEF ExitKeeps, At, GoTo, EndFrame, ExitReturns, cluster, Position, InWith, TypeOK, InEnter, InExit
<1>10. CASE ExitFinds
  BY <1>10 DEF ExitFinds, At, GoTo, cluster, Position, InWith, TypeOK, InEnter, InExit
<1>11. CASE GetInstance
  BY <1>11 DEF GetInstance, At, GoTo, EndFrame, cluster, Position, InWith, TypeOK, InEnter, InExit
<1>12. CASE Delete
  BY <1>12 DEF Delete, At, GoTo, EndFrame, Remove, cluster, Position, InWith, TypeOK, InEnter, InExit
<1>13. CASE ExitRaises
  BY <1>13 DEF ExitRaises, GoTo, EndFrame, Remove, cluster, Position, InWith, TypeOK, InEnter, InExit
<1>14. CASE WaitDeletedReturns
  BY <1>14 DEF WaitDeletedReturns, At, GoTo, EndFrame, ExitReturns, cluster, Position, InWith, TypeOK, InEnter, InExit
<1>15. CASE WaitDeletedExpires
  BY <1>15 DEF WaitDeletedExpires, At, GoTo, EndFrame, cluster, Position, InWith, TypeOK, InEnter, InExit
<1>16. CASE Swallow
  BY <1>16 DEF Swallow, Retried, cluster, Position, InWith, TypeOK, InEnter, InExit
<1>17. CASE TakeForNotFound
  BY <1>17 DEF TakeForNotFound, GoTo, EnterBody, EndFrame, ExitReturns, cluster, Position, InWith, TypeOK, InEnter, InExit
<1>18. CASE Unwind
  BY <1>18 DEF Unwind, GoTo, EndFrame, cluster, Position, InWith, TypeOK, InEnter, InExit
<1>19. CASE Sigint
  BY <1>19 DEF Sigint, PartOf, cluster, Position, InWith, TypeOK, InEnter, InExit
<1>20. CASE ServerCreates
  BY <1>20 DEF ServerCreates, program, Position, InWith, TypeOK, InEnter, InExit
<1>21. CASE ServerRefuses
  BY <1>21 DEF ServerRefuses, program, Position, InWith, TypeOK, InEnter, InExit
<1>22. CASE Finalized
  BY <1>22 DEF Finalized, program, Position, InWith, TypeOK, InEnter, InExit
<1>23. CASE AnotherDeletes
  BY <1>23 DEF AnotherDeletes, program, Position, InWith, TypeOK, InEnter, InExit
<1>24. CASE AnotherCreates
  BY <1>24 DEF AnotherCreates, program, Position, InWith, TypeOK, InEnter, InExit
<1>25. CASE UNCHANGED vars
  BY <1>25 DEF vars, program, cluster, Position, InWith, TypeOK, InEnter, InExit
<1> QED
  BY <1>1, <1>2, <1>3, <1>4, <1>5, <1>6, <1>7, <1>8, <1>9, <1>10, <1>11, <1>12, <1>13, <1>14, <1>15, <1>16, <1>17, <1>18, <1>19, <1>20, <1>21, <1>22, <1>23, <1>24, <1>25, EveryAction

LEMMA NextClean ==
  ASSUME TypeOK, Counted, Position, TornDown, EndedClean, [Next]_vars
  PROVE  TornDown' /\ EndedClean'
<1> SettingStays
  BY StaysInSetting
<1> USE DEF SettingStays
<1> USE FrameFacts
<1>1. CASE DeployReuses
  BY <1>1 DEF DeployReuses, At, GoTo, EnterBody, cluster, Position, InWith, TypeOK, InEnter, InExit, TornDown, EndedClean
<1>2. CASE DeployCreates
  BY <1>2 DEF DeployCreates, At, GoTo, cluster, Position, InWith, TypeOK, InEnter, InExit, TornDown, EndedClean
<1>3. CASE SendPost
  BY <1>3 DEF SendPost, At, GoTo, Position, InWith, TypeOK, InEnter, InExit, TornDown, EndedClean
<1>4. CASE PostReturns
  BY <1>4 DEF PostReturns, At, GoTo, cluster, Position, InWith, TypeOK, InEnter, InExit, TornDown, EndedClean
<1>5. CASE ReadVersion
  BY <1>5 DEF ReadVersion, At, GoTo, EnterBody, cluster, Position, InWith, TypeOK, InEnter, InExit, TornDown, EndedClean
<1>6. CASE WaitReturns
  BY <1>6 DEF WaitReturns, At, GoTo, EnterBody, cluster, Position, InWith, TypeOK, InEnter, InExit, TornDown, EndedClean
<1>7. CASE EnterRaises
  BY <1>7 DEF EnterRaises, GoTo, EndFrame, cluster, Position, InWith, TypeOK, InEnter, InExit, TornDown, EndedClean
<1>8. CASE Leave
  BY <1>8 DEF Leave, At, GoTo, cluster, Position, InWith, TypeOK, InEnter, InExit, TornDown, EndedClean
<1>9. CASE ExitKeeps
  BY <1>9 DEF ExitKeeps, At, GoTo, EndFrame, ExitReturns, cluster, Position, InWith, TypeOK, InEnter, InExit, TornDown, EndedClean
<1>10. CASE ExitFinds
  BY <1>10 DEF ExitFinds, At, GoTo, cluster, Position, InWith, TypeOK, InEnter, InExit, TornDown, EndedClean
<1>11. CASE GetInstance
  BY <1>11 DEF GetInstance, At, GoTo, EndFrame, cluster, Position, InWith, TypeOK, InEnter, InExit, TornDown, EndedClean
<1>12. CASE Delete
  BY <1>12 DEF Delete, At, GoTo, EndFrame, Remove, cluster, Position, InWith, TypeOK, InEnter, InExit, TornDown, EndedClean
<1>13. CASE ExitRaises
  BY <1>13 DEF ExitRaises, GoTo, EndFrame, Remove, cluster, Position, InWith, TypeOK, InEnter, InExit, TornDown, EndedClean
<1>14. CASE WaitDeletedReturns
  BY <1>14 DEF WaitDeletedReturns, At, GoTo, EndFrame, ExitReturns, cluster, Position, InWith, TypeOK, InEnter, InExit, TornDown, EndedClean
<1>15. CASE WaitDeletedExpires
  BY <1>15 DEF WaitDeletedExpires, At, GoTo, EndFrame, cluster, Position, InWith, TypeOK, InEnter, InExit, TornDown, EndedClean
<1>16. CASE Swallow
  BY <1>16 DEF Swallow, Retried, cluster, Position, InWith, TypeOK, InEnter, InExit, TornDown, EndedClean
<1>17. CASE TakeForNotFound
  BY <1>17 DEF TakeForNotFound, GoTo, EnterBody, EndFrame, ExitReturns, cluster, Position, InWith, TypeOK, InEnter, InExit, TornDown, EndedClean
<1>18. CASE Unwind
  <2>1. CASE at[depth] = "body"
    BY <1>18, <2>1 DEF Unwind, GoTo, cluster, Position, TypeOK, InExit, TornDown, EndedClean
  <2>2. CASE at[depth] # "body" /\ depth = 0
    <3>1. exc' = "none" /\ result' = exc /\ exc \in Raised
          /\ UNCHANGED <<object, entered>>
      BY <1>18, <2>2 DEF Unwind, EndFrame, cluster, TypeOK
    <3> QED
      BY <3>1 DEF Raised, TornDown, EndedClean
  <2>3. CASE at[depth] # "body" /\ depth # 0
    BY <1>18, <2>3 DEF Unwind, EndFrame, cluster, TypeOK, TornDown, EndedClean
  <2> QED
    BY <2>1, <2>2, <2>3
<1>19. CASE Sigint
  BY <1>19 DEF Sigint, PartOf, cluster, Position, InWith, TypeOK, InEnter, InExit, TornDown, EndedClean
<1>20. CASE ServerCreates
  BY <1>20 DEF ServerCreates, program, Position, InWith, TypeOK, InEnter, InExit, TornDown, EndedClean
<1>21. CASE ServerRefuses
  BY <1>21 DEF ServerRefuses, program, Position, InWith, TypeOK, InEnter, InExit, TornDown, EndedClean
<1>22. CASE Finalized
  BY <1>22 DEF Finalized, program, Position, InWith, TypeOK, InEnter, InExit, TornDown, EndedClean
<1>23. CASE AnotherDeletes
  BY <1>23 DEF AnotherDeletes, program, Position, InWith, TypeOK, InEnter, InExit, TornDown, EndedClean
<1>24. CASE AnotherCreates
  BY <1>24 DEF AnotherCreates, program, Position, InWith, TypeOK, InEnter, InExit, TornDown, EndedClean
<1>25. CASE UNCHANGED vars
  BY <1>25 DEF vars, program, cluster, TornDown, EndedClean
<1> QED
  BY <1>1, <1>2, <1>3, <1>4, <1>5, <1>6, <1>7, <1>8, <1>9, <1>10, <1>11, <1>12, <1>13, <1>14, <1>15, <1>16, <1>17, <1>18, <1>19, <1>20, <1>21, <1>22, <1>23, <1>24, <1>25, EveryAction

\* A with statement that was entered leaves its object behind only if it says that
\* its teardown failed, however often it is interrupted and nested in handlers.
THEOREM LeavesNothing == Spec => []NoLeftover
<1>1. EndInv /\ Counted /\ [Next]_vars => EndInv' /\ Counted'
  BY NextType, NextPosition, NextClean DEF EndInv
<1>2. EndInv => NoLeftover
  BY DEF EndInv, EndedClean, NoLeftover, Over
<1> QED
  BY InitEnd, InitType, <1>1, <1>2, PTL DEF Spec

-------------------------------------------------------------------------------
(***************************************************************************)
(* Whose objects it deletes.                                               *)
(***************************************************************************)
LEMMA NextOwn ==
  ASSUME Alone, TypeOK, Counted, Position, OwnInv, [Next]_vars
  PROVE  OwnInv'
<1> SettingStays
  BY StaysInSetting
<1> USE DEF SettingStays
<1> USE FrameFacts DEF Alone
<1>1. CASE DeployReuses
  BY <1>1 DEF DeployReuses, At, GoTo, EnterBody, cluster, Position, InWith, TypeOK, InEnter, InExit, OwnInv, DeletesOnlyItsOwn, Owner
<1>2. CASE DeployCreates
  BY <1>2 DEF DeployCreates, At, GoTo, cluster, Position, InWith, TypeOK, InEnter, InExit, OwnInv, DeletesOnlyItsOwn, Owner
<1>3. CASE SendPost
  BY <1>3 DEF SendPost, At, GoTo, Position, InWith, TypeOK, InEnter, InExit, OwnInv, DeletesOnlyItsOwn, Owner
<1>4. CASE PostReturns
  BY <1>4 DEF PostReturns, At, GoTo, cluster, Position, InWith, TypeOK, InEnter, InExit, OwnInv, DeletesOnlyItsOwn, Owner
<1>5. CASE ReadVersion
  BY <1>5 DEF ReadVersion, At, GoTo, EnterBody, cluster, Position, InWith, TypeOK, InEnter, InExit, OwnInv, DeletesOnlyItsOwn, Owner
<1>6. CASE WaitReturns
  BY <1>6 DEF WaitReturns, At, GoTo, EnterBody, cluster, Position, InWith, TypeOK, InEnter, InExit, OwnInv, DeletesOnlyItsOwn, Owner
<1>7. CASE EnterRaises
  BY <1>7 DEF EnterRaises, GoTo, EndFrame, cluster, Position, InWith, TypeOK, InEnter, InExit, OwnInv, DeletesOnlyItsOwn, Owner
<1>8. CASE Leave
  BY <1>8 DEF Leave, At, GoTo, cluster, Position, InWith, TypeOK, InEnter, InExit, OwnInv, DeletesOnlyItsOwn, Owner
<1>9. CASE ExitKeeps
  BY <1>9 DEF ExitKeeps, At, GoTo, EndFrame, ExitReturns, cluster, Position, InWith, TypeOK, InEnter, InExit, OwnInv, DeletesOnlyItsOwn, Owner
<1>10. CASE ExitFinds
  BY <1>10 DEF ExitFinds, At, GoTo, cluster, Position, InWith, TypeOK, InEnter, InExit, OwnInv, DeletesOnlyItsOwn, Owner
<1>11. CASE GetInstance
  BY <1>11 DEF GetInstance, At, GoTo, EndFrame, cluster, Position, InWith, TypeOK, InEnter, InExit, OwnInv, DeletesOnlyItsOwn, Owner
<1>12. CASE Delete
  BY <1>12 DEF Delete, At, GoTo, EndFrame, Remove, cluster, Position, InWith, TypeOK, InEnter, InExit, OwnInv, DeletesOnlyItsOwn, Owner
<1>13. CASE ExitRaises
  BY <1>13 DEF ExitRaises, GoTo, EndFrame, Remove, cluster, Position, InWith, TypeOK, InEnter, InExit, OwnInv, DeletesOnlyItsOwn, Owner
<1>14. CASE WaitDeletedReturns
  BY <1>14 DEF WaitDeletedReturns, At, GoTo, EndFrame, ExitReturns, cluster, Position, InWith, TypeOK, InEnter, InExit, OwnInv, DeletesOnlyItsOwn, Owner
<1>15. CASE WaitDeletedExpires
  BY <1>15 DEF WaitDeletedExpires, At, GoTo, EndFrame, cluster, Position, InWith, TypeOK, InEnter, InExit, OwnInv, DeletesOnlyItsOwn, Owner
<1>16. CASE Swallow
  BY <1>16 DEF Swallow, Retried, cluster, Position, InWith, TypeOK, InEnter, InExit, OwnInv, DeletesOnlyItsOwn, Owner
<1>17. CASE TakeForNotFound
  BY <1>17 DEF TakeForNotFound, GoTo, EnterBody, EndFrame, ExitReturns, cluster, Position, InWith, TypeOK, InEnter, InExit, OwnInv, DeletesOnlyItsOwn, Owner
<1>18. CASE Unwind
  BY <1>18 DEF Unwind, GoTo, EndFrame, cluster, Position, InWith, TypeOK, InEnter, InExit, OwnInv, DeletesOnlyItsOwn, Owner
<1>19. CASE Sigint
  BY <1>19 DEF Sigint, PartOf, cluster, Position, InWith, TypeOK, InEnter, InExit, OwnInv, DeletesOnlyItsOwn, Owner
<1>20. CASE ServerCreates
  BY <1>20 DEF ServerCreates, program, Position, InWith, TypeOK, InEnter, InExit, OwnInv, DeletesOnlyItsOwn, Owner
<1>21. CASE ServerRefuses
  BY <1>21 DEF ServerRefuses, program, Position, InWith, TypeOK, InEnter, InExit, OwnInv, DeletesOnlyItsOwn, Owner
<1>22. CASE Finalized
  BY <1>22 DEF Finalized, program, Position, InWith, TypeOK, InEnter, InExit, OwnInv, DeletesOnlyItsOwn, Owner
<1>23. CASE AnotherDeletes
  BY <1>23 DEF AnotherDeletes, program, Position, InWith, TypeOK, InEnter, InExit, OwnInv, DeletesOnlyItsOwn, Owner
<1>24. CASE AnotherCreates
  BY <1>24 DEF AnotherCreates, program, Position, InWith, TypeOK, InEnter, InExit, OwnInv, DeletesOnlyItsOwn, Owner
<1>25. CASE UNCHANGED vars
  BY <1>25 DEF vars, program, cluster, OwnInv, DeletesOnlyItsOwn, InWith
<1> QED
  BY <1>1, <1>2, <1>3, <1>4, <1>5, <1>6, <1>7, <1>8, <1>9, <1>10, <1>11, <1>12, <1>13, <1>14, <1>15, <1>16, <1>17, <1>18, <1>19, <1>20, <1>21, <1>22, <1>23, <1>24, <1>25, EveryAction

\* Without reuse, and if no SIGINT hits __enter__ or what follows the statement, an
\* object of another client is never deleted in place of the resource's own.
THEOREM DeletesOwn ==
  ASSUME \A s \in Settings : \/ s.reuse
                             \/ "later" \notin s.otherCreates /\ s.sigintIn \subseteq {"body", "exit"}
  PROVE  Spec => []DeletesOnlyItsOwn
<1>1. Init => (Alone => OwnInv)
  BY FrameFacts DEF Init, OwnInv, DeletesOnlyItsOwn, InWith, InExit, Alone, OtherCreates
<1>2. EndInv /\ Counted /\ (Alone => OwnInv) /\ [Next]_vars => EndInv' /\ Counted' /\ (Alone => OwnInv)'
  <2>1. [Next]_vars => (Alone' => Alone)
    BY StaysInSetting DEF SettingStays, Alone
  <2> QED
    BY <2>1, NextType, NextPosition, NextClean, NextOwn DEF EndInv
<1>3. EndInv /\ (Alone => OwnInv) => DeletesOnlyItsOwn
  BY DEF EndInv, TypeOK, OwnInv, Alone, DeletesOnlyItsOwn, Reuse, OtherCreates, SigintIn
<1> QED
  BY InitEnd, InitType, <1>1, <1>2, <1>3, PTL DEF Spec
===============================================================================
