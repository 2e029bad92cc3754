-------------------------- MODULE ResourceLifecycle --------------------------
(***************************************************************************)
(* A Resource of ocp_resources/resource.py used as a context manager:      *)
(* __enter__ installs the SIGINT handler and deploys (reuse, or create and *)
(* wait), __exit__ cleans up (delete and wait_deleted).  A SIGINT runs the *)
(* handler between two steps, whatever the program is doing: it calls      *)
(* __exit__ too, on top of what it interrupted, and then exits.            *)
(*                                                                         *)
(* The program is a stack of frames: frame 0 is the with statement, every  *)
(* frame above it a handler.  The cluster holds at most one object of the  *)
(* resource's name; the API addresses it by that name only, so an object   *)
(* of another client is told apart by this specification alone.            *)
(***************************************************************************)
EXTENDS Naturals

CONSTANTS
    Settings,   \* how the resource is used, see Setting
    MaxSignals  \* bound on SIGINTs

Part == {"enter", "body", "exit", "after"}

\*   reuse          REUSE_IF_RESOURCE_EXISTS names this resource
\*   waitForCreate  wait_for_resource
\*   teardown       teardown
\*   skipTeardown   SKIP_RESOURCE_TEARDOWN names this resource
\*   sigintIn       where the user presses Ctrl-C: parts of the program
\*   otherCreates   when another client may create an object of the name
\*   otherDeletes   another client may delete the object
Setting ==
    [reuse : BOOLEAN, waitForCreate : BOOLEAN, teardown : BOOLEAN, skipTeardown : BOOLEAN,
     sigintIn : SUBSET Part, otherCreates : SUBSET {"before", "later"}, otherDeletes : BOOLEAN]

ASSUME LifecycleAssumption == Settings \subseteq Setting /\ MaxSignals \in Nat

VARIABLES
    setting,   \* the setting of this execution
    object,    \* owner of the object on the cluster, or "none"
    leaving,   \* the object is being deleted: its finalizers are running
    request,   \* the POST: "none", "sent", "created", "refused"
    at,        \* frame -> where it is
    depth,     \* number of handlers on the stack
    exc,       \* exception on its way to the frame at the top, or "none"
    pending,   \* exception the body left with, while __exit__ runs
    result,    \* how the with statement ended
    entered,   \* observer: __enter__ returned
    deleted,   \* observer: owners of the objects the program deleted
    signals    \* SIGINTs so far

program == <<at, depth, exc, pending, result, entered>>
cluster == <<object, leaving, request>>
vars == <<setting, cluster, program, deleted, signals>>

Reuse == setting.reuse
WaitForCreate == setting.waitForCreate
Teardown == setting.teardown
SkipTeardown == setting.skipTeardown
SigintIn == setting.sigintIn
OtherCreates == setting.otherCreates
OtherDeletes == setting.otherDeletes

Frame == 0..MaxSignals
Owner == {"us", "other"}
InEnter == {"deploy", "post", "posted", "version", "wait"}
InExit == {"exit", "get", "delete", "wait_deleted"}
Raised == {"SystemExit", "ResourceTeardownError", "NotFoundError", "Error"}

TypeOK ==
    /\ setting \in Settings
    /\ object \in Owner \union {"none"}
    /\ leaving \in BOOLEAN /\ (leaving => object # "none")
    /\ request \in {"none", "sent", "created", "refused"}
    /\ at \in [Frame -> InEnter \union InExit \union {"body", "over"}]
    /\ depth \in Frame
    /\ exc \in Raised \union {"none"}
    /\ pending \in Raised \union {"none", "BodyError"}
    /\ result \in Raised \union {"none", "BodyError", "returned"}
    /\ entered \in BOOLEAN
    /\ deleted \subseteq Owner
    /\ signals \in Frame

Init ==
    /\ setting \in Settings
    /\ object \in IF "before" \in OtherCreates THEN {"none", "other"} ELSE {"none"}
    /\ leaving = FALSE
    /\ request = "none"
    /\ at = [i \in Frame |-> IF i = 0 THEN "deploy" ELSE "exit"]
    /\ depth = 0
    /\ exc = "none"
    /\ pending = "none"
    /\ result = "none"
    /\ entered = FALSE
    /\ deleted = {}
    /\ signals = 0

\* The frame at the top is at p, and no exception is on its way to it.
At(p) == exc = "none" /\ at[depth] = p

GoTo(p) == at' = [at EXCEPT ![depth] = p]

\* The frame at the top ends with e: the with statement is over, or e is raised
\* where the handler interrupted the frame below.
EndFrame(e) ==
    IF depth = 0
      THEN /\ GoTo("over")
           /\ result' = e
           /\ exc' = "none"
           /\ UNCHANGED depth
      ELSE /\ depth' = depth - 1
           /\ exc' = e
           /\ UNCHANGED <<at, result>>

EnterBody == GoTo("body") /\ entered' = TRUE

-------------------------------------------------------------------------------
(***************************************************************************)
(* __enter__: deploy, create, wait.                                        *)
(***************************************************************************)
\* deploy returns an object that exists, if the user wants it reused.
DeployReuses ==
    /\ At("deploy")
    /\ Reuse /\ object # "none"
    /\ EnterBody
    /\ UNCHANGED <<cluster, depth, exc, pending, result, deleted, signals>>

DeployCreates ==
    /\ At("deploy")
    /\ ~Reuse \/ object = "none"
    /\ GoTo("post")
    /\ UNCHANGED <<cluster, depth, exc, pending, result, entered, deleted, signals>>

SendPost ==
    /\ At("post")
    /\ GoTo("posted")
    /\ request' = "sent"
    /\ UNCHANGED <<object, leaving, depth, exc, pending, result, entered, deleted, signals>>

\* Bug: a conflict is taken for a success, the resource "exists already".
PostTolerates ==
    /\ At("posted")
    /\ request \in {"created", "refused"}
    /\ GoTo("version")
    /\ UNCHANGED <<cluster, depth, exc, pending, result, entered, deleted, signals>>

PostReturns ==
    /\ At("posted")
    /\ request = "created"
    /\ GoTo("version")
    /\ UNCHANGED <<cluster, depth, exc, pending, result, entered, deleted, signals>>

\* create reads the resourceVersion; that the object is gone again is suppressed.
ReadVersion ==
    /\ At("version")
    /\ IF WaitForCreate THEN GoTo("wait") /\ UNCHANGED entered ELSE EnterBody
    /\ UNCHANGED <<cluster, depth, exc, pending, result, deleted, signals>>

WaitReturns ==
    /\ At("wait")
    /\ object # "none"
    /\ EnterBody
    /\ UNCHANGED <<cluster, depth, exc, pending, result, deleted, signals>>

\* Any request of __enter__ may fail, its answer may be lost, the wait may expire;
\* a refused POST always fails.
EnterRaises ==
    /\ exc = "none"
    /\ at[depth] \in {"deploy", "post", "posted", "version", "wait"}
    /\ at[depth] = "deploy" => Reuse
    /\ EndFrame("Error")
    /\ UNCHANGED <<cluster, pending, entered, deleted, signals>>

\* The body ends by itself or with an exception.
Leave ==
    /\ At("body")
    /\ GoTo("exit")
    /\ pending' \in {"none", "BodyError"}
    /\ UNCHANGED <<cluster, depth, exc, result, entered, deleted, signals>>

-------------------------------------------------------------------------------
(***************************************************************************)
(* __exit__ of the with statement, or of a handler: clean_up, delete,      *)
(* wait_deleted.                                                           *)
(***************************************************************************)
\* What follows an __exit__ that returns: the handler calls sys.exit.
ExitReturns ==
    EndFrame(IF depth > 0 THEN "SystemExit"
             ELSE IF pending = "none" THEN "returned" ELSE pending)

\* With no teardown, or nothing to delete, __exit__ is done.
ExitKeeps ==
    /\ At("exit")
    /\ ~Teardown \/ SkipTeardown \/ object = "none"
    /\ ExitReturns
    /\ UNCHANGED <<cluster, pending, entered, deleted, signals>>

\* The first request of delete is `exists`.
ExitFinds ==
    /\ At("exit")
    /\ Teardown /\ ~SkipTeardown /\ object # "none"
    /\ GoTo("get")
    /\ UNCHANGED <<cluster, depth, exc, pending, result, entered, deleted, signals>>

\* The second is `instance`: the object may be gone by then.
GetInstance ==
    /\ At("get")
    /\ IF object = "none" THEN EndFrame("NotFoundError")
                          ELSE GoTo("delete") /\ UNCHANGED <<depth, exc, result>>
    /\ UNCHANGED <<cluster, pending, entered, deleted, signals>>

\* Bug: a DELETE of an object that is gone is taken for a success.
RemoveAbsent ==
    /\ leaving' = TRUE
    /\ deleted' = deleted \union {object}
    /\ UNCHANGED <<object, request>>

\* The API server marks the object; it is gone when its finalizers are done.
Remove ==
    /\ object # "none"
    /\ leaving' = TRUE
    /\ deleted' = deleted \union {object}
    /\ UNCHANGED <<object, request>>

\* The third is the DELETE.
Delete ==
    /\ At("delete")
    /\ \/ Remove /\ GoTo("wait_deleted") /\ UNCHANGED <<depth, exc, result>>
       \/ /\ object = "none"
          /\ EndFrame("NotFoundError")
          /\ UNCHANGED <<cluster, deleted>>
    /\ UNCHANGED <<pending, entered, signals>>

\* Any of the three may fail; the answer to the DELETE may be lost.
ExitRaises ==
    /\ exc = "none"
    /\ at[depth] \in {"exit", "get", "delete"}
    /\ at[depth] = "exit" => Teardown /\ ~SkipTeardown
    /\ EndFrame("Error")
    /\ \/ at[depth] = "delete" /\ Remove
       \/ UNCHANGED <<cluster, deleted>>
    /\ UNCHANGED <<pending, entered, signals>>

\* wait_deleted polls `exists`, whatever errors it meets, until its timeout.
WaitDeletedReturns ==
    /\ At("wait_deleted")
    /\ object = "none"
    /\ ExitReturns
    /\ UNCHANGED <<cluster, pending, entered, deleted, signals>>

\* Bug: __exit__ ignores what clean_up returns.
ExpiryIgnored ==
    /\ At("wait_deleted")
    /\ ExitReturns
    /\ UNCHANGED <<cluster, pending, entered, deleted, signals>>

\* Bug: wait_deleted polls without a timeout.
WaitDeletedForever ==
    /\ At("wait_deleted")
    /\ object = "none"
    /\ EndFrame("ResourceTeardownError")
    /\ UNCHANGED <<cluster, pending, entered, deleted, signals>>

WaitDeletedExpires ==
    /\ At("wait_deleted")
    /\ EndFrame("ResourceTeardownError")
    /\ UNCHANGED <<cluster, pending, entered, deleted, signals>>

-------------------------------------------------------------------------------
(***************************************************************************)
(* SIGINT, and the exceptions that come out of its handler.                *)
(***************************************************************************)
PartOf(p) ==
    IF p \in InEnter THEN "enter"
    ELSE IF p \in InExit THEN "exit"
    ELSE IF p = "body" THEN "body" ELSE "after"

\* The handler is never removed: it also runs when the with statement is over.
Sigint ==
    /\ signals < MaxSignals
    /\ exc = "none"
    /\ PartOf(at[depth]) \in SigintIn
    /\ signals' = signals + 1
    /\ depth' = depth + 1
    /\ at' = [at EXCEPT ![depth + 1] = "exit"]
    /\ UNCHANGED <<cluster, exc, pending, result, entered, deleted>>

\* Where the exception e of a handler may be taken for one of the request that
\* the handler interrupted, and be waited out.  sys.exit's is never.
Retried(p) ==
    \/ p = "wait_deleted" /\ exc # "SystemExit"
    \/ p = "wait" /\ exc \in {"NotFoundError", "Error"}
    \/ p \in {"version", "exit", "get"} /\ exc = "Error"
    \/ p = "deploy" /\ Reuse /\ exc = "Error"

\* It is; or the body handles it; or it comes after the with statement.
Swallow ==
    /\ exc # "none"
    /\ \/ Retried(at[depth])
       \/ at[depth] = "body" /\ exc # "SystemExit"
       \/ at[depth] = "over"
    /\ exc' = "none"
    /\ UNCHANGED <<cluster, at, depth, pending, result, entered, deleted, signals>>

\* A NotFoundError means to `exists`, and to create, that there is no object: delete
\* and wait_deleted have nothing to do then.
TakeForNotFound ==
    /\ exc = "NotFoundError"
    /\ \/ at[depth] \in {"exit", "wait_deleted"} /\ ExitReturns /\ UNCHANGED entered
       \/ /\ at[depth] = "deploy" /\ Reuse
          /\ GoTo("post") /\ UNCHANGED <<depth, result, entered>> /\ exc' = "none"
       \/ /\ at[depth] = "version"
          /\ IF WaitForCreate THEN GoTo("wait") /\ UNCHANGED entered ELSE EnterBody
          /\ UNCHANGED <<depth, result>> /\ exc' = "none"
    /\ UNCHANGED <<cluster, pending, deleted, signals>>

\* It leaves the body, and __exit__ runs; or it ends the frame it was raised in.
Unwind ==
    /\ exc # "none"
    /\ at[depth] # "over"
    /\ IF at[depth] = "body"
         THEN /\ GoTo("exit")
              /\ pending' = exc
              /\ exc' = "none"
              /\ UNCHANGED <<depth, result>>
         ELSE EndFrame(exc) /\ UNCHANGED pending
    /\ UNCHANGED <<cluster, entered, deleted, signals>>

-------------------------------------------------------------------------------
(***************************************************************************)
(* The API server, and other clients.                                      *)
(***************************************************************************)
\* A POST that was sent is carried out or refused, if somebody waits for the
\* answer or not.
ServerCreates ==
    /\ request = "sent"
    /\ object = "none"
    /\ object' = "us"
    /\ request' = "created"
    /\ UNCHANGED <<leaving, program, deleted, signals>>

ServerRefuses ==
    /\ request = "sent"
    /\ request' = "refused"
    /\ UNCHANGED <<object, leaving, program, deleted, signals>>

Finalized ==
    /\ leaving
    /\ leaving' = FALSE
    /\ object' = "none"
    /\ UNCHANGED <<request, program, deleted, signals>>

AnotherDeletes ==
    /\ OtherDeletes
    /\ object # "none" /\ ~leaving
    /\ leaving' = TRUE
    /\ UNCHANGED <<object, request, program, deleted, signals>>

AnotherCreates ==
    /\ "later" \in OtherCreates
    /\ object = "none"
    /\ object' = "other"
    /\ UNCHANGED <<leaving, request, program, deleted, signals>>

-------------------------------------------------------------------------------
EnterStep ==
    /\ UNCHANGED setting
    /\ \/ DeployReuses \/ DeployCreates \/ SendPost \/ PostReturns
       \/ ReadVersion \/ WaitReturns \/ EnterRaises

ExitStep ==
    /\ UNCHANGED setting
    /\ \/ ExitKeeps \/ ExitFinds \/ GetInstance \/ Delete \/ ExitRaises
       \/ WaitDeletedReturns \/ WaitDeletedExpires

ExceptionStep == UNCHANGED setting /\ (Swallow \/ TakeForNotFound \/ Unwind)

UserStep == UNCHANGED setting /\ (Leave \/ Sigint)

ServerStep ==
    /\ UNCHANGED setting
    /\ \/ ServerCreates \/ ServerRefuses \/ Finalized
       \/ AnotherDeletes \/ AnotherCreates

Next == EnterStep \/ UserStep \/ ExitStep \/ ExceptionStep \/ ServerStep

\* The program runs, except that the body may take for ever; its requests end
\* with an answer or an error.
Spec == Init /\ [][Next]_vars /\ WF_vars(EnterStep \/ ExitStep \/ ExceptionStep)

-------------------------------------------------------------------------------
Over == at[0] = "over" /\ depth = 0

\* A with statement that was entered and ended without reporting a failure of its
\* teardown leaves nothing of its own behind, whatever SIGINTs hit the body or
\* the teardown.
NoLeftover ==
    /\ Over /\ entered
    /\ Teardown /\ ~SkipTeardown
    /\ result \in {"returned", "BodyError", "SystemExit"}
    => object # "us"

\* An object of another client that has the name is never deleted by a program
\* that was not told to reuse it: its __enter__ fails, and there is no __exit__.
DeletesOnlyItsOwn == "other" \in deleted => Reuse

\* A with statement hangs in its body only: its waits expire, and the handler of
\* a SIGINT ends too.
Ends == at[0] # "body" \/ depth > 0 ~> at[0] \in {"body", "over"} /\ depth = 0
===============================================================================
