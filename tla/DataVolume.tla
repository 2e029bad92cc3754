------------------------------ MODULE DataVolume ------------------------------
(***************************************************************************)
(* A DataVolume of ocp_resources/datavolume.py used as a context manager.  *)
(* It stands for two objects of one name: the DataVolume itself and the    *)
(* PVC that CDI creates for it.  __enter__ waits for the import and for    *)
(* the PVC; the body may call wait_for_dv_success; __exit__ deletes the    *)
(* DataVolume, or the PVC alone if CDI has garbage-collected the           *)
(* DataVolume after its success, and waits for both to be gone.            *)
(*                                                                         *)
(* CDI and Kubernetes work on the two objects at the same time.            *)
(***************************************************************************)
EXTENDS Naturals

CONSTANTS
    StopFunc,        \* a stop_status_func is given
    CollectIn,       \* when CDI may collect the DataVolume: "use", "delete"
    OtherDeletes,    \* another client may delete the DataVolume
    MaxCalls         \* bound on the calls of wait_for_dv_success

ASSUME DataVolumeAssumption ==
    /\ {StopFunc, OtherDeletes} \subseteq BOOLEAN
    /\ CollectIn \subseteq {"use", "delete"}
    /\ MaxCalls \in Nat

VARIABLES
    dv,        \* phase of the DataVolume, "new" without one, or "absent"
    pvc,       \* phase of the PVC, or "absent"
    leaving,   \* the objects that are being deleted
    owned,     \* the PVC has the DataVolume as its owner
    pc,        \* where the program is
    target,    \* the object whose Resource.delete is running
    exc,       \* exception the body left with, or "none"
    result,    \* how the with statement ended
    gc,        \* dv_garbage_collection_enabled of the last call
    calls,     \* calls of wait_for_dv_success so far
    waited,    \* observer: the last wait of the program returned
    imported,  \* observer: the import succeeded
    foreign    \* observer: another client deleted the DataVolume

cluster == <<dv, pvc, leaving, owned>>
observers == <<waited, imported, foreign>>
vars == <<cluster, pc, target, exc, result, gc, calls, observers>>

Waiting == {"none_pending", "status", "sample", "bound"}
Deleting == {"choose", "exists", "instance", "delete", "dv_gone", "pvc_gone"}
Raised == {"TimeoutExpiredError", "AttributeError", "ResourceTeardownError",
           "NotFoundError", "Error"}

TypeOK ==
    /\ dv \in {"absent", "new", "Pending", "InProgress", "Succeeded", "Failed"}
    /\ pvc \in {"absent", "Pending", "Bound"}
    /\ leaving \subseteq {"dv", "pvc"}
    /\ "dv" \in leaving => dv # "absent"
    /\ "pvc" \in leaving => pvc # "absent"
    /\ owned \in BOOLEAN
    /\ pc \in Waiting \union Deleting \union {"post", "body", "over"}
    /\ target \in {"dv", "pvc"}
    /\ exc \in Raised \union {"none", "BodyError"}
    /\ result \in Raised \union {"none", "returned", "BodyError"}
    /\ calls \in 0..MaxCalls
    /\ gc \in BOOLEAN /\ waited \in BOOLEAN
    /\ imported \in BOOLEAN /\ foreign \in BOOLEAN

Init ==
    /\ dv = "absent" /\ pvc = "absent"
    /\ leaving = {}
    /\ owned = TRUE
    /\ pc = "post"
    /\ target = "dv"
    /\ exc = "none"
    /\ result = "none"
    /\ gc = FALSE
    /\ calls = 0
    /\ waited = FALSE /\ imported = FALSE /\ foreign = FALSE

Present(t) == IF t = "dv" THEN dv # "absent" ELSE pvc # "absent"

\* __enter__ is running; afterwards exceptions reach the body, or leave __exit__.
Entering == calls = 0 /\ pc \in Waiting \union {"post"}

\* The with statement is over.  An exception of __exit__ replaces the body's.
End(e) == pc' = "over" /\ result' = e

Raise(e) ==
    IF pc \in Waiting /\ ~Entering
      THEN pc' = "choose" /\ exc' = e /\ UNCHANGED result
      ELSE End(e) /\ UNCHANGED exc

-------------------------------------------------------------------------------
(***************************************************************************)
(* __enter__: create and wait.                                             *)
(***************************************************************************)
Create ==
    /\ pc = "post"
    /\ dv' = "new"
    /\ \/ pc' \in {"none_pending", "body"} /\ UNCHANGED result   \* wait_for_resource or not
       \/ End("Error")      \* the answer is lost
    /\ UNCHANGED <<pvc, leaving, owned, target, exc, gc, calls, observers>>

\* wait_for_dv_success(), called by the body.
CallSuccess ==
    /\ pc = "body"
    /\ calls < MaxCalls
    /\ calls' = calls + 1
    /\ gc' \in BOOLEAN
    /\ pc' = "none_pending"
    /\ waited' = FALSE
    /\ UNCHANGED <<cluster, target, exc, result, imported, foreign>>

\* _check_none_pending_status ends when there is no DataVolume, or it has a phase
\* other than Pending.  Both callers go on from there.
NonePending ==
    /\ pc = "none_pending"
    /\ dv \notin {"new", "Pending"}
    /\ pc' = IF Entering THEN "status" ELSE "sample"
    /\ UNCHANGED <<cluster, target, exc, result, gc, calls, observers>>

\* wait() lists the DataVolume: Succeeded ends the wait, Failed stops it.
StatusSucceeded ==
    /\ pc = "status"
    /\ dv = "Succeeded"
    /\ pc' = "bound"
    /\ UNCHANGED <<cluster, target, exc, result, gc, calls, observers>>

StatusFailed ==
    /\ pc = "status"
    /\ dv = "Failed"
    /\ Raise("TimeoutExpiredError")
    /\ UNCHANGED <<cluster, target, gc, calls, observers>>

\* Bug: a DataVolume that is not there has been collected, in any case.
SampleSucceedsIfGone ==
    /\ pc = "sample"
    /\ dv \in {"Succeeded", "absent"}
    /\ pc' = "bound"
    /\ UNCHANGED <<cluster, target, exc, result, gc, calls, observers>>

\* wait_for_dv_success(): a DataVolume that is gone succeeded, if CDI collects.
SampleSucceeds ==
    /\ pc = "sample"
    /\ dv = "Succeeded" \/ (dv = "absent" /\ gc)
    /\ pc' = "bound"
    /\ UNCHANGED <<cluster, target, exc, result, gc, calls, observers>>

\* Otherwise stop_status_func may end it; the message wants a status, even of a
\* DataVolume that is not there.
SampleStops ==
    /\ pc = "sample"
    /\ StopFunc
    /\ ~(dv = "Succeeded" \/ (dv = "absent" /\ gc))
    /\ Raise(IF dv = "absent" THEN "AttributeError" ELSE "TimeoutExpiredError")
    /\ UNCHANGED <<cluster, target, gc, calls, observers>>

PvcBound ==
    /\ pc = "bound"
    /\ pvc = "Bound"
    /\ pc' = "body"
    /\ waited' = TRUE
    /\ UNCHANGED <<cluster, target, exc, result, gc, calls, imported, foreign>>

\* A wait expires.  The handler in wait_for_dv_success logs the status of the last
\* sample, which may be none.
WaitExpires ==
    /\ pc \in Waiting
    /\ \E e \in {"TimeoutExpiredError", "AttributeError"} :
         /\ e = "AttributeError" => pc = "sample"
         /\ Raise(e)
    /\ UNCHANGED <<cluster, target, gc, calls, observers>>

Leave ==
    /\ pc = "body"
    /\ pc' = "choose"
    /\ exc' \in {"none", "BodyError"}
    /\ UNCHANGED <<cluster, target, result, gc, calls, observers>>

-------------------------------------------------------------------------------
(***************************************************************************)
(* __exit__: delete, of the DataVolume or of the PVC, and wait_deleted.    *)
(***************************************************************************)
\* delete returned TRUE: the with statement ends as its body did.
Done == End(IF exc = "none" THEN "returned" ELSE exc) /\ UNCHANGED exc

\* Bug: the PVC of a DataVolume that is gone is not deleted.
ChooseForgetsPvc ==
    /\ pc = "choose"
    /\ target' = "dv"
    /\ pc' = "exists"
    /\ UNCHANGED <<cluster, exc, result, gc, calls, observers>>

\* DataVolume.delete looks which of the two is there to be deleted.
Choose ==
    /\ pc = "choose"
    /\ target' = IF Present("dv") THEN "dv" ELSE "pvc"
    /\ pc' = "exists"
    /\ UNCHANGED <<cluster, exc, result, gc, calls, observers>>

\* Resource.delete looks again: nothing there is nothing to do.
Exists ==
    /\ pc = "exists"
    /\ IF Present(target) THEN pc' = "instance" /\ UNCHANGED <<exc, result>>
                          ELSE Done
    /\ UNCHANGED <<cluster, target, gc, calls, observers>>

GetInstance ==
    /\ pc = "instance"
    /\ IF Present(target) THEN pc' = "delete" /\ UNCHANGED <<exc, result>>
                          ELSE Raise("NotFoundError")
    /\ UNCHANGED <<cluster, target, gc, calls, observers>>

\* Bug: a DELETE of an object that is gone is taken for a success.
DeleteAbsent ==
    /\ pc = "delete"
    /\ leaving' = leaving \union {target}
    /\ pc' = (IF target = "dv" THEN "dv_gone" ELSE "pvc_gone")
    /\ UNCHANGED <<dv, pvc, owned, target, exc, result, gc, calls, observers>>

\* The DELETE takes effect in time; its answer may be lost.
Delete ==
    /\ pc = "delete"
    /\ Present(target)
    /\ leaving' = leaving \union {target}
    /\ \/ pc' = (IF target = "dv" THEN "dv_gone" ELSE "pvc_gone") /\ UNCHANGED <<exc, result>>
       \/ Raise("Error")
    /\ UNCHANGED <<dv, pvc, owned, target, gc, calls, observers>>

DeleteNotFound ==
    /\ pc = "delete"
    /\ ~Present(target)
    /\ Raise("NotFoundError")
    /\ UNCHANGED <<cluster, target, gc, calls, observers>>

\* DataVolume.wait_deleted waits for the DataVolume, and then for its PVC,
\* whether the first wait saw the DataVolume go or expired.
DvGone ==
    /\ pc = "dv_gone"
    /\ pc' = "pvc_gone"
    /\ UNCHANGED <<cluster, target, exc, result, gc, calls, observers>>

PvcGone ==
    /\ pc = "pvc_gone"
    /\ pvc = "absent"
    /\ Done
    /\ UNCHANGED <<cluster, target, gc, calls, observers>>

\* Bug: wait_deleted polls without a timeout.
PvcGoneForever ==
    /\ pc = "pvc_gone"
    /\ pvc = "absent"
    /\ Raise("ResourceTeardownError")
    /\ UNCHANGED <<cluster, target, gc, calls, observers>>

PvcGoneExpires ==
    /\ pc = "pvc_gone"
    /\ Raise("ResourceTeardownError")
    /\ UNCHANGED <<cluster, target, gc, calls, observers>>

\* Any request may fail, except that the samplers of wait_deleted and of the waits
\* take an error for a sample, or raise it as their expiry.
RequestFails ==
    /\ pc \in {"post", "choose", "exists", "instance", "delete"}
    /\ Raise("Error")
    /\ UNCHANGED <<cluster, target, gc, calls, observers>>

-------------------------------------------------------------------------------
(***************************************************************************)
(* CDI, Kubernetes and another client.                                     *)
(***************************************************************************)
program == <<pc, target, exc, result, gc, calls, waited>>

CdiStarts ==
    /\ dv = "new" /\ "dv" \notin leaving
    /\ dv' = "Pending"
    /\ UNCHANGED <<pvc, leaving, owned, program, imported, foreign>>

CdiCreatesPvc ==
    /\ dv = "Pending" /\ "dv" \notin leaving
    /\ pvc = "absent"
    /\ pvc' = "Pending"
    /\ UNCHANGED <<dv, leaving, owned, program, imported, foreign>>

PvcBinds ==
    /\ pvc = "Pending"
    /\ pvc' = "Bound"
    /\ UNCHANGED <<dv, leaving, owned, program, imported, foreign>>

CdiImports ==
    /\ dv = "Pending" /\ pvc # "absent"
    /\ dv' = "InProgress"
    /\ UNCHANGED <<pvc, leaving, owned, program, imported, foreign>>

CdiEnds ==
    /\ dv = "InProgress"
    /\ \/ pvc # "absent" /\ dv' = "Succeeded" /\ imported' = TRUE
       \/ dv' = "Failed" /\ UNCHANGED imported
    /\ UNCHANGED <<pvc, leaving, owned, program, foreign>>

\* CDI disowns the PVC of a DataVolume that succeeded, and deletes the DataVolume.
CdiCollects ==
    /\ (IF pc \in Deleting THEN "delete" ELSE "use") \in CollectIn
    /\ dv = "Succeeded" /\ "dv" \notin leaving
    /\ dv' = "absent"
    /\ owned' = FALSE
    /\ UNCHANGED <<pvc, leaving, program, imported, foreign>>

\* The PVC goes after the DataVolume that owns it.
DvFinalized ==
    /\ "dv" \in leaving
    /\ dv' = "absent"
    /\ leaving' = IF owned /\ pvc # "absent" THEN {"pvc"} ELSE leaving \ {"dv"}
    /\ UNCHANGED <<pvc, owned, program, imported, foreign>>

PvcFinalized ==
    /\ "pvc" \in leaving
    /\ pvc' = "absent"
    /\ leaving' = leaving \ {"pvc"}
    /\ UNCHANGED <<dv, owned, program, imported, foreign>>

AnotherDeletes ==
    /\ OtherDeletes /\ pc \notin Deleting
    /\ dv # "absent" /\ "dv" \notin leaving
    /\ leaving' = leaving \union {"dv"}
    /\ foreign' = TRUE
    /\ UNCHANGED <<dv, pvc, owned, program, imported>>

-------------------------------------------------------------------------------
WaitStep ==
    \/ Create \/ NonePending \/ StatusSucceeded \/ StatusFailed
    \/ SampleSucceeds \/ SampleStops \/ PvcBound \/ WaitExpires

DeleteStep ==
    \/ Choose \/ Exists \/ GetInstance \/ Delete \/ DeleteNotFound
    \/ DvGone \/ PvcGone \/ PvcGoneExpires \/ RequestFails

ClusterStep ==
    \/ CdiStarts \/ CdiCreatesPvc \/ PvcBinds \/ CdiImports \/ CdiEnds
    \/ CdiCollects \/ DvFinalized \/ PvcFinalized \/ AnotherDeletes

Next == WaitStep \/ CallSuccess \/ Leave \/ DeleteStep \/ ClusterStep

\* The program runs, except that the body may take for ever; its requests and its
\* samplers end.
Spec == Init /\ [][Next]_vars /\ WF_vars(WaitStep) /\ WF_vars(DeleteStep)

-------------------------------------------------------------------------------
\* A wait that returned means that the import succeeded - or that somebody deleted
\* the DataVolume of a caller who said that CDI would.
SuccessMeansImported == waited => imported \/ (gc /\ foreign)

\* A with statement that ends without an error of its teardown leaves no PVC, be
\* it the DataVolume's or one that CDI has disowned; at most one that is already
\* on its way out because another client deleted its owner.
NoPvcLeft ==
    pc = "over" /\ result \in {"returned", "BodyError"}
        => pvc = "absent" \/ (foreign /\ "pvc" \in leaving)

\* Whatever the cluster does, only the body of the with statement may hang.
Ends == pc # "body" ~> pc \in {"body", "over"}

-------------------------------------------------------------------------------
\* "True if DataVolume and its PVC are gone": the DataVolume is too.
NoDataVolumeLeft == pc = "over" /\ result \in {"returned", "BodyError"} => dv = "absent"
===============================================================================
