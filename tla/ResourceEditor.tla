---------------------------- MODULE ResourceEditor ----------------------------
(***************************************************************************)
(* ResourceEditor of ocp_resources/resource.py: temporary edits to cluster *)
(* resources.  update(backup_resources=True) reads every resource, keeps   *)
(* the part of it that its patch would change and applies the patches;     *)
(* restore() applies the backups the same way.  Both apply a whole batch   *)
(* under one sampler: a retriable error of one request makes the batch     *)
(* start again, any other error is raised to the caller.                   *)
(*                                                                         *)
(* The cluster is `server`: the document of each resource.  Other clients  *)
(* write to it too, outside the parts the patches name.  `base` is an      *)
(* observer: what the documents would be had the editor not been there.    *)
(***************************************************************************)
EXTENDS Naturals, FiniteSets, DocPatch

CONSTANTS
    N,             \* the editor is given patches for resources 1..N, in order
    InitDocs,      \* documents the cluster may start with
    Patches,       \* patches the caller may give
    Settings,      \* how the editor is made and used, see Setting
    WithNamespace, \* resources whose patch names a metadata.namespace
    MaxAttempts    \* attempts that fit in the timeout (30s, one every 5s)

Resource == 1..N

\*   action       the editor's action: "update" (PATCH) or "replace" (PUT)
\*   protocol     "with": a context manager; "manual": explicit calls
\*   userBackups  TRUE: the caller gives whole documents as user_backups
\*   hidden       resources whose GET by name says not found
\*   maxCalls     bound on the calls of the manual protocol
\*   maxWrites    bound on the writes of other clients
Setting ==
    [action : {"update", "replace"}, protocol : {"with", "manual"}, userBackups : BOOLEAN,
     hidden : SUBSET Resource, maxCalls : Nat, maxWrites : Nat]

ASSUME EditorAssumption ==
    /\ N \in Nat \ {0}
    /\ \A d \in InitDocs : IsDoc(d)
    /\ \A p \in Patches : IsPatch(p)
    /\ \A s \in Settings :
         /\ s \in Setting
         /\ s.action = "replace" => s.hidden = {}
         /\ s.userBackups => s.protocol = "with"
    /\ WithNamespace \subseteq Resource
    /\ MaxAttempts \in Nat \ {0}

VARIABLES
    setting,   \* the setting of this execution
    patches,   \* _patches: resource -> patch
    backups,   \* _backups: resource -> backup, for the resources backed up
    batch,     \* resources of the batch being applied
    todo,      \* resources of the loop in progress not handled yet
    pc,        \* where the call in progress is; "idle" between calls
    call,      \* the method called last
    outcome,   \* how the last call ended
    attempts,  \* attempts of the batch so far
    version,   \* resourceVersion read for the PUT: "none", "fresh", "stale"
    server,    \* resource -> document on the cluster
    base,      \* observer: the documents without the editor
    covered,   \* observer: every edit so far was backed up before it was made
    calls,     \* calls of the manual protocol so far
    writes     \* writes of other clients so far

editor == <<patches, backups, batch, todo, pc, call, outcome, attempts, version>>
vars == <<setting, editor, server, base, covered, calls, writes>>

Action == setting.action
Protocol == setting.protocol
UserBackups == setting.userBackups
Hidden == setting.hidden
MaxCalls == setting.maxCalls
MaxWrites == setting.maxWrites

\* The loops run through dictionaries in insertion order, that of `patches`.
IsNext(r) == r \in todo /\ \A q \in todo : r <= q

\* What the cluster stores when body is sent for a resource that has document d.
Stored(d, body) == IF Action = "update" THEN Merge(d, body) ELSE DropNulls(body)

\* The document of r with its patch applied.
Edited(r) == Stored(base[r], Named(patches[r]))

TypeOK ==
    /\ setting \in Settings
    /\ patches = [r \in Resource |-> patches[r]]
    /\ \A r \in Resource : IsPatch(patches[r])
    /\ backups = [r \in DOMAIN backups |-> backups[r]]
    /\ DOMAIN backups \subseteq Resource
    /\ \A r \in DOMAIN backups : IsPatch(backups[r])
    /\ batch \subseteq Resource
    /\ todo \subseteq Resource
    /\ pc \in {"idle", "backup", "apply", "sleep"}
    /\ call \in {"none", "enter", "update", "restore"}
    /\ outcome \in {"none", "returned", "raised"}
    /\ attempts \in 0..MaxAttempts
    /\ version \in {"none", "fresh", "stale"}
    /\ server = [r \in Resource |-> server[r]]
    /\ base = [r \in Resource |-> base[r]]
    /\ \A r \in Resource : IsDoc(server[r]) /\ IsDoc(base[r])
    /\ covered \in BOOLEAN
    /\ calls \in 0..MaxCalls
    /\ writes \in 0..MaxWrites

Init ==
    /\ setting \in Settings
    /\ server \in [Resource -> InitDocs]
    /\ base = server
    /\ patches \in [Resource -> Patches]
    /\ backups = [r \in {} |-> Empty]
    /\ batch = {}
    /\ todo = {}
    /\ pc = "idle"
    /\ call = "none"
    /\ outcome = "none"
    /\ attempts = 0
    /\ version = "none"
    /\ covered = TRUE
    /\ calls = 0
    /\ writes = 0

-------------------------------------------------------------------------------
(***************************************************************************)
(* The calls.  "enter" is update(backup_resources=True), "update" is       *)
(* update().  A with statement enters once, and leaves only if the         *)
(* __enter__ returned; the manual protocol makes any call at any time.     *)
(***************************************************************************)
MayCall(m) ==
    /\ pc = "idle"
    /\ \/ /\ Protocol = "with"
          /\ \/ m = "enter" /\ call = "none"
             \/ m = "restore" /\ call = "enter" /\ outcome = "returned"
          /\ UNCHANGED calls
       \/ /\ Protocol = "manual"
          /\ calls < MaxCalls
          /\ calls' = calls + 1

\* _apply_patches_sampler: the first attempt on the batch B.
Submit(B) ==
    /\ batch' = B
    /\ todo' = B
    /\ attempts' = 1
    /\ pc' = "apply"

Return ==
    /\ pc' = "idle"
    /\ outcome' = "returned"

Raise ==
    /\ pc' = "idle"
    /\ outcome' = "raised"
    /\ todo' = {}

Call(m) ==
    /\ MayCall(m)
    /\ call' = m
    /\ outcome' = "none"
    /\ version' = "none"
    /\ UNCHANGED <<patches, server, base, writes>>

\* update(backup_resources=True) reads the resources before it applies.
CallEnter ==
    /\ Call("enter")
    /\ ~UserBackups
    /\ batch' = {}
    /\ todo' = Resource
    /\ pc' = "backup"
    /\ covered' = (covered /\ server = base)
    /\ UNCHANGED <<backups, attempts>>

\* With user_backups it reads nothing: the caller kept the documents.
CallEnterUserBackups ==
    /\ Call("enter")
    /\ UserBackups
    /\ backups' = server
    /\ Submit(Resource)
    /\ covered' = (covered /\ server = base)

CallUpdate ==
    /\ Call("update")
    /\ Submit(Resource)
    /\ covered' = (covered /\ \A r \in Resource \ DOMAIN backups : Edited(r) = base[r])
    /\ UNCHANGED backups

CallRestore ==
    /\ Call("restore")
    /\ Submit(DOMAIN backups)
    /\ UNCHANGED <<backups, covered>>

-------------------------------------------------------------------------------
(***************************************************************************)
(* update(): the loop that prepares the backups.                           *)
(***************************************************************************)
BackingUp(r) == pc = "backup" /\ IsNext(r)

\* Bug: the resource joins the batch, its backup is not stored.
KeepNoBackup(r, b) == batch' = batch \union {r} /\ UNCHANGED backups

\* A backup is kept if it is not empty, or if the action is "replace".
KeepBackup(r, b) ==
    /\ backups' = [q \in DOMAIN backups \union {r} |-> IF q = r THEN b ELSE backups[q]]
    /\ batch' = batch \union {r}

BackupOne(r) ==
    LET b == Backup(server[r], patches[r])
    IN  /\ BackingUp(r)
        /\ r \notin Hidden
        /\ IF b # Empty \/ Action = "replace"
             THEN KeepBackup(r, b)
             ELSE UNCHANGED <<backups, batch>>
        /\ todo' = todo \ {r}
        /\ UNCHANGED <<patches, pc, call, outcome, attempts, version,
                       server, base, covered, calls, writes>>

\* A resource not found by name is looked up in a list; to_dict() of what the
\* list gives returns None, whose backup is None: "no diff".
SkipHidden(r) ==
    /\ BackingUp(r)
    /\ r \in Hidden \ WithNamespace
    /\ Action = "update"
    /\ todo' = todo \ {r}
    /\ UNCHANGED <<patches, backups, batch, pc, call, outcome, attempts, version,
                   server, base, covered, calls, writes>>

\* The read fails; or None["metadata"] is assigned to.
BackupRaises(r) ==
    /\ BackingUp(r)
    /\ Raise
    /\ UNCHANGED <<patches, backups, batch, call, attempts, version,
                   server, base, covered, calls, writes>>

BackupsDone ==
    /\ pc = "backup"
    /\ todo = {}
    /\ IF batch = {} THEN Return /\ UNCHANGED <<batch, todo, attempts>>
                     ELSE Submit(batch) /\ UNCHANGED outcome
    /\ UNCHANGED <<patches, backups, call, version, server, base, covered, calls, writes>>

-------------------------------------------------------------------------------
(***************************************************************************)
(* _apply_patches: the loop that sends the batch.  A request may fail      *)
(* before or after it took effect.                                         *)
(***************************************************************************)
Applying(r) == pc = "apply" /\ IsNext(r)

\* Bug: restore sends the patches again.
BodyOfPatch(r) == patches[r]

Body(r) == IF call = "restore" THEN backups[r] ELSE patches[r]

\* The name is written into the patch, or into the backup, that is kept.
NameBody(r) ==
    IF call = "restore"
      THEN backups' = [backups EXCEPT ![r] = Named(@)] /\ UNCHANGED patches
      ELSE patches' = [patches EXCEPT ![r] = Named(@)] /\ UNCHANGED backups

\* "replace" reads the resourceVersion that its PUT will carry.
ReadVersion(r) ==
    /\ Applying(r)
    /\ Action = "replace"
    /\ version = "none"
    /\ NameBody(r)
    /\ version' = "fresh"
    /\ UNCHANGED <<batch, todo, pc, call, outcome, attempts,
                   server, base, covered, calls, writes>>

MaySend(r) == Applying(r) /\ (Action = "replace" => version # "none")

Effect(r) ==
    /\ version # "stale"
    /\ server' = [server EXCEPT ![r] = Stored(@, Named(Body(r)))]

ApplyOne(r) ==
    /\ MaySend(r)
    /\ NameBody(r)
    /\ Effect(r)
    /\ todo' = todo \ {r}
    /\ version' = "none"
    /\ UNCHANGED <<batch, pc, call, outcome, attempts, base, covered, calls, writes>>

\* Bug: the error is logged, and the loop goes on with the next resource.
RequestForgotten(r) ==
    /\ MaySend(r)
    /\ NameBody(r)
    /\ Effect(r) \/ UNCHANGED server
    /\ todo' = todo \ {r}
    /\ version' = "none"
    /\ UNCHANGED <<batch, pc, call, outcome, attempts, base, covered, calls, writes>>

\* ConflictError, or one of the retriable errors of the cluster.
RequestRetriable(r) ==
    /\ MaySend(r)
    /\ NameBody(r)
    /\ Effect(r) \/ UNCHANGED server
    /\ pc' = "sleep"
    /\ version' = "none"
    /\ UNCHANGED <<batch, todo, call, outcome, attempts, base, covered, calls, writes>>

\* Any other error, of the request or of the read before it.
RequestRaises(r) ==
    /\ Applying(r)
    /\ NameBody(r)
    /\ (MaySend(r) /\ Effect(r)) \/ UNCHANGED server
    /\ Raise
    /\ UNCHANGED <<batch, call, attempts, version, base, covered, calls, writes>>

\* Bugs: attempts are not bounded; they are not counted; the batch goes on after
\* the resource whose request failed.
RetryForever ==
    /\ pc = "sleep"
    /\ attempts' = attempts + 1
    /\ todo' = batch
    /\ pc' = "apply"
    /\ UNCHANGED <<patches, backups, batch, call, outcome, version,
                   server, base, covered, calls, writes>>

RetryUncounted ==
    /\ pc = "sleep"
    /\ todo' = batch
    /\ pc' = "apply"
    /\ UNCHANGED <<patches, backups, batch, call, outcome, attempts, version,
                   server, base, covered, calls, writes>>

RetryTheRest ==
    /\ pc = "sleep"
    /\ attempts < MaxAttempts
    /\ attempts' = attempts + 1
    /\ todo' = {r \in todo : ~IsNext(r)}
    /\ pc' = "apply"
    /\ UNCHANGED <<patches, backups, batch, call, outcome, version,
                   server, base, covered, calls, writes>>

\* The sampler calls _apply_patches again: the batch starts from its beginning.
Retry ==
    /\ pc = "sleep"
    /\ attempts < MaxAttempts
    /\ attempts' = attempts + 1
    /\ todo' = batch
    /\ pc' = "apply"
    /\ UNCHANGED <<patches, backups, batch, call, outcome, version,
                   server, base, covered, calls, writes>>

\* The time is up: the last error is raised.
TimeoutExpired ==
    /\ pc = "sleep"
    /\ Raise
    /\ UNCHANGED <<patches, backups, batch, call, attempts, version,
                   server, base, covered, calls, writes>>

BatchDone ==
    /\ pc = "apply"
    /\ todo = {}
    /\ Return
    /\ UNCHANGED <<patches, backups, batch, todo, call, attempts, version,
                   server, base, covered, calls, writes>>

-------------------------------------------------------------------------------
(***************************************************************************)
(* Other clients: they write a section the patch does not name, or a field *)
(* it does not name of a section that is a dictionary with and without the *)
(* edit.  s and b are the document they leave, with and without the edit.  *)
(***************************************************************************)
OtherWrite(r, s, b) ==
    /\ writes < MaxWrites
    /\ writes' = writes + 1
    /\ server' = [server EXCEPT ![r] = s]
    /\ base' = [base EXCEPT ![r] = b]
    /\ version' = IF version = "fresh" /\ IsNext(r) THEN "stale" ELSE version
    /\ UNCHANGED <<patches, backups, batch, todo, pc, call, outcome, attempts,
                   covered, calls>>

OtherSetsSection(r, k, a) ==
    /\ k \notin DOMAIN patches[r] \union {Meta}
    /\ OtherWrite(r, SetKey(server[r], k, a), SetKey(base[r], k, a))

OtherSetsField(r, k, f, a) ==
    /\ k \in DOMAIN base[r] \cap DOMAIN server[r]
    /\ IsDict(base[r][k]) /\ IsDict(server[r][k])
    /\ k \in DOMAIN patches[r] =>
         IsDict(patches[r][k]) /\ f \notin DOMAIN patches[r][k]
    /\ OtherWrite(r, SetField(server[r], k, f, a), SetField(base[r], k, f, a))

-------------------------------------------------------------------------------
EditorStep ==
    /\ UNCHANGED setting
    /\ \/ BackupsDone \/ BatchDone \/ Retry \/ TimeoutExpired
       \/ \E r \in Resource :
            \/ BackupOne(r) \/ SkipHidden(r) \/ BackupRaises(r)
            \/ ReadVersion(r) \/ ApplyOne(r)
            \/ RequestRetriable(r) \/ RequestRaises(r)

CallerStep ==
    /\ UNCHANGED setting
    /\ CallEnter \/ CallEnterUserBackups \/ CallUpdate \/ CallRestore

OtherStep ==
    /\ UNCHANGED setting
    /\ \E r \in Resource, k \in Key, a \in Atom :
         \/ OtherSetsSection(r, k, a)
         \/ \E f \in Field : OtherSetsField(r, k, f, a)

Next == CallerStep \/ EditorStep \/ OtherStep

\* The editor runs to the end of a call: nothing it waits for can hang.
Spec == Init /\ [][Next]_vars /\ WF_vars(EditorStep)

-------------------------------------------------------------------------------
(***************************************************************************)
(* What the editor promises.  A PUT overwrites what other clients wrote    *)
(* since the document was read, so with "replace" the promises are about   *)
(* the executions without such writes.                                     *)
(***************************************************************************)
Quiet == Action = "replace" => writes = 0

Finished(m, how) == pc = "idle" /\ call = m /\ outcome = how

\* At every moment - in the middle of a batch, between two attempts, after an
\* error - the backups that are held take the cluster back to `base`, the writes
\* of other clients kept; a resource that has none is as it was.
Recoverable ==
    covered /\ Quiet =>
        \A r \in Resource :
            IF r \in DOMAIN backups
              THEN Stored(server[r], Named(backups[r])) = base[r]
              ELSE server[r] = base[r]

\* When __enter__ (or update with backups) returns, the patch of every resource that
\* is found by name is in force: those the diff left out had nothing to change.
EditsApplied ==
    Finished("enter", "returned") /\ covered /\ Quiet =>
        \A r \in Resource \ Hidden : server[r] = Edited(r)

\* When __exit__ (or restore) returns, nothing of the edits is left, and what
\* other clients wrote in the meantime is.
RestoredOnExit ==
    Finished("restore", "returned") /\ covered /\ Quiet => server = base

\* Every call ends: its retries are bounded by the sampler's timeout.
CallsEnd == pc # "idle" ~> pc = "idle"

-------------------------------------------------------------------------------
\* The with statement as a temporary edit of each resource (TemporaryEdit): by
\* PATCHes, or by PUTs of whole documents that the caller keeps, if nobody else
\* writes, since a PUT also undoes the writes of others.
Mapped == Protocol = "with" /\ (Action = "update" \/ (UserBackups /\ MaxWrites = 0))

Phase ==
    IF call = "none" THEN "before"
    ELSE IF outcome = "raised" THEN "failed"
    ELSE IF call = "enter" THEN IF pc = "idle" THEN "inside" ELSE "entering"
    ELSE IF pc = "idle" THEN "after" ELSE "leaving"

Abstract == INSTANCE TemporaryEdit WITH
    Thing  <- Resource,
    wanted <- {r \in Resource : Mapped /\ Edited(r) # base[r]},
    edited <- {r \in Resource : Mapped /\ server[r] # base[r]},
    phase  <- IF Mapped THEN Phase ELSE "before"

IsTemporaryEdit == Abstract!Spec
===============================================================================
