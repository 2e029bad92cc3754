# Verification of openshift-python-wrapper

TLA+ models of `ocp_resources`, the Python wrapper around the Kubernetes dynamic
client, with the TLC configurations that check them and proofs of their most
important properties. Paths and line numbers refer to the repository
(`src/ocp_resources/resource.py` is `resource.py` below). `PROJECT.json` maps
every definition to the lines it models and lists the hazards line by line.

## What the system is

A wrapper object stands for one named object of the API server. It keeps almost
no state of its own: its name, namespace, the body it will send (`res`) and the
timeouts. What is hard is elsewhere: every method is a *sequence* of requests,
other clients and controllers act between any two of them, a request can fail
or lose its answer, retries repeat what may already have been done, waits poll
a status that lags behind, and a SIGINT can run the whole teardown on top of
any of this.

### Inventory

| Component | State | Operations | Hard behaviour | What makes it correct | Modelled |
|---|---|---|---|---|---|
| `Resource` lifecycle (`resource.py:583-892`) | the object on the cluster; the process's SIGINT handler | `deploy`, `create`, `wait`, `clean_up`, `delete`, `wait_deleted`, `_sigint_handler` | a handler between any two steps, and on top of another; lost answers; objects of other clients with the same name | a with statement leaves nothing behind unless it says so; deletes only its own; ends | `ResourceLifecycle` |
| `ResourceEditor` (`resource.py:1408-1620`) | `_patches`, `_backups` | `update`, `restore`, `__enter__`, `__exit__` | a batch of requests that is retried as a whole, other writers, absent keys and nulls | the edits are in force inside, undone after, recoverable at every moment | `DocPatch`, `ResourceEditor`, `TemporaryEdit` |
| Resource bodies (143 classes, `resource.py:537-581`) | `res`, `kind_dict`, the attributes | constructor, `_base_body`, `to_dict` | conditions on arguments, sections that replace others, a second `to_dict` | what is given is sent, nothing stale is, a document is sent without the arguments, but for listed exceptions | `ResourceBody`, `ClassTable`, `Classes...` |
| `DataVolume` (`datavolume.py:205-350`) | two cluster objects of one name, DataVolume and PVC | `wait`, `wait_for_dv_success`, `delete`, `wait_deleted` | CDI garbage-collects the DataVolume and disowns the PVC while the program waits or deletes | a wait that returns means the import succeeded; no PVC is left | `DataVolume` |
| Scaling (`deployment.py`, `machine_set.py`, `daemonset.py`) | replicas in spec and status | `scale_replicas`, `wait_for_replicas`, `wait_until_deployed` | two reads compared; old status; zero replicas | a wait that returns tells the truth of the pods | `Scaling` |
| `VirtualMachine`, `VirtualMachineInstance` | VM, VMI, launcher pods | `start`, `stop`, `restart`, `pause`, `unpause` | the pod looked up after the request; migrations; conditions behind libvirt | the wait ends in the state asked for | `VirtualMachine` |
| Node network (`node_network_configuration_policy.py`) | desired state, port backups | `deploy`, `clean_up`, `wait_for_status_success` | conditions from before an edit; a node that fails | interfaces are absent before the policy is deleted | `NodeNetwork` |
| `class_generator --update-schema` (`class_generator.py:40-240`) | version, schema, mapping and not-a-kind files, temporary directories | `update_kind_schema`, `map_kind_to_namespaced` | a kill between the files or in the middle of one; passing errors recorded for good; a cluster that changes | an update that completes maps every kind that was not refused, and has its file; definitions of a kind are of one cluster | `SchemaUpdate` |
| Status waits elsewhere (`wait_for_condition` and relatives) | none | poll `exists`, then a field | a status from before the caller's change | - | not modelled |
| Listing, API versions, client (`resource.py:57-291, 960-1003`) | none | `get`, `KubeAPIVersion`, `get_client` | a retry around a generator | - | not modelled |
| Reuse and skip variables (`utils/utils.py`) | environment | `skip_existing_resource_creation_teardown` | omitted names and namespaces | - | the decision is part of the settings of two modules |
| `Pod.execute` (`pod.py:466-527`) | an exec stream | read channels until an exit status | a closed stream | - | not modelled |
| `class_generator`, generation of classes | none | `class_generator`, `main` | - | - | not modelled |
| Tests, examples, docs, scripts | - | - | - | - | read as evidence |

How they interact: every class inherits the lifecycle, which sends the body that
`to_dict` makes; `ResourceEditor` uses `Resource.update`, `update_replace`,
`instance` and `retry_cluster_exceptions`; `DataVolume` overrides three methods
of the lifecycle and calls the inherited ones; the network policy calls a
`ResourceEditor` from its own `clean_up`, and its own `__exit__` from `deploy`;
the VM waits go through the VMI and its pod. There are no locks and no messages:
components share the API server and the single SIGINT handler of the process.
`class_generator` is a program of its own; it writes the classes that the table
of `ResourceBody` describes.

## The modules

| Module | What it is |
|---|---|
| `DocPatch` | the documents, `_create_backup`, the name that `_apply_patches` adds, and what the API server does with a merge patch and with a PUT |
| `ResourceEditor` | update and restore with their loops, retries and failures, over a cluster that others write to |
| `TemporaryEdit` | the abstract specification: a with statement that edits and puts back |
| `ResourceLifecycle` | `__enter__`, body, `__exit__` and nested SIGINT handlers as a stack of frames |
| `ClassTable`, `ClassesKubernetes`, `ClassesVirtualization`, `ClassesOpenShift`, `ClassesOperators` | what the constructor and `to_dict` of 143 classes say of their arguments |
| `ResourceBody` | `_base_body` and `to_dict` over any such table |
| `DataVolume` | waits and teardown of a DataVolume and its PVC, with CDI |
| `Scaling` | the waits for replicas, with the controllers and their reports |
| `SchemaUpdate` | runs of `--update-schema` and the files they keep |
| `VirtualMachine` | the calls and waits of VM and VMI, with KubeVirt |
| `NodeNetwork` | a policy with nmstate on several nodes |
| `MC...` | the settings, documents, clusters and tables of the TLC instances |
| `...Proofs` | theorems |

`ResourceEditor` extends `DocPatch` and instantiates `TemporaryEdit` for the
refinement; `ResourceEditorProofs` holds the lemmas of both.
`MCResourceBody` joins the four tables. The other components stand alone: what
they share, the API server, each of them models as far as it sees it.

Most modules have a variable `setting` that no step changes: one record of what
the caller chose and of what the environment may do. A run then covers many ways
to use a component at once, a property names the settings it is about, and a
theorem is about all of them.

### DocPatch and ResourceEditor

A document is two dictionaries deep, sections holding fields: the smallest depth
at which `_create_backup`'s recursion takes each branch (both dictionaries, a
dictionary against a scalar, an absent key, a scalar against a scalar). Values
below are atoms, since the code only compares them. Every document has
`metadata`, and documents hold no nulls, patches may. `Merge` is JSON merge
patch and `DropNulls` the PUT: both are the API server's, used by
`Resource.update` and `update_replace`.

In `ResourceEditor` the variables `patches` and `backups` are the fields
`_patches` and `_backups`; `pc`, `todo` and `batch` say where a loop is. One
action is one request with what the program does with its answer: `BackupOne`
reads and backs up one resource, `ApplyOne` patches one, `RequestRetriable` and
`RequestRaises` are requests that fail - before *or after* they took effect.
`Retry` starts the batch from its beginning, because the sampler calls
`_apply_patches` again; `TimeoutExpired` gives up. With action `replace` a
resourceVersion is read first, and a write in between makes it `stale`.
`NameBody` is the code's write into the patch (or the stored backup) itself:
`_apply_patches` gives it a metadata dictionary.

`base` is an observer: the documents as they would be had the editor never run;
other clients write to `server` and `base` alike. They write only where the
patch does not, since a client that writes the very field that is being edited
has no outcome anybody would call right. `covered` observes whether every edit
was backed up first: the protocol that the caller chooses can make it false
(`update()` without a backup, or a second backup of edited documents).

### ResourceLifecycle

The program is a stack: frame 0 is the with statement, every frame above it a
SIGINT handler, which calls `__exit__` and then `sys.exit`. `at[i]` is the place
of frame `i`; `exc` is an exception on its way to the frame on top. A SIGINT is
possible wherever the top frame is, also in the middle of another handler and
after the with statement, because the handler is never removed.
An exception that a handler raises comes up inside the request it interrupted:
it may be taken for an error of that request and be retried (`Swallow`), be
taken for "not found" (`TakeForNotFound`) or unwind (`Unwind`). `NotFoundError` is also what `exists` takes for an answer: it ends the interrupted
`delete` or `wait_deleted`, and `deploy` goes on to create. The POST is a
request of its own (`request`), carried out when the server gets to it, also
when nobody waits for it any more. DELETE marks the object (`leaving`), and it
is gone when its finalizers are done. An object of another client is told apart
by the model only; the API addresses it by name.

### DataVolume

`dv` and `pvc` are the phases of the two objects. CDI's actions (external)
create the PVC, import, end in `Succeeded` or `Failed`, and may collect the
DataVolume afterwards, which disowns the PVC. `pc` walks through the real
sequence of polls (`none_pending`, `status` or `sample`, `bound`) and of the
teardown, where `DataVolume.delete` and `Resource.delete` each look for the
object again (`Choose`, `Exists`, `GetInstance`, `Delete`). A sampler that meets
an error polls on, so its only effects are a sample and an expiry.

### ResourceBody and the table of classes

An entry of the table is what one class says of its arguments, in sets of their
names: those `to_dict` requires, writes always, writes `if self.x:` or
`if self.x is not None:`, writes only within the condition of another, writes
over another, or accepts and never writes; what the constructor makes of a missing
one (`defaults`) and `to_dict` of an empty one (`filled`); which arguments the
*constructor* writes, into an object of the caller's (`fixed`, `into`), and which
`to_dict` writes into such an object (`into` alone); whether the class is
namespaced, which sources (`args`, `kind_dict`, `yaml_file`) it takes, and for which
of them it tests and writes at all. A value is `none`, `zero` (given, but false in a
condition) or `value`. Where in the body an argument goes is left out: what a caller
can lose is decided by these conditions.

`ResourceBody` gives the entries their meaning. `Init` is the constructor, `ToDict`
and its four ways to raise are `to_dict`, `Assign` is a caller that changes an
attribute before the body is made, or made again, also after a `to_dict` that raised.
The beginning of `to_dict` is that of `NamespacedResource` and `_base_body`: a new
dictionary for arguments, the caller's own for `kind_dict`, the file loaded anew and
without its resourceVersion for `yaml_file`; the namespace is taken from the document,
and without one anywhere the call raises (`ToDictNoNamespace`). `held` is what has been
written into an object of the caller's, which stays there for the next body.

Some classes do not keep the three properties. Each of their arguments and sources is
listed in `MCResourceBody`, and TLC evaluates that the lists hold what the table says
and nothing else (`NoOtherIsLost`, `NoOtherIsStale`, `NoOtherIsAltered`):

| Class | What | List |
|---|---|---|
| `Task` | builds its spec in a dictionary that is not in the body | Lost |
| `CronJob` | never writes `starting_deadline_seconds` | Lost |
| `Secret`, `PersistentVolumeClaim`, `MachineHealthCheck`, `MultiNetworkPolicy`, `MachineSet` | replace a section that was written before | Lost |
| `Layer2UserDefinedNetwork`, `Layer3UserDefinedNetwork` | accept the parent's `layer2`, `layer3`, and write their own over it | Lost |
| `Role` | keeps the first body: its label and annotations are those of the first call, and its tests and rules apply to documents | Lost, Stale, Altering |
| `OVNOverlayNetworkAttachmentDefinition` | writes `vlan` and `mtu` into the caller's `config` | Stale |
| `Plan` | writes its hooks into the caller's virtual machines, in the constructor; hooks assigned later are not sent | Lost, Stale |
| `ClusterClaim`, `OCSInitialization` | write their arguments into the caller's `kind_dict` | Altering |

One argument (`focus`) has a value of its own, all others share one: the conditions
relate at most two arguments, so every case of them occurs. With a document the
arguments are all alike, since they are not to matter.

### Scaling

`old`, `starting` and `ready` count the pods or machines, `status` is what the
controller reported last. The wait only sees `status` and, for a Deployment,
`spec.replicas`. `MachineSet.wait_for_replicas` reads twice: `ReadReady` in the
sampler, `ReadDesired` outside of it, where an error is raised and not retried.
The controllers are external: a Deployment's rolling update with `maxSurge` 1 and
`maxUnavailable` 0.

### SchemaUpdate

A run is a sequence of file writes, each an action, in the order of the code: the
version first. `schemas` has one file for each *kind*, as the code copies by file name:
definitions of several groups with one kind share it, and which of them it holds is
left out. `staged` is the temporary directory of each version, which no run empties:
`Convert` writes the files of this cluster's kinds into it, and `Copy` copies what is
there, all of it for a newer cluster, otherwise what has no file yet. `Answer` and
`NoAnswer` are threads that finish in any order. `Exit` is a command or a copy that
fails, `Crash` the end of the process anywhere. Both may leave a file torn, in the
directory or in the repository (`CutShort`), where it counts as a file that is there; a
torn version file cannot be parsed by the next `Compare`, a torn mapping reads as an
empty one. `cluster` is what the client is logged in to, which may change between runs,
or (setting `upgrades`) during one.

What the code does not promise, and so the properties do not claim:

- A definition that was refused stays in the list for good. When a later cluster
  prefers it, its kind keeps the old definition, or is not mapped (`d \in notKind` in
  `Complete` and `Current`).
- A file that is torn or old is replaced by an update from a newer cluster only.
- Kinds a newer cluster no longer has keep their files and definitions.

### VirtualMachine

`phase`, `pods`, `completed`, `migration` and `paused` are the machine's real
state, `ready` and `condition` what KubeVirt last reported of it. A wait of the
program is a path through `pc`, one request per step: `uid`, `list`, `state` are
the three requests of `virt_launcher_pod`. The further lookups with which `virsh_cmd`
finds libvirt's socket are one step with the command (`ReadDomstate`, `AskedAgain`): they
choose a pod as the first one does, and one that is not there or does not answer ends the
wait with an error. `hasty` and `lagging` observe the
programs to which the waits promise less: one that did not wait for an earlier
call, or waited with a call that does not look at `status.ready`.

### NodeNetwork

`ip` and `bridge` are the state of the nodes, `todo` the nodes that nmstate has
not configured for the last edit of the policy, `available` the condition that
the program polls. `Absent` is `_absent_interface` with its ResourceEditor as one
request, since `update()` of one resource is one patch.

## What the runs check

| Run | Question | States |
|---|---|---|
| `editor_uses` | is a with statement a temporary edit, with lost answers, retries, errors and another writer? do three calls in any order, and PUTs of whole documents, keep `Recoverable`, `EditsApplied`, `RestoredOnExit`, `CallsEnd`? refinement `IsTemporaryEdit`, of PATCHes and of PUTs | 445 913 |
| `lifecycle_uses` | reuse, waiting, three nested SIGINTs, other clients: `NoLeftover`, `DeletesOnlyItsOwn`, `Ends` | 332 280 |
| `resource_bodies` | 143 classes, three sources, documents with and without a namespace, an assignment before or between two `to_dict`: `GivenIsSent`, `BodyIsCurrent`, `DocumentIsSent` | 636 259 |
| `datavolume_use` | two waits and the teardown, CDI collecting, another client deleting: `SuccessMeansImported`, `NoPvcLeft`, `Ends` | 3 254 |
| `scaling_waits` | create, scale, roll out or leave alone up to 3 replicas: `DoneMeansReady`, `DoneMeansNone`, `NotMissed` | 5 860 |
| `schema_updates` | any number of updates against three clusters, killed, failing, with a client that changes clusters, or undisturbed: `Complete`, `Current`, `OneCluster`, `RefusedRightly`, `NoKindLost` | 4 120 566 |
| `machine_calls` | three calls in any order on a machine that may migrate: `StartedRuns`, `StoppedIsGone`, `RestartedIsNew`, `PausedIsPaused`, `LauncherRuns`, `Answered` | 226 993 |
| `network_policies` | a policy on two nodes, one of which may fail, in all 128 settings: `BodyHasBridge`, `NoPolicyLeft`, `NodesRestored`, `Ends` | 4 888 |
| `editor_replace_loses`, `datavolume_gone`, `scaling_machine_set`, `machine_launcher` | what the documentation says and the code does not do (below) | - |

`CHECK_DEADLOCK FALSE` stands where a program ends: when it is over and the
cluster is at rest, nothing more happens.

**Bounds.** Two resources are enough for what a batch can do wrong: the first
done and the second not, or the reverse after a retry. `MaxAttempts = 2` gives
one full retry after a request whose effect is unknown; a third attempt starts
from a state the second could start from. Three calls allow enter, update,
restore and each of their wrong orders, and stop, start, stop of a machine; one
foreign write is put at every point. For SIGINTs, two reach a handler on top of
a handler, three a handler whose interrupted handler is itself on top of one.
Two DataVolume waits reach a wait that starts after the collection. Two calls of
`to_dict` reach a body made over another. Three replicas allow growing and
shrinking by more than one. The clusters of `schema_updates` have a kind of two
groups, one whose preferred version changes, so that a definition that was refused
comes to be preferred, and a definition of no kind; two of them are of one version
and share a temporary directory. The number of runs is not bounded, since nothing
counts them. Kills, failures and a changing client are settings of their own; only
the theorems cover them together. Two nodes are one that
fails and one that was done before it. For the theorems below these bounds do
not matter: they hold for every value.

**Fairness.** The programs run: weak fairness of the steps of the editor, of the
lifecycle's own steps, of the waits and the deletion, of an update that was
started. This is justified because each step is an HTTP request, a command or a
poll that ends with an answer or an error, and every poll has a timeout, which is
an alternative the step has. Where a property is about a timeout that is long
enough (`patient`), the controllers are fair too (`Scaling`, `VirtualMachine`,
`NodeNetwork`), which is what "long enough" means. Nothing is assumed of other
clients, of SIGINTs or of the body of a with statement, which may take for ever;
only `NodeNetwork`'s body ends.

### Where documentation and code differ

Shown by a run:

- `editor_replace_loses`: with `replace` the backup is the difference only, and
  is PUT as the whole document.
- `datavolume_gone`: `wait_deleted` ignores that its wait for the DataVolume
  expired, and returns what the wait for the PVC does.
- `scaling_machine_set`: `MachineSet.scale_replicas` returns `True` before
  anything was scaled: it compares the old `readyReplicas` with the old `replicas`.
- `machine_launcher`: after a migration that failed, `virt_launcher_pod` is the
  target pod, which has ended.

Visible in a model, where a property leaves the case out:

- An `__enter__` that fails after some of its requests took effect leaves them:
  patches of a `ResourceEditor`, an object whose POST succeeded. Python calls no
  `__exit__` for it. (`IsTemporaryEdit` ends in `failed`; `NoLeftover` is about
  statements that were entered.)
- A resource that is not found by name gets `None` for an original, and its patch
  is skipped as unchanged (`SkipHidden`).
- The exceptions of `resource_bodies`, in the table under ResourceBody.
- A number or flag that is 0 or False is dropped wherever it is tested for truth,
  in some thirty classes, and refused where it is required
  (`SecurityContextConstraints`). `Lease` and `Route` raise `KeyError` for
  arguments they accept without the one that creates the section.
- A Deployment whose template was changed is reported as rolled out while the
  status is still that of the old pods; a MachineSet scaled to 0 is never ready.
- A command that fails once while the schema is updated puts a kind on the list
  of those that are none, for good. An update that is killed after it wrote the
  version is not repeated: the next takes the cluster for an old one, and a schema file
  that was torn stays so until a newer cluster. An empty version file ends every later
  update. A definition that one cluster does not prefer is not asked about again when
  another does.
- After `restart`, `pause` or `unpause` the machine's `status.ready` may be from
  before, and mislead the waits of the next `stop` and `start`; `restart` may find
  the new pod and wait for its deletion until the timeout, whose outcome it does
  not look at; another condition with a reason hides `PausedByUser`.
- A policy's `clean_up` may be content with the `Available` condition from before
  its edit; static addresses of the first node's ports are restored on all nodes;
  with `SKIP_RESOURCE_TEARDOWN` the policy stays, but its interfaces are removed.

## What is proved

TLAPS checks the following for all constants that satisfy the modules' named
assumptions (`DocAssumption`, `EditorAssumption`, `LifecycleAssumption`,
`DataVolumeAssumption`, `ScalingAssumption`, `SchemaAssumption`,
`MachineAssumption`, `NetworkAssumption`), with no bound on resources, documents,
attempts, signals, waits, classes, replicas, definitions, clusters, calls,
instances or nodes. Every invariant that a run checks is proved but `GivenIsSent`, each for at least
the settings of that run.

**Documents** (the lemmas at the head of `ResourceEditorProofs`). `RoundTrip`: merging the backup of `p` into the
patched document, *or into the unpatched one*, gives the original. The second
half is what makes a restore safe when it is unknown which requests of a batch
took effect. `MergeIdempotent` does the same for a retried patch, `NoDiff` says
that an empty backup means no change, `SetSection` and `SetFieldOfDoc` that
writes of other clients commute with patch and backup.

**Editor** (`ResourceEditorProofs`). `TypeCorrect` for both actions and both
protocols. `AlwaysRecoverable`, `EditsAreApplied` and `EditsAreUndone` hold for
the two kinds of editor whose backups are enough (`SafeSettings`): one that PATCHes
and takes its own backups, in a with statement or by calls in any order, and one
that PUTs whole documents that the caller has kept. With `replace` and its own
backups the last is false (`editor_replace_loses`).

None of the three is inductive. For PATCHes `EditInv` adds what makes them so: every
backup is the one the untouched document would give, however late it is
looked at (`BackupsRight`); every document is in one of two states, untouched or
edited (`TwoStates`); what `update` left out has nothing to change (`LeftOut`);
what the loop has passed has arrived (`LoopDone`). It holds as long as the caller
edits nothing without a backup (`CoveredInv`), which a with statement cannot do
(`Control`). A foreign write keeps all of it by the commuting lemmas. For PUTs
`PutInv` has two states too, but its documents are stored as they are
(`DocIsStored`), and only as long as nobody else writes: a PUT takes back what
another client wrote, and the properties say so.

`WithIsTemporaryEdit` is the refinement: if the with statements that PATCH find
their resources by name (`FoundSettings`), every step is a step of `TemporaryEdit`
or a stutter. It says so of the with statements that are `Mapped`: those that PATCH, and
those that PUT whole documents while nobody else writes (`PutMaps`, from `PutInv`);
others are mapped to a statement that is never entered. For a write of another client that needs the converse of the commuting
lemmas: outside a patch nothing can be written that hides what the patch changes
(`SetSectionReveals`, `SetFieldReveals`).

**Lifecycle** (`ResourceLifecycleProofs`). `TypeCorrect`: the stack stays within
the signals. `LeavesNothing` (`NoLeftover`), for every setting and every place
of the SIGINTs. It needs `Position` (the place of the with statement tells what
became of its POST, so that once entered no POST is outstanding), `TornDown`
(`SystemExit` and `NotFoundError` only leave a handler when the object has been
seen to be gone) and `EndedClean`. `DeletesOwn` (`DeletesOnlyItsOwn`) assumes
`Alone`: no reuse, no foreign object created later, SIGINTs in body and
teardown only. Without the last, the property is false: after an `__enter__`
that failed because the name was taken, the handler is still installed.

**DataVolume** (`DataVolumeProofs`). `TypeCorrect`; `WaitsForImport`
(`SuccessMeansImported`) from `Imports`: while a wait runs, a DataVolume that is
gone or going was either imported or deleted by somebody else; `DeletesPvc`
(`NoPvcLeft`) from `Deletion`, which follows the PVC to its deletion through
both lookups, assuming `NoRace`: CDI does not collect during the teardown. With
that race the PVC is left: the first lookup finds the DataVolume, the second
finds nothing to delete.

**Bodies** (`ResourceBodyProofs`). `BodiesAreCurrent` and `DocumentsAreSent`: the
properties for *any* table of classes, and any number of calls and assignments, if the
exceptions include the arguments and sources whose entries have a certain form
(`StickyForms`: written into the caller's object, or not by every call of a class that
keeps its body; `MeddlingForms`: tested or written in spite of a document). The first
rests on `Writes`: the body is what some call wrote with what was in the caller's object
by then, and the arguments that may be in it are known. The second rests on `Untouched`:
a document is based anew by every call, and nothing but its namespace makes it raise.
`GivenIsSent` has no theorem, since for any table it would say what the table says; TLC
checks it of the 143 classes.

**Scaling** (`ScalingProofs`). `TypeCorrect`; `DoneIsReady` (`DoneMeansReady`) and
`DoneIsNone` (`DoneMeansNone`), for any number of replicas, reports of any age and
all `TruthfulSettings`. What is inductive is how an old report bounds the present.
A report may be of more ready pods than there are only while there are enough
(`NotBehind`), which holds through a rollout because no old pod is removed before a
new one is ready. What is not scaled only grows (`Unscaled`), and a Deployment that
is emptied is reported to have no fewer pods than it has (`Shrinking`).
`TruthfulSettings` leaves out what is false: scaled MachineSets
(`scaling_machine_set`), and a Deployment that is scaled before its first pods were
reported and then waited for to be empty, where the report may be of no pods yet.

**Schema** (`SchemaUpdateProofs`). All five properties and `TypeCorrect`, for any
clusters, definitions, kinds and number of runs, with kills, failures and upgrades in one
execution. `UpdatesComplete` and `UpdatesAreCurrent` need what is known at each place of
a run: what it asks about and finds is of the cluster it fetched from (`OfTheFetched`);
each definition of a kind is found, still asked about, refused, or its kind is mapped
(`Covered`), and once the mapping is written it is mapped (`Mapped`); the files of its
kinds are in the directory of the version (`Converted`) and then in the repository
(`InPlace`), whatever was in either; without kills and failures none is torn (`Whole`).
`OnlyUnlistedRefused` (`RefusedRightly`) needs `Refusals`, that what a run is about to
refuse is not listed by a cluster it asked.

**Virtual machine** (`VirtualMachineProofs`). All six theorems are for every
setting. `TypeCorrect` needs `Counted` (every VMI but a first one was asked for by a
call, which bounds `gen`), and with `Pods`, which says where the domain is in each
state of a migration, gives `LauncherHasNotEnded` (`LauncherRuns`).
`StopTellsTheTruth` (`StoppedIsGone`) needs `Stopped`: while stop waits the machine
is not to run, so that a VMI that is gone stays gone. `StartTellsTheTruth`
(`StartedRuns`) needs `Started`: as long as every call waited for `status.ready`,
the report is right when a call begins, so that a report that changes can only be
of what the call did. `RestartMakesANewOne` and `PauseTellsTheTruth` need `Settled`,
what each call finds and leaves when all of them are waited for and KubeVirt is in
time: restart sees a pod of the old VMI or of a later one, and the pod of the old
one goes only with it (`Restarted`); the VMI stays where it is while its conditions
catch up with libvirt (`Paused`). These invariants were checked by TLC before they
were proved, with up to four calls.

**Node network** (`NodeNetworkProofs`). `TypeCorrect`, `BridgeIsThere`,
`PoliciesAreRemoved`, `NodesAreRestored`, for any nodes and all settings. `Up` and
`Absented` relate the condition to the nodes: `unknown` means that exactly those
in `todo` are not done, `true` that all are. `Failures` excludes that the removal
fails too when the deployment used up the only failure.

**Only model-checked.** Liveness (`CallsEnd`, `Ends`, `NotMissed`, `Answered`),
which is out of the prover's reach, since it needs fairness and `ENABLED`; and `GivenIsSent` of the 143 classes, with the table itself, which TLC evaluates. That documents are two dictionaries deep is a modelling
choice and no proof about any depth: an induction over documents is out of reach
too.

## Not modelled, and why

- Where in a body an argument is written, and its type: data copying.
- Log output, message texts, and what `get_client` reads from the environment.
- Writes of other clients to the very fields being edited; see above.
- `replace` with a resource not found by name: `_apply_patches` reads the
  resourceVersion before its PUT, and that read fails.
- SIGINTs during a `ResourceEditor`: it installs no handler of its own. Several
  with statements at once, of which the last one entered owns the handler.
- Identity of objects (uid): the code addresses by name only; the owner that
  `object` holds, and the observer `foreign`, stand for what a uid would tell.
- `wait_for_condition` and the other waits for one field: nothing in this code
  changes what they wait for.
- `DataVolume`'s body, `NodeMaintenance` (whose constructor raises), classes
  without a `to_dict` of their own, and `NodeNetworkConfigurationPolicy.apply`
  and `NodeNetworkState.apply`, each one update of a document read before.
- `Pod.execute`, `KubeAPIVersion`, `get`, `hash_resource_dict`, the match of the
  two environment variables: functions of their inputs, or one request.
- The generation of classes from a schema: text processing.

## Left to do

1. A composition of several with statements over one SIGINT handler, with
   `ProjectRequest`, which deploys one kind and cleans up another.
2. `PodExec`, under the pause waits of `VirtualMachine`.
