------------------------------ MODULE SchemaUpdate ------------------------------
(***************************************************************************)
(* class-generator --update-schema, run again and again against one        *)
(* cluster or another. It keeps four things in the repository: the version *)
(* of the cluster it last updated from, the schema files, one of each      *)
(* kind, the mapping from a kind to its definitions, and the list of       *)
(* definitions that are none of a kind; and, in the directory for          *)
(* temporary files, the schema files it made for each version. Each is     *)
(* written at another time, and nothing is undone when a run ends early.   *)
(* The definitions come from the cluster's OpenAPI document; whether one   *)
(* is a kind, the cluster's command line client is asked for each in a     *)
(* thread of its own.                                                      *)
(***************************************************************************)
EXTENDS Naturals, FiniteSets

CONSTANTS
  Definition,   \* definitions with a group, version and kind
  Kind,
  KindOf,       \* the kind of a definition
  Cluster,
  VersionOf,    \* a cluster's version, a number greater than 0
  Served,       \* the definitions in a cluster's OpenAPI document
  Listed,       \* those that the client lists: of a kind, and in the preferred version
  Settings,     \* what may disturb an update, see Setting
  Torn,         \* a file that was opened for writing, and not written to its end
  None          \* no cluster

\*   crashes   Ctrl-C or a killed process
\*   failures  a request to the cluster, or a command, fails
\*   upgrades  the client may come to talk to another cluster, or to the same one
\*             upgraded, while an update is under way
Setting == [crashes : BOOLEAN, failures : BOOLEAN, upgrades : BOOLEAN]

ASSUME SchemaAssumption ==
  /\ KindOf \in [Definition -> Kind]
  /\ VersionOf \in [Cluster -> Nat \ {0}]
  /\ Served \in [Cluster -> SUBSET Definition]
  /\ Listed \in [Cluster -> SUBSET Definition] /\ \A c \in Cluster : Listed[c] \subseteq Served[c]
  /\ Settings \subseteq Setting
  /\ Torn \notin Nat \cup Cluster /\ None \notin Cluster \cup {Torn}

Version == {0} \cup {VersionOf[c] : c \in Cluster}
\* What can be in the file of a kind: the definition of a cluster's document, or of one
\* of several of the same kind in it.
Files == [Kind -> Cluster \cup {None, Torn}]

VARIABLES
  setting,
  cluster,    \* the one the client talks to
  version,    \* __cluster_version__.txt
  schemas,    \* of each kind, the cluster its file is from
  mapping,    \* __resources-mappings.json: pairs <<definition, cluster it is from>>
  notKind,    \* __not-kind.txt
  staged,     \* tmp_schema_dir of each version, which no run empties
  pc,
  fetched,    \* the cluster that the OpenAPI document is from
  target,     \* the version that was read after it
  newer,      \* newer_version
  pending,    \* definitions whose future is not done
  found,      \* _temp_resources_mappings
  refused,    \* what this run adds to not_kind_list
  asked       \* clusters whose document was ever fetched; only properties read it

disk == <<version, schemas, mapping, notKind, staged>>
run == <<fetched, target, newer, pending, found, refused>>
vars == <<setting, cluster, disk, pc, run, asked>>

Resting == pc \in {"idle", "done"}

TypeOK ==
  /\ setting \in Settings
  /\ cluster \in Cluster /\ fetched \in Cluster
  /\ version \in Version \cup {Torn} /\ target \in Version
  /\ schemas \in Files /\ staged \in [Version -> Files]
  /\ mapping \in [Kind -> SUBSET (Definition \X Cluster)]
  /\ notKind \subseteq Definition
  /\ pc \in {"idle", "fetched", "version", "convert", "copy", "ask", "not_kind", "done"}
  /\ newer \in BOOLEAN /\ asked \subseteq Cluster
  /\ pending \subseteq Definition /\ refused \subseteq Definition
  /\ found \subseteq Definition \X Cluster

\* A checkout before its first update.
Init ==
  /\ setting \in Settings
  /\ cluster \in Cluster /\ fetched = cluster
  /\ version = 0 /\ target = 0
  /\ schemas = [k \in Kind |-> None]
  /\ mapping = [k \in Kind |-> {}]
  /\ notKind = {}
  /\ staged = [v \in Version |-> [k \in Kind |-> None]]
  /\ pc = "idle"
  /\ newer = FALSE /\ asked = {}
  /\ pending = {} /\ found = {} /\ refused = {}

-------------------------------------------------------------------------------
\* The user logs in to another cluster, between two updates.
Login(c) ==
  /\ Resting \/ setting.upgrades
  /\ c # cluster /\ cluster' = c
  /\ UNCHANGED <<setting, disk, pc, run, asked>>

\* requests.get, the first thing that is kept.
Fetch ==
  /\ Resting
  /\ fetched' = cluster
  /\ pc' = "fetched"
  /\ newer' = FALSE
  /\ asked' = asked \cup {cluster}
  /\ pending' = {} /\ found' = {} /\ refused' = {}
  /\ UNCHANGED <<setting, cluster, disk, target>>

\* The recorded version is read, then the server's is asked for, and the two compared.
\* An empty file is no version, and an error.
Compare ==
  /\ pc = "fetched"
  /\ target' = VersionOf[cluster]
  /\ newer' = (version # Torn /\ VersionOf[cluster] > version)
  /\ pc' = IF version = Torn THEN "idle" ELSE IF newer' THEN "version" ELSE "convert"
  /\ UNCHANGED <<setting, cluster, disk, fetched, pending, found, refused, asked>>

\* The new version is recorded before anything is updated.
WriteVersion ==
  /\ pc = "version"
  /\ version' = target
  /\ pc' = "convert"
  /\ UNCHANGED <<setting, cluster, schemas, mapping, notKind, staged, run, asked>>

\* Files that are written one after the other, all of them or not: some are written,
\* and one that was opened - or several, if a failure does not stop the rest - is torn.
Over(old, new, files) == [k \in Kind |-> IF k \in files THEN new[k] ELSE old[k]]
CutShort(old, new, files, several) ==
  {[k \in Kind |-> IF k \in torn THEN Torn ELSE Over(old, new, done)[k]] :
     done \in SUBSET files,
     torn \in {t \in SUBSET files : several \/ Cardinality(t) <= 1}}

\* openapi2jsonschema writes the file of each kind in the document. The directory is that
\* of the version, and keeps what earlier runs wrote to it.
Generated == {KindOf[d] : d \in Served[fetched]}
Fresh == [k \in Kind |-> fetched]

Convert ==
  /\ pc = "convert"
  /\ staged' = [staged EXCEPT ![target] = Over(@, Fresh, Generated)]
  /\ pc' = "copy"
  /\ UNCHANGED <<setting, cluster, version, schemas, mapping, notKind, run, asked>>

\* Bug: only files that are not there are copied.
CopiedMissing == {k \in Kind : staged[target][k] # None /\ schemas[k] = None}
\* The files that are copied, of those in the directory: all of them if the cluster is
\* newer, otherwise those there is no file of that name for, whatever is in it.
Copied == {k \in Kind : staged[target][k] # None /\ (newer \/ schemas[k] = None)}

\* Bugs: kinds that are mapped are always skipped; without a newer cluster nothing is asked.
AskedOfUnmapped == {d \in Served[fetched] \ notKind : mapping[KindOf[d]] = {}}
AskedIfNewer == {d \in Served[fetched] \ notKind : newer}
\* The definitions map_kind_to_namespaced asks about: not one that was refused before,
\* and none of a kind that is mapped already, unless the cluster is newer.
Asked == {d \in Served[fetched] \ notKind : newer \/ mapping[KindOf[d]] = {}}

Copy ==
  /\ pc = "copy"
  /\ schemas' = Over(schemas, staged[target], Copied)
  /\ pending' = Asked
  /\ pc' = "ask"
  /\ UNCHANGED <<setting, cluster, version, mapping, notKind, staged, fetched, target, newer,
                 found, refused, asked>>

\* _is_kind_and_namespaced, of the cluster the client talks to now.
Answer(d) ==
  /\ pc = "ask" /\ d \in pending
  /\ pending' = pending \ {d}
  /\ IF d \in Listed[cluster]
       THEN found' = found \cup {<<d, fetched>>} /\ UNCHANGED refused
       ELSE refused' = refused \cup {d} /\ UNCHANGED found
  /\ UNCHANGED <<setting, cluster, disk, pc, fetched, target, newer, asked>>

\* A command that fails counts as the answer no.
NoAnswer(d) ==
  /\ setting.failures
  /\ pc = "ask" /\ d \in pending
  /\ pending' = pending \ {d}
  /\ refused' = refused \cup {d}
  /\ UNCHANGED <<setting, cluster, disk, pc, fetched, target, newer, found, asked>>

FoundOf(k) == {e \in found : KindOf[e[1]] = k}

\* Bugs: what was found is all that is kept, or is added to what was there; the
\* definitions are kept by name only.
MappingReplaced == [k \in Kind |-> FoundOf(k)]
MappingExtended == [k \in Kind |-> mapping[k] \cup FoundOf(k)]
MappingOfNames == [k \in Kind |-> {e[1] : e \in FoundOf(k)}]
\* resources_mapping.update: a kind that was found replaces its old definitions.
Updated == [k \in Kind |-> IF FoundOf(k) # {} THEN FoundOf(k) ELSE mapping[k]]

WriteMapping ==
  /\ pc = "ask" /\ pending = {}
  /\ mapping' = Updated
  /\ pc' = "not_kind"
  /\ UNCHANGED <<setting, cluster, version, schemas, notKind, staged, run, asked>>

\* Bug: every definition that was asked about is listed.
ListedTooMany == notKind \cup refused \cup {e[1] : e \in found}
NotKindList == notKind \cup refused

WriteNotKind ==
  /\ pc = "not_kind"
  /\ notKind' = NotKindList
  /\ pc' = "done"
  /\ UNCHANGED <<setting, cluster, version, schemas, mapping, staged, run, asked>>

\* The directory and the schema files, when the step that writes them ends early.
StagedPartly == CutShort(staged[target], Fresh, Generated, FALSE)
CopiedPartly(several) == CutShort(schemas, staged[target], Copied, several)

\* What the process knew is gone with it.
Forgotten ==
  /\ pc' = "idle"
  /\ fetched' = cluster /\ target' = 0 /\ newer' = FALSE
  /\ pending' = {} /\ found' = {} /\ refused' = {}

\* A request or a command that must succeed fails, or a file cannot be copied: the run
\* ends. Only shutil.copytree, for a newer cluster, tries all the files.
Exit ==
  /\ setting.failures
  /\ pc \in {"fetched", "convert", "copy"}
  /\ Forgotten
  /\ \E files \in StagedPartly :
       staged' = IF pc = "convert" THEN [staged EXCEPT ![target] = files] ELSE staged
  /\ schemas' \in IF pc = "copy" THEN CopiedPartly(newer) ELSE {schemas}
  /\ UNCHANGED <<setting, cluster, version, mapping, notKind, asked>>

\* The process dies. A file that is being written was emptied when it was opened, and
\* may have got only a part of its lines; a mapping cut short is read as none.
Crash ==
  /\ setting.crashes /\ ~Resting
  /\ Forgotten
  /\ version' \in IF pc = "version" THEN {version, Torn} ELSE {version}
  /\ \E files \in StagedPartly :
       staged' = IF pc = "convert" THEN [staged EXCEPT ![target] = files] ELSE staged
  /\ schemas' \in IF pc = "copy" THEN CopiedPartly(FALSE) ELSE {schemas}
  /\ mapping' \in IF pc = "ask" /\ pending = {} THEN {mapping, [k \in Kind |-> {}]}
                                                ELSE {mapping}
  /\ notKind' \in IF pc = "not_kind" THEN {notKind} \cup SUBSET NotKindList ELSE {notKind}
  /\ UNCHANGED <<setting, cluster, asked>>

-------------------------------------------------------------------------------
Step ==
  \/ Compare \/ WriteVersion \/ Convert \/ Copy \/ WriteMapping \/ WriteNotKind \/ Exit
  \/ \E d \in Definition : Answer(d) \/ NoAnswer(d)

Next == Fetch \/ Step \/ Crash \/ \E c \in Cluster : Login(c)

\* A process that runs goes on; nobody has to start one.
Spec == Init /\ [][Next]_vars /\ WF_vars(Step)

-------------------------------------------------------------------------------
Answered == ~setting.failures /\ ~setting.upgrades

\* "Please run with --update-schema", class_generator says when a kind is not in the
\* mapping. After a run, whatever became of the runs before it, each definition of a kind
\* in the cluster has its kind in the mapping, unless it is in the list of those that are
\* none, and its kind has a file. What these are is another question: they may be of an
\* older cluster; the file may be one that an earlier run was killed in the middle of,
\* and is torn only then; and a definition stays in the list once it was put there, also
\* when a cluster comes to prefer it: then its kind is not mapped, or keeps the old one.
Complete ==
  pc = "done" =>
    /\ Answered => \A d \in Listed[fetched] : mapping[KindOf[d]] # {} \/ d \in notKind
    /\ \A k \in Generated : schemas[k] # None
    /\ ~setting.crashes /\ ~setting.failures => \A k \in Kind : schemas[k] # Torn

\* An update from a newer cluster brings the files of all its kinds up to date, also those
\* that were torn, and each definition of a kind, unless it is in the list: the kinds of
\* a definition that was refused before keep what they have.
Current ==
  pc = "done" /\ newer =>
    /\ \A k \in Generated : schemas[k] = fetched
    /\ Answered =>
         \A d \in Listed[fetched] : <<d, fetched>> \in mapping[KindOf[d]] \/ d \in notKind

\* The definitions of a kind are all from one cluster, each there once: class_generator
\* writes one file for each.
OneCluster == \A k \in Kind : \A e, f \in mapping[k] : e[2] = f[2]

\* A definition that is not asked about again is one that a cluster, met before, has in
\* its document and does not list: no definition gets there for another one, or for a
\* question nobody asked. It may be a kind's all the same, on a later cluster.
RefusedRightly ==
  Answered => \A d \in notKind : \E c \in asked : d \in Served[c] \ Listed[c]

\* A kind that was mapped once stays so, whatever fails, as long as no process is killed
\* while it writes the mapping.
NoKindLost ==
  [][~setting.crashes => \A k \in Kind : mapping[k] # {} => mapping'[k] # {}]_vars
===============================================================================
