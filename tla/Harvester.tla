----------------------------- MODULE Harvester -----------------------------
(***************************************************************************)
(* The Sequence-3 harvester: bootstrap jobs (floodguard/harvester/         *)
(* bootstrap.py) that run HarvesterService.harvest_source (service.py) on  *)
(* their selected sources against one version catalogue (repository.py, in *)
(* PostgreSQL) and one raw vault (vault.py, in MinIO).  Every database     *)
(* commit and every object-store call is a step of its own, so jobs        *)
(* interleave between any two of them, and a job may be killed at any.     *)
(***************************************************************************)
EXTENDS Governance, Naturals, Sequences, FiniteSets

CONSTANTS
    Jobs,               \* bootstrap worker processes
    Sources,            \* source_id values
    NoSource,           \* no source is being harvested
    Revisions,          \* bytes an upstream resource can have
    Resources,          \* Resources[s]: requests the planner makes for s
    ByteSize,           \* ByteSize[r]: size of revision r
    MaxResources,       \* max_resources_per_source
    MaxObjectBytes,     \* max_object_bytes
    MaxTotalBytes,      \* max_total_bytes
    ColumnMax,          \* largest value of an Integer column
    Registrations,      \* registry records an operator may write
    VersionIds,         \* uuid4 values, in the order of their utc_now() stamps
    Faults,             \* kinds of fault that may happen
    MaxFaults,          \* bound: faults in a behaviour
    MaxRuns,            \* bound: times each job is started
    MaxEdits            \* bound: publications upstream and edits of the registry

FaultKinds == {"network", "timeout", "vault", "flush", "commit", "refresh", "crash"}

ASSUME HarvesterAssumption ==
    /\ NoSource \notin Sources
    /\ Resources \in [Sources -> Nat \ {0}]
    /\ ByteSize \in [Revisions -> Nat]
    /\ {MaxResources, MaxObjectBytes, MaxTotalBytes, ColumnMax} \subseteq Nat
    /\ Registrations \subseteq SourceRead
    /\ \A r \in Registrations : ValidRegistration(r)
    /\ VersionIds \subseteq Nat \ {0}
    /\ Faults \subseteq FaultKinds
    /\ {MaxFaults, MaxRuns, MaxEdits} \subseteq Nat

VARIABLES
    registry,   \* registry[s]: its record in the source registry
    upstream,   \* upstream[s]: the revision the provider serves
    rows,       \* harvest_dataset_versions, by dataset_version_id
    objectRows, \* harvest_raw_objects
    vault,      \* raw objects in the bucket, by object key
    documents,  \* manifest.json objects in the bucket, by key
    issued,     \* ids drawn so far; the id is also the acquired_at stamp
    pc,         \* pc[j]: where job j stands
    todo,       \* todo[j]: selected sources job j has not come to yet
    snapshot,   \* snapshot[j]: the SourceRead values job j listed at its start
    work,       \* work[j]: locals of the current harvest_source call
    result,     \* result[j]: the last HarvestResult job j got
    runs, edits, faults     \* how much of the bounds is used

world   == <<registry, upstream, edits>>
store   == <<rows, objectRows, vault, documents, issued>>
control == <<todo, snapshot, runs>>
vars == <<world, store, control, pc, work, result, faults>>

-----------------------------------------------------------------------------
NoVersion == 0

NoWork == [source |-> NoSource, got |-> <<>>, total |-> 0,
           previous |-> NoVersion, version |-> NoVersion, stored |-> 0]

NoResult == [disposition |-> "NONE", version |-> NoVersion]

Manifests ==
    UNION {[source: {s}, provenance: Provenances,
            objects: [1..Resources[s] -> Revisions]] : s \in Sources}

(* _manifest_fingerprint; SHA-256 is taken to be injective. *)
Manifest(s, registration, objects) ==
    [source |-> s, provenance |-> registration.provenance, objects |-> objects]

(* Mutant: the prefix lacks the version. *)
ObjectKeyWithoutVersion(s, v, i) == <<s, NoVersion, i>>
ObjectKey(s, v, i) == <<s, v, i>>
ManifestKey(s, v) == <<s, v>>

Add(f, k, x) == [i \in DOMAIN f \cup {k} |-> IF i = k THEN x ELSE f[i]]

Source(j) == work[j].source
Version(j) == work[j].version
OwnSnapshot(j) == snapshot[j][Source(j)]
OwnManifest(j) == Manifest(Source(j), OwnSnapshot(j), work[j].got)

(* find_by_manifest *)
VersionsOf(m) == {v \in DOMAIN rows : rows[v].manifest = m}

(* Mutant: the status filter of latest_complete is missing. *)
AnyOf(s) == {v \in DOMAIN rows : rows[v].manifest.source = s}

(* The candidates of latest_complete. *)
CompleteOf(s) ==
    {v \in DOMAIN rows : rows[v].manifest.source = s /\ rows[v].status = "COMPLETE"}

Selected(records) == {s \in Sources : MethodSelected(records[s])}

GoTo(j, label) == pc' = [pc EXCEPT ![j] = label]

Fault(kind) == kind \in Faults /\ faults < MaxFaults /\ faults' = faults + 1

Init ==
    /\ registry \in [Sources -> Registrations]
    /\ upstream \in [Sources -> Revisions]
    /\ rows = <<>> /\ objectRows = {} /\ vault = <<>> /\ documents = <<>>
    /\ issued = 0
    /\ pc = [j \in Jobs |-> "off"]
    /\ todo = [j \in Jobs |-> {}]
    /\ snapshot = [j \in Jobs |-> registry]
    /\ work = [j \in Jobs |-> NoWork]
    /\ result = [j \in Jobs |-> NoResult]
    /\ runs = [j \in Jobs |-> 0] /\ edits = 0 /\ faults = 0

-----------------------------------------------------------------------------
(* The world the jobs run in. *)

(* A provider replaces the bytes it serves. *)
PublishUpstream(s, r) ==
    /\ edits < MaxEdits /\ upstream[s] # r
    /\ upstream' = [upstream EXCEPT ![s] = r]
    /\ edits' = edits + 1
    /\ UNCHANGED <<registry, store, control, pc, work, result, faults>>

(* An operator replaces a registry record (RegistryRepository.replace). *)
ReplaceSource(s, registration) ==
    /\ edits < MaxEdits /\ registry[s] # registration
    /\ registry' = [registry EXCEPT ![s] = registration]
    /\ edits' = edits + 1
    /\ UNCHANGED <<upstream, store, control, pc, work, result, faults>>

-----------------------------------------------------------------------------
(* bootstrap.main *)

(* The job lists the registry once; the harvests that follow see that list. *)
Launch(j) ==
    /\ pc[j] = "off" /\ runs[j] < MaxRuns
    /\ runs' = [runs EXCEPT ![j] = @ + 1]
    /\ snapshot' = [snapshot EXCEPT ![j] = registry]
    /\ todo' = [todo EXCEPT ![j] = Selected(registry)]
    /\ result' = [result EXCEPT ![j] = NoResult]
    /\ GoTo(j, "next")
    /\ UNCHANGED <<world, store, work, faults>>

(* Mutant: the source is never taken off the list. *)
NextSourceAgain(j, s) ==
    /\ pc[j] = "next" /\ s \in todo[j]
    /\ work' = [work EXCEPT ![j] = [NoWork EXCEPT !.source = s]]
    /\ GoTo(j, "govern")
    /\ UNCHANGED <<world, store, control, result, faults>>

(* The loop over the selected sources.  Their order depends on category and *)
(* dataset_name, which are not modelled: any order may be taken.            *)
NextSource(j, s) ==
    /\ pc[j] = "next" /\ s \in todo[j]
    /\ todo' = [todo EXCEPT ![j] = @ \ {s}]
    /\ work' = [work EXCEPT ![j] = [NoWork EXCEPT !.source = s]]
    /\ GoTo(j, "govern")
    /\ UNCHANGED <<world, store, snapshot, runs, result, faults>>

(* The process ends: after the loop, by an exception main() does not catch, *)
(* or because it is killed.                                                 *)
Exit(j) ==
    /\ todo' = [todo EXCEPT ![j] = {}]
    /\ work' = [work EXCEPT ![j] = NoWork]
    /\ GoTo(j, "off")
    /\ UNCHANGED <<world, snapshot, runs, result>>

Finish(j) ==
    /\ pc[j] = "next" /\ todo[j] = {}
    /\ Exit(j)
    /\ UNCHANGED <<store, faults>>

(* The call ends without touching the store: main() counts a failure (the   *)
(* exception is a HarvestAccessError or a RuntimeError) and goes on.        *)
GiveUp(j) ==
    /\ GoTo(j, "next")
    /\ UNCHANGED <<world, store, control, work, result>>

(* The call returns a HarvestResult. *)
Return(j, disposition, v) ==
    /\ result' = [result EXCEPT ![j] = [disposition |-> disposition, version |-> v]]
    /\ GoTo(j, "next")
    /\ UNCHANGED <<world, store, control, work, faults>>

-----------------------------------------------------------------------------
(* HarvesterService.harvest_source *)

(* Mutant: the credential is not resolved before the request. *)
AllowedWithoutHeaders(j) ==
    Permitted(OwnSnapshot(j)) /\ Resources[Source(j)] <= MaxResources

Allowed(j) ==
    /\ Permitted(OwnSnapshot(j))
    /\ HeadersResolve(OwnSnapshot(j))
    /\ Resources[Source(j)] <= MaxResources

Blocked(j) ==
    /\ pc[j] = "govern" /\ ~Allowed(j)
    /\ GiveUp(j)
    /\ UNCHANGED faults

Plan(j) ==
    /\ pc[j] = "govern" /\ Allowed(j)
    /\ GoTo(j, "download")
    /\ UNCHANGED <<world, store, control, work, result, faults>>

(* One resource is fetched and its size counted. *)
IncomingSize(j) == ByteSize[upstream[Source(j)]]
WithinLimits(j) ==
    /\ IncomingSize(j) <= MaxObjectBytes
    /\ work[j].total + IncomingSize(j) <= MaxTotalBytes

Download(j) ==
    /\ pc[j] = "download" /\ WithinLimits(j)
    /\ work' = [work EXCEPT ![j].got = Append(@, upstream[Source(j)]),
                            ![j].total = @ + IncomingSize(j)]
    /\ GoTo(j, IF Len(work[j].got) + 1 = Resources[Source(j)] THEN "find" ELSE "download")
    /\ UNCHANGED <<world, store, control, result, faults>>

DownloadTooLarge(j) ==
    /\ pc[j] = "download" /\ ~WithinLimits(j)
    /\ GiveUp(j)
    /\ UNCHANGED faults

(* AcquisitionError while planning or downloading. *)
NetworkFails(j) ==
    /\ pc[j] \in {"govern", "download"} /\ Fault("network")
    /\ GiveUp(j)

-----------------------------------------------------------------------------
(* HarvesterService._persist_downloads: deduplication and reservation *)

(* Mutant: any version with the manifest is taken for a complete one. *)
FindAnyStatus(j, v) ==
    /\ pc[j] \in {"find", "requery"}
    /\ v \in VersionsOf(OwnManifest(j))
    /\ Return(j, "UNCHANGED", v)

(* find_by_manifest, at first and again after a reservation that collided,  *)
(* finds the version COMPLETE, ...                                          *)
FindComplete(j, v) ==
    /\ pc[j] \in {"find", "requery"}
    /\ v \in VersionsOf(OwnManifest(j)) /\ rows[v].status = "COMPLETE"
    /\ Return(j, "UNCHANGED", v)

(* ... or in another state: HarvestConflictError. *)
FindConflict(j, v) ==
    /\ pc[j] \in {"find", "requery"}
    /\ v \in VersionsOf(OwnManifest(j)) /\ rows[v].status # "COMPLETE"
    /\ GiveUp(j)
    /\ UNCHANGED faults

FindNothing(j) ==
    /\ pc[j] = "find" /\ VersionsOf(OwnManifest(j)) = {}
    /\ GoTo(j, "latest")
    /\ UNCHANGED <<world, store, control, work, result, faults>>

(* latest_complete: the COMPLETE version with the greatest acquired_at. *)
ReadLatest(j, p) ==
    /\ pc[j] = "latest"
    /\ \/ p = NoVersion /\ CompleteOf(Source(j)) = {}
       \/ p \in CompleteOf(Source(j)) /\ \A v \in CompleteOf(Source(j)) : v <= p
    /\ work' = [work EXCEPT ![j].previous = p]
    /\ GoTo(j, "stamp")
    /\ UNCHANGED <<world, store, control, result, faults>>

(* uuid4() and utc_now() *)
Stamp(j) ==
    /\ pc[j] = "stamp" /\ issued + 1 \in VersionIds
    /\ issued' = issued + 1
    /\ work' = [work EXCEPT ![j].version = issued + 1]
    /\ GoTo(j, "reserve")
    /\ UNCHANGED <<world, rows, objectRows, vault, documents, control, result, faults>>

(* Mutant: the table lacks its unique constraint. *)
ReserveUnchecked(j) ==
    /\ pc[j] = "reserve"
    /\ rows' = Add(rows, Version(j),
                   [manifest |-> OwnManifest(j), snapshot |-> OwnSnapshot(j),
                    previous |-> work[j].previous, status |-> "PENDING",
                    objectCount |-> 0, totalBytes |-> 0])
    /\ GoTo(j, "place")
    /\ UNCHANGED <<world, objectRows, vault, documents, issued, control, work, result, faults>>

(* reserve_version commits a PENDING row, unless the unique constraint on   *)
(* (source_id, manifest_sha256) rejects it.                                 *)
Reserve(j) ==
    /\ pc[j] = "reserve" /\ VersionsOf(OwnManifest(j)) = {}
    /\ rows' = Add(rows, Version(j),
                   [manifest |-> OwnManifest(j), snapshot |-> OwnSnapshot(j),
                    previous |-> work[j].previous, status |-> "PENDING",
                    objectCount |-> 0, totalBytes |-> 0])
    /\ GoTo(j, "place")
    /\ UNCHANGED <<world, objectRows, vault, documents, issued, control, work, result, faults>>

(* Mutant: any version of the source is taken for the one that collided. *)
ReserveCollidesBySource(j) ==
    /\ pc[j] = "reserve" /\ AnyOf(Source(j)) # {}
    /\ GoTo(j, "requery")
    /\ UNCHANGED <<world, store, control, work, result, faults>>

ReserveCollides(j) ==
    /\ pc[j] = "reserve" /\ VersionsOf(OwnManifest(j)) # {}
    /\ GoTo(j, "requery")
    /\ UNCHANGED <<world, store, control, work, result, faults>>

(* _safe_object_segment(city_id) runs after the reservation and before the  *)
(* try: its ValueError ends the process.                                    *)
Place(j) ==
    /\ pc[j] = "place" /\ OwnSnapshot(j).citySafe
    /\ GoTo(j, "stat")
    /\ UNCHANGED <<world, store, control, work, result, faults>>

PlaceUnsafe(j) ==
    /\ pc[j] = "place" /\ ~OwnSnapshot(j).citySafe
    /\ Exit(j)
    /\ UNCHANGED <<store, faults>>

-----------------------------------------------------------------------------
(* HarvesterService._persist_downloads: object writes and completion.       *)
(* put_file_once and put_bytes_once look the key up and then write it, in   *)
(* two calls.  ImmutableObjectExistsError is left out: KeysAreFresh below   *)
(* shows that the key is never there.                                       *)

NextKey(j) == ObjectKey(Source(j), Version(j), work[j].stored + 1)
OwnManifestKey(j) == ManifestKey(Source(j), Version(j))
OwnDocument(j) == [manifest |-> OwnManifest(j), previous |-> work[j].previous]

Stat(j) ==
    /\ pc[j] = "stat" /\ NextKey(j) \notin DOMAIN vault
    /\ GoTo(j, "put")
    /\ UNCHANGED <<world, store, control, work, result, faults>>

StoreObject(j) == vault' = Add(vault, NextKey(j), work[j].got[work[j].stored + 1])

(* Mutant: the loop over the downloads ends one early. *)
PutAllButOne(j) ==
    /\ pc[j] = "put"
    /\ StoreObject(j)
    /\ work' = [work EXCEPT ![j].stored = @ + 1]
    /\ GoTo(j, IF work[j].stored + 2 >= Len(work[j].got) THEN "statManifest" ELSE "stat")
    /\ UNCHANGED <<world, rows, objectRows, documents, issued, control, result, faults>>

PutObject(j) ==
    /\ pc[j] = "put"
    /\ StoreObject(j)
    /\ work' = [work EXCEPT ![j].stored = @ + 1]
    /\ GoTo(j, IF work[j].stored + 1 = Len(work[j].got) THEN "statManifest" ELSE "stat")
    /\ UNCHANGED <<world, rows, objectRows, documents, issued, control, result, faults>>

StatManifest(j) ==
    /\ pc[j] = "statManifest" /\ OwnManifestKey(j) \notin DOMAIN documents
    /\ GoTo(j, "putManifest")
    /\ UNCHANGED <<world, store, control, work, result, faults>>

StoreManifest(j) == documents' = Add(documents, OwnManifestKey(j), OwnDocument(j))

PutManifest(j) ==
    /\ pc[j] = "putManifest"
    /\ StoreManifest(j)
    /\ GoTo(j, "complete")
    /\ UNCHANGED <<world, rows, objectRows, vault, issued, control, work, result, faults>>

(* The object store raises; a put may have stored the object all the same.  *)
VaultFails(j) ==
    /\ Fault("vault")
    /\ \/ /\ pc[j] \in {"stat", "put", "statManifest", "putManifest"}
          /\ UNCHANGED <<vault, documents>>
       \/ pc[j] = "put" /\ StoreObject(j) /\ UNCHANGED documents
       \/ pc[j] = "putManifest" /\ StoreManifest(j) /\ UNCHANGED vault
    /\ GoTo(j, "fail")
    /\ UNCHANGED <<world, rows, objectRows, issued, control, work, result>>

(* Mutant: the status is not set. *)
CommitWithoutStatus(j) ==
    /\ rows' = [rows EXCEPT ![Version(j)].objectCount = work[j].stored,
                            ![Version(j)].totalBytes = work[j].total]
    /\ UNCHANGED <<objectRows, vault, documents, issued>>

(* complete_version up to its commit. *)
CommitComplete(j) ==
    /\ rows' = [rows EXCEPT ![Version(j)].status = "COMPLETE",
                            ![Version(j)].objectCount = work[j].stored,
                            ![Version(j)].totalBytes = work[j].total]
    /\ objectRows' = objectRows \cup
           {[version |-> Version(j), index |-> i, bytes |-> work[j].got[i],
             key |-> ObjectKey(Source(j), Version(j), i)] : i \in 1..work[j].stored}
    /\ UNCHANGED <<vault, documents, issued>>

Complete(j) ==
    /\ pc[j] = "complete" /\ rows[Version(j)].status = "PENDING"
    /\ work[j].total <= ColumnMax
    /\ CommitComplete(j)
    /\ GoTo(j, "refresh")
    /\ UNCHANGED <<world, control, work, result, faults>>

(* The flush in commit() fails, because total_bytes is out of the column's  *)
(* range or because the database refuses: nothing is written, and the       *)
(* session must be rolled back before it can be used again.                 *)
CompleteOverflows(j) ==
    /\ pc[j] = "complete" /\ work[j].total > ColumnMax
    /\ GoTo(j, "failInvalid")
    /\ UNCHANGED <<world, store, control, work, result, faults>>

CompleteFlushFails(j) ==
    /\ pc[j] = "complete" /\ work[j].total <= ColumnMax /\ Fault("flush")
    /\ GoTo(j, "failInvalid")
    /\ UNCHANGED <<world, store, control, work, result>>

(* The connection is lost at COMMIT: the outcome is unknown, the session is *)
(* not usable.                                                              *)
CompleteCommitLost(j) ==
    /\ pc[j] = "complete" /\ work[j].total <= ColumnMax /\ Fault("commit")
    /\ CommitComplete(j) \/ UNCHANGED store
    /\ GoTo(j, "failInvalid")
    /\ UNCHANGED <<world, control, work, result>>

Refresh(j) ==
    /\ pc[j] = "refresh"
    /\ Return(j, "CREATED", Version(j))

(* session.refresh gets no connection; the session stays usable. *)
RefreshFails(j) ==
    /\ pc[j] = "refresh" /\ Fault("refresh")
    /\ GoTo(j, "fail")
    /\ UNCHANGED <<world, store, control, work, result>>

(* Mutant: the handler writes nothing. *)
MarkNothing(j) ==
    /\ pc[j] = "fail"
    /\ Exit(j)
    /\ UNCHANGED <<store, faults>>

(* fail_version, then the exception goes on and ends the process. *)
MarkFailed(j) ==
    /\ pc[j] = "fail"
    /\ rows' = [rows EXCEPT ![Version(j)].status = "FAILED"]
    /\ Exit(j)
    /\ UNCHANGED <<objectRows, vault, documents, issued, faults>>

(* Mutant: the handler rolls back and marks the version whatever its status. *)
MarkFailedAnyway(j) ==
    /\ pc[j] = "failInvalid"
    /\ rows' = [rows EXCEPT ![Version(j)].status = "FAILED"]
    /\ Exit(j)
    /\ UNCHANGED <<objectRows, vault, documents, issued, faults>>

(* fail_version itself raises: its session is awaiting a rollback. *)
MarkFailedRaises(j) ==
    /\ pc[j] = "failInvalid"
    /\ Exit(j)
    /\ UNCHANGED <<store, faults>>

(* A listing or a body that stops coming while it is read raises            *)
(* TimeoutError, which is no URLError: nothing catches it, and it ends the  *)
(* process.                                                                 *)
TimesOut(j) ==
    /\ pc[j] \in {"govern", "download"} /\ Fault("timeout")
    /\ Exit(j)
    /\ UNCHANGED store

(* The process is killed, or an exception outside the try ends it: a failed *)
(* ensure_ready, a database error in a query, in reserve_version or in      *)
(* fail_version.                                                            *)
Crash(j) ==
    /\ pc[j] # "off" /\ Fault("crash")
    /\ Exit(j)
    /\ UNCHANGED store

-----------------------------------------------------------------------------
Step(j) ==
    \/ \E s \in Sources : NextSource(j, s)
    \/ Finish(j) \/ Blocked(j) \/ Plan(j) \/ Download(j) \/ DownloadTooLarge(j)
    \/ \E v \in DOMAIN rows : FindComplete(j, v) \/ FindConflict(j, v)
    \/ FindNothing(j)
    \/ \E p \in DOMAIN rows \cup {NoVersion} : ReadLatest(j, p)
    \/ Stamp(j) \/ Reserve(j) \/ ReserveCollides(j) \/ Place(j) \/ PlaceUnsafe(j)
    \/ Stat(j) \/ PutObject(j) \/ StatManifest(j) \/ PutManifest(j)
    \/ Complete(j) \/ Refresh(j) \/ MarkFailed(j) \/ MarkFailedRaises(j)
    \/ CompleteOverflows(j)

Fail(j) ==
    \/ NetworkFails(j) \/ VaultFails(j) \/ CompleteFlushFails(j) \/ CompleteCommitLost(j)
    \/ RefreshFails(j) \/ TimesOut(j) \/ Crash(j)

(* Every job has run as often as it will. *)
Rest == (\A j \in Jobs : pc[j] = "off" /\ runs[j] = MaxRuns) /\ UNCHANGED vars

Next ==
    \/ \E s \in Sources : \/ \E r \in Revisions : PublishUpstream(s, r)
                          \/ \E r \in Registrations : ReplaceSource(s, r)
    \/ \E j \in Jobs : Launch(j) \/ Step(j) \/ Fail(j)
    \/ Rest

Spec == Init /\ [][Next]_vars

(* The process keeps running while it is not killed; nothing makes an       *)
(* operator start it again.                                                 *)
FairSpec == Spec /\ \A j \in Jobs : WF_vars(Step(j))

-----------------------------------------------------------------------------
(* Types.  A function whose domain grows is typed by its domain and range.  *)

Holding == {"place", "stat", "put", "statManifest", "putManifest", "complete"}
Owning == Holding \cup {"refresh", "fail", "failInvalid"}
PcLabels == Owning \cup {"off", "next", "govern", "download", "find", "latest",
                         "stamp", "reserve", "requery"}

Row == [manifest: Manifests, snapshot: Registrations,
        previous: VersionIds \cup {NoVersion},
        status: {"PENDING", "COMPLETE", "FAILED"},
        objectCount: Nat, totalBytes: Nat]

Work == [source: Sources \cup {NoSource}, got: Seq(Revisions), total: Nat,
         previous: VersionIds \cup {NoVersion},
         version: VersionIds \cup {NoVersion}, stored: Nat]

WorldType ==
    /\ registry \in [Sources -> Registrations]
    /\ upstream \in [Sources -> Revisions]
    /\ edits \in Nat

StoreType ==
    /\ rows \in [DOMAIN rows -> Row] /\ DOMAIN rows \subseteq VersionIds
    /\ objectRows \subseteq [version: VersionIds, index: Nat, bytes: Revisions,
                             key: Sources \X VersionIds \X Nat]
    /\ vault \in [DOMAIN vault -> Revisions]
    /\ DOMAIN vault \subseteq Sources \X VersionIds \X Nat
    /\ documents \in [DOMAIN documents ->
                        [manifest: Manifests, previous: VersionIds \cup {NoVersion}]]
    /\ DOMAIN documents \subseteq Sources \X VersionIds
    /\ issued \in Nat

JobType ==
    /\ pc \in [Jobs -> PcLabels]
    /\ todo \in [Jobs -> SUBSET Sources]
    /\ snapshot \in [Jobs -> [Sources -> Registrations]]
    /\ work \in [Jobs -> Work]
    /\ result \in [Jobs -> [disposition: {"NONE", "CREATED", "UNCHANGED"},
                            version: VersionIds \cup {NoVersion}]]
    /\ runs \in [Jobs -> Nat] /\ faults \in Nat

(* Every variable has the shape the code gives it. *)
TypeOK == WorldType /\ StoreType /\ JobType

-----------------------------------------------------------------------------
(* Safety. *)

(* What a reader gets through the raw object rows of version v. *)
RowsOf(v) == {o \in objectRows : o.version = v}
ReadsAs(v, objects) ==
    /\ {o.index : o \in RowsOf(v)} = 1..Len(objects)
    /\ \A o \in RowsOf(v) : /\ o.key \in DOMAIN vault
                            /\ vault[o.key] = objects[o.index]
                            /\ o.bytes = objects[o.index]

Backed(v) ==
    LET m == rows[v].manifest IN
    /\ ReadsAs(v, m.objects)
    /\ ManifestKey(m.source, v) \in DOMAIN documents
    /\ documents[ManifestKey(m.source, v)] =
           [manifest |-> m, previous |-> rows[v].previous]
    /\ rows[v].objectCount = Len(m.objects)

(* A COMPLETE version can be read back: every object its manifest names is  *)
(* in the vault with the bytes that were hashed, its manifest.json is there *)
(* and says the same, and its counts agree (service.py:281-347).            *)
CompleteIsBacked ==
    \A v \in DOMAIN rows : rows[v].status = "COMPLETE" => Backed(v)

(* Whatever was left in the bucket, by failed and killed jobs too, sits     *)
(* under the prefix of the version it was downloaded for: no partial        *)
(* version's objects are ever another version's.                            *)
VaultMatchesManifests ==
    \A k \in DOMAIN vault : LET s == k[1]  v == k[2]  i == k[3] IN
        /\ v \in DOMAIN rows /\ rows[v].manifest.source = s
        /\ i \in DOMAIN rows[v].manifest.objects
        /\ vault[k] = rows[v].manifest.objects[i]

(* put_file_once and put_bytes_once never meet an existing key, although    *)
(* their check and their write are two calls (vault.py:61-93).              *)
KeysAreFresh ==
    \A j \in Jobs :
        /\ pc[j] \in {"stat", "put"} => NextKey(j) \notin DOMAIN vault
        /\ pc[j] \in {"statManifest", "putManifest"} => OwnManifestKey(j) \notin DOMAIN documents

(* What the code raises for states that should not be is never raised: a    *)
(* key is there already (vault.py:61-70), the constraint rejected a         *)
(* reservation and no version with its manifest is found (repository.py:    *)
(* 108-109), the version to complete is gone or not PENDING (123-126).      *)
NoImpossibleError ==
    /\ KeysAreFresh
    /\ \A j \in Jobs :
           /\ pc[j] = "requery" => VersionsOf(OwnManifest(j)) # {}
           /\ pc[j] \in {"complete", "fail"} => Version(j) \in DOMAIN rows
           /\ pc[j] = "complete" => rows[Version(j)].status = "PENDING"

(* While a job is between its reservation and its completion its row is     *)
(* there, PENDING, for the manifest it downloaded, and no other job has it: *)
(* complete_version's LookupError and ValueError cannot happen.             *)
ReservationIsExclusive ==
    \A j \in Jobs : pc[j] \in Holding =>
        /\ Version(j) \in DOMAIN rows
        /\ rows[Version(j)].status = "PENDING"
        /\ rows[Version(j)].manifest = OwnManifest(j)
        /\ \A k \in Jobs \ {j} : pc[k] \in Owning => Version(k) # Version(j)

(* A predecessor is an earlier COMPLETE version of the same source with     *)
(* another manifest, even when jobs race from latest_complete to the commit *)
(* of the reservation (service.py:251-263).                                 *)
PredecessorIsComplete ==
    \A v \in DOMAIN rows : LET p == rows[v].previous IN p # NoVersion =>
        /\ p \in DOMAIN rows /\ p < v
        /\ rows[p].status = "COMPLETE"
        /\ rows[p].manifest.source = rows[v].manifest.source
        /\ rows[p].manifest # rows[v].manifest

(* A CREATED or UNCHANGED result names a version that is COMPLETE and stays *)
(* so while the result is held.                                             *)
ResultsAreComplete ==
    \A j \in Jobs : result[j].disposition # "NONE" =>
        /\ result[j].version \in DOMAIN rows
        /\ rows[result[j].version].status = "COMPLETE"

(* No version exists of a source whose registration did not let it be       *)
(* acquired, and none has more or larger objects than the limits of a       *)
(* harvest and the Integer column allow.                                    *)
VersionsAreGoverned ==
    \A v \in DOMAIN rows :
        LET m == rows[v].manifest IN
        /\ Permitted(rows[v].snapshot) /\ HeadersResolve(rows[v].snapshot)
        /\ m.provenance = rows[v].snapshot.provenance
        /\ Len(m.objects) <= MaxResources
        /\ \A i \in DOMAIN m.objects : ByteSize[m.objects[i]] <= MaxObjectBytes
        /\ rows[v].totalBytes <= MaxTotalBytes /\ rows[v].totalBytes <= ColumnMax

(* A version that is PENDING belongs to a job that is still at work on it.  *)
NoOrphanedReservation ==
    \A v \in DOMAIN rows : rows[v].status = "PENDING" =>
        \E j \in Jobs : pc[j] \in Owning /\ Version(j) = v

-----------------------------------------------------------------------------
(* Action properties. *)

(* Nothing in the raw bucket is overwritten or deleted. *)
Extends(f, g) == DOMAIN f \subseteq DOMAIN g /\ \A k \in DOMAIN f : g[k] = f[k]

WriteOnce == [][Extends(vault, vault') /\ Extends(documents, documents')]_vars

(* A version is never removed, its identity never changes, a COMPLETE       *)
(* version never changes at all and a FAILED one is never revived.  It takes *)
(* the refresh after the commit to succeed: the handler of its failure marks *)
(* the version FAILED that was just completed (repository.py:135-142,        *)
(* service.py:348-350).                                                      *)
Immutable ==
    [][/\ \A v \in DOMAIN rows :
            /\ v \in DOMAIN rows'
            /\ rows'[v].manifest = rows[v].manifest
            /\ rows'[v].previous = rows[v].previous
            /\ rows[v].status \in {"COMPLETE", "FAILED"} => rows'[v] = rows[v]
       /\ objectRows \subseteq objectRows']_vars

(* The most steps job j still takes in the harvest it is at, of n resources. *)
StepsLeft(j) ==
    LET n == Resources[Source(j)]
        missing == n - Len(work[j].got)
        unstored == n - work[j].stored
    IN  CASE pc[j] = "govern" -> 13 + 3 * n
          [] pc[j] = "download" -> 12 + 2 * n + missing
          [] pc[j] = "find" -> 12 + 2 * n
          [] pc[j] = "latest" -> 11 + 2 * n
          [] pc[j] = "stamp" -> 10 + 2 * n
          [] pc[j] = "reserve" -> 9 + 2 * n
          [] pc[j] = "place" -> 8 + 2 * n
          [] pc[j] = "stat" -> 7 + 2 * unstored
          [] pc[j] = "put" -> 6 + 2 * unstored
          [] pc[j] = "statManifest" -> 6
          [] pc[j] = "putManifest" -> 5
          [] pc[j] = "complete" -> 4
          [] pc[j] = "refresh" -> 3
          [] pc[j] \in {"requery", "fail", "failInvalid"} -> 2
          [] pc[j] = "next" -> 1
          [] pc[j] = "off" -> 0

Nearer(j) ==
    \/ todo'[j] \subseteq todo[j] /\ todo'[j] # todo[j]
    \/ todo'[j] = todo[j] /\ StepsLeft(j)' < StepsLeft(j)

(* Every job is finite: each of its steps takes a source off its list or    *)
(* brings it nearer to the end of the harvest it is at, and nothing that    *)
(* other jobs, providers, operators or faults do sets it back: no collision *)
(* and no failure is retried (bootstrap.py:84-103, service.py:181-360).     *)
JobsAreFinite ==
    [][\A j \in Jobs : pc[j] # "off" =>
           Nearer(j) \/ UNCHANGED <<pc[j], todo[j], work[j]>>]_vars

-----------------------------------------------------------------------------
(* Liveness, of a job that is not killed. *)

(* Every job that was started ends: no refusal, conflict or race leaves it  *)
(* waiting for another job.                                                 *)
JobsEnd == \A j \in Jobs : pc[j] # "off" ~> pc[j] = "off"

(* Every reservation is resolved. *)
ReservationsResolve ==
    \A v \in VersionIds :
        v \in DOMAIN rows ~> v \in DOMAIN rows /\ rows[v].status # "PENDING"

-----------------------------------------------------------------------------
(* The catalogue a reader sees: the content of a version is what its raw    *)
(* object rows lead to in the vault.                                        *)
Content(v) ==
    [i \in {o.index : o \in RowsOf(v)} |->
        vault[(CHOOSE o \in RowsOf(v) : o.index = i).key]]

Catalogue ==
    [v \in DOMAIN rows |-> [manifest |-> rows[v].manifest, previous |-> rows[v].previous,
                            status |-> rows[v].status, content |-> Content(v)]]

Abstract == INSTANCE DatasetVersions WITH catalogue <- Catalogue

(* Readers of the catalogue cannot tell the harvester from the atomic one.  *)
(* As for Immutable, the refresh after a commit must not fail.              *)
ImplementsCatalogue == Abstract!Spec
=============================================================================
