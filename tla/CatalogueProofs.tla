-------------------------- MODULE CatalogueProofs --------------------------
(***************************************************************************)
(* The catalogue of the harvester for any number of jobs, sources,         *)
(* revisions and faults: it obeys governance, and as long as the refresh   *)
(* after a commit does not fail, what is COMPLETE stays so, predecessors   *)
(* and results name such versions, and its readers cannot tell the         *)
(* harvester from an atomic catalogue.  While every fault comes before a   *)
(* reservation or is handled by the code, no reservation is left behind.   *)
(***************************************************************************)
EXTENDS HarvesterProofs

RefreshWorks == "refresh" \notin Faults

Moves(j) == Launch(j) \/ Step(j) \/ Fail(j)

-----------------------------------------------------------------------------
(* What a step of a job does to the rows. *)

NewRow(j) ==
    [manifest |-> OwnManifest(j), snapshot |-> OwnSnapshot(j), previous |-> work[j].previous,
     status |-> "PENDING", objectCount |-> 0, totalBytes |-> 0]

Reserves(j) ==
    /\ pc[j] = "reserve" /\ VersionsOf(OwnManifest(j)) = {}
    /\ DOMAIN rows' = DOMAIN rows \cup {Version(j)} /\ Version(j) \notin DOMAIN rows
    /\ \A v \in DOMAIN rows : rows'[v] = rows[v]
    /\ rows'[Version(j)] = NewRow(j)
    /\ objectRows' = objectRows

(* The row of v, and no other, becomes this. *)
Becomes(v, status, total) ==
    /\ v \in DOMAIN rows /\ DOMAIN rows' = DOMAIN rows
    /\ \A w \in DOMAIN rows \ {v} : rows'[w] = rows[w]
    /\ rows'[v].manifest = rows[v].manifest /\ rows'[v].previous = rows[v].previous
    /\ rows'[v].snapshot = rows[v].snapshot
    /\ rows'[v].status = status /\ rows'[v].totalBytes = total

Completes(j) ==
    /\ pc[j] = "complete" /\ rows[Version(j)].status = "PENDING"
    /\ work[j].total <= ColumnMax
    /\ Becomes(Version(j), "COMPLETE", work[j].total)
    /\ \A o \in objectRows' \ objectRows : o.version = Version(j)
    /\ objectRows \subseteq objectRows'

MarksFailed(j) ==
    /\ pc[j] = "fail"
    /\ Becomes(Version(j), "FAILED", rows[Version(j)].totalBytes)
    /\ objectRows' = objectRows

LEMMA RowMoves ==
    ASSUME TypeInv, SafeInv, NEW j \in Jobs, Moves(j)
    PROVE  UNCHANGED <<rows, objectRows>> \/ Reserves(j) \/ Completes(j) \/ MarksFailed(j)
<1>1. rows \in [DOMAIN rows -> Row]
  BY DEF TypeInv, TypeOK, StoreType
<1>2. CASE Reserve(j)
  <2>1. Version(j) \notin DOMAIN rows
    BY <1>2 DEF Reserve, SafeInv, IdsInv
  <2> QED
    BY <1>2, <2>1 DEF Reserve, Add, Reserves, NewRow
<1>3. ASSUME pc[j] = "complete", work[j].total <= ColumnMax, CommitComplete(j)
      PROVE  Completes(j)
  <2>1. Version(j) \in DOMAIN rows /\ rows[Version(j)].status = "PENDING"
    BY <1>3 DEF SafeInv, IdsInv, RowsInv, Owning, Holding
  <2> DEFINE done == [rows[Version(j)] EXCEPT !.status = "COMPLETE",
                                               !.objectCount = work[j].stored,
                                               !.totalBytes = work[j].total]
  <2>2. rows' = [rows EXCEPT ![Version(j)] = done]
    BY <1>1, <1>3, <2>1 DEF CommitComplete
  <2>3. /\ done.status = "COMPLETE" /\ done.totalBytes = work[j].total
        /\ done.manifest = rows[Version(j)].manifest /\ done.previous = rows[Version(j)].previous
        /\ done.snapshot = rows[Version(j)].snapshot
    BY <1>1, <2>1 DEF Row
  <2> HIDE DEF done
  <2>4. Becomes(Version(j), "COMPLETE", work[j].total)
    BY <1>1, <2>1, <2>2, <2>3 DEF Becomes
  <2> QED
    BY <1>3, <2>1, <2>4 DEF Completes, CommitComplete
<1>4. CASE MarkFailed(j)
  <2>1. Version(j) \in DOMAIN rows
    BY <1>4 DEF MarkFailed, SafeInv, IdsInv, Owning
  <2>2. rows' = [rows EXCEPT ![Version(j)].status = "FAILED"]
    BY <1>4 DEF MarkFailed
  <2> QED
    BY <1>1, <1>4, <2>1, <2>2 DEF MarkFailed, MarksFailed, Becomes, Row
<1>5. CASE Complete(j) \/ CompleteCommitLost(j)
  BY <1>3, <1>5 DEF Complete, CompleteCommitLost, store
<1>6. CASE ~Reserve(j) /\ ~Complete(j) /\ ~CompleteCommitLost(j) /\ ~MarkFailed(j)
  BY <1>6 DEF Moves, Launch, Step, Fail, NextSource, Finish, Exit, Blocked, GiveUp, Plan, Download,
              DownloadTooLarge, FindComplete, FindConflict, Return, FindNothing, ReadLatest, Stamp,
              ReserveCollides, Place, PlaceUnsafe, Stat, PutObject, StatManifest, PutManifest,
              CompleteOverflows, Refresh, MarkFailedRaises, NetworkFails, VaultFails,
              CompleteFlushFails, RefreshFails, TimesOut, Crash, store
<1> QED
  BY <1>2, <1>4, <1>5, <1>6

-----------------------------------------------------------------------------
(* What a step does to the locals of a job. *)

Locals(j) == <<pc[j], work[j], snapshot[j], result[j], todo[j]>>

LEMMA Elsewhere ==
    ASSUME TypeInv, NEW j \in Jobs, Moves(j), NEW k \in Jobs \ {j}
    PROVE  Locals(k)' = Locals(k)
<1> USE DEF TypeInv, TypeOK, JobType, Locals, GoTo, control
<1>1. CASE Launch(j)
  BY <1>1 DEF Launch
<1>2. CASE \E s \in Sources : NextSource(j, s)
  BY <1>2 DEF NextSource
<1>3. CASE Finish(j) \/ PlaceUnsafe(j) \/ MarkFailed(j) \/ MarkFailedRaises(j) \/ TimesOut(j) \/ Crash(j)
  BY <1>3 DEF Finish, PlaceUnsafe, MarkFailed, MarkFailedRaises, TimesOut, Crash, Exit
<1>4. CASE Blocked(j) \/ DownloadTooLarge(j) \/ NetworkFails(j)
  BY <1>4 DEF Blocked, DownloadTooLarge, NetworkFails, GiveUp
<1>5. CASE \E v \in DOMAIN rows : FindComplete(j, v) \/ FindConflict(j, v)
  BY <1>5 DEF FindComplete, FindConflict, GiveUp, Return
<1>6. CASE Download(j) \/ Stamp(j) \/ PutObject(j) \/ \E p \in DOMAIN rows \cup {NoVersion} : ReadLatest(j, p)
  BY <1>6 DEF Download, Stamp, PutObject, ReadLatest
<1>7. CASE Plan(j) \/ FindNothing(j) \/ Reserve(j) \/ ReserveCollides(j) \/ Place(j) \/ Stat(j)
           \/ StatManifest(j) \/ PutManifest(j) \/ Complete(j) \/ CompleteOverflows(j)
  BY <1>7 DEF Plan, FindNothing, Reserve, ReserveCollides, Place, Stat, StatManifest, PutManifest, Complete,
              CompleteOverflows
<1>8. CASE Refresh(j) \/ VaultFails(j) \/ CompleteFlushFails(j) \/ CompleteCommitLost(j) \/ RefreshFails(j)
  BY <1>8 DEF Refresh, Return, VaultFails, CompleteFlushFails, CompleteCommitLost, RefreshFails
<1> QED
  BY <1>1, <1>2, <1>3, <1>4, <1>5, <1>6, <1>7, <1>8 DEF Moves, Step, Fail

(* A job that has planned keeps what it downloaded and the list it read. *)
Downloading == {"download"} \cup Downloaded

Keeps(j) ==
    /\ work'[j].got = work[j].got /\ work'[j].total = work[j].total
    /\ work'[j].source = work[j].source /\ snapshot'[j] = snapshot[j]

(* The ways to come to a label. *)
LEMMA Arrivals ==
    ASSUME TypeInv, NEW j \in Jobs, Moves(j)
    PROVE  /\ pc'[j] = "govern" => \E s \in Sources : NextSource(j, s)
           /\ pc'[j] \in Downloading => Plan(j) \/ Download(j) \/ (pc[j] \in Downloading /\ Keeps(j))
           /\ pc'[j] \in {"stamp"} \cup Numbered =>
                 \/ \E p \in DOMAIN rows \cup {NoVersion} : ReadLatest(j, p)
                 \/ Stamp(j)
                 \/ /\ pc[j] \in Numbered /\ Version(j)' = Version(j) /\ Source(j)' = Source(j)
                    /\ work'[j].previous = work[j].previous
           /\ pc'[j] = "fail" => VaultFails(j) \/ RefreshFails(j)
           /\ pc'[j] = "refresh" => Complete(j)
           /\ \/ result'[j] \in {result[j], NoResult}
              \/ Refresh(j)
              \/ \E v \in DOMAIN rows : FindComplete(j, v)
<1> USE DEF TypeInv, TypeOK, JobType, GoTo, control, Downloading, Downloaded, Numbered, Owning, Holding,
            Keeps, Version, Source
<1>1. CASE Launch(j)
  BY <1>1 DEF Launch
<1>2. CASE \E s \in Sources : NextSource(j, s)
  BY <1>2 DEF NextSource
<1>3. CASE Finish(j) \/ PlaceUnsafe(j) \/ MarkFailed(j) \/ MarkFailedRaises(j) \/ TimesOut(j) \/ Crash(j)
  BY <1>3 DEF Finish, PlaceUnsafe, MarkFailed, MarkFailedRaises, TimesOut, Crash, Exit
<1>4. CASE Blocked(j) \/ DownloadTooLarge(j) \/ NetworkFails(j)
  BY <1>4 DEF Blocked, DownloadTooLarge, NetworkFails, GiveUp
<1>5. CASE \E v \in DOMAIN rows : FindComplete(j, v) \/ FindConflict(j, v)
  BY <1>5 DEF FindComplete, FindConflict, GiveUp, Return
<1>6. CASE Download(j)
  BY <1>6 DEF Download
<1>6a. CASE Stamp(j)
  <2>1. work[j] \in Work /\ work' = [work EXCEPT ![j].version = issued + 1]
    BY <1>6a DEF Stamp
  <2>2. /\ work'[j].got = work[j].got /\ work'[j].total = work[j].total
        /\ work'[j].source = work[j].source
    BY <2>1 DEF Work
  <2> QED
    BY <1>6a, <2>2 DEF Stamp
<1>7. CASE PutObject(j)
  <2>1. work[j] \in Work
    BY DEF Work
  <2> QED
    BY <1>7, <2>1 DEF PutObject, Work
<1>8. CASE \E p \in DOMAIN rows \cup {NoVersion} : ReadLatest(j, p)
  <2> PICK p \in DOMAIN rows \cup {NoVersion} : ReadLatest(j, p)
    BY <1>8
  <2>1. work[j] \in Work /\ work' = [work EXCEPT ![j].previous = p]
    BY DEF ReadLatest
  <2>2. /\ work'[j].got = work[j].got /\ work'[j].total = work[j].total
        /\ work'[j].source = work[j].source
    BY <2>1 DEF Work
  <2>3. pc[j] = "latest" /\ pc'[j] = "stamp" /\ snapshot' = snapshot /\ result' = result
    BY DEF ReadLatest
  <2> QED
    BY <1>8, <2>2, <2>3
<1>9. CASE Plan(j) \/ FindNothing(j) \/ Reserve(j) \/ ReserveCollides(j) \/ Place(j) \/ Stat(j)
           \/ StatManifest(j) \/ PutManifest(j) \/ Complete(j) \/ CompleteOverflows(j)
  BY <1>9 DEF Plan, FindNothing, Reserve, ReserveCollides, Place, Stat, StatManifest, PutManifest, Complete,
              CompleteOverflows
<1>10. CASE Refresh(j) \/ VaultFails(j) \/ CompleteFlushFails(j) \/ CompleteCommitLost(j) \/ RefreshFails(j)
  BY <1>10 DEF Refresh, Return, VaultFails, CompleteFlushFails, CompleteCommitLost, RefreshFails
<1> QED
  BY <1>1, <1>2, <1>3, <1>4, <1>5, <1>6, <1>7, <1>8, <1>9, <1>10, <1>6a DEF Moves, Step, Fail

-----------------------------------------------------------------------------
(* Governance. *)

Sized(j) ==
    /\ \A i \in DOMAIN work[j].got : ByteSize[work[j].got[i]] <= MaxObjectBytes
    /\ work[j].total <= MaxTotalBytes /\ Resources[Source(j)] <= MaxResources

GovernInv ==
    /\ \A j \in Jobs : pc[j] = "govern" => work[j].total = 0
    /\ \A j \in Jobs : pc[j] \in Downloading =>
           /\ Permitted(OwnSnapshot(j)) /\ HeadersResolve(OwnSnapshot(j))
           /\ Sized(j)
    /\ VersionsAreGoverned

LEMMA GovernJob ==
    ASSUME TypeInv, GovernInv, NEW j \in Jobs, Moves(j)
    PROVE  /\ pc'[j] = "govern" => work'[j].total = 0
           /\ pc'[j] \in Downloading =>
                  /\ Permitted(OwnSnapshot(j)') /\ HeadersResolve(OwnSnapshot(j)')
                  /\ Sized(j)'
<1>1. pc'[j] = "govern" => work'[j].total = 0
  <2> SUFFICES ASSUME pc'[j] = "govern" PROVE work'[j].total = 0
    OBVIOUS
  <2> PICK s \in Sources : NextSource(j, s)
    BY Arrivals
  <2> QED
    BY DEF NextSource, NoWork, TypeInv, TypeOK, JobType
<1>2. CASE Plan(j)
  <2>1. /\ pc[j] = "govern" /\ Allowed(j) /\ work' = work /\ snapshot' = snapshot
        /\ work[j].got = <<>> /\ work[j].total = 0
    BY <1>2 DEF Plan, control, GovernInv, TypeInv, Shape
  <2>2. Sized(j)'
    BY <2>1, HarvesterAssumption DEF Sized, Allowed, Source
  <2> QED
    BY <1>1, <2>1, <2>2 DEF Allowed, OwnSnapshot, Source
<1>3. CASE Download(j)
  <2>1. /\ pc[j] = "download" /\ WithinLimits(j) /\ snapshot' = snapshot
        /\ work' = [work EXCEPT ![j].got = Append(work[j].got, upstream[Source(j)]),
                                ![j].total = work[j].total + IncomingSize(j)]
    BY <1>3 DEF Download, control
  <2>2. work[j] \in Work /\ work[j].got \in Seq(Revisions) /\ Source(j) \in Sources
    BY <2>1, LocalTypes DEF TypeInv, Shape
  <2>3. /\ work'[j].got = Append(work[j].got, upstream[Source(j)])
        /\ work'[j].total = work[j].total + IncomingSize(j)
        /\ work'[j].source = work[j].source
    BY <2>1, <2>2 DEF Work, TypeInv, TypeOK, JobType
  <2>4. Sized(j) /\ Permitted(OwnSnapshot(j)) /\ HeadersResolve(OwnSnapshot(j))
    BY <2>1 DEF GovernInv, Downloading
  <2>5. upstream[Source(j)] \in Revisions
    BY <2>2 DEF TypeInv, TypeOK, WorldType
  <2>6. \A i \in DOMAIN work'[j].got : ByteSize[work'[j].got[i]] <= MaxObjectBytes
    <3> TAKE i \in DOMAIN work'[j].got
    <3>1. \/ i \in DOMAIN work[j].got /\ work'[j].got[i] = work[j].got[i]
          \/ work'[j].got[i] = upstream[Source(j)]
      BY <2>2, <2>3, <2>5
    <3> QED
      BY <2>1, <2>4, <3>1 DEF Sized, WithinLimits, IncomingSize
  <2>7. Sized(j)'
    BY <2>1, <2>3, <2>4, <2>6 DEF Sized, WithinLimits, Source
  <2> QED
    BY <1>1, <2>1, <2>3, <2>4, <2>7 DEF OwnSnapshot, Source
<1>4. CASE pc[j] \in Downloading /\ Keeps(j)
  BY <1>1, <1>4 DEF GovernInv, Keeps, Sized, OwnSnapshot, Source
<1> QED
  BY <1>1, <1>2, <1>3, <1>4, Arrivals

LEMMA GovernRows ==
    ASSUME TypeInv, SafeInv, GovernInv, NEW j \in Jobs, Moves(j)
    PROVE  VersionsAreGoverned'
<1> DEFINE Governed(row) ==
        /\ Permitted(row.snapshot) /\ HeadersResolve(row.snapshot)
        /\ row.manifest.provenance = row.snapshot.provenance
        /\ Len(row.manifest.objects) <= MaxResources
        /\ \A i \in DOMAIN row.manifest.objects : ByteSize[row.manifest.objects[i]] <= MaxObjectBytes
        /\ row.totalBytes <= MaxTotalBytes /\ row.totalBytes <= ColumnMax
<1>1. \A v \in DOMAIN rows : Governed(rows[v])
  BY DEF GovernInv, VersionsAreGoverned
<1>2. ASSUME \A v \in DOMAIN rows' : Governed(rows'[v]) PROVE VersionsAreGoverned'
  BY <1>2 DEF VersionsAreGoverned
<1>3. CASE UNCHANGED <<rows, objectRows>>
  BY <1>1, <1>2, <1>3
<1>4. CASE Reserves(j)
  <2>1. /\ Permitted(OwnSnapshot(j)) /\ HeadersResolve(OwnSnapshot(j)) /\ Sized(j)
    BY <1>4 DEF Reserves, GovernInv, Downloading, Downloaded
  <2>1a. Len(work[j].got) = Resources[Source(j)]
    BY <1>4 DEF Reserves, TypeInv, Shape, Downloaded
  <2>2. /\ NewRow(j).snapshot = OwnSnapshot(j) /\ NewRow(j).totalBytes = 0
        /\ NewRow(j).manifest.provenance = OwnSnapshot(j).provenance
        /\ NewRow(j).manifest.objects = work[j].got
    BY DEF NewRow, OwnManifest, Manifest
  <2>3. 0 <= MaxTotalBytes /\ 0 <= ColumnMax
    BY HarvesterAssumption
  <2>4. Governed(NewRow(j))
    BY <2>1, <2>1a, <2>2, <2>3 DEF Sized
  <2> HIDE DEF Governed
  <2> QED
    BY <1>1, <1>2, <1>4, <2>4 DEF Reserves
<1>5. CASE Completes(j)
  <2>1. work[j].total <= MaxTotalBytes /\ work[j].total <= ColumnMax
    BY <1>5 DEF Completes, GovernInv, Downloading, Downloaded, Owning, Holding, Sized
  <2>2. Governed(rows'[Version(j)])
    BY <1>1, <1>5, <2>1 DEF Completes, Becomes
  <2> HIDE DEF Governed
  <2> QED
    BY <1>1, <1>2, <1>5, <2>2 DEF Completes, Becomes
<1>6. CASE MarksFailed(j)
  <2>1. Governed(rows'[Version(j)])
    BY <1>1, <1>6 DEF MarksFailed, Becomes
  <2> HIDE DEF Governed
  <2> QED
    BY <1>1, <1>2, <1>6, <2>1 DEF MarksFailed, Becomes
<1> QED
  BY <1>3, <1>4, <1>5, <1>6, RowMoves

LEMMA GovernStep ==
    ASSUME TypeInv, SafeInv, GovernInv, NEW j \in Jobs, Moves(j)
    PROVE  GovernInv'
<1>1. \A k \in Jobs \ {j} : UNCHANGED <<pc[k], work[k], snapshot[k]>>
  BY Elsewhere DEF Locals
<1> QED
  BY <1>1, GovernJob, GovernRows DEF GovernInv, Sized, OwnSnapshot, Source

-----------------------------------------------------------------------------
(* What is COMPLETE stays so, unless a refresh fails. *)

(* The handler of a failure finds its version PENDING, a refresh finds it   *)
(* COMPLETE, and only COMPLETE versions have object rows.                   *)
StatusInv ==
    /\ \A j \in Jobs : pc[j] = "fail" => rows[Version(j)].status = "PENDING"
    /\ \A j \in Jobs : pc[j] = "refresh" => rows[Version(j)].status = "COMPLETE"
    /\ \A o \in objectRows : o.version \in DOMAIN rows /\ rows[o.version].status = "COMPLETE"

(* The predecessor a job has read stays one until it has its row. *)
ReadInv ==
    \A j \in Jobs : pc[j] \in {"stamp"} \cup Numbered /\ work[j].previous # NoVersion =>
        /\ work[j].previous \in CompleteOf(Source(j))
        /\ pc[j] \in Numbered => work[j].previous < Version(j)

LaterInv == RefreshWorks => StatusInv /\ ReadInv /\ PredecessorIsComplete /\ ResultsAreComplete

CatalogueInv == GovernInv /\ LaterInv

(* What a step leaves of the rows there are. *)
Settled ==
    /\ \A v \in DOMAIN rows :
         /\ v \in DOMAIN rows'
         /\ rows'[v].manifest = rows[v].manifest
         /\ rows'[v].previous = rows[v].previous
         /\ rows[v].status \in {"COMPLETE", "FAILED"} => rows'[v] = rows[v]
    /\ objectRows \subseteq objectRows'

LEMMA RowsSettle ==
    ASSUME TypeInv, SafeInv, StatusInv, NEW j \in Jobs, Moves(j)
    PROVE  Settled
<1>1. CASE UNCHANGED <<rows, objectRows>>
  BY <1>1 DEF Settled
<1>2. CASE Reserves(j)
  BY <1>2 DEF Reserves, Settled
<1>3. CASE Completes(j)
  BY <1>3 DEF Completes, Becomes, Settled
<1>4. CASE MarksFailed(j)
  BY <1>4 DEF MarksFailed, Becomes, Settled, StatusInv
<1> QED
  BY <1>1, <1>2, <1>3, <1>4, RowMoves

(* A step of a job does not touch the row another one owns. *)
LEMMA OthersRows ==
    ASSUME TypeInv, SafeInv, NEW j \in Jobs, Moves(j), NEW k \in Jobs \ {j}, pc[k] \in Owning
    PROVE  Version(k) \in DOMAIN rows /\ rows'[Version(k)] = rows[Version(k)]
<1>1. Version(k) \in DOMAIN rows
  BY DEF SafeInv, IdsInv
<1>2. pc[j] \in Numbered => Version(j) # Version(k)
  BY DEF SafeInv, IdsInv, Numbered
<1>3. CASE UNCHANGED <<rows, objectRows>>
  BY <1>1, <1>3
<1>4. CASE Reserves(j)
  BY <1>1, <1>4 DEF Reserves
<1>5. CASE Completes(j) \/ MarksFailed(j)
  BY <1>1, <1>2, <1>5 DEF Completes, MarksFailed, Becomes, Numbered, Owning, Holding
<1> QED
  BY <1>1, <1>3, <1>4, <1>5, RowMoves

LEMMA StatusStep ==
    ASSUME TypeInv, SafeInv, StatusInv, RefreshWorks, NEW j \in Jobs, Moves(j)
    PROVE  StatusInv'
<1>1. \A k \in Jobs \ {j} : /\ pc'[k] = pc[k] /\ Version(k)' = Version(k)
                            /\ pc[k] \in Owning => rows'[Version(k)] = rows[Version(k)]
  BY Elsewhere, OthersRows DEF Locals, Version
<1>2. pc'[j] = "fail" => rows'[Version(j)'].status = "PENDING"
  <2> SUFFICES ASSUME pc'[j] = "fail" PROVE rows'[Version(j)'].status = "PENDING"
    OBVIOUS
  <2>1. VaultFails(j)
    BY Arrivals DEF RefreshFails, Fault, RefreshWorks
  <2>2. pc[j] \in Holding /\ rows' = rows /\ work' = work
    BY <2>1 DEF VaultFails, Holding
  <2> QED
    BY <2>2 DEF SafeInv, RowsInv, Version
<1>3. pc'[j] = "refresh" => rows'[Version(j)'].status = "COMPLETE"
  <2> SUFFICES ASSUME pc'[j] = "refresh" PROVE rows'[Version(j)'].status = "COMPLETE"
    OBVIOUS
  <2>1. Complete(j)
    BY Arrivals
  <2>2. pc[j] = "complete" /\ work' = work
    BY <2>1 DEF Complete
  <2>3. rows \in [DOMAIN rows -> Row] /\ Version(j) \in DOMAIN rows
    BY <2>2 DEF TypeInv, TypeOK, StoreType, SafeInv, IdsInv, Owning, Holding
  <2>4. rows'[Version(j)].status = "COMPLETE"
    BY <2>1, <2>3 DEF Complete, CommitComplete, Row
  <2> QED
    BY <2>2, <2>4 DEF Version
<1>4. \A o \in objectRows' : o.version \in DOMAIN rows' /\ rows'[o.version].status = "COMPLETE"
  <2>1. Settled
    BY RowsSettle
  <2>2. \A o \in objectRows : o.version \in DOMAIN rows' /\ rows'[o.version].status = "COMPLETE"
    BY <2>1 DEF Settled, StatusInv
  <2>3. CASE Completes(j)
    BY <2>2, <2>3 DEF Completes, Becomes
  <2>4. CASE objectRows' = objectRows
    BY <2>2, <2>4
  <2> QED
    BY <2>3, <2>4, RowMoves DEF Reserves, MarksFailed
<1>5. \A k \in Jobs : pc'[k] = "fail" => rows'[Version(k)'].status = "PENDING"
  BY <1>1, <1>2 DEF StatusInv, Owning
<1>6. \A k \in Jobs : pc'[k] = "refresh" => rows'[Version(k)'].status = "COMPLETE"
  BY <1>1, <1>3 DEF StatusInv, Owning
<1> QED
  BY <1>4, <1>5, <1>6 DEF StatusInv, Version

LEMMA ReadStep ==
    ASSUME TypeInv, SafeInv, ReadInv, Settled, NEW j \in Jobs, Moves(j)
    PROVE  ReadInv'
<1>1. ASSUME NEW s, NEW p \in CompleteOf(s)
      PROVE  p \in DOMAIN rows' /\ rows'[p].manifest.source = s /\ rows'[p].status = "COMPLETE"
  BY <1>1 DEF Settled, CompleteOf
<1>2. ASSUME NEW k \in Jobs, work'[k].previous \in CompleteOf(Source(k)), Source(k)' = Source(k),
             pc'[k] \in Numbered => work'[k].previous < Version(k)'
      PROVE  /\ work'[k].previous \in CompleteOf(Source(k))'
             /\ pc'[k] \in Numbered => work'[k].previous < Version(k)'
  BY <1>1, <1>2 DEF CompleteOf
<1> SUFFICES ASSUME NEW k \in Jobs, pc'[k] \in {"stamp"} \cup Numbered, work'[k].previous # NoVersion
             PROVE  /\ work'[k].previous \in CompleteOf(Source(k)) /\ Source(k)' = Source(k)
                    /\ pc'[k] \in Numbered => work'[k].previous < Version(k)'
  BY <1>2 DEF ReadInv
<1>3. CASE k # j
  <2>1. pc'[k] = pc[k] /\ work'[k] = work[k]
    BY <1>3, Elsewhere DEF Locals
  <2> QED
    BY <2>1 DEF ReadInv, Source, Version
<1>4. ASSUME k = j, NEW p \in DOMAIN rows \cup {NoVersion}, ReadLatest(j, p)
      PROVE  /\ work'[k].previous \in CompleteOf(Source(k)) /\ Source(k)' = Source(k)
             /\ pc'[k] \in Numbered => work'[k].previous < Version(k)'
  <2>1. work[j] \in Work /\ work' = [work EXCEPT ![j].previous = p] /\ pc'[j] = "stamp"
    BY <1>4, LocalTypes DEF ReadLatest, GoTo, TypeInv, TypeOK, JobType
  <2>2. work'[j].previous = p /\ work'[j].source = work[j].source
    BY <2>1 DEF Work, TypeInv, TypeOK, JobType
  <2>3. p \in CompleteOf(Source(j))
    BY <1>4, <2>2 DEF ReadLatest
  <2> QED
    BY <1>4, <2>1, <2>2, <2>3 DEF Source, Numbered, Owning, Holding
<1>5. CASE k = j /\ Stamp(j)
  <2>1. /\ pc[j] = "stamp" /\ issued \in Nat
        /\ work[j] \in Work /\ work' = [work EXCEPT ![j].version = issued + 1]
    BY <1>5, LocalTypes DEF Stamp, TypeInv, TypeOK, StoreType
  <2>2. /\ work'[j].version = issued + 1 /\ work'[j].previous = work[j].previous
        /\ work'[j].source = work[j].source
    BY <2>1 DEF Work, TypeInv, TypeOK, JobType
  <2>3. work[j].previous \in CompleteOf(Source(j))
    BY <1>5, <2>1, <2>2 DEF ReadInv
  <2>4. work[j].previous \in Nat /\ work[j].previous <= issued
    BY <2>3, HarvesterAssumption DEF CompleteOf, SafeInv, IdsInv, TypeInv, TypeOK, StoreType
  <2> QED
    BY <1>5, <2>1, <2>2, <2>3, <2>4 DEF Source, Version
<1>6. CASE /\ k = j /\ pc[j] \in Numbered /\ Version(j)' = Version(j) /\ Source(j)' = Source(j)
           /\ work'[j].previous = work[j].previous
  BY <1>6 DEF ReadInv
<1> QED
  BY <1>3, <1>4, <1>5, <1>6, Arrivals

LEMMA PredecessorStep ==
    ASSUME TypeInv, SafeInv, ReadInv, PredecessorIsComplete, Settled, NEW j \in Jobs, Moves(j)
    PROVE  PredecessorIsComplete'
<1> DEFINE Precedes(p, v) ==
        /\ p \in DOMAIN rows' /\ p < v /\ rows'[p].status = "COMPLETE"
        /\ rows'[p].manifest.source = rows'[v].manifest.source
        /\ rows'[p].manifest # rows'[v].manifest
<1>1. ASSUME NEW v \in DOMAIN rows, rows[v].previous # NoVersion
      PROVE  rows'[v].previous = rows[v].previous /\ Precedes(rows[v].previous, v)
  BY <1>1 DEF PredecessorIsComplete, Settled
<1>2. CASE Reserves(j)
  <2> DEFINE p == work[j].previous
             v == Version(j)
  <2>1. /\ rows'[v].previous = p /\ rows'[v].manifest = OwnManifest(j)
        /\ rows'[v].manifest.source = Source(j)
    BY <1>2 DEF Reserves, NewRow, OwnManifest, Manifest
  <2>2. ASSUME p # NoVersion PROVE Precedes(p, v)
    <3>1. p \in CompleteOf(Source(j)) /\ p < v
      BY <1>2, <2>2 DEF Reserves, ReadInv, Numbered
    <3>2. p \in DOMAIN rows /\ rows[p].manifest # OwnManifest(j)
      BY <1>2, <3>1 DEF Reserves, VersionsOf, CompleteOf
    <3> QED
      BY <2>1, <3>1, <3>2 DEF Settled, CompleteOf
  <2>3. DOMAIN rows' = DOMAIN rows \cup {v}
    BY <1>2 DEF Reserves
  <2> HIDE DEF p, v, Precedes
  <2>4. \A w \in DOMAIN rows' : rows'[w].previous # NoVersion => Precedes(rows'[w].previous, w)
    BY <1>1, <2>1, <2>2, <2>3 DEF Settled
  <2> QED
    BY <2>4 DEF PredecessorIsComplete, Precedes
<1>3. CASE DOMAIN rows' = DOMAIN rows
  <2> HIDE DEF Precedes
  <2>1. \A w \in DOMAIN rows' : rows'[w].previous # NoVersion => Precedes(rows'[w].previous, w)
    BY <1>1, <1>3 DEF Settled
  <2> QED
    BY <2>1 DEF PredecessorIsComplete, Precedes
<1> QED
  BY <1>2, <1>3, RowMoves DEF Completes, MarksFailed, Becomes

LEMMA ResultStep ==
    ASSUME TypeInv, SafeInv, StatusInv, ResultsAreComplete, Settled, NEW j \in Jobs, Moves(j)
    PROVE  ResultsAreComplete'
<1>1. ASSUME NEW v \in DOMAIN rows, rows[v].status = "COMPLETE"
      PROVE  v \in DOMAIN rows' /\ rows'[v].status = "COMPLETE"
  BY <1>1 DEF Settled
<1> SUFFICES ASSUME NEW k \in Jobs, result'[k].disposition # "NONE"
             PROVE  result'[k].version \in DOMAIN rows' /\ rows'[result'[k].version].status = "COMPLETE"
  BY DEF ResultsAreComplete
<1>2. CASE result'[k] = result[k]
  BY <1>1, <1>2 DEF ResultsAreComplete
<1>3. CASE k = j /\ Refresh(j)
  <2>1. pc[j] = "refresh" /\ result'[j].version = Version(j)
    BY <1>3 DEF Refresh, Return, TypeInv, TypeOK, JobType
  <2>2. Version(j) \in DOMAIN rows /\ rows[Version(j)].status = "COMPLETE"
    BY <2>1 DEF StatusInv, SafeInv, IdsInv, Owning
  <2> QED
    BY <1>1, <1>3, <2>1, <2>2
<1>4. ASSUME k = j, NEW v \in DOMAIN rows, FindComplete(j, v)
      PROVE  result'[k].version \in DOMAIN rows' /\ rows'[result'[k].version].status = "COMPLETE"
  <2>1. rows[v].status = "COMPLETE" /\ result'[j].version = v
    BY <1>4 DEF FindComplete, Return, TypeInv, TypeOK, JobType
  <2> QED
    BY <1>1, <1>4, <2>1
<1>5. result'[k] = NoResult => FALSE
  BY DEF NoResult
<1>6. CASE k # j
  BY <1>2, <1>6, Elsewhere DEF Locals
<1> QED
  BY <1>2, <1>3, <1>4, <1>5, <1>6, Arrivals

LEMMA CatalogueJob ==
    ASSUME TypeInv, SafeInv, CatalogueInv, NEW j \in Jobs, Moves(j)
    PROVE  CatalogueInv'
<1>1. GovernInv'
  BY GovernStep DEF CatalogueInv
<1>2. ASSUME RefreshWorks PROVE StatusInv' /\ ReadInv' /\ PredecessorIsComplete' /\ ResultsAreComplete'
  <2>1. StatusInv /\ ReadInv /\ PredecessorIsComplete /\ ResultsAreComplete
    BY <1>2 DEF CatalogueInv, LaterInv
  <2>2. Settled
    BY <2>1, RowsSettle
  <2> QED
    BY <1>2, <2>1, <2>2, StatusStep, ReadStep, PredecessorStep, ResultStep
<1> QED
  BY <1>1, <1>2 DEF CatalogueInv, LaterInv

LEMMA CatalogueKept ==
    ASSUME CatalogueInv, UNCHANGED <<rows, objectRows, pc, work, snapshot, result>>
    PROVE  CatalogueInv'
<1>1. GovernInv'
  BY DEF CatalogueInv, GovernInv, VersionsAreGoverned, Sized, OwnSnapshot, Source
<1>2. LaterInv'
  BY DEF CatalogueInv, LaterInv, RefreshWorks, StatusInv, ReadInv, CompleteOf, Source, Version,
         PredecessorIsComplete, ResultsAreComplete
<1> QED
  BY <1>1, <1>2 DEF CatalogueInv

LEMMA CatalogueInvariance == Spec => []CatalogueInv
<1>1. Init => CatalogueInv
  <2> SUFFICES ASSUME Init PROVE CatalogueInv
    OBVIOUS
  <2>1. GovernInv
    BY DEF Init, GovernInv, VersionsAreGoverned, Downloading, Downloaded, Owning, Holding
  <2>2. LaterInv
    BY DEF Init, LaterInv, StatusInv, ReadInv, Numbered, Owning, Holding, PredecessorIsComplete,
           ResultsAreComplete, NoResult
  <2> QED
    BY <2>1, <2>2 DEF CatalogueInv
<1>2. ASSUME TypeInv, SafeInv, CatalogueInv, [Next]_vars PROVE CatalogueInv'
  <2>1. CASE UNCHANGED vars
    BY <1>2, <2>1, CatalogueKept DEF vars, store, control
  <2>2. ASSUME NEW s \in Sources, \/ \E r \in Revisions : PublishUpstream(s, r)
                                  \/ \E r \in Registrations : ReplaceSource(s, r)
        PROVE  CatalogueInv'
    BY <1>2, <2>2, CatalogueKept DEF PublishUpstream, ReplaceSource, store, control
  <2> QED
    BY <1>2, <2>1, <2>2, CatalogueJob DEF Next, Rest, Moves
<1> QED
  BY <1>1, <1>2, Invariance, PTL DEF Spec

-----------------------------------------------------------------------------
(* No version exists of a source whose registration, as the job listed it,  *)
(* did not let it be acquired, nor one beyond the limits (service.py:95-170)*)
THEOREM VersionsObeyGovernance == Spec => []VersionsAreGoverned
<1>1. CatalogueInv => VersionsAreGoverned
  BY DEF CatalogueInv, GovernInv
<1> QED
  BY <1>1, CatalogueInvariance, PTL

(* A predecessor is an earlier COMPLETE version of the same source with     *)
(* other bytes, however jobs race between the query and the reservation.    *)
THEOREM PredecessorsAreComplete == RefreshWorks => (Spec => []PredecessorIsComplete)
<1> SUFFICES ASSUME RefreshWorks PROVE Spec => []PredecessorIsComplete
  OBVIOUS
<1>1. CatalogueInv => PredecessorIsComplete
  BY DEF CatalogueInv, LaterInv
<1> QED
  BY <1>1, CatalogueInvariance, PTL

(* The version a result names is COMPLETE as long as the result is held.    *)
THEOREM ResultsStayComplete == RefreshWorks => (Spec => []ResultsAreComplete)
<1> SUFFICES ASSUME RefreshWorks PROVE Spec => []ResultsAreComplete
  OBVIOUS
<1>1. CatalogueInv => ResultsAreComplete
  BY DEF CatalogueInv, LaterInv
<1> QED
  BY <1>1, CatalogueInvariance, PTL

(* No step removes a version or changes one that is COMPLETE or FAILED.     *)
THEOREM VersionsAreImmutable == RefreshWorks => (Spec => Immutable)
<1> SUFFICES ASSUME RefreshWorks PROVE Spec => Immutable
  OBVIOUS
<1>1. ASSUME TypeInv, SafeInv, CatalogueInv, [Next]_vars PROVE Settled
  <2>1. CASE UNCHANGED <<rows, objectRows>>
    BY <2>1 DEF Settled
  <2>2. ASSUME NEW s \in Sources, \/ \E r \in Revisions : PublishUpstream(s, r)
                                  \/ \E r \in Registrations : ReplaceSource(s, r)
        PROVE  UNCHANGED <<rows, objectRows>>
    BY <2>2 DEF PublishUpstream, ReplaceSource, store
  <2>3. ASSUME NEW j \in Jobs, Moves(j) PROVE Settled
    BY <1>1, <2>3, RowsSettle DEF CatalogueInv, LaterInv
  <2> QED
    BY <1>1, <2>1, <2>2, <2>3 DEF Next, Rest, Moves, vars, store
<1>2. TypeInv /\ SafeInv /\ CatalogueInv /\ [Next]_vars => [Settled]_vars
  BY <1>1
<1> QED
  BY <1>2, Invariance, CatalogueInvariance, PTL DEF Spec, Immutable, Settled

-----------------------------------------------------------------------------
(* Refinement of DatasetVersions. *)

(* What a reader learns of a version whose row is this. *)
Seen(row) ==
    [manifest |-> row.manifest, previous |-> row.previous, status |-> row.status,
     content |-> IF row.status = "COMPLETE" THEN row.manifest.objects ELSE <<>>]

Shown == Catalogue = [v \in DOMAIN rows |-> Seen(rows[v])]

(* The way through the object rows and the vault ends at the manifest's     *)
(* bytes, or nowhere.                                                       *)
LEMMA CatalogueShows == ASSUME TypeInv, SafeInv, StatusInv PROVE Shown
<1> SUFFICES ASSUME NEW v \in DOMAIN rows
             PROVE  Content(v) = Seen(rows[v]).content
  BY DEF Shown, Catalogue, Seen
<1> DEFINE m == rows[v].manifest
<1>1. m \in Manifests
  BY DEF TypeInv, TypeOK, StoreType, Row
<1>2. PICK s \in Sources : m.objects \in [1..Resources[s] -> Revisions]
  BY <1>1 DEF Manifests
<1>3. Resources[s] \in Nat
  BY HarvesterAssumption
<1>4. Len(m.objects) = Resources[s] /\ m.objects = [i \in 1..Resources[s] |-> m.objects[i]]
  <2> HIDE DEF m
  <2>1. m.objects \in Seq(Revisions)
    BY <1>2, <1>3
  <2> QED
    BY <1>2, <1>3, <2>1
<1>5. CASE rows[v].status = "COMPLETE"
  <2>1. ReadsAs(v, m.objects)
    BY <1>5 DEF SafeInv, CompleteIsBacked, Backed
  <2>2. {o.index : o \in RowsOf(v)} = 1..Resources[s]
    BY <1>4, <2>1 DEF ReadsAs
  <2>3. ASSUME NEW i \in 1..Resources[s]
        PROVE  vault[(CHOOSE o \in RowsOf(v) : o.index = i).key] = m.objects[i]
    <3>1. \E o \in RowsOf(v) : o.index = i
      BY <2>2
    <3> DEFINE c == CHOOSE o \in RowsOf(v) : o.index = i
    <3>2. c \in RowsOf(v) /\ c.index = i
      BY <3>1
    <3> HIDE DEF c
    <3>3. vault[c.key] = m.objects[c.index]
      BY <2>1, <3>2 DEF ReadsAs
    <3> QED
      BY <3>2, <3>3 DEF c
  <2>4. Content(v) = [i \in 1..Resources[s] |-> m.objects[i]]
    BY <2>2, <2>3 DEF Content
  <2> QED
    BY <1>4, <1>5, <2>4 DEF Seen
<1>6. CASE rows[v].status # "COMPLETE"
  <2>1. RowsOf(v) = {}
    BY <1>6 DEF StatusInv, RowsOf
  <2>2. Content(v) = <<>>
    BY <2>1 DEF Content
  <2> QED
    BY <1>6, <2>2 DEF Seen
<1> QED
  BY <1>5, <1>6

(* The rows a step leaves look like one abstract step, or none. *)
LEMMA RowsRefine ==
    ASSUME TypeInv, SafeInv, StatusInv, ReadInv, Shown, Shown', NEW j \in Jobs, Moves(j)
    PROVE  [Abstract!Next]_Catalogue
<1> DEFINE v == Version(j)
<1>1. /\ Catalogue = [w \in DOMAIN rows |-> Seen(rows[w])]
      /\ Catalogue' = [w \in DOMAIN rows' |-> Seen(rows'[w])]
  BY DEF Shown, Seen
<1>2. CASE UNCHANGED <<rows, objectRows>>
  BY <1>1, <1>2
<1>3. CASE Reserves(j)
  <2> DEFINE m == OwnManifest(j)
             p == work[j].previous
             new == [manifest |-> m, previous |-> p, status |-> "PENDING", content |-> <<>>]
  <2>1. m \in Manifests /\ v \in VersionIds /\ v \notin DOMAIN rows /\ m.source = Source(j)
    BY <1>3, ManifestType DEF Reserves, TypeInv, Shape, Downloaded, OwnManifest, Manifest
  <2>2. \A w \in DOMAIN rows : rows[w].manifest # m
    BY <1>3 DEF Reserves, VersionsOf
  <2>3. p = NoVersion \/ (p \in CompleteOf(Source(j)) /\ p < v)
    BY <1>3 DEF Reserves, ReadInv, Numbered
  <2>4. Seen(rows'[v]) = new
    BY <1>3 DEF Reserves, NewRow, Seen
  <2>5. /\ DOMAIN rows' = DOMAIN rows \cup {v}
        /\ \A w \in DOMAIN rows : rows'[w] = rows[w]
    BY <1>3 DEF Reserves
  <2> HIDE DEF v, m, p, new
  <2>6. Catalogue' = [w \in DOMAIN Catalogue \cup {v} |-> IF w = v THEN new ELSE Catalogue[w]]
    BY <1>1, <2>1, <2>4, <2>5
  <2>7. DOMAIN Catalogue = DOMAIN rows
    BY <1>1
  <2>8. \A w \in DOMAIN Catalogue : Catalogue[w].manifest # m
    BY <1>1, <2>2 DEF Seen
  <2>9. \/ p = NoVersion
        \/ /\ p \in DOMAIN Catalogue /\ p < v /\ Catalogue[p].status = "COMPLETE"
           /\ Catalogue[p].manifest.source = m.source
    BY <1>1, <2>1, <2>3 DEF CompleteOf, Seen
  <2>10. Abstract!ReserveVersion(v, m, p)
    BY <2>1, <2>6, <2>7, <2>8, <2>9 DEF Abstract!ReserveVersion, Abstract!Add, Abstract!NoVersion,
                                       NoVersion, new
  <2>11. p \in DOMAIN Catalogue \cup {NoVersion}
    BY <2>9
  <2> QED
    BY <2>1, <2>10, <2>11 DEF Abstract!Next, Abstract!NoVersion, NoVersion
<1>4. CASE Completes(j) \/ MarksFailed(j)
  <2>1. rows \in [DOMAIN rows -> Row] /\ v \in DOMAIN rows /\ rows[v].status = "PENDING"
    BY <1>4 DEF Completes, MarksFailed, Becomes, StatusInv, TypeInv, TypeOK, StoreType
  <2>2. /\ DOMAIN rows' = DOMAIN rows /\ \A w \in DOMAIN rows \ {v} : rows'[w] = rows[w]
        /\ rows'[v].manifest = rows[v].manifest /\ rows'[v].previous = rows[v].previous
        /\ rows'[v].status \in {"COMPLETE", "FAILED"}
    BY <1>4 DEF Completes, MarksFailed, Becomes
  <2> HIDE DEF v
  <2>3. v \in DOMAIN Catalogue /\ Catalogue[v] = Seen(rows[v]) /\ Catalogue[v].status = "PENDING"
    BY <1>1, <2>1 DEF Seen
  <2>4. Catalogue' = [Catalogue EXCEPT ![v] = Seen(rows'[v])]
    BY <1>1, <2>1, <2>2
  <2>5. CASE rows'[v].status = "COMPLETE"
    <3> DEFINE m == rows[v].manifest
               p == rows[v].previous
               old == [manifest |-> m, previous |-> p, status |-> "PENDING", content |-> <<>>]
               open == [manifest |-> m, previous |-> p, status |-> "COMPLETE", content |-> <<>>]
               new == [manifest |-> m, previous |-> p, status |-> "COMPLETE", content |-> m.objects]
    <3>1. Seen(rows[v]) = old /\ Seen(rows'[v]) = new
      BY <2>1, <2>2, <2>5 DEF Seen
    <3> HIDE DEF m, p
    <3>2. new = [old EXCEPT !.status = "COMPLETE", !.content = m.objects]
      <4>1. open = [old EXCEPT !.status = "COMPLETE"]
        OBVIOUS
      <4>2. new = [open EXCEPT !.content = m.objects]
        OBVIOUS
      <4> QED
        BY <4>1, <4>2, Zenon
    <3>3. old.manifest = m
      OBVIOUS
    <3> HIDE DEF old, new
    <3>4. Abstract!Publish(v)
      BY <2>3, <2>4, <3>1, <3>2, <3>3 DEF Abstract!Publish
    <3> QED
      BY <2>3, <3>4 DEF Abstract!Next
  <2>6. CASE rows'[v].status = "FAILED"
    <3>1. Seen(rows'[v]) = [Seen(rows[v]) EXCEPT !.status = "FAILED"]
      BY <2>1, <2>2, <2>6 DEF Seen
    <3>2. Abstract!Fail(v)
      BY <2>3, <2>4, <3>1 DEF Abstract!Fail, Seen
    <3> QED
      BY <2>3, <3>2 DEF Abstract!Next
  <2> QED
    BY <2>2, <2>5, <2>6
<1> QED
  BY <1>2, <1>3, <1>4, RowMoves

(* Jobs that race, fail, are killed and started again look to the readers   *)
(* of the catalogue like one that reserves, publishes and fails versions    *)
(* atomically.                                                              *)
THEOREM HarvesterImplementsCatalogue == RefreshWorks => (Spec => ImplementsCatalogue)
<1> SUFFICES ASSUME RefreshWorks PROVE Spec => ImplementsCatalogue
  OBVIOUS
<1>1. Init => Abstract!Init
  <2> SUFFICES ASSUME Init PROVE Catalogue = <<>>
    BY DEF Abstract!Init
  <2>1. DOMAIN rows = {}
    BY DEF Init
  <2> QED
    BY <2>1 DEF Catalogue
<1>2. TypeInv /\ SafeInv /\ CatalogueInv => Shown /\ StatusInv /\ ReadInv
  BY CatalogueShows DEF CatalogueInv, LaterInv
<1>3. ASSUME TypeInv, SafeInv, StatusInv, ReadInv, Shown, Shown', [Next]_vars
      PROVE  [Abstract!Next]_Catalogue
  <2>1. ASSUME UNCHANGED store PROVE [Abstract!Next]_Catalogue
    <3>1. rows' = rows
      BY <2>1 DEF store
    <3>2. Catalogue' = Catalogue
      BY <1>3, <3>1 DEF Shown, Seen
    <3> QED
      BY <3>2
  <2>2. ASSUME NEW s \in Sources, \/ \E r \in Revisions : PublishUpstream(s, r)
                                  \/ \E r \in Registrations : ReplaceSource(s, r)
        PROVE  UNCHANGED store
    BY <2>2 DEF PublishUpstream, ReplaceSource
  <2>3. UNCHANGED vars => UNCHANGED store
    BY DEF vars
  <2> QED
    BY <1>3, <2>1, <2>2, <2>3, RowsRefine DEF Next, Rest, Moves
<1> QED
  BY <1>1, <1>2, <1>3, Invariance, CatalogueInvariance, PTL
     DEF Spec, ImplementsCatalogue, Abstract!Spec

-----------------------------------------------------------------------------
(* Reservations and their jobs. *)

(* Every fault comes before the reservation or is one that harvest_source   *)
(* handles with a usable session, and nothing raises outside its try once   *)
(* the version is reserved: totals fit the column, cities are safe.         *)
FaultsAreHandled ==
    /\ Faults \subseteq {"network", "timeout", "vault", "refresh"}
    /\ MaxTotalBytes <= ColumnMax
    /\ \A r \in Registrations : r.citySafe

OwnersInv ==
    /\ \A j \in Jobs : pc[j] # "failInvalid"
    /\ \A j \in Jobs : pc[j] = "refresh" => rows[Version(j)].status = "COMPLETE"
    /\ NoOrphanedReservation

(* A job lets go of a reservation only when it is resolved. *)
LEMMA LettingGo ==
    ASSUME TypeInv, SafeInv, GovernInv, OwnersInv, FaultsAreHandled, NEW j \in Jobs, Moves(j)
    PROVE  /\ pc'[j] # "failInvalid"
           /\ pc[j] \in Owning =>
                 \/ pc'[j] \in Owning /\ Version(j)' = Version(j)
                 \/ rows'[Version(j)].status # "PENDING"
           /\ Reserves(j) => pc'[j] = "place" /\ Version(j)' = Version(j)
<1> USE DEF TypeInv, TypeOK, JobType, GoTo, control, Owning, Holding, Version
<1>1. {MaxTotalBytes, ColumnMax} \subseteq Nat /\ work[j].total \in Nat
  BY HarvesterAssumption DEF Work
<1>2. pc[j] \in Downloaded => work[j].total <= ColumnMax
  BY <1>1 DEF GovernInv, Downloading, Sized, FaultsAreHandled
<1>3. pc[j] \in Owning => OwnSnapshot(j).citySafe
  BY ManifestType DEF Downloaded, FaultsAreHandled
<1>4. \A kind \in {"flush", "commit", "crash"} : ~Fault(kind)
  BY DEF Fault, FaultsAreHandled
<1>5. CASE Launch(j)
  BY <1>5 DEF Launch, Reserves
<1>6. CASE (\E s \in Sources : NextSource(j, s)) \/ Finish(j) \/ TimesOut(j)
  BY <1>6 DEF NextSource, Finish, TimesOut, Exit, Reserves
<1>7. CASE Blocked(j) \/ DownloadTooLarge(j) \/ NetworkFails(j)
  BY <1>7 DEF Blocked, DownloadTooLarge, NetworkFails, GiveUp, Reserves
<1>8. CASE \E v \in DOMAIN rows : FindComplete(j, v) \/ FindConflict(j, v)
  BY <1>8 DEF FindComplete, FindConflict, GiveUp, Return, Reserves
<1>9. CASE Download(j) \/ Stamp(j) \/ \E p \in DOMAIN rows \cup {NoVersion} : ReadLatest(j, p)
  BY <1>9 DEF Download, Stamp, ReadLatest, Reserves
<1>10. CASE Plan(j) \/ FindNothing(j) \/ Reserve(j) \/ Place(j) \/ Stat(j) \/ StatManifest(j)
            \/ PutManifest(j) \/ Complete(j) \/ VaultFails(j) \/ RefreshFails(j)
  BY <1>10 DEF Plan, FindNothing, Reserve, Place, Stat, StatManifest, PutManifest, Complete, VaultFails,
               RefreshFails, Reserves
<1>11. CASE ReserveCollides(j)
  BY <1>11 DEF ReserveCollides, Reserves
<1>12. CASE PutObject(j)
  <2>1. work[j] \in Work /\ work' = [work EXCEPT ![j].stored = work[j].stored + 1]
    BY <1>12 DEF PutObject
  <2>2. work'[j].version = work[j].version
    BY <2>1 DEF Work
  <2> QED
    BY <1>12, <2>2 DEF PutObject, Reserves
<1>13. CASE Refresh(j)
  BY <1>13 DEF Refresh, Return, OwnersInv, store, Reserves
<1>14. CASE MarkFailed(j)
  <2>1. rows \in [DOMAIN rows -> Row] /\ Version(j) \in DOMAIN rows
    BY <1>14 DEF MarkFailed, StoreType, SafeInv, IdsInv
  <2>2. rows'[Version(j)].status = "FAILED"
    BY <1>14, <2>1 DEF MarkFailed, Row
  <2> QED
    BY <1>14, <2>2 DEF MarkFailed, Exit, Reserves
<1>15. ~PlaceUnsafe(j) /\ ~MarkFailedRaises(j) /\ ~CompleteOverflows(j)
  BY <1>1, <1>2, <1>3 DEF PlaceUnsafe, MarkFailedRaises, CompleteOverflows, OwnersInv, Downloaded
<1>16. ~CompleteFlushFails(j) /\ ~CompleteCommitLost(j) /\ ~Crash(j)
  BY <1>4 DEF CompleteFlushFails, CompleteCommitLost, Crash
<1> QED
  BY <1>5, <1>6, <1>7, <1>8, <1>9, <1>10, <1>11, <1>12, <1>13, <1>14, <1>15, <1>16 DEF Moves, Step, Fail

LEMMA OwnersStep ==
    ASSUME TypeInv, SafeInv, GovernInv, OwnersInv, FaultsAreHandled, NEW j \in Jobs, Moves(j)
    PROVE  OwnersInv'
<1>1. \A k \in Jobs \ {j} : /\ pc'[k] = pc[k] /\ Version(k)' = Version(k)
                            /\ pc[k] \in Owning => rows'[Version(k)] = rows[Version(k)]
  BY Elsewhere, OthersRows DEF Locals, Version
<1>2. \A k \in Jobs : pc'[k] # "failInvalid"
  BY <1>1, LettingGo DEF OwnersInv
<1>3. ASSUME NEW k \in Jobs, pc'[k] = "refresh" PROVE rows'[Version(k)'].status = "COMPLETE"
  <2>1. CASE k # j
    BY <1>1, <1>3, <2>1 DEF OwnersInv, Owning
  <2>2. CASE k = j
    <3>1. Complete(j)
      BY <1>3, <2>2, Arrivals
    <3>2. rows \in [DOMAIN rows -> Row] /\ Version(j) \in DOMAIN rows
      BY <3>1 DEF Complete, TypeInv, TypeOK, StoreType, SafeInv, IdsInv, Owning, Holding
    <3>3. rows'[Version(j)].status = "COMPLETE" /\ work' = work
      BY <3>1, <3>2 DEF Complete, CommitComplete, Row
    <3> QED
      BY <2>2, <3>3 DEF Version
  <2> QED
    BY <2>1, <2>2
<1>4. ASSUME NEW v \in DOMAIN rows', rows'[v].status = "PENDING"
      PROVE  \E k \in Jobs : pc'[k] \in Owning /\ Version(k)' = v
  <2>1. CASE v \in DOMAIN rows /\ rows[v].status = "PENDING"
    <3> PICK k \in Jobs : pc[k] \in Owning /\ Version(k) = v
      BY <2>1 DEF OwnersInv, NoOrphanedReservation
    <3>1. CASE k # j
      BY <1>1, <3>1
    <3>2. CASE k = j
      BY <1>4, <3>2, LettingGo
    <3> QED
      BY <3>1, <3>2
  <2>2. CASE Reserves(j) /\ v = Version(j)
    BY <2>2, LettingGo DEF Owning, Holding
  <2>3. (v \in DOMAIN rows /\ rows[v].status = "PENDING") \/ (Reserves(j) /\ v = Version(j))
    BY <1>4, RowMoves DEF Reserves, Completes, MarksFailed, Becomes
  <2> QED
    BY <2>1, <2>2, <2>3
<1>5. \A k \in Jobs : pc'[k] = "refresh" => rows'[Version(k)'].status = "COMPLETE"
  BY <1>3
<1>6. NoOrphanedReservation'
  BY <1>4 DEF NoOrphanedReservation, Version
<1> QED
  BY <1>2, <1>5, <1>6 DEF OwnersInv, Version

(* While every fault comes before a reservation or is one that              *)
(* harvest_source handles, no PENDING version is ever without the job that  *)
(* works on it, however many jobs race and fail (service.py:264-350).       *)
THEOREM ReservationsAreOwned == FaultsAreHandled => (Spec => []NoOrphanedReservation)
<1> SUFFICES ASSUME FaultsAreHandled PROVE Spec => []NoOrphanedReservation
  OBVIOUS
<1>1. Init => OwnersInv
  BY DEF Init, OwnersInv, NoOrphanedReservation
<1>2. ASSUME TypeInv, SafeInv, CatalogueInv, OwnersInv, [Next]_vars PROVE OwnersInv'
  <2>1. CASE UNCHANGED <<rows, pc, work>>
    BY <1>2, <2>1 DEF OwnersInv, NoOrphanedReservation, Version
  <2>2. ASSUME NEW s \in Sources, \/ \E r \in Revisions : PublishUpstream(s, r)
                                  \/ \E r \in Registrations : ReplaceSource(s, r)
        PROVE  UNCHANGED <<rows, pc, work>>
    BY <2>2 DEF PublishUpstream, ReplaceSource, store
  <2> QED
    BY <1>2, <2>1, <2>2, OwnersStep DEF CatalogueInv, Next, Rest, Moves, vars, store
<1>3. OwnersInv => NoOrphanedReservation
  BY DEF OwnersInv
<1> QED
  BY <1>1, <1>2, <1>3, Invariance, CatalogueInvariance, PTL DEF Spec

-----------------------------------------------------------------------------
(* The errors for states that should not be. *)

(* A manifest that has a version keeps it: no row is ever removed and none  *)
(* changes its manifest.                                                    *)
CollisionInv == \A j \in Jobs : pc[j] = "requery" => VersionsOf(OwnManifest(j)) # {}

LEMMA ManifestsStay ==
    ASSUME TypeInv, SafeInv, NEW j \in Jobs, Moves(j), NEW m
    PROVE  VersionsOf(m) \subseteq VersionsOf(m)'
<1>1. DOMAIN rows \subseteq DOMAIN rows' /\ \A v \in DOMAIN rows : rows'[v].manifest = rows[v].manifest
  BY RowMoves DEF Reserves, Completes, MarksFailed, Becomes
<1> QED
  BY <1>1 DEF VersionsOf

LEMMA CollisionStep ==
    ASSUME TypeInv, SafeInv, CollisionInv, NEW j \in Jobs, Moves(j)
    PROVE  CollisionInv'
<1>1. ASSUME NEW k \in Jobs \ {j}, pc'[k] = "requery" PROVE VersionsOf(OwnManifest(k))' # {}
  <2>1. Locals(k)' = Locals(k)
    BY Elsewhere
  <2>2. OwnManifest(k)' = OwnManifest(k) /\ pc[k] = "requery"
    BY <1>1, <2>1 DEF Locals, OwnManifest, OwnSnapshot, Source
  <2>3. PICK m : m = OwnManifest(k)
    OBVIOUS
  <2>4. VersionsOf(m) # {} /\ VersionsOf(m) \subseteq VersionsOf(m)'
    BY <2>2, <2>3, ManifestsStay DEF CollisionInv
  <2> QED
    BY <2>2, <2>3, <2>4 DEF VersionsOf
<1>2. ASSUME pc'[j] = "requery" PROVE VersionsOf(OwnManifest(j))' # {}
  <2> USE DEF TypeInv, TypeOK, JobType, GoTo
  <2>1. ReserveCollides(j)
    <3>1. ~Launch(j) /\ \A s \in Sources : ~NextSource(j, s)
      BY <1>2 DEF Launch, NextSource
    <3>2. ~(Finish(j) \/ PlaceUnsafe(j) \/ MarkFailed(j) \/ MarkFailedRaises(j) \/ TimesOut(j) \/ Crash(j))
      BY <1>2 DEF Finish, PlaceUnsafe, MarkFailed, MarkFailedRaises, TimesOut, Crash, Exit
    <3>3. ~(Blocked(j) \/ DownloadTooLarge(j) \/ NetworkFails(j))
      BY <1>2 DEF Blocked, DownloadTooLarge, NetworkFails, GiveUp
    <3>4. \A v \in DOMAIN rows : ~(FindComplete(j, v) \/ FindConflict(j, v))
      BY <1>2 DEF FindComplete, FindConflict, GiveUp, Return
    <3>5. ~(Download(j) \/ Stamp(j) \/ PutObject(j) \/ \E p \in DOMAIN rows \cup {NoVersion} : ReadLatest(j, p))
      BY <1>2 DEF Download, Stamp, PutObject, ReadLatest
    <3>6. ~(Plan(j) \/ FindNothing(j) \/ Reserve(j) \/ Place(j) \/ Stat(j)
           \/ StatManifest(j) \/ PutManifest(j) \/ Complete(j) \/ CompleteOverflows(j))
      BY <1>2 DEF Plan, FindNothing, Reserve, Place, Stat, StatManifest, PutManifest, Complete,
                  CompleteOverflows
    <3>7. ~(Refresh(j) \/ VaultFails(j) \/ CompleteFlushFails(j) \/ CompleteCommitLost(j) \/ RefreshFails(j))
      BY <1>2 DEF Refresh, Return, VaultFails, CompleteFlushFails, CompleteCommitLost, RefreshFails
    <3> QED
      BY <3>1, <3>2, <3>3, <3>4, <3>5, <3>6, <3>7 DEF Moves, Step, Fail
  <2>2. UNCHANGED <<rows, work, snapshot>> /\ VersionsOf(OwnManifest(j)) # {}
    BY <2>1 DEF ReserveCollides, store, control
  <2> QED
    BY <2>2 DEF VersionsOf, OwnManifest, OwnSnapshot, Source
<1> QED
  BY <1>1, <1>2 DEF CollisionInv

LEMMA CollisionInvariance == Spec => []CollisionInv
<1>1. Init => CollisionInv
  BY DEF Init, CollisionInv
<1>2. ASSUME CollisionInv, UNCHANGED <<rows, pc, work, snapshot>> PROVE CollisionInv'
  BY <1>2 DEF CollisionInv, VersionsOf, OwnManifest, OwnSnapshot, Source
<1>3. ASSUME TypeInv, SafeInv, CollisionInv, [Next]_vars PROVE CollisionInv'
  <2>1. CASE UNCHANGED vars
    BY <1>2, <1>3, <2>1 DEF vars, store, control
  <2>2. ASSUME NEW s \in Sources, \/ \E r \in Revisions : PublishUpstream(s, r)
                                  \/ \E r \in Registrations : ReplaceSource(s, r)
        PROVE  CollisionInv'
    BY <1>2, <1>3, <2>2 DEF PublishUpstream, ReplaceSource, store, control
  <2> QED
    BY <1>3, <2>1, <2>2, CollisionStep DEF Next, Rest, Moves
<1> QED
  BY <1>1, <1>3, Invariance, PTL DEF Spec

(* What the code raises for states that should not be, and this model leaves *)
(* out, is never raised, whatever races and fails: no key is there before    *)
(* its put, a reservation that collides finds the version it collided with,  *)
(* the version to complete is there and PENDING (vault.py, repository.py).   *)
THEOREM ImpossibleErrorsNeverHappen == Spec => []NoImpossibleError
<1>1. ASSUME TypeInv, SafeInv, CollisionInv PROVE NoImpossibleError
  <2>1. KeysAreFresh
    BY <1>1, FreshKeys
  <2>2. ASSUME NEW j \in Jobs
        PROVE  /\ pc[j] = "requery" => VersionsOf(OwnManifest(j)) # {}
               /\ pc[j] \in {"complete", "fail"} => Version(j) \in DOMAIN rows
               /\ pc[j] = "complete" => rows[Version(j)].status = "PENDING"
    <3>1. pc[j] \in {"complete", "fail"} => pc[j] \in Owning
      BY DEF Owning, Holding
    <3>2. pc[j] = "complete" => pc[j] \in Holding
      BY DEF Holding
    <3> QED
      BY <1>1, <3>1, <3>2 DEF SafeInv, IdsInv, RowsInv, CollisionInv
  <2> QED
    BY <2>1, <2>2 DEF NoImpossibleError
<1>2. TypeInv /\ SafeInv /\ CollisionInv => NoImpossibleError
  BY <1>1
<1> QED
  BY <1>2, Invariance, CollisionInvariance, PTL

-----------------------------------------------------------------------------
(* Every job is finite. *)

(* The steps left, label by label. *)
Table(j) ==
    /\ pc[j] = "off" => StepsLeft(j) = 0
    /\ pc[j] = "next" => StepsLeft(j) = 1
    /\ pc[j] \in {"requery", "fail", "failInvalid"} => StepsLeft(j) = 2
    /\ pc[j] = "refresh" => StepsLeft(j) = 3
    /\ pc[j] = "complete" => StepsLeft(j) = 4
    /\ pc[j] = "putManifest" => StepsLeft(j) = 5
    /\ pc[j] = "statManifest" => StepsLeft(j) = 6
    /\ pc[j] = "put" => StepsLeft(j) = 6 + 2 * (Resources[Source(j)] - work[j].stored)
    /\ pc[j] = "stat" => StepsLeft(j) = 7 + 2 * (Resources[Source(j)] - work[j].stored)
    /\ pc[j] = "place" => StepsLeft(j) = 8 + 2 * Resources[Source(j)]
    /\ pc[j] = "reserve" => StepsLeft(j) = 9 + 2 * Resources[Source(j)]
    /\ pc[j] = "stamp" => StepsLeft(j) = 10 + 2 * Resources[Source(j)]
    /\ pc[j] = "latest" => StepsLeft(j) = 11 + 2 * Resources[Source(j)]
    /\ pc[j] = "find" => StepsLeft(j) = 12 + 2 * Resources[Source(j)]
    /\ pc[j] = "download" => StepsLeft(j) = 12 + 2 * Resources[Source(j)]
                                            + (Resources[Source(j)] - Len(work[j].got))
    /\ pc[j] = "govern" => StepsLeft(j) = 13 + 3 * Resources[Source(j)]

LEMMA StepsTable == ASSUME NEW j \in Jobs PROVE Table(j) /\ Table(j)'
<1>1. Table(j)
  BY DEF Table, StepsLeft
<1>2. Table(j)'
  BY DEF Table, StepsLeft
<1> QED
  BY <1>1, <1>2

LEMMA StepComesNearer ==
    ASSUME TypeInv, NEW j \in Jobs, Step(j) \/ Fail(j)
    PROVE  Nearer(j)
<1> DEFINE n == Resources[Source(j)]
<1>0. Table(j) /\ Table(j)'
  BY StepsTable
<1>1. /\ pc[j] \in PcLabels /\ work[j] \in Work
      /\ Len(work[j].got) \in Nat /\ work[j].stored \in Nat
      /\ pc[j] \notin {"off", "next"} => n \in Nat \ {0}
  BY LocalTypes DEF TypeInv, TypeOK, JobType, Shape
<1>2. /\ pc[j] = "download" => Len(work[j].got) < n
      /\ pc[j] \in {"stat", "put"} => work[j].stored < n
      /\ pc[j] = "place" => work[j].stored = 0
      /\ pc[j] = "govern" => Len(work[j].got) = 0
  BY DEF TypeInv, Shape, Downloaded, Owning, Holding
<1>3. pc[j] \in {"stat", "put"} => Resources[Source(j)] - work[j].stored \in Nat \ {0}
  BY <1>1, <1>2
<1>3a. pc[j] = "download" => Resources[Source(j)] - Len(work[j].got) \in Nat \ {0}
  BY <1>1, <1>2
<1>4. pc[j] \notin {"off", "next"} => StepsLeft(j) \in Nat \ {0, 1}
  <2>1. pc[j] \in {"govern", "find", "latest", "stamp", "reserve", "place"} => StepsLeft(j) \in Nat \ {0, 1}
    BY <1>0, <1>1 DEF Table
  <2>2. pc[j] \in {"stat", "put"} => StepsLeft(j) \in Nat \ {0, 1}
    BY <1>0, <1>3 DEF Table
  <2>3. pc[j] = "download" => StepsLeft(j) \in Nat \ {0, 1}
    BY <1>0, <1>1, <1>3a DEF Table
  <2>4. pc[j] \in {"statManifest", "putManifest", "complete", "refresh", "requery", "fail", "failInvalid"}
            => StepsLeft(j) \in Nat \ {0, 1}
    BY <1>0 DEF Table
  <2> QED
    BY <1>1, <2>1, <2>2, <2>3, <2>4 DEF PcLabels, Owning, Holding
<1>4a. pc[j] # "off" => StepsLeft(j) > 0
  BY <1>0, <1>4 DEF Table
<1>5. CASE Finish(j) \/ PlaceUnsafe(j) \/ MarkFailed(j) \/ MarkFailedRaises(j) \/ TimesOut(j) \/ Crash(j)
  <2>1. pc[j] # "off" /\ pc'[j] = "off" /\ todo'[j] = {}
    BY <1>5 DEF TypeInv, TypeOK, JobType, GoTo, control, Finish, PlaceUnsafe, MarkFailed, MarkFailedRaises, TimesOut, Crash, Exit
  <2>2. StepsLeft(j)' = 0
    BY <1>0, <2>1 DEF Table
  <2> QED
    BY <1>4a, <2>1, <2>2 DEF Nearer
<1>6. CASE \E s \in Sources : NextSource(j, s)
  BY <1>6 DEF TypeInv, TypeOK, JobType, GoTo, control, NextSource, Nearer
<1>7. CASE Blocked(j) \/ DownloadTooLarge(j) \/ NetworkFails(j) \/ Refresh(j)
           \/ \E v \in DOMAIN rows : FindComplete(j, v) \/ FindConflict(j, v)
  <2>1. pc[j] \notin {"off", "next"} /\ pc'[j] = "next" /\ todo'[j] = todo[j]
    BY <1>7 DEF TypeInv, TypeOK, JobType, GoTo, control, Blocked, DownloadTooLarge, NetworkFails, GiveUp, FindComplete, FindConflict, Return, Refresh
  <2>2. StepsLeft(j)' = 1
    BY <1>0, <2>1 DEF Table
  <2> QED
    BY <1>4, <2>1, <2>2 DEF Nearer
<1>8. CASE VaultFails(j) \/ CompleteOverflows(j) \/ CompleteFlushFails(j) \/ CompleteCommitLost(j)
           \/ RefreshFails(j) \/ ReserveCollides(j)
  <2>1. /\ pc[j] \in {"stat", "put", "statManifest", "putManifest", "complete", "refresh", "reserve"}
        /\ pc'[j] \in {"fail", "failInvalid", "requery"} /\ todo'[j] = todo[j]
    BY <1>8 DEF TypeInv, TypeOK, JobType, GoTo, control, VaultFails, CompleteOverflows, CompleteFlushFails, CompleteCommitLost, RefreshFails,
                ReserveCollides
  <2>2. StepsLeft(j)' = 2
    BY <1>0, <2>1 DEF Table
  <2>3. StepsLeft(j) > 2
    BY <1>0, <1>1, <1>2, <2>1 DEF Table
  <2> QED
    BY <2>1, <2>2, <2>3 DEF Nearer
<1>9. CASE Plan(j) \/ FindNothing(j) \/ Reserve(j) \/ Place(j) \/ Stat(j)
           \/ StatManifest(j) \/ PutManifest(j) \/ Complete(j)
  <2>1. /\ work' = work /\ todo' = todo
        /\ \/ pc[j] = "govern" /\ pc'[j] = "download"
           \/ pc[j] = "find" /\ pc'[j] = "latest"
           \/ pc[j] = "reserve" /\ pc'[j] = "place"
           \/ pc[j] = "place" /\ pc'[j] = "stat"
           \/ pc[j] = "stat" /\ pc'[j] = "put"
           \/ pc[j] = "statManifest" /\ pc'[j] = "putManifest"
           \/ pc[j] = "putManifest" /\ pc'[j] = "complete"
           \/ pc[j] = "complete" /\ pc'[j] = "refresh"
    BY <1>9 DEF TypeInv, TypeOK, JobType, GoTo, control, Plan, FindNothing, Reserve, Place, Stat, StatManifest, PutManifest, Complete
  <2>2. StepsLeft(j)' < StepsLeft(j)
    BY <1>0, <1>1, <1>2, <2>1 DEF Table, Source
  <2> QED
    BY <2>1, <2>2 DEF Nearer
<1>10. CASE Stamp(j) \/ \E p \in DOMAIN rows \cup {NoVersion} : ReadLatest(j, p)
  <2>1. /\ todo' = todo /\ work'[j].source = work[j].source
        /\ \/ pc[j] = "latest" /\ pc'[j] = "stamp"
           \/ pc[j] = "stamp" /\ pc'[j] = "reserve"
    BY <1>1, <1>10 DEF TypeInv, TypeOK, JobType, GoTo, control, Stamp, ReadLatest, Work
  <2>2. StepsLeft(j)' < StepsLeft(j)
    BY <1>0, <1>1, <2>1 DEF Table, Source
  <2> QED
    BY <2>1, <2>2 DEF Nearer
<1>11. CASE Download(j)
  <2>1. upstream[Source(j)] \in Revisions
    BY <1>11 DEF TypeInv, TypeOK, JobType, GoTo, control, Download, Shape, WorldType
  <2>2. /\ todo' = todo /\ work'[j].source = work[j].source
        /\ work'[j].got = Append(work[j].got, upstream[Source(j)])
        /\ pc[j] = "download" /\ pc'[j] \in {"find", "download"}
    BY <1>1, <1>11 DEF TypeInv, TypeOK, JobType, GoTo, control, Download, Work
  <2>3. Len(work'[j].got) = Len(work[j].got) + 1
    BY <1>1, <2>1, <2>2 DEF Work
  <2>4. StepsLeft(j)' < StepsLeft(j)
    BY <1>0, <1>1, <1>2, <2>2, <2>3 DEF Table, Source
  <2> QED
    BY <2>2, <2>4 DEF Nearer
<1>12. CASE PutObject(j)
  <2>1. /\ todo' = todo /\ work'[j].source = work[j].source
        /\ work'[j].stored = work[j].stored + 1
        /\ pc[j] = "put" /\ pc'[j] \in {"stat", "statManifest"}
    BY <1>1, <1>12 DEF TypeInv, TypeOK, JobType, GoTo, control, PutObject, Work
  <2>2. StepsLeft(j)' < StepsLeft(j)
    BY <1>0, <1>1, <1>2, <2>1 DEF Table, Source
  <2> QED
    BY <2>1, <2>2 DEF Nearer
<1> QED
  BY <1>5, <1>6, <1>7, <1>8, <1>9, <1>10, <1>11, <1>12 DEF Step, Fail

(* Each step of a job takes a source off its list or brings it nearer to    *)
(* the end of the harvest it is at, and no step of anyone else sets it      *)
(* back: as the list is finite, so is the job (bootstrap.py, service.py).   *)
THEOREM HarvestJobsAreFinite == Spec => JobsAreFinite
<1> DEFINE Frame(j) == UNCHANGED <<pc[j], todo[j], work[j]>>
           GetsOn == \A j \in Jobs : pc[j] # "off" => Nearer(j) \/ Frame(j)
<1>1. ASSUME TypeInv, [Next]_vars, NEW j \in Jobs, pc[j] # "off" PROVE Nearer(j) \/ Frame(j)
  <2>1. ASSUME NEW k \in Jobs, Moves(k), k # j PROVE Frame(j)
    BY <1>1, <2>1, Elsewhere DEF Locals
  <2>2. CASE Moves(j)
    BY <1>1, <2>2, StepComesNearer DEF Moves, Launch
  <2>3. CASE UNCHANGED <<pc, todo, work>>
    BY <2>3
  <2>4. (\E k \in Jobs : Moves(k)) \/ UNCHANGED <<pc, todo, work>>
    BY <1>1 DEF Next, Moves, PublishUpstream, ReplaceSource, Rest, vars, control
  <2> QED
    BY <2>1, <2>2, <2>3, <2>4
<1>2. TypeInv /\ [Next]_vars => [GetsOn]_vars
  BY <1>1
<1> QED
  BY <1>2, Invariance, PTL DEF Spec, JobsAreFinite
=============================================================================
