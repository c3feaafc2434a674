-------------------------- MODULE HarvesterProofs --------------------------
(***************************************************************************)
(* What holds of the harvester for any number of jobs, sources, revisions  *)
(* and faults.                                                             *)
(***************************************************************************)
EXTENDS Harvester, TLAPS

(* Where a harvest stands bounds what its locals can be. *)
Downloaded == {"find", "latest", "stamp", "reserve", "requery"} \cup Owning

Shape ==
    \A j \in Jobs :
        /\ pc[j] \notin {"off", "next"} => Source(j) \in Sources
        /\ pc[j] = "govern" => work[j].got = <<>>
        /\ pc[j] \in {"govern", "download", "place"} \cup (Downloaded \ Owning)
               => work[j].stored = 0
        /\ pc[j] = "download" => Len(work[j].got) < Resources[Source(j)]
        /\ pc[j] \in Downloaded => Len(work[j].got) = Resources[Source(j)]
        /\ pc[j] \in {"reserve"} \cup Owning => Version(j) \in VersionIds
        /\ pc[j] \in {"stat", "put"} => work[j].stored < Len(work[j].got)
        /\ pc[j] \in {"statManifest", "putManifest", "complete", "refresh"}
               => work[j].stored = Len(work[j].got)

TypeInv == TypeOK /\ Shape

-----------------------------------------------------------------------------
(* A job that has downloaded every resource has a manifest. *)
LEMMA ManifestType ==
    ASSUME TypeInv, NEW j \in Jobs, pc[j] \in Downloaded
    PROVE  OwnManifest(j) \in Manifests /\ OwnSnapshot(j) \in Registrations
<1>1. Source(j) \in Sources /\ Len(work[j].got) = Resources[Source(j)]
  BY DEF TypeInv, Shape, Downloaded, Owning, Holding
<1>2. work[j].got \in Seq(Revisions)
  BY DEF TypeInv, TypeOK, JobType, Work
<1>3. work[j].got \in [1..Resources[Source(j)] -> Revisions]
  BY <1>1, <1>2
<1>4. OwnSnapshot(j) \in Registrations
  BY <1>1 DEF TypeInv, TypeOK, JobType, OwnSnapshot
<1>5. OwnSnapshot(j).provenance \in Provenances
  BY <1>4, HarvesterAssumption DEF SourceRead
<1> QED
  BY <1>1, <1>3, <1>4, <1>5 DEF OwnManifest, Manifest, Manifests

LEMMA TypeInit == Init => TypeInv
<1> SUFFICES ASSUME Init PROVE TypeInv
  OBVIOUS
<1>1. TypeOK
  BY HarvesterAssumption DEF Init, TypeOK, WorldType, StoreType, JobType, NoWork, NoResult, Work, PcLabels, NoVersion
<1>2. Shape
  BY DEF Init, Shape, NoWork, Downloaded, Owning, Holding
<1> QED
  BY <1>1, <1>2 DEF TypeInv

LEMMA WorldKept == ASSUME WorldType, UNCHANGED world PROVE WorldType'
  BY DEF WorldType, world

LEMMA StoreKept == ASSUME StoreType, UNCHANGED store PROVE StoreType'
  BY DEF StoreType, store

LEMMA TypeWorld ==
    ASSUME TypeInv, NEW s \in Sources,
           \/ \E r \in Revisions : PublishUpstream(s, r)
           \/ \E r \in Registrations : ReplaceSource(s, r)
    PROVE  TypeInv'
<1> USE DEF TypeInv, TypeOK
<1>1. WorldType'
  BY DEF WorldType, PublishUpstream, ReplaceSource
<1>2. StoreType'
  BY StoreKept DEF PublishUpstream, ReplaceSource
<1>3. JobType'
  BY DEF JobType, PublishUpstream, ReplaceSource, control
<1>4. Shape'
  BY DEF Shape, Source, Version, PublishUpstream, ReplaceSource
<1> QED
  BY <1>1, <1>2, <1>3, <1>4

LEMMA TypeExit ==
    ASSUME TypeInv, NEW j \in Jobs, Exit(j), faults' \in Nat
    PROVE  WorldType' /\ JobType' /\ Shape'
<1> USE DEF TypeInv, TypeOK
<1>1. WorldType'
  BY WorldKept DEF Exit
<1>2. NoWork \in Work
  BY DEF NoWork, Work, NoVersion
<1>3. JobType'
  BY <1>2 DEF JobType, Exit, GoTo, PcLabels
<1>4. Shape'
  BY DEF Shape, JobType, PcLabels, Source, Version, Exit, GoTo, NoWork, Downloaded, Owning, Holding
<1> QED
  BY <1>1, <1>3, <1>4

LEMMA FreshWork ==
    ASSUME NEW s \in Sources
    PROVE  [NoWork EXCEPT !.source = s] \in Work
<1>1. [NoWork EXCEPT !.source = s] =
         [source |-> s, got |-> <<>>, total |-> 0, previous |-> NoVersion,
          version |-> NoVersion, stored |-> 0]
  BY DEF NoWork
<1>2. <<>> \in Seq(Revisions) /\ 0 \in Nat
  OBVIOUS
<1> QED
  BY <1>1, <1>2 DEF Work

LEMMA LocalTypes ==
    ASSUME TypeInv, NEW j \in Jobs
    PROVE  /\ work[j] \in Work
           /\ Source(j) \in Sources => Resources[Source(j)] \in Nat \ {0}
           /\ Len(work[j].got) \in Nat /\ work[j].got \in Seq(Revisions)
           /\ work[j].stored \in Nat /\ work[j].total \in Nat
           /\ Version(j) \in VersionIds \cup {NoVersion}
<1>1. work[j] \in Work
  BY DEF TypeInv, TypeOK, JobType
<1> QED
  BY <1>1, HarvesterAssumption DEF Work, Version

LEMMA CompleteTypes ==
    ASSUME TypeInv, NEW j \in Jobs, pc[j] = "complete", CommitComplete(j)
    PROVE  StoreType'
<1>1. /\ Source(j) \in Sources /\ Version(j) \in VersionIds
      /\ work[j].stored = Len(work[j].got)
  BY DEF TypeInv, Shape, Owning, Holding
<1>2. \A i \in 1..work[j].stored : work[j].got[i] \in Revisions
  BY <1>1, LocalTypes
<1>3. objectRows' \subseteq [version: VersionIds, index: Nat, bytes: Revisions,
                            key: Sources \X VersionIds \X Nat]
  BY <1>1, <1>2, LocalTypes DEF TypeInv, TypeOK, StoreType, CommitComplete, ObjectKey
<1>4. rows' \in [DOMAIN rows' -> Row] /\ DOMAIN rows' \subseteq VersionIds
  <2> DEFINE done == [rows[Version(j)] EXCEPT !.status = "COMPLETE",
                                               !.objectCount = work[j].stored,
                                               !.totalBytes = work[j].total]
  <2>1. rows \in [DOMAIN rows -> Row] /\ DOMAIN rows \subseteq VersionIds
    BY DEF TypeInv, TypeOK, StoreType
  <2>2. Version(j) \in DOMAIN rows => done \in Row
    BY <2>1, LocalTypes DEF Row
  <2>3. rows' = [rows EXCEPT ![Version(j)] = done]
    BY <2>1 DEF CommitComplete
  <2> QED
    BY <2>1, <2>2, <2>3
<1> QED
  BY <1>3, <1>4 DEF TypeInv, TypeOK, StoreType, CommitComplete

(* The steps of a job keep the types. *)
LEMMA TypeJob ==
    ASSUME TypeInv, NEW j \in Jobs, Launch(j) \/ Step(j) \/ Fail(j)
    PROVE  TypeInv'
<1> USE DEF TypeInv, TypeOK
<1>1. CASE Launch(j)
  <2>1. WorldType'
    BY <1>1, WorldKept DEF Launch
  <2>2. StoreType'
    BY <1>1, StoreKept DEF Launch
  <2>3. JobType'
    BY <1>1 DEF Launch, GoTo, Fault, JobType, PcLabels, Owning, Holding, control, WorldType, Selected, NoResult, NoVersion
  <2>4. Shape'
    BY <1>1 DEF Launch, GoTo, Fault, Shape, JobType, Source, Version, Downloaded, Owning, Holding, PcLabels
  <2> QED
    BY <2>1, <2>2, <2>3, <2>4
<1>2. CASE \E s \in Sources : NextSource(j, s)
  <2> PICK s \in Sources : NextSource(j, s)
    BY <1>2
  <2>1. WorldType' /\ StoreType'
    BY WorldKept, StoreKept DEF NextSource
  <2>2. [NoWork EXCEPT !.source = s] \in Work
    BY FreshWork
  <2>3. JobType'
    BY <2>2 DEF NextSource, GoTo, JobType, PcLabels
  <2>4. Shape'
    BY DEF NextSource, NoWork, GoTo, Fault, Shape, JobType, Source, Version, Downloaded, Owning, Holding, PcLabels
  <2> QED
    BY <2>1, <2>3, <2>4
<1>3. CASE Finish(j)
  <2>1. faults' \in Nat
    BY <1>3 DEF Finish, Fault, JobType
  <2>2. WorldType' /\ JobType' /\ Shape'
    BY <1>3, <2>1, TypeExit DEF Finish
  <2>3. StoreType'
    BY <1>3, StoreKept DEF Finish
  <2> QED
    BY <2>2, <2>3
<1>4. CASE Blocked(j)
  <2>1. WorldType'
    BY <1>4, WorldKept DEF Blocked, GiveUp
  <2>2. StoreType'
    BY <1>4, StoreKept DEF Blocked, GiveUp
  <2>3. JobType'
    BY <1>4 DEF Blocked, GiveUp, GoTo, Fault, JobType, PcLabels, Owning, Holding, control
  <2>4. Shape'
    BY <1>4 DEF Blocked, GiveUp, GoTo, Fault, Shape, JobType, Source, Version, Downloaded, Owning, Holding, PcLabels
  <2> QED
    BY <2>1, <2>2, <2>3, <2>4
<1>5. CASE Plan(j)
  <2>1. WorldType'
    BY <1>5, WorldKept DEF Plan
  <2>2. StoreType'
    BY <1>5, StoreKept DEF Plan
  <2>3. JobType'
    BY <1>5 DEF Plan, GoTo, Fault, JobType, PcLabels, Owning, Holding, control
  <2>4. Shape'
    BY <1>5, LocalTypes DEF Plan, GoTo, Fault, Shape, JobType, Source, Version, Downloaded, Owning, Holding, PcLabels
  <2> QED
    BY <2>1, <2>2, <2>3, <2>4
<1>6. CASE Download(j)
  <2>1. WorldType' /\ StoreType'
    BY <1>6, WorldKept, StoreKept DEF Download
  <2>2. upstream[Source(j)] \in Revisions /\ IncomingSize(j) \in Nat
    BY <1>6, HarvesterAssumption DEF Download, Shape, WorldType, IncomingSize
  <2> DEFINE next == [work[j] EXCEPT !.got = Append(@, upstream[Source(j)]),
                                     !.total = @ + IncomingSize(j)]
  <2>3. next \in Work /\ next.got = Append(work[j].got, upstream[Source(j)])
        /\ next.source = Source(j) /\ next.stored = work[j].stored
        /\ next.version = Version(j)
    <3>1. Append(work[j].got, upstream[Source(j)]) \in Seq(Revisions)
      BY <2>2, LocalTypes
    <3>2. work[j].total + IncomingSize(j) \in Nat
      BY <2>2, LocalTypes
    <3>3. work[j] \in Work
      BY LocalTypes
    <3> QED
      BY <3>1, <3>2, <3>3 DEF Work, Source, Version
  <2>4. work' = [work EXCEPT ![j] = next]
    BY <1>6 DEF Download, JobType
  <2> HIDE DEF next
  <2>5. JobType'
    BY <1>6, <2>3, <2>4 DEF Download, GoTo, JobType, PcLabels, control
  <2>6. Len(next.got) = Len(work[j].got) + 1
    BY <2>2, <2>3, LocalTypes
  <2>7. Shape'
    BY <1>6, <2>3, <2>4, <2>6, LocalTypes DEF Download, GoTo, Fault, Shape, JobType, Source, Version, Downloaded, Owning, Holding, PcLabels
  <2> QED
    BY <2>1, <2>5, <2>7
<1>7. CASE DownloadTooLarge(j)
  <2>1. WorldType'
    BY <1>7, WorldKept DEF DownloadTooLarge, GiveUp
  <2>2. StoreType'
    BY <1>7, StoreKept DEF DownloadTooLarge, GiveUp
  <2>3. JobType'
    BY <1>7 DEF DownloadTooLarge, GiveUp, GoTo, Fault, JobType, PcLabels, Owning, Holding, control
  <2>4. Shape'
    BY <1>7 DEF DownloadTooLarge, GiveUp, GoTo, Fault, Shape, JobType, Source, Version, Downloaded, Owning, Holding, PcLabels
  <2> QED
    BY <2>1, <2>2, <2>3, <2>4
<1>8. CASE \E v \in DOMAIN rows : FindComplete(j, v) \/ FindConflict(j, v)
  <2>1. WorldType' /\ StoreType'
    BY <1>8, WorldKept, StoreKept DEF FindComplete, FindConflict, Return, GiveUp
  <2>2. JobType'
    <3> PICK v \in DOMAIN rows : FindComplete(j, v) \/ FindConflict(j, v)
      BY <1>8
    <3>1. [disposition |-> "UNCHANGED", version |-> v] \in
             [disposition: {"NONE", "CREATED", "UNCHANGED"},
              version: VersionIds \cup {NoVersion}]
      BY DEF StoreType
    <3> QED
      BY <3>1 DEF FindComplete, FindConflict, Return, GiveUp, GoTo, JobType, PcLabels, control
  <2>3. Shape'
    BY <1>8 DEF FindComplete, FindConflict, Return, GiveUp, GoTo, Fault, Shape, JobType, Source, Version, Downloaded, Owning, Holding, PcLabels
  <2> QED
    BY <2>1, <2>2, <2>3
<1>9. CASE FindNothing(j)
  <2>1. WorldType'
    BY <1>9, WorldKept DEF FindNothing
  <2>2. StoreType'
    BY <1>9, StoreKept DEF FindNothing
  <2>3. JobType'
    BY <1>9 DEF FindNothing, GoTo, Fault, JobType, PcLabels, Owning, Holding, control
  <2>4. Shape'
    BY <1>9 DEF FindNothing, GoTo, Fault, Shape, JobType, Source, Version, Downloaded, Owning, Holding, PcLabels
  <2> QED
    BY <2>1, <2>2, <2>3, <2>4
<1>10. CASE \E q \in DOMAIN rows \cup {NoVersion} : ReadLatest(j, q)
  <2> PICK q \in DOMAIN rows \cup {NoVersion} : ReadLatest(j, q)
    BY <1>10
  <2>1. WorldType' /\ StoreType'
    BY WorldKept, StoreKept DEF ReadLatest
  <2>2. q \in VersionIds \cup {NoVersion}
    BY DEF StoreType
  <2>3. JobType'
    BY <2>2, LocalTypes DEF ReadLatest, GoTo, JobType, Work, PcLabels, control
  <2>4. Shape'
    BY LocalTypes DEF ReadLatest, GoTo, Fault, Shape, JobType, Source, Version, Downloaded, Owning, Holding, PcLabels
  <2> QED
    BY <2>1, <2>3, <2>4
<1>11. CASE Stamp(j)
  <2>1. WorldType'
    BY <1>11, WorldKept DEF Stamp
  <2>2. StoreType'
    BY <1>11 DEF Stamp, StoreType
  <2>3. JobType'
    BY <1>11, LocalTypes DEF Stamp, GoTo, Fault, JobType, PcLabels, Owning, Holding, control, Work, StoreType
  <2>4. Shape'
    BY <1>11, LocalTypes DEF Stamp, GoTo, Fault, Shape, JobType, Source, Version, Downloaded, Owning, Holding, PcLabels, StoreType
  <2> QED
    BY <2>1, <2>2, <2>3, <2>4
<1>12. CASE Reserve(j)
  <2>1. WorldType'
    BY <1>12, WorldKept DEF Reserve
  <2>2. StoreType'
    BY <1>12, ManifestType, LocalTypes
       DEF Reserve, StoreType, Row, Add, Shape, Downloaded, Work
  <2>3. JobType'
    BY <1>12 DEF Reserve, GoTo, Fault, JobType, PcLabels, Owning, Holding, control
  <2>4. Shape'
    BY <1>12 DEF Reserve, GoTo, Fault, Shape, JobType, Source, Version, Downloaded, Owning, Holding, PcLabels
  <2> QED
    BY <2>1, <2>2, <2>3, <2>4
<1>13. CASE ReserveCollides(j)
  <2>1. WorldType'
    BY <1>13, WorldKept DEF ReserveCollides
  <2>2. StoreType'
    BY <1>13, StoreKept DEF ReserveCollides
  <2>3. JobType'
    BY <1>13 DEF ReserveCollides, GoTo, Fault, JobType, PcLabels, Owning, Holding, control
  <2>4. Shape'
    BY <1>13 DEF ReserveCollides, GoTo, Fault, Shape, JobType, Source, Version, Downloaded, Owning, Holding, PcLabels
  <2> QED
    BY <2>1, <2>2, <2>3, <2>4
<1>14. CASE Place(j)
  <2>1. WorldType'
    BY <1>14, WorldKept DEF Place
  <2>2. StoreType'
    BY <1>14, StoreKept DEF Place
  <2>3. JobType'
    BY <1>14 DEF Place, GoTo, Fault, JobType, PcLabels, Owning, Holding, control
  <2>4. Shape'
    BY <1>14, LocalTypes DEF Place, GoTo, Fault, Shape, JobType, Source, Version, Downloaded, Owning, Holding, PcLabels
  <2> QED
    BY <2>1, <2>2, <2>3, <2>4
<1>15. CASE PlaceUnsafe(j)
  <2>1. faults' \in Nat
    BY <1>15 DEF PlaceUnsafe, Fault, JobType
  <2>2. WorldType' /\ JobType' /\ Shape'
    BY <1>15, <2>1, TypeExit DEF PlaceUnsafe
  <2>3. StoreType'
    BY <1>15, StoreKept DEF PlaceUnsafe
  <2> QED
    BY <2>2, <2>3
<1>16. CASE Stat(j)
  <2>1. WorldType'
    BY <1>16, WorldKept DEF Stat
  <2>2. StoreType'
    BY <1>16, StoreKept DEF Stat
  <2>3. JobType'
    BY <1>16 DEF Stat, GoTo, Fault, JobType, PcLabels, Owning, Holding, control
  <2>4. Shape'
    BY <1>16 DEF Stat, GoTo, Fault, Shape, JobType, Source, Version, Downloaded, Owning, Holding, PcLabels
  <2> QED
    BY <2>1, <2>2, <2>3, <2>4
<1>17. CASE PutObject(j)
  <2>1. WorldType'
    BY <1>17, WorldKept DEF PutObject
  <2>2. StoreType'
    BY <1>17, LocalTypes DEF PutObject, StoreObject, StoreType, NextKey, ObjectKey, Add, Shape,
                             Owning, Holding, Source, Version
  <2> DEFINE next == [work[j] EXCEPT !.stored = @ + 1]
  <2>3. next \in Work /\ next.got = work[j].got /\ next.source = Source(j)
        /\ next.stored = work[j].stored + 1 /\ next.version = Version(j)
    BY LocalTypes DEF Work, Source, Version
  <2>4. work' = [work EXCEPT ![j] = next]
    BY <1>17 DEF PutObject, JobType
  <2> HIDE DEF next
  <2>5. JobType'
    BY <1>17, <2>3, <2>4 DEF PutObject, GoTo, JobType, PcLabels, Owning, Holding, control
  <2>6. Shape'
    BY <1>17, <2>3, <2>4, LocalTypes DEF PutObject, GoTo, Fault, Shape, JobType, Source, Version, Downloaded, Owning, Holding, PcLabels
  <2> QED
    BY <2>1, <2>2, <2>5, <2>6
<1>18. CASE StatManifest(j)
  <2>1. WorldType'
    BY <1>18, WorldKept DEF StatManifest
  <2>2. StoreType'
    BY <1>18, StoreKept DEF StatManifest
  <2>3. JobType'
    BY <1>18 DEF StatManifest, GoTo, Fault, JobType, PcLabels, Owning, Holding, control
  <2>4. Shape'
    BY <1>18 DEF StatManifest, GoTo, Fault, Shape, JobType, Source, Version, Downloaded, Owning, Holding, PcLabels
  <2> QED
    BY <2>1, <2>2, <2>3, <2>4
<1>19. CASE PutManifest(j)
  <2>1. WorldType'
    BY <1>19, WorldKept DEF PutManifest
  <2>2. StoreType'
    BY <1>19, LocalTypes, ManifestType DEF PutManifest, StoreManifest, StoreType, OwnManifestKey, ManifestKey, OwnDocument, Add, Shape, Owning, Holding, Downloaded, Work, Source, Version
  <2>3. JobType'
    BY <1>19 DEF PutManifest, GoTo, Fault, JobType, PcLabels, Owning, Holding, control
  <2>4. Shape'
    BY <1>19 DEF PutManifest, GoTo, Fault, Shape, JobType, Source, Version, Downloaded, Owning, Holding, PcLabels
  <2> QED
    BY <2>1, <2>2, <2>3, <2>4
<1>20. CASE Complete(j)
  <2>1. WorldType'
    BY <1>20, WorldKept DEF Complete
  <2>2. StoreType'
    BY <1>20, CompleteTypes DEF Complete
  <2>3. JobType'
    BY <1>20 DEF Complete, GoTo, Fault, JobType, PcLabels, Owning, Holding, control
  <2>4. Shape'
    BY <1>20 DEF Complete, GoTo, Fault, Shape, JobType, Source, Version, Downloaded, Owning, Holding, PcLabels
  <2> QED
    BY <2>1, <2>2, <2>3, <2>4
<1>21. CASE Refresh(j)
  <2>1. WorldType'
    BY <1>21, WorldKept DEF Refresh, Return
  <2>2. StoreType'
    BY <1>21, StoreKept DEF Refresh, Return
  <2>3. JobType'
    BY <1>21, LocalTypes DEF Refresh, Return, GoTo, Fault, JobType, PcLabels, Owning, Holding, control, Shape
  <2>4. Shape'
    BY <1>21 DEF Refresh, Return, GoTo, Fault, Shape, JobType, Source, Version, Downloaded, Owning, Holding, PcLabels
  <2> QED
    BY <2>1, <2>2, <2>3, <2>4
<1>22. CASE MarkFailed(j)
  <2>1. faults' \in Nat
    BY <1>22 DEF MarkFailed, Fault, JobType
  <2>2. WorldType' /\ JobType' /\ Shape'
    BY <1>22, <2>1, TypeExit DEF MarkFailed
  <2>3. StoreType'
    BY <1>22 DEF MarkFailed, StoreType, Row
  <2> QED
    BY <2>2, <2>3
<1>23. CASE MarkFailedRaises(j)
  <2>1. faults' \in Nat
    BY <1>23 DEF MarkFailedRaises, Fault, JobType
  <2>2. WorldType' /\ JobType' /\ Shape'
    BY <1>23, <2>1, TypeExit DEF MarkFailedRaises
  <2>3. StoreType'
    BY <1>23, StoreKept DEF MarkFailedRaises
  <2> QED
    BY <2>2, <2>3
<1>24. CASE CompleteOverflows(j)
  <2>1. WorldType'
    BY <1>24, WorldKept DEF CompleteOverflows
  <2>2. StoreType'
    BY <1>24, StoreKept DEF CompleteOverflows
  <2>3. JobType'
    BY <1>24 DEF CompleteOverflows, GoTo, Fault, JobType, PcLabels, Owning, Holding, control
  <2>4. Shape'
    BY <1>24 DEF CompleteOverflows, GoTo, Fault, Shape, JobType, Source, Version, Downloaded, Owning, Holding, PcLabels
  <2> QED
    BY <2>1, <2>2, <2>3, <2>4
<1>25. CASE NetworkFails(j)
  <2>1. WorldType'
    BY <1>25, WorldKept DEF NetworkFails, GiveUp
  <2>2. StoreType'
    BY <1>25, StoreKept DEF NetworkFails, GiveUp
  <2>3. JobType'
    BY <1>25 DEF NetworkFails, GiveUp, GoTo, Fault, JobType, PcLabels, Owning, Holding, control
  <2>4. Shape'
    BY <1>25 DEF NetworkFails, GiveUp, GoTo, Fault, Shape, JobType, Source, Version, Downloaded, Owning, Holding, PcLabels
  <2> QED
    BY <2>1, <2>2, <2>3, <2>4
<1>26. CASE VaultFails(j)
  <2>1. WorldType'
    BY <1>26, WorldKept DEF VaultFails
  <2>2. StoreType'
    <3>1. CASE UNCHANGED <<vault, documents>>
      BY <1>26, <3>1 DEF VaultFails, StoreType
    <3>2. CASE pc[j] = "put" /\ StoreObject(j) /\ UNCHANGED documents
      BY <1>26, <3>2, LocalTypes
         DEF VaultFails, StoreObject, StoreType, NextKey, ObjectKey, Add, Shape,
             Owning, Holding, Source, Version
    <3>3. CASE pc[j] = "putManifest" /\ StoreManifest(j) /\ UNCHANGED vault
      BY <1>26, <3>3, LocalTypes, ManifestType
         DEF VaultFails, StoreManifest, StoreType, OwnManifestKey, ManifestKey, OwnDocument,
             Add, Shape, Downloaded, Owning, Holding, Work, Source, Version
    <3> QED
      BY <1>26, <3>1, <3>2, <3>3 DEF VaultFails
  <2>3. JobType'
    BY <1>26 DEF VaultFails, GoTo, Fault, JobType, PcLabels, Owning, Holding, control
  <2>4. Shape'
    BY <1>26 DEF VaultFails, GoTo, Fault, Shape, JobType, Source, Version, Downloaded, Owning, Holding, PcLabels
  <2> QED
    BY <2>1, <2>2, <2>3, <2>4
<1>27. CASE CompleteFlushFails(j)
  <2>1. WorldType'
    BY <1>27, WorldKept DEF CompleteFlushFails
  <2>2. StoreType'
    BY <1>27, StoreKept DEF CompleteFlushFails
  <2>3. JobType'
    BY <1>27 DEF CompleteFlushFails, GoTo, Fault, JobType, PcLabels, Owning, Holding, control
  <2>4. Shape'
    BY <1>27 DEF CompleteFlushFails, GoTo, Fault, Shape, JobType, Source, Version, Downloaded, Owning, Holding, PcLabels
  <2> QED
    BY <2>1, <2>2, <2>3, <2>4
<1>28. CASE CompleteCommitLost(j)
  <2>1. WorldType'
    BY <1>28, WorldKept DEF CompleteCommitLost
  <2>2. StoreType'
    BY <1>28, CompleteTypes, StoreKept DEF CompleteCommitLost
  <2>3. JobType'
    BY <1>28 DEF CompleteCommitLost, GoTo, Fault, JobType, PcLabels, Owning, Holding, control
  <2>4. Shape'
    BY <1>28 DEF CompleteCommitLost, GoTo, Fault, Shape, JobType, Source, Version, Downloaded, Owning, Holding, PcLabels
  <2> QED
    BY <2>1, <2>2, <2>3, <2>4
<1>29. CASE RefreshFails(j)
  <2>1. WorldType'
    BY <1>29, WorldKept DEF RefreshFails
  <2>2. StoreType'
    BY <1>29, StoreKept DEF RefreshFails
  <2>3. JobType'
    BY <1>29 DEF RefreshFails, GoTo, Fault, JobType, PcLabels, Owning, Holding, control
  <2>4. Shape'
    BY <1>29 DEF RefreshFails, GoTo, Fault, Shape, JobType, Source, Version, Downloaded, Owning, Holding, PcLabels
  <2> QED
    BY <2>1, <2>2, <2>3, <2>4
<1>30. CASE Crash(j)
  <2>1. faults' \in Nat
    BY <1>30 DEF Crash, Fault, JobType
  <2>2. WorldType' /\ JobType' /\ Shape'
    BY <1>30, <2>1, TypeExit DEF Crash
  <2>3. StoreType'
    BY <1>30, StoreKept DEF Crash
  <2> QED
    BY <2>2, <2>3
<1>31. CASE TimesOut(j)
  <2>1. faults' \in Nat
    BY <1>31 DEF TimesOut, Fault, JobType
  <2>2. WorldType' /\ JobType' /\ Shape'
    BY <1>31, <2>1, TypeExit DEF TimesOut
  <2>3. StoreType'
    BY <1>31, StoreKept DEF TimesOut
  <2> QED
    BY <2>2, <2>3
<1> QED
  BY <1>1, <1>2, <1>3, <1>4, <1>5, <1>6, <1>7, <1>8, <1>9, <1>10, <1>11, <1>12, <1>13, <1>14, <1>15, <1>16, <1>17, <1>18, <1>19, <1>20, <1>21, <1>22, <1>23, <1>24, <1>25, <1>26, <1>27, <1>28, <1>29, <1>30, <1>31 DEF Step, Fail

LEMMA TypeStep == ASSUME TypeInv, [Next]_vars PROVE TypeInv'
<1>1. CASE UNCHANGED vars
  BY <1>1 DEF TypeInv, TypeOK, WorldType, StoreType, JobType, Shape, Source, Version,
              vars, world, store, control
<1>2. CASE Next
  BY <1>1, <1>2, TypeWorld, TypeJob DEF Next, Rest
<1> QED
  BY <1>1, <1>2

(* The harvester keeps every variable in its type. *)
THEOREM TypeCorrect == Spec => []TypeOK
<1>1. TypeInv => TypeOK
  BY DEF TypeInv
<1> QED
  BY <1>1, TypeStep, TypeInit, PTL DEF Spec

-----------------------------------------------------------------------------
(* The inductive invariant behind the safety theorems.  A job that has      *)
(* drawn a version id has it to itself; its row, once reserved, is PENDING  *)
(* for the manifest it downloaded; the bucket holds only what reserved      *)
(* versions name, and of the job's own version exactly what it has stored.  *)
Numbered == {"reserve"} \cup Owning
Storing == {"place", "stat", "put"}
Undocumented == Storing \cup {"statManifest", "putManifest"}

IdsInv ==
    /\ \A v \in DOMAIN rows : v <= issued
    /\ \A j \in Jobs : pc[j] \in Numbered => Version(j) <= issued
    /\ \A j, k \in Jobs : /\ pc[j] \in Numbered /\ pc[k] \in Numbered
                          /\ Version(j) = Version(k)
                          => j = k
    /\ \A j \in Jobs : pc[j] = "reserve" => Version(j) \notin DOMAIN rows
    /\ \A j \in Jobs : pc[j] \in Owning => Version(j) \in DOMAIN rows

RowsInv ==
    /\ \A j \in Jobs : pc[j] \in Holding => rows[Version(j)].status = "PENDING"
    /\ \A j \in Jobs : pc[j] \in Owning =>
           /\ rows[Version(j)].manifest = OwnManifest(j)
           /\ rows[Version(j)].previous = work[j].previous

VaultInv ==
    /\ VaultMatchesManifests
    /\ \A j \in Jobs : pc[j] \in Storing =>
           \A k \in DOMAIN vault : k[2] = Version(j) => k[3] <= work[j].stored
    /\ \A j \in Jobs : pc[j] \in Owning =>
           \A i \in 1..work[j].stored : ObjectKey(Source(j), Version(j), i) \in DOMAIN vault

DocumentsInv ==
    /\ \A k \in DOMAIN documents :
           /\ k[2] \in DOMAIN rows
           /\ documents[k] = [manifest |-> rows[k[2]].manifest,
                              previous |-> rows[k[2]].previous]
    /\ \A j \in Jobs : pc[j] \in Undocumented =>
           \A k \in DOMAIN documents : k[2] # Version(j)
    /\ \A j \in Jobs : pc[j] = "complete" => OwnManifestKey(j) \in DOMAIN documents

ObjectRowsInv ==
    \A o \in objectRows : o.version \in DOMAIN rows /\ rows[o.version].status # "PENDING"

SafeInv ==
    /\ IdsInv /\ RowsInv /\ VaultInv /\ DocumentsInv /\ ObjectRowsInv
    /\ CompleteIsBacked

LEMMA SafeInit == Init => SafeInv
  BY DEF Init, SafeInv, IdsInv, RowsInv, VaultInv, DocumentsInv, ObjectRowsInv,
         CompleteIsBacked, VaultMatchesManifests, Numbered, Owning, Holding, Storing,
         Undocumented

(* A version stays backed while the bucket only grows. *)
LEMMA BackedGrows ==
    ASSUME CompleteIsBacked, UNCHANGED <<rows, objectRows>>,
           Extends(vault, vault'), Extends(documents, documents')
    PROVE  CompleteIsBacked'
  BY DEF CompleteIsBacked, Backed, ReadsAs, RowsOf, Extends, ManifestKey

LEMMA BackedKept ==
    ASSUME CompleteIsBacked, UNCHANGED store PROVE CompleteIsBacked'
<1>1. UNCHANGED <<rows, objectRows, vault, documents>>
  BY DEF store
<1> QED
  BY <1>1, BackedGrows DEF Extends

(* Steps that leave the store alone and do not give the job a version. *)
LEMMA SafeLeave ==
    ASSUME SafeInv, UNCHANGED store, NEW j \in Jobs, pc'[j] \notin Numbered,
           \A k \in Jobs \ {j} : /\ pc'[k] = pc[k] /\ work'[k] = work[k]
                                 /\ snapshot'[k] = snapshot[k]
    PROVE  SafeInv'
<1> USE DEF SafeInv
<1>1. UNCHANGED <<rows, objectRows, vault, documents, issued>>
  BY DEF store
<1>2. IdsInv'
  BY <1>1 DEF IdsInv, Numbered, Version
<1>3. RowsInv'
  BY <1>1 DEF RowsInv, Numbered, Owning, Version, OwnManifest, Source, OwnSnapshot
<1>4. VaultInv'
  BY <1>1 DEF VaultInv, VaultMatchesManifests, Numbered, Owning, Holding, Storing, Version, Source,
              ObjectKey
<1>5. DocumentsInv'
  BY <1>1 DEF DocumentsInv, Numbered, Owning, Holding, Storing, Undocumented, Version, Source,
              OwnManifestKey, ManifestKey
<1>6. ObjectRowsInv'
  BY <1>1 DEF ObjectRowsInv
<1> QED
  BY <1>2, <1>3, <1>4, <1>5, <1>6, BackedKept

(* Steps that only take a job on, or to its failure handler. *)
LEMMA SafeMove ==
    ASSUME TypeInv, SafeInv, UNCHANGED <<store, work, snapshot>>,
           NEW j \in Jobs, NEW l, pc' = [pc EXCEPT ![j] = l],
           pc[j] \in Owning, l \in Owning,
           l \in Holding => pc[j] \in Holding,
           l \in Storing => pc[j] \in Storing,
           l \in Undocumented => pc[j] \in Undocumented,
           l = "complete" => pc[j] = "complete"
    PROVE  SafeInv'
<1> USE DEF SafeInv
<1>1. UNCHANGED <<rows, objectRows, vault, documents, issued, work, snapshot>>
  BY DEF store
<1>2. /\ pc'[j] = l
      /\ \A k \in Jobs \ {j} : pc'[k] = pc[k]
  BY DEF TypeInv, TypeOK, JobType
<1>3. IdsInv'
  BY <1>1, <1>2 DEF IdsInv, Numbered, Owning, Holding, Version
<1>4. RowsInv'
  BY <1>1, <1>2 DEF RowsInv, Version, OwnManifest, Source, OwnSnapshot
<1>5. VaultInv'
  BY <1>1, <1>2 DEF VaultInv, VaultMatchesManifests, Version, Source, ObjectKey
<1>6. DocumentsInv'
  BY <1>1, <1>2 DEF DocumentsInv, Version, Source, OwnManifestKey, ManifestKey
<1>7. ObjectRowsInv'
  BY <1>1 DEF ObjectRowsInv
<1> QED
  BY <1>3, <1>4, <1>5, <1>6, <1>7, BackedKept

LEMMA SafeStamp == ASSUME TypeInv, SafeInv, NEW j \in Jobs, Stamp(j) PROVE SafeInv'
<1> USE DEF SafeInv
<1>1. /\ UNCHANGED <<rows, objectRows, vault, documents, snapshot>>
      /\ issued \in Nat /\ issued' = issued + 1
  BY DEF Stamp, control, TypeInv, TypeOK, StoreType
<1>2. /\ pc[j] = "stamp" /\ pc'[j] = "reserve" /\ Version(j)' = issued + 1
      /\ \A k \in Jobs \ {j} : pc'[k] = pc[k] /\ work'[k] = work[k]
  BY DEF Stamp, GoTo, TypeInv, TypeOK, JobType, Version, Work
<1>3. \A v \in VersionIds : v \in Nat
  BY HarvesterAssumption
<1>4. \A v \in DOMAIN rows : v \in Nat /\ v <= issued
  BY <1>3 DEF IdsInv, TypeInv, TypeOK, StoreType
<1>5. \A k \in Jobs : pc[k] \in Numbered => Version(k) \in Nat /\ Version(k) <= issued
  BY <1>3 DEF IdsInv, TypeInv, Shape, Numbered
<1>6. IdsInv'
  BY <1>1, <1>2, <1>4, <1>5 DEF IdsInv, Numbered, Owning, Holding, Version
<1>7. RowsInv'
  BY <1>1, <1>2 DEF RowsInv, Owning, Holding, Version, OwnManifest, Source, OwnSnapshot
<1>8. VaultInv'
  BY <1>1, <1>2 DEF VaultInv, VaultMatchesManifests, Storing, Owning, Holding, Version, Source,
                    ObjectKey
<1>9. DocumentsInv'
  BY <1>1, <1>2 DEF DocumentsInv, Undocumented, Storing, Version, Source, OwnManifestKey,
                    ManifestKey
<1>10. ObjectRowsInv' /\ CompleteIsBacked'
  BY <1>1, BackedGrows DEF ObjectRowsInv, Extends
<1> QED
  BY <1>6, <1>7, <1>8, <1>9, <1>10

LEMMA SafeReserve == ASSUME TypeInv, SafeInv, NEW j \in Jobs, Reserve(j) PROVE SafeInv'
<1> USE DEF SafeInv
<1> DEFINE row == [manifest |-> OwnManifest(j), snapshot |-> OwnSnapshot(j),
                   previous |-> work[j].previous, status |-> "PENDING",
                   objectCount |-> 0, totalBytes |-> 0]
<1>1. /\ UNCHANGED <<objectRows, vault, documents, issued, work, snapshot>>
      /\ rows' = Add(rows, Version(j), row)
      /\ Version(j) \notin DOMAIN rows
  BY DEF Reserve, control, IdsInv
<1>2. /\ DOMAIN rows' = DOMAIN rows \cup {Version(j)}
      /\ rows'[Version(j)] = row
      /\ \A v \in DOMAIN rows : rows'[v] = rows[v]
  BY <1>1 DEF Add
<1>3. /\ pc[j] = "reserve" /\ pc'[j] = "place"
      /\ \A k \in Jobs \ {j} : pc'[k] = pc[k]
  BY DEF Reserve, GoTo, TypeInv, TypeOK, JobType
<1>4. /\ row.manifest = OwnManifest(j) /\ row.previous = work[j].previous
      /\ row.status = "PENDING"
  OBVIOUS
<1> HIDE DEF row
<1>5. IdsInv'
  BY <1>1, <1>2, <1>3 DEF IdsInv, Numbered, Owning, Holding, Version
<1>6. RowsInv'
  <2>1. \A k \in Jobs \ {j} : pc[k] \in Owning => Version(k) # Version(j)
    BY <1>3 DEF IdsInv, Numbered
  <2> QED
    BY <1>1, <1>2, <1>3, <1>4, <2>1
       DEF RowsInv, IdsInv, Owning, Holding, Version, OwnManifest, Source, OwnSnapshot
<1>7. VaultInv'
  <2>1. work[j].stored = 0
    BY <1>3 DEF TypeInv, Shape, Downloaded, Owning, Holding
  <2>2. \A k \in DOMAIN vault : k[2] # Version(j)
    BY <1>1 DEF VaultInv, VaultMatchesManifests
  <2>3. VaultMatchesManifests'
    BY <1>1, <1>2 DEF VaultInv, VaultMatchesManifests
  <2> QED
    BY <1>1, <1>3, <2>1, <2>2, <2>3
       DEF VaultInv, Storing, Owning, Holding, Version, Source, ObjectKey
<1>8. DocumentsInv'
  <2>1. \A k \in DOMAIN documents : k[2] # Version(j)
    BY <1>1 DEF DocumentsInv
  <2> QED
    BY <1>1, <1>2, <1>3, <2>1
       DEF DocumentsInv, Undocumented, Storing, Version, Source, OwnManifestKey, ManifestKey
<1>9. ObjectRowsInv'
  BY <1>1, <1>2 DEF ObjectRowsInv
<1>10. CompleteIsBacked'
  BY <1>1, <1>2, <1>4 DEF CompleteIsBacked, Backed, ReadsAs, RowsOf, ManifestKey
<1> QED
  BY <1>5, <1>6, <1>7, <1>8, <1>9, <1>10

(* An object lands in the vault; the job goes on with it, or to its failure *)
(* handler when the answer was an error.                                    *)
LEMMA SafeStoreObject ==
    ASSUME TypeInv, SafeInv, NEW j \in Jobs, pc[j] = "put", StoreObject(j),
           UNCHANGED <<rows, objectRows, documents, issued, snapshot>>,
           NEW l, pc' = [pc EXCEPT ![j] = l],
           \/ l \in {"stat", "statManifest"} /\ work' = [work EXCEPT ![j].stored = @ + 1]
           \/ l = "fail" /\ UNCHANGED work
    PROVE  SafeInv'
<1> USE DEF SafeInv
<1>1. /\ pc'[j] = l
      /\ \A k \in Jobs \ {j} : pc'[k] = pc[k] /\ work'[k] = work[k]
      /\ work'[j].stored \in {work[j].stored, work[j].stored + 1}
      /\ l \in Storing => work'[j].stored = work[j].stored + 1
      /\ \A k \in Jobs : /\ work'[k].got = work[k].got /\ Source(k)' = Source(k)
                        /\ work'[k].previous = work[k].previous
                        /\ Version(k)' = Version(k)
  <2>1. work \in [Jobs -> Work] /\ pc \in [Jobs -> PcLabels]
    BY DEF TypeInv, TypeOK, JobType
  <2>2. CASE work' = [work EXCEPT ![j].stored = @ + 1] /\ l \in {"stat", "statManifest"}
    <3> DEFINE next == [work[j] EXCEPT !.stored = @ + 1]
    <3>1. /\ next.got = work[j].got /\ next.source = work[j].source
          /\ next.previous = work[j].previous /\ next.version = work[j].version
          /\ next.stored = work[j].stored + 1
      BY <2>1 DEF Work
    <3>2. work' = [work EXCEPT ![j] = next]
      BY <2>1, <2>2
    <3> HIDE DEF next
    <3> QED
      BY <2>1, <3>1, <3>2 DEF Source, Version
  <2>3. CASE UNCHANGED work /\ l = "fail"
    BY <2>1, <2>3 DEF Source, Version, Storing
  <2> QED
    BY <2>2, <2>3
<1>2. /\ work[j].stored \in Nat /\ work[j].stored < Len(work[j].got)
      /\ work[j].got \in Seq(Revisions)
  BY LocalTypes DEF TypeInv, Shape
<1>3. \A k \in Jobs : OwnManifest(k)' = OwnManifest(k)
  BY <1>1 DEF OwnManifest, OwnSnapshot
<1>4. /\ DOMAIN vault' = DOMAIN vault \cup {NextKey(j)}
      /\ vault'[NextKey(j)] = work[j].got[work[j].stored + 1]
      /\ \A k \in DOMAIN vault : k # NextKey(j) => vault'[k] = vault[k]
      /\ NextKey(j) = <<Source(j), Version(j), work[j].stored + 1>>
  BY DEF StoreObject, Add, NextKey, ObjectKey
<1>5. NextKey(j) \notin DOMAIN vault
  BY <1>2, <1>4 DEF VaultInv, Storing
<1>6. /\ Version(j) \in DOMAIN rows /\ rows[Version(j)].manifest = OwnManifest(j)
  BY DEF IdsInv, RowsInv, Owning, Holding
<1>7. IdsInv'
  BY <1>1 DEF IdsInv, Numbered, Owning, Holding
<1>8. RowsInv'
  BY <1>1, <1>3 DEF RowsInv, Owning, Holding
<1>9. VaultInv'
  <2>1. VaultMatchesManifests'
    <3>1. /\ OwnManifest(j).source = Source(j) /\ OwnManifest(j).objects = work[j].got
      BY DEF OwnManifest, Manifest
    <3>2. work[j].stored + 1 \in DOMAIN work[j].got
      BY <1>2
    <3>3. ASSUME NEW k \in DOMAIN vault'
          PROVE  /\ k[2] \in DOMAIN rows /\ rows[k[2]].manifest.source = k[1]
                 /\ k[3] \in DOMAIN rows[k[2]].manifest.objects
                 /\ vault'[k] = rows[k[2]].manifest.objects[k[3]]
      <4>1. CASE k = NextKey(j)
        BY <4>1, <1>4, <1>6, <3>1, <3>2
      <4>2. CASE k # NextKey(j)
        BY <4>2, <1>4 DEF VaultInv, VaultMatchesManifests
      <4> QED
        BY <4>1, <4>2
    <3> QED
      BY <3>3 DEF VaultMatchesManifests
  <2>2. ASSUME NEW k \in Jobs, pc'[k] \in Storing, NEW x \in DOMAIN vault',
               x[2] = Version(k)'
        PROVE  x[3] <= work'[k].stored
    <3>1. CASE k = j
      BY <3>1, <2>2, <1>1, <1>2, <1>4, LocalTypes DEF VaultInv, Storing, StoreType, TypeInv, TypeOK
    <3>2. CASE k # j
      BY <3>2, <2>2, <1>1, <1>4 DEF VaultInv, IdsInv, Numbered, Owning, Holding, Storing
    <3> QED
      BY <3>1, <3>2
  <2>3. ASSUME NEW k \in Jobs, pc'[k] \in Owning, NEW i \in 1..work'[k].stored
        PROVE  ObjectKey(Source(k), Version(k), i)' \in DOMAIN vault'
    <3>1. CASE i \in 1..work[k].stored
      BY <3>1, <2>3, <1>1, <1>4 DEF VaultInv, ObjectKey, Owning, Holding
    <3>2. CASE i \notin 1..work[k].stored
      <4>1. k = j /\ i = work[j].stored + 1
        BY <3>2, <2>3, <1>1, <1>2
      <4> QED
        BY <4>1, <1>1, <1>4 DEF ObjectKey
    <3> QED
      BY <3>1, <3>2
  <2> QED
    BY <2>1, <2>2, <2>3 DEF VaultInv
<1>10. DocumentsInv'
  BY <1>1 DEF DocumentsInv, Undocumented, Storing, OwnManifestKey, ManifestKey
<1>11. ObjectRowsInv'
  BY DEF ObjectRowsInv
<1>12. CompleteIsBacked'
  BY <1>4, <1>5, BackedGrows DEF Extends
<1> QED
  BY <1>7, <1>8, <1>9, <1>10, <1>11, <1>12

(* manifest.json lands in the bucket, acknowledged or not. *)
LEMMA SafeStoreManifest ==
    ASSUME TypeInv, SafeInv, NEW j \in Jobs, pc[j] = "putManifest", StoreManifest(j),
           UNCHANGED <<rows, objectRows, vault, issued, snapshot, work>>,
           NEW l \in {"complete", "fail"}, pc' = [pc EXCEPT ![j] = l]
    PROVE  SafeInv'
<1> USE DEF SafeInv
<1>1. pc'[j] = l /\ \A k \in Jobs \ {j} : pc'[k] = pc[k]
  BY DEF TypeInv, TypeOK, JobType
<1>2. /\ DOMAIN documents' = DOMAIN documents \cup {OwnManifestKey(j)}
      /\ documents'[OwnManifestKey(j)] = OwnDocument(j)
      /\ \A k \in DOMAIN documents : k # OwnManifestKey(j) => documents'[k] = documents[k]
      /\ OwnManifestKey(j) = <<Source(j), Version(j)>>
      /\ OwnDocument(j) = [manifest |-> OwnManifest(j), previous |-> work[j].previous]
  BY DEF StoreManifest, Add, OwnManifestKey, ManifestKey, OwnDocument
<1>3. OwnManifestKey(j) \notin DOMAIN documents
  BY <1>2 DEF DocumentsInv, Undocumented, Storing
<1>4. /\ Version(j) \in DOMAIN rows /\ rows[Version(j)].manifest = OwnManifest(j)
      /\ rows[Version(j)].previous = work[j].previous
  BY DEF IdsInv, RowsInv, Owning, Holding
<1>5. IdsInv'
  BY <1>1 DEF IdsInv, Numbered, Owning, Holding, Version
<1>6. RowsInv'
  BY <1>1 DEF RowsInv, Owning, Holding, Version, OwnManifest, Source, OwnSnapshot
<1>7. VaultInv'
  BY <1>1 DEF VaultInv, VaultMatchesManifests, Owning, Holding, Storing, Version, Source, ObjectKey
<1>8. DocumentsInv'
  <2>1. \A k \in DOMAIN documents' :
           /\ k[2] \in DOMAIN rows
           /\ documents'[k] = [manifest |-> rows[k[2]].manifest,
                               previous |-> rows[k[2]].previous]
    BY <1>2, <1>4 DEF DocumentsInv
  <2>2. ASSUME NEW k \in Jobs, pc'[k] \in Undocumented, NEW x \in DOMAIN documents'
        PROVE  x[2] # Version(k)'
    BY <2>2, <1>1, <1>2 DEF DocumentsInv, IdsInv, Numbered, Undocumented, Storing, Owning,
                            Holding, Version
  <2>3. ASSUME NEW k \in Jobs, pc'[k] = "complete"
        PROVE  OwnManifestKey(k)' \in DOMAIN documents'
    BY <2>3, <1>1, <1>2 DEF DocumentsInv, OwnManifestKey, ManifestKey, Source, Version
  <2> QED
    BY <2>1, <2>2, <2>3 DEF DocumentsInv
<1>9. ObjectRowsInv'
  BY DEF ObjectRowsInv
<1>10. CompleteIsBacked'
  BY <1>2, <1>3, BackedGrows DEF Extends
<1> QED
  BY <1>5, <1>6, <1>7, <1>8, <1>9, <1>10

(* The commit of complete_version makes the version COMPLETE, with all its  *)
(* objects and its manifest in the bucket.                                  *)
LEMMA SafeCommit ==
    ASSUME TypeInv, SafeInv, NEW j \in Jobs, pc[j] = "complete", CommitComplete(j),
           UNCHANGED <<work, snapshot>>,
           NEW l \in {"refresh", "failInvalid"}, pc' = [pc EXCEPT ![j] = l]
    PROVE  SafeInv'
<1> USE DEF SafeInv
<1> PICK v \in VersionIds : v = Version(j)
  BY DEF TypeInv, Shape, Owning, Holding
<1> DEFINE news == {[version |-> v, index |-> i, bytes |-> work[j].got[i],
                     key |-> ObjectKey(Source(j), v, i)] : i \in 1..work[j].stored}
<1>1. pc'[j] = l /\ \A k \in Jobs \ {j} : pc'[k] = pc[k]
  BY DEF TypeInv, TypeOK, JobType
<1>2. /\ v \in DOMAIN rows /\ rows[v].status = "PENDING"
      /\ rows[v].manifest = OwnManifest(j) /\ rows[v].previous = work[j].previous
  BY DEF IdsInv, RowsInv, Owning, Holding
<1>3. /\ work[j].stored = Len(work[j].got) /\ work[j].got \in Seq(Revisions)
  BY LocalTypes DEF TypeInv, Shape
<1>4. /\ DOMAIN rows' = DOMAIN rows
      /\ \A w \in DOMAIN rows \ {v} : rows'[w] = rows[w]
      /\ rows'[v].status = "COMPLETE" /\ rows'[v].objectCount = work[j].stored
      /\ rows'[v].manifest = rows[v].manifest /\ rows'[v].previous = rows[v].previous
  <2> DEFINE done == [rows[v] EXCEPT !.status = "COMPLETE",
                                     !.objectCount = work[j].stored,
                                     !.totalBytes = work[j].total]
  <2>1. rows \in [DOMAIN rows -> Row]
    BY DEF TypeInv, TypeOK, StoreType
  <2>2. /\ done.status = "COMPLETE" /\ done.objectCount = work[j].stored
        /\ done.manifest = rows[v].manifest /\ done.previous = rows[v].previous
    BY <2>1, <1>2 DEF Row
  <2>3. rows' = [rows EXCEPT ![v] = done]
    BY <2>1, <1>2 DEF CommitComplete
  <2> HIDE DEF done
  <2> QED
    BY <2>1, <2>2, <2>3, <1>2
<1>5. objectRows' = objectRows \cup news /\ UNCHANGED <<vault, documents, issued>>
  BY DEF CommitComplete
<1>6. IdsInv'
  BY <1>1, <1>4, <1>5 DEF IdsInv, Numbered, Owning, Holding, Version
<1>7. RowsInv'
  <2>1. \A k \in Jobs \ {j} : pc[k] \in Owning => Version(k) # v
    BY DEF IdsInv, Numbered, Owning, Holding
  <2> QED
    BY <1>1, <1>2, <1>4, <2>1
       DEF RowsInv, IdsInv, Owning, Holding, Version, OwnManifest, Source, OwnSnapshot
<1>8. VaultInv'
  BY <1>1, <1>2, <1>4, <1>5
     DEF VaultInv, VaultMatchesManifests, Owning, Holding, Storing, Version, Source, ObjectKey
<1>9. DocumentsInv'
  BY <1>1, <1>2, <1>4, <1>5
     DEF DocumentsInv, Undocumented, Storing, Version, Source, OwnManifestKey, ManifestKey
<1>10. ObjectRowsInv'
  BY <1>2, <1>4, <1>5 DEF ObjectRowsInv
<1>11. CompleteIsBacked'
  <2>1. ASSUME NEW w \in DOMAIN rows \ {v}, rows[w].status = "COMPLETE"
        PROVE  Backed(w)'
    <3>1. RowsOf(w)' = RowsOf(w)
      BY <1>5 DEF RowsOf
    <3> QED
      BY <2>1, <3>1, <1>4, <1>5 DEF CompleteIsBacked, Backed, ReadsAs, ManifestKey
  <2>2. /\ rows'[v].manifest.source = Source(j)
        /\ rows'[v].manifest.objects = work[j].got
    BY <1>2, <1>4 DEF OwnManifest, Manifest
  <2>3. RowsOf(v)' = news
    <3>1. \A o \in news : o.version = v
      OBVIOUS
    <3>2. \A o \in objectRows : o.version # v
      BY <1>2 DEF ObjectRowsInv
    <3> HIDE DEF news
    <3> QED
      BY <3>1, <3>2, <1>5 DEF RowsOf
  <2>4. {o.index : o \in news} = 1..Len(work[j].got)
    <3>1. \A o \in news : o.index \in 1..work[j].stored
      OBVIOUS
    <3>2. ASSUME NEW i \in 1..work[j].stored PROVE \E o \in news : o.index = i
      <4> DEFINE o == [version |-> v, index |-> i, bytes |-> work[j].got[i],
                       key |-> ObjectKey(Source(j), v, i)]
      <4>1. o \in news /\ o.index = i
        OBVIOUS
      <4> QED
        BY <4>1
    <3> HIDE DEF news
    <3> QED
      BY <3>1, <3>2, <1>3
  <2>5. \A o \in news : /\ o.key \in DOMAIN vault
                        /\ vault[o.key] = work[j].got[o.index]
                        /\ o.bytes = work[j].got[o.index]
    <3>1. ASSUME NEW i \in 1..work[j].stored
          PROVE  /\ ObjectKey(Source(j), v, i) \in DOMAIN vault
                 /\ vault[ObjectKey(Source(j), v, i)] = work[j].got[i]
      BY <1>2, <1>4, <2>2
         DEF VaultInv, VaultMatchesManifests, ObjectKey, Owning, Holding
    <3> QED
      BY <3>1
  <2>6. /\ ManifestKey(Source(j), v) \in DOMAIN documents
        /\ documents[ManifestKey(Source(j), v)] =
               [manifest |-> rows[v].manifest, previous |-> rows[v].previous]
    BY DEF DocumentsInv, OwnManifestKey, ManifestKey
  <2>7. Backed(v)'
    <3> HIDE DEF news
    <3> QED
      BY <2>2, <2>3, <2>4, <2>5, <2>6, <1>3, <1>4, <1>5 DEF Backed, ReadsAs, ManifestKey
  <2> QED
    BY <2>1, <2>7, <1>2, <1>4 DEF CompleteIsBacked
<1> QED
  BY <1>6, <1>7, <1>8, <1>9, <1>10, <1>11

(* fail_version touches the status of one version only, of its own job. *)
LEMMA SafeMarkFailed ==
    ASSUME TypeInv, SafeInv, NEW j \in Jobs, MarkFailed(j) PROVE SafeInv'
<1> USE DEF SafeInv
<1> PICK v \in VersionIds : v = Version(j)
  BY DEF MarkFailed, TypeInv, Shape, Numbered, Owning
<1>1. /\ UNCHANGED <<objectRows, vault, documents, issued, snapshot>>
      /\ pc[j] = "fail" /\ pc'[j] = "off"
      /\ \A k \in Jobs \ {j} : pc'[k] = pc[k] /\ work'[k] = work[k]
  BY DEF MarkFailed, Exit, GoTo, TypeInv, TypeOK, JobType
<1>2. v \in DOMAIN rows
  BY <1>1 DEF IdsInv, Owning
<1>3. /\ DOMAIN rows' = DOMAIN rows
      /\ \A w \in DOMAIN rows \ {v} : rows'[w] = rows[w]
      /\ rows'[v].status = "FAILED"
      /\ rows'[v].manifest = rows[v].manifest /\ rows'[v].previous = rows[v].previous
  <2>1. rows \in [DOMAIN rows -> Row] /\ rows' = [rows EXCEPT ![v].status = "FAILED"]
    BY DEF TypeInv, TypeOK, StoreType, MarkFailed
  <2> QED
    BY <2>1, <1>2 DEF Row
<1>4. IdsInv'
  BY <1>1, <1>3 DEF IdsInv, Numbered, Owning, Holding, Version
<1>5. RowsInv'
  <2>1. \A k \in Jobs \ {j} : pc[k] \in Owning => Version(k) # v
    BY <1>1 DEF IdsInv, Numbered, Owning
  <2> QED
    BY <1>1, <1>3, <2>1
       DEF RowsInv, IdsInv, Owning, Holding, Version, OwnManifest, Source, OwnSnapshot
<1>6. VaultInv'
  BY <1>1, <1>3 DEF VaultInv, VaultMatchesManifests, Owning, Holding, Storing, Version, Source,
                    ObjectKey
<1>7. DocumentsInv'
  BY <1>1, <1>3 DEF DocumentsInv, Undocumented, Storing, Version, Source, OwnManifestKey,
                    ManifestKey
<1>8. ObjectRowsInv'
  BY <1>1, <1>3 DEF ObjectRowsInv
<1>9. CompleteIsBacked'
  BY <1>1, <1>3 DEF CompleteIsBacked, Backed, ReadsAs, RowsOf, ManifestKey
<1> QED
  BY <1>4, <1>5, <1>6, <1>7, <1>8, <1>9

(* An exit without a write to the store. *)
LEMMA SafeExit ==
    ASSUME TypeInv, SafeInv, NEW j \in Jobs, Exit(j), UNCHANGED store PROVE SafeInv'
<1>1. /\ pc'[j] = "off"
      /\ \A k \in Jobs \ {j} : /\ pc'[k] = pc[k] /\ work'[k] = work[k]
                              /\ snapshot'[k] = snapshot[k]
  BY DEF Exit, GoTo, TypeInv, TypeOK, JobType
<1> QED
  BY <1>1, SafeLeave DEF Numbered, Owning, Holding

(* Every step of a job keeps the invariant. *)
LEMMA SafeJob ==
    ASSUME TypeInv, SafeInv, NEW j \in Jobs, Launch(j) \/ Step(j) \/ Fail(j)
    PROVE  SafeInv'
<1>1. CASE Launch(j)
  <2>1. /\ UNCHANGED store /\ pc'[j] \notin Numbered
        /\ \A k \in Jobs \ {j} : /\ pc'[k] = pc[k] /\ work'[k] = work[k]
                                /\ snapshot'[k] = snapshot[k]
    BY <1>1 DEF Launch, GoTo, control, store, TypeInv, TypeOK, JobType, Numbered, Owning, Holding
  <2> QED
    BY <2>1, SafeLeave
<1>2. CASE \E s \in Sources : NextSource(j, s)
  <2>1. /\ UNCHANGED store /\ pc'[j] \notin Numbered
        /\ \A k \in Jobs \ {j} : /\ pc'[k] = pc[k] /\ work'[k] = work[k]
                                /\ snapshot'[k] = snapshot[k]
    BY <1>2 DEF NextSource, GoTo, control, store, TypeInv, TypeOK, JobType, Numbered, Owning, Holding
  <2> QED
    BY <2>1, SafeLeave
<1>3. CASE \/ Blocked(j) \/ Plan(j) \/ Download(j) \/ DownloadTooLarge(j) \/ NetworkFails(j)
  <2>1. /\ UNCHANGED store /\ pc'[j] \notin Numbered
        /\ \A k \in Jobs \ {j} : /\ pc'[k] = pc[k] /\ work'[k] = work[k]
                                /\ snapshot'[k] = snapshot[k]
    BY <1>3 DEF Blocked, Plan, Download, DownloadTooLarge, NetworkFails, GiveUp, GoTo, control, store, TypeInv, TypeOK, JobType, Numbered, Owning, Holding
  <2> QED
    BY <2>1, SafeLeave
<1>4. CASE \E v \in DOMAIN rows : FindComplete(j, v) \/ FindConflict(j, v)
  <2>1. /\ UNCHANGED store /\ pc'[j] \notin Numbered
        /\ \A k \in Jobs \ {j} : /\ pc'[k] = pc[k] /\ work'[k] = work[k]
                                /\ snapshot'[k] = snapshot[k]
    BY <1>4 DEF FindComplete, FindConflict, GiveUp, Return, GoTo, control, store, TypeInv, TypeOK, JobType, Numbered, Owning, Holding
  <2> QED
    BY <2>1, SafeLeave
<1>5. CASE \/ FindNothing(j) \/ ReserveCollides(j) \/ Refresh(j)
  <2>1. /\ UNCHANGED store /\ pc'[j] \notin Numbered
        /\ \A k \in Jobs \ {j} : /\ pc'[k] = pc[k] /\ work'[k] = work[k]
                                /\ snapshot'[k] = snapshot[k]
    BY <1>5 DEF FindNothing, ReserveCollides, Refresh, Return, GoTo, control, store, TypeInv, TypeOK, JobType, Numbered, Owning, Holding
  <2> QED
    BY <2>1, SafeLeave
<1>6. CASE \E p \in DOMAIN rows \cup {NoVersion} : ReadLatest(j, p)
  <2>1. /\ UNCHANGED store /\ pc'[j] \notin Numbered
        /\ \A k \in Jobs \ {j} : /\ pc'[k] = pc[k] /\ work'[k] = work[k]
                                /\ snapshot'[k] = snapshot[k]
    BY <1>6 DEF ReadLatest, GoTo, control, store, TypeInv, TypeOK, JobType, Numbered, Owning, Holding
  <2> QED
    BY <2>1, SafeLeave
<1>7. CASE Stamp(j)
  BY <1>7, SafeStamp
<1>8. CASE Reserve(j)
  BY <1>8, SafeReserve
<1>9. CASE Place(j)
  BY <1>9, SafeMove
     DEF Place, GoTo, control, Undocumented, Storing, Owning, Holding
<1>10. CASE Stat(j)
  BY <1>10, SafeMove
     DEF Stat, GoTo, control, Undocumented, Storing, Owning, Holding
<1>11. CASE StatManifest(j)
  BY <1>11, SafeMove
     DEF StatManifest, GoTo, control, Undocumented, Storing, Owning, Holding
<1>12. CASE CompleteOverflows(j)
  BY <1>12, SafeMove
     DEF CompleteOverflows, GoTo, control, Undocumented, Storing, Owning, Holding
<1>13. CASE CompleteFlushFails(j)
  BY <1>13, SafeMove
     DEF CompleteFlushFails, Fault, GoTo, control, Undocumented, Storing, Owning, Holding
<1>14. CASE RefreshFails(j)
  BY <1>14, SafeMove
     DEF RefreshFails, Fault, GoTo, control, Undocumented, Storing, Owning, Holding
<1>15. CASE PutObject(j)
  <2>1. \E l \in {"stat", "statManifest"} : pc' = [pc EXCEPT ![j] = l]
    BY <1>15 DEF PutObject, GoTo
  <2> QED
    BY <1>15, <2>1, SafeStoreObject DEF PutObject, control
<1>16. CASE PutManifest(j)
  BY <1>16, SafeStoreManifest DEF PutManifest, GoTo, control
<1>17. CASE VaultFails(j)
  <2>1. CASE /\ pc[j] \in {"stat", "put", "statManifest", "putManifest"}
             /\ UNCHANGED <<vault, documents>>
    BY <1>17, <2>1, SafeMove
       DEF VaultFails, GoTo, control, store, Undocumented, Storing, Owning, Holding
  <2>2. CASE pc[j] = "put" /\ StoreObject(j) /\ UNCHANGED documents
    BY <1>17, <2>2, SafeStoreObject DEF VaultFails, GoTo, control
  <2>3. CASE pc[j] = "putManifest" /\ StoreManifest(j) /\ UNCHANGED vault
    BY <1>17, <2>3, SafeStoreManifest DEF VaultFails, GoTo, control
  <2> QED
    BY <1>17, <2>1, <2>2, <2>3 DEF VaultFails
<1>18. CASE Complete(j)
  BY <1>18, SafeCommit DEF Complete, GoTo, control
<1>19. CASE CompleteCommitLost(j)
  <2>1. CASE CommitComplete(j)
    BY <1>19, <2>1, SafeCommit DEF CompleteCommitLost, GoTo, control
  <2>2. CASE UNCHANGED store
    BY <1>19, <2>2, SafeMove
       DEF CompleteCommitLost, GoTo, control, Undocumented, Storing, Owning, Holding
  <2> QED
    BY <1>19, <2>1, <2>2 DEF CompleteCommitLost
<1>20. CASE MarkFailed(j)
  BY <1>20, SafeMarkFailed
<1>21. CASE Finish(j) \/ PlaceUnsafe(j) \/ MarkFailedRaises(j) \/ TimesOut(j) \/ Crash(j)
  BY <1>21, SafeExit DEF Finish, PlaceUnsafe, MarkFailedRaises, TimesOut, Crash
<1> QED
  BY <1>1, <1>2, <1>3, <1>4, <1>5, <1>6, <1>7, <1>8, <1>9, <1>10, <1>11, <1>12, <1>13, <1>14, <1>15, <1>16, <1>17, <1>18, <1>19, <1>20, <1>21 DEF Step, Fail

LEMMA SafeWorld ==
    ASSUME SafeInv, UNCHANGED <<store, control, pc, work>> PROVE SafeInv'
<1> USE DEF SafeInv
<1>1. UNCHANGED <<rows, objectRows, vault, documents, issued, snapshot>>
  BY DEF store, control
<1>2. IdsInv' /\ RowsInv' /\ ObjectRowsInv'
  BY <1>1 DEF IdsInv, RowsInv, ObjectRowsInv, Version, OwnManifest, Source, OwnSnapshot
<1>3. VaultInv' /\ DocumentsInv'
  BY <1>1 DEF VaultInv, VaultMatchesManifests, DocumentsInv, Version, Source, ObjectKey,
              OwnManifestKey, ManifestKey
<1> QED
  BY <1>2, <1>3, BackedKept

LEMMA Invariance == Spec => [](TypeInv /\ SafeInv)
<1>1. ASSUME TypeInv, SafeInv, [Next]_vars PROVE SafeInv'
  <2>1. CASE UNCHANGED vars
    BY <2>1, <1>1, SafeWorld DEF vars
  <2>2. CASE \E s \in Sources : \/ \E r \in Revisions : PublishUpstream(s, r)
                              \/ \E r \in Registrations : ReplaceSource(s, r)
    BY <2>2, <1>1, SafeWorld DEF PublishUpstream, ReplaceSource
  <2>3. CASE \E j \in Jobs : Launch(j) \/ Step(j) \/ Fail(j)
    BY <2>3, <1>1, SafeJob
  <2> QED
    BY <2>1, <2>2, <2>3, <1>1 DEF Next, Rest
<1> QED
  BY <1>1, TypeStep, TypeInit, SafeInit, PTL DEF Spec

-----------------------------------------------------------------------------
(* What the invariant gives. *)

LEMMA FreshKeys == ASSUME TypeInv, SafeInv PROVE KeysAreFresh
<1>1. ASSUME NEW j \in Jobs, pc[j] \in {"stat", "put"}
      PROVE  NextKey(j) \notin DOMAIN vault
  BY <1>1, LocalTypes DEF SafeInv, VaultInv, Storing, NextKey, ObjectKey
<1>2. ASSUME NEW j \in Jobs, pc[j] \in {"statManifest", "putManifest"}
      PROVE  OwnManifestKey(j) \notin DOMAIN documents
  BY <1>2 DEF SafeInv, DocumentsInv, Undocumented, OwnManifestKey, ManifestKey
<1> QED
  BY <1>1, <1>2 DEF KeysAreFresh

LEMMA ExclusiveReservations == ASSUME TypeInv, SafeInv PROVE ReservationIsExclusive
  BY DEF SafeInv, IdsInv, RowsInv, ReservationIsExclusive, Numbered, Owning

(* Only the puts of a job write to the bucket. *)
LEMMA BucketWriters ==
    ASSUME [Next]_vars
    PROVE  \/ UNCHANGED <<vault, documents>>
           \/ \E j \in Jobs : pc[j] = "put" /\ StoreObject(j) /\ UNCHANGED documents
           \/ \E j \in Jobs : pc[j] = "putManifest" /\ StoreManifest(j) /\ UNCHANGED vault
<1>1. CASE UNCHANGED vars
  BY <1>1 DEF vars, store
<1>2. CASE \E s \in Sources : \/ \E r \in Revisions : PublishUpstream(s, r)
                            \/ \E r \in Registrations : ReplaceSource(s, r)
  BY <1>2 DEF PublishUpstream, ReplaceSource, store
<1>3. ASSUME NEW j \in Jobs, Launch(j) \/ Step(j)
      PROVE  \/ UNCHANGED <<vault, documents>>
             \/ pc[j] = "put" /\ StoreObject(j) /\ UNCHANGED documents
             \/ pc[j] = "putManifest" /\ StoreManifest(j) /\ UNCHANGED vault
  BY <1>3 DEF Launch, Step, NextSource, Finish, Exit, Blocked, GiveUp, Plan, Download,
              DownloadTooLarge, FindComplete, FindConflict, Return, FindNothing, ReadLatest,
              Stamp, Reserve, ReserveCollides, Place, PlaceUnsafe, Stat, PutObject,
              StatManifest, PutManifest, Complete, CommitComplete, CompleteOverflows,
              Refresh, MarkFailed, MarkFailedRaises, store
<1>4. ASSUME NEW j \in Jobs, Fail(j)
      PROVE  \/ UNCHANGED <<vault, documents>>
             \/ pc[j] = "put" /\ StoreObject(j) /\ UNCHANGED documents
             \/ pc[j] = "putManifest" /\ StoreManifest(j) /\ UNCHANGED vault
  BY <1>4 DEF Fail, NetworkFails, GiveUp, VaultFails, CompleteFlushFails, CompleteCommitLost,
              CommitComplete, RefreshFails, TimesOut, Crash, store
<1> QED
  BY <1>1, <1>2, <1>3, <1>4 DEF Next, Rest

LEMMA BucketGrows ==
    ASSUME TypeInv, SafeInv, [Next]_vars
    PROVE  Extends(vault, vault') /\ Extends(documents, documents')
<1>1. KeysAreFresh
  BY FreshKeys
<1>2. CASE UNCHANGED <<vault, documents>>
  BY <1>2 DEF Extends
<1>3. ASSUME NEW j \in Jobs, pc[j] = "put", StoreObject(j), UNCHANGED documents
      PROVE  Extends(vault, vault') /\ Extends(documents, documents')
  BY <1>1, <1>3 DEF KeysAreFresh, StoreObject, Add, Extends
<1>4. ASSUME NEW j \in Jobs, pc[j] = "putManifest", StoreManifest(j), UNCHANGED vault
      PROVE  Extends(vault, vault') /\ Extends(documents, documents')
  BY <1>1, <1>4 DEF KeysAreFresh, StoreManifest, Add, Extends
<1> QED
  BY <1>2, <1>3, <1>4, BucketWriters

(* Every COMPLETE version can be read back from the bucket, byte for byte.  *)
THEOREM CompleteVersionsAreBacked == Spec => []CompleteIsBacked
<1>1. SafeInv => CompleteIsBacked
  BY DEF SafeInv
<1> QED
  BY <1>1, Invariance, PTL

(* Everything in the bucket is what its version's manifest names.           *)
THEOREM VaultMatches == Spec => []VaultMatchesManifests
<1>1. SafeInv => VaultMatchesManifests
  BY DEF SafeInv, VaultInv
<1> QED
  BY <1>1, Invariance, PTL

(* ImmutableObjectExistsError cannot happen in a harvest.                   *)
THEOREM KeysStayFresh == Spec => []KeysAreFresh
<1>1. TypeInv /\ SafeInv => KeysAreFresh
  BY FreshKeys
<1> QED
  BY <1>1, Invariance, PTL

(* No two jobs ever hold the same reservation.                              *)
THEOREM ReservationsAreExclusive == Spec => []ReservationIsExclusive
<1>1. TypeInv /\ SafeInv => ReservationIsExclusive
  BY ExclusiveReservations
<1> QED
  BY <1>1, Invariance, PTL

(* Nothing in the bucket is ever overwritten or removed.                    *)
THEOREM BucketIsWriteOnce == Spec => WriteOnce
<1>1. TypeInv /\ SafeInv /\ [Next]_vars
         => [Extends(vault, vault') /\ Extends(documents, documents')]_vars
  BY BucketGrows
<1> QED
  BY <1>1, Invariance, PTL DEF Spec, WriteOnce
=============================================================================
