------------------------ MODULE NormalizationProofs ------------------------
(***************************************************************************)
(* What holds of the normalization for any number of workers, sources,      *)
(* versions, files, runs, edits and crashes.                                *)
(***************************************************************************)
EXTENDS Normalization, NaturalsInduction, WellFoundedInduction, TLAPS

Writing == {"stat", "put", "compare", "add"}
AtWork == Writing \cup {"file"}

(* Where a worker stands bounds what its locals can be. *)
WorkerShape(w) ==
    /\ pc[w] # "off" => verdict[w] = "none"
    /\ pc[w] \in {"off", "next"} => current[w] = NoSource
    /\ \A s \in todo[w] : listed[w][s] \in Core \cup Optional
    /\ \A s \in Sources : chosen[w][s] # 0 => chosen[w][s] \in Versions(s)
    /\ pc[w] \in AtWork => /\ current[w] \in Sources
                           /\ Version(w) \in Versions(current[w])
                           /\ listed[w][current[w]] \in Core \cup Optional
                           /\ index[w] \in 1..(Len(Here(w)) + 1)
    /\ pc[w] \in Writing => index[w] <= Len(Here(w)) /\ Kind(w) = "vector"
    /\ pc[w] \in Writing \ {"add"} => written[w] < 2
    /\ pc[w] = "add" => written[w] = 2

Shape == \A w \in Workers : WorkerShape(w)

TypeInv == TypeOK /\ Shape

(* An object is the one its key names; a row has both of its objects.       *)
StoreInv ==
    /\ \A f \in Fingerprints, k \in 1..2 : Present(Key(f, k)) => Same(Key(f, k), Payload(f, k))
    /\ \A f \in DOMAIN layers : f \in Normalizable /\ \A k \in 1..2 : Present(Key(f, k))

(* The objects a worker takes for stored are stored. *)
WritingInv(w) ==
    /\ pc[w] \in Writing => \A k \in 1..written[w] : Present(Key(Mark(w), k))
    /\ pc[w] = "compare" => Present(NextKey(w))

(* Every vector file of a version up to a place in it has its row. *)
Has(s, v, c, n) == \A i \in VectorFiles(s, v) : i < n => Fingerprint(s, v, i, c) \in DOMAIN layers

(* While no source of a run has failed, the versions it has gone through,   *)
(* and the part of the one it is at, have their rows.                       *)
ProgressInv(w) ==
    /\ result[w].created \subseteq DOMAIN layers
    /\ (pc[w] # "off" /\ tally[w].failures = 0) \/ verdict[w] = "success" =>
           \A s \in Sources : (chosen[w][s] # 0 /\ s # current[w]) =>
               Has(s, chosen[w][s], listed[w][s], Len(Files[s][chosen[w][s]]) + 1)
    /\ pc[w] \in AtWork => Has(current[w], Version(w), listed[w][current[w]], index[w])
    /\ verdict[w] = "success" => pc[w] = "off" /\ Core \subseteq Covered

WorkerInv(w) == WritingInv(w) /\ ProgressInv(w)

IInv == StoreInv /\ (\A w \in Workers : WorkerInv(w)) /\ CreatedOnce

-----------------------------------------------------------------------------
(* What a place in the files of a source is made of. *)
LEMMA FileTypes ==
    ASSUME NEW s \in Sources
    PROVE  /\ Len(Files[s]) \in Nat
           /\ Versions(s) \subseteq Nat \ {0}
           /\ \A v \in Versions(s) :
                  /\ Len(Files[s][v]) \in Nat
                  /\ \A i \in 1..Len(Files[s][v]) :
                         File(s, v, i).error \in Nat /\ File(s, v, i).kind \in Kinds
<1> DEFINE F == [kind: Kinds, error: Nat]
<1>1. Files[s] \in Seq(Seq(F))
  BY NormalizationAssumption
<1>2. \A v \in Versions(s) : Files[s][v] \in Seq(F)
  BY <1>1 DEF Versions
<1> HIDE DEF F
<1>3. \A v \in Versions(s) : \A i \in 1..Len(Files[s][v]) : File(s, v, i) \in F
  BY <1>2 DEF File
<1>4. Len(Files[s]) \in Nat /\ \A v \in Versions(s) : Len(Files[s][v]) \in Nat
  BY <1>1, <1>2
<1> QED
  BY <1>3, <1>4 DEF Versions, F

LEMMA FingerprintType ==
    ASSUME NEW s \in Sources, NEW v \in Versions(s), NEW i \in 1..Len(Files[s][v]),
           NEW c \in Categories
    PROVE  Fingerprint(s, v, i, c) \in Fingerprints
<1>1. Fingerprint(s, v, i, c) \in MarksOf(s, v)
  BY DEF MarksOf
<1>2. MarksOf(s, v) \in {MarksOf(s, u) : u \in Versions(s)}
  OBVIOUS
<1> QED
  BY <1>1, <1>2 DEF Fingerprints

LEMMA FingerprintShape ==
    ASSUME NEW f \in Fingerprints
    PROVE  \E s \in Sources : \E v \in Versions(s) :
               \E i \in 1..Len(Files[s][v]), c \in Categories : f = Fingerprint(s, v, i, c)
BY DEF Fingerprints, MarksOf

LEMMA TypeInit == Init => TypeInv
<1> SUFFICES ASSUME Init PROVE TypeInv
  OBVIOUS
<1>1. TypeOK
  BY NormalizationAssumption
     DEF Init, TypeOK, WorldType, StoreType, PlaceType, ReportType, RunType, NoResult, NoTally, Result, Tally,
         PcLabels
<1>2. Shape
  BY DEF Init, Shape, WorkerShape, AtWork, Writing
<1> QED
  BY <1>1, <1>2 DEF TypeInv

(* A step of a worker leaves the others where they are. *)
Locals(w) == <<pc[w], todo[w], listed[w], chosen[w], current[w], index[w], written[w], result[w],
               tally[w], verdict[w]>>

Moves(w) == Launch(w) \/ Step(w) \/ Crash(w)

LEMMA Elsewhere ==
    ASSUME PlaceType, ReportType, RunType, NEW w \in Workers, Moves(w),
           NEW x \in Workers \ {w}
    PROVE  Locals(x)' = Locals(x)
<1> USE DEF PlaceType, ReportType, RunType, Locals, GoTo, place, report, run
<1>1. CASE Launch(w)
  BY <1>1 DEF Launch
<1>2. CASE Crash(w) \/ Finish(w)
  BY <1>2 DEF Crash, Finish, End
<1>3. CASE \E s \in Sources : TakeSource(w, s) \/ SkipSource(w, s)
  BY <1>3 DEF TakeSource, SkipSource
<1>4. CASE Processed(w) \/ RefuseLarge(w) \/ RefuseBroken(w)
  BY <1>4 DEF Processed, RefuseLarge, RefuseBroken, Fail
<1>5. CASE SkipFile(w) \/ Reuse(w) \/ AddLayer(w)
  BY <1>5 DEF SkipFile, Reuse, AddLayer, NextFile
<1>6. CASE Normalize(w) \/ Stat(w)
  BY <1>6 DEF Normalize, Stat
<1>7. CASE PutObject(w) \/ CompareSame(w)
  BY <1>7 DEF PutObject, CompareSame, Advance
<1> QED
  BY <1>1, <1>2, <1>3, <1>4, <1>5, <1>6, <1>7 DEF Moves, Step

-----------------------------------------------------------------------------
(* Types. *)

LEMMA MarkType ==
    ASSUME TypeInv, NEW w \in Workers, pc[w] \in AtWork, index[w] <= Len(Here(w))
    PROVE  /\ Mark(w) \in Fingerprints
           /\ Mark(w).source = current[w] /\ Mark(w).version = Version(w)
           /\ Mark(w).file = index[w] /\ Mark(w).category = listed[w][current[w]]
           /\ current[w] \in Sources /\ Version(w) \in Versions(current[w])
           /\ index[w] \in 1..Len(Files[current[w]][Version(w)])
           /\ Mark(w).category \in Core \cup Optional
<1>1. /\ current[w] \in Sources /\ Version(w) \in Versions(current[w])
      /\ listed[w][current[w]] \in Core \cup Optional
      /\ index[w] \in 1..Len(Files[current[w]][Version(w)])
  BY FileTypes DEF TypeInv, Shape, WorkerShape, Here
<1>2. Mark(w) \in Fingerprints
  BY <1>1, FingerprintType DEF Mark, Categories
<1> QED
  BY <1>1, <1>2 DEF Mark, Fingerprint

(* What surrounds the workers keeps the types. *)
LEMMA TypeAround ==
    ASSUME TypeInv, NEW s \in Sources,
           \/ \E v \in Versions(s) : Publish(s, v) \/ Withdraw(s, v)
           \/ \E c \in Categories : EditCategory(s, c)
    PROVE  TypeInv'
<1> USE DEF place, report, run
<1>1. CASE \E v \in Versions(s) : Publish(s, v) \/ Withdraw(s, v)
  <2> PICK v \in Versions(s) : Publish(s, v) \/ Withdraw(s, v)
    BY <1>1
  <2>0. /\ DOMAIN status' = Sources
        /\ \A t \in Sources : status'[t] \in [Versions(t) -> {"PENDING", "COMPLETE", "FAILED"}]
    BY DEF TypeInv, TypeOK, WorldType, Publish, Withdraw
  <2>1. TypeOK'
    BY <2>0 DEF TypeInv, TypeOK, WorldType, StoreType, PlaceType, ReportType, RunType, Publish, Withdraw
  <2>2. Shape'
    BY DEF TypeInv, Publish, Withdraw, Shape, WorkerShape, Version, Here, Kind
  <2> QED
    BY <2>1, <2>2 DEF TypeInv
<1>2. CASE \E c \in Categories : EditCategory(s, c)
  <2>1. TypeOK'
    BY <1>2 DEF TypeInv, TypeOK, WorldType, StoreType, PlaceType, ReportType, RunType, EditCategory
  <2>2. Shape'
    BY <1>2 DEF TypeInv, EditCategory, Shape, WorkerShape, Version, Here, Kind
  <2> QED
    BY <2>1, <2>2 DEF TypeInv
<1> QED
  BY <1>1, <1>2

LEMMA TypeRows ==
    ASSUME TypeInv, NEW w \in Workers, AddLayer(w)
    PROVE  DOMAIN layers' \subseteq Fingerprints /\ layers' \in [DOMAIN layers' -> Layer]
<1>1. pc[w] \in AtWork /\ index[w] <= Len(Here(w))
  BY DEF AddLayer, TypeInv, Shape, WorkerShape, AtWork, Writing
<1>2. Here(w)[index[w]].error \in Nat
  BY <1>1, MarkType, FileTypes DEF File, Here
<1> DEFINE row == [category |-> listed[w][current[w]], error |-> Here(w)[index[w]].error]
<1>3. row \in Layer
  BY <1>1, <1>2, MarkType DEF Layer
<1>4. Mark(w) \in Fingerprints
  BY <1>1, MarkType
<1>5. DOMAIN layers \subseteq Fingerprints /\ layers \in [DOMAIN layers -> Layer]
  BY DEF TypeInv, TypeOK, StoreType
<1>6. layers' = [f \in DOMAIN layers \cup {Mark(w)} |-> IF f = Mark(w) THEN row ELSE layers[f]]
  BY DEF AddLayer
<1> HIDE DEF row
<1> QED
  BY <1>3, <1>4, <1>5, <1>6

LEMMA TypeObjects ==
    ASSUME TypeInv, NEW w \in Workers, PutObject(w)
    PROVE  /\ DOMAIN objects' \subseteq Fingerprints \X {"working", "qa"}
           /\ objects' \in [DOMAIN objects' -> StoredAs]
<1>1. pc[w] \in AtWork /\ index[w] <= Len(Here(w)) /\ written[w] \in 0..1
  <2>1. pc[w] = "put" /\ written[w] \in 0..2 /\ WorkerShape(w)
    BY DEF PutObject, TypeInv, TypeOK, PlaceType, Shape
  <2> QED
    BY <2>1 DEF WorkerShape, AtWork, Writing
<1>2. Artefacts[written[w] + 1] \in {"working", "qa"}
  BY <1>1 DEF Artefacts
<1>3. NextPayload(w) \in StoredAs
  BY <1>1, <1>2, MarkType, FileTypes DEF NextPayload, Payload, StoredAs
<1>4. NextKey(w) \in Fingerprints \X {"working", "qa"}
  BY <1>1, <1>2, MarkType DEF NextKey, Key
<1>5. /\ DOMAIN objects \subseteq Fingerprints \X {"working", "qa"}
      /\ objects \in [DOMAIN objects -> StoredAs]
  BY DEF TypeInv, TypeOK, StoreType
<1> QED
  BY <1>3, <1>4, <1>5 DEF PutObject, Put

LEMMA StoreKept == ASSUME StoreType, UNCHANGED <<objects, layers>> PROVE StoreType'
  BY DEF StoreType

LEMMA LatestType ==
    ASSUME TypeInv, NEW s \in Sources, CompleteOf(s) # {}
    PROVE  Latest(s) \in CompleteOf(s) /\ Latest(s) \in Versions(s)
<1> DEFINE n == Len(Files[s])
           T == {n - v : v \in CompleteOf(s)}
           R == OpToRel(<, Nat)
<1>1. n \in Nat /\ CompleteOf(s) \subseteq 1..n
  BY FileTypes DEF CompleteOf, Versions
<1>2. T \subseteq Nat /\ T # {}
  BY <1>1
<1>3. IsWellFoundedOn(R, Nat)
  BY NatLessThanWellFounded
<1>4. PICK m \in T : \A k \in T : ~(<<k, m>> \in R)
  BY <1>2, <1>3, WFMin
<1>5. PICK v \in CompleteOf(s) : m = n - v
  BY <1>4
<1>6. \A u \in CompleteOf(s) : u <= v
  <2> TAKE u \in CompleteOf(s)
  <2>1. n - u \in T /\ n - u \in Nat /\ m \in Nat
    BY <1>1, <1>2
  <2>2. ~(n - u < m)
    BY <1>4, <2>1 DEF OpToRel
  <2> QED
    BY <1>1, <1>5, <2>2
<1> QED
  BY <1>1, <1>6 DEF Latest, Versions

LEMMA WorldKept == ASSUME WorldType, UNCHANGED <<category, status, edits>>, crashes' \in Nat PROVE WorldType'
  BY DEF WorldType

LEMMA ResultTypes ==
    ASSUME ReportType, NEW w \in Workers
    PROVE  /\ NoResult \in Result /\ NoTally \in Tally
           /\ result[w] \in Result /\ tally[w] \in Tally
           /\ [result[w] EXCEPT !.skipped = @ + 1] \in Result
           /\ \A f \in Fingerprints : /\ [result[w] EXCEPT !.reused = @ \cup {f}] \in Result
                                      /\ [result[w] EXCEPT !.created = @ \cup {f}] \in Result
           /\ [tally[w] EXCEPT !.processed = @ + 1] \in Tally
           /\ [tally[w] EXCEPT !.failures = @ + 1] \in Tally
<1>1. result[w] \in Result /\ tally[w] \in Tally
  BY DEF ReportType
<1> QED
  BY <1>1 DEF Result, Tally, NoResult, NoTally

LEMMA TypeWorker ==
    ASSUME TypeInv, NEW w \in Workers, Moves(w)
    PROVE  TypeOK'
<1> USE DEF TypeInv, TypeOK, GoTo, place, report, run
<1>1. CASE Launch(w)
  <2>1. WorldType'
    BY <1>1, WorldKept DEF Launch, WorldType
  <2>2. StoreType'
    BY <1>1, StoreKept DEF Launch
  <2>3. PlaceType'
    BY <1>1 DEF Launch, PlaceType, PcLabels
  <2>4. ReportType'
    BY <1>1, ResultTypes DEF Launch, ReportType
  <2>5. RunType'
    BY <1>1 DEF Launch, RunType, WorldType, PlaceType
  <2> QED
    BY <2>1, <2>2, <2>3, <2>4, <2>5
<1>2. CASE Crash(w)
  <2>1. WorldType'
    BY <1>2, WorldKept DEF Crash, End, WorldType
  <2>2. StoreType'
    BY <1>2, StoreKept DEF Crash, End
  <2>3. PlaceType'
    BY <1>2 DEF Crash, End, PlaceType, PcLabels
  <2>4. ReportType'
    BY <1>2, ResultTypes DEF Crash, End, ReportType
  <2>5. RunType'
    BY <1>2 DEF Crash, End, RunType
  <2> QED
    BY <2>1, <2>2, <2>3, <2>4, <2>5
<1>3. CASE Finish(w)
  <2>1. WorldType'
    BY <1>3, WorldKept DEF Finish, End, WorldType
  <2>2. StoreType'
    BY <1>3, StoreKept DEF Finish, End
  <2>3. PlaceType'
    BY <1>3 DEF Finish, End, PlaceType, PcLabels
  <2>4. ReportType'
    BY <1>3, ResultTypes DEF Finish, End, ReportType
  <2>5. RunType'
    BY <1>3 DEF Finish, End, RunType
  <2> QED
    BY <2>1, <2>2, <2>3, <2>4, <2>5
<1>4. ASSUME NEW s \in Sources, TakeSource(w, s)
      PROVE  TypeOK'
  <2>1. Latest(s) \in Nat
    BY <1>4, LatestType, FileTypes DEF TakeSource
  <2>2. PlaceType'
    BY <1>4 DEF TakeSource, PlaceType, PcLabels
  <2>3. ReportType'
    BY <1>4, ResultTypes DEF TakeSource, ReportType
  <2>4. RunType'
    BY <1>4, <2>1 DEF TakeSource, RunType
  <2>5. WorldType' /\ StoreType'
    BY <1>4, WorldKept, StoreKept DEF TakeSource, WorldType
  <2> QED
    BY <2>1, <2>2, <2>3, <2>4, <2>5
<1>5. ASSUME NEW s \in Sources, SkipSource(w, s)
      PROVE  TypeOK'
  <2>1. PlaceType'
    BY <1>5 DEF SkipSource, PlaceType
  <2>2. ReportType'
    BY <1>5 DEF SkipSource, ReportType
  <2>3. RunType'
    BY <1>5 DEF SkipSource, RunType
  <2>4. WorldType' /\ StoreType'
    BY <1>5, WorldKept, StoreKept DEF SkipSource, WorldType
  <2> QED
    BY <2>1, <2>2, <2>3, <2>4
<1>6. CASE Processed(w)
  <2>1. WorldType'
    BY <1>6, WorldKept DEF Processed, WorldType
  <2>2. StoreType'
    BY <1>6, StoreKept DEF Processed
  <2>3. PlaceType'
    BY <1>6 DEF Processed, PlaceType, PcLabels
  <2>4. ReportType'
    BY <1>6, ResultTypes DEF Processed, ReportType
  <2>5. RunType'
    BY <1>6 DEF Processed, RunType
  <2> QED
    BY <2>1, <2>2, <2>3, <2>4, <2>5
<1>7. CASE RefuseLarge(w) \/ RefuseBroken(w)
  <2>1. WorldType'
    BY <1>7, WorldKept DEF RefuseLarge, RefuseBroken, Fail, WorldType
  <2>2. StoreType'
    BY <1>7, StoreKept DEF RefuseLarge, RefuseBroken, Fail
  <2>3. PlaceType'
    BY <1>7 DEF RefuseLarge, RefuseBroken, Fail, PlaceType, PcLabels
  <2>4. ReportType'
    BY <1>7, ResultTypes DEF RefuseLarge, RefuseBroken, Fail, ReportType
  <2>5. RunType'
    BY <1>7 DEF RefuseLarge, RefuseBroken, Fail, RunType
  <2> QED
    BY <2>1, <2>2, <2>3, <2>4, <2>5
<1>8. CASE SkipFile(w)
  <2>1. WorldType'
    BY <1>8, WorldKept DEF SkipFile, NextFile, WorldType
  <2>2. StoreType'
    BY <1>8, StoreKept DEF SkipFile, NextFile
  <2>3. PlaceType'
    BY <1>8 DEF SkipFile, NextFile, PlaceType, PcLabels
  <2>4. ReportType'
    BY <1>8, ResultTypes DEF SkipFile, NextFile, ReportType
  <2>5. RunType'
    BY <1>8 DEF SkipFile, NextFile, RunType
  <2> QED
    BY <2>1, <2>2, <2>3, <2>4, <2>5
<1>9. CASE Reuse(w)
  <2>1. Mark(w) \in Fingerprints
    BY <1>9 DEF Reuse, StoreType
  <2>2. WorldType'
    BY <1>9, WorldKept DEF Reuse, NextFile, WorldType
  <2>3. StoreType'
    BY <1>9, StoreKept DEF Reuse, NextFile
  <2>4. PlaceType'
    BY <1>9 DEF Reuse, NextFile, PlaceType, PcLabels
  <2>5. ReportType'
    BY <1>9, <2>1, ResultTypes DEF Reuse, NextFile, ReportType
  <2>6. RunType'
    BY <1>9 DEF Reuse, NextFile, RunType
  <2> QED
    BY <2>2, <2>3, <2>4, <2>5, <2>6
<1>10. CASE AddLayer(w)
  <2>1. Mark(w) \in Fingerprints
    BY <1>10, MarkType DEF AddLayer, Shape, WorkerShape, AtWork, Writing
  <2>2. WorldType'
    BY <1>10, WorldKept DEF AddLayer, NextFile, WorldType
  <2>3. StoreType'
    BY <1>10, TypeRows DEF AddLayer, NextFile, StoreType
  <2>4. PlaceType'
    BY <1>10 DEF AddLayer, NextFile, PlaceType, PcLabels
  <2>5. ReportType'
    BY <1>10, <2>1, ResultTypes DEF AddLayer, NextFile, ReportType
  <2>6. RunType'
    BY <1>10 DEF AddLayer, NextFile, RunType
  <2> QED
    BY <2>2, <2>3, <2>4, <2>5, <2>6
<1>11. CASE Normalize(w) \/ Stat(w)
  <2>1. WorldType'
    BY <1>11, WorldKept DEF Normalize, Stat, WorldType
  <2>2. StoreType'
    BY <1>11, StoreKept DEF Normalize, Stat
  <2>3. PlaceType'
    BY <1>11 DEF Normalize, Stat, PlaceType, PcLabels
  <2>4. ReportType'
    BY <1>11, ResultTypes DEF Normalize, Stat, ReportType
  <2>5. RunType'
    BY <1>11 DEF Normalize, Stat, RunType
  <2> QED
    BY <2>1, <2>2, <2>3, <2>4, <2>5
<1>12. CASE PutObject(w)
  <2>1. WorldType'
    BY <1>12, WorldKept DEF PutObject, Advance, WorldType
  <2>2. StoreType'
    BY <1>12, TypeObjects DEF PutObject, Advance, StoreType
  <2>3. PlaceType'
    BY <1>12 DEF PutObject, Advance, PlaceType, PcLabels, Shape, WorkerShape, Writing
  <2>4. ReportType'
    BY <1>12, ResultTypes DEF PutObject, Advance, ReportType
  <2>5. RunType'
    BY <1>12 DEF PutObject, Advance, RunType
  <2> QED
    BY <2>1, <2>2, <2>3, <2>4, <2>5
<1>13. CASE CompareSame(w)
  <2>1. WorldType'
    BY <1>13, WorldKept DEF CompareSame, Advance, WorldType
  <2>2. StoreType'
    BY <1>13, StoreKept DEF CompareSame, Advance
  <2>3. PlaceType'
    BY <1>13 DEF CompareSame, Advance, PlaceType, PcLabels, Shape, WorkerShape, Writing
  <2>4. ReportType'
    BY <1>13, ResultTypes DEF CompareSame, Advance, ReportType
  <2>5. RunType'
    BY <1>13 DEF CompareSame, Advance, RunType
  <2> QED
    BY <2>1, <2>2, <2>3, <2>4, <2>5
<1> QED
  BY <1>1, <1>2, <1>3, <1>4, <1>5, <1>6, <1>7, <1>8, <1>9, <1>10, <1>11, <1>12, <1>13 DEF Moves, Step

LEMMA ShapeElsewhere ==
    ASSUME NEW x \in Workers, WorkerShape(x), Locals(x)' = Locals(x)
    PROVE  WorkerShape(x)'
BY DEF Locals, WorkerShape, AtWork, Writing, Version, Here, Kind

LEMMA ShapeMover ==
    ASSUME TypeInv, NEW w \in Workers, Moves(w)
    PROVE  WorkerShape(w)'
<1> USE DEF TypeInv, TypeOK, PlaceType, ReportType, RunType, Shape, GoTo, place, report, run
<1>1. CASE Launch(w)
  BY <1>1 DEF Launch, WorkerShape, AtWork, Writing, Version, Here, Kind
<1>2. CASE Crash(w) \/ Finish(w)
  BY <1>2 DEF Crash, Finish, End, WorkerShape, AtWork, Writing, Version, Here, Kind
<1>3. ASSUME NEW s \in Sources, TakeSource(w, s)
      PROVE  WorkerShape(w)'
  <2>1. Latest(s) \in Versions(s) /\ Latest(s) # 0
    BY <1>3, LatestType, FileTypes DEF TakeSource
  <2>2. Len(Files[s][Latest(s)]) \in Nat
    BY <2>1, FileTypes
  <2> QED
    BY <1>3, <2>1, <2>2 DEF TakeSource, WorkerShape, AtWork, Writing, Version, Here, Kind
<1>4. ASSUME NEW s \in Sources, SkipSource(w, s)
      PROVE  WorkerShape(w)'
  BY <1>4 DEF SkipSource, WorkerShape, AtWork, Writing, Version, Here, Kind
<1>5. CASE Processed(w)
  BY <1>5 DEF Processed, WorkerShape, AtWork, Writing, Version, Here, Kind
<1>6. CASE RefuseLarge(w) \/ RefuseBroken(w)
  BY <1>6 DEF RefuseLarge, RefuseBroken, Fail, Looking, WorkerShape, AtWork, Writing, Version, Here, Kind
<1>7. CASE SkipFile(w) \/ Reuse(w) \/ AddLayer(w)
  <2>1. /\ current[w] \in Sources /\ Version(w) \in Versions(current[w])
        /\ index[w] \in 1..Len(Here(w)) /\ Len(Here(w)) \in Nat
        /\ verdict[w] = "none"
    <3>1. pc[w] \in AtWork /\ index[w] <= Len(Here(w)) /\ WorkerShape(w)
      BY <1>7 DEF SkipFile, Reuse, AddLayer, Looking, WorkerShape, AtWork, Writing
    <3>2. current[w] \in Sources /\ Version(w) \in Versions(current[w])
      BY <3>1 DEF WorkerShape
    <3>3. Len(Here(w)) \in Nat
      BY <3>2, FileTypes DEF Here
    <3> QED
      BY <3>1, <3>2, <3>3 DEF WorkerShape, AtWork, Writing
  <2>2. index[w] + 1 \in 1..(Len(Here(w)) + 1)
    BY <2>1
  <2> QED
    BY <1>7, <2>1, <2>2 DEF SkipFile, Reuse, AddLayer, NextFile, Looking, WorkerShape, AtWork, Writing, Version, Here, Kind
<1>8. CASE Normalize(w)
  <2>1. pc[w] = "file" /\ index[w] <= Len(Here(w)) /\ Kind(w) = "vector" /\ WorkerShape(w)
    BY <1>8 DEF Normalize, Looking
  <2>2. /\ pc'[w] = "stat" /\ written'[w] = 0
        /\ todo'[w] = todo[w] /\ listed'[w] = listed[w] /\ chosen'[w] = chosen[w]
        /\ current'[w] = current[w] /\ index'[w] = index[w] /\ verdict'[w] = verdict[w]
    BY <1>8 DEF Normalize
  <2> QED
    BY <2>1, <2>2 DEF WorkerShape, AtWork, Writing, Version, Here, Kind
<1>9. CASE Stat(w)
  BY <1>9 DEF Stat, WorkerShape, AtWork, Writing, Version, Here, Kind
<1>10. CASE PutObject(w) \/ CompareSame(w)
  <2>1. pc[w] \in {"put", "compare"} /\ WorkerShape(w) /\ written[w] \in 0..1
    BY <1>10 DEF PutObject, CompareSame, WorkerShape, Writing
  <2>2. /\ pc'[w] = IF written[w] + 1 = 2 THEN "add" ELSE "stat"
        /\ written'[w] = written[w] + 1
    BY <1>10 DEF PutObject, CompareSame, Advance, Artefacts
  <2>3. /\ todo'[w] = todo[w] /\ listed'[w] = listed[w] /\ chosen'[w] = chosen[w]
        /\ current'[w] = current[w] /\ index'[w] = index[w] /\ verdict'[w] = verdict[w]
    BY <1>10 DEF PutObject, CompareSame, Advance
  <2> QED
    BY <2>1, <2>2, <2>3 DEF WorkerShape, AtWork, Writing, Version, Here, Kind
<1> QED
  BY <1>1, <1>2, <1>3, <1>4, <1>5, <1>6, <1>7, <1>8, <1>9, <1>10 DEF Moves, Step

(* A step changes the shape of nothing but its own worker. *)
LEMMA TypeStep == TypeInv /\ [Next]_vars => TypeInv'
<1> SUFFICES ASSUME TypeInv, [Next]_vars PROVE TypeInv'
  OBVIOUS
<1>1. CASE \E s \in Sources : \/ \E v \in Versions(s) : Publish(s, v) \/ Withdraw(s, v)
                              \/ \E c \in Categories : EditCategory(s, c)
  BY <1>1, TypeAround
<1>2. ASSUME NEW w \in Workers, Moves(w)
      PROVE  TypeInv'
  <2>1. TypeOK'
    BY <1>2, TypeWorker
  <2>2. \A x \in Workers : WorkerShape(x)'
    BY <1>2, Elsewhere, ShapeElsewhere, ShapeMover DEF TypeInv, TypeOK, Shape
  <2>3. status' = status
    BY <1>2 DEF Moves, Launch, Step, Crash, TakeSource, SkipSource, Processed, Finish, End, SkipFile,
                RefuseLarge, RefuseBroken, Fail, Reuse, Normalize, Stat, PutObject, CompareSame, Advance,
                AddLayer, NextFile
  <2> QED
    BY <2>1, <2>2, <2>3 DEF TypeInv, Shape
<1>3. CASE UNCHANGED vars
  <2>1. TypeOK'
    BY <1>3 DEF vars, place, report, run, TypeInv, TypeOK, WorldType, StoreType, PlaceType, ReportType, RunType
  <2>2. Shape'
    BY <1>3 DEF vars, place, report, run, TypeInv, Shape, WorkerShape, Version, Here, Kind
  <2> QED
    BY <2>1, <2>2 DEF TypeInv
<1> QED
  BY <1>1, <1>2, <1>3 DEF Next, Moves, Rest

-----------------------------------------------------------------------------
(* The store only grows, and says what its keys and rows say. *)

Grows ==
    /\ \A f \in DOMAIN layers : f \in DOMAIN layers' /\ layers'[f] = layers[f]
    /\ \A key \in DOMAIN objects : key \in DOMAIN objects'

LEMMA StoreStep ==
    ASSUME TypeInv, StoreInv, NEW w \in Workers, WritingInv(w), Moves(w)
    PROVE  StoreInv' /\ Grows
<1>1. CASE PutObject(w)
  <2>1. written[w] \in 0..1 /\ layers' = layers
    BY <1>1 DEF PutObject, Advance, TypeInv, TypeOK, PlaceType, Shape, WorkerShape, Writing
  <2>2. objects' = [k \in DOMAIN objects \cup {NextKey(w)} |->
                       IF k = NextKey(w) THEN NextPayload(w) ELSE objects[k]]
    BY <1>1 DEF PutObject, Put
  <2>3. \A f \in Fingerprints, k \in 1..2 : Key(f, k) = NextKey(w) => Payload(f, k) = NextPayload(w)
    BY DEF Key, NextKey, Payload, NextPayload
  <2>4. \A f \in Fingerprints, k \in 1..2 :
            Present(Key(f, k))' => Same(Key(f, k), Payload(f, k))'
    BY <2>2, <2>3 DEF StoreInv, Present, Same
  <2>5. Grows
    BY <2>1, <2>2 DEF Grows
  <2>6. \A f \in DOMAIN layers' : f \in Normalizable /\ \A k \in 1..2 : Present(Key(f, k))'
    BY <2>1, <2>5 DEF StoreInv, Present, Grows
  <2> QED
    BY <2>4, <2>5, <2>6 DEF StoreInv
<1>2. CASE AddLayer(w)
  <2>1. objects' = objects /\ written[w] = 2 /\ pc[w] \in AtWork /\ index[w] <= Len(Here(w))
        /\ Kind(w) = "vector" /\ pc[w] \in Writing
    BY <1>2 DEF AddLayer, NextFile, TypeInv, Shape, WorkerShape, Writing, AtWork
  <2>2. DOMAIN layers' = DOMAIN layers \cup {Mark(w)}
        /\ \A f \in DOMAIN layers : layers'[f] = layers[f]
    BY <1>2 DEF AddLayer
  <2>3. Mark(w) \in Normalizable
    BY <2>1, MarkType DEF Normalizable, File, Kind, Here
  <2>4. \A k \in 1..2 : Present(Key(Mark(w), k))
    BY <2>1 DEF WritingInv
  <2> QED
    BY <2>1, <2>2, <2>3, <2>4 DEF StoreInv, Present, Same, Grows
<1>3. CASE ~PutObject(w) /\ ~AddLayer(w)
  <2>1. objects' = objects /\ layers' = layers
    BY <1>3 DEF Moves, Launch, Step, Crash, TakeSource, SkipSource, Processed, Finish, End, SkipFile,
         RefuseLarge, RefuseBroken, Fail, Reuse, Normalize, Stat, CompareSame, Advance, NextFile
  <2> QED
    BY <2>1 DEF StoreInv, Present, Same, Grows
<1> QED
  BY <1>1, <1>2, <1>3

LEMMA InvElsewhere ==
    ASSUME NEW x \in Workers, WorkerInv(x), Grows, Locals(x)' = Locals(x)
    PROVE  WorkerInv(x)'
<1>1. UNCHANGED <<pc[x], written[x], current[x], index[x], chosen[x], listed[x], result[x],
                  tally[x], verdict[x]>>
  BY DEF Locals
<1>2. WritingInv(x)'
  BY <1>1 DEF WorkerInv, WritingInv, Grows, Present, NextKey, Mark, Version
<1>3. Core \subseteq Covered => Core \subseteq Covered'
  BY DEF Grows, Covered
<1>4. \A s, v, c, n : Has(s, v, c, n) => Has(s, v, c, n)'
  BY DEF Has, Grows
<1>5. ProgressInv(x)'
  BY <1>1, <1>3, <1>4 DEF WorkerInv, ProgressInv, Version, Grows
<1> QED
  BY <1>2, <1>5 DEF WorkerInv

(* What a worker takes for stored is stored. *)
LEMMA WritingStep ==
    ASSUME TypeInv, NEW w \in Workers, WritingInv(w), Moves(w)
    PROVE  WritingInv(w)'
<1> USE DEF TypeInv, TypeOK, PlaceType, RunType, GoTo, place, report, run
<1>1. CASE Normalize(w)
  <2>1. pc'[w] = "stat" /\ written'[w] = 0
    BY <1>1 DEF Normalize
  <2> QED
    BY <2>1 DEF WritingInv
<1>2. CASE Stat(w)
  <2>1. /\ UNCHANGED <<objects, written, current, index, chosen, listed>>
        /\ pc[w] \in Writing /\ pc'[w] = IF Present(NextKey(w)) THEN "compare" ELSE "put"
    BY <1>2 DEF Stat, Writing
  <2> QED
    BY <2>1 DEF WritingInv, Writing, Present, NextKey, Mark, Version
<1>3. CASE PutObject(w) \/ CompareSame(w)
  <2>1. /\ pc[w] \in Writing /\ pc'[w] # "compare"
        /\ written[w] \in 0..1 /\ written'[w] = written[w] + 1
        /\ UNCHANGED <<current, index, chosen, listed>>
    BY <1>3 DEF PutObject, CompareSame, Advance, Shape, WorkerShape, Writing
  <2>2. NextKey(w) \in DOMAIN objects' /\ DOMAIN objects \subseteq DOMAIN objects'
    <3>1. CASE PutObject(w)
      BY <3>1 DEF PutObject, Put
    <3>2. CASE CompareSame(w)
      BY <3>2 DEF CompareSame, Advance, Present, WritingInv
    <3> QED
      BY <1>3, <3>1, <3>2
  <2>3. \A k \in 1..(written[w] + 1) : Key(Mark(w), k) \in DOMAIN objects'
    <3> TAKE k \in 1..(written[w] + 1)
    <3>1. k \in 1..written[w] \/ k = written[w] + 1
      BY <2>1
    <3>2. \A i \in 1..written[w] : Key(Mark(w), i) \in DOMAIN objects
      BY <2>1 DEF WritingInv, Present
    <3> QED
      BY <2>2, <3>1, <3>2 DEF NextKey
  <2>4. \A k : Key(Mark(w), k)' = Key(Mark(w), k)
    BY <2>1 DEF Key, Mark, Version
  <2> QED
    BY <2>1, <2>3, <2>4 DEF WritingInv, Present
<1>4. CASE Launch(w) \/ Crash(w) \/ Finish(w)
  BY <1>4 DEF Launch, Crash, Finish, End, WritingInv, Writing
<1>5. CASE \E s \in Sources : TakeSource(w, s) \/ SkipSource(w, s)
  BY <1>5 DEF TakeSource, SkipSource, WritingInv, Writing
<1>6. CASE Processed(w) \/ RefuseLarge(w) \/ RefuseBroken(w)
  BY <1>6 DEF Processed, RefuseLarge, RefuseBroken, Fail, WritingInv, Writing
<1>7. CASE SkipFile(w) \/ Reuse(w) \/ AddLayer(w)
  BY <1>7 DEF SkipFile, Reuse, AddLayer, NextFile, WritingInv, Writing
<1> QED
  BY <1>1, <1>2, <1>3, <1>4, <1>5, <1>6, <1>7 DEF Moves, Step

(* A worker's run keeps what it has seen through. *)
LEMMA ProgressStep ==
    ASSUME TypeInv, NEW w \in Workers, ProgressInv(w), Moves(w), Grows
    PROVE  ProgressInv(w)'
<1> USE DEF TypeInv, TypeOK, PlaceType, ReportType, RunType, Shape, GoTo, place, report, run
<1>1. \A s, v, c, n : Has(s, v, c, n) => Has(s, v, c, n)'
  BY DEF Has, Grows
<1>2. DOMAIN layers \subseteq DOMAIN layers'
  BY DEF Grows
<1>3. WorkerShape(w)
  OBVIOUS
<1>4. CASE Launch(w)
  BY <1>2, <1>4 DEF Launch, ProgressInv, AtWork, Writing
<1>5. CASE Crash(w)
  BY <1>2, <1>5 DEF Crash, End, ProgressInv, AtWork, Writing
<1>6. CASE Finish(w)
  <2>1. /\ pc[w] = "next" /\ pc'[w] = "off" /\ current[w] = NoSource /\ current'[w] = NoSource
        /\ UNCHANGED <<layers, result, chosen, listed, tally>>
        /\ verdict'[w] = IF Succeeds(w) THEN "success" ELSE "failure"
    BY <1>3, <1>6 DEF Finish, End, WorkerShape
  <2>2. Covered' = Covered
    BY <2>1 DEF Covered
  <2> QED
    BY <1>1, <2>1, <2>2 DEF ProgressInv, Succeeds, Aligned, AtWork, Writing
<1>7. ASSUME NEW s \in Sources, TakeSource(w, s)
      PROVE  ProgressInv(w)'
  <2>1. /\ pc[w] = "next" /\ pc'[w] = "file" /\ current[w] = NoSource /\ current'[w] = s
        /\ verdict[w] = "none" /\ index'[w] = 1 /\ result'[w] = NoResult
        /\ UNCHANGED <<layers, listed, tally, verdict>>
        /\ \A t \in Sources \ {s} : chosen'[w][t] = chosen[w][t]
        /\ chosen'[w][s] \in Versions(s)
    BY <1>3, <1>7, LatestType DEF TakeSource, WorkerShape
  <2>2. Has(s, chosen'[w][s], listed[w][s], 1)
    BY <2>1, FileTypes DEF Has, VectorFiles
  <2>3. \A t \in Sources : t # NoSource
    BY NormalizationAssumption
  <2> QED
    <3>1. Has(current[w], Version(w), listed[w][current[w]], index[w])'
      BY <2>1, <2>2 DEF Has, Version
    <3>2. ASSUME NEW t \in Sources \ {s}, tally[w].failures = 0, chosen'[w][t] # 0
          PROVE  Has(t, chosen[w][t], listed[w][t], Len(Files[t][chosen[w][t]]) + 1)'
      <4>1. Has(t, chosen[w][t], listed[w][t], Len(Files[t][chosen[w][t]]) + 1)
        BY <2>1, <2>3, <3>2 DEF ProgressInv
      <4>2. chosen'[w][t] = chosen[w][t] /\ listed'[w][t] = listed[w][t]
        BY <2>1
      <4> QED
        BY <2>1, <4>1, <4>2 DEF Has
    <3>3. result'[w].created = {}
      BY <2>1 DEF NoResult
    <3> QED
      BY <2>1, <3>1, <3>2, <3>3 DEF ProgressInv
<1>8. ASSUME NEW s \in Sources, SkipSource(w, s)
      PROVE  ProgressInv(w)'
  <2>1. /\ pc[w] = "next"
        /\ UNCHANGED <<layers, listed, tally, verdict, chosen, result, current, pc>>
    BY <1>8 DEF SkipSource
  <2> QED
    BY <1>1, <1>3, <2>1 DEF ProgressInv, AtWork, Writing, WorkerShape
<1>9. CASE Processed(w)
  <2>1. /\ pc[w] = "file" /\ pc'[w] = "next" /\ index[w] > Len(Here(w))
        /\ current[w] \in Sources /\ current'[w] = NoSource /\ verdict[w] = "none"
        /\ Version(w) \in Versions(current[w]) /\ index[w] \in Nat
        /\ tally'[w].failures = tally[w].failures
        /\ UNCHANGED <<layers, listed, verdict, chosen, result>>
    BY <1>3, <1>9 DEF Processed, WorkerShape, AtWork, Writing, Tally
  <2>2. Has(current[w], Version(w), listed[w][current[w]], Len(Here(w)) + 1)
    BY <2>1, FileTypes DEF ProgressInv, Has, VectorFiles, Here, AtWork
  <2> QED
    BY <1>1, <2>1, <2>2 DEF ProgressInv, AtWork, Writing, Version, Here
<1>10. CASE RefuseLarge(w) \/ RefuseBroken(w)
  <2>1. /\ pc'[w] = "next" /\ verdict[w] = "none" /\ tally'[w].failures # 0
        /\ UNCHANGED <<layers, verdict, result>>
    BY <1>3, <1>10 DEF RefuseLarge, RefuseBroken, Fail, Looking, WorkerShape, AtWork, Writing, Tally
  <2> QED
    BY <2>1 DEF ProgressInv, AtWork, Writing
<1>11. CASE SkipFile(w) \/ Reuse(w) \/ AddLayer(w)
  <2>1. /\ pc[w] \in AtWork /\ pc'[w] = "file" /\ verdict[w] = "none"
        /\ index[w] \in Nat /\ index'[w] = index[w] + 1
        /\ UNCHANGED <<listed, verdict, chosen, tally, current>>
    BY <1>3, <1>11 DEF SkipFile, Reuse, AddLayer, NextFile, Looking, WorkerShape, AtWork, Writing
  <2>2. Kind(w) = "vector" => Mark(w) \in DOMAIN layers'
    BY <1>2, <1>11 DEF SkipFile, Reuse, AddLayer, NextFile
  <2>3. result'[w].created \subseteq DOMAIN layers'
    <3>1. result[w] \in Result /\ result[w].created \subseteq DOMAIN layers'
      BY <1>2 DEF ProgressInv
    <3>2. CASE SkipFile(w)
      BY <3>1, <3>2 DEF SkipFile, NextFile, Result
    <3>3. CASE Reuse(w)
      BY <3>1, <3>3 DEF Reuse, NextFile, Result
    <3>4. CASE AddLayer(w)
      <4>1. Mark(w) \in DOMAIN layers'
        BY <3>4 DEF AddLayer
      <4> QED
        BY <3>1, <3>4, <4>1 DEF AddLayer, NextFile, Result
    <3> QED
      BY <1>11, <3>2, <3>3, <3>4
  <2>4. Has(current[w], Version(w), listed[w][current[w]], index[w])'
    <3> SUFFICES ASSUME NEW i \in VectorFiles(current[w], Version(w)), i < index[w] + 1
                 PROVE  Fingerprint(current[w], Version(w), i, listed[w][current[w]]) \in DOMAIN layers'
      BY <2>1 DEF Has, Version
    <3>1. i \in Nat /\ (i < index[w] \/ i = index[w])
      BY <2>1 DEF VectorFiles
    <3>2. CASE i < index[w]
      BY <1>2, <2>1, <3>2 DEF ProgressInv, Has
    <3>3. CASE i = index[w]
      BY <2>2, <3>3 DEF VectorFiles, File, Kind, Here, Mark
    <3> QED
      BY <3>1, <3>2, <3>3
  <2> QED
    BY <1>1, <2>1, <2>3, <2>4 DEF ProgressInv, AtWork, Writing, Version
<1>12. CASE Normalize(w) \/ Stat(w)
  <2>1. /\ pc[w] \in AtWork /\ pc'[w] \in AtWork /\ verdict[w] = "none"
        /\ UNCHANGED <<layers, listed, verdict, chosen, tally, current, index, result>>
    BY <1>3, <1>12 DEF Normalize, Stat, Looking, WorkerShape, AtWork, Writing
  <2> QED
    BY <1>1, <2>1 DEF ProgressInv, AtWork, Writing, Version
<1>13. CASE PutObject(w) \/ CompareSame(w)
  <2>1. /\ pc[w] \in AtWork /\ pc'[w] \in AtWork /\ verdict[w] = "none"
        /\ UNCHANGED <<layers, listed, verdict, chosen, tally, current, index, result>>
    BY <1>3, <1>13 DEF PutObject, CompareSame, Advance, WorkerShape, AtWork, Writing
  <2> QED
    BY <1>1, <2>1 DEF ProgressInv, AtWork, Writing, Version
<1> QED
  BY <1>4, <1>5, <1>6, <1>7, <1>8, <1>9, <1>10, <1>11, <1>12, <1>13 DEF Moves, Step

(* Only the worker whose row the table took counts the layer as its own. *)
LEMMA CreatedStep ==
    ASSUME TypeInv, \A x \in Workers : WorkerInv(x), CreatedOnce, NEW w \in Workers, Moves(w)
    PROVE  CreatedOnce'
<1> USE DEF TypeInv, TypeOK, PlaceType, ReportType, RunType, GoTo, place, report, run
<1>1. \A x \in Workers \ {w} : result'[x] = result[x]
  BY Elsewhere DEF Locals
<1>2. \A x \in Workers : result[x] \in Result /\ result[x].created \subseteq DOMAIN layers
  BY DEF WorkerInv, ProgressInv
<1>3. result'[w].created \subseteq result[w].created
      \/ (Mark(w) \notin DOMAIN layers /\ result'[w].created = result[w].created \cup {Mark(w)})
  <2>1. result[w] \in Result
    BY <1>2
  <2>2. CASE AddLayer(w)
    BY <2>1, <2>2 DEF AddLayer, NextFile, Result
  <2>3. CASE SkipFile(w) \/ Reuse(w)
    <3>1. CASE SkipFile(w)
      BY <2>1, <3>1 DEF SkipFile, NextFile, Result
    <3>2. CASE Reuse(w)
      BY <2>1, <3>2 DEF Reuse, NextFile, Result
    <3> QED
      BY <2>3, <3>1, <3>2
  <2>4. CASE \E s \in Sources : TakeSource(w, s)
    BY <2>4 DEF TakeSource, NoResult
  <2>5. CASE Launch(w) \/ Crash(w) \/ Finish(w) \/ \E s \in Sources : SkipSource(w, s)
    BY <2>5 DEF Launch, Crash, Finish, End, SkipSource
  <2>6. CASE Processed(w) \/ RefuseLarge(w) \/ RefuseBroken(w)
    BY <2>6 DEF Processed, RefuseLarge, RefuseBroken, Fail
  <2>7. CASE Normalize(w) \/ Stat(w) \/ PutObject(w) \/ CompareSame(w)
    BY <2>7 DEF Normalize, Stat, PutObject, CompareSame, Advance
  <2> QED
    BY <2>2, <2>3, <2>4, <2>5, <2>6, <2>7 DEF Moves, Step
<1>4. \A x \in Workers \ {w} : result'[w].created \cap result[x].created = {}
  BY <1>2, <1>3 DEF CreatedOnce
<1> QED
  BY <1>1, <1>4 DEF CreatedOnce

-----------------------------------------------------------------------------
LEMMA Initially == Init => TypeInv /\ IInv
<1> SUFFICES ASSUME Init PROVE IInv
  BY TypeInit
<1>1. StoreInv
  BY DEF Init, StoreInv, Present
<1>2. \A w \in Workers : WorkerInv(w)
  BY DEF Init, WorkerInv, WritingInv, ProgressInv, AtWork, Writing, NoResult
<1>3. CreatedOnce
  BY DEF Init, CreatedOnce, NoResult
<1> QED
  BY <1>1, <1>2, <1>3 DEF IInv

LEMMA InvStep == TypeInv /\ IInv /\ [Next]_vars => IInv'
<1> SUFFICES ASSUME TypeInv, IInv, [Next]_vars PROVE IInv'
  OBVIOUS
<1>1. ASSUME NEW w \in Workers, Moves(w)
      PROVE  IInv'
  <2>1. StoreInv' /\ Grows
    BY <1>1, StoreStep DEF IInv, WorkerInv
  <2>2. WorkerInv(w)'
    BY <1>1, <2>1, WritingStep, ProgressStep DEF IInv, WorkerInv
  <2>3. \A x \in Workers \ {w} : WorkerInv(x)'
    BY <1>1, <2>1, Elsewhere, InvElsewhere DEF IInv, TypeInv, TypeOK
  <2>4. CreatedOnce'
    BY <1>1, CreatedStep DEF IInv
  <2> QED
    BY <2>1, <2>2, <2>3, <2>4 DEF IInv
<1>2. CASE UNCHANGED <<objects, layers, pc, place, report, listed, chosen>>
  <2>1. StoreInv' /\ CreatedOnce'
    BY <1>2 DEF report, IInv, StoreInv, CreatedOnce, Present, Same
  <2>2. ASSUME NEW w \in Workers PROVE WorkerInv(w)'
    <3>1. Grows /\ Locals(w)' = Locals(w)
      BY <1>2 DEF Grows, Locals, place, report
    <3> QED
      BY <3>1, InvElsewhere DEF IInv
  <2> QED
    BY <2>1, <2>2 DEF IInv
<1>3. (\E w \in Workers : Moves(w)) \/ UNCHANGED <<objects, layers, pc, place, report, listed, chosen>>
  BY DEF Next, Moves, Rest, Publish, Withdraw, EditCategory, vars, run
<1> QED
  BY <1>1, <1>2, <1>3

LEMMA Invariance == Spec => [](TypeInv /\ IInv)
<1>1. Init => TypeInv /\ IInv
  BY Initially
<1>2. (TypeInv /\ IInv) /\ [Next]_vars => (TypeInv /\ IInv)'
  BY TypeStep, InvStep
<1> QED
  BY <1>1, <1>2, PTL DEF Spec

(* Every variable keeps the shape the code gives it. *)
THEOREM TypeCorrect == Spec => []TypeOK
<1>1. TypeInv => TypeOK
  BY DEF TypeInv
<1> QED
  BY <1>1, Invariance, PTL

(* "immutable spatial key exists with different bytes" is never raised, of  *)
(* whatever worker, run or version the object is (service.py:61-65).        *)
THEOREM KeysNameTheirBytes == Spec => []KeysDetermineBytes
<1>1. ASSUME TypeInv, IInv PROVE KeysDetermineBytes
  <2> SUFFICES ASSUME NEW w \in Workers, pc[w] = "compare"
               PROVE  Same(NextKey(w), NextPayload(w))
    BY DEF KeysDetermineBytes
  <2>1. Present(NextKey(w))
    BY <1>1 DEF IInv, WorkerInv, WritingInv
  <2>2. /\ pc[w] \in AtWork /\ index[w] <= Len(Here(w))
        /\ written[w] + 1 \in 1..2
    BY <1>1 DEF TypeInv, TypeOK, PlaceType, Shape, WorkerShape, AtWork, Writing
  <2>3. Mark(w) \in Fingerprints
    BY <1>1, <2>2, MarkType
  <2> QED
    BY <1>1, <2>1, <2>2, <2>3 DEF IInv, StoreInv, NextKey, NextPayload
<1> QED
  BY <1>1, Invariance, PTL

(* Of the workers that race on a file one reports its layer as created      *)
(* (repository.py:31-44).                                                   *)
THEOREM LayersAreCreatedOnce == Spec => []CreatedOnce
<1>1. IInv => CreatedOnce
  BY DEF IInv
<1> QED
  BY <1>1, Invariance, PTL

(* Success means a stored layer of every vector file that was taken, and    *)
(* every core category covered (bootstrap.py:40-91).                        *)
THEOREM SuccessMeansComplete == Spec => []SuccessIsComplete
<1>1. ASSUME TypeInv, IInv PROVE SuccessIsComplete
  <2> SUFFICES ASSUME NEW w \in Workers, verdict[w] = "success"
               PROVE  /\ \A s \in Sources : chosen[w][s] # 0 =>
                             Normalized(s, chosen[w][s], listed[w][s])
                      /\ Core \subseteq Covered
    BY DEF SuccessIsComplete
  <2>1. ProgressInv(w) /\ WorkerShape(w) /\ StoreInv
    BY <1>1 DEF IInv, WorkerInv, TypeInv, Shape
  <2>2. pc[w] = "off" /\ current[w] = NoSource /\ Core \subseteq Covered
    BY <2>1 DEF ProgressInv, WorkerShape
  <2>3. \A f \in DOMAIN layers : Stored(f)
    BY <2>1 DEF StoreInv, Stored, Normalizable
  <2>4. ASSUME NEW s \in Sources, chosen[w][s] # 0
        PROVE  Normalized(s, chosen[w][s], listed[w][s])
    <3>1. s # NoSource /\ chosen[w][s] \in Versions(s)
      BY <2>1, <2>4, NormalizationAssumption DEF WorkerShape
    <3>2. Has(s, chosen[w][s], listed[w][s], Len(Files[s][chosen[w][s]]) + 1)
      BY <2>1, <2>2, <2>4, <3>1 DEF ProgressInv
    <3>3. \A i \in VectorFiles(s, chosen[w][s]) : i < Len(Files[s][chosen[w][s]]) + 1
      BY <3>1, FileTypes DEF VectorFiles
    <3> QED
      BY <2>3, <3>2, <3>3 DEF Normalized, Has
  <2> QED
    BY <2>2, <2>4
<1> QED
  BY <1>1, Invariance, PTL

-----------------------------------------------------------------------------
(* Refinement of Products. *)

Product(f) == [k \in 1..2 |-> {Payload(f, k)}]

(* What readers get is what the rows promise. *)
LEMMA ReadersGetProducts ==
    ASSUME StoreInv
    PROVE  Readable = [f \in DOMAIN layers |-> Product(f)]
<1>1. ASSUME NEW f \in DOMAIN layers, NEW k \in 1..2
      PROVE  Read(Key(f, k)) = {Payload(f, k)}
  BY DEF StoreInv, Normalizable, Read, Present, Same
<1> QED
  BY <1>1 DEF Readable, Product

LEMMA ReadersStillGetProducts ==
    ASSUME StoreInv'
    PROVE  Readable' = [f \in DOMAIN layers' |-> Product(f)]
<1>1. ASSUME NEW f \in DOMAIN layers', NEW k \in 1..2
      PROVE  Read(Key(f, k))' = {Payload(f, k)}
  BY DEF StoreInv, Normalizable, Read, Present, Same
<1> QED
  BY <1>1 DEF Readable, Product

(* The rows grow by one at a time, and none is ever changed. *)
LEMMA RowsStep ==
    ASSUME TypeInv, StoreInv, Next, StoreInv'
    PROVE  \/ DOMAIN layers' = DOMAIN layers
           \/ \E f \in Normalizable \ DOMAIN layers : DOMAIN layers' = DOMAIN layers \cup {f}
<1>1. ASSUME NEW w \in Workers, AddLayer(w)
      PROVE  \E f \in Normalizable \ DOMAIN layers : DOMAIN layers' = DOMAIN layers \cup {f}
  <2>1. DOMAIN layers' = DOMAIN layers \cup {Mark(w)} /\ Mark(w) \notin DOMAIN layers
    BY <1>1 DEF AddLayer
  <2>2. Mark(w) \in Normalizable
    BY <2>1 DEF StoreInv
  <2> QED
    BY <2>1, <2>2
<1>2. CASE \A w \in Workers : ~AddLayer(w)
  <2>1. layers' = layers
    BY <1>2 DEF Next, Publish, Withdraw, EditCategory, Rest, vars, Launch, Step, Crash, TakeSource, SkipSource,
                Processed, Finish, End, SkipFile, RefuseLarge, RefuseBroken, Fail, Reuse, Normalize,
                Stat, PutObject, CompareSame, Advance, NextFile
  <2> QED
    BY <2>1
<1> QED
  BY <1>1, <1>2

(* Workers that race, die, start again and meet edits and new versions look *)
(* like one that derives each layer at once, once and for good.             *)
THEOREM NormalizationImplementsProducts == Spec => ImplementsProducts
<1>1. Init => Abstract!Init
  <2> SUFFICES ASSUME Init PROVE Readable = <<>>
    BY DEF Abstract!Init
  <2>1. DOMAIN layers = {}
    BY DEF Init
  <2> QED
    BY <2>1 DEF Readable
<1>2. ASSUME TypeInv, IInv, IInv', [Next]_vars
      PROVE  [Abstract!Next]_Readable
  <2>1. /\ Readable = [f \in DOMAIN layers |-> Product(f)]
        /\ Readable' = [f \in DOMAIN layers' |-> Product(f)]
    <3>1. StoreInv /\ StoreInv'
      BY <1>2 DEF IInv
    <3>2. Readable = [f \in DOMAIN layers |-> Product(f)]
      BY <3>1, ReadersGetProducts
    <3>3. Readable' = [f \in DOMAIN layers' |-> Product(f)]
      BY <3>1, ReadersStillGetProducts
    <3> QED
      BY <3>2, <3>3
  <2>2. CASE DOMAIN layers' = DOMAIN layers
    BY <2>1, <2>2
  <2>3. ASSUME NEW f \in Normalizable \ DOMAIN layers, DOMAIN layers' = DOMAIN layers \cup {f}
        PROVE  Abstract!Derive(f)
    <3>1. Readable' = [g \in DOMAIN Readable \cup {f} |-> IF g = f THEN Product(f) ELSE Readable[g]]
      BY <2>1, <2>3
    <3>2. f \in Normalizable \ DOMAIN Readable /\ Product(f) \in Derived(f)
      BY <2>1, <2>3 DEF Derived, Product
    <3> QED
      BY <3>1, <3>2 DEF Abstract!Derive
  <2>4. CASE UNCHANGED vars
    BY <2>2, <2>4 DEF vars
  <2> QED
    BY <1>2, <2>2, <2>3, <2>4, RowsStep DEF IInv, Abstract!Next
<1> QED
  BY <1>1, <1>2, Invariance, PTL DEF Spec, ImplementsProducts, Abstract!Spec

-----------------------------------------------------------------------------
(* Every run is finite. *)

(* The steps left, label by label. *)
FilesAfter(w) == Len(Here(w)) - index[w]

Table(w) ==
    /\ pc[w] = "off" => StepsLeft(w) = 0
    /\ pc[w] = "next" => StepsLeft(w) = 1
    /\ pc[w] = "file" => StepsLeft(w) = 9 + 7 * FilesAfter(w)
    /\ pc[w] = "stat" => StepsLeft(w) = 8 + 7 * FilesAfter(w) - 2 * written[w]
    /\ pc[w] \in {"put", "compare"} => StepsLeft(w) = 7 + 7 * FilesAfter(w) - 2 * written[w]
    /\ pc[w] = "add" => StepsLeft(w) = 3 + 7 * FilesAfter(w)

LEMMA StepsTable == ASSUME NEW w \in Workers PROVE Table(w) /\ Table(w)'
<1>1. Table(w)
  BY DEF Table, StepsLeft, FilesAfter
<1>2. Table(w)'
  BY DEF Table, StepsLeft, FilesAfter
<1> QED
  BY <1>1, <1>2

(* What the place of a worker says of the steps it has left. *)
LEMMA PlaceBounds ==
    ASSUME TypeInv, NEW w \in Workers
    PROVE  /\ pc[w] \in PcLabels
           /\ pc[w] \in AtWork => FilesAfter(w) \in Nat \cup {-1} /\ FilesAfter(w) + 1 \in Nat
           /\ pc[w] \in Writing => FilesAfter(w) \in Nat
           /\ pc[w] \in Writing \ {"add"} => written[w] \in 0..1
<1>1. WorkerShape(w) /\ pc[w] \in PcLabels /\ written[w] \in 0..2 /\ index[w] \in Nat
  BY DEF TypeInv, TypeOK, PlaceType, Shape
<1>2. pc[w] \in AtWork => Len(Here(w)) \in Nat
  BY <1>1, FileTypes DEF WorkerShape, Here
<1>3. pc[w] \in AtWork => index[w] <= Len(Here(w)) + 1
  BY <1>1, <1>2 DEF WorkerShape
<1>4. pc[w] \in Writing => pc[w] \in AtWork /\ index[w] <= Len(Here(w))
  BY <1>1 DEF WorkerShape, AtWork
<1>5. pc[w] \in Writing \ {"add"} => written[w] \in 0..1
  BY <1>1 DEF WorkerShape
<1> QED
  BY <1>1, <1>2, <1>3, <1>4, <1>5 DEF FilesAfter

LEMMA SomeStepsLeft ==
    ASSUME TypeInv, NEW w \in Workers
    PROVE  /\ pc[w] # "off" => StepsLeft(w) > 0
           /\ pc[w] \in AtWork => StepsLeft(w) > 1
<1>1. pc[w] = "file" => StepsLeft(w) \in Nat \ {0, 1}
  BY StepsTable, PlaceBounds DEF Table, AtWork
<1>2. pc[w] \in {"stat", "put", "compare"} => StepsLeft(w) \in Nat \ {0, 1}
  BY StepsTable, PlaceBounds DEF Table, Writing
<1>3. pc[w] = "add" => StepsLeft(w) \in Nat \ {0, 1}
  BY StepsTable, PlaceBounds DEF Table, Writing
<1>4. pc[w] \in AtWork => StepsLeft(w) \in Nat \ {0, 1}
  BY <1>1, <1>2, <1>3 DEF AtWork, Writing
<1>5. pc[w] = "next" => StepsLeft(w) = 1
  BY StepsTable DEF Table
<1> QED
  BY <1>4, <1>5, PlaceBounds DEF AtWork, Writing, PcLabels

LEMMA StepComesNearer ==
    ASSUME TypeInv, NEW w \in Workers, Step(w) \/ Crash(w)
    PROVE  Nearer(w)
<1>0. PlaceType /\ RunType /\ Table(w) /\ Table(w)'
  BY StepsTable DEF TypeInv, TypeOK
<1>1. CASE Crash(w) \/ Finish(w)
  <2>1. pc[w] # "off" /\ todo'[w] = {} /\ pc'[w] = "off"
    BY <1>0, <1>1 DEF PlaceType, Crash, Finish, End, GoTo
  <2>2. StepsLeft(w) > 0 /\ StepsLeft(w)' = 0
    BY <1>0, <2>1, SomeStepsLeft DEF Table
  <2> QED
    BY <2>1, <2>2 DEF Nearer
<1>2. CASE \E s \in Sources : TakeSource(w, s) \/ SkipSource(w, s)
  BY <1>0, <1>2 DEF PlaceType, TakeSource, SkipSource, Nearer
<1>3. CASE Processed(w) \/ RefuseLarge(w) \/ RefuseBroken(w)
  <2>1. pc[w] = "file" /\ todo'[w] = todo[w] /\ pc'[w] = "next"
    BY <1>0, <1>3 DEF PlaceType, Processed, RefuseLarge, RefuseBroken, Looking, Fail, GoTo
  <2>2. StepsLeft(w) > 1 /\ StepsLeft(w)' = 1
    BY <1>0, <2>1, SomeStepsLeft DEF Table, AtWork
  <2> QED
    BY <2>1, <2>2 DEF Nearer
<1>4. CASE SkipFile(w) \/ Reuse(w) \/ AddLayer(w)
  <2>1. /\ pc[w] \in {"file", "add"} /\ pc'[w] = "file" /\ todo'[w] = todo[w]
        /\ current' = current /\ chosen' = chosen /\ index'[w] = index[w] + 1
    BY <1>0, <1>4 DEF PlaceType, SkipFile, Reuse, AddLayer, Looking, NextFile, GoTo, run
  <2>2. FilesAfter(w)' = FilesAfter(w) - 1
    <3>1. Len(Here(w)) \in Nat /\ index[w] \in Nat
      BY <1>0, <2>1, FileTypes DEF TypeInv, Shape, WorkerShape, AtWork, Writing, Here, PlaceType
    <3>2. Here(w)' = Here(w)
      BY <2>1 DEF Here, Version
    <3> QED
      BY <2>1, <3>1, <3>2 DEF FilesAfter
  <2>3. FilesAfter(w) \in Int
    BY <2>1, PlaceBounds DEF AtWork, Writing
  <2>4. StepsLeft(w)' < StepsLeft(w)
    BY <1>0, <2>1, <2>2, <2>3 DEF Table
  <2> QED
    BY <2>1, <2>4 DEF Nearer
<1>5. CASE Normalize(w) \/ Stat(w) \/ PutObject(w) \/ CompareSame(w)
  <2>1. /\ todo'[w] = todo[w] /\ current' = current /\ chosen' = chosen /\ index' = index
        /\ \/ pc[w] = "file" /\ pc'[w] = "stat" /\ written'[w] = 0
           \/ pc[w] = "stat" /\ pc'[w] \in {"put", "compare"} /\ written'[w] = written[w]
           \/ /\ pc[w] \in {"put", "compare"} /\ written'[w] = written[w] + 1
              /\ pc'[w] = IF written[w] + 1 = 2 THEN "add" ELSE "stat"
    BY <1>0, <1>5, PlaceBounds
       DEF PlaceType, Normalize, Looking, Stat, PutObject, CompareSame, Advance, Artefacts, GoTo, place, run, Writing
  <2>2. FilesAfter(w)' = FilesAfter(w)
    BY <2>1 DEF FilesAfter, Here, Version
  <2>3. FilesAfter(w) \in Int /\ (pc[w] # "file" => written[w] \in 0..1)
    BY <2>1, PlaceBounds DEF AtWork, Writing
  <2>4. StepsLeft(w)' < StepsLeft(w)
    BY <1>0, <2>1, <2>2, <2>3 DEF Table
  <2> QED
    BY <2>1, <2>4 DEF Nearer
<1> QED
  BY <1>1, <1>2, <1>3, <1>4, <1>5 DEF Step

(* Each step of a worker takes a source off its list or brings it nearer to *)
(* the end of the one it is at, and nobody else's step sets it back: as the *)
(* list is finite, so is the run (bootstrap.py:40-63, service.py:161-225).  *)
THEOREM NormalizationRunsAreFinite == Spec => RunsAreFinite
<1> DEFINE Frame(w) == UNCHANGED <<pc[w], todo[w], current[w], index[w], written[w]>>
           GetsOn == \A w \in Workers : pc[w] # "off" => Nearer(w) \/ Frame(w)
<1>1. ASSUME TypeInv, [Next]_vars, NEW w \in Workers, pc[w] # "off" PROVE Nearer(w) \/ Frame(w)
  <2>1. ASSUME NEW x \in Workers, Moves(x), x # w PROVE Frame(w)
    BY <1>1, <2>1, Elsewhere DEF Locals, TypeInv, TypeOK
  <2>2. CASE Moves(w)
    BY <1>1, <2>2, StepComesNearer DEF Moves, Launch
  <2>3. CASE UNCHANGED <<pc, place>>
    BY <2>3 DEF place
  <2>4. (\E x \in Workers : Moves(x)) \/ UNCHANGED <<pc, place>>
    BY <1>1 DEF Next, Moves, Publish, Withdraw, EditCategory, Rest, vars
  <2> QED
    BY <2>1, <2>2, <2>3, <2>4
<1>2. TypeInv /\ [Next]_vars => [GetsOn]_vars
  BY <1>1
<1> QED
  BY <1>2, Invariance, PTL DEF Spec, RunsAreFinite
=============================================================================
