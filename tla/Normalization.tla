---------------------------- MODULE Normalization ----------------------------
(***************************************************************************)
(* Sequence 4: workers that normalize the vector files of the latest        *)
(* COMPLETE raw version of each source (floodguard/spatial/bootstrap.py,    *)
(* SpatialService.normalize_dataset and readiness in spatial/service.py)    *)
(* into the table spatial_layers (spatial/repository.py) and the spatial    *)
(* bucket, while the harvester publishes versions and operators edit the    *)
(* registry.  What normalize_vector makes of a file is given by Files: its  *)
(* kind and, for a layer, the round-trip error of its coordinates.          *)
(***************************************************************************)
EXTENDS SpatialStore, Naturals, Sequences, FiniteSets

CONSTANTS
    Workers,        \* bootstrap processes
    Sources,        \* sources of the city
    Files,          \* Files[s][v]: the files of version v of source s
    Core, Optional, Other,  \* categories that must be, may be, are not normalized
    Registered,     \* the registry as the workers may first find it
    NoSource,
    Tolerance,      \* alignment_tolerance_m
    MaxRuns,        \* bound: times each worker is started
    MaxEdits,       \* bound: edits of the registry
    MaxCrashes      \* bound: workers killed

Kinds == {"vector", "large", "broken", "other"}
Categories == Core \cup Optional \cup Other

ASSUME NormalizationAssumption ==
    /\ NoSource \notin Sources
    /\ Files \in [Sources -> Seq(Seq([kind: Kinds, error: Nat]))]
    /\ Registered \subseteq [Sources -> Categories]
    /\ {Tolerance, MaxRuns, MaxEdits, MaxCrashes} \subseteq Nat

VARIABLES
    category,   \* category[s] in the registry
    status,     \* status[s][v]: that of raw version v of s, by time of acquisition
    layers,     \* spatial_layers, by fingerprint
    pc,         \* pc[w]: where worker w stands
    todo,       \* todo[w]: sources it has not come to yet
    listed,     \* listed[w]: the categories it read at its start
    chosen,     \* chosen[w][s]: the version it took of s, 0 for none so far
    current,    \* current[w]: the source it is at
    index,      \* index[w]: the file of it
    written,    \* written[w]: how many objects of the file's layer are stored
    result,     \* result[w]: the SpatialNormalizationResult being made
    tally,      \* tally[w]: sources processed and failures
    verdict,    \* verdict[w]: how its last run ended
    runs, edits, crashes    \* how much of the bounds is used

place == <<todo, current, index, written>>
report == <<result, tally, verdict>>
run == <<listed, chosen, runs>>
vars == <<objects, category, status, layers, pc, place, report, run, edits, crashes>>

-----------------------------------------------------------------------------
(* _fingerprint: the category stands for it and the vertical datum, the two *)
(* columns of the registry that go in.                                      *)
Fingerprint(s, v, i, c) == [source |-> s, version |-> v, file |-> i, category |-> c]

Versions(s) == 1..Len(Files[s])
File(s, v, i) == Files[s][v][i]
MarksOf(s, v) == {Fingerprint(s, v, i, c) : i \in 1..Len(Files[s][v]), c \in Categories}
Fingerprints == UNION {UNION {MarksOf(s, v) : v \in Versions(s)} : s \in Sources}

Artefacts == <<"working", "qa">>
(* Mutant: the key does not name the dataset version. *)
KeyWithoutVersion(f, k) == <<[f EXCEPT !.version = 1], Artefacts[k]>>
Key(f, k) == <<f, Artefacts[k]>>

(* The two collections are functions of the raw file and the working CRS.   *)
Payload(f, k) ==
    [source |-> f.source, version |-> f.version, file |-> f.file, artefact |-> Artefacts[k]]

CompleteOf(s) == {v \in Versions(s) : status[s][v] = "COMPLETE"}

Latest(s) == CHOOSE v \in CompleteOf(s) : \A u \in CompleteOf(s) : u <= v

Version(w) == chosen[w][current[w]]
Here(w) == Files[current[w]][Version(w)]
Kind(w) == Here(w)[index[w]].kind
Mark(w) == Fingerprint(current[w], Version(w), index[w], listed[w][current[w]])

NoResult == [created |-> {}, reused |-> {}, skipped |-> 0]
NoTally == [processed |-> 0, failures |-> 0]

GoTo(w, label) == pc' = [pc EXCEPT ![w] = label]

Init ==
    /\ objects = <<>> /\ layers = <<>>
    /\ category \in Registered
    /\ status = [s \in Sources |-> [v \in Versions(s) |-> "PENDING"]]
    /\ pc = [w \in Workers |-> "off"]
    /\ todo = [w \in Workers |-> {}]
    /\ listed = [w \in Workers |-> category]
    /\ chosen = [w \in Workers |-> [s \in Sources |-> 0]]
    /\ current = [w \in Workers |-> NoSource]
    /\ index = [w \in Workers |-> 0]
    /\ written = [w \in Workers |-> 0]
    /\ result = [w \in Workers |-> NoResult]
    /\ tally = [w \in Workers |-> NoTally]
    /\ verdict = [w \in Workers |-> "none"]
    /\ runs = [w \in Workers |-> 0] /\ edits = 0 /\ crashes = 0

-----------------------------------------------------------------------------
(* What goes on around the workers. *)

(* A harvest job completes a version; an older one may complete later.      *)
Publish(s, v) ==
    /\ status[s][v] = "PENDING"
    /\ status' = [status EXCEPT ![s][v] = "COMPLETE"]
    /\ UNCHANGED <<objects, category, layers, pc, place, report, run, edits, crashes>>

(* Its refresh after the commit fails: the version it has just completed,   *)
(* and a worker may have taken, is marked FAILED and stays so.              *)
Withdraw(s, v) ==
    /\ edits < MaxEdits /\ status[s][v] = "COMPLETE"
    /\ status' = [status EXCEPT ![s][v] = "FAILED"]
    /\ edits' = edits + 1
    /\ UNCHANGED <<objects, category, layers, pc, place, report, run, crashes>>

(* An operator replaces a registry record. *)
EditCategory(s, c) ==
    /\ edits < MaxEdits /\ c # category[s]
    /\ category' = [category EXCEPT ![s] = c]
    /\ edits' = edits + 1
    /\ UNCHANGED <<objects, status, layers, pc, place, report, run, crashes>>

-----------------------------------------------------------------------------
(* bootstrap.main *)

Launch(w) ==
    /\ pc[w] = "off" /\ runs[w] < MaxRuns
    /\ runs' = [runs EXCEPT ![w] = @ + 1]
    /\ listed' = [listed EXCEPT ![w] = category]
    /\ todo' = [todo EXCEPT ![w] = {s \in Sources : category[s] \in Core \cup Optional}]
    /\ chosen' = [chosen EXCEPT ![w] = [s \in Sources |-> 0]]
    /\ tally' = [tally EXCEPT ![w] = NoTally]
    /\ verdict' = [verdict EXCEPT ![w] = "none"]
    /\ GoTo(w, "next")
    /\ UNCHANGED <<objects, category, status, layers, current, index, written, result,
                   edits, crashes>>

(* The newest COMPLETE version is taken, as it is now. *)
TakeSource(w, s) ==
    /\ pc[w] = "next" /\ s \in todo[w] /\ CompleteOf(s) # {}
    /\ todo' = [todo EXCEPT ![w] = @ \ {s}]
    /\ current' = [current EXCEPT ![w] = s]
    /\ chosen' = [chosen EXCEPT ![w][s] = Latest(s)]
    /\ index' = [index EXCEPT ![w] = 1]
    /\ result' = [result EXCEPT ![w] = NoResult]
    /\ GoTo(w, "file")
    /\ UNCHANGED <<objects, category, status, layers, written, tally, verdict, listed, runs,
                   edits, crashes>>

SkipSource(w, s) ==
    /\ pc[w] = "next" /\ s \in todo[w] /\ CompleteOf(s) = {}
    /\ todo' = [todo EXCEPT ![w] = @ \ {s}]
    /\ UNCHANGED <<objects, category, status, layers, pc, current, index, written, report, run,
                   edits, crashes>>

(* SpatialNormalizationError: the source failed, the others go on. *)
Fail(w) ==
    /\ tally' = [tally EXCEPT ![w].failures = @ + 1]
    /\ current' = [current EXCEPT ![w] = NoSource]
    /\ GoTo(w, "next")
    /\ UNCHANGED <<objects, category, status, layers, todo, index, written, result, verdict,
                   run, edits, crashes>>

(* The result is counted and printed. *)
Processed(w) ==
    /\ pc[w] = "file" /\ index[w] > Len(Here(w))
    /\ tally' = [tally EXCEPT ![w].processed = @ + 1]
    /\ current' = [current EXCEPT ![w] = NoSource]
    /\ GoTo(w, "next")
    /\ UNCHANGED <<objects, category, status, layers, todo, index, written, result, verdict,
                   run, edits, crashes>>

(* readiness(): every layer of the city counts, of whichever version. *)
Covered == {layers[f].category : f \in DOMAIN layers}
Aligned ==
    /\ layers # <<>> /\ Core \subseteq Covered
    /\ \A f \in DOMAIN layers : layers[f].error <= Tolerance

(* Mutant: failures of sources do not count. *)
SucceedsAnyway(w) == tally[w].processed > 0 /\ Aligned
Succeeds(w) == tally[w].processed > 0 /\ tally[w].failures = 0 /\ Aligned

End(w, how) ==
    /\ verdict' = [verdict EXCEPT ![w] = how]
    /\ todo' = [todo EXCEPT ![w] = {}]
    /\ current' = [current EXCEPT ![w] = NoSource]
    /\ GoTo(w, "off")
    /\ UNCHANGED <<objects, category, status, layers, index, written, result, tally, run,
                   edits>>

Finish(w) ==
    /\ pc[w] = "next" /\ todo[w] = {}
    /\ End(w, IF Succeeds(w) THEN "success" ELSE "failure")
    /\ UNCHANGED crashes

(* The process is killed, or a call to the store or the database fails. *)
Crash(w) ==
    /\ pc[w] # "off" /\ crashes < MaxCrashes
    /\ crashes' = crashes + 1
    /\ End(w, "failure")

-----------------------------------------------------------------------------
(* SpatialService.normalize_dataset, one file after another *)

Looking(w) == pc[w] = "file" /\ index[w] <= Len(Here(w))

(* On to the next file, with this one counted. *)
NextFile(w, counted) ==
    /\ result' = [result EXCEPT ![w] = counted]
    /\ index' = [index EXCEPT ![w] = @ + 1]
    /\ GoTo(w, "file")
    /\ UNCHANGED <<objects, category, status, todo, current, written, tally, verdict, run,
                   edits, crashes>>

SkipFile(w) ==
    /\ Looking(w) /\ Kind(w) = "other"
    /\ NextFile(w, [result[w] EXCEPT !.skipped = @ + 1])
    /\ UNCHANGED layers

RefuseLarge(w) ==
    /\ Looking(w) /\ Kind(w) = "large"
    /\ Fail(w)

(* Mutant: a file whose add() was rejected is looked at anew.               *)
ReuseAnew(w) ==
    /\ \/ /\ Looking(w) /\ Kind(w) \in {"vector", "broken"} /\ Mark(w) \in DOMAIN layers
          /\ NextFile(w, [result[w] EXCEPT !.reused = @ \cup {Mark(w)}])
       \/ /\ pc[w] = "add" /\ Mark(w) \in DOMAIN layers
          /\ GoTo(w, "file")
          /\ UNCHANGED <<objects, category, status, place, report, run, edits, crashes>>
    /\ UNCHANGED layers

(* find_by_fingerprint returns a layer, at first or after an add() that the *)
(* unique constraint rejected.                                              *)
Reuse(w) ==
    /\ \/ Looking(w) /\ Kind(w) \in {"vector", "broken"}
       \/ pc[w] = "add"
    /\ Mark(w) \in DOMAIN layers
    /\ NextFile(w, [result[w] EXCEPT !.reused = @ \cup {Mark(w)}])
    /\ UNCHANGED layers

RefuseBroken(w) ==
    /\ Looking(w) /\ Kind(w) = "broken" /\ Mark(w) \notin DOMAIN layers
    /\ Fail(w)

(* The raw bytes are read and normalized in memory. *)
Normalize(w) ==
    /\ Looking(w) /\ Kind(w) = "vector" /\ Mark(w) \notin DOMAIN layers
    /\ written' = [written EXCEPT ![w] = 0]
    /\ GoTo(w, "stat")
    /\ UNCHANGED <<objects, category, status, layers, todo, current, index, report, run,
                   edits, crashes>>

NextKey(w) == Key(Mark(w), written[w] + 1)
NextPayload(w) == Payload(Mark(w), written[w] + 1)

Stat(w) ==
    /\ pc[w] = "stat"
    /\ GoTo(w, IF Present(NextKey(w)) THEN "compare" ELSE "put")
    /\ UNCHANGED <<objects, category, status, layers, place, report, run, edits, crashes>>

(* Mutant: the row is added as soon as the working collection is stored. *)
AdvanceWithoutQa(w) ==
    /\ written' = [written EXCEPT ![w] = @ + 1]
    /\ GoTo(w, "add")
    /\ UNCHANGED <<category, status, layers, todo, current, index, report, run, edits,
                   crashes>>

Advance(w) ==
    /\ written' = [written EXCEPT ![w] = @ + 1]
    /\ GoTo(w, IF written[w] + 1 = Len(Artefacts) THEN "add" ELSE "stat")
    /\ UNCHANGED <<category, status, layers, todo, current, index, report, run, edits,
                   crashes>>

PutObject(w) ==
    /\ pc[w] = "put"
    /\ Put(NextKey(w), NextPayload(w))
    /\ Advance(w)

(* The comparison never fails (KeysDetermineBytes), so the error it would   *)
(* raise has no action.                                                     *)
CompareSame(w) ==
    /\ pc[w] = "compare" /\ Same(NextKey(w), NextPayload(w))
    /\ Advance(w)
    /\ UNCHANGED objects

(* Mutant: a layer another worker has just added is reported as created. *)
AddUnchecked(w) ==
    /\ pc[w] = "add"
    /\ layers' = [f \in DOMAIN layers \cup {Mark(w)} |->
                     IF f = Mark(w) THEN [category |-> listed[w][current[w]],
                                           error |-> Here(w)[index[w]].error]
                     ELSE layers[f]]
    /\ NextFile(w, [result[w] EXCEPT !.created = @ \cup {Mark(w)}])

(* repository.add commits the row. *)
AddLayer(w) ==
    /\ pc[w] = "add" /\ Mark(w) \notin DOMAIN layers
    /\ layers' = [f \in DOMAIN layers \cup {Mark(w)} |->
                     IF f = Mark(w) THEN [category |-> listed[w][current[w]],
                                           error |-> Here(w)[index[w]].error]
                     ELSE layers[f]]
    /\ NextFile(w, [result[w] EXCEPT !.created = @ \cup {Mark(w)}])

-----------------------------------------------------------------------------
Step(w) ==
    \/ \E s \in Sources : TakeSource(w, s) \/ SkipSource(w, s)
    \/ Processed(w) \/ Finish(w)
    \/ SkipFile(w) \/ RefuseLarge(w) \/ Reuse(w) \/ RefuseBroken(w) \/ Normalize(w)
    \/ Stat(w) \/ PutObject(w) \/ CompareSame(w) \/ AddLayer(w)

Rest ==
    /\ \A w \in Workers : pc[w] = "off" /\ runs[w] = MaxRuns
    /\ UNCHANGED vars

Next ==
    \/ \E s \in Sources : \/ \E v \in Versions(s) : Publish(s, v) \/ Withdraw(s, v)
                          \/ \E c \in Categories : EditCategory(s, c)
    \/ \E w \in Workers : Launch(w) \/ Step(w) \/ Crash(w)
    \/ Rest

Spec == Init /\ [][Next]_vars

-----------------------------------------------------------------------------
PcLabels == {"off", "next", "file", "stat", "put", "compare", "add"}

Layer == [category: Core \cup Optional, error: Nat]
StoredAs == [source: Sources, version: Nat, file: Nat, artefact: {"working", "qa"}]

Result == [created: SUBSET Fingerprints, reused: SUBSET Fingerprints, skipped: Nat]
Tally == [processed: Nat, failures: Nat]

WorldType ==
    /\ category \in [Sources -> Categories]
    /\ DOMAIN status = Sources
    /\ \A s \in Sources : status[s] \in [Versions(s) -> {"PENDING", "COMPLETE", "FAILED"}]
    /\ edits \in Nat /\ crashes \in Nat

StoreType ==
    /\ DOMAIN layers \subseteq Fingerprints /\ layers \in [DOMAIN layers -> Layer]
    /\ DOMAIN objects \subseteq Fingerprints \X {"working", "qa"}
    /\ objects \in [DOMAIN objects -> StoredAs]

PlaceType ==
    /\ pc \in [Workers -> PcLabels]
    /\ todo \in [Workers -> SUBSET Sources]
    /\ current \in [Workers -> Sources \cup {NoSource}]
    /\ index \in [Workers -> Nat] /\ written \in [Workers -> 0..2]

ReportType ==
    /\ result \in [Workers -> Result] /\ tally \in [Workers -> Tally]
    /\ verdict \in [Workers -> {"none", "success", "failure"}]

RunType ==
    /\ listed \in [Workers -> [Sources -> Categories]]
    /\ chosen \in [Workers -> [Sources -> Nat]]
    /\ runs \in [Workers -> Nat]

(* Every variable has the shape the code gives it. *)
TypeOK == WorldType /\ StoreType /\ PlaceType /\ ReportType /\ RunType

-----------------------------------------------------------------------------
(* Safety. *)

VectorFiles(s, v) == {i \in 1..Len(Files[s][v]) : File(s, v, i).kind = "vector"}

Stored(f) == \A k \in 1..2 : Present(Key(f, k)) /\ Same(Key(f, k), Payload(f, k))

Normalized(s, v, c) ==
    \A i \in VectorFiles(s, v) :
        LET f == Fingerprint(s, v, i, c) IN f \in DOMAIN layers /\ Stored(f)

(* A run that reports success has left a stored layer of every vector file  *)
(* of every version it took, whatever it had to reuse of other runs, and    *)
(* covers every core category, however the registry and the vault changed   *)
(* meanwhile (bootstrap.py:40-91).                                          *)
SuccessIsComplete ==
    \A w \in Workers : verdict[w] = "success" =>
        /\ \A s \in Sources : chosen[w][s] # 0 => Normalized(s, chosen[w][s], listed[w][s])
        /\ Core \subseteq Covered

(* An object that is found under the key of an artefact is that artefact,   *)
(* whichever worker, run or version it is of: "immutable spatial key exists *)
(* with different bytes" is never raised (service.py:61-65).                *)
KeysDetermineBytes ==
    \A w \in Workers : pc[w] = "compare" => Same(NextKey(w), NextPayload(w))

(* Two workers that race on the same file do not both report its layer as   *)
(* created.                                                                 *)
CreatedOnce ==
    \A w, x \in Workers : w # x => result[w].created \cap result[x].created = {}

(* The most steps worker w still takes at the source it is at: a file takes *)
(* at most one look, two of a look-up and a write each, and one row.        *)
StepsLeft(w) ==
    LET filesAfter == Len(Here(w)) - index[w] IN
    CASE pc[w] = "file" -> 9 + 7 * filesAfter
      [] pc[w] = "stat" -> 8 + 7 * filesAfter - 2 * written[w]
      [] pc[w] \in {"put", "compare"} -> 7 + 7 * filesAfter - 2 * written[w]
      [] pc[w] = "add" -> 3 + 7 * filesAfter
      [] pc[w] = "next" -> 1
      [] pc[w] = "off" -> 0

Nearer(w) ==
    \/ todo'[w] \subseteq todo[w] /\ todo'[w] # todo[w]
    \/ todo'[w] = todo[w] /\ StepsLeft(w)' < StepsLeft(w)

(* Every run is finite: each step of a worker takes a source off its list   *)
(* or brings it nearer to the end of the one it is at, and nothing that     *)
(* other workers, the harvester, operators or crashes do sets it back       *)
(* (bootstrap.py:40-63, service.py:161-225).                                *)
RunsAreFinite ==
    [][\A w \in Workers : pc[w] # "off" =>
           Nearer(w) \/ UNCHANGED <<pc[w], todo[w], current[w], index[w], written[w]>>]_vars

-----------------------------------------------------------------------------
(* What a reader of the table and the bucket gets. *)
Read(key) == IF Present(key) THEN {objects[key]} ELSE {}

Readable == [f \in DOMAIN layers |-> [k \in 1..2 |-> Read(Key(f, k))]]

Normalizable ==
    {f \in Fingerprints : File(f.source, f.version, f.file).kind = "vector"}

Derived(f) == {[k \in 1..2 |-> {Payload(f, k)}]}

Abstract == INSTANCE Products WITH
    Inputs <- Normalizable, Contents <- Derived, products <- Readable

(* Workers that race, die, start again and meet edits and new versions look *)
(* like one that derives each layer at once, once and for good.             *)
ImplementsProducts == Abstract!Spec
=============================================================================
