--------------------------- MODULE Reconstruction ---------------------------
(***************************************************************************)
(* Sequence 5: workers that reconstruct calibrated drainage maps            *)
(* (floodguard/reconstruction/bootstrap.py, ReconstructionService.          *)
(* reconstruct in service.py) and API requests that review the results      *)
(* (ReconstructionService.review), over one table of reconstructions, one   *)
(* append-only table of reviews (repository.py) and the spatial bucket.     *)
(* A map is a raw object with the calibration pinned to it, that is, a      *)
(* reconstruction fingerprint.  What extraction and georeferencing make of  *)
(* it is a function of the map, given by Scan.                              *)
(***************************************************************************)
EXTENDS SpatialStore, Naturals, Sequences, FiniteSets

CONSTANTS
    Workers,            \* bootstrap processes
    Reviewers,          \* people and tools that send reviews
    Maps,               \* reconstruction fingerprints
    Scan,               \* Scan[m]: what the service finds in map m
    Authorities,        \* authority levels the registry may give the source
    Requests,           \* review requests that may be sent
    NoMap, NoReviewer, NoAuthority, Idle,
    MaxRuns,            \* bound: times each worker is started
    MaxReviews,         \* bound: reviews
    MaxEdits,           \* bound: edits of the registry
    MaxCrashes          \* bound: workers and requests killed

ScanType ==
    [fits: BOOLEAN, intact: BOOLEAN, native: BOOLEAN, populated: BOOLEAN,
     rmse: Nat, maxError: Nat, tolerance: Nat]

(* checked: every checklist flag is set. *)
ReviewCreate ==
    [decision: {"APPROVE", "REJECT"}, type: {"HUMAN", "AUTOMATED"}, checked: BOOLEAN]

ASSUME ReconstructionAssumption ==
    /\ Requests \subseteq ReviewCreate
    /\ NoMap \notin Maps /\ NoReviewer \notin Reviewers /\ NoAuthority \notin Authorities
    /\ Scan \in [Maps -> ScanType]
    /\ \A m \in Maps : Scan[m].rmse <= Scan[m].maxError
    /\ {MaxRuns, MaxReviews, MaxEdits, MaxCrashes} \subseteq Nat

VARIABLES
    authority,  \* authority_level of the source in the registry
    rows,       \* drainage_reconstructions, by fingerprint
    reviews,    \* reconstruction_reviews, in the order of their commits
    pc,         \* pc[w]: where worker w stands
    todo,       \* todo[w]: maps worker w has not come to yet
    listed,     \* listed[w]: the authority level worker w read at its start
    current,    \* current[w]: the map worker w is at
    written,    \* written[w]: how many artefacts of it are in the bucket
    desk,       \* desk[q]: the review request of q that is being handled
    clock,      \* utc_now() as of the last review
    runs, edits, crashes    \* how much of the bounds is used

work == <<pc, todo, listed, current, written, runs>>
reviewing == <<reviews, desk, clock>>
vars == <<objects, authority, rows, work, reviewing, edits, crashes>>

-----------------------------------------------------------------------------
(* _validate_inputs aside, which the bootstrap's own selection satisfies:   *)
(* the gates a map passes before anything is written.                       *)
Accepted(m) ==
    /\ Scan[m].fits /\ Scan[m].intact /\ Scan[m].native /\ Scan[m].populated
    /\ Scan[m].rmse <= Scan[m].tolerance

Kinds == <<"working", "qa", "audit">>

Key(m, i) == <<m, Kinds[i]>>

(* The features depend on the map alone; the audit names the authority too, *)
(* which no fingerprint covers.                                             *)
Payload(m, i, a) ==
    [map |-> m, kind |-> Kinds[i], authority |-> IF Kinds[i] = "audit" THEN a ELSE NoAuthority]

Payloads(m, a) == [i \in 1..3 |-> Payload(m, i, a)]

NewRow(m, a) ==
    [artefacts |-> Payloads(m, a), authority |-> a, status |-> "PENDING_REVIEW",
     reviewer |-> NoReviewer, reviewedAt |-> 0]

(* Mutant: the checklist is not asked for. *)
AdmissibleUnchecked(request) == request.decision = "APPROVE" => request.type = "HUMAN"

(* What review() does not refuse. *)
Admissible(request) ==
    request.decision = "APPROVE" => request.type = "HUMAN" /\ request.checked

Outcome(request) == IF request.decision = "APPROVE" THEN "APPROVED" ELSE "REJECTED"

GoTo(w, label) == pc' = [pc EXCEPT ![w] = label]

Init ==
    /\ objects = <<>> /\ authority \in Authorities
    /\ rows = <<>> /\ reviews = <<>>
    /\ pc = [w \in Workers |-> "off"]
    /\ todo = [w \in Workers |-> {}]
    /\ listed = [w \in Workers |-> authority]
    /\ current = [w \in Workers |-> NoMap]
    /\ written = [w \in Workers |-> 0]
    /\ desk = [q \in Reviewers |-> Idle]
    /\ clock = 0
    /\ runs = [w \in Workers |-> 0] /\ edits = 0 /\ crashes = 0

-----------------------------------------------------------------------------
(* An operator replaces the registry record of the source. *)
EditAuthority(a) ==
    /\ edits < MaxEdits /\ a # authority
    /\ authority' = a
    /\ edits' = edits + 1
    /\ UNCHANGED <<objects, rows, work, reviewing, crashes>>

(* bootstrap.main lists the sources once and goes through their maps. *)
Launch(w) ==
    /\ pc[w] = "off" /\ runs[w] < MaxRuns
    /\ runs' = [runs EXCEPT ![w] = @ + 1]
    /\ listed' = [listed EXCEPT ![w] = authority]
    /\ todo' = [todo EXCEPT ![w] = Maps]
    /\ GoTo(w, "next")
    /\ UNCHANGED <<objects, authority, rows, current, written, reviewing, edits, crashes>>

NextMap(w, m) ==
    /\ pc[w] = "next" /\ m \in todo[w]
    /\ todo' = [todo EXCEPT ![w] = @ \ {m}]
    /\ current' = [current EXCEPT ![w] = m]
    /\ written' = [written EXCEPT ![w] = 0]
    /\ GoTo(w, "find")
    /\ UNCHANGED <<objects, authority, rows, listed, runs, reviewing, edits, crashes>>

(* The process ends, after its last map or by an exception; main() catches  *)
(* none of reconstruct()'s.                                                 *)
Exit(w) ==
    /\ todo' = [todo EXCEPT ![w] = {}]
    /\ current' = [current EXCEPT ![w] = NoMap]
    /\ GoTo(w, "off")
    /\ UNCHANGED <<objects, authority, rows, listed, written, runs, reviewing, edits>>

Finish(w) ==
    /\ pc[w] = "next" /\ todo[w] = {}
    /\ Exit(w)
    /\ UNCHANGED crashes

-----------------------------------------------------------------------------
(* ReconstructionService.reconstruct *)

(* Mutant: add() does not look for the row that it collided with. *)
ReuseAtFirst(w) ==
    /\ pc[w] = "find" /\ current[w] \in DOMAIN rows
    /\ GoTo(w, "next")
    /\ UNCHANGED <<objects, authority, rows, todo, listed, current, written, runs, reviewing,
                   edits, crashes>>

(* find_by_fingerprint returns a row, at first or after an add() that the   *)
(* unique constraint rejected: the result is the existing reconstruction.   *)
Reuse(w) ==
    /\ pc[w] \in {"find", "add"} /\ current[w] \in DOMAIN rows
    /\ GoTo(w, "next")
    /\ UNCHANGED <<objects, authority, rows, todo, listed, current, written, runs, reviewing,
                   edits, crashes>>

(* The raw bytes are read and verified, the drawing is extracted,           *)
(* georeferenced and checked, and the artefacts are built in memory.        *)
Prepare(w) ==
    /\ pc[w] = "find" /\ current[w] \notin DOMAIN rows /\ Accepted(current[w])
    /\ GoTo(w, "stat")
    /\ UNCHANGED <<objects, authority, rows, todo, listed, current, written, runs, reviewing,
                   edits, crashes>>

Refuse(w) ==
    /\ pc[w] = "find" /\ current[w] \notin DOMAIN rows /\ ~Accepted(current[w])
    /\ Exit(w)
    /\ UNCHANGED crashes

NextKey(w) == Key(current[w], written[w] + 1)
NextPayload(w) == Payload(current[w], written[w] + 1, listed[w])

(* put_spatial_once looks the key up, ... *)
Stat(w) ==
    /\ pc[w] = "stat"
    /\ GoTo(w, IF Present(NextKey(w)) THEN "compare" ELSE "put")
    /\ UNCHANGED <<objects, authority, rows, todo, listed, current, written, runs, reviewing,
                   edits, crashes>>

(* Mutant: the row is added as soon as the two layers are stored. *)
AdvanceWithoutAudit(w) ==
    /\ written' = [written EXCEPT ![w] = @ + 1]
    /\ GoTo(w, IF written[w] + 2 = Len(Kinds) THEN "add" ELSE "stat")
    /\ UNCHANGED <<authority, rows, todo, listed, current, runs, reviewing, edits, crashes>>

Advance(w) ==
    /\ written' = [written EXCEPT ![w] = @ + 1]
    /\ GoTo(w, IF written[w] + 1 = Len(Kinds) THEN "add" ELSE "stat")
    /\ UNCHANGED <<authority, rows, todo, listed, current, runs, reviewing, edits, crashes>>

(* ... and writes it if it was absent then; ... *)
PutArtefact(w) ==
    /\ pc[w] = "put"
    /\ Put(NextKey(w), NextPayload(w))
    /\ Advance(w)

(* ... bytes already there must be the same.                                *)
CompareSame(w) ==
    /\ pc[w] = "compare" /\ Same(NextKey(w), NextPayload(w))
    /\ Advance(w)
    /\ UNCHANGED objects

CompareDiffers(w) ==
    /\ pc[w] = "compare" /\ ~Same(NextKey(w), NextPayload(w))
    /\ Exit(w)
    /\ UNCHANGED crashes

(* Mutant: the commit is missing. *)
AddRowUncommitted(w) ==
    /\ pc[w] = "add" /\ current[w] \notin DOMAIN rows
    /\ GoTo(w, "next")
    /\ UNCHANGED <<objects, authority, rows, todo, listed, current, written, runs, reviewing,
                   edits, crashes>>

(* repository.add commits the row. *)
AddRow(w) ==
    LET m == current[w] IN
    /\ pc[w] = "add" /\ m \notin DOMAIN rows
    /\ rows' = [k \in DOMAIN rows \cup {m} |->
                   IF k = m THEN NewRow(m, listed[w]) ELSE rows[k]]
    /\ GoTo(w, "next")
    /\ UNCHANGED <<objects, authority, todo, listed, current, written, runs, reviewing,
                   edits, crashes>>

(* The process is killed, or a call to the store or the database fails: no  *)
(* handler writes anything.                                                 *)
Crash(w) ==
    /\ pc[w] # "off" /\ crashes < MaxCrashes
    /\ crashes' = crashes + 1
    /\ Exit(w)
-----------------------------------------------------------------------------
(* ReconstructionService.review, one call per API request.  A request that  *)
(* is not Admissible is answered 409, one of an unknown map 404; neither    *)
(* writes anything.                                                         *)

(* repository.get loads the row into the session of the request; review_id  *)
(* and created_at are drawn.                                                *)
OpenReview(q, m, request) ==
    /\ desk[q] = Idle /\ clock < MaxReviews
    /\ m \in DOMAIN rows /\ Admissible(request)
    /\ clock' = clock + 1
    /\ desk' = [desk EXCEPT ![q] =
                   [map |-> m, request |-> request, at |-> clock + 1, seen |-> rows[m]]]
    /\ UNCHANGED <<objects, authority, rows, work, reviews, edits, crashes>>

(* The session writes the columns whose new value differs from the one it   *)
(* loaded; created_at always does.                                          *)
Changed(loaded, new, stored) == IF new = loaded THEN stored ELSE new

(* Mutants: the decision, or the reviewer, is not written to the row. *)
UpdatedWithoutStatus(row, q, task) ==
    [row EXCEPT !.reviewer = q, !.reviewedAt = task.at]

UpdatedWithoutReviewer(row, q, task) ==
    [row EXCEPT !.status = Outcome(task.request), !.reviewedAt = task.at]

Updated(row, q, task) ==
    [row EXCEPT !.status = Changed(task.seen.status, Outcome(task.request), @),
                !.reviewer = Changed(task.seen.reviewer, q, @),
                !.reviewedAt = task.at]

(* add_review commits the review and the row. *)
CommitReview(q) ==
    /\ desk[q] # Idle
    /\ reviews' = Append(reviews, [map |-> desk[q].map, request |-> desk[q].request,
                                   reviewer |-> q, at |-> desk[q].at])
    /\ rows' = [rows EXCEPT ![desk[q].map] = Updated(@, q, desk[q])]
    /\ desk' = [desk EXCEPT ![q] = Idle]
    /\ UNCHANGED <<objects, authority, work, clock, edits, crashes>>

(* The request dies before its commit. *)
DropReview(q) ==
    /\ desk[q] # Idle /\ crashes < MaxCrashes
    /\ crashes' = crashes + 1
    /\ desk' = [desk EXCEPT ![q] = Idle]
    /\ UNCHANGED <<objects, authority, rows, work, reviews, clock, edits>>

-----------------------------------------------------------------------------
Step(w) ==
    \/ \E m \in Maps : NextMap(w, m)
    \/ Finish(w) \/ Reuse(w) \/ Prepare(w) \/ Refuse(w) \/ Stat(w) \/ PutArtefact(w)
    \/ CompareSame(w) \/ CompareDiffers(w) \/ AddRow(w)

Rest ==
    /\ \A w \in Workers : pc[w] = "off" /\ runs[w] = MaxRuns
    /\ \A q \in Reviewers : desk[q] = Idle
    /\ UNCHANGED vars

Next ==
    \/ \E a \in Authorities : EditAuthority(a)
    \/ \E w \in Workers : Launch(w) \/ Step(w) \/ Crash(w)
    \/ \E q \in Reviewers :
           \/ \E m \in Maps, request \in Requests : OpenReview(q, m, request)
           \/ CommitReview(q) \/ DropReview(q)
    \/ Rest

Spec == Init /\ [][Next]_vars

(* A worker that is not killed keeps running. *)
KeepsRunning(w) == WF_vars(Step(w))
FairSpec == Spec /\ \A w \in Workers : KeepsRunning(w)

-----------------------------------------------------------------------------
PcLabels == {"off", "next", "find", "stat", "put", "compare", "add"}
Bytes == [map: Maps, kind: {"working", "qa", "audit"},
          authority: Authorities \cup {NoAuthority}]
Row == [artefacts: [1..3 -> Bytes], authority: Authorities,
        status: {"PENDING_REVIEW", "APPROVED", "REJECTED"},
        reviewer: Reviewers \cup {NoReviewer}, reviewedAt: Nat]
Task == [map: Maps, request: Requests, at: Nat, seen: Row]
Review == [map: Maps, request: Requests, reviewer: Reviewers, at: Nat]

StoreType ==
    /\ objects \in [DOMAIN objects -> Bytes]
    /\ DOMAIN objects \subseteq Maps \X {"working", "qa", "audit"}
    /\ rows \in [DOMAIN rows -> Row] /\ DOMAIN rows \subseteq Maps

WorkerType ==
    /\ pc \in [Workers -> PcLabels]
    /\ todo \in [Workers -> SUBSET Maps]
    /\ listed \in [Workers -> Authorities]
    /\ current \in [Workers -> Maps \cup {NoMap}]
    /\ written \in [Workers -> 0..3] /\ runs \in [Workers -> Nat]

ReviewType ==
    /\ reviews \in Seq(Review)
    /\ desk \in [Reviewers -> Task \cup {Idle}]
    /\ clock \in Nat

WorldType == authority \in Authorities /\ edits \in Nat /\ crashes \in Nat

(* Every variable has the shape the code gives it. *)
TypeOK == StoreType /\ WorkerType /\ ReviewType /\ WorldType

-----------------------------------------------------------------------------
(* Safety. *)

(* The three artefacts of a row are in the bucket with the hashes the row   *)
(* gives, whoever wrote them and however often a run was cut short          *)
(* (service.py:344-406).                                                    *)
Stored(m) ==
    \A i \in 1..3 : Present(Key(m, i)) /\ Same(Key(m, i), rows[m].artefacts[i])

(* readiness(): the rows that open the completion gate. *)
Qualifies(m) ==
    /\ rows[m].status = "APPROVED" /\ rows[m].authority = "MUNICIPAL_PRIMARY"
    /\ Scan[m].rmse <= Scan[m].tolerance /\ Scan[m].maxError <= Scan[m].tolerance
    /\ Scan[m].populated /\ Scan[m].native

Approval(r, m) ==
    /\ r.map = m
    /\ r.request = [decision |-> "APPROVE", type |-> "HUMAN", checked |-> TRUE]

(* The completion gate opens only for a map that passed every gate before   *)
(* it, whose artefacts are stored, and that a human approved with every     *)
(* check (service.py:583-590 and 639-652).                                  *)
GateIsEarned ==
    \A m \in DOMAIN rows : Qualifies(m) =>
        /\ Accepted(m) /\ Stored(m)
        /\ \E i \in DOMAIN reviews : Approval(reviews[i], m)

(* A row awaits review exactly as long as no review of it is committed, and *)
(* after that names one that is, however many requests overlap.             *)
ReviewedIsDecided ==
    \A m \in DOMAIN rows :
        LET own == {i \in DOMAIN reviews : reviews[i].map = m} IN
        IF rows[m].status = "PENDING_REVIEW" THEN own = {}
        ELSE \E i \in own : rows[m].reviewedAt = reviews[i].at

(* A worker never waits: whatever it finds in the bucket and in the table,  *)
(* a row or an object of another worker included, it has a next step        *)
(* (service.py:55-76, repository.py:35-49).                                 *)
WorkersCanMove ==
    \A w \in Workers : ~(pc[w] = "off") => ENABLED <<Step(w)>>_vars

-----------------------------------------------------------------------------
(* Action properties. *)

(* The most steps worker w still takes at the map it is at. *)
StepsLeft(w) ==
    CASE pc[w] = "find" -> 9
      [] pc[w] = "stat" -> 8 - 2 * written[w]
      [] pc[w] \in {"put", "compare"} -> 7 - 2 * written[w]
      [] pc[w] = "add" -> 2
      [] pc[w] = "next" -> 1
      [] pc[w] = "off" -> 0

Nearer(w) ==
    \/ todo'[w] \subseteq todo[w] /\ todo'[w] # todo[w]
    \/ todo'[w] = todo[w] /\ StepsLeft(w)' < StepsLeft(w)

(* Every run is finite: each step of a worker takes a map off its list or   *)
(* brings it nearer to the end of the one it is at, and nothing that other  *)
(* workers, reviews, edits or crashes do ever sets it back, whatever it has *)
(* to compare or to reuse (bootstrap.py:47-72, service.py:344-406).         *)
RunsAreFinite ==
    [][\A w \in Workers : pc[w] # "off" =>
           Nearer(w) \/ UNCHANGED <<pc[w], todo[w], current[w], written[w]>>]_vars

(* An artefact in the bucket is never replaced by different bytes.          *)
ArtefactsAreImmutable == [][OnlyAdds]_vars

(* A review whose request loaded the row as it still is when it commits     *)
(* decides the row: its status, its reviewer and its time are the review's. *)
InformedReviewDecides ==
    [][\A i \in DOMAIN reviews' \ DOMAIN reviews :
           LET r == reviews'[i] IN
           desk[r.reviewer].seen = rows[r.map] =>
               /\ rows'[r.map].status = Outcome(r.request)
               /\ rows'[r.map].reviewer = r.reviewer
               /\ rows'[r.map].reviewedAt = r.at]_vars

-----------------------------------------------------------------------------
(* Liveness. *)

(* A worker that takes up a sound map ends with that map reconstructed, by  *)
(* itself or by another worker, unless one is killed.                       *)
TakenMapsAreReconstructed ==
    \A w \in Workers : \A m \in Maps :
        (current[w] = m /\ Accepted(m)) ~> (m \in DOMAIN rows \/ crashes > 0)

-----------------------------------------------------------------------------
(* What a reader of the table and the bucket gets. *)
Read(key) == IF Present(key) THEN {objects[key]} ELSE {}

Layers == [m \in DOMAIN rows |-> [i \in 1..3 |-> Read(Key(m, i))]]

Versions(m) == {[i \in 1..3 |-> {Payload(m, i, a)}] : a \in Authorities}

Abstract == INSTANCE Products WITH
    Inputs <- {m \in Maps : Accepted(m)}, Contents <- Versions, products <- Layers

(* Workers that race, die and start again look like one that derives each   *)
(* product at once and once, as long as nobody edits the authority of the   *)
(* source.                                                                  *)
ImplementsProducts == Abstract!Spec
=============================================================================
