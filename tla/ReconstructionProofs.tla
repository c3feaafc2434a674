------------------------ MODULE ReconstructionProofs ------------------------
(***************************************************************************)
(* What holds of the reconstruction for any number of workers, reviewers,   *)
(* maps, reviews and crashes, and what holds as long as nobody edits the    *)
(* authority of the source.                                                 *)
(***************************************************************************)
EXTENDS Reconstruction, TLAPS

Writing == {"stat", "put", "compare", "add"}

(* Where a worker stands bounds what its locals can be. *)
WorkerShape(w) ==
    /\ pc[w] \in Writing \cup {"find"} => current[w] \in Maps
    /\ pc[w] = "find" => written[w] = 0
    /\ pc[w] \in Writing => Accepted(current[w])
    /\ pc[w] \in Writing \ {"add"} => written[w] < 3
    /\ pc[w] = "add" => written[w] = 3

TypeInv == TypeOK /\ \A w \in Workers : WorkerShape(w)

(* The artefacts a worker takes for stored are there, whatever they say.    *)
WritingInv(w) ==
    /\ pc[w] \in Writing => \A i \in 1..written[w] : Present(Key(current[w], i))
    /\ pc[w] = "compare" => Present(NextKey(w))

RowsInv ==
    \A m \in DOMAIN rows :
        /\ Accepted(m) /\ rows[m].artefacts = Payloads(m, rows[m].authority)
        /\ \A i \in 1..3 : Present(Key(m, i))

(* Until somebody edits it there is one authority, and an artefact is the   *)
(* one its key names under it.                                              *)
UneditedInv ==
    edits = 0 =>
        /\ \A w \in Workers : listed[w] = authority
        /\ \A m \in DOMAIN rows : rows[m].authority = authority
        /\ \A m \in Maps, i \in 1..3 :
               Present(Key(m, i)) => Same(Key(m, i), Payload(m, i, authority))

StoreInv == (\A w \in Workers : WritingInv(w)) /\ RowsInv /\ UneditedInv

-----------------------------------------------------------------------------
Decided(row) == row.status # "PENDING_REVIEW"

(* A request holds an earlier state of its row: what was decided then is    *)
(* decided now.                                                             *)
DeskInv ==
    \A q \in Reviewers : desk[q] # Idle =>
        /\ desk[q].map \in DOMAIN rows /\ Admissible(desk[q].request)
        /\ Decided(desk[q].seen) => Decided(rows[desk[q].map])

(* A review is of a row, an approval of one is somebody's, and the gate's   *)
(* other condition.                                                         *)
ReviewsInv ==
    /\ \A i \in DOMAIN reviews : reviews[i].map \in DOMAIN rows
    /\ \A m \in DOMAIN rows : rows[m].status = "APPROVED" =>
           \E i \in DOMAIN reviews : Approval(reviews[i], m)

DecisionInv == DeskInv /\ ReviewsInv /\ ReviewedIsDecided

IInv == StoreInv /\ DecisionInv

-----------------------------------------------------------------------------
(* Types. *)

Moves(w) == Launch(w) \/ Step(w) \/ Crash(w)

Locals(w) == <<pc[w], todo[w], listed[w], current[w], written[w], runs[w]>>

LEMMA TypeInit == Init => TypeInv
<1> SUFFICES ASSUME Init PROVE TypeInv
  OBVIOUS
<1>1. TypeOK
  BY DEF Init, TypeOK, StoreType, WorkerType, ReviewType, WorldType, PcLabels
<1>2. \A w \in Workers : WorkerShape(w)
  BY DEF Init, WorkerShape, Writing
<1> QED
  BY <1>1, <1>2 DEF TypeInv

LEMMA PayloadType ==
    ASSUME NEW m \in Maps, NEW a \in Authorities
    PROVE  /\ \A i \in 1..3 : Payload(m, i, a) \in Bytes /\ Key(m, i) \in Maps \X {"working", "qa", "audit"}
           /\ Payloads(m, a) \in [1..3 -> Bytes]
           /\ NewRow(m, a) \in Row
<1>1. \A i \in 1..3 : Kinds[i] \in {"working", "qa", "audit"}
  BY DEF Kinds
<1>2. \A i \in 1..3 : Payload(m, i, a) \in Bytes /\ Key(m, i) \in Maps \X {"working", "qa", "audit"}
  BY <1>1 DEF Payload, Bytes, Key
<1>3. Payloads(m, a) \in [1..3 -> Bytes]
  BY <1>2 DEF Payloads
<1> QED
  BY <1>2, <1>3 DEF NewRow, Row

LEMMA Elsewhere ==
    ASSUME WorkerType, NEW w \in Workers, Moves(w), NEW x \in Workers \ {w}
    PROVE  Locals(x)' = Locals(x)
<1> USE DEF WorkerType, Locals, GoTo
<1>1. CASE Launch(w)
  BY <1>1 DEF Launch
<1>2. CASE Crash(w) \/ Finish(w) \/ Refuse(w) \/ CompareDiffers(w)
  BY <1>2 DEF Crash, Finish, Refuse, CompareDiffers, Exit
<1>3. CASE \E m \in Maps : NextMap(w, m)
  BY <1>3 DEF NextMap
<1>4. CASE Reuse(w) \/ Prepare(w) \/ Stat(w) \/ AddRow(w)
  BY <1>4 DEF Reuse, Prepare, Stat, AddRow
<1>5. CASE PutArtefact(w) \/ CompareSame(w)
  BY <1>5 DEF PutArtefact, CompareSame, Advance
<1> QED
  BY <1>1, <1>2, <1>3, <1>4, <1>5 DEF Moves, Step

(* A step of a worker and the other variables. *)
LEMMA Leaves ==
    ASSUME NEW w \in Workers, Moves(w)
    PROVE  /\ UNCHANGED <<authority, edits, reviewing>>
           /\ ~PutArtefact(w) => UNCHANGED objects
           /\ ~AddRow(w) => UNCHANGED rows
           /\ crashes' = crashes \/ crashes' = crashes + 1
BY DEF Moves, Step, Launch, Crash, Finish, Refuse, CompareDiffers, Exit, NextMap, Reuse, Prepare, Stat,
       AddRow, PutArtefact, CompareSame, Advance, reviewing

LEMMA TypeStoreStep ==
    ASSUME TypeInv, NEW w \in Workers, Moves(w)
    PROVE  StoreType'
<1> USE DEF TypeInv, TypeOK
<1>1. CASE PutArtefact(w)
  <2>1. current[w] \in Maps /\ written[w] + 1 \in 1..3 /\ listed[w] \in Authorities
    BY <1>1 DEF PutArtefact, WorkerShape, WorkerType, Writing
  <2>2. NextKey(w) \in Maps \X {"working", "qa", "audit"} /\ NextPayload(w) \in Bytes
    BY <2>1, PayloadType DEF NextKey, NextPayload
  <2>3. rows' = rows
    BY <1>1 DEF PutArtefact, Advance
  <2> QED
    BY <1>1, <2>2, <2>3 DEF PutArtefact, Put, StoreType
<1>2. CASE AddRow(w)
  <2>1. current[w] \in Maps /\ listed[w] \in Authorities
    BY <1>2 DEF AddRow, WorkerShape, WorkerType, Writing
  <2>2. NewRow(current[w], listed[w]) \in Row
    BY <2>1, PayloadType
  <2> QED
    BY <1>2, <2>1, <2>2 DEF AddRow, StoreType
<1>3. CASE ~PutArtefact(w) /\ ~AddRow(w)
  BY <1>3, Leaves DEF StoreType
<1> QED
  BY <1>1, <1>2, <1>3

LEMMA TypeWorkerStep ==
    ASSUME TypeInv, NEW w \in Workers, Moves(w)
    PROVE  WorkerType' /\ WorkerShape(w)'
<1> USE DEF TypeInv, TypeOK, WorldType, WorkerType, PcLabels, WorkerShape, Writing, GoTo
<1>1. CASE Launch(w)
  BY <1>1 DEF Launch
<1>2. CASE Crash(w) \/ Finish(w) \/ Refuse(w) \/ CompareDiffers(w)
  BY <1>2 DEF Crash, Finish, Refuse, CompareDiffers, Exit
<1>3. CASE \E m \in Maps : NextMap(w, m)
  BY <1>3 DEF NextMap
<1>4. CASE Reuse(w) \/ Prepare(w) \/ Stat(w) \/ AddRow(w)
  BY <1>4 DEF Reuse, Prepare, Stat, AddRow
<1>5. CASE PutArtefact(w) \/ CompareSame(w)
  <2>1. /\ pc[w] \in {"put", "compare"} /\ written[w] \in 0..2
        /\ pc' = [pc EXCEPT ![w] = IF written[w] + 1 = 3 THEN "add" ELSE "stat"]
        /\ written' = [written EXCEPT ![w] = written[w] + 1]
        /\ UNCHANGED <<todo, listed, current, runs>>
    BY <1>5 DEF PutArtefact, CompareSame, Advance, Kinds
  <2> QED
    BY <2>1
<1> QED
  BY <1>1, <1>2, <1>3, <1>4, <1>5 DEF Moves, Step

LEMMA TypeReview ==
    ASSUME TypeInv, NEW q \in Reviewers,
           \/ \E m \in Maps, request \in Requests : OpenReview(q, m, request)
           \/ CommitReview(q) \/ DropReview(q)
    PROVE  TypeOK'
<1> USE DEF TypeInv, TypeOK, WorldType, work
<1>1. ASSUME NEW m \in Maps, NEW request \in Requests, OpenReview(q, m, request)
      PROVE  TypeOK'
  <2>1. [map |-> m, request |-> request, at |-> clock + 1, seen |-> rows[m]] \in Task
    BY <1>1 DEF OpenReview, StoreType, ReviewType, Task
  <2>2. ReviewType'
    BY <1>1, <2>1 DEF OpenReview, ReviewType
  <2>3. StoreType' /\ WorkerType' /\ WorldType'
    BY <1>1 DEF OpenReview, StoreType, WorkerType
  <2> QED
    BY <2>2, <2>3
<1>2. CASE CommitReview(q)
  <2>1. desk[q] \in Task
    BY <1>2 DEF CommitReview, ReviewType
  <2> DEFINE review == [map |-> desk[q].map, request |-> desk[q].request, reviewer |-> q, at |-> desk[q].at]
  <2>2. review \in Review
    BY <2>1 DEF Review, Task
  <2>3. reviews' = Append(reviews, review)
    BY <1>2 DEF CommitReview
  <2> HIDE DEF review
  <2>4. ReviewType'
    BY <1>2, <2>2, <2>3 DEF CommitReview, ReviewType
  <2>5. \A row \in Row : Updated(row, q, desk[q]) \in Row
    BY <2>1 DEF Updated, Changed, Outcome, Row, Task
  <2>6. StoreType'
    BY <1>2, <2>5 DEF CommitReview, StoreType
  <2>7. WorkerType' /\ WorldType'
    BY <1>2 DEF CommitReview, WorkerType
  <2> QED
    BY <2>4, <2>6, <2>7
<1>3. CASE DropReview(q)
  BY <1>3 DEF DropReview, StoreType, WorkerType, ReviewType
<1> QED
  BY <1>1, <1>2, <1>3

LEMMA TypeStep == TypeInv /\ [Next]_vars => TypeInv'
<1> SUFFICES ASSUME TypeInv, [Next]_vars PROVE TypeInv'
  OBVIOUS
<1> USE DEF TypeInv, TypeOK
<1>1. ASSUME NEW w \in Workers, Moves(w) PROVE TypeInv'
  <2>1. StoreType' /\ WorkerType' /\ WorkerShape(w)'
    BY <1>1, TypeStoreStep, TypeWorkerStep
  <2>2. ReviewType' /\ WorldType'
    BY <1>1, Leaves DEF ReviewType, WorldType, reviewing
  <2>3. ASSUME NEW x \in Workers \ {w} PROVE WorkerShape(x)'
    BY <1>1, Elsewhere DEF Locals, WorkerShape
  <2> QED
    BY <2>1, <2>2, <2>3
<1>2. ASSUME UNCHANGED work PROVE \A w \in Workers : WorkerShape(w)'
  BY <1>2 DEF work, WorkerShape
<1>3. CASE \E a \in Authorities : EditAuthority(a)
  <2>1. TypeOK'
    BY <1>3 DEF EditAuthority, StoreType, WorkerType, ReviewType, WorldType, work, reviewing
  <2> QED
    BY <1>2, <1>3, <2>1 DEF EditAuthority
<1>4. CASE \E q \in Reviewers :
              \/ \E m \in Maps, request \in Requests : OpenReview(q, m, request)
              \/ CommitReview(q) \/ DropReview(q)
  <2>1. UNCHANGED work
    BY <1>4 DEF OpenReview, CommitReview, DropReview
  <2>2. TypeOK'
    BY <1>4, TypeReview
  <2> QED
    BY <1>2, <2>1, <2>2
<1>5. CASE UNCHANGED vars
  <2>1. TypeOK'
    BY <1>5 DEF vars, StoreType, WorkerType, ReviewType, WorldType, work, reviewing
  <2> QED
    BY <1>2, <1>5, <2>1 DEF vars
<1> QED
  BY <1>1, <1>3, <1>4, <1>5 DEF Next, Moves, Rest

-----------------------------------------------------------------------------
(* The bucket and the rows. *)

Grows ==
    /\ DOMAIN objects \subseteq DOMAIN objects'
    /\ \A m \in DOMAIN rows : m \in DOMAIN rows' /\ rows'[m] = rows[m]

LEMMA StoreGrows ==
    ASSUME NEW w \in Workers, Moves(w)
    PROVE  Grows
<1>1. CASE PutArtefact(w)
  BY <1>1 DEF PutArtefact, Put, Advance, Grows
<1>2. CASE AddRow(w)
  BY <1>2 DEF AddRow, Grows
<1>3. CASE ~PutArtefact(w) /\ ~AddRow(w)
  BY <1>3, Leaves DEF Grows
<1> QED
  BY <1>1, <1>2, <1>3

LEMMA WritingStep ==
    ASSUME TypeInv, NEW w \in Workers, WritingInv(w), Moves(w)
    PROVE  WritingInv(w)'
<1> USE DEF TypeInv, TypeOK, WorkerType, GoTo
<1>1. CASE Prepare(w)
  BY <1>1 DEF Prepare, WorkerShape, WritingInv, Writing
<1>2. CASE Stat(w)
  <2>1. /\ UNCHANGED <<objects, written, current>> /\ pc[w] \in Writing
        /\ pc'[w] = IF Present(NextKey(w)) THEN "compare" ELSE "put"
    BY <1>2 DEF Stat, Writing
  <2> QED
    BY <2>1 DEF WritingInv, Writing, Present, NextKey
<1>3. CASE PutArtefact(w) \/ CompareSame(w)
  <2>1. /\ pc[w] \in Writing /\ pc'[w] # "compare"
        /\ written[w] \in 0..2 /\ written'[w] = written[w] + 1 /\ current' = current
    BY <1>3 DEF PutArtefact, CompareSame, Advance, WorkerShape, Writing
  <2>2. NextKey(w) \in DOMAIN objects' /\ DOMAIN objects \subseteq DOMAIN objects'
    <3>1. CASE PutArtefact(w)
      BY <3>1 DEF PutArtefact, Put
    <3>2. CASE CompareSame(w)
      BY <3>2 DEF CompareSame, Advance, Present, WritingInv
    <3> QED
      BY <1>3, <3>1, <3>2
  <2>3. \A i \in 1..(written[w] + 1) : Key(current[w], i) \in DOMAIN objects'
    <3> TAKE i \in 1..(written[w] + 1)
    <3>1. i \in 1..written[w] \/ i = written[w] + 1
      BY <2>1
    <3>2. \A j \in 1..written[w] : Key(current[w], j) \in DOMAIN objects
      BY <2>1 DEF WritingInv, Present
    <3> QED
      BY <2>2, <3>1, <3>2 DEF NextKey
  <2> QED
    BY <2>1, <2>3 DEF WritingInv, Present
<1>4. CASE pc'[w] \notin Writing
  BY <1>4 DEF WritingInv, Writing
<1>5. Prepare(w) \/ Stat(w) \/ PutArtefact(w) \/ CompareSame(w) \/ pc'[w] \notin Writing
  BY DEF Moves, Step, Launch, Crash, Finish, Refuse, CompareDiffers, Exit, NextMap, Reuse, AddRow, Writing
<1> QED
  BY <1>1, <1>2, <1>3, <1>4, <1>5

LEMMA RowsStep ==
    ASSUME TypeInv, StoreInv, NEW w \in Workers, Moves(w)
    PROVE  RowsInv'
<1>1. CASE AddRow(w)
  <2>1. /\ pc[w] = "add" /\ objects' = objects
        /\ rows' = [m \in DOMAIN rows \cup {current[w]} |->
                       IF m = current[w] THEN NewRow(current[w], listed[w]) ELSE rows[m]]
    BY <1>1 DEF AddRow
  <2>2. Accepted(current[w]) /\ \A i \in 1..3 : Present(Key(current[w], i))
    BY <2>1 DEF TypeInv, WorkerShape, StoreInv, WritingInv, Writing
  <2>3. /\ NewRow(current[w], listed[w]).authority = listed[w]
        /\ NewRow(current[w], listed[w]).artefacts = Payloads(current[w], listed[w])
    BY DEF NewRow
  <2> QED
    BY <2>1, <2>2, <2>3 DEF StoreInv, RowsInv, Present
<1>2. CASE ~AddRow(w)
  <2>1. rows' = rows /\ DOMAIN objects \subseteq DOMAIN objects'
    BY <1>2, Leaves, StoreGrows DEF Grows
  <2> QED
    BY <2>1 DEF StoreInv, RowsInv, Present
<1> QED
  BY <1>1, <1>2

LEMMA UneditedStep ==
    ASSUME TypeInv, StoreInv, NEW w \in Workers, Moves(w)
    PROVE  UneditedInv'
<1> SUFFICES ASSUME edits = 0 PROVE UneditedInv'
  BY Leaves DEF UneditedInv
<1>1. authority' = authority
  BY Leaves
<1>2. ASSUME NEW x \in Workers PROVE listed'[x] = authority
  <2>1. CASE Launch(w)
    BY <2>1 DEF Launch, StoreInv, UneditedInv, TypeInv, TypeOK, WorkerType
  <2>2. CASE ~Launch(w)
    BY <2>2 DEF StoreInv, UneditedInv, Moves, Step, Crash, Finish, Refuse, CompareDiffers, Exit, NextMap,
                Reuse, Prepare, Stat, AddRow, PutArtefact, CompareSame, Advance
  <2> QED
    BY <2>1, <2>2
<1>3. ASSUME NEW m \in DOMAIN rows' PROVE rows'[m].authority = authority
  <2>1. CASE AddRow(w)
    BY <2>1 DEF AddRow, NewRow, StoreInv, UneditedInv
  <2>2. CASE ~AddRow(w)
    BY <2>2, Leaves DEF StoreInv, UneditedInv
  <2> QED
    BY <2>1, <2>2
<1>4. ASSUME NEW m \in Maps, NEW i \in 1..3, Present(Key(m, i))'
      PROVE  Same(Key(m, i), Payload(m, i, authority))'
  <2>1. CASE PutArtefact(w)
    <3>1. /\ objects' = [k \in DOMAIN objects \cup {NextKey(w)} |->
                            IF k = NextKey(w) THEN NextPayload(w) ELSE objects[k]]
      BY <2>1 DEF PutArtefact, Put
    <3>2. Key(m, i) = NextKey(w) => Payload(m, i, authority) = NextPayload(w)
      BY DEF Key, NextKey, Payload, NextPayload, StoreInv, UneditedInv
    <3> QED
      BY <1>1, <1>4, <3>1, <3>2 DEF StoreInv, UneditedInv, Present, Same
  <2>2. CASE ~PutArtefact(w)
    BY <1>1, <1>4, <2>2, Leaves DEF StoreInv, UneditedInv, Present, Same
  <2> QED
    BY <2>1, <2>2
<1> QED
  BY <1>1, <1>2, <1>3, <1>4 DEF UneditedInv

(* A review changes neither the artefacts of a row nor its authority. *)
CommitLeaves(q) ==
    /\ DOMAIN rows' = DOMAIN rows
    /\ \A m \in DOMAIN rows : /\ rows'[m].authority = rows[m].authority
                               /\ rows'[m].artefacts = rows[m].artefacts
    /\ \A m \in DOMAIN rows : m # desk[q].map => rows'[m] = rows[m]

CommitWrites(q) == rows'[desk[q].map] = Updated(rows[desk[q].map], q, desk[q])

LEMMA CommitKeeps ==
    ASSUME TypeInv, NEW q \in Reviewers, CommitReview(q), desk[q].map \in DOMAIN rows
    PROVE  CommitLeaves(q) /\ CommitWrites(q)
<1>1. rows \in [DOMAIN rows -> Row]
  BY DEF TypeInv, TypeOK, StoreType
<1>2. \A row \in Row : /\ Updated(row, q, desk[q]).authority = row.authority
                        /\ Updated(row, q, desk[q]).artefacts = row.artefacts
  BY DEF Updated, Row
<1>3. rows' = [rows EXCEPT ![desk[q].map] = Updated(rows[desk[q].map], q, desk[q])]
  BY DEF CommitReview
<1> QED
  BY <1>1, <1>2, <1>3 DEF CommitLeaves, CommitWrites

LEMMA StoreStep ==
    ASSUME TypeInv, IInv, [Next]_vars
    PROVE  StoreInv'
<1> USE DEF IInv
<1>1. ASSUME NEW w \in Workers, Moves(w) PROVE StoreInv'
  <2>1. ASSUME NEW x \in Workers \ {w} PROVE WritingInv(x)'
    <3>1. UNCHANGED <<pc[x], current[x], written[x]>> /\ DOMAIN objects \subseteq DOMAIN objects'
      BY <1>1, Elsewhere, StoreGrows DEF Locals, Grows, TypeInv, TypeOK
    <3> QED
      BY <3>1 DEF StoreInv, WritingInv, Present, NextKey
  <2>2. WritingInv(w)'
    BY <1>1, WritingStep DEF StoreInv
  <2>3. RowsInv' /\ UneditedInv' /\ edits' = edits
    BY <1>1, RowsStep, UneditedStep, Leaves
  <2> QED
    BY <2>1, <2>2, <2>3 DEF StoreInv
<1>2. CASE \E a \in Authorities : EditAuthority(a)
  BY <1>2, ReconstructionAssumption
     DEF EditAuthority, work, StoreInv, WritingInv, RowsInv, UneditedInv, Present, NextKey, TypeInv, TypeOK,
         WorldType
<1>3. ASSUME NEW q \in Reviewers, CommitReview(q) PROVE StoreInv'
  <2>1. UNCHANGED <<objects, authority, work, edits>> /\ desk[q].map \in DOMAIN rows
    BY <1>3 DEF CommitReview, DecisionInv, DeskInv
  <2>2. CommitLeaves(q)
    BY <1>3, <2>1, CommitKeeps
  <2>3. RowsInv'
    BY <2>1, <2>2 DEF CommitLeaves, StoreInv, RowsInv, Present
  <2>4. UneditedInv'
    BY <2>1, <2>2 DEF CommitLeaves, StoreInv, UneditedInv, Present, Same, work
  <2>5. \A w \in Workers : WritingInv(w)'
    BY <2>1 DEF StoreInv, WritingInv, Present, NextKey, work
  <2> QED
    BY <2>1, <2>3, <2>4, <2>5 DEF StoreInv
<1>4. CASE UNCHANGED <<objects, rows, authority, work, edits>>
  BY <1>4 DEF work, StoreInv, WritingInv, RowsInv, UneditedInv, Present, Same, NextKey
<1>5. CASE \E q \in Reviewers : DropReview(q) \/
              \E m \in Maps, request \in Requests : OpenReview(q, m, request)
  BY <1>4, <1>5 DEF DropReview, OpenReview
<1>6. CASE UNCHANGED vars
  BY <1>4, <1>6 DEF vars
<1> QED
  BY <1>1, <1>2, <1>3, <1>5, <1>6 DEF Next, Moves, Rest

-----------------------------------------------------------------------------
(* The reviews. *)

LEMMA DecisionKept ==
    ASSUME DecisionInv, Grows, UNCHANGED reviewing,
           \A m \in DOMAIN rows' \ DOMAIN rows : rows'[m].status = "PENDING_REVIEW"
    PROVE  DecisionInv'
<1> USE DEF reviewing
<1>1. DeskInv'
  BY DEF DecisionInv, DeskInv, Grows, Admissible
<1>2. ReviewsInv'
  BY DEF DecisionInv, ReviewsInv, Grows, Approval
<1>3. ReviewedIsDecided'
  <2> SUFFICES ASSUME NEW m \in DOMAIN rows'
               PROVE  LET own == {i \in DOMAIN reviews : reviews[i].map = m} IN
                      IF rows'[m].status = "PENDING_REVIEW" THEN own = {}
                      ELSE \E i \in own : rows'[m].reviewedAt = reviews[i].at
    BY DEF ReviewedIsDecided
  <2>1. CASE m \in DOMAIN rows
    BY <2>1 DEF DecisionInv, ReviewedIsDecided, Grows
  <2>2. CASE m \notin DOMAIN rows
    BY <2>2 DEF DecisionInv, ReviewsInv
  <2> QED
    BY <2>1, <2>2
<1> QED
  BY <1>1, <1>2, <1>3 DEF DecisionInv

LEMMA DecisionOpen ==
    ASSUME TypeInv, DecisionInv, NEW q \in Reviewers, NEW m \in Maps, NEW request \in Requests,
           OpenReview(q, m, request)
    PROVE  DecisionInv'
<1>1. UNCHANGED <<rows, reviews>> /\ m \in DOMAIN rows /\ Admissible(request)
  BY DEF OpenReview
<1>2. desk \in [Reviewers -> Task \cup {Idle}]
  BY DEF TypeInv, TypeOK, ReviewType
<1> DEFINE task == [map |-> m, request |-> request, at |-> clock + 1, seen |-> rows[m]]
<1>3. desk' = [desk EXCEPT ![q] = task]
  BY DEF OpenReview
<1>4. task.map = m /\ task.request = request /\ task.seen = rows[m]
  OBVIOUS
<1> HIDE DEF task
<1>5. DeskInv'
  BY <1>1, <1>2, <1>3, <1>4 DEF DecisionInv, DeskInv, Admissible
<1>6. ReviewsInv' /\ ReviewedIsDecided'
  BY <1>1 DEF DecisionInv, ReviewsInv, ReviewedIsDecided, Approval
<1> QED
  BY <1>5, <1>6 DEF DecisionInv

LEMMA DecisionDrop ==
    ASSUME TypeInv, DecisionInv, NEW q \in Reviewers, DropReview(q)
    PROVE  DecisionInv'
<1>1. UNCHANGED <<rows, reviews>> /\ desk' = [desk EXCEPT ![q] = Idle]
  BY DEF DropReview
<1>2. DeskInv'
  BY <1>1 DEF TypeInv, TypeOK, ReviewType, DecisionInv, DeskInv, Admissible
<1>3. ReviewsInv' /\ ReviewedIsDecided'
  BY <1>1 DEF DecisionInv, ReviewsInv, ReviewedIsDecided, Approval
<1> QED
  BY <1>2, <1>3 DEF DecisionInv

(* What a commit makes of the table of reviews. *)
CommitAdds(q) ==
    LET n == Len(reviews) + 1 IN
    /\ DOMAIN reviews' = DOMAIN reviews \cup {n} /\ n \notin DOMAIN reviews
    /\ \A i \in DOMAIN reviews : reviews'[i] = reviews[i]
    /\ reviews'[n] = [map |-> desk[q].map, request |-> desk[q].request, reviewer |-> q,
                      at |-> desk[q].at]

LEMMA CommitAppends ==
    ASSUME TypeInv, NEW q \in Reviewers, CommitReview(q)
    PROVE  CommitAdds(q)
<1>1. reviews \in Seq(Review)
  BY DEF TypeInv, TypeOK, ReviewType
<1> DEFINE review == [map |-> desk[q].map, request |-> desk[q].request, reviewer |-> q, at |-> desk[q].at]
<1>2. reviews' = Append(reviews, review)
  BY DEF CommitReview
<1> HIDE DEF review
<1>3. /\ DOMAIN reviews' = DOMAIN reviews \cup {Len(reviews) + 1}
      /\ Len(reviews) + 1 \notin DOMAIN reviews
      /\ \A i \in DOMAIN reviews : reviews'[i] = reviews[i]
      /\ reviews'[Len(reviews) + 1] = review
  BY <1>1, <1>2
<1> QED
  BY <1>3 DEF review, CommitAdds

(* The row a commit leaves: decided, at the time of the review, and         *)
(* approved only by a sound approval or because it was.                     *)
LEMMA CommitDecides ==
    ASSUME TypeInv, DecisionInv, NEW q \in Reviewers, CommitReview(q)
    PROVE  LET row == rows'[desk[q].map] IN
           /\ desk[q].map \in DOMAIN rows
           /\ Decided(row) /\ row.reviewedAt = desk[q].at
           /\ row.status = "APPROVED" =>
                 \/ rows[desk[q].map].status = "APPROVED"
                 \/ desk[q].request = [decision |-> "APPROVE", type |-> "HUMAN", checked |-> TRUE]
<1>1. /\ desk[q] # Idle /\ desk[q] \in Task /\ desk[q].map \in DOMAIN rows
      /\ Admissible(desk[q].request)
      /\ Decided(desk[q].seen) => Decided(rows[desk[q].map])
  BY DEF CommitReview, DecisionInv, DeskInv, TypeInv, TypeOK, ReviewType
<1> DEFINE old == rows[desk[q].map]
           new == rows'[desk[q].map]
<1>2. old \in Row /\ new = Updated(old, q, desk[q])
  <2>1. CommitWrites(q)
    BY <1>1, CommitKeeps
  <2> QED
    BY <1>1, <2>1 DEF CommitWrites, TypeInv, TypeOK, StoreType
<1>3. /\ new.status = Changed(desk[q].seen.status, Outcome(desk[q].request), old.status)
      /\ new.reviewedAt = desk[q].at
  BY <1>2 DEF Updated, Row
<1> HIDE DEF old, new
<1>4. Decided(new)
  BY <1>1, <1>3 DEF Decided, Changed, Outcome, old
<1>5. desk[q].request \in ReviewCreate
  BY <1>1, ReconstructionAssumption DEF Task
<1>6. ASSUME new.status = "APPROVED", old.status # "APPROVED"
      PROVE  desk[q].request = [decision |-> "APPROVE", type |-> "HUMAN", checked |-> TRUE]
  <2>1. Outcome(desk[q].request) = "APPROVED"
    BY <1>3, <1>6 DEF Changed
  <2>2. desk[q].request.decision = "APPROVE"
    BY <2>1 DEF Outcome
  <2> QED
    BY <1>1, <1>5, <2>2 DEF Admissible, ReviewCreate
<1> QED
  BY <1>1, <1>3, <1>4, <1>6 DEF old, new

LEMMA DecisionCommit ==
    ASSUME TypeInv, DecisionInv, NEW q \in Reviewers, CommitReview(q)
    PROVE  DecisionInv'
<1> DEFINE m == desk[q].map
           n == Len(reviews) + 1
<1>1. /\ m \in DOMAIN rows /\ Decided(rows'[m]) /\ rows'[m].reviewedAt = desk[q].at
      /\ rows'[m].status = "APPROVED" =>
             \/ rows[m].status = "APPROVED"
             \/ desk[q].request = [decision |-> "APPROVE", type |-> "HUMAN", checked |-> TRUE]
  BY CommitDecides
<1>2. DOMAIN rows' = DOMAIN rows /\ \A k \in DOMAIN rows \ {m} : rows'[k] = rows[k]
  <2>1. CommitLeaves(q)
    BY <1>1, CommitKeeps
  <2> QED
    BY <2>1 DEF CommitLeaves
<1>3. /\ DOMAIN reviews' = DOMAIN reviews \cup {n}
      /\ \A i \in DOMAIN reviews : reviews'[i] = reviews[i]
      /\ reviews'[n].map = m /\ reviews'[n].at = desk[q].at /\ reviews'[n].request = desk[q].request
  <2>1. CommitAdds(q)
    BY CommitAppends
  <2> QED
    BY <2>1 DEF CommitAdds
<1>4. desk' = [desk EXCEPT ![q] = Idle] /\ desk \in [Reviewers -> Task \cup {Idle}]
  BY DEF CommitReview, TypeInv, TypeOK, ReviewType
<1> HIDE DEF m, n
<1>5. DeskInv'
  <2> SUFFICES ASSUME NEW r \in Reviewers, desk'[r] # Idle
               PROVE  /\ desk'[r].map \in DOMAIN rows' /\ Admissible(desk'[r].request)
                      /\ Decided(desk'[r].seen) => Decided(rows'[desk'[r].map])
    BY DEF DeskInv, Admissible, Decided
  <2>1. desk'[r] = desk[r] /\ desk[r] # Idle
    BY <1>4
  <2>2. /\ desk[r].map \in DOMAIN rows /\ Admissible(desk[r].request)
        /\ Decided(desk[r].seen) => Decided(rows[desk[r].map])
    BY <2>1 DEF DecisionInv, DeskInv
  <2> QED
    BY <1>1, <1>2, <2>1, <2>2
<1>6. ReviewsInv'
  <2>1. ASSUME NEW i \in DOMAIN reviews' PROVE reviews'[i].map \in DOMAIN rows'
    BY <1>1, <1>2, <1>3 DEF DecisionInv, ReviewsInv
  <2>2. ASSUME NEW k \in DOMAIN rows', rows'[k].status = "APPROVED"
        PROVE  \E i \in DOMAIN reviews' : Approval(reviews'[i], k)
    <3>1. CASE rows[k].status = "APPROVED"
      BY <1>2, <1>3, <2>2, <3>1 DEF DecisionInv, ReviewsInv
    <3>2. CASE rows[k].status # "APPROVED"
      BY <1>1, <1>2, <1>3, <2>2, <3>2 DEF Approval
    <3> QED
      BY <3>1, <3>2
  <2> QED
    BY <2>1, <2>2 DEF ReviewsInv, Approval
<1>7. ReviewedIsDecided'
  <2> SUFFICES ASSUME NEW k \in DOMAIN rows'
               PROVE  LET own == {i \in DOMAIN reviews' : reviews'[i].map = k} IN
                      IF rows'[k].status = "PENDING_REVIEW" THEN own = {}
                      ELSE \E i \in own : rows'[k].reviewedAt = reviews'[i].at
    BY DEF ReviewedIsDecided
  <2>1. CASE k = m
    BY <1>1, <1>3, <2>1 DEF Decided
  <2>2. CASE k # m
    BY <1>2, <1>3, <2>2 DEF DecisionInv, ReviewedIsDecided
  <2> QED
    BY <2>1, <2>2
<1> QED
  BY <1>5, <1>6, <1>7 DEF DecisionInv

LEMMA DecisionStep ==
    ASSUME TypeInv, DecisionInv, [Next]_vars
    PROVE  DecisionInv'
<1>1. ASSUME NEW w \in Workers, Moves(w) PROVE DecisionInv'
  <2>1. CASE AddRow(w)
    <3>1. \A m \in DOMAIN rows' \ DOMAIN rows : rows'[m].status = "PENDING_REVIEW"
      BY <2>1 DEF AddRow, NewRow
    <3> QED
      BY <1>1, <3>1, DecisionKept, StoreGrows, Leaves
  <2>2. CASE ~AddRow(w)
    BY <1>1, <2>2, DecisionKept, StoreGrows, Leaves
  <2> QED
    BY <2>1, <2>2
<1>2. CASE UNCHANGED <<objects, rows, reviewing>>
  BY <1>2, DecisionKept DEF Grows
<1>3. CASE \E a \in Authorities : EditAuthority(a)
  BY <1>2, <1>3 DEF EditAuthority
<1>4. CASE UNCHANGED vars
  BY <1>2, <1>4 DEF vars
<1> QED
  BY <1>1, <1>3, <1>4, DecisionOpen, DecisionCommit, DecisionDrop DEF Next, Moves, Rest

-----------------------------------------------------------------------------
LEMMA Initially == Init => TypeInv /\ IInv
<1> SUFFICES ASSUME Init PROVE IInv
  BY TypeInit
<1>1. StoreInv
  BY DEF Init, StoreInv, WritingInv, RowsInv, UneditedInv, Writing, Present
<1>2. DecisionInv
  BY DEF Init, DecisionInv, DeskInv, ReviewsInv, ReviewedIsDecided
<1> QED
  BY <1>1, <1>2 DEF IInv

LEMMA Invariance == Spec => [](TypeInv /\ IInv)
<1>1. Init => TypeInv /\ IInv
  BY Initially
<1>2. (TypeInv /\ IInv) /\ [Next]_vars => (TypeInv /\ IInv)'
  <2> SUFFICES ASSUME TypeInv, IInv, [Next]_vars PROVE TypeInv' /\ IInv'
    OBVIOUS
  <2>1. TypeInv'
    BY TypeStep
  <2>2. StoreInv'
    BY StoreStep
  <2>3. DecisionInv'
    BY DecisionStep DEF IInv
  <2> QED
    BY <2>1, <2>2, <2>3 DEF IInv
<1> QED
  BY <1>1, <1>2, PTL DEF Spec

(* Every variable keeps the shape the code gives it. *)
THEOREM TypeCorrect == Spec => []TypeOK
<1>1. TypeInv => TypeOK
  BY DEF TypeInv
<1> QED
  BY <1>1, Invariance, PTL

(* A row awaits review exactly as long as no review of it is committed, and *)
(* then names one that is, however many requests load it before any of them *)
(* commits (service.py:591-619).                                            *)
THEOREM ReviewsDecideRows == Spec => []ReviewedIsDecided
<1>1. IInv => ReviewedIsDecided
  BY DEF IInv, DecisionInv
<1> QED
  BY <1>1, Invariance, PTL

(* A review whose request loaded the row as it still is leaves its own      *)
(* decision, name and time there (service.py:600-619).                      *)
THEOREM InformedReviewsDecide == Spec => InformedReviewDecides
<1> DEFINE Decides ==
        \A i \in DOMAIN reviews' \ DOMAIN reviews :
            LET r == reviews'[i] IN
            desk[r.reviewer].seen = rows[r.map] =>
                /\ rows'[r.map].status = Outcome(r.request)
                /\ rows'[r.map].reviewer = r.reviewer
                /\ rows'[r.map].reviewedAt = r.at
<1>1. ASSUME TypeInv, IInv, NEW q \in Reviewers, CommitReview(q)
      PROVE  Decides
  <2> DEFINE m == desk[q].map
             n == Len(reviews) + 1
  <2>1. CommitAdds(q)
    BY <1>1, CommitAppends
  <2>2. m \in DOMAIN rows /\ rows[m] \in Row
    BY <1>1 DEF IInv, DecisionInv, DeskInv, CommitReview, TypeInv, TypeOK, StoreType
  <2>3. CommitWrites(q)
    BY <1>1, <2>2, CommitKeeps
  <2>4. rows'[m] = Updated(rows[m], q, desk[q])
    BY <2>3 DEF CommitWrites
  <2>5. desk[q].seen = rows[m] =>
            /\ rows'[m].status = Outcome(desk[q].request)
            /\ rows'[m].reviewer = q /\ rows'[m].reviewedAt = desk[q].at
    BY <2>2, <2>4 DEF Updated, Changed, Row
  <2>6. \A i \in DOMAIN reviews' \ DOMAIN reviews : i = n
    BY <2>1 DEF CommitAdds
  <2>7. /\ reviews'[n].map = m /\ reviews'[n].reviewer = q
        /\ reviews'[n].request = desk[q].request /\ reviews'[n].at = desk[q].at
    BY <2>1 DEF CommitAdds
  <2> HIDE DEF m, n
  <2> QED
    BY <2>5, <2>6, <2>7
<1>2. ASSUME reviews' = reviews PROVE Decides
  BY <1>2
<1>3. ASSUME [Next]_vars PROVE reviews' = reviews \/ \E q \in Reviewers : CommitReview(q)
  <2>1. ASSUME NEW w \in Workers, Moves(w) PROVE reviews' = reviews
    BY <2>1, Leaves DEF reviewing
  <2> QED
    BY <1>3, <2>1 DEF Next, Moves, EditAuthority, OpenReview, DropReview, Rest, vars, reviewing
<1>4. TypeInv /\ IInv /\ [Next]_vars => [Decides]_vars
  BY <1>1, <1>2, <1>3
<1> QED
  BY <1>4, Invariance, PTL DEF Spec, InformedReviewDecides

-----------------------------------------------------------------------------
(* What holds as long as nobody edits the authority of the source. *)
Unedited == edits = 0

(* The completion gate opens only for a map that passed every gate before   *)
(* it, whose artefacts are stored with the hashes its row gives, and that a *)
(* human approved with every check (service.py:583-590 and 639-652).        *)
THEOREM GatesAreEarned == Spec /\ []Unedited => []GateIsEarned
<1>1. ASSUME TypeInv, IInv, Unedited, NEW m \in DOMAIN rows, Qualifies(m)
      PROVE  Accepted(m) /\ Stored(m) /\ \E i \in DOMAIN reviews : Approval(reviews[i], m)
  <2>1. Accepted(m) /\ rows[m].artefacts = Payloads(m, authority)
    BY <1>1 DEF IInv, StoreInv, RowsInv, UneditedInv, Unedited
  <2>2. Stored(m)
    <3>1. m \in Maps
      BY <1>1 DEF TypeInv, TypeOK, StoreType
    <3> QED
      BY <1>1, <2>1, <3>1 DEF IInv, StoreInv, RowsInv, UneditedInv, Unedited, Stored, Payloads
  <2>3. \E i \in DOMAIN reviews : Approval(reviews[i], m)
    BY <1>1 DEF IInv, DecisionInv, ReviewsInv, Qualifies
  <2> QED
    BY <2>1, <2>2, <2>3
<1>2. TypeInv /\ IInv /\ Unedited => GateIsEarned
  BY <1>1 DEF GateIsEarned
<1> QED
  BY <1>2, Invariance, PTL

(* Two workers may both find a key absent and both put it, but they put the *)
(* same bytes (service.py:420-434): what stands there never changes.        *)
THEOREM ArtefactsStay == Spec /\ []Unedited => ArtefactsAreImmutable
<1>1. ASSUME TypeInv, IInv, Unedited, [Next]_vars
      PROVE  OnlyAdds
  <2>1. CASE \E w \in Workers : PutArtefact(w)
    <3> PICK w \in Workers : PutArtefact(w)
      BY <2>1
    <3>1. current[w] \in Maps /\ written[w] + 1 \in 1..3
      BY <1>1 DEF PutArtefact, TypeInv, TypeOK, WorkerType, WorkerShape, Writing
    <3>2. Present(NextKey(w)) => objects[NextKey(w)] = NextPayload(w)
      BY <1>1, <3>1 DEF IInv, StoreInv, UneditedInv, Unedited, NextKey, NextPayload, Same
    <3> QED
      BY <3>2 DEF PutArtefact, Put, OnlyAdds, Present
  <2>2. CASE objects' = objects
    BY <2>2 DEF OnlyAdds
  <2>3. objects' = objects \/ \E w \in Workers : PutArtefact(w)
    <3>1. ASSUME NEW w \in Workers, Moves(w) PROVE PutArtefact(w) \/ objects' = objects
      BY <3>1, Leaves
    <3> QED
      BY <1>1, <3>1 DEF Next, Moves, EditAuthority, OpenReview, CommitReview, DropReview, Rest, vars
  <2> QED
    BY <2>1, <2>2, <2>3
<1>2. TypeInv /\ IInv /\ Unedited /\ [Next]_vars => [OnlyAdds]_vars
  BY <1>1
<1> QED
  BY <1>2, Invariance, PTL DEF Spec, ArtefactsAreImmutable

-----------------------------------------------------------------------------
(* Refinement of Products. *)

Product(m) == [i \in 1..3 |-> {Payload(m, i, authority)}]

(* What readers get is what the rows promise. *)
LEMMA ReadersGetProducts ==
    ASSUME TypeInv, StoreInv, Unedited
    PROVE  Layers = [m \in DOMAIN rows |-> Product(m)]
<1>1. ASSUME NEW m \in DOMAIN rows, NEW i \in 1..3
      PROVE  Read(Key(m, i)) = {Payload(m, i, authority)}
  BY DEF TypeInv, TypeOK, StoreType, StoreInv, RowsInv, UneditedInv, Unedited, Read, Present, Same
<1> QED
  BY <1>1 DEF Layers, Product

LEMMA ReadersStillGetProducts ==
    ASSUME TypeInv', StoreInv', Unedited'
    PROVE  Layers' = [m \in DOMAIN rows' |-> Product(m)']
<1>1. ASSUME NEW m \in DOMAIN rows', NEW i \in 1..3
      PROVE  Read(Key(m, i))' = {Payload(m, i, authority')}
  BY DEF TypeInv, TypeOK, StoreType, StoreInv, RowsInv, UneditedInv, Unedited, Read, Present, Same
<1> QED
  BY <1>1 DEF Layers, Product

(* The rows grow by one at a time, and by accepted maps only. *)
LEMMA RowsGrow ==
    ASSUME TypeInv, IInv, Next
    PROVE  \/ DOMAIN rows' = DOMAIN rows
           \/ \E m \in Maps \ DOMAIN rows : Accepted(m) /\ DOMAIN rows' = DOMAIN rows \cup {m}
<1>1. ASSUME NEW w \in Workers, AddRow(w)
      PROVE  \E m \in Maps \ DOMAIN rows : Accepted(m) /\ DOMAIN rows' = DOMAIN rows \cup {m}
  <2>1. current[w] \in Maps /\ Accepted(current[w])
    BY <1>1 DEF AddRow, TypeInv, WorkerShape, Writing
  <2>2. DOMAIN rows' = DOMAIN rows \cup {current[w]} /\ current[w] \notin DOMAIN rows
    BY <1>1 DEF AddRow
  <2> QED
    BY <2>1, <2>2
<1>2. ASSUME NEW q \in Reviewers, CommitReview(q) PROVE DOMAIN rows' = DOMAIN rows
  BY <1>2 DEF CommitReview
<1>3. CASE rows' = rows
  BY <1>3
<1>4. \/ rows' = rows
      \/ \E w \in Workers : AddRow(w)
      \/ \E q \in Reviewers : CommitReview(q)
  <2>1. ASSUME NEW w \in Workers, Moves(w) PROVE AddRow(w) \/ rows' = rows
    BY <2>1, Leaves
  <2> QED
    BY <2>1 DEF Next, Moves, EditAuthority, OpenReview, DropReview, Rest, vars
<1> QED
  BY <1>1, <1>2, <1>3, <1>4

(* Workers that race, die and start again look like one that derives each   *)
(* product at once, once and for good.                                      *)
THEOREM ReconstructionImplementsProducts == Spec /\ []Unedited => ImplementsProducts
<1>1. Init => Abstract!Init
  <2> SUFFICES ASSUME Init PROVE Layers = <<>>
    BY DEF Abstract!Init
  <2>1. DOMAIN rows = {}
    BY DEF Init
  <2> QED
    BY <2>1 DEF Layers
<1>2. ASSUME TypeInv, IInv, Unedited, TypeInv', IInv', Unedited', [Next]_vars
      PROVE  [Abstract!Next]_Layers
  <2>1. authority' = authority
    <3>1. ASSUME NEW w \in Workers, Moves(w) PROVE authority' = authority
      BY <3>1, Leaves
    <3>2. ASSUME NEW a \in Authorities, EditAuthority(a) PROVE FALSE
      BY <1>2, <3>2 DEF EditAuthority, Unedited
    <3> QED
      BY <1>2, <3>1, <3>2 DEF Next, Moves, OpenReview, CommitReview, DropReview, Rest, vars
  <2>2. Layers = [m \in DOMAIN rows |-> Product(m)]
    BY <1>2, ReadersGetProducts DEF IInv
  <2>3. Layers' = [m \in DOMAIN rows' |-> Product(m)]
    <3>1. Layers' = [m \in DOMAIN rows' |-> Product(m)']
      BY <1>2, ReadersStillGetProducts DEF IInv
    <3>2. \A m : Product(m)' = Product(m)
      BY <2>1 DEF Product, Payload
    <3> QED
      BY <3>1, <3>2
  <2>4. CASE DOMAIN rows' = DOMAIN rows
    BY <2>2, <2>3, <2>4
  <2>5. ASSUME NEW m \in Maps \ DOMAIN rows, Accepted(m), DOMAIN rows' = DOMAIN rows \cup {m}
        PROVE  Abstract!Derive(m)
    <3>1. Layers' = [k \in DOMAIN Layers \cup {m} |-> IF k = m THEN Product(m) ELSE Layers[k]]
      BY <2>2, <2>3, <2>5
    <3>2. m \in {k \in Maps : Accepted(k)} \ DOMAIN Layers
      BY <2>2, <2>5
    <3>3. Product(m) \in Versions(m)
      BY <1>2 DEF Versions, Product, TypeInv, TypeOK, WorldType
    <3> QED
      BY <3>1, <3>2, <3>3 DEF Abstract!Derive
  <2>6. CASE UNCHANGED vars
    BY <2>4, <2>6 DEF vars
  <2> QED
    BY <1>2, <2>4, <2>5, <2>6, RowsGrow DEF Abstract!Next
<1> QED
  BY <1>1, <1>2, Invariance, PTL DEF Spec, ImplementsProducts, Abstract!Spec

-----------------------------------------------------------------------------
(* Runs are finite. *)

LEMMA StepComesNearer ==
    ASSUME TypeInv, NEW w \in Workers, Step(w) \/ Crash(w)
    PROVE  Nearer(w)
<1> USE DEF TypeInv, TypeOK, WorkerType, Nearer, StepsLeft, GoTo
<1>1. written[w] \in 0..3 /\ pc[w] \in PcLabels
  OBVIOUS
<1>2. CASE Crash(w) \/ Finish(w) \/ Refuse(w) \/ CompareDiffers(w)
  <2>1. pc[w] # "off" /\ todo'[w] = {} /\ pc'[w] = "off"
    BY <1>2 DEF Crash, Finish, Refuse, CompareDiffers, Exit
  <2>2. pc[w] \in {"stat", "put", "compare"} => written[w] < 3
    BY DEF WorkerShape, Writing
  <2>3. StepsLeft(w)' = 0 /\ StepsLeft(w) > 0
    BY <1>1, <2>1, <2>2 DEF PcLabels
  <2> QED
    BY <2>1, <2>3
<1>3. CASE \E m \in Maps : NextMap(w, m)
  BY <1>3 DEF NextMap
<1>4. CASE Reuse(w) \/ Prepare(w) \/ AddRow(w)
  <2>1. pc[w] = "find" => written[w] = 0
    BY DEF WorkerShape
  <2> QED
    BY <1>1, <1>4, <2>1 DEF Reuse, Prepare, AddRow
<1>5. CASE Stat(w)
  BY <1>1, <1>5 DEF Stat
<1>6. CASE PutArtefact(w) \/ CompareSame(w)
  <2>1. /\ pc[w] \in {"put", "compare"} /\ written[w] \in 0..2
        /\ pc'[w] = IF written[w] + 1 = 3 THEN "add" ELSE "stat"
        /\ written'[w] = written[w] + 1 /\ todo'[w] = todo[w]
    BY <1>6 DEF PutArtefact, CompareSame, Advance, Kinds, WorkerShape, Writing
  <2> QED
    BY <2>1
<1> QED
  BY <1>2, <1>3, <1>4, <1>5, <1>6 DEF Step

(* Each step of a worker takes a map off its list or brings it nearer to    *)
(* the end of the one it is at, and nobody else's step sets it back: as the *)
(* list is finite, so is the run (bootstrap.py:47-72, service.py:344-406).  *)
THEOREM ReconstructionRunsAreFinite == Spec => RunsAreFinite
<1> DEFINE GetsOn ==
        \A w \in Workers : pc[w] # "off" =>
            Nearer(w) \/ UNCHANGED <<pc[w], todo[w], current[w], written[w]>>
<1>1. ASSUME TypeInv, [Next]_vars, NEW w \in Workers, pc[w] # "off"
      PROVE  Nearer(w) \/ UNCHANGED <<pc[w], todo[w], current[w], written[w]>>
  <2>1. ASSUME NEW x \in Workers, Moves(x), x # w
        PROVE  UNCHANGED <<pc[w], todo[w], current[w], written[w]>>
    BY <1>1, <2>1, Elsewhere DEF Locals, TypeInv, TypeOK
  <2>2. CASE Moves(w)
    BY <1>1, <2>2, StepComesNearer DEF Moves, Launch
  <2>3. CASE UNCHANGED work
    BY <2>3 DEF work
  <2>4. (\E x \in Workers : Moves(x)) \/ UNCHANGED work
    BY <1>1 DEF Next, Moves, EditAuthority, OpenReview, CommitReview, DropReview, Rest, vars
  <2> QED
    BY <2>1, <2>2, <2>3, <2>4
<1>2. TypeInv /\ [Next]_vars => [GetsOn]_vars
  BY <1>1
<1> QED
  BY <1>2, Invariance, PTL DEF Spec, RunsAreFinite

-----------------------------------------------------------------------------
(* Progress.  A worker that is at a map passes through a fixed number of    *)
(* stages, numbered by the steps that are left.                             *)

At(w, m, n) ==
    /\ ~(pc[w] = "off") /\ ~(pc[w] = "next")
    /\ current[w] = m /\ StepsLeft(w) = n

Reached(m) == m \in DOMAIN rows \/ crashes > 0

(* A worker that has left a map for its list has left it reconstructed.     *)
LeftInv ==
    \A w \in Workers :
        /\ pc[w] = "off" => current[w] = NoMap
        /\ pc[w] = "next" => current[w] = NoMap \/ current[w] \in DOMAIN rows

LEMMA LeftStep == ASSUME TypeInv, IInv, LeftInv, [Next]_vars PROVE LeftInv'
<1>1. DOMAIN rows \subseteq DOMAIN rows'
  BY RowsGrow DEF vars
<1>2. ASSUME NEW w \in Workers, Moves(w)
      PROVE  /\ pc'[w] = "off" => current'[w] = NoMap
             /\ pc'[w] = "next" => current'[w] = NoMap \/ current'[w] \in DOMAIN rows'
  <2> USE DEF TypeInv, TypeOK, WorkerType, GoTo, LeftInv
  <2>1. CASE Launch(w)
    BY <1>1, <2>1 DEF Launch
  <2>2. CASE Crash(w) \/ Finish(w) \/ Refuse(w) \/ CompareDiffers(w)
    BY <2>2 DEF Crash, Finish, Refuse, CompareDiffers, Exit
  <2>3. CASE \E m \in Maps : NextMap(w, m)
    BY <2>3 DEF NextMap
  <2>4. CASE Reuse(w) \/ Prepare(w) \/ Stat(w) \/ AddRow(w)
    BY <1>1, <2>4 DEF Reuse, Prepare, Stat, AddRow
  <2>5. CASE PutArtefact(w) \/ CompareSame(w)
    BY <2>5 DEF PutArtefact, CompareSame, Advance
  <2> QED
    BY <1>2, <2>1, <2>2, <2>3, <2>4, <2>5 DEF Moves, Step
<1>3. ASSUME NEW w \in Workers, Moves(w) PROVE LeftInv'
  <2>1. ASSUME NEW x \in Workers, x # w
        PROVE  pc'[x] = pc[x] /\ current'[x] = current[x]
    BY <1>3, <2>1, Elsewhere DEF Locals, TypeInv, TypeOK
  <2> QED
    BY <1>1, <1>2, <1>3, <2>1 DEF LeftInv
<1>4. CASE UNCHANGED work
  BY <1>1, <1>4 DEF LeftInv, work
<1>5. (\E w \in Workers : Moves(w)) \/ UNCHANGED work
  BY DEF Next, Moves, EditAuthority, OpenReview, CommitReview, DropReview, Rest, vars
<1> QED
  BY <1>3, <1>4, <1>5

LEMMA StageStep ==
    ASSUME TypeInv, IInv, Unedited, NEW w \in Workers, NEW m \in Maps, Accepted(m),
           NEW n \in 2..9, At(w, m, n), Step(w)
    PROVE  At(w, m, n - 1)' \/ Reached(m)'
<1> USE DEF TypeInv, TypeOK, WorkerType, GoTo, At, StepsLeft
<1>1. pc[w] \in {"find", "stat", "put", "compare", "add"} /\ current[w] = m /\ written[w] \in 0..3
  BY DEF PcLabels
<1>2. CASE Reuse(w) \/ AddRow(w)
  BY <1>1, <1>2 DEF Reuse, AddRow, Reached
<1>3. CASE Prepare(w)
  <2>1. written[w] = 0
    BY <1>3 DEF Prepare, WorkerShape
  <2> QED
    BY <1>1, <1>3, <2>1 DEF Prepare
<1>4. CASE Stat(w)
  BY <1>1, <1>4 DEF Stat
<1>5. CASE PutArtefact(w) \/ CompareSame(w)
  <2>1. /\ pc[w] \in {"put", "compare"} /\ written[w] \in 0..2
        /\ pc'[w] = IF written[w] + 1 = 3 THEN "add" ELSE "stat"
        /\ written'[w] = written[w] + 1 /\ current'[w] = m
    BY <1>1, <1>5 DEF PutArtefact, CompareSame, Advance, Kinds, WorkerShape, Writing
  <2> QED
    BY <1>1, <2>1
<1>6. CASE CompareDiffers(w)
  <2>1. written[w] + 1 \in 1..3 /\ Present(NextKey(w))
    BY <1>6 DEF CompareDiffers, WorkerShape, Writing, IInv, StoreInv, WritingInv
  <2>2. Same(Key(m, written[w] + 1), Payload(m, written[w] + 1, authority))
    BY <1>1, <2>1 DEF IInv, StoreInv, UneditedInv, Unedited, NextKey
  <2> QED
    BY <1>1, <1>6, <2>2 DEF CompareDiffers, NextKey, NextPayload, IInv, StoreInv, UneditedInv, Unedited
<1>7. CASE Refuse(w) \/ Finish(w) \/ \E k \in Maps : NextMap(w, k)
  BY <1>1, <1>7 DEF Refuse, Finish, NextMap
<1> QED
  BY <1>2, <1>3, <1>4, <1>5, <1>6, <1>7 DEF Step

LEMMA StageKept ==
    ASSUME TypeInv, IInv, Unedited, NEW w \in Workers, NEW m \in Maps, Accepted(m),
           NEW n \in 2..9, At(w, m, n), [Next]_vars
    PROVE  At(w, m, n)' \/ At(w, m, n - 1)' \/ Reached(m)'
<1>1. ASSUME NEW x \in Workers, Moves(x), x # w PROVE At(w, m, n)'
  BY <1>1, Elsewhere DEF Locals, TypeInv, TypeOK, At, StepsLeft
<1>2. CASE Step(w)
  BY <1>2, StageStep
<1>3. CASE Crash(w)
  BY <1>3 DEF Crash, Reached, TypeInv, TypeOK, WorldType
<1>4. ~Launch(w)
  BY DEF Launch, At
<1>5. CASE UNCHANGED work
  BY <1>5 DEF work, At, StepsLeft
<1>6. (\E x \in Workers : Moves(x)) \/ UNCHANGED work
  BY DEF Next, Moves, EditAuthority, OpenReview, CommitReview, DropReview, Rest, vars
<1> QED
  BY <1>1, <1>2, <1>3, <1>4, <1>5, <1>6 DEF Moves

(* The premises of progress. *)
Running == FairSpec /\ []Unedited /\ []WorkersCanMove

Passes(w, m, n, k) == Running => (At(w, m, n) ~> (At(w, m, k) \/ Reached(m)))

LEMMA StagePasses ==
    ASSUME NEW w \in Workers, NEW m \in Maps, Accepted(m), NEW n \in 2..9,
           NEW k, k = n - 1
    PROVE  Passes(w, m, n, k)
<1>1. FairSpec => KeepsRunning(w)
  BY DEF FairSpec
<1>2. WorkersCanMove => (~(pc[w] = "off") => ENABLED <<Step(w)>>_vars)
  BY DEF WorkersCanMove
<1>3. At(w, m, n) => ~(pc[w] = "off")
  BY DEF At
<1>4. TypeInv /\ IInv /\ Unedited /\ At(w, m, n) /\ [Next]_vars
         => At(w, m, n)' \/ At(w, m, k)' \/ Reached(m)'
  BY StageKept
<1>5. TypeInv /\ IInv /\ Unedited /\ At(w, m, n) /\ <<Step(w)>>_vars
         => At(w, m, k)' \/ Reached(m)'
  BY StageStep
<1> QED
  BY <1>1, <1>2, <1>3, <1>4, <1>5, Invariance, PTL DEF Passes, Running, FairSpec, Spec, KeepsRunning

(* A worker that takes up a sound map ends with that map reconstructed, by  *)
(* itself or by another worker, unless one is killed: the stages it passes  *)
(* are finitely many, and it passes each of them (bootstrap.py:47-72,       *)
(* service.py:218-406).  That a worker never waits, which WorkersCanMove    *)
(* says, is a premise.                                                      *)
THEOREM TakenMapsGetReconstructed ==
    FairSpec /\ []Unedited /\ []WorkersCanMove => TakenMapsAreReconstructed
<1>1. Spec => []LeftInv
  <2>1. Init => LeftInv
    BY DEF Init, LeftInv
  <2> QED
    BY <2>1, LeftStep, Invariance, PTL DEF Spec
<1>2. ASSUME NEW w \in Workers, NEW m \in Maps
      PROVE  Running => ((current[w] = m /\ Accepted(m)) ~> Reached(m))
  <2>1. CASE Accepted(m)
    <3>1. TypeInv /\ LeftInv /\ current[w] = m
             => \/ Reached(m)
                \/ At(w, m, 2) \/ At(w, m, 3) \/ At(w, m, 4) \/ At(w, m, 5)
                \/ At(w, m, 6) \/ At(w, m, 7) \/ At(w, m, 8) \/ At(w, m, 9)
      <4> SUFFICES ASSUME TypeInv, LeftInv, current[w] = m, ~Reached(m)
                   PROVE  \E n \in 2..9 : At(w, m, n)
        BY Z3
      <4>1. pc[w] \in {"find", "stat", "put", "compare", "add"} /\ written[w] \in 0..3
        BY ReconstructionAssumption
           DEF LeftInv, Reached, TypeInv, TypeOK, WorkerType, PcLabels
      <4>2. StepsLeft(w) \in 2..9
        BY <4>1 DEF StepsLeft, TypeInv, WorkerShape, Writing
      <4> QED
        BY <4>1, <4>2 DEF At
    <3>2. TypeInv => ~At(w, m, 1)
      <4> SUFFICES ASSUME TypeInv, At(w, m, 1) PROVE FALSE
        OBVIOUS
      <4>1. pc[w] \in {"find", "stat", "put", "compare", "add"} /\ written[w] \in 0..3
        BY DEF At, TypeInv, TypeOK, WorkerType, PcLabels
      <4> QED
        BY <4>1 DEF At, StepsLeft, TypeInv, WorkerShape, Writing
    <3>3. Passes(w, m, 2, 1)
      BY <2>1, StagePasses
    <3>4. Passes(w, m, 3, 2)
      BY <2>1, StagePasses
    <3>5. Passes(w, m, 4, 3)
      BY <2>1, StagePasses
    <3>6. Passes(w, m, 5, 4)
      BY <2>1, StagePasses
    <3>7. Passes(w, m, 6, 5)
      BY <2>1, StagePasses
    <3>8. Passes(w, m, 7, 6)
      BY <2>1, StagePasses
    <3>9. Passes(w, m, 8, 7)
      BY <2>1, StagePasses
    <3>10. Passes(w, m, 9, 8)
      BY <2>1, StagePasses
    <3> QED
      BY <1>1, <3>1, <3>2, <3>3, <3>4, <3>5, <3>6, <3>7, <3>8, <3>9, <3>10, Invariance, PTL
         DEF Passes, Running, FairSpec
  <2>2. CASE ~Accepted(m)
    BY <2>2, PTL
  <2> QED
    BY <2>1, <2>2
<1>3. Running => \A w \in Workers : \A m \in Maps :
                     ((current[w] = m /\ Accepted(m)) ~> Reached(m))
  BY <1>2
<1> QED
  BY <1>3 DEF Running, Reached, TakenMapsAreReconstructed
=============================================================================
