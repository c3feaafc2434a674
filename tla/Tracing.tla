------------------------------ MODULE Tracing ------------------------------
(***************************************************************************)
(* From the paths and texts of a page to the features of a drainage map:    *)
(* red dashes become reaches, cyan rings manholes, texts labels             *)
(* (floodguard/reconstruction/pdf_native.py), and manholes and labels are   *)
(* tied to the reach that is nearest (floodguard/reconstruction/service.py) *)
(* All in exact arithmetic on whole half points (Unit of them are a point). *)
(* The strokes offered lie within half an angle bin of an axis, so that the *)
(* direction of a bin is an axis; the line a bin stands for is turned, not  *)
(* the stroke.  A path is [points, colour, closed], a text [text, drainage, *)
(* manhole, point], the two flags being what the patterns of labels say.    *)
(***************************************************************************)
EXTENDS Calls, Orders, Integers, Sequences, FiniteSets, SequencesExt

CONSTANTS
    Dashes,     \* sequences of drawn paths that are offered as reaches
    Symbols,    \* sequences of drawn paths that are offered as manholes
    Texts,      \* sequences of text spans
    PageWidth, PageHeight

Unit == 2

Abs(n) == IF n < 0 THEN -n ELSE n

(* Within half an angle bin, 2.5 degrees, of an axis. *)
IsAxial(p, q) ==
    \/ 1000 * Abs(q[1] - p[1]) <= 43 * Abs(q[2] - p[2])
    \/ 1000 * Abs(q[2] - p[2]) <= 43 * Abs(q[1] - p[1])

ASSUME TracingAssumption ==
    /\ PageWidth \in Nat /\ PageHeight \in Nat
    /\ Dashes \cup Symbols \subseteq
           Seq([points : Seq({n \in Int : n % Unit = 0} \X {n \in Int : n % Unit = 0}),
                colour : {"red", "cyan", "black"}, closed : BOOLEAN])
    /\ \A s \in Dashes \cup Symbols : \A i \in DOMAIN s :
           /\ Len(s[i].points) >= 2
           /\ s[i].colour = "red" => \A j \in 1..(Len(s[i].points) - 1) :
                                        IsAxial(s[i].points[j], s[i].points[j + 1])
    /\ Texts \subseteq
           Seq([text : STRING, drainage : BOOLEAN, manhole : BOOLEAN, point : Int \X Int])
    /\ \A s \in Texts : \A i, j \in DOMAIN s : s[i].point = s[j].point => i = j

Square(p, q) == (p[1] - q[1]) * (p[1] - q[1]) + (p[2] - q[2]) * (p[2] - q[2])
Dot(p, u) == p[1] * u[1] + p[2] * u[2]
Along(bin) == CASE bin = "east" -> <<1, 0>> [] bin = "north" -> <<0, 1>> [] bin = "west" -> <<-1, 0>>
Across(bin) == <<-Along(bin)[2], Along(bin)[1]>>

(* round(n / d), of two integers as near the even one. *)
RoundHalfEven(n, d) ==
    LET q == n \div d  r == n % d IN
    IF 2 * r < d \/ (2 * r = d /\ q % 2 = 0) THEN q ELSE q + 1

-----------------------------------------------------------------------------
(* clean_native_drain_paths *)

MaximumGap == 12 * Unit
MinimumLength == 12 * Unit
MinimumStroke == Unit
OffsetBin == 4 * Unit

(* The angle bin of an axial stroke: just below a half turn it is bin 36,   *)
(* not bin 0.                                                               *)
AngleBin(p, q) ==
    LET dx == q[1] - p[1]  dy == q[2] - p[2] IN
    IF 1000 * Abs(dy) > 43 * Abs(dx) THEN "north"
    ELSE IF dx * dy < 0 THEN "west" ELSE "east"

LineOf(p, q) ==
    LET bin == AngleBin(p, q) IN
    [bin |-> bin, offset |-> RoundHalfEven(Dot(p, Across(bin)) + Dot(q, Across(bin)), 2 * OffsetBin)]

(* The groups: the strokes of the red paths, each with the interval that it *)
(* covers along its line.                                                   *)
Fragments(drawn) ==
    LET red == {i \in DOMAIN drawn : drawn[i].colour = "red"}
        fragment(i, j) ==
            LET p == drawn[i].points[j]  q == drawn[i].points[j + 1]
                u == Along(LineOf(p, q).bin)
            IN  [id |-> <<i, j>>, line |-> LineOf(p, q),
                 low |-> Min({Dot(p, u), Dot(q, u)}), high |-> Max({Dot(p, u), Dot(q, u)})]
    IN  UNION {{fragment(i, j) : j \in {j \in 1..(Len(drawn[i].points) - 1) :
                                            Square(drawn[i].points[j], drawn[i].points[j + 1])
                                                >= MinimumStroke * MinimumStroke}} : i \in red}

ReachOf(line, run) ==
    LET place(t) == [k \in 1..2 |-> t * Along(line.bin)[k]
                                     + line.offset * OffsetBin * Across(line.bin)[k]]
    IN  [start |-> place(run.low), end |-> place(run.high), count |-> run.count]

(* A run of dashes, and those that were completed before it. *)
Open(f, done) == [low |-> f.low, high |-> f.high, count |-> 1, done |-> done]

Completed(run) ==
    run.done \cup IF run.high - run.low >= MinimumLength
                  THEN {[low |-> run.low, high |-> run.high, count |-> run.count]} ELSE {}

Extended(run, end) == [low |-> run.low, high |-> end, count |-> run.count + 1, done |-> run.done]

(* Mutant: the end of the run is that of the last dash, also of a short one *)
(* within a long one.                                                       *)
JoinLast(run, f) ==
    IF f.low - run.high <= MaximumGap THEN Extended(run, f.high) ELSE Open(f, Completed(run))

Join(run, f) ==
    IF f.low - run.high <= MaximumGap THEN Extended(run, Max({run.high, f.high}))
    ELSE Open(f, Completed(run))

(* The fragments of a line in order, joined over small gaps. *)
Sweep(fragments) ==
    LET sorted == Sorted(fragments, [f \in fragments |-> <<f.low, f.high>> \o f.id])
        run[k \in 1..Len(sorted)] ==
            IF k = 1 THEN Open(sorted[1], {}) ELSE Join(run[k - 1], sorted[k])
    IN  Completed(run[Len(sorted)])

Reaches(all) ==
    UNION {{ReachOf(line, run) : run \in Sweep({f \in all : f.line = line})} :
               line \in {f.line : f \in all}}

CleanDrains(drawn) ==
    LET reaches == Reaches(Fragments(drawn))
    IN  Sorted(reaches, [r \in reaches |-> r.start \o r.end])

-----------------------------------------------------------------------------
(* extract_native_structures and drainage_labels *)

Extent(drawn, k) == {drawn.points[i][k] : i \in DOMAIN drawn.points}
Size(drawn, k) == Max(Extent(drawn, k)) - Min(Extent(drawn, k))
Center(drawn) == [k \in 1..2 |-> (Max(Extent(drawn, k)) + Min(Extent(drawn, k))) \div 2]

IsManhole(drawn) ==
    LET ends == {drawn.points[1], drawn.points[Len(drawn.points)]}
        sizes == {Size(drawn, 1), Size(drawn, 2)}
    IN  /\ drawn.colour = "cyan"
        /\ drawn.closed \/ Cardinality(ends) = 1
        /\ Len(drawn.points) >= 9
        /\ sizes \subseteq (12 * Unit)..(16 * Unit)
        /\ 10 * Min(sizes) >= 9 * Max(sizes)

Structures(drawn) ==
    LET rings == {i \in DOMAIN drawn : IsManhole(drawn[i])}
        order == Sorted(rings, [i \in rings |-> Center(drawn[i]) \o <<i>>])
    IN  [k \in DOMAIN order |-> Center(drawn[order[k]])]

Labels(spans) ==
    LET inside(z, size) == 5 * Unit < z /\ z < size - 5 * Unit
        kept == {i \in DOMAIN spans : /\ spans[i].drainage
                                      /\ inside(spans[i].point[1], PageWidth)
                                      /\ inside(spans[i].point[2], PageHeight)}
        order == Sorted(kept, [i \in kept |-> spans[i].point])
    IN  [k \in DOMAIN order |-> spans[order[k]]]

-----------------------------------------------------------------------------
(* _build_features *)

Between(z, a, b) == Max({Min({a, b}), Min({z, Max({a, b})})})

(* Mutant: the reach is taken to go on beyond its ends. *)
SquareToLine(p, reach) ==
    IF reach.start[2] = reach.end[2] THEN (p[2] - reach.end[2]) * (p[2] - reach.end[2])
    ELSE (p[1] - reach.end[1]) * (p[1] - reach.end[1])

(* _distance_to_segment, squared: a reach lies along an axis, so that the   *)
(* point of it that is nearest is found coordinate by coordinate.           *)
SquareToReach(p, reach) ==
    Square(p, [k \in 1..2 |-> Between(p[k], reach.start[k], reach.end[k])])

(* min(..., key=...): of two as near, the first. *)
FirstNearest(places, square(_)) ==
    CHOOSE i \in places : \A j \in places : square(i) < square(j) \/ (square(i) = square(j) /\ i <= j)

(* _nearest_drain_index; 0 for none. *)
NearestDrain(p, drains) ==
    IF drains = <<>> THEN 0
    ELSE LET i == FirstNearest(DOMAIN drains, LAMBDA k : SquareToReach(p, drains[k]))
         IN  IF SquareToReach(p, drains[i]) <= 40 * Unit * 40 * Unit THEN i ELSE 0

NearestManholeLabel(p, labels) ==
    LET named == {k \in DOMAIN labels : labels[k].manhole} IN
    IF named = {} THEN None
    ELSE LET t == labels[FirstNearest(named, LAMBDA k : Square(p, labels[k].point))]
         IN  IF Square(p, t.point) <= 30 * Unit * 30 * Unit THEN t.text ELSE None

Band(score) == IF score >= 85 THEN "HIGH" ELSE IF score >= 60 THEN "MEDIUM" ELSE "LOW"

Features(drains, structures, labels) ==
    [i \in DOMAIN drains |->
        [kind |-> "DRAIN", at |-> drains[i].start, drain |-> i, label |-> None,
         band |-> Band(IF drains[i].count >= 3 THEN 90 ELSE 78)]]
    \o [i \in DOMAIN structures |->
        [kind |-> "STRUCTURE", at |-> structures[i], drain |-> NearestDrain(structures[i], drains),
         label |-> NearestManholeLabel(structures[i], labels), band |-> Band(86)]]
    \o [i \in DOMAIN labels |->
        [kind |-> "LABEL", at |-> labels[i].point, drain |-> NearestDrain(labels[i].point, drains),
         label |-> labels[i].text, band |-> Band(90)]]

Trace(q) ==
    LET drains == CleanDrains(q.drawn)  structures == Structures(q.drawn)  labels == Labels(q.spans)
        features == Features(drains, structures, labels)
    IN  [drains |-> drains, labels |-> labels, features |-> features,
         confidence |-> [b \in {"HIGH", "MEDIUM", "LOW"} |->
             Cardinality({i \in DOMAIN features : features[i].band = b})]]

(* A map without a reach, a manhole and a label is refused. *)
CallTrace ==
    /\ request = None
    /\ \E dashes \in Dashes, symbols \in Symbols, spans \in Texts :
           LET q == [call |-> "trace", drawn |-> dashes \o symbols, spans |-> spans] IN
           Answer(q, CleanDrains(q.drawn) # <<>> /\ Structures(q.drawn) # <<>> /\ Labels(spans) # <<>>,
                  Trace(q))

-----------------------------------------------------------------------------
(* Dashes of one line that lie no further apart than the gap hang together. *)
Near(f, g) == f.line = g.line /\ f.low - g.high <= MaximumGap /\ g.low - f.high <= MaximumGap
IsChain(C, all) ==
    /\ C # {}
    /\ \A A \in (SUBSET C) \ {{}, C} : \E f \in A, g \in C \ A : Near(f, g)
    /\ \A f \in C, g \in all \ C : ~Near(f, g)

Chains(all) == {C \in SUBSET all : IsChain(C, all)}
Interval(C) ==
    [low |-> Min({f.low : f \in C}), high |-> Max({f.high : f \in C}), count |-> Cardinality(C)]
IsLong(run) == run.high - run.low >= MinimumLength

(* Of twice the middle of a stroke, from the line of its bin. *)
OffLine(drawn, f) ==
    LET points == drawn[f.id[1]].points  k == f.id[2] IN
    Dot(points[k], Across(f.line.bin)) + Dot(points[k + 1], Across(f.line.bin))
        - 2 * f.line.offset * OffsetBin

(* The reaches are the chains of red dashes that are long enough, each from *)
(* its first end to its last and with all of its dashes, whatever the order *)
(* and overlap of the dashes on the page; and no dash lies further from its *)
(* reach than half an offset bin (pdf_native.py:300-377).                   *)
ReachesAreChains ==
    Answered("trace") =>
        LET all == Fragments(request.drawn) IN
        /\ ToSet(answer.drains) =
               {ReachOf((CHOOSE f \in C : TRUE).line, Interval(C)) :
                   C \in {D \in Chains(all) : IsLong(Interval(D))}}
        /\ \A f \in all : Abs(OffLine(request.drawn, f)) <= OffsetBin

(* Every point that a reach covers. *)
Ground(reach) ==
    {<<x, y>> : x \in Min({reach.start[1], reach.end[1]})..Max({reach.start[1], reach.end[1]}),
                y \in Min({reach.start[2], reach.end[2]})..Max({reach.start[2], reach.end[2]})}

Away(p, reach) == Min({Square(p, z) : z \in Ground(reach)})

BelongsToNearest(f, drains) ==
    IF f.drain = 0 THEN \A k \in DOMAIN drains : Away(f.at, drains[k]) > 80 * 80
    ELSE /\ f.drain \in DOMAIN drains /\ Away(f.at, drains[f.drain]) <= 80 * 80
         /\ \A k \in DOMAIN drains :
                \/ Away(f.at, drains[f.drain]) < Away(f.at, drains[k])
                \/ Away(f.at, drains[f.drain]) = Away(f.at, drains[k]) /\ f.drain <= k

IsNamedByNearest(f, labels) ==
    LET near == {t \in ToSet(labels) : t.manhole /\ Square(f.at, t.point) <= 60 * 60} IN
    IF near = {} THEN f.label = None
    ELSE \E t \in near : f.label = t.text /\
             \A u \in near : Square(f.at, t.point) <= Square(f.at, u.point)

(* A manhole or a label belongs to the reach with the ground nearest to it, *)
(* the first of several, and to none only if all lie beyond 40 points; the  *)
(* name of a manhole is that of the nearest manhole label within 30 points  *)
(* (service.py:87-131 and 487-552).                                         *)
AssociationsAreNearest ==
    Answered("trace") =>
        \A i \in DOMAIN answer.features :
            LET f == answer.features[i] IN
            /\ f.kind # "DRAIN" => BelongsToNearest(f, answer.drains)
            /\ f.kind = "STRUCTURE" => IsNamedByNearest(f, answer.labels)
=============================================================================
