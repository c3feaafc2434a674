----------------------------- MODULE Resampling -----------------------------
(***************************************************************************)
(* The resampling policies of Sequence 4 (floodguard/spatial/resampling.py) *)
(* on small integer grids, in exact arithmetic: rainfall by the areas that  *)
(* cells share, categories by the nearest center, elevation by linear       *)
(* interpolation along x and then along y.  The factors that turn a rate    *)
(* into a volume scale both sides and are left out, as is the time axis,    *)
(* along which every step is remapped by itself; an array of rates stands   *)
(* for one step of it.  A rate of a remapped cell is its rain over its area.*)
(***************************************************************************)
EXTENDS Calls, Integers, Sequences, FiniteSets, FiniteSetsExt

CONSTANTS
    EdgesX, EdgesY,     \* arrays of cell edges that callers pass
    CentersX, CentersY, \* arrays of cell centers
    Rates,              \* rainfall rates
    Classes,            \* categories
    Heights,            \* elevations
    Uncertainties,      \* source_uncertainty_m
    Tolerances,         \* tolerance of the conservation check, in parts of Whole
    Whole,
    Slack               \* how far extents may lie apart and still be np.allclose

ASSUME ResamplingAssumption ==
    /\ EdgesX \cup EdgesY \cup CentersX \cup CentersY \subseteq Seq(Int)
    /\ Rates \cup Heights \cup Tolerances \cup (Uncertainties \ {None}) \subseteq Int
    /\ Whole \in Nat \ {0} /\ Slack \in Nat

-----------------------------------------------------------------------------
(* Grids. *)

Increasing(s) == \A i \in 1..(Len(s) - 1) : s[i] < s[i + 1]
IsEdges(s) == Len(s) >= 2 /\ Increasing(s)
IsCenters(s) == Len(s) >= 1 /\ Increasing(s)

Cells(edges) == 1..(Len(edges) - 1)
Width(edges, i) == edges[i + 1] - edges[i]

(* The cells of a grid, and the unit squares of a rectangle, by row.        *)
Grid(y, x) == Cells(y) \X Cells(x)
Squares(y1, y2, x1, x2) == (y1..(y2 - 1)) \X (x1..(x2 - 1))

Arrays(h, w, values) == [1..h -> [1..w -> values]]
Fits(array, h, w) == Len(array) = h /\ \A r \in 1..h : Len(array[r]) = w

(* The arrays a caller may pass for a grid: of its shape, or a single cell. *)
Offered(h, w, values) == Arrays(h, w, values) \cup Arrays(1, 1, values)

Distance(a, b) == IF a < b THEN b - a ELSE a - b

-----------------------------------------------------------------------------
(* conservative_remap_rainfall *)

(* Mutant: cells that do not meet share a negative length. *)
OverlapSigned(d, i, s, j) == Min({d[i + 1], s[j + 1]}) - Max({d[i], s[j]})

Overlap(d, i, s, j) == Max({0, Min({d[i + 1], s[j + 1]}) - Max({d[i], s[j]})})

SameExtent(d, s) ==
    Distance(s[1], d[1]) <= Slack /\ Distance(s[Len(s)], d[Len(d)]) <= Slack

AcceptsRain(q) ==
    /\ q.tolerance >= 0
    /\ IsEdges(q.sx) /\ IsEdges(q.sy) /\ IsEdges(q.dx) /\ IsEdges(q.dy)
    /\ SameExtent(q.dx, q.sx) /\ SameExtent(q.dy, q.sy)
    /\ Fits(q.rates, Len(q.sy) - 1, Len(q.sx) - 1)
    /\ \A r \in DOMAIN q.rates : \A c \in DOMAIN q.rates[r] : q.rates[r][c] >= 0

(* The rain of destination cell (r, c): a row of y_overlap @ rates @        *)
(* x_overlap.T.                                                             *)
RainOn(q, r, c) ==
    SumFunction([p \in Grid(q.sy, q.sx) |->
        Overlap(q.dy, r, q.sy, p[1]) * q.rates[p[1]][p[2]] * Overlap(q.dx, c, q.sx, p[2])])

VolumeBefore(q) ==
    SumFunction([p \in Grid(q.sy, q.sx) |->
        q.rates[p[1]][p[2]] * Width(q.sy, p[1]) * Width(q.sx, p[2])])
VolumeAfter(q) == SumFunction([p \in Grid(q.dy, q.dx) |-> RainOn(q, p[1], p[2])])

RemapRain(q) ==
    LET before == VolumeBefore(q)  after == VolumeAfter(q) IN
    [rain |-> [r \in Cells(q.dy) |-> [c \in Cells(q.dx) |-> RainOn(q, r, c)]],
     before |-> before, after |-> after,
     passed |-> Distance(before, after) * Whole <= q.tolerance * before]

-----------------------------------------------------------------------------
(* nearest_resample_categorical *)

(* Mutant: of two centers as near, the last. *)
NearestLast(s, x) ==
    CHOOSE i \in 1..Len(s) :
        \A j \in 1..Len(s) : Distance(s[i], x) < Distance(s[j], x)
                             \/ (Distance(s[i], x) = Distance(s[j], x) /\ j <= i)

(* argmin: of two centers as near, the first. *)
Nearest(s, x) ==
    CHOOSE i \in 1..Len(s) :
        \A j \in 1..Len(s) : Distance(s[i], x) < Distance(s[j], x)
                             \/ (Distance(s[i], x) = Distance(s[j], x) /\ i <= j)

AcceptsCenters(q) ==
    /\ IsCenters(q.sx) /\ IsCenters(q.sy) /\ IsCenters(q.dx) /\ IsCenters(q.dy)
    /\ Fits(q.values, Len(q.sy), Len(q.sx))

ResampleCategories(q) ==
    [r \in 1..Len(q.dy) |-> [c \in 1..Len(q.dx) |->
        q.values[Nearest(q.sy, q.dy[r])][Nearest(q.sx, q.dx[c])]]]

-----------------------------------------------------------------------------
(* bilinear_resample_elevation.  A number is a fraction <<n, d>>. *)

(* What lies n/d of the way from a to b. *)
Blend(a, b, n, d) == <<a[1] * b[2] * (d - n) + b[1] * a[2] * n, a[2] * b[2] * d>>

(* np.interp: the end values go on beyond the ends. *)
Interp(x, s, f) ==
    IF x <= s[1] THEN f[1]
    ELSE IF x >= s[Len(s)] THEN f[Len(s)]
    ELSE LET i == CHOOSE i \in Cells(s) : s[i] <= x /\ x < s[i + 1]
         IN  Blend(f[i], f[i + 1], x - s[i], Width(s, i))

AcceptsElevation(q) ==
    AcceptsCenters(q) /\ (q.uncertainty = None \/ q.uncertainty >= 0)

(* Mutant: interpolated along x, and of the nearest row. *)
ResampleElevationByRows(q) ==
    [elevation |-> [r \in 1..Len(q.dy) |-> [c \in 1..Len(q.dx) |->
         Interp(q.dx[c], q.sx, [k \in 1..Len(q.sx) |->
             <<q.values[Nearest(q.sy, q.dy[r])][k], 1>>])]],
     uncertainty |-> q.uncertainty]
ResampleElevation(q) ==
    LET along(j, x) == Interp(x, q.sx, [k \in 1..Len(q.sx) |-> <<q.values[j][k], 1>>]) IN
    [elevation |-> [r \in 1..Len(q.dy) |-> [c \in 1..Len(q.dx) |->
         Interp(q.dy[r], q.sy, [j \in 1..Len(q.sy) |-> along(j, q.dx[c])])]],
     uncertainty |-> q.uncertainty]

-----------------------------------------------------------------------------
(* Calls. *)

CallRain ==
    /\ request = None
    /\ \E sx, dx \in EdgesX, sy, dy \in EdgesY, tolerance \in Tolerances :
       \E rates \in Offered(Len(sy) - 1, Len(sx) - 1, Rates) :
           LET q == [call |-> "rain", sx |-> sx, sy |-> sy, dx |-> dx, dy |-> dy,
                     rates |-> rates, tolerance |-> tolerance]
           IN  Answer(q, AcceptsRain(q), RemapRain(q))

CallCategories ==
    /\ request = None
    /\ \E sx, dx \in CentersX, sy, dy \in CentersY :
       \E values \in Offered(Len(sy), Len(sx), Classes) :
           LET q == [call |-> "categories", sx |-> sx, sy |-> sy, dx |-> dx, dy |-> dy,
                     values |-> values]
           IN  Answer(q, AcceptsCenters(q), ResampleCategories(q))

CallElevation ==
    /\ request = None
    /\ \E sx, dx \in CentersX, sy, dy \in CentersY, uncertainty \in Uncertainties :
       \E values \in Offered(Len(sy), Len(sx), Heights) :
           LET q == [call |-> "elevation", sx |-> sx, sy |-> sy, dx |-> dx, dy |-> dy,
                     values |-> values, uncertainty |-> uncertainty]
           IN  Answer(q, AcceptsElevation(q), ResampleElevation(q))

-----------------------------------------------------------------------------
(* What falls on a unit square, and on the squares outside the destination. *)
Within(edges, i, z) == edges[i] <= z /\ z < edges[i + 1]
RateAt(q, y, x) ==
    SumFunction([p \in Grid(q.sy, q.sx) |->
        IF Within(q.sy, p[1], y) /\ Within(q.sx, p[2], x) THEN q.rates[p[1]][p[2]] ELSE 0])

Ends(edges) == <<edges[1], edges[Len(edges)]>>
IsOutside(q, y, x) == ~Within(Ends(q.dy), 1, y) \/ ~Within(Ends(q.dx), 1, x)
RainOutside(q) ==
    SumFunction([z \in Squares(q.sy[1], q.sy[Len(q.sy)], q.sx[1], q.sx[Len(q.sx)]) |->
        IF IsOutside(q, z[1], z[2]) THEN RateAt(q, z[1], z[2]) ELSE 0])

(* A destination cell gets exactly the rain that falls on the ground it     *)
(* covers, and none from outside the source, however the two grids lie; what*)
(* is missing after the remap fell within the slack that np.allclose leaves,*)
(* outside the destination grid, so that between grids of one extent the    *)
(* gate of the readiness report passes at any tolerance                     *)
(* (resampling.py:124-139, 161-162 and 173-195).                            *)
RainFallsWhereItFell ==
    Answered("rain") =>
        /\ \A r \in Cells(request.dy), c \in Cells(request.dx) :
               answer.rain[r][c] =
                   SumFunction([z \in Squares(request.dy[r], request.dy[r + 1],
                                              request.dx[c], request.dx[c + 1]) |->
                       RateAt(request, z[1], z[2])])
        /\ answer.before = answer.after + RainOutside(request)
        /\ RainOutside(request) = 0 => answer.passed

(* A destination point takes the category on its side of the midpoints      *)
(* between the source centers; a point on a midpoint takes the lower one    *)
(* (resampling.py:68-70).                                                   *)
Side(s, x) == 1 + Cardinality({i \in Cells(s) : 2 * x > s[i] + s[i + 1]})
CategoriesSplitAtMidpoints ==
    Answered("categories") =>
        \A r \in DOMAIN answer : \A c \in DOMAIN answer[r] :
            answer[r][c] =
                request.values[Side(request.sy, request.dy[r])][Side(request.sx, request.dx[c])]

(* Of a slope, every point resampled within the source lies on it, and the  *)
(* terrain goes on level beyond the source.  Elsewhere a point is never      *)
(* above the highest or below the lowest of the centers next to it           *)
(* (resampling.py:93-96).                                                    *)
Clamp(s, x) == Max({s[1], Min({x, s[Len(s)]})})
NextTo(s, x) ==
    {i \in 1..Len(s) : \A j \in 1..Len(s) \ {i} :
        ~(s[i] < s[j] /\ s[j] <= Clamp(s, x)) /\ ~(s[i] > s[j] /\ s[j] >= Clamp(s, x))}
IsSlope(q, a, b) ==
    \A j \in 1..Len(q.sy), k \in 1..Len(q.sx) :
        q.values[j][k] = q.values[1][1] + a * (q.sx[k] - q.sx[1]) + b * (q.sy[j] - q.sy[1])

NearTo(q, x, y) == {q.values[j][k] : j \in NextTo(q.sy, y), k \in NextTo(q.sx, x)}
FollowsSlopes(q, x, y, z) ==
    /\ \A a, b \in -2..2 :
           IsSlope(q, a, b) =>
               z[1] = z[2] * (q.values[1][1] + a * (Clamp(q.sx, x) - q.sx[1])
                                             + b * (Clamp(q.sy, y) - q.sy[1]))
    /\ Min(NearTo(q, x, y)) * z[2] <= z[1] /\ z[1] <= Max(NearTo(q, x, y)) * z[2]

ElevationFollowsSlopes ==
    Answered("elevation") =>
        \A r \in DOMAIN answer.elevation : \A c \in DOMAIN answer.elevation[r] :
            FollowsSlopes(request, request.dx[c], request.dy[r], answer.elevation[r][c])
=============================================================================
