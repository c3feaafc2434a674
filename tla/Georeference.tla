---------------------------- MODULE Georeference ----------------------------
(***************************************************************************)
(* How a drainage map is put on the ground: the least squares affine fit of *)
(* its control points (floodguard/reconstruction/georeference.py) under the *)
(* rules of a calibration (contracts.py) and the gate of the reconstruction *)
(* (service.py).  Exact: the normal equations are solved by Cramer's rule,  *)
(* and what is computed is kept as numerators over their determinant.       *)
(* Targets are already in the working CRS; lengths are whole.               *)
(***************************************************************************)
EXTENDS Calls, Integers, Sequences, FiniteSets, FiniteSetsExt

CONSTANTS
    Calibrations,   \* sequences of control points [page, target] of two numbers each
    RmseLimits,     \* max_georeference_rmse_m
    Transforms      \* affine maps as the six coefficients of fit_affine

ASSUME GeoreferenceAssumption ==
    /\ Calibrations \subseteq Seq([page : Int \X Int, target : Int \X Int])
    /\ RmseLimits \subseteq Nat \ {0}
    /\ Transforms \subseteq [1..6 -> Int]

-----------------------------------------------------------------------------
(* ReconstructionCalibration *)

ValidCalibration(controls) ==
    /\ Len(controls) >= 4
    /\ \A i, j \in DOMAIN controls : i # j =>
           controls[i].page # controls[j].page /\ controls[i].target # controls[j].target

-----------------------------------------------------------------------------
(* fit_affine *)

Det(a) ==
    a[1][1] * (a[2][2] * a[3][3] - a[2][3] * a[3][2])
    - a[1][2] * (a[2][1] * a[3][3] - a[2][3] * a[3][1])
    + a[1][3] * (a[2][1] * a[3][2] - a[2][2] * a[3][1])

(* A row of the page matrix. *)
PageRow(control) == <<control.page[1], control.page[2], 1>>

(* The normal equations, and their right side for an axis of the ground. *)
Normal(controls) ==
    [j \in 1..3 |-> [k \in 1..3 |->
        SumFunction([i \in DOMAIN controls |-> PageRow(controls[i])[j] * PageRow(controls[i])[k]])]]
Moment(controls, axis) ==
    [j \in 1..3 |->
        SumFunction([i \in DOMAIN controls |-> PageRow(controls[i])[j] * controls[i].target[axis]])]

(* Zero iff the page matrix has a rank below 3. *)
Denominator(controls) == Det(Normal(controls))

Solution(controls, axis) ==
    LET n == Normal(controls)  b == Moment(controls, axis) IN
    [k \in 1..3 |-> Det([i \in 1..3 |-> [j \in 1..3 |-> IF j = k THEN b[i] ELSE n[i][j]]])]

Coefficients(controls) == Solution(controls, 1) \o Solution(controls, 2)

Misfit(controls, i, axis) ==
    LET s == Solution(controls, axis)  row == PageRow(controls[i]) IN
    s[1] * row[1] + s[2] * row[2] + s[3] * row[3] - Denominator(controls) * controls[i].target[axis]

(* Mutant: of a residual, only the easting. *)
ResidualOfEasting(controls, i) == Misfit(controls, i, 1) * Misfit(controls, i, 1)

(* A residual, squared, over the square of the denominator. *)
Residual(controls, i) ==
    Misfit(controls, i, 1) * Misfit(controls, i, 1) + Misfit(controls, i, 2) * Misfit(controls, i, 2)

HasScale(c) == (c[1] # 0 \/ c[4] # 0) /\ (c[2] # 0 \/ c[5] # 0)

Fit(controls) ==
    [over |-> Denominator(controls), coefficients |-> Coefficients(controls),
     residuals |-> [i \in DOMAIN controls |-> Residual(controls, i)]]

(* The RMSE, squared and times the number of controls; what the gates that  *)
(* compare it, and the largest residual, with a limit find.                 *)
SumOfSquares(fit) == SumFunction(fit.residuals)
RmseWithin(fit, limit) ==
    SumOfSquares(fit) <= limit * limit * Len(fit.residuals) * fit.over * fit.over
ErrorWithin(fit, limit) ==
    \A i \in DOMAIN fit.residuals : fit.residuals[i] <= limit * limit * fit.over * fit.over

(* A map whose RMSE is over the limit is refused. *)
CallFit ==
    /\ request = None
    /\ \E controls \in Calibrations, limit \in RmseLimits :
           LET fit == Fit(controls) IN
           Answer([call |-> "fit", controls |-> controls, limit |-> limit],
                  /\ ValidCalibration(controls)
                  /\ fit.over # 0 /\ HasScale(fit.coefficients)
                  /\ RmseWithin(fit, limit),
                  fit)

-----------------------------------------------------------------------------
Image(t, p) == <<t[1] * p[1] + t[2] * p[2] + t[3], t[4] * p[1] + t[5] * p[2] + t[6]>>
Agrees(t, control) == Image(t, control.page) = control.target

OnALine(points) ==
    \A p, q, r \in points : (q[1] - p[1]) * (r[2] - p[2]) = (q[2] - p[2]) * (r[1] - p[1])

ShowsUnlessOnALine(controls, fit, i, t) ==
    (\A j \in DOMAIN controls \ {i} : Agrees(t, controls[j])) =>
        (SumOfSquares(fit) = 0
         <=> Agrees(t, controls[i])
             \/ OnALine({controls[j].page : j \in DOMAIN controls \ {i}}))

PutsThemThere(controls, fit, t) ==
    (\A j \in DOMAIN controls : Agrees(t, controls[j])) =>
        fit.coefficients = [k \in 1..6 |-> fit.over * t[k]]

(* Controls that agree put the map exactly where they say.  One that does   *)
(* not agree with the others shows in the RMSE, unless all the others lie   *)
(* on a line: then the fit bends to it, shows nothing and passes every      *)
(* gate, for only controls that all lie on one line are refused             *)
(* (georeference.py:47).  And a map within the limit everywhere is within   *)
(* it on average, so that what readiness() asks for beyond reconstruct() is *)
(* the largest residual (service.py:258 and 643-644).                       *)
DisplacedControlsShow ==
    Answered("fit") =>
        /\ \A i \in DOMAIN request.controls, t \in Transforms :
               ShowsUnlessOnALine(request.controls, answer, i, t)
        /\ \A t \in Transforms : PutsThemThere(request.controls, answer, t)
        /\ ErrorWithin(answer, request.limit) => RmseWithin(answer, request.limit)
=============================================================================
