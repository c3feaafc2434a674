----------------------------- MODULE Algorithms -----------------------------
(***************************************************************************)
(* The computations of the pipeline that keep nothing between calls, side   *)
(* by side: what a harvest asks for, what a vector file becomes, how a grid *)
(* is resampled, how a drainage map is traced and put on the ground, each   *)
(* as one call and its answer; and the page of a drainage map as it is      *)
(* read, operator by operator.                                              *)
(***************************************************************************)
EXTENDS SeedCatalogue, Vectors, Resampling, Tracing, Georeference, Drawing

Init == NoCall /\ DrawingInit

Call ==
    \/ CallPlan \/ CallBootstrap
    \/ CallVector
    \/ CallRain \/ CallCategories \/ CallElevation
    \/ CallTrace \/ CallFit

Computation == page = BlankPage /\ Call /\ UNCHANGED drawing

Reading == request = None /\ Operator /\ UNCHANGED calls

Rest == request # None /\ UNCHANGED <<calls, drawing>>

Next == Computation \/ Reading \/ Rest

Spec == Init /\ [][Next]_<<calls, drawing>>
=============================================================================
