--------------------------- MODULE MCNormalization ---------------------------
(* Small instances of the normalization for TLC. *)
EXTENDS Normalization, TLC

Vector == [kind |-> "vector", error |-> 0]
Pdf == [kind |-> "other", error |-> 0]
Large == [kind |-> "large", error |-> 0]
Broken == [kind |-> "broken", error |-> 0]

TwoSources == {"wards", "drains"}

(* A core source, and one whose later versions cannot be used as a whole.   *)
SomeFiles ==
    [s \in TwoSources |->
        IF s = "wards" THEN <<<<Vector>>>>
        ELSE <<<<Vector>>, <<Vector, Large, Vector>>, <<Pdf, Broken>>>>]

CoreCategories == {"WARD_BOUNDARY"}
OptionalCategories == {"DRAINAGE_MAP"}
OtherCategories == {"TIDE"}

Kolkata == [s \in TwoSources |-> IF s = "wards" THEN "WARD_BOUNDARY" ELSE "DRAINAGE_MAP"]
AsSeeded == {Kolkata}

(* No property tells the workers apart. *)
WorkerSymmetry == Permutations(Workers)
=============================================================================
