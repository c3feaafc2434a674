---------------------------- MODULE MCHarvester ----------------------------
(* Small instances of the harvester for TLC. *)
EXTENDS Harvester, TLC

Open ==
    [method |-> "HTTP", status |-> "AVAILABLE", automation |-> TRUE,
     access |-> "OPEN_AUTOMATED", auth |-> "NONE", credential |-> "none",
     citySafe |-> TRUE, provenance |-> "2024 licence"]

Relicensed == [Open EXCEPT !.provenance = "2025 licence"]
Withdrawn == [Open EXCEPT !.status = "UNAVAILABLE"]
SpacedCity == [Open EXCEPT !.citySafe = FALSE]
Tokened == [Open EXCEPT !.access = "AUTHORIZATION_REQUIRED",
                        !.auth = "BEARER_TOKEN", !.credential = "present"]
Unkeyed == [Tokened EXCEPT !.credential = "missing"]
Manual == [Open EXCEPT !.access = "OPEN_MANUAL", !.automation = FALSE]
Extract == [Open EXCEPT !.method = "PBF_EXTRACT"]

TwoLicences == {"2024 licence", "2025 licence"}
OneSource == {"drains"}
TwoSources == {"drains", "wards"}
Single == [s \in OneSource |-> 1]
Double == [s \in OneSource |-> 2]
Mixed == [s \in TwoSources |-> IF s = "drains" THEN 2 ELSE 3]

Always == {Open}
AnyRegistration == {Open, SpacedCity, Relicensed, Withdrawn, Tokened, Unkeyed, Manual, Extract}

UnitSize == [r \in Revisions |-> 1]
GrowingSize == "r1" :> 1 @@ "r2" :> 2 @@ "r3" :> 3

Ids4 == 1..4

(* No property of a run of safety tells the jobs apart. *)
JobSymmetry == Permutations(Jobs)
=============================================================================
