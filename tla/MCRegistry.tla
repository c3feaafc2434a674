----------------------------- MODULE MCRegistry -----------------------------
(* Small instances of the registry for TLC. *)
EXTENDS Registry, TLC

Licensed ==
    [method |-> "HTTP", status |-> "AVAILABLE", automation |-> TRUE,
     access |-> "COMMERCIAL_OPTIONAL", auth |-> "NONE", credential |-> "none",
     citySafe |-> TRUE, provenance |-> "licence"]

(* Edits of one field of it each. *)
Opened == [Licensed EXCEPT !.access = "OPEN_AUTOMATED"]
ByHand == [Licensed EXCEPT !.automation = FALSE]

SomeProvenances == {"licence"}
SomeSources == {"osm", "imerg", "imd"}

Catalogue ==
    "osm" :> [registration |-> Licensed, fallback |-> NoSource]
    @@ "imerg" :> [registration |-> Licensed, fallback |-> "osm"]

Edits == {Opened, ByHand}
=============================================================================
