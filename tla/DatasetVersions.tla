-------------------------- MODULE DatasetVersions --------------------------
(***************************************************************************)
(* What the raw vault promises its readers, without workers, steps, keys   *)
(* or faults: a catalogue of versions, at most one per manifest.  A        *)
(* version is reserved, then either published or failed, once; publication *)
(* shows in one step the bytes its manifest names, and from then on a      *)
(* published version reads the same forever.                               *)
(***************************************************************************)
EXTENDS Naturals, Sequences

CONSTANTS
    Manifests,          \* the [source, provenance, objects] records
    VersionIds          \* the identities a version may be given, naturals but 0

VARIABLE catalogue      \* version id -> what a reader can learn of it

NoVersion == 0

Add(f, k, x) == [i \in DOMAIN f \cup {k} |-> IF i = k THEN x ELSE f[i]]

Init == catalogue = <<>>

(* A version never known before is reserved for a manifest no version has;  *)
(* it may name as predecessor a published version of the same source.       *)
ReserveVersion(v, m, p) ==
    /\ v \in VersionIds \ DOMAIN catalogue
    /\ \A w \in DOMAIN catalogue : catalogue[w].manifest # m
    /\ \/ p = NoVersion
       \/ /\ p \in DOMAIN catalogue
          /\ p < v
          /\ catalogue[p].status = "COMPLETE"
          /\ catalogue[p].manifest.source = m.source
    /\ catalogue' = Add(catalogue, v, [manifest |-> m, previous |-> p,
                                       status |-> "PENDING", content |-> <<>>])

(* All the bytes of the manifest become readable at once. *)
Publish(v) ==
    /\ catalogue[v].status = "PENDING"
    /\ catalogue' = [catalogue EXCEPT ![v].status = "COMPLETE",
                                      ![v].content = catalogue[v].manifest.objects]

Fail(v) ==
    /\ catalogue[v].status = "PENDING"
    /\ catalogue' = [catalogue EXCEPT ![v].status = "FAILED"]

Next ==
    \/ \E v \in VersionIds, m \in Manifests, p \in DOMAIN catalogue \cup {NoVersion} :
           ReserveVersion(v, m, p)
    \/ \E v \in DOMAIN catalogue : Publish(v) \/ Fail(v)

Spec == Init /\ [][Next]_catalogue
=============================================================================
