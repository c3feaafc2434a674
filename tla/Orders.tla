------------------------------- MODULE Orders -------------------------------
(***************************************************************************)
(* What sorted() makes of the members of a set: by rank, so that nothing is *)
(* said of how it is done.                                                  *)
(***************************************************************************)
EXTENDS Integers, Sequences, FiniteSets

Lexicographic(s, t) ==
    \E i \in DOMAIN s : s[i] < t[i] /\ \A j \in 1..(i - 1) : s[j] = t[j]

(* The members of S by their keys, which differ: the k-th has k - 1 before it. *)
Sorted(S, key) ==
    [k \in 1..Cardinality(S) |->
        CHOOSE a \in S : Cardinality({b \in S : Lexicographic(key[b], key[a])}) = k - 1]

(* The places that are kept of a sequence, from left to right. *)
InPlace(places) == Sorted(places, [i \in places |-> <<i>>])
=============================================================================
