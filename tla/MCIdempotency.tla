---------------------------- MODULE MCIdempotency ----------------------------
(* Small instances of the idempotency store for TLC. *)
EXTENDS Idempotency, TLC

(* Threads but the main one, and the events, are alike. *)
Alike == Permutations(Threads \ Main) \cup Permutations(Events)
=============================================================================
