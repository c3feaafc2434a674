-------------------------- MODULE MCReconstruction --------------------------
(* Small instances of the reconstruction for TLC. *)
EXTENDS Reconstruction, TLC

Sound ==
    [fits |-> TRUE, intact |-> TRUE, native |-> TRUE, populated |-> TRUE,
     rmse |-> 1, maxError |-> 2, tolerance |-> 2]

(* Within the tolerance on average, not at every control point. *)
Skewed == [Sound EXCEPT !.maxError = 3]
Inaccurate == [Sound EXCEPT !.rmse = 3, !.maxError = 3]
Scanned == [Sound EXCEPT !.native = FALSE]

OneSound == [m \in Maps |-> Sound]
SoundAndSkewed == [m \in Maps |-> IF m = "ward 7" THEN Sound ELSE Skewed]
AnyQuality ==
    [m \in Maps |-> CASE m = "ward 7" -> Sound [] m = "ward 8" -> Skewed
                      [] m = "ward 9" -> Inaccurate [] OTHER -> Scanned]

(* An approval, approvals that lack one thing each, and a rejection.         *)
FewRequests ==
    {[decision |-> "APPROVE", type |-> "HUMAN", checked |-> TRUE],
     [decision |-> "APPROVE", type |-> "HUMAN", checked |-> FALSE],
     [decision |-> "APPROVE", type |-> "AUTOMATED", checked |-> TRUE],
     [decision |-> "REJECT", type |-> "AUTOMATED", checked |-> FALSE]}

(* No property of a run of reviews tells the reviewers apart. *)
ReviewerSymmetry == Permutations(Reviewers)
=============================================================================
