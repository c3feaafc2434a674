-------------------------------- MODULE Jobs --------------------------------
(***************************************************************************)
(* The life of a job record: the rules a record must pass                   *)
(* (JobRecord.validate_lifecycle in floodguard/contracts/jobs.py) and the   *)
(* function that derives its next record from it (transition_job).  What    *)
(* no transition looks at (job_type, retry_count, ...) is left out.         *)
(***************************************************************************)
EXTENDS Naturals

NoTime == 0     \* None, for a timestamp
NoCode == ""    \* None or the empty string
Whole == 100    \* progress 1.0

States == {"QUEUED", "RUNNING", "SUCCEEDED", "FAILED", "CANCELLED"}
Terminal == {"SUCCEEDED", "FAILED", "CANCELLED"}

JobRecord ==
    [state: States, startedAt: Nat, completedAt: Nat, heartbeat: Nat,
     progress: 0..Whole, errorCode: STRING]

Valid(r) ==
    /\ r.state = "RUNNING" => r.startedAt # NoTime
    /\ r.state \in Terminal => r.completedAt # NoTime
    /\ r.state = "SUCCEEDED" => r.progress = Whole
    /\ r.state = "FAILED" => r.errorCode # NoCode

Allowed(state) ==
    CASE state = "QUEUED" -> {"RUNNING", "CANCELLED"}
      [] state = "RUNNING" -> Terminal
      [] OTHER -> {}

(* transition_job does not raise. *)
Accepts(r, state, code) ==
    /\ state \in Allowed(r.state)
    /\ state = "FAILED" => code # NoCode

Transition(r, state, now, code) ==
    [r EXCEPT !.state = state,
              !.startedAt = IF state = "RUNNING" THEN now ELSE @,
              !.heartbeat = IF state = "RUNNING" THEN now ELSE @,
              !.completedAt = IF state \in Terminal THEN now ELSE @,
              !.progress = IF state = "SUCCEEDED" THEN Whole ELSE @,
              !.errorCode = IF state = "FAILED" THEN code ELSE @]
=============================================================================
