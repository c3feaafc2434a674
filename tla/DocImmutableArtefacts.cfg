\* Violated: two workers and an edit between their starts.
SPECIFICATION Spec
CONSTANTS
    Workers = {w1, w2}
    Reviewers = {q1, q2}
    Maps = {"ward 7"}
    Scan <- OneSound
    Authorities = {"MUNICIPAL_PRIMARY", "COMMUNITY"}
    Requests <- FewRequests
    NoMap = NoMap
    NoReviewer = NoReviewer
    NoAuthority = NoAuthority
    Idle = Idle
    MaxRuns = 1
    MaxReviews = 0
    MaxEdits = 1
    MaxCrashes = 1
PROPERTIES
    ArtefactsAreImmutable
