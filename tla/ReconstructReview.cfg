\* One worker over maps of every quality, started again after a crash and an edit
\* of the registry, and two reviewers whose requests overlap.
SPECIFICATION Spec
CONSTANTS
    Workers = {w1}
    Reviewers = {q1, q2}
    Maps = {"ward 7", "ward 8", "ward 9"}
    Scan <- AnyQuality
    Authorities = {"MUNICIPAL_PRIMARY", "COMMUNITY"}
    Requests <- FewRequests
    NoMap = NoMap
    NoReviewer = NoReviewer
    NoAuthority = NoAuthority
    Idle = Idle
    MaxRuns = 2
    MaxReviews = 3
    MaxEdits = 1
    MaxCrashes = 1
SYMMETRY ReviewerSymmetry
INVARIANTS
    GateIsEarned
    ReviewedIsDecided
PROPERTIES
    InformedReviewDecides
