\* Two workers, each started twice, on two sound maps, with a crash, while nobody
\* edits the registry.
SPECIFICATION FairSpec
CONSTANTS
    Workers = {w1, w2}
    Reviewers = {q1, q2}
    Maps = {"ward 7", "ward 8"}
    Scan <- SoundAndSkewed
    Authorities = {"MUNICIPAL_PRIMARY", "COMMUNITY"}
    Requests <- FewRequests
    NoMap = NoMap
    NoReviewer = NoReviewer
    NoAuthority = NoAuthority
    Idle = Idle
    MaxRuns = 2
    MaxReviews = 0
    MaxEdits = 0
    MaxCrashes = 1
INVARIANTS
    WorkersCanMove
PROPERTIES
    ImplementsProducts
    TakenMapsAreReconstructed
