\* Two sources, every kind of registration, edits of the registry while the job
\* runs, revisions at and over the limits and the range of the Integer column.
SPECIFICATION Spec
CONSTANTS
    Jobs = {j1}
    Sources <- TwoSources
    NoSource = NoSource
    Revisions = {"r1", "r2", "r3"}
    Resources <- Mixed
    ByteSize <- GrowingSize
    MaxResources = 2
    MaxObjectBytes = 2
    MaxTotalBytes = 3
    ColumnMax = 2
    Registrations <- AnyRegistration
    Provenances <- TwoLicences
    VersionIds <- Ids4
    Faults = {}
    MaxFaults = 0
    MaxRuns = 1
    MaxEdits = 2
    IncludeAuthorized = TRUE
    IncludePbf = FALSE
    OverpassQuery = FALSE
INVARIANTS
    VersionsAreGoverned
