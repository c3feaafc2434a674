\* Violated: a flush that fails leaves its version PENDING.
SPECIFICATION Spec
CONSTANTS
    Jobs = {j1}
    Sources <- OneSource
    NoSource = NoSource
    Revisions = {"r1", "r2"}
    Resources <- Single
    ByteSize <- UnitSize
    MaxResources = 1
    MaxObjectBytes = 1
    MaxTotalBytes = 2
    ColumnMax = 2
    Registrations <- Always
    Provenances <- TwoLicences
    VersionIds <- Ids4
    Faults = {"flush"}
    MaxFaults = 1
    MaxRuns = 2
    MaxEdits = 1
    IncludeAuthorized = FALSE
    IncludePbf = FALSE
    OverpassQuery = FALSE
INVARIANTS
    NoOrphanedReservation
