\* Two jobs racing on one source; the only faults are ones that leave no reservation
\* behind: of the network, of the object store and of the refresh after a commit.
SPECIFICATION FairSpec
CONSTANTS
    Jobs = {j1, j2}
    Sources <- OneSource
    NoSource = NoSource
    Revisions = {"r1", "r2"}
    Resources <- Single
    ByteSize <- UnitSize
    MaxResources = 1
    MaxObjectBytes = 1
    MaxTotalBytes = 2
    ColumnMax = 2
    Registrations <- Always
    Provenances <- TwoLicences
    VersionIds <- Ids4
    Faults = {"network", "timeout", "vault", "refresh"}
    MaxFaults = 1
    MaxRuns = 2
    MaxEdits = 1
    IncludeAuthorized = FALSE
    IncludePbf = FALSE
    OverpassQuery = FALSE
INVARIANTS
    NoOrphanedReservation
PROPERTIES
    JobsEnd
    ReservationsResolve
