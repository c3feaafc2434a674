\* Two jobs, twice each, on one source of two resources whose provider may change
\* between two downloads; one fault of any kind but a failed refresh.
SPECIFICATION Spec
CONSTANTS
    Jobs = {j1, j2}
    Sources <- OneSource
    NoSource = NoSource
    Revisions = {"r1", "r2"}
    Resources <- Double
    ByteSize <- UnitSize
    MaxResources = 2
    MaxObjectBytes = 1
    MaxTotalBytes = 2
    ColumnMax = 2
    Registrations <- Always
    Provenances <- TwoLicences
    VersionIds <- Ids4
    Faults = {"network", "vault", "flush", "commit", "crash"}
    MaxFaults = 1
    MaxRuns = 2
    MaxEdits = 1
    IncludeAuthorized = FALSE
    IncludePbf = FALSE
    OverpassQuery = FALSE
SYMMETRY JobSymmetry
INVARIANTS
    PredecessorIsComplete
    ResultsAreComplete
    CompleteIsBacked
    NoImpossibleError
PROPERTIES
    ImplementsCatalogue
    Immutable
    WriteOnce
