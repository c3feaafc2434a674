\* Two workers on two sources that publish files of every kind, with a crash
\* and an edit of the registry.
SPECIFICATION Spec
CONSTANTS
    Workers = {w1, w2}
    Sources <- TwoSources
    Files <- SomeFiles
    Core <- CoreCategories
    Optional <- OptionalCategories
    Other <- OtherCategories
    Registered <- AsSeeded
    NoSource = NoSource
    Tolerance = 1
    MaxRuns = 1
    MaxEdits = 1
    MaxCrashes = 1
SYMMETRY WorkerSymmetry
INVARIANTS
    SuccessIsComplete
    KeysDetermineBytes
    CreatedOnce
PROPERTIES
    ImplementsProducts
    RunsAreFinite
