\* Violated: two overlapping replace requests, each of a valid record.
SPECIFICATION Spec
CONSTANTS
    Provenances <- SomeProvenances
    Containers = {c1}
    Clients = {q1, q2}
    Sources <- SomeSources
    NoSource = NoSource
    Idle = Idle
    Seed <- Catalogue
    Registrations <- Edits
    Attempts = 1
    MaxBoots = 1
    MaxOutages = 0
    MaxRequests = 2
INVARIANT
    StoredRecordsAreValid
CHECK_DEADLOCK FALSE
