\* Two containers that start while the database comes or goes, and two
\* clients whose requests overlap.
SPECIFICATION FairSpec
CONSTANTS
    Provenances <- SomeProvenances
    Containers = {c1, c2}
    Clients = {q1, q2}
    Sources <- SomeSources
    NoSource = NoSource
    Idle = Idle
    Seed <- Catalogue
    Registrations <- Edits
    Attempts = 2
    MaxBoots = 1
    MaxOutages = 1
    MaxRequests = 2
INVARIANTS
    ServingIsSeeded
PROPERTIES
    OnlyReplacesChange
    UndisturbedReplaceIsExact
    StartupEnds
CHECK_DEADLOCK FALSE
