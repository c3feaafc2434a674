# FloodGuard-AI: a TLA+ verification project

FloodGuard-AI ingests governed public data about a city's drainage, keeps the raw bytes in a
write-once vault, normalizes them into a metric spatial store and reconstructs legacy drainage maps
that a human must approve. This directory models those parts in TLA+, checks the models with TLC and
proves, with TLAPS, the central properties of every part that keeps state (the harvester, the spatial
normalizer, the reconstruction, the registry, the idempotency store, the reader of a drawing's
operators) and what the computations give for every input: resampling, the fit of control points, the
tracing of reaches, the planning of downloads. Paths below are relative to the repository.

## 1. The system

Several processes share one PostgreSQL database and two MinIO buckets. No process sends a message
to another: they interact through rows, unique constraints and object keys only.

```
 operators --HTTP--> API containers ----.                      .--> bucket "raw" (write once)
 reviewers --HTTP-->  (wait, seed,      |                      |
                       serve)           v                      |
 docker compose ---> harvester job -> registry_sources         |
                     (bootstrap) ---> dataset_versions, raw objects
                ---> spatial worker -> spatial_layers ---------+--> bucket "spatial"
                ---> reconstruction worker -> drainage_reconstructions, reviews
```

| component | source | state | operations | hard behaviours | what makes it correct |
|---|---|---|---|---|---|
| Registry | `floodguard/registry/`, `apps/api/routers/registry.py` | `registry_sources` | seed at start; create, replace, read | sessions of requests and seeds overlap; the fallback is checked apart from the write | a serving container has the whole catalogue; a start never undoes an edit; a replace that nobody disturbs stores what was sent |
| Database wait | `floodguard/common/database_wait.py` | attempt counter | poll, give up | the database flaps or never comes up | every start ends |
| Acquisition | `floodguard/harvester/acquisition.py`, `floodguard/registry/seed.py` | none | plan the requests of a source, name the files | catalogues that reorder, omit or misname what they list | the same listing gives the same files, under names the normalizer takes up |
| Harvester | `floodguard/harvester/` | `dataset_versions`, `raw_objects`, bucket `raw` | plan, download, deduplicate, reserve, store, complete, fail | racing jobs, killed jobs, faults of network, object store and database at every step, stale registry snapshots | a COMPLETE version can be read back as hashed and never changes; one version per manifest; governance is obeyed |
| Spatial normalization | `floodguard/spatial/service.py`, `repository.py`, `bootstrap.py`, `object_store.py` | `spatial_layers`, bucket `spatial` | choose versions, normalize, reuse, report readiness | racing workers on deterministic keys, crashes between objects and row, versions published meanwhile | each layer appears once, complete and for good; success means everything that was taken is stored |
| Reconstruction | `floodguard/reconstruction/` | `drainage_reconstructions`, `reconstruction_reviews`, bucket `spatial` | reconstruct, review, report readiness | as above, and reviews whose sessions overlap | the completion gate opens only for a map that earned it |
| HTTP API | `apps/api/` | none of its own | routes to the services | see the services | |
| Contracts | `floodguard/contracts/` | idempotency sets under a lock; job records | begin, complete, abandon; transitions | concurrent deliveries; handlers that fail, exit or are interrupted | no event handled twice or silently lost; a job is done once |
| Resampling | `spatial/resampling.py` | none | pure functions on arrays | touching, nested and shifted cells; ties | rain falls where it fell and none is lost unseen |
| Vector algorithms | `spatial/vector.py` | none | parse KML or GeoJSON, project, project back | nested and broken geometries | a layer holds its file's positions, all and in order |
| PDF extraction | `reconstruction/pdf_native.py` | path and graphics state while a page is read | drawing operators; dashes to reaches, rings to manholes, labels to both | operators, colours and `q`/`Q` interleave; dashes overlap and come in any order | what is read is what is on the page; a reach is a chain of dashes |
| Georeference | `reconstruction/georeference.py` | none | fit control points, residuals | controls that lie on a line | a control that disagrees shows |

The hazards of this code, each at its line and with the properties that cover it, are listed under
`hazards` in `PROJECT.json`.

## 2. The modules

| module | what it is |
|---|---|
| `Registration` | a registry record (`SourceRead`) and the rules its validator imposes (`ValidRegistration`, `registry/contracts.py`) |
| `Governance` | the gates of a harvest: method selection, access and automation rules, credentials (`harvester/service.py`, `acquisition.py`) |
| `DatasetVersions` | abstract: an atomic catalogue of versions, at most one per manifest, published in one step |
| `Harvester` | the bootstrap jobs, the catalogue rows and the raw vault; implements `DatasetVersions` |
| `HarvesterProofs` | theorems about `Harvester` for every value of its constants |
| `CatalogueProofs` | more of them: governance, predecessors, results, immutability, and that it implements `DatasetVersions` |
| `Products` | abstract: a catalogue of derived products that grows by one complete product at a time and never changes |
| `SpatialStore` | the spatial bucket: look up, put, compare hashes (`spatial/object_store.py`) |
| `Normalization` | the spatial workers; implements `Products` |
| `NormalizationProofs` | theorems about `Normalization`, the refinement among them |
| `Reconstruction` | the reconstruction workers and the review requests; implements `Products` |
| `ReconstructionProofs` | theorems about `Reconstruction`, the refinement among them |
| `Registry` | the registry table, the start of the containers and overlapping requests |
| `RegistryProofs` | theorems about `Registry` |
| `Idempotency` | threads that deliver events through one idempotency store (`contracts/events.py`) |
| `Jobs` | the rules of a job record and its transitions as operators (`contracts/jobs.py`) |
| `ContractProofs` | theorems about `Idempotency` and `Jobs` |
| `Calls` | a computation without state: one call and its answer |
| `Orders` | what `sorted()` and a filter make of their input, by rank |
| `Planning` | what an access method asks for and what its files are called (`acquisition.py`) |
| `SeedCatalogue` | the curated sources and what the bootstrap job plans for them (`seed.py`, `harvester/bootstrap.py`) |
| `Vectors` | what a vector file becomes (`spatial/vector.py`) |
| `Resampling` | the three resampling policies in exact arithmetic (`spatial/resampling.py`) |
| `Tracing` | reaches, manholes and labels of a page and what belongs to what (`pdf_native.py`, `reconstruction/service.py`) |
| `Georeference` | the least squares fit of the control points, solved exactly (`georeference.py`) |
| `Drawing` | the operators of a content stream, and beside them the page by the rules of PDF (`pdf_native.py`) |
| `ReadingProofs` | that what is read of a page and of a vector file is what is in it, for any operators and any trees |
| `AlgorithmsProofs` | theorems about `Resampling`, `Georeference`, `Tracing`, `Planning` and `SeedCatalogue` for any input |
| `Algorithms` | all computations side by side, one call or one page per behaviour |
| `MC*` | small values of the constants for TLC |

The composition follows the shared state. `Harvester` and `Registry` EXTEND `Registration`, so the
records the harvester reads are those the registry accepts; `Normalization` and `Reconstruction`
EXTEND `SpatialStore`, the bucket they share. A neighbour enters a module as an environment
action: `ReplaceSource`, `EditCategory` and `EditAuthority` are edits of the registry, `Publish`
is the harvester completing a version and `Withdraw` its handler marking one FAILED after all. `SeedCatalogue` extends `Planning` and `Registration`: the seeds
are planned by the operators that plan any source. `Algorithms` extends every module of calls.

### How state and actions correspond to the code

* **Steps.** A process is a label `pc` and its local variables; an action is the code between two
  calls that other processes can observe: one commit, one query, one object-store call. Code
  between them that only touches locals is folded into the next or the previous action. The row
  that a session loaded stays in a local variable (`work`, `desk[q].seen`, `loaded`) until it
  commits, as SQLAlchemy's identity map keeps it with `expire_on_commit=False`.
* **Harvester.** `NextSource` .. `Plan` are the loop of `bootstrap.main` and the gates;
  `Download`, `DownloadTooLarge`, `NetworkFails`, `TimesOut` one resource; `FindComplete/Conflict/Nothing` the
  two `find_by_manifest` lookups; `ReadLatest`, `Stamp`, `Reserve`, `ReserveCollides` the
  reservation with its unique constraint; `Place` .. `PutManifest` the vault; `Complete`,
  `Refresh`, `MarkFailed*` the end of a version and the exception handler. `Stamp` is
  `uuid4()`/`utc_now()`: identities are naturals in the order they are drawn, which is also the
  order of `acquired_at`. A fault is an action of its own, enabled while the budget `MaxFaults`
  lasts and its kind is in `Faults`: `network` (AcquisitionError), `timeout` (a listing or a body that
  stops coming raises TimeoutError, which nothing catches), `vault` (S3Error), `flush` and `commit` (database,
  before and at the commit of COMPLETE), `refresh` (after it) and `crash` (the process is killed).
  A manifest stands for its SHA-256: two manifests have one digest iff they are equal.
* **Registry.** A container goes `down, waiting, seeding, seeded, serving`, the command chain of
  the Dockerfile. A request is accepted (`OpenCreate`, `OpenReplace`: validation, lookups, load)
  and later committed (`CommitCreate`, `CommitReplace`). `Merged` is what the flush does: only the
  columns whose new value differs from the loaded one are written.
* **Normalization, Reconstruction.** `Launch` lists the registry once. Then for each file or map:
  the fingerprint lookup (`Reuse`), the computation (`Normalize`, `Prepare`; refusals are actions
  of their own), for each artefact `Stat`, then `PutObject`/`PutArtefact` or `CompareSame`/
  `CompareDiffers`, and the row (`AddLayer`, `AddRow`), in which the unique constraint turns the
  loser of a race into a reuse. Geometry is a constant: `Files` gives each file its kind and
  round-trip error, `Scan` each map what extraction and georeferencing find. Reviews are sessions:
  `OpenReview` loads the row and draws the time, `CommitReview` writes the review and the changed
  columns.
* **Idempotency.** What `begin` and `abandon` do under the lock is one step; `complete` is two
  (`Discard`, `AddCompleted`), because an interrupt of the main thread may fall between them.
  `effects`, `raised`, `exited` and `interrupted` are history: what senders and handlers have seen.
* **Computations** (`Planning`, `SeedCatalogue`, `Vectors`, `Resampling`, `Tracing`, `Georeference`). A
  state is a call and its answer, `None` if the code raises. The properties compare the answer with a
  definition that does not use the code's operators. Numbers are exact: integers on a grid, half points
  on a page, and for the fit numerators over the determinants of Cramer's rule. Strings are sequences of
  tokens, as many kinds as the code tells apart. A KML or GeoJSON file is the tree its reader returns, of
  up to `Depth` levels, with tags and types in `Names`; a position is the place it is and the CRS it is in.
* **Drawing.** One action per operator group: `Push` and `Pop` (`q`, `Q`), `SetColour` (`RG`, `G`, `K`),
  `SetWidth` (`w`), `SetUnread` (`CS`, `SC`, `SCN`, `gs`, for which the code has no branch), `MoveTo`, `LineTo`
  (curves too), `Rectangle`, `ClosePath`, `Paint`, `EndPath`. `state`, `stack`, `path`, `start`, `closed` and
  `paths` are the code's variables; `page` is what the same operators put on paper. An operator that paints
  strokes the path or only fills it (`f`, `f*`): a fill puts no stroke on the page. `page` has two stacks of
  pens, `pens` as every operator sets them and `told` as those do that the code reads, so that the page and
  the reading can differ; `strays` and `loops` are the strokes by which they do.

## 3. What the runs check

All runs use the specifications unchanged; a cfg only gives constants their values.

| run | instance | shows |
|---|---|---|
| `HarvestRace` | 2 jobs x 2 starts, 1 source of 2 resources, 2 revisions, 1 fault of any kind but `refresh`, 1 edit | predecessors are earlier COMPLETE versions; results name COMPLETE versions, which read back as hashed; the bucket is write once; COMPLETE and FAILED rows never change; no error for impossible states is raised; readers cannot tell the harvester from `DatasetVersions` |
| `HarvestGovernance` | 2 sources, with as many resources as the limit and one more, eight kinds of registration, edits while the job runs, sizes at and over each limit | no version of a source its registration, credentials, the limits or the Integer column forbid |
| `HarvestLiveness` | 2 jobs x 2 starts, a fault of the network, a timeout, of the object store or a refresh, weak fairness | every PENDING row still has its job; every job ends; every reservation is resolved |
| `Normalize` | 2 workers, 2 sources with 1 and 3 versions, files of all four kinds, a crash, an edit of the registry or a version withdrawn | success means complete; a key determines its bytes; a layer is created once; every run is finite; refinement of `Products` |
| `ReconstructRace` | 2 workers x 2 starts, 2 maps, a crash, no edit, weak fairness | refinement of `Products`; a worker never waits; a sound map that is taken gets its row |
| `ReconstructReview` | 1 worker x 2 starts, maps of three qualities, 2 reviewers, 3 reviews, a crash and an edit | the gate is earned; a reviewed row names a committed review; an informed review decides |
| `Registry` | 2 containers, 2 clients, 3 sources, 2 of them seeds, a database that turns once, weak fairness | serving means seeded; only replaces change a record; an undisturbed replace is exact; every start ends |
| `Idempotency` | 3 threads, 2 events, 5 deliveries, 2 exits or interrupts | an event is in one thread's hands; handled once; a duplicate is accounted for; only a BaseException leaves one in progress |
| `Algorithms` | every call on the inputs named under *Bounds*, and every page of up to 4 path-building steps | reordered listings plan the same; each core category has a seed that is requested and taken up; layers keep their positions; rain stays where it fell and what is lost fell in the slack of the extents; categories split at midpoints; elevation follows slopes; reaches are the chains of dashes; associations are nearest; pages are read as drawn, but for fills, pens set by operators that are not read and subpaths closed again; a displaced control shows |
| `DocExceptionsMarkFailed`, `DocImmutableArtefacts`, `DocRegistryRules` | minimal | violations: what the documentation promises and the code does not do, section 6 |

Every property has a mutant, an alternative definition of a mapped operator beside the original,
that TLC catches in the property's own run.

### Bounds, and why they are enough

* *Two of each racing actor.* Every conflict in the code is between two parties: a unique
  constraint, a key found present, a row loaded before another's commit. A third party only
  repeats a role. Starting each process twice lets a later run meet what an earlier one left
  behind, a killed one included. `Idempotency` has three threads because the main one may be
  interrupted and two others then still race.
* *Two revisions and one edit* in `HarvestRace` let a provider change once; that bytes served before come
  back is then the work of a job that was slow: it has the old revision downloaded when a rival completes the
  new one. A second edit goes beyond what TLC finishes; the theorems hold for any number. `HarvestGovernance`
  has a third revision so that sizes lie below, at and over each limit.
* *Two resources per source* in `HarvestRace` give a half-stored version and a mixture of two
  revisions. Two artefacts per layer and three per map are the numbers of the code.
* *Ids* (`VersionIds`) are enough for every reservation the bounds allow: `Stamp` is never disabled
  for want of one.
* *Maps of `ReconstructReview`*: within the tolerance, within it on average only, and outside. The
  first may pass every gate, the second is accepted and never qualifies, the third is refused.
* *Registry edits* differ from the seed in one governance field each, since an overlap of two
  requests mixes at most two records.
* `MaxRuns`, `MaxEdits`, `MaxFaults`, `MaxCrashes`, `MaxReviews`, `MaxBoots`, `MaxOutages` and
  `MaxRequests` bound how often the environment acts; nothing in the code depends on them. They
  are limits of the check and not of the program.
* *Listings* have up to three of seven resources in every order (named, nameless, with a dot, with
  nothing safe in the name, by another scheme, not an object): a name collision or a dropped entry needs two,
  an entry between them three.
* *Files* nest two deep, with up to three children: the third level repeats the second. Each kind of
  element occurs sound and broken. The theorem `LayersKeepTheirPositions` holds for any `Depth`, `Names` and `Files`.
* *Maps* have up to three of eleven dashes in every order: a chain of three is the shortest in which the
  ends do not meet. *Calibrations* have three to five controls, by maps that turn, stretch or flatten, one
  control displaced or none. Four is the least that `ReconstructionCalibration` lets a calibration have, and the
  first number with a redundant control; one of three is refused before the fit (`ValidCalibration`).
* *Pages* of up to four steps that build paths (an `m`, an `l` or a curve is one, an `re` two) on three places,
  with two colours, one width and one open `q`: enough for a path that goes on after it was closed, a second
  path in another colour, and a colour set inside `q` and restored after it. Operators that set the state, close
  or paint are not counted. A width is set and restored by the same steps as a colour. The theorem `PagesAreRead` holds for any bound.
* *Grids*: cells of one destination row or column meet a source cell by touching, nesting, overlapping
  or not at all, and all of these occur with two cells a side; `Slack` is the length that np.allclose's
  relative tolerance leaves at large coordinates, in units of the grid.
* *Symmetry* is declared for jobs in `HarvestRace`, workers in `Normalize`, reviewers in
  `ReconstructReview`, and for events and all threads but the main one in `Idempotency`, where
  no property is a liveness property and no definition distinguishes or CHOOSEs among them.
* *Deadlock* is checked. A specification has a `Rest` step for the state in which every process has
  run as often as it will. Only the registry's runs say `CHECK_DEADLOCK FALSE`: containers may all
  be down and started as often as they will be.

### Fairness

`FairSpec` has weak fairness of the steps of each process that is not killed, separately per job,
worker or container: the operating system keeps running a process, and inside it the code is
sequential and never blocks on another process (statements wait for row locks only as long as one
commit lasts). There is no fairness of launches, edits, requests, faults or crashes: nothing obliges
an operator to start a job again, which is why `ReservationsResolve` is checked only with faults the
code survives with no reservation open (a failed refresh is one: its handler runs; a timeout comes before any), and why `TakenMapsAreReconstructed` excepts runs in which a worker was killed.
`StartupEnds` needs no assumption about the database: the wait gives up by itself.

Whether the processes end is stated twice. `JobsAreFinite`, `RunsAreFinite` and `StartupIsFinite` are
action properties: no step of a process, and no step of anyone else, sets it back. They need no fairness
and are proved for the harvester, both kinds of workers and the containers. That a process gets to its end
(`JobsEnd`, `StartupEnds`) follows from them, fairness and the fact that a process never waits; where a run
checks the end, it does not check the variant too.

## 4. What is proved

The harvester, both workers, the registry and the idempotency store each have a type invariant `TypeOK`, proved
and checked by no run: every other theorem about them rests on it.

### The harvester

`HarvesterProofs.tla` holds for any number of jobs, sources, revisions and versions, any limits,
registrations, faults and bounds, under `OptionsAssumption` (`Governance`) and `HarvesterAssumption`
(`Harvester`): the types of the constants and that `NoSource` is not a source. TLC evaluates both in
every harvest run.

| theorem | property |
|---|---|
| `TypeCorrect` | `TypeOK` |
| `CompleteVersionsAreBacked` | `CompleteIsBacked`: a COMPLETE version reads back as hashed |
| `VaultMatches` | `VaultMatchesManifests`: every object belongs to the version whose prefix it is under |
| `KeysStayFresh` | `KeysAreFresh`: look-up-then-write of the vault never meets an existing key |
| `ReservationsAreExclusive` | `ReservationIsExclusive`: from reservation to completion a row is PENDING, its job's and nobody else's |
| `BucketIsWriteOnce` | `WriteOnce`: no step overwrites or deletes an object |

The argument has two layers. `TypeInv = TypeOK /\ Shape` is inductive by itself: `Shape` relates a
job's label to what its locals hold (from `find` on everything is downloaded, from `place` on it has
a version, while storing `stored` is within range). None of the safety properties is inductive:
that a key is fresh depends on where *other* jobs are. `SafeInv` adds what carries it:

* `IdsInv`: identities are drawn once, so two jobs past `Stamp` have different ones and none is used
  by a row before its reservation;
* `RowsInv`: a job that holds a reservation has a PENDING row for its own manifest;
* `VaultInv`, `DocumentsInv`: under a version's prefix there is exactly what its job has stored so
  far, and nothing before `place`;
* `ObjectRowsInv`: no object row belongs to a PENDING version, so those a commit adds are all there are;
* `CompleteIsBacked` itself.

`SafeStep` follows action by action (`SafeStamp`, `SafeReserve`, `SafeStoreObject`,
`SafeStoreManifest`, `SafeCommit`, `SafeMarkFailed`; `SafeMove`, `SafeLeave`, `SafeExit` for the
steps that change only locals), and `Invariance` combines it with `TypeStep`. A crash, and any fault,
is a `SafeExit` or a `SafeMove`: they never touch the store, which is why the theorems hold for any
`Faults`, a failed refresh included.

### Idempotency and jobs

`ContractProofs.tla` holds for any threads, events and bounds, under `IdempotencyAssumption`:
`StoreTypeCorrect` (`TypeOK`), `OneAtATime` (`OneAtWork`), `AtMostOnce` (`HandledOnce`),
`NothingIsLost` (`DuplicatesAreAccounted`) and `FailuresCanBeRetried` (`InProgressIsHeld`). `IInv` adds
to these what makes them inductive: `HeldInv`, that a thread at work has an event, which is in progress
until it is discarded, and that only a thread between discard and add holds the lock; and `EffectsInv`,
which says for each event where a handler that has returned can still be: completed, about to be, or
left by an exit. There is one step lemma per action.

It also proves of the operators of `Jobs` that the validation at the end of `transition_job` never
rejects what a transition made of a valid record (`TransitionsAreValid`), and that a finished job has no
successor (`DoneOnce`).

### The catalogue of the harvester

`CatalogueProofs.tla` goes on from there, under the same assumptions. `VersionsObeyGovernance`
(`VersionsAreGoverned`) holds with any faults: `GovernInv` carries the permission, the number and the sizes of what
is downloaded from the gates to the row. The next four start with `RefreshWorks =>`, that is
`"refresh" \notin Faults`, because a refresh that fails marks FAILED what was just completed (section 6):

| theorem | property |
|---|---|
| `PredecessorsAreComplete` | `PredecessorIsComplete` |
| `ResultsStayComplete` | `ResultsAreComplete` |
| `VersionsAreImmutable` | `Immutable` |
| `HarvesterImplementsCatalogue` | `ImplementsCatalogue`, the refinement of `DatasetVersions` |

`RowMoves` says that a step of a job leaves the rows alone, reserves, completes or fails the job's own row.
`StatusInv` (a job about to mark a row FAILED has it PENDING; only COMPLETE versions have object rows) makes
each of these harmless to all other rows (`Settled`). `ReadInv` keeps the predecessor a job has read COMPLETE
and older than the identity it draws. For the refinement, `CatalogueShows` proves that the way of a reader
through object rows and vault ends at the manifest's bytes or nowhere; then the three moves are
`ReserveVersion`, `Publish` and `Fail`, and every other step a stutter.

Two more hold with any faults. `ImpossibleErrorsNeverHappen` (`NoImpossibleError`) justifies what `Harvester`
leaves out: the errors the code raises for an object that is there already, for a collision with no rival, for
a version to complete that is gone or not PENDING. `CollisionInv` is what it needs: the manifest a reservation
collided with stays in the table. `HarvestJobsAreFinite` (`JobsAreFinite`) gives every job a variant, the sources
on its list and `StepsLeft` for the one it is at: a collision leads to the second lookup and to an end, a failure
to `fail_version` and to an end, and nothing is tried again.

`ReservationsAreOwned` proves `NoOrphanedReservation` under `FaultsAreHandled`: the only faults are of the
network and timeouts, which come before a reservation, and of the object store and the refresh, which the code
handles; the limit on totals fits the Integer column; and every city is a safe segment. Each of these is needed: `DocExceptionsMarkFailed` shows what a failed flush leaves, a kill leaves the
same, and an overflow or an unsafe city too. `LettingGo` says that a job lets go of a reservation only when it
is resolved.

### Normalization

`NormalizationProofs.tla`, under `NormalizationAssumption` and for any workers, files, crashes and edits:
`TypeCorrect`, `KeysNameTheirBytes` (`KeysDetermineBytes`), `LayersAreCreatedOnce` (`CreatedOnce`),
`SuccessMeansComplete` (`SuccessIsComplete`), `NormalizationImplementsProducts` (`ImplementsProducts`) and
`NormalizationRunsAreFinite` (`RunsAreFinite`). They hold for versions withdrawn at any time too: the status of a
version counts when the worker lists it, and what it has taken it normalizes.
`StoreInv` says that an object is the one its key names and that a row has both of its objects; `WritingInv`,
that what a worker takes for stored is there; `ProgressInv`, that every vector file of a version up to the
worker's place in it has its row, which is what makes the success at the end true. `CreatedOnce` is inductive
beside them. By `StoreInv` a reader gets exactly the payloads, so the refinement needs only that rows grow by
one and never change. `StepsLeft` of a worker counts the files after the one it is at and the steps at that file;
the loser of a race for a row (`Reuse`) goes on to the next file, so that a race costs steps and wins none back.

### Reconstruction

`ReconstructionProofs.tla`: `TypeCorrect`, `ReviewsDecideRows` (`ReviewedIsDecided`) and
`InformedReviewsDecide` (`InformedReviewDecides`) are theorems of `Spec`. `GatesAreEarned` (`GateIsEarned`),
`ArtefactsStay` (`ArtefactsAreImmutable`) and `ReconstructionImplementsProducts` (`ImplementsProducts`)
are theorems of `Spec /\ []Unedited`, behaviours in which nobody edits the authority of a source: without it
`audit.json` may be overwritten by other bytes (section 6), and the run `DocImmutableArtefacts` shows it.
`StoreInv` has three parts: `WritingInv` and `RowsInv` say that what a worker or a row counts as stored is
present, whatever it says; `UneditedInv`, behind `edits = 0 =>`, that it says what its key names. `DeskInv` is
the part about reviews: a request holds an earlier state of its row, and what was decided then is decided now.

`ReconstructionRunsAreFinite` (`RunsAreFinite`) holds with edits and without. `TakenMapsGetReconstructed` is a
liveness theorem, `FairSpec /\ []Unedited /\ []WorkersCanMove => TakenMapsAreReconstructed`. A worker that took a
sound map stands at one of nine distances from its row (`At`); no step increases the distance, and each step of
its own decreases it or leaves the map reconstructed (`StageStep`), so weak fairness takes it from each distance
to the next (`StagePasses`) and the nine passages are chained. `WorkersCanMove` says with ENABLED that a worker
always has a next step. The provers cannot expand ENABLED, so it is a premise, and an invariant of the run
`ReconstructRace`.

### Registry

`RegistryProofs.tla`: `TypeCorrect`, `ServingMeansSeeded` (`ServingIsSeeded`), `SourcesStay`
(`OnlyReplacesChange`), `UndisturbedReplacesAreExact` (`UndisturbedReplaceIsExact`) and `StartsAreFinite` (`StartupIsFinite`), for any
containers, clients and seeds. `SessionsInv` is what they need: what a session holds is an earlier state of the table, of
which nothing is ever lost.

### The drawing

`ReadingProofs.tla` proves `PagesAreRead` (`PagesAreReadAsDrawn`) for any bounds on the length and the depth
of a page. What is read is on the page, with three exceptions that the property names: the outline of a fill, a
stroke whose pen was set by `CS`, `SC`, `SCN` or `gs` (`strays`), and the stroke that closes again a subpath that went on
(`loops`). The other way, every last subpath that is stroked in a pen the code was told of is read whole. `Beside`
relates the two sides: the path under construction and the open subpath of the page have the same strokes,
start, end and closure; `PensAgree`, that the state and its stack are the pens that the page was told of. Lemmas about the
strokes of a concatenation stand for the induction over points, and there is one lemma per operator.

### Vector files

`ReadingProofs.tla` also proves `LayersKeepTheirPositions` (`LayersKeepThePositions`): for any files of any depth
and width, any tags and any errors of the projection, a layer that is made holds the positions of its file in
order, and so does the QA copy in the same shape. It rests on `VectorsAssumption`, the types of the inputs, which
TLC evaluates in the run `Algorithms`. A file is a tree, so this is the induction over data that the provers cannot
take from a library:

* *Functions of a tree.* `ParseKmlGeometry`, `Transform`, `GeometryPairs` and `WrittenIn` refer to themselves. They
  exist because each can be built level by level (`BuildsExists`, `BuildsAgree`), which gives the equation that each
  satisfies (`ParseIs`, `TransformIs`, `GeometryPairsIs`, `WrittenInIs`).
* *Induction.* What holds of a tree if it holds of the trees in it holds of all (`AllTrees`): of the levels at
  which it fails there would be a smallest. `AllSequences` is the same for sequences.
* *Chains.* Flattening and filtering are chains: each element is replaced by a sequence. `ChainJoin` (a chain of
  chains is one chain), `ChainConcat` and `ChainSame` are the algebra that carries the order of positions.
* *The two sides.* What is parsed of an element has as its positions what `WrittenIn` keeps of it (`ParsedIs`, from
  `PolygonIs`, `SimpleIs` and `CombinedIs`); a projection moves every position and none else
  (`PairsAreProjected`, `ProjectionIs`), what was projected can be projected again (`ProjectsAgain`), and the
  error is the largest drift (`ErrorFits`, from `WorstFits`). `LayerIsKept` puts them together.

### The computations

`AlgorithmsProofs.tla` states what the computations give for every input. Its theorems and those of
`ReadingProofs` are about `Algorithms!Spec`, the specification that the run checks: a step makes one call at most
and a property speaks of one of them (`OneCall`).

| theorem | property | for any |
|---|---|---|
| `RainStaysOnTheGround` | `RainFallsWhereItFell` | grids, rates, tolerance and slack |
| `MidpointsSplitCategories` | `CategoriesSplitAtMidpoints` | grids and categories |
| `SlopesAreFollowed` | `ElevationFollowsSlopes` | grids and heights |
| `DisplacementsShow` | `DisplacedControlsShow` | number of controls, map and displacement |
| `ReachesAreTheChains` | `ReachesAreChains` | axial red strokes on whole half points |
| `NeighboursAreNearest` | `AssociationsAreNearest` | traced page |
| `OrderChangesNothing` | `ReorderedListingsPlanTheSame` | endpoint and listings of any length |
| `CategoriesAreServed` | `CoreCategoriesAreServed` | options, environment and listing |

The assumptions are `ResamplingAssumption`, `GeoreferenceAssumption`, `TracingAssumption` and
`PlanningAssumption`, the types of the inputs with what the code validates before, and `CatalogueAssumption`:
the endpoints of seeded CKAN sources name a package, and a vector format is in lower case one of
`_VECTOR_SUFFIXES`. TLC evaluates them in the run `Algorithms`. `CategoriesAreServed` has one hypothesis
that TLC cannot evaluate, `NoneIsNoSequence`: `None`, which stands for an error or a missing field, is not
itself a sequence of anything.

* *Induction.* A theorem that takes a predicate as a parameter cannot be used here, so an induction is
  one on a set: of the finite sets (`SmallestSet`) or the numbers (`SmallestNumber`) for which a statement
  fails, a smallest one is taken and refuted. Both follow from the well-foundedness of the two orders.
* *Sums.* `SumFunctionOnSet` is a fold that takes elements in an order of its own. `SumsExist`, `SumsAgree`
  and `SumStep` show that it is the sum in any order; `SumLinear`, `SumOrder`, `SumWhere` and `SumExchange`
  are what the rest needs. `RainOnRectangle` counts the rain of a rectangle by unit squares and by cells;
  exchanging the two gives `RainAfter` (each destination cell has the rain of its squares) and
  `RainIsConserved` (what is missing fell outside, so the gate passes if nothing did).
* *Interpolation.* `InterpCases`: np.interp gives the value of a center or a blend of two neighbours. From it
  `InterpBetween` and `InterpOfLine`, first for rows, then for the column that the rows make.
* *Fit.* `ReplacedByProduct` is Cramer's rule. If all controls but one follow an affine map, the fit differs
  from this map by a multiple of one vector (`SolutionIsBent`), and all residuals vanish only if the others lie
  on a line (`OthersAreOnLine`, `BendsAtOne`): the case that `DisplacedControlsShow` excepts, section 6.
* *Reaches.* `Tracing` sorts by rank, and `SortedIsOrdered` says that each member occurs once and in the order of
  the keys. The state of the sweep after each dash is the run of the chain that the dash is in, with all
  earlier chains completed (`RunsAreRuns`, from `FirstRun`, `RunGoesOn` and `RunStarts`); a run starts and
  ends where a chain does (`RunIsChain`, `RunOfDash`). `ReachesAreKeyed` shows that no two chains make
  the same reach, so none is lost in the last sort. `RoundedIsNear` bounds how far a dash lies off its line.
* *Neighbours.* The nearest point of an axial segment is found by clamping each coordinate
  (`ClampIsNearest`, `SquareToReachIsAway`); `FirstIsThere` is what `min` with a key returns.
* *Listings.* Two listings that name the same resources as often are matched place by place, by a bijection
  for each value (`FamiliesAreMatched`, `ListingsAreMatched`); a plan has the requests of the places kept, each
  once (`InPlaceIsBijection`, `PlanAsksForKept`); a resource with a name of its own is called the same in any
  place (`NamedInAnyPlace`), so the bijection keeps the requests (`ValuesAreMatched`).
* *Names.* What `safe_filename` makes of words without a dot is words without a dot (`SafeOfWords`,
  `OwnNameIsPlain`), so the extension is added and is what `Path.suffix` reads (`SuffixIsRead`,
  `PlainIsTakenUp`); the seeds of the core categories pass every gate under any options (`CoreIsRequested`).

### What is not proved

Only model-checked:

* `WorkersCanMove`: it is about ENABLED, which no installed prover expands. `TakenMapsGetReconstructed` has it as
  a premise;
* `JobsEnd`, `ReservationsResolve` and `StartupEnds`: the length of a job depends on its list and its resources,
  that of a wait on `Attempts`, and going down such a variant is an induction over a temporal formula, which
  takes a predicate as a parameter. What the code contributes to them is proved: that the variants of
  `JobsAreFinite` and `StartupIsFinite` go down, and `NoOrphanedReservation`.

No module has a RECURSIVE operator.

## 5. Not modelled

* HTTP, redirects and content types (`acquisition.py`). In `Harvester` a plan is a fixed number of requests;
  which ones they are is in `Planning`. A body cut short is one more revision. That a read stops coming is a
  fault (`TimesOut`); how long it may take is not modelled.
* Of a page: form XObjects (`Do`), dash patterns, clipping and the text operators, whose spans are inputs of `Tracing`.
* Properties of vector features, the text of a CRS, the vertical reference (two checks of one value). The
  projection itself is a library's: `Vectors` gives each place the error of a round trip.
* Floating point: rounding, NaN and overflow. `Resampling`, `Tracing` and `Georeference` are exact. In
  `Tracing` strokes lie within half an angle bin of an axis, because an angle has no exact coordinates.
* In the state machine of `Reconstruction`, what a scan of a map finds is a constant (`Scan`): `Tracing` and
  `Georeference` say what it is for small maps. Metadata and inspection counts of a reconstruction are copied
  through and left out.
* The time axis of rainfall (every step is remapped by itself); timestamps, units and identifiers of
  `contracts/` (checks of one value).
* Configuration (constants here), logging, QA pages, migrations (their constraints are in the models),
  `scripts/verify.py` (a sequential smoke test).

## 6. Where the code and its documentation disagree

Runs that end in a violation, with the shortest behaviour:

* `DocExceptionsMarkFailed`: a flush that fails in `complete_version` leaves the session in need of a
  rollback; `fail_version` then raises at its first query. The version stays PENDING with no job,
  although "Exceptions mark the version `FAILED`" (`docs/architecture/sequence-03-harvester-raw-vault.md:72`).
  The same bytes are from then on refused as a conflict.
* `DocImmutableArtefacts`: `audit.json` holds the authority level, which neither fingerprint nor key
  covers. Two workers that listed the registry before and after an edit both find the key absent, and the
  second replaces the first's bytes ("Reconstruction artifacts are immutable and deterministic",
  `README.md:125`).
* `DocRegistryRules`: two overlapping PUTs of valid records store a mixture of both that breaks the rules
  ("`OPEN_AUTOMATED` sources must explicitly permit automation",
  `docs/architecture/sequence-02-data-source-registry.md:10`). Every validating read fails from then on,
  the seed report of the next container start included.

Seen with TLC while modelling and not kept as runs of their own: `complete_version` refreshes the row
after its commit, and if the refresh gets no connection the handler turns the COMPLETE version into FAILED
("creates immutable dataset versions", `sequence-03:5`), so `Immutable` and the refinement are checked without
that fault, while the theorems of `HarvesterProofs` hold with it. `f` and `f*` fill a path and stroke nothing,
but the reader records every path that is painted in the stroke colour in force (`pdf_native.py:18` and 226-238):
after `1 0 0 RG` the outline of a filled rectangle, whatever the colour of the fill, is grouped as "red stroke
fragments" (`sequence-05-drainage-reconstruction.md:46`) and can become a drain, so `PagesAreReadAsDrawn`
excepts fills (`page.strays`). The predecessor may not be the latest
COMPLETE version when the reservation commits (`sequence-03:64`); the manifest also covers registry fields,
so an edit makes a new version of unchanged bytes (`sequence-03:64`), and its snapshot is of the time the
job listed the registry (`sequence-03:68`); an `audit.json` that an interrupted run left before an edit of
the authority makes every later run of that map fail; of two overlapping reviews the one committed last
may leave the status of the other (`reconstruction/repository.py:70`); an edit of `category` makes a second
layer of the same raw file (`spatial/service.py:95`). `readiness()` of the spatial service counts every
layer ever made, so a category stays covered by data that is no longer current, and a single layer out of
tolerance shuts the gate for good (`Covered`, `Aligned` in `Normalization`).

Noted while the computations were modelled, where no text of the repository says otherwise:

* The seeds SRTM, IMERG and Sentinel-2 are permitted under `--include-authorized`, but the bootstrap job
  never selects their access methods. A blank Overpass query passes the job's test for a query and fails in
  the planner.
* A CKAN resource whose name has a dot in it ("ward no. 63") gets no suffix from its format, and a file
  without a known suffix is skipped by the normalizer without a word. A resource without a name of its own is
  called by its place in the listing, so a reordered listing renames it and makes a new version of the same bytes.
* The reader of a drawing forgets the earlier subpaths of a path at `m`, and after `h` followed by more
  points it draws the closing stroke again (`page.loops` in `PagesAreReadAsDrawn`). A stroke that it reads is in the
  pen set by `RG`, `G`, `K` and `w`, whatever `CS`, `SC`, `SCN` and `gs` set (`page.strays`).
* A control point that alone lies off a line of the others bends the fit to itself: no residual shows that it is wrong,
  since only sets that lie on one line altogether are refused (`DisplacedControlsShow`).

## 7. Plan

Done, in this order: `DatasetVersions`, `Harvester` with `Governance` and its proofs; `Products`,
`SpatialStore`, `Reconstruction`; `Normalization`; `Registration`, `Registry`; `Idempotency` with its
proofs, `Jobs`; `Resampling`; `Planning`, `SeedCatalogue`, `Vectors`, `Tracing`, `Georeference`, `Drawing`
with its proof, in `Algorithms`; the proofs of `Normalization`, `Reconstruction`, `Registry` and of the
harvester's catalogue; the proofs of the resampling policies, the fit, the tracing, the planning and the
seeds (`AlgorithmsProofs`); the proof of the vector files, with that of the drawing in `ReadingProofs`.

Left: `Pipeline`, that is `DatasetVersions`, normalization and reconstruction over one registry, for the
properties that cross components: a layer's raw version was COMPLETE and governed when it was taken.
