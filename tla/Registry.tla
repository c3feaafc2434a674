------------------------------ MODULE Registry ------------------------------
(***************************************************************************)
(* Sequence 2: the source registry (floodguard/registry/service.py and      *)
(* repository.py) under the requests of the HTTP API, and the containers    *)
(* that serve it, each of which waits for the database (floodguard/common/  *)
(* database_wait.py), seeds the catalogue (registry/seed.py) and only then  *)
(* starts the API (the command of the Dockerfile).  The registry is one     *)
(* table in READ COMMITTED transactions; the sessions of requests and seeds *)
(* read it at one time and commit at another.                               *)
(***************************************************************************)
EXTENDS Registration, Naturals

CONSTANTS
    Containers,     \* API containers
    Clients,        \* senders of requests, one at a time each
    Sources,        \* source_id values
    NoSource, Idle,
    Seed,           \* the audited catalogue: source_id -> Source
    Registrations,  \* registrations that clients send
    Attempts,       \* attempts of wait_for_database
    MaxBoots,       \* bound: times each container is started
    MaxOutages,     \* bound: times the database comes up or goes down
    MaxRequests     \* bound: requests that get past their checks

Source == [registration: SourceRead, fallback: Sources \cup {NoSource}]

ASSUME RegistryAssumption ==
    /\ NoSource \notin Sources
    /\ DOMAIN Seed \subseteq Sources /\ Seed \in [DOMAIN Seed -> Source]
    /\ Registrations \subseteq SourceRead
    /\ \A r \in Registrations \cup {Seed[s].registration : s \in DOMAIN Seed} :
           ValidRegistration(r)
    /\ Attempts \in Nat \ {0} /\ {MaxBoots, MaxOutages, MaxRequests} \subseteq Nat

VARIABLES
    rows,       \* registry_sources, by source_id
    up,         \* the database accepts connections
    pc,         \* pc[c]: where container c stands
    attempt,    \* attempt[c] of wait_for_database
    unread,     \* unread[c]: seeds it has not looked up yet
    loaded,     \* loaded[c]: the records its seeding session found
    desk,       \* desk[q]: the request of q between its reads and its commit
    boots, outages, requests    \* how much of the bounds is used

boot == <<pc, attempt, unread, loaded, boots>>
vars == <<rows, up, boot, desk, outages, requests>>

Single(s, row) == [k \in {s} |-> row]
Insert(f, g) == [s \in DOMAIN f \cup DOMAIN g |-> IF s \in DOMAIN f THEN f[s] ELSE g[s]]

Init ==
    /\ rows = <<>> /\ up \in BOOLEAN
    /\ pc = [c \in Containers |-> "down"]
    /\ attempt = [c \in Containers |-> 0]
    /\ unread = [c \in Containers |-> {}]
    /\ loaded = [c \in Containers |-> <<>>]
    /\ desk = [q \in Clients |-> Idle]
    /\ boots = [c \in Containers |-> 0] /\ outages = 0 /\ requests = 0

DatabaseTurns ==
    /\ outages < MaxOutages
    /\ outages' = outages + 1
    /\ up' = ~up
    /\ UNCHANGED <<rows, boot, desk, requests>>

-----------------------------------------------------------------------------
(* A container starts: database_wait && alembic upgrade && seed && uvicorn. *)

GoTo(c, label) == pc' = [pc EXCEPT ![c] = label]

Start(c) ==
    /\ pc[c] = "down" /\ boots[c] < MaxBoots
    /\ boots' = [boots EXCEPT ![c] = @ + 1]
    /\ attempt' = [attempt EXCEPT ![c] = 1]
    /\ GoTo(c, "waiting")
    /\ UNCHANGED <<rows, up, unread, loaded, desk, outages, requests>>

(* SELECT 1 succeeds, and so does the migration. *)
Connect(c) ==
    /\ pc[c] = "waiting" /\ up
    /\ unread' = [unread EXCEPT ![c] = DOMAIN Seed]
    /\ loaded' = [loaded EXCEPT ![c] = <<>>]
    /\ GoTo(c, "seeding")
    /\ UNCHANGED <<rows, up, attempt, desk, boots, outages, requests>>

(* Mutant: the attempts are not counted. *)
RetryForever(c) ==
    /\ pc[c] = "waiting" /\ ~up
    /\ UNCHANGED vars

Retry(c) ==
    /\ pc[c] = "waiting" /\ ~up /\ attempt[c] < Attempts
    /\ attempt' = [attempt EXCEPT ![c] = @ + 1]
    /\ UNCHANGED <<rows, up, pc, unread, loaded, desk, boots, outages, requests>>

(* The shell stops at the first command that fails. *)
GoDown(c) ==
    /\ GoTo(c, "down")
    /\ UNCHANGED <<rows, up, attempt, unread, loaded, desk, boots, outages, requests>>

GiveUp(c) ==
    /\ pc[c] = "waiting" /\ ~up /\ attempt[c] = Attempts
    /\ GoDown(c)

(* seed_if_missing looks the seeds up one by one, ... *)
LookUp(c, s) ==
    /\ pc[c] = "seeding" /\ up /\ s \in unread[c]
    /\ unread' = [unread EXCEPT ![c] = @ \ {s}]
    /\ loaded' = [loaded EXCEPT ![c] =
                     IF s \in DOMAIN rows THEN Insert(@, Single(s, rows[s])) ELSE @]
    /\ UNCHANGED <<rows, up, pc, attempt, desk, boots, outages, requests>>

Missing(c) == DOMAIN Seed \ DOMAIN loaded[c]
Additions(c) == [s \in Missing(c) |-> Seed[s]]

(* Mutant: a source that is there is brought back to its seed. *)
CommitUpsert(c) ==
    /\ pc[c] = "seeding" /\ up /\ unread[c] = {}
    /\ rows' = Insert(Seed, rows)
    /\ GoTo(c, "seeded")
    /\ UNCHANGED <<up, attempt, unread, loaded, desk, boots, outages, requests>>

(* Mutant: the session is closed without a commit. *)
CommitNothing(c) ==
    /\ pc[c] = "seeding" /\ up /\ unread[c] = {}
    /\ GoTo(c, "seeded")
    /\ UNCHANGED <<rows, up, attempt, unread, loaded, desk, boots, outages, requests>>

(* ... and inserts those it missed in one transaction, ... *)
CommitSeed(c) ==
    /\ pc[c] = "seeding" /\ up /\ unread[c] = {}
    /\ Missing(c) \cap DOMAIN rows = {}
    /\ rows' = Insert(rows, Additions(c))
    /\ GoTo(c, "seeded")
    /\ UNCHANGED <<up, attempt, unread, loaded, desk, boots, outages, requests>>

(* ... which fails whole when another session has inserted one of them.     *)
SeedFails(c) ==
    /\ pc[c] = "seeding"
    /\ ~up \/ (unread[c] = {} /\ Missing(c) \cap DOMAIN rows # {})
    /\ GoDown(c)

(* main() reports the readiness: it reads and validates every record, those *)
(* of the seeds as its session has them.                                    *)
Reads(c) ==
    {Insert(loaded[c], Insert(Additions(c), rows))[s].registration : s \in DOMAIN rows}
Readable(c) == \A r \in Reads(c) : ValidRegistration(r)

Serve(c) ==
    /\ pc[c] = "seeded" /\ up /\ Readable(c)
    /\ GoTo(c, "serving")
    /\ UNCHANGED <<rows, up, attempt, unread, loaded, desk, boots, outages, requests>>

ReportFails(c) ==
    /\ pc[c] = "seeded" /\ (~up \/ ~Readable(c))
    /\ GoDown(c)

(* The container is stopped; the requests it handles die with it. *)
Stop(c) ==
    /\ pc[c] # "down"
    /\ GoTo(c, "down")
    /\ desk' = [q \in Clients |->
                   IF desk[q] # Idle /\ desk[q].at = c THEN Idle ELSE desk[q]]
    /\ UNCHANGED <<rows, up, attempt, unread, loaded, boots, outages, requests>>

-----------------------------------------------------------------------------
(* Requests.  The body passes the validator of SourceCreate or              *)
(* SourceReplace; what is refused writes nothing.                           *)

(* _validate_fallback *)
FallbackAllowed(s, fallback) == fallback = NoSource \/ (fallback # s /\ fallback \in DOMAIN rows)

Accept(q, request) ==
    /\ desk[q] = Idle /\ requests < MaxRequests
    /\ up /\ pc[request.at] = "serving"
    /\ requests' = requests + 1
    /\ desk' = [desk EXCEPT ![q] = request]
    /\ UNCHANGED <<rows, up, boot, outages>>

(* RegistryService.create_source up to its insert, *)
OpenCreate(q, c, s, body) ==
    /\ FallbackAllowed(s, body.fallback) /\ s \notin DOMAIN rows
    /\ Accept(q, [kind |-> "create", at |-> c, source |-> s, body |-> body, seen |-> body])

(* and replace_source up to its update. *)
OpenReplace(q, c, s, body) ==
    /\ FallbackAllowed(s, body.fallback) /\ s \in DOMAIN rows
    /\ Accept(q, [kind |-> "replace", at |-> c, source |-> s, body |-> body, seen |-> rows[s]])

(* The answer is given; the row is put in its place. *)
Answer(q, row) ==
    /\ rows' = Insert(Single(desk[q].source, row), rows)
    /\ desk' = [desk EXCEPT ![q] = Idle]
    /\ UNCHANGED <<up, boot, outages, requests>>

CommitCreate(q) ==
    /\ desk[q] # Idle /\ desk[q].kind = "create" /\ up
    /\ desk[q].source \notin DOMAIN rows
    /\ Answer(q, desk[q].body)

(* The session writes the columns whose new value differs from the one it   *)
(* loaded.                                                                  *)
Changed(seen, new, stored) == IF new = seen THEN stored ELSE new

(* Mutant: a fallback that is not given stays as it was. *)
MergedGiven(seen, new, stored) ==
    [registration |-> [f \in DOMAIN stored.registration |->
        Changed(seen.registration[f], new.registration[f], stored.registration[f])],
     fallback |-> IF new.fallback = NoSource THEN stored.fallback ELSE new.fallback]

Merged(seen, new, stored) ==
    [registration |-> [f \in DOMAIN stored.registration |->
        Changed(seen.registration[f], new.registration[f], stored.registration[f])],
     fallback |-> Changed(seen.fallback, new.fallback, stored.fallback)]

CommitReplace(q) ==
    /\ desk[q] # Idle /\ desk[q].kind = "replace" /\ up
    /\ Answer(q, Merged(desk[q].seen, desk[q].body, rows[desk[q].source]))

(* The primary key is taken meanwhile, or the database is gone: status 500. *)
RequestFails(q) ==
    /\ desk[q] # Idle
    /\ ~up \/ (desk[q].kind = "create" /\ desk[q].source \in DOMAIN rows)
    /\ desk' = [desk EXCEPT ![q] = Idle]
    /\ UNCHANGED <<rows, up, boot, outages, requests>>

-----------------------------------------------------------------------------
Boot(c) ==
    \/ Connect(c) \/ Retry(c) \/ GiveUp(c)
    \/ \E s \in DOMAIN Seed : LookUp(c, s)
    \/ CommitSeed(c) \/ SeedFails(c) \/ Serve(c) \/ ReportFails(c)

Bodies == {[registration |-> r, fallback |-> f] :
               r \in Registrations, f \in Sources \cup {NoSource}}

Next ==
    \/ DatabaseTurns
    \/ \E c \in Containers : Start(c) \/ Boot(c) \/ Stop(c)
    \/ \E q \in Clients :
           \/ \E c \in Containers, s \in Sources, body \in Bodies :
                  OpenCreate(q, c, s, body) \/ OpenReplace(q, c, s, body)
           \/ CommitCreate(q) \/ CommitReplace(q) \/ RequestFails(q)

Spec == Init /\ [][Next]_vars

(* A container that is not stopped goes on starting.                        *)
FairSpec == Spec /\ \A c \in Containers : WF_vars(Boot(c))

-----------------------------------------------------------------------------
Request == [kind: {"create", "replace"}, at: Containers, source: Sources,
            body: Source, seen: Source]

(* Every variable has the shape the code gives it. *)
TypeOK ==
    /\ DOMAIN rows \subseteq Sources /\ rows \in [DOMAIN rows -> Source]
    /\ up \in BOOLEAN
    /\ pc \in [Containers -> {"down", "waiting", "seeding", "seeded", "serving"}]
    /\ attempt \in [Containers -> 0..Attempts]
    /\ unread \in [Containers -> SUBSET DOMAIN Seed]
    /\ DOMAIN loaded = Containers
    /\ \A c \in Containers : /\ DOMAIN loaded[c] \subseteq DOMAIN Seed
                             /\ loaded[c] \in [DOMAIN loaded[c] -> Source]
    /\ desk \in [Clients -> Request \cup {Idle}]
    /\ boots \in [Containers -> Nat] /\ outages \in Nat /\ requests \in Nat

(* A container that serves has the whole audited catalogue behind it, also  *)
(* when others seed and requests create sources at the same time            *)
(* (README.md:95, repository.py:50-57).                                     *)
ServingIsSeeded ==
    \A c \in Containers : pc[c] \in {"seeded", "serving"} => DOMAIN Seed \subseteq DOMAIN rows

(* A source is never lost, and changes only by a replace request for it: a  *)
(* container that starts never undoes an edit, a create never overwrites.   *)
OnlyReplacesChange ==
    [][\A s \in DOMAIN rows :
           /\ s \in DOMAIN rows'
           /\ rows'[s] # rows[s] =>
                  \E q \in Clients : /\ desk[q] # Idle /\ desk'[q] = Idle
                                     /\ desk[q].kind = "replace" /\ desk[q].source = s]_vars

(* A replace whose row nobody changed since it was loaded leaves exactly    *)
(* the record that was sent, what it does not give included.                *)
UndisturbedReplaceIsExact ==
    [][\A q \in Clients :
           (desk[q] # Idle /\ desk'[q] = Idle /\ rows' # rows /\ desk[q].kind = "replace"
            /\ desk[q].seen = rows[desk[q].source]) =>
               rows'[desk[q].source] = desk[q].body]_vars

(* A container that starts ends up serving or down, even if the database    *)
(* never comes up: the wait is bounded (database_wait.py:19-47).            *)
StartupEnds == \A c \in Containers : pc[c] = "waiting" ~> pc[c] \in {"serving", "down"}

(* The start is finite: whatever the database, the other containers and the *)
(* requests do, a step of it goes on to a later command of the start, or is *)
(* the next of at most Attempts attempts, or looks up one more seed; the    *)
(* start command restarts nothing (database_wait.py:26-47, seed.py:572-583).*)
Stage(label) ==
    CASE label = "waiting" -> 3 [] label = "seeding" -> 2 [] label = "seeded" -> 1 [] OTHER -> 0

Nearer(c) ==
    \/ Stage(pc'[c]) < Stage(pc[c])
    \/ pc'[c] = pc[c] /\ \/ attempt[c] < attempt'[c] /\ attempt'[c] <= Attempts
                         \/ unread'[c] \subseteq unread[c] /\ unread'[c] # unread[c]

StartupIsFinite ==
    [][\A c \in Containers :
           pc[c] \in {"waiting", "seeding", "seeded"} =>
               Nearer(c) \/ UNCHANGED <<pc[c], attempt[c], unread[c]>>]_vars

-----------------------------------------------------------------------------
(* Not so of the code: every stored record passes the governance rules of   *)
(* docs/architecture/sequence-02-data-source-registry.md:9-11.              *)
StoredRecordsAreValid == \A s \in DOMAIN rows : ValidRegistration(rows[s].registration)
=============================================================================
