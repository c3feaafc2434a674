--------------------------- MODULE RegistryProofs ---------------------------
(***************************************************************************)
(* What holds of the registry for any number of containers, clients and     *)
(* sources, any seed catalogue, and however often containers start, the     *)
(* database goes down and requests overlap.                                 *)
(***************************************************************************)
EXTENDS Registry, TLAPS

(* What a session holds is an earlier state of the table, of which nothing  *)
(* is ever lost.                                                            *)
SessionsInv ==
    /\ \A c \in Containers :
           /\ pc[c] = "seeding" => DOMAIN loaded[c] \subseteq DOMAIN rows
           /\ pc[c] \in {"seeded", "serving"} => DOMAIN Seed \subseteq DOMAIN rows
    /\ \A q \in Clients : desk[q] # Idle /\ desk[q].kind = "replace" => desk[q].source \in DOMAIN rows

IInv == TypeOK /\ SessionsInv

-----------------------------------------------------------------------------
(* Records. *)

LEMMA MergedType ==
    ASSUME NEW seen \in Source, NEW new \in Source, NEW stored \in Source
    PROVE  Merged(seen, new, stored) \in Source
<1>1. \A f \in DOMAIN stored.registration :
          Changed(seen.registration[f], new.registration[f], stored.registration[f])
              \in {new.registration[f], stored.registration[f]}
  BY DEF Changed
<1>2. Changed(seen.fallback, new.fallback, stored.fallback) \in {new.fallback, stored.fallback}
  BY DEF Changed
<1> DEFINE merged == [f \in DOMAIN stored.registration |->
                         Changed(seen.registration[f], new.registration[f], stored.registration[f])]
<1>3. merged \in SourceRead
  BY <1>1 DEF Source, SourceRead
<1> QED
  BY <1>2, <1>3 DEF Source, Merged

(* A row nobody changed since it was loaded becomes what was sent. *)
LEMMA MergedIsNew ==
    ASSUME NEW new \in Source, NEW stored \in Source
    PROVE  Merged(stored, new, stored) = new
<1>1. [f \in DOMAIN stored.registration |->
          Changed(stored.registration[f], new.registration[f], stored.registration[f])] = new.registration
  BY DEF Changed, Source, SourceRead
<1>2. Changed(stored.fallback, new.fallback, stored.fallback) = new.fallback
  BY DEF Changed
<1> QED
  BY <1>1, <1>2 DEF Merged, Source

Records(f) == f \in [DOMAIN f -> Source]

LEMMA InsertType ==
    \A f, g : Records(f) /\ Records(g) =>
        DOMAIN Insert(f, g) = DOMAIN f \cup DOMAIN g /\ Records(Insert(f, g))
BY DEF Insert, Records

-----------------------------------------------------------------------------
(* Types. *)

LEMMA TypeInit == Init => TypeOK
<1> SUFFICES ASSUME Init PROVE TypeOK
  OBVIOUS
<1>1. rows = <<>> /\ DOMAIN rows = {} /\ rows \in [{} -> Source]
  BY DEF Init
<1>2. \A c \in Containers : loaded[c] = <<>> /\ DOMAIN loaded[c] = {} /\ loaded[c] \in [{} -> Source]
  BY DEF Init
<1> QED
  BY <1>1, <1>2, RegistryAssumption DEF Init, TypeOK

LEMMA TypeBoot ==
    ASSUME TypeOK, NEW c \in Containers, Start(c) \/ Boot(c) \/ Stop(c)
    PROVE  TypeOK'
<1> USE RegistryAssumption DEF TypeOK, GoTo
<1>1. CASE Start(c)
  BY <1>1 DEF Start
<1>2. CASE Connect(c)
  <2>1. /\ loaded' = [loaded EXCEPT ![c] = <<>>] /\ UNCHANGED <<rows, up, attempt, desk, boots, outages, requests>>
        /\ unread' = [unread EXCEPT ![c] = DOMAIN Seed] /\ pc' = [pc EXCEPT ![c] = "seeding"]
    BY <1>2 DEF Connect
  <2>2. ASSUME NEW d \in Containers
        PROVE  DOMAIN loaded'[d] \subseteq DOMAIN Seed /\ loaded'[d] \in [DOMAIN loaded'[d] -> Source]
    <3>1. d # c => loaded'[d] = loaded[d]
      BY <2>1
    <3>2. d = c => loaded'[d] = <<>> /\ DOMAIN loaded'[d] = {} /\ loaded'[d] \in [{} -> Source]
      BY <2>1
    <3> QED
      BY <3>1, <3>2
  <2>3. pc' \in [Containers -> {"down", "waiting", "seeding", "seeded", "serving"}]
    BY <2>1
  <2>4. unread' \in [Containers -> SUBSET DOMAIN Seed]
    BY <2>1
  <2> QED
    BY <2>1, <2>2, <2>3, <2>4
<1>3. CASE Retry(c)
  BY <1>3 DEF Retry
<1>4. CASE GiveUp(c) \/ SeedFails(c) \/ ReportFails(c)
  BY <1>4 DEF GiveUp, SeedFails, ReportFails, GoDown
<1>5. ASSUME NEW s \in DOMAIN Seed, LookUp(c, s) PROVE TypeOK'
  <2>1. loaded'[c] = IF s \in DOMAIN rows THEN Insert(loaded[c], Single(s, rows[s])) ELSE loaded[c]
    BY <1>5 DEF LookUp
  <2>2. s \in DOMAIN rows => /\ Single(s, rows[s]) \in [DOMAIN Single(s, rows[s]) -> Source]
                             /\ DOMAIN Single(s, rows[s]) = {s}
    BY DEF Single
  <2>3. /\ DOMAIN loaded'[c] \subseteq DOMAIN Seed
        /\ loaded'[c] \in [DOMAIN loaded'[c] -> Source]
    <3>1. CASE s \in DOMAIN rows
      <4>1. Records(loaded[c]) /\ Records(Single(s, rows[s]))
        BY <2>2, <3>1 DEF Records
      <4> DEFINE found == Single(s, rows[s])
      <4>2. Records(loaded[c]) /\ Records(found) /\ DOMAIN found = {s}
        BY <2>2, <3>1, <4>1
      <4> HIDE DEF found
      <4> DEFINE before == loaded[c]
      <4> HIDE DEF before
      <4>3. Records(before) /\ Records(found) =>
                DOMAIN Insert(before, found) = DOMAIN before \cup DOMAIN found /\ Records(Insert(before, found))
        BY InsertType, Zenon
      <4> QED
        BY <2>1, <3>1, <4>2, <4>3 DEF Records, found, before
    <3>2. CASE s \notin DOMAIN rows
      BY <2>1, <3>2
    <3> QED
      BY <3>1, <3>2
  <2> QED
    <3>1. \A d \in Containers \ {c} : loaded'[d] = loaded[d]
      BY <1>5 DEF LookUp
    <3>2. DOMAIN loaded' = Containers
      BY <1>5 DEF LookUp
    <3> QED
      BY <1>5, <2>3, <3>1, <3>2 DEF LookUp
<1>6. CASE CommitSeed(c)
  <2>1. Additions(c) \in [DOMAIN Additions(c) -> Source] /\ DOMAIN Additions(c) \subseteq DOMAIN Seed
    BY DEF Additions, Missing
  <2>2. rows' = Insert(rows, Additions(c))
    BY <1>6 DEF CommitSeed
  <2>3. DOMAIN rows' \subseteq Sources /\ rows' \in [DOMAIN rows' -> Source]
    <3>1. Records(rows) /\ Records(Additions(c))
      BY <2>1 DEF Records
    <3>2. DOMAIN rows' = DOMAIN rows \cup DOMAIN Additions(c) /\ Records(rows')
      BY <2>2, <3>1, InsertType
    <3> QED
      BY <2>1, <3>2 DEF Records
  <2> QED
    BY <1>6, <2>3 DEF CommitSeed
<1>7. CASE Serve(c)
  BY <1>7 DEF Serve
<1>8. CASE Stop(c)
  BY <1>8 DEF Stop
<1> QED
  BY <1>1, <1>2, <1>3, <1>4, <1>5, <1>6, <1>7, <1>8 DEF Boot

-----------------------------------------------------------------------------
(* Requests. *)

Opens(q) == \E c \in Containers, s \in Sources, body \in Bodies :
                OpenCreate(q, c, s, body) \/ OpenReplace(q, c, s, body)

Answers(q) == CommitCreate(q) \/ CommitReplace(q)

(* An answer puts one row in its place. *)
Places(q, row) ==
    /\ desk[q] # Idle /\ desk[q] \in Request /\ row \in Source
    /\ desk' = [desk EXCEPT ![q] = Idle]
    /\ DOMAIN rows' = DOMAIN rows \cup {desk[q].source}
    /\ rows'[desk[q].source] = row
    /\ \A s \in DOMAIN rows \ {desk[q].source} : rows'[s] = rows[s]
    /\ rows' \in [DOMAIN rows' -> Source]
    /\ UNCHANGED <<up, boot, outages, requests>>

LEMMA AnswerPlaces ==
    ASSUME TypeOK, NEW q \in Clients, desk[q] # Idle, NEW row \in Source, Answer(q, row)
    PROVE  Places(q, row)
<1>1. rows' = Insert(Single(desk[q].source, row), rows)
  BY DEF Answer
<1>2. Single(desk[q].source, row) \in [{desk[q].source} -> Source]
  BY DEF Single
<1>3. rows \in [DOMAIN rows -> Source] /\ desk[q] \in Request
  BY DEF TypeOK
<1>4. /\ DOMAIN rows' = DOMAIN rows \cup {desk[q].source}
      /\ rows' \in [DOMAIN rows' -> Source]
  BY <1>1, <1>2, <1>3 DEF Insert
<1>5. /\ rows'[desk[q].source] = row
      /\ \A s \in DOMAIN rows \ {desk[q].source} : rows'[s] = rows[s]
  BY <1>1 DEF Insert, Single
<1> QED
  BY <1>3, <1>4, <1>5 DEF Answer, Places

LEMMA CreatePlaces ==
    ASSUME TypeOK, NEW q \in Clients, CommitCreate(q)
    PROVE  Places(q, desk[q].body) /\ desk[q].source \notin DOMAIN rows
<1>1. desk[q] # Idle /\ desk[q].body \in Source /\ Answer(q, desk[q].body)
  BY DEF CommitCreate, TypeOK, Request
<1> QED
  BY <1>1, AnswerPlaces DEF CommitCreate

LEMMA ReplacePlaces ==
    ASSUME IInv, NEW q \in Clients, CommitReplace(q)
    PROVE  /\ Places(q, Merged(desk[q].seen, desk[q].body, rows[desk[q].source]))
           /\ desk[q].source \in DOMAIN rows
<1> DEFINE row == Merged(desk[q].seen, desk[q].body, rows[desk[q].source])
<1>1. desk[q] # Idle /\ desk[q].kind = "replace" /\ Answer(q, row)
  BY DEF CommitReplace
<1>2. desk[q] \in Request /\ desk[q].source \in DOMAIN rows
  BY <1>1 DEF IInv, TypeOK, SessionsInv
<1>3. desk[q].seen \in Source /\ desk[q].body \in Source /\ rows[desk[q].source] \in Source
  BY <1>2 DEF IInv, TypeOK, Request
<1>4. row \in Source
  BY <1>3, MergedType
<1> QED
  BY <1>1, <1>2, <1>4, AnswerPlaces DEF IInv

LEMMA AnswerStep ==
    ASSUME IInv, NEW q \in Clients, Answers(q)
    PROVE  IInv'
<1>1. PICK row : Places(q, row)
  BY CreatePlaces, ReplacePlaces DEF Answers, IInv
<1>2. /\ DOMAIN rows' \subseteq Sources /\ DOMAIN rows \subseteq DOMAIN rows'
      /\ rows' \in [DOMAIN rows' -> Source]
  BY <1>1 DEF Places, IInv, TypeOK, Request
<1>3. /\ UNCHANGED <<up, pc, attempt, unread, loaded, boots, outages, requests>>
      /\ desk' = [desk EXCEPT ![q] = Idle]
  BY <1>1 DEF Places, boot
<1>4. TypeOK'
  BY <1>2, <1>3 DEF IInv, TypeOK
<1>5. SessionsInv'
  BY <1>2, <1>3 DEF IInv, TypeOK, SessionsInv
<1> QED
  BY <1>4, <1>5 DEF IInv

LEMMA OpenStep ==
    ASSUME IInv, NEW q \in Clients, Opens(q)
    PROVE  IInv'
<1>1. PICK request \in Request : /\ Accept(q, request)
                                 /\ request.kind = "replace" => request.source \in DOMAIN rows
  <2> PICK c \in Containers, s \in Sources, body \in Bodies :
              OpenCreate(q, c, s, body) \/ OpenReplace(q, c, s, body)
    BY DEF Opens
  <2>1. body \in Source
    BY RegistryAssumption DEF Bodies, Source
  <2>2. CASE OpenCreate(q, c, s, body)
    <3> DEFINE request == [kind |-> "create", at |-> c, source |-> s, body |-> body, seen |-> body]
    <3>1. request \in Request /\ request.kind # "replace" /\ Accept(q, request)
      BY <2>1, <2>2 DEF OpenCreate, Request
    <3> QED
      BY <3>1
  <2>3. CASE OpenReplace(q, c, s, body)
    <3> DEFINE request == [kind |-> "replace", at |-> c, source |-> s, body |-> body, seen |-> rows[s]]
    <3>1. request \in Request /\ request.source \in DOMAIN rows /\ Accept(q, request)
      BY <2>1, <2>3 DEF OpenReplace, Request, IInv, TypeOK
    <3> QED
      BY <3>1
  <2> QED
    BY <2>2, <2>3
<1>2. /\ UNCHANGED <<rows, up, pc, attempt, unread, loaded, boots, outages>>
      /\ desk' = [desk EXCEPT ![q] = request] /\ requests' = requests + 1
  BY <1>1 DEF Accept, boot
<1>3. TypeOK'
  BY <1>2 DEF IInv, TypeOK
<1>4. SessionsInv'
  BY <1>1, <1>2 DEF IInv, TypeOK, SessionsInv
<1> QED
  BY <1>3, <1>4 DEF IInv

-----------------------------------------------------------------------------
LEMMA BootStep ==
    ASSUME IInv, NEW c \in Containers, Start(c) \/ Boot(c) \/ Stop(c)
    PROVE  IInv'
<1>1. TypeOK'
  BY TypeBoot DEF IInv
<1> USE DEF IInv, TypeOK, GoTo, SessionsInv, Missing
<1>2. CASE CommitSeed(c)
  <2>1. DOMAIN rows' = DOMAIN rows \cup Missing(c)
    BY <1>2 DEF CommitSeed, Insert, Additions
  <2>2. DOMAIN Seed \subseteq DOMAIN rows'
    BY <1>2, <2>1 DEF CommitSeed
  <2> QED
    BY <1>1, <1>2, <2>1, <2>2 DEF CommitSeed
<1>3. ASSUME NEW s \in DOMAIN Seed, LookUp(c, s) PROVE IInv'
  <2>1. DOMAIN loaded'[c] = DOMAIN loaded[c] \cup ({s} \cap DOMAIN rows)
    BY <1>3 DEF LookUp, Insert, Single
  <2> QED
    BY <1>1, <1>3, <2>1 DEF LookUp
<1>4. CASE Connect(c)
  BY <1>1, <1>4 DEF Connect
<1>5. CASE Start(c) \/ Retry(c) \/ GiveUp(c) \/ SeedFails(c) \/ ReportFails(c) \/ Serve(c)
  BY <1>1, <1>5 DEF Start, Retry, GiveUp, SeedFails, ReportFails, GoDown, Serve
<1>6. CASE Stop(c)
  BY <1>1, <1>6 DEF Stop
<1> QED
  BY <1>2, <1>3, <1>4, <1>5, <1>6 DEF Boot

LEMMA Invariance == Spec => []IInv
<1>1. Init => IInv
  BY TypeInit DEF Init, IInv, SessionsInv
<1>2. IInv /\ [Next]_vars => IInv'
  <2> SUFFICES ASSUME IInv, [Next]_vars PROVE IInv'
    OBVIOUS
  <2>1. CASE DatabaseTurns
    BY <2>1 DEF DatabaseTurns, IInv, TypeOK, SessionsInv, boot
  <2>2. ASSUME NEW q \in Clients, RequestFails(q) PROVE IInv'
    BY <2>2 DEF RequestFails, IInv, TypeOK, SessionsInv, boot
  <2>3. CASE UNCHANGED vars
    BY <2>3 DEF vars, IInv, TypeOK, SessionsInv, boot
  <2> QED
    BY <2>1, <2>2, <2>3, BootStep, OpenStep, AnswerStep DEF Next, Opens, Answers
<1> QED
  BY <1>1, <1>2, PTL DEF Spec

(* Every variable keeps the shape the code gives it. *)
THEOREM TypeCorrect == Spec => []TypeOK
<1>1. IInv => TypeOK
  BY DEF IInv
<1> QED
  BY <1>1, Invariance, PTL

(* Nothing is served before the whole audited catalogue is there, whoever   *)
(* else seeds or creates sources meanwhile (repository.py:50-57, seed.py    *)
(* and the start command of the Dockerfile).                                *)
THEOREM ServingMeansSeeded == Spec => []ServingIsSeeded
<1>1. IInv => ServingIsSeeded
  BY DEF IInv, SessionsInv, ServingIsSeeded
<1> QED
  BY <1>1, Invariance, PTL

(* A session that creates or seeds never overwrites a source, whatever it   *)
(* read before; only a replace request for it does, and nothing deletes one *)
(* (repository.py, service.py of the registry).                             *)
THEOREM SourcesStay == Spec => OnlyReplacesChange
<1> DEFINE Stay ==
        \A s \in DOMAIN rows :
            /\ s \in DOMAIN rows'
            /\ rows'[s] # rows[s] =>
                   \E q \in Clients : /\ desk[q] # Idle /\ desk'[q] = Idle
                                      /\ desk[q].kind = "replace" /\ desk[q].source = s
<1>1. ASSUME rows' = rows PROVE Stay
  BY <1>1
<1>2. ASSUME IInv, NEW c \in Containers, Boot(c) PROVE Stay
  <2>1. CASE CommitSeed(c)
    BY <2>1 DEF CommitSeed, Insert
  <2>2. CASE ~CommitSeed(c)
    BY <1>1, <1>2, <2>2 DEF Boot, Connect, Retry, GiveUp, LookUp, SeedFails, Serve, ReportFails, GoDown
  <2> QED
    BY <2>1, <2>2
<1>3. ASSUME IInv, NEW q \in Clients, CommitCreate(q) PROVE Stay
  <2>1. Places(q, desk[q].body) /\ desk[q].source \notin DOMAIN rows
    BY <1>3, CreatePlaces DEF IInv
  <2> QED
    BY <2>1 DEF Places
<1>4. ASSUME IInv, NEW q \in Clients, CommitReplace(q) PROVE Stay
  <2>1. PICK row : Places(q, row)
    BY <1>4, ReplacePlaces
  <2>2. desk[q].kind = "replace" /\ desk[q] # Idle /\ desk'[q] = Idle
    BY <1>4, <2>1 DEF CommitReplace, Places, IInv, TypeOK
  <2> QED
    BY <2>1, <2>2 DEF Places
<1>5. ASSUME [Next]_vars
      PROVE  \/ rows' = rows
             \/ \E c \in Containers : Boot(c)
             \/ \E q \in Clients : CommitCreate(q) \/ CommitReplace(q)
  BY <1>5 DEF Next, DatabaseTurns, Start, Stop, OpenCreate, OpenReplace, Accept, RequestFails, vars
<1>6. IInv /\ [Next]_vars => [Stay]_vars
  BY <1>1, <1>2, <1>3, <1>4, <1>5
<1> QED
  BY <1>6, Invariance, PTL DEF Spec, OnlyReplacesChange

(* A replace whose row nobody changed since its session loaded it leaves    *)
(* the record that was sent, every field of it (service.py, replace_source).*)
THEOREM UndisturbedReplacesAreExact == Spec => UndisturbedReplaceIsExact
<1> DEFINE Exact ==
        \A q \in Clients :
            (desk[q] # Idle /\ desk'[q] = Idle /\ rows' # rows /\ desk[q].kind = "replace"
             /\ desk[q].seen = rows[desk[q].source]) =>
                rows'[desk[q].source] = desk[q].body
<1>1. ASSUME rows' = rows PROVE Exact
  BY <1>1
<1>2. ASSUME desk' = desk PROVE Exact
  BY <1>2
<1>3. ASSUME IInv, NEW r \in Clients, CommitCreate(r) PROVE Exact
  <2>1. desk' = [desk EXCEPT ![r] = Idle] /\ desk[r].kind = "create"
    BY <1>3 DEF CommitCreate, Answer
  <2> QED
    BY <1>3, <2>1 DEF IInv, TypeOK
<1>4. ASSUME IInv, NEW r \in Clients, CommitReplace(r) PROVE Exact
  <2>1. Places(r, Merged(desk[r].seen, desk[r].body, rows[desk[r].source]))
    BY <1>4, ReplacePlaces
  <2>2. desk[r].body \in Source /\ rows[desk[r].source] \in Source
    <3>1. desk[r] \in Request /\ desk[r].source \in DOMAIN rows
      BY <1>4, <2>1, ReplacePlaces DEF Places
    <3> QED
      BY <1>4, <3>1 DEF IInv, TypeOK, Request
  <2>3. desk[r].seen = rows[desk[r].source] => rows'[desk[r].source] = desk[r].body
    BY <2>1, <2>2, MergedIsNew DEF Places
  <2>4. \A q \in Clients \ {r} : desk'[q] = desk[q]
    BY <1>4, <2>1 DEF Places, IInv, TypeOK
  <2> QED
    BY <2>3, <2>4
<1>5. ASSUME [Next]_vars
      PROVE  rows' = rows \/ desk' = desk \/ \E q \in Clients : CommitCreate(q) \/ CommitReplace(q)
  BY <1>5 DEF Next, DatabaseTurns, Start, Stop, Boot, Connect, Retry, GiveUp, LookUp, CommitSeed, SeedFails,
              Serve, ReportFails, GoDown, OpenCreate, OpenReplace, Accept, RequestFails, vars
<1>6. IInv /\ [Next]_vars => [Exact]_vars
  BY <1>1, <1>2, <1>3, <1>4, <1>5
<1> QED
  BY <1>6, Invariance, PTL DEF Spec, UndisturbedReplaceIsExact

(* The start of a container is finite: every step of it goes on to a later  *)
(* command, or is one of at most Attempts attempts, or looks up one more of *)
(* the seeds (database_wait.py, seed.py and the start command).             *)
THEOREM StartsAreFinite == Spec => StartupIsFinite
<1> DEFINE starting == {"waiting", "seeding", "seeded"}
           Same(c) == UNCHANGED <<pc[c], attempt[c], unread[c]>>
           Finite == \A c \in Containers : pc[c] \in starting => Nearer(c) \/ Same(c)
<1>1. ASSUME UNCHANGED <<pc, attempt, unread>> PROVE Finite
  BY <1>1
<1>2. ASSUME IInv, NEW d \in Containers, Start(d) \/ Boot(d) \/ Stop(d) PROVE Finite
  <2>1. \A c \in Containers \ {d} : Same(c)
    <3>1. /\ \A c \in Containers \ {d} : pc'[c] = pc[c]
          /\ \A c \in Containers \ {d} : attempt'[c] = attempt[c]
          /\ \A c \in Containers \ {d} : unread'[c] = unread[c]
      BY <1>2 DEF Start, Boot, Stop, Connect, Retry, GiveUp, LookUp, CommitSeed, SeedFails, Serve, ReportFails,
                  GoDown, GoTo, IInv, TypeOK
    <3> QED
      BY <3>1
  <2>2. CASE Start(d)
    BY <2>1, <2>2 DEF Start
  <2>3. CASE Retry(d)
    <3>1. pc'[d] = pc[d] /\ attempt[d] < attempt'[d] /\ attempt'[d] <= Attempts
      BY <1>2, <2>3, RegistryAssumption DEF Retry, IInv, TypeOK
    <3> QED
      BY <2>1, <3>1 DEF Nearer
  <2>4. ASSUME NEW s \in DOMAIN Seed, LookUp(d, s) PROVE Finite
    <3>1. pc'[d] = pc[d] /\ unread'[d] = unread[d] \ {s} /\ s \in unread[d]
      BY <1>2, <2>4 DEF LookUp, IInv, TypeOK
    <3> QED
      BY <2>1, <3>1 DEF Nearer
  <2>5. CASE Connect(d) \/ GiveUp(d) \/ CommitSeed(d) \/ SeedFails(d) \/ Serve(d) \/ ReportFails(d) \/ Stop(d)
    <3>1. pc \in [Containers -> {"down", "waiting", "seeding", "seeded", "serving"}]
      BY <1>2 DEF IInv, TypeOK
    <3>2. pc[d] \in starting => Stage(pc'[d]) < Stage(pc[d])
      <4>1. Connect(d) => pc[d] = "waiting" /\ pc'[d] = "seeding"
        BY <3>1 DEF Connect, GoTo
      <4>2. GiveUp(d) \/ SeedFails(d) \/ ReportFails(d) \/ Stop(d) => pc'[d] = "down"
        BY <3>1 DEF GiveUp, SeedFails, ReportFails, Stop, GoDown, GoTo
      <4>3. CommitSeed(d) => pc[d] = "seeding" /\ pc'[d] = "seeded"
        BY <3>1 DEF CommitSeed, GoTo
      <4>4. Serve(d) => pc[d] = "seeded" /\ pc'[d] = "serving"
        BY <3>1 DEF Serve, GoTo
      <4>5. /\ Stage("waiting") = 3 /\ Stage("seeding") = 2 /\ Stage("seeded") = 1
            /\ Stage("serving") = 0 /\ Stage("down") = 0
        BY DEF Stage
      <4> QED
        BY <2>5, <4>1, <4>2, <4>3, <4>4, <4>5
    <3> QED
      BY <2>1, <3>2 DEF Nearer
  <2> QED
    BY <1>2, <2>2, <2>3, <2>4, <2>5 DEF Boot
<1>3. ASSUME [Next]_vars
      PROVE  UNCHANGED <<pc, attempt, unread>> \/ \E d \in Containers : Start(d) \/ Boot(d) \/ Stop(d)
  BY <1>3 DEF Next, DatabaseTurns, OpenCreate, OpenReplace, Accept, CommitCreate, CommitReplace, Answer,
              RequestFails, vars, boot
<1>4. IInv /\ [Next]_vars => [Finite]_vars
  BY <1>1, <1>2, <1>3
<1> QED
  BY <1>4, Invariance, PTL DEF Spec, StartupIsFinite
=============================================================================
