--------------------------- MODULE SeedCatalogue ---------------------------
(***************************************************************************)
(* The curated sources of Kolkata (floodguard/registry/seed.py) and what    *)
(* the bootstrap job of the harvester plans for each of them under its      *)
(* options (floodguard/harvester/bootstrap.py).  Of a record, the fields    *)
(* that decide whether and how it is acquired, what kind of data it is and  *)
(* which source stands in for it; of a credential, the environment variable *)
(* that holds it.                                                           *)
(***************************************************************************)
EXTENDS Planning

CONSTANTS
    Catalogued,         \* the endpoint of each seeded dataset
    Environments,       \* sets of environment variables that are set
    VectorFormats       \* formats of files that the normalizer reads

(* _VECTOR_SUFFIXES: files with another one are passed over. *)
VectorSuffixes == {<<"kml">>, <<"geojson">>, <<"json">>}

Seeded(category, method) ==
    [category |-> category, method |-> method, access |-> "OPEN_AUTOMATED", automation |-> TRUE,
     auth |-> "NONE", variable |-> None, status |-> "AVAILABLE", fallback |-> None]

OnRequest(source, auth, variable) ==
    [source EXCEPT !.access = "AUTHORIZATION_REQUIRED", !.auth = auth, !.variable = variable]

Candidate(source) == [source EXCEPT !.status = "PLANNED"]

ByHand(source, access, auth) ==
    Candidate([source EXCEPT !.access = access, !.automation = FALSE, !.auth = auth])

(* _opencity_source and its four datasets. *)
OpenCity ==
    [drainage |-> Seeded("DRAINAGE_MAP", "CKAN"),
     wards |-> Seeded("WARD_BOUNDARY", "CKAN"),
     microwatersheds |-> Seeded("CATCHMENT", "CKAN"),
     water_bodies |-> Seeded("WATER_BODY", "CKAN")]

OpenStreetMap ==
    [geofabrik |-> Seeded("OPENSTREETMAP", "PBF_EXTRACT"),
     overpass |-> [Seeded("OPENSTREETMAP", "OVERPASS") EXCEPT !.fallback = "geofabrik"]]

RoadSpeeds ==
    [road_speeds |-> [Seeded("TRAFFIC", "PBF_EXTRACT") EXCEPT !.fallback = "geofabrik"]]

Satellites ==
    [srtm |-> OnRequest(Seeded("ELEVATION", "PORTAL"), "EARTHDATA_LOGIN", "EARTHDATA_TOKEN"),
     sentinel_2 |-> OnRequest(Seeded("SATELLITE_IMAGERY", "STAC"), "OAUTH2", "COPERNICUS_ACCESS_TOKEN"),
     imerg |-> OnRequest(Seeded("HISTORICAL_RAINFALL", "PORTAL"), "EARTHDATA_LOGIN", "EARTHDATA_TOKEN")]

Weather ==
    [rain_observation |-> [ByHand(Seeded("RAINFALL_OBSERVATION", "PORTAL"), "UNKNOWN", "UNKNOWN")
                              EXCEPT !.fallback = "imerg"],
     nowcast |-> ByHand(Seeded("RAINFALL_NOWCAST", "PORTAL"), "UNKNOWN", "UNKNOWN"),
     radar |-> Candidate(OnRequest(Seeded("RADAR", "AUTHORIZED_FEED"), "BEARER_TOKEN", "IMD_RADAR_TOKEN")),
     stage |-> ByHand(Seeded("HYDRAULIC_BOUNDARY", "PORTAL"), "PUBLIC_VIEW_ONLY", "NONE")]

Municipal ==
    [lidar |-> ByHand(Seeded("LIDAR", "MANUAL_TRANSFER"), "UNKNOWN", "UNKNOWN"),
     scada |-> Candidate(OnRequest(Seeded("PUMP_SCADA", "AUTHORIZED_FEED"), "BEARER_TOKEN", "KMC_SCADA_TOKEN")),
     drain_sensors |-> Candidate(OnRequest(Seeded("DRAIN_SENSOR", "AUTHORIZED_FEED"), "BEARER_TOKEN",
                                           "KMC_DRAIN_SENSOR_TOKEN")),
     cctv |-> ByHand(Seeded("CCTV", "PORTAL"), "UNKNOWN", "UNKNOWN")]

Groups == {OpenCity, OpenStreetMap, Satellites, Weather, Municipal, RoadSpeeds}
Slugs == UNION {DOMAIN group : group \in Groups}
Seeds == [slug \in Slugs |-> (CHOOSE group \in Groups : slug \in DOMAIN group)[slug]]

(* The endpoint of a CKAN dataset names a package; a format that the        *)
(* normalizer reads is, in lower case, a suffix by which it takes up files. *)
ASSUME CatalogueAssumption ==
    /\ Catalogued \in [Slugs -> Endpoints]
    /\ \A slug \in Slugs : Seeds[slug].method = "CKAN" =>
           LastSegment(WithoutEndSlashes(Catalogued[slug].path)) # <<>>
    /\ VectorFormats \subseteq Seq(DOMAIN LowerCase)
    /\ \A format \in VectorFormats : Lower(format) \in VectorSuffixes

-----------------------------------------------------------------------------
(* A source as the bootstrap job sees it with these variables set. *)
Registered(slug, environment) ==
    LET s == Seeds[slug] IN
    [method |-> s.method, status |-> s.status, automation |-> s.automation, access |-> s.access,
     auth |-> s.auth, citySafe |-> TRUE, provenance |-> slug,
     credential |-> IF s.variable = None THEN "none"
                    ELSE IF s.variable \in environment THEN "present" ELSE "missing"]

Rules(authorized, pbf, overpass) ==
    INSTANCE Governance WITH IncludeAuthorized <- authorized, IncludePbf <- pbf,
                             OverpassQuery <- overpass

(* What the job makes of a source: it leaves it out, fails, or requests it. *)
Outcome(slug, q) ==
    LET r == Registered(slug, q.environment)
        p == [listing |-> q.listing, query |-> q.query]
        \* any text that is not empty, a blank one too
        overpass == q.query # None
    IN  IF ~Rules(q.authorized, q.pbf, overpass)!MethodSelected(r) THEN <<"left out">>
        ELSE IF /\ Rules(q.authorized, q.pbf, overpass)!Permitted(r)
                /\ Rules(q.authorized, q.pbf, overpass)!HeadersResolve(r)
                /\ Plan(r.method, Catalogued[slug], p) # None
        THEN <<"requested", Plan(r.method, Catalogued[slug], p)>>
        ELSE <<"failed">>

CallBootstrap ==
    /\ request = None
    /\ \E authorized, pbf \in BOOLEAN, environment \in Environments, listing \in Listings,
          query \in {t \in Queries : t = None \/ t.kind = "text"} :
           LET q == [call |-> "bootstrap", authorized |-> authorized, pbf |-> pbf,
                     environment |-> environment, listing |-> listing, query |-> query]
           IN  Answer(q, TRUE, [s \in Slugs |-> Outcome(s, q)])

-----------------------------------------------------------------------------
(* The categories without which the normalized city is not ready            *)
(* (spatial/service.py:37-41).                                              *)
CoreCategories == {"WARD_BOUNDARY", "CATCHMENT", "WATER_BODY"}

(* Whatever the options, the job requests a source of every core category,  *)
(* provided that its catalogue lists something to download; and each file   *)
(* that is listed there in a vector format, by a name without a dot, gets a *)
(* suffix by which the normalizer takes it up (seed.py:96-160,              *)
(* acquisition.py:236-254, spatial/service.py:162).                         *)
CoreCategoriesAreServed ==
    Answered("bootstrap") =>
        \A category \in CoreCategories : \E slug \in Slugs :
            LET listed == IF request.listing = None THEN {}
                          ELSE {r \in ToSet(request.listing) : Downloadable(r)}
                plain(r) == r.format \in VectorFormats /\ Named(r)
                            /\ "." \notin ToSet(r.name) \cup ToSet(r.url.path)
            IN  /\ Seeds[slug].category = category
                /\ listed # {} => answer[slug][1] = "requested"
                /\ \A r \in listed : plain(r) =>
                       \E f \in ToSet(answer[slug][2]) :
                           f.url = r.url.id /\ Suffix(f.filename) \in VectorSuffixes
=============================================================================
