----------------------------- MODULE Governance -----------------------------
(***************************************************************************)
(* What the registry lets the harvester do: the bootstrap job's selection   *)
(* (floodguard/harvester/bootstrap.py) and the two gates a harvest passes   *)
(* before it touches the network (floodguard/harvester/service.py).         *)
(***************************************************************************)
EXTENDS Registration

CONSTANTS
    IncludeAuthorized,  \* --include-authorized
    IncludePbf,         \* --include-pbf
    OverpassQuery       \* an --overpass-query was given

ASSUME OptionsAssumption ==
    {IncludeAuthorized, IncludePbf, OverpassQuery} \subseteq BOOLEAN

(* _enforce_governance: which registrations a harvest may acquire at all. *)
Permitted(r) ==
    /\ r.status = "AVAILABLE"
    /\ r.automation
    /\ \/ r.access = "OPEN_AUTOMATED"
       \/ r.access = "AUTHORIZATION_REQUIRED" /\ IncludeAuthorized

(* _authorization_headers returns instead of raising.  The bootstrap job    *)
(* passes no api_key_header, so API_KEY raises like the types without an    *)
(* adapter.                                                                 *)
HeadersResolve(r) ==
    \/ r.auth = "NONE"
    \/ /\ IncludeAuthorized
       /\ r.auth \in {"BEARER_TOKEN", "OAUTH2", "EARTHDATA_LOGIN"}
       /\ r.credential = "present"

(* _selected_sources: the access methods the bootstrap job takes up. *)
MethodSelected(r) ==
    \/ r.method \in {"CKAN", "HTTP", "REST"}
    \/ r.method = "PBF_EXTRACT" /\ IncludePbf
    \/ r.method = "OVERPASS" /\ OverpassQuery
=============================================================================
