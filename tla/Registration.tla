---------------------------- MODULE Registration ----------------------------
(***************************************************************************)
(* A record of the source registry and the validator that a record passes   *)
(* when it is sent or read (floodguard/registry/contracts.py).  It is a     *)
(* SourceRead reduced to the fields the rules of the registry and of the    *)
(* harvester read.  A credential reference is "none", "missing" (declared,  *)
(* cannot be resolved; every secret:// reference is one) or "present";      *)
(* citySafe says whether city_id may be a segment of an object key;         *)
(* provenance stands for the twelve fields that enter the manifest          *)
(* fingerprint.                                                             *)
(***************************************************************************)

CONSTANT Provenances    \* values of the material provenance

AccessClasses == {"OPEN_AUTOMATED", "OPEN_MANUAL", "PUBLIC_VIEW_ONLY",
                  "AUTHORIZATION_REQUIRED", "COMMERCIAL_OPTIONAL", "UNKNOWN"}
AccessMethods == {"HTTP", "CKAN", "REST", "STAC", "WMS", "WFS", "WMTS",
                  "OVERPASS", "PBF_EXTRACT", "PORTAL", "AUTHORIZED_FEED",
                  "MANUAL_TRANSFER"}
AuthenticationTypes == {"NONE", "BEARER_TOKEN", "OAUTH2", "API_KEY",
                        "USER_ACCOUNT", "EARTHDATA_LOGIN", "UNKNOWN"}
SourceStatuses == {"AVAILABLE", "DEGRADED", "PLANNED", "UNAVAILABLE", "UNKNOWN"}

SourceRead ==
    [method: AccessMethods, status: SourceStatuses, automation: BOOLEAN,
     access: AccessClasses, auth: AuthenticationTypes,
     credential: {"none", "missing", "present"}, citySafe: BOOLEAN,
     provenance: Provenances]

(* The governance validator of a registry record. *)
ValidRegistration(r) ==
    /\ r.access = "OPEN_AUTOMATED" => r.automation
    /\ r.access \in {"OPEN_MANUAL", "PUBLIC_VIEW_ONLY", "UNKNOWN"} => ~r.automation
    /\ r.auth = "NONE" => r.credential = "none"
    /\ r.access = "AUTHORIZATION_REQUIRED" /\ r.auth # "NONE" => r.credential # "none"
=============================================================================
