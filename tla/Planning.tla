------------------------------ MODULE Planning ------------------------------
(***************************************************************************)
(* What a harvest asks for: AcquisitionPlanner                              *)
(* (floodguard/harvester/acquisition.py) turns a source, its parameters and *)
(* the JSON that its catalogue answers into requests, each with the name of *)
(* the file it becomes.  A name, a format and the path of a URL are         *)
(* sequences of tokens: words, "." and the signs below.  Names stay below   *)
(* the 240 characters at which they are cut.                                *)
(***************************************************************************)
EXTENDS Calls, Orders, Registration, Integers, Sequences, FiniteSets, SequencesExt

CONSTANTS
    Endpoints,      \* the endpoints of sources
    Listings,       \* the resources of a CKAN package, or None
    Items,          \* the sets of assets of STAC items, or None
    Selections,     \* asset_keys, or None
    Queries,        \* the query parameter, or None
    LowerCase       \* the words in lower case

Slash == "/"
Underscore == "_"
Unsafe == " "       \* any run of characters that a file name must not have

(* Requests are [verb, url, filename]; a URL is [id, http, path].  Asset    *)
(* keys have a rank, their place in the order of strings.                   *)
ASSUME PlanningAssumption ==
    /\ \A e \in Endpoints : e.http \in BOOLEAN /\ e.path \in Seq(DOMAIN LowerCase)
    /\ {Unsafe, ".", Slash} \subseteq DOMAIN LowerCase
    /\ Listings \subseteq {None} \cup
           Seq([object : BOOLEAN,
                url : {None} \cup [id : STRING, http : BOOLEAN, path : Seq(DOMAIN LowerCase)],
                name : Seq(DOMAIN LowerCase), format : Seq(DOMAIN LowerCase)])

-----------------------------------------------------------------------------
(* Names. *)

LastSegment(s) ==
    LET slashes == {i \in DOMAIN s : s[i] = Slash} IN
    SubSeq(s, Max({0} \cup slashes) + 1, Len(s))

WithoutEndSlashes(s) == SubSeq(s, 1, Max({0} \cup {i \in DOMAIN s : s[i] # Slash}))

Stripped(s) ==
    LET kept == {i \in DOMAIN s : s[i] \notin {".", Underscore}} IN
    IF kept = {} THEN <<>> ELSE SubSeq(s, Min(kept), Max(kept))

SafeFilename(s, fallback) ==
    LET safe == Stripped(ReplaceAll(LastSegment(s), Unsafe, Underscore)) IN
    IF safe = <<>> THEN fallback ELSE safe

UrlFilename(url, fallback) == SafeFilename(LastSegment(url.path), fallback)

Lower(s) == [i \in DOMAIN s |-> LowerCase[s[i]]]

(* Path.suffix: what follows the last dot of a name, with a name before it. *)
Suffix(name) ==
    LET dots == {i \in DOMAIN name : name[i] = "." /\ i > 1} IN
    IF dots = {} THEN <<>> ELSE SubSeq(name, Max(dots) + 1, Len(name))

-----------------------------------------------------------------------------
(* _plan_ckan *)

Downloadable(r) == r.object /\ r.url # None /\ r.url.http

WithExtension(name, format) ==
    IF "." \in ToSet(name) \/ format = <<>> THEN name
    ELSE name \o <<".">> \o SafeFilename(Lower(format), <<"bin">>)

(* Mutant: without a name, the place in the listing. *)
ResourceNameByPlace(r, i) ==
    WithExtension(SafeFilename(r.name, <<"resource-", ToString(i - 1)>>), r.format)

(* Mutant: no extension for a name that the URL gave. *)
ResourceNameOfUrl(r, i) ==
    LET fallback == UrlFilename(r.url, <<"resource-", ToString(i - 1)>>) IN
    IF SafeFilename(r.name, <<>>) = <<>> THEN fallback
    ELSE WithExtension(SafeFilename(r.name, fallback), r.format)

(* The name of a resource, else of the file its URL names, else its place   *)
(* in the listing.                                                          *)
ResourceName(r, i) ==
    LET fallback == UrlFilename(r.url, <<"resource-", ToString(i - 1)>>) IN
    WithExtension(SafeFilename(r.name, fallback), r.format)

Get(url, filename) == [verb |-> "GET", url |-> url.id, filename |-> filename]

PlanCkan(endpoint, listing) ==
    LET slug == LastSegment(WithoutEndSlashes(endpoint.path))
        planned == {i \in DOMAIN listing : Downloadable(listing[i])}
    IN  IF slug = <<>> \/ planned = {} THEN None
        ELSE [k \in 1..Cardinality(planned) |->
                 LET i == InPlace(planned)[k] IN Get(listing[i].url, ResourceName(listing[i], i))]

-----------------------------------------------------------------------------
(* _plan_stac *)

PlanStac(assets, selection) ==
    LET wanted == {a \in assets : (selection = None \/ a.key \in selection) /\ Downloadable(a)}
        order == Sorted(wanted, [a \in wanted |-> <<a.rank>>])
    IN  IF wanted = {} THEN None
        ELSE [k \in 1..Cardinality(wanted) |->
                 Get(order[k].url,
                     UrlFilename(order[k].url, SafeFilename(order[k].key, <<"asset", ".", "bin">>)))]

-----------------------------------------------------------------------------
(* plan; None if it raises.  A query is [kind, blank]: a "text" may be      *)
(* blank, a "dict" empty.                                                   *)
Plan(method, endpoint, p) ==
    CASE method = "CKAN" -> IF p.listing = None THEN None ELSE PlanCkan(endpoint, p.listing)
      [] method \in {"HTTP", "REST", "PBF_EXTRACT"} ->
             <<Get(endpoint, UrlFilename(endpoint, <<"source-data">>))>>
      [] method = "OVERPASS" ->
             IF p.query = None \/ p.query.kind # "text" \/ p.query.blank THEN None
             ELSE <<[verb |-> "POST", url |-> endpoint.id, filename |-> <<"overpass", ".", "osm">>]>>
      [] method = "STAC" -> IF p.assets = None THEN None ELSE PlanStac(p.assets, p.selection)
      [] method \in {"WMS", "WFS", "WMTS"} ->
             IF p.query = None \/ p.query.kind # "dict" \/ p.query.blank THEN None
             ELSE <<Get(endpoint, UrlFilename(endpoint, <<Lower(<<method>>)[1], "-response", ".", "bin">>))>>
      [] OTHER -> None

(* What a plan of each method depends on: the parameters and the answer of  *)
(* the catalogue.                                                           *)
Inputs(method) ==
    CASE method = "CKAN" -> [listing: Listings]
      [] method = "STAC" -> [assets: Items, selection: Selections]
      [] method \in {"OVERPASS", "WMS", "WFS", "WMTS"} -> [query: Queries]
      [] OTHER -> {[query |-> None]}

CallPlan ==
    /\ request = None
    /\ \E method \in AccessMethods, endpoint \in Endpoints : \E p \in Inputs(method) :
           LET planned == Plan(method, endpoint, p) IN
           Answer([call |-> "plan", method |-> method, endpoint |-> endpoint, p |-> p],
                  planned # None, planned)

-----------------------------------------------------------------------------
(* A resource that has a file name of its own, in its name or in its URL.   *)
Named(r) == SafeFilename(r.name, <<>>) # <<>> \/ UrlFilename(r.url, <<>>) # <<>>

(* A catalogue that lists the same resources in another order, or others    *)
(* that cannot be downloaded among them, is asked for the same files under  *)
(* the same names, so that the version made of them has the fingerprint of  *)
(* the one before; except for a resource whose place is its only name       *)
(* (acquisition.py:236-253; the fingerprint sorts what was downloaded,      *)
(* service.py:154).                                                         *)
ReorderedListingsPlanTheSame ==
    Answered("plan") /\ request.method = "CKAN" =>
        \A listing \in Listings \ {None} :
            LET asked(s) == [r \in {q \in ToSet(s) : Downloadable(q)} |->
                                Cardinality({i \in DOMAIN s : s[i] = r})]
                same == PlanCkan(request.endpoint, listing)
            IN  (asked(listing) = asked(request.p.listing)
                     /\ \A r \in DOMAIN asked(listing) : Named(r))
                    => ToBag(same) = ToBag(answer)
=============================================================================
