---------------------------- MODULE MCAlgorithms ----------------------------
(* Small inputs of every computation for TLC. *)
EXTENDS Algorithms

(* Listings of up to three resources: with a name, with none, with a dot in *)
(* it, with nothing safe in it; by a URL that names a file or does not, or  *)
(* that is not HTTP.                                                        *)
Words ==
    "KML" :> "kml" @@ "GeoJSON" :> "geojson" @@ "PDF" :> "pdf"
    @@ "WMS" :> "wms" @@ "WFS" :> "wfs" @@ "WMTS" :> "wmts"
    @@ [w \in {"kml", "geojson", "pdf", ".", "/", " ", "wards", "basin", "ward", "no", "63",
               "dataset"} |-> w]
Url(id, http, tokens) == [id |-> id, http |-> http, path |-> tokens]
Resource(url, name, format) == [object |-> TRUE, url |-> url, name |-> name, format |-> format]
Resources ==
    {Resource(Url("u1", TRUE, <<"/", "wards", ".", "kml">>), <<"wards">>, <<"KML">>),
     Resource(Url("u2", TRUE, <<"/", "dataset", "/">>), <<>>, <<"KML">>),
     Resource(Url("u3", TRUE, <<"/", "basin">>), <<" ">>, <<"GeoJSON">>),
     Resource(Url("u4", TRUE, <<"/", "basin">>), <<"ward", " ", "no", ".", " ", "63">>, <<"KML">>),
     Resource(Url("u5", TRUE, <<"/", "wards">>), <<"basin", "/", "wards">>, <<" ">>),
     Resource(Url("u6", FALSE, <<"/", "basin">>), <<"basin">>, <<"KML">>),
     [object |-> FALSE, url |-> None, name |-> <<>>, format |-> <<>>]}
SomeListings == {None} \cup UNION {{s \in [1..n -> Resources] : IsInjective(s)} : n \in 0..3}
SomeEndpoints ==
    {Url("e1", TRUE, <<"/", "dataset", "/", "wards", "/">>),
     Url("e2", TRUE, <<"/", "basin", ".", "pdf">>), Url("e3", TRUE, <<"/">>)}

Asset(key, rank, url) == [key |-> key, rank |-> rank, object |-> TRUE, url |-> url]
Assets ==
    {Asset(<<"kml">>, 1, Url("a1", TRUE, <<"/">>)), Asset(<<" ">>, 2, Url("a2", TRUE, <<"/">>)),
     Asset(<<"pdf">>, 3, Url("a3", TRUE, <<"/", "basin", ".", "pdf">>)), Asset(<<"basin">>, 4, None)}
SomeItems == {None} \cup {{}} \cup {{a, b} : a, b \in Assets}
SomeSelections == {None, {}, {<<"kml">>, <<"pdf">>}}
SomeQueries == {None} \cup [kind: {"text", "dict"}, blank: BOOLEAN]
EndpointOf == [s \in Slugs |-> CHOOSE e \in SomeEndpoints : e.id = "e1"]
SomeEnvironments == {{}, {"EARTHDATA_TOKEN", "COPERNICUS_ACCESS_TOKEN"}}
TwoFormats == {<<"KML">>, <<"GeoJSON">>}
AnyProvenance == Slugs

-----------------------------------------------------------------------------
(* Files: every kind of element and geometry, sound and broken, nested up   *)
(* to two deep, by one, two and three.                                      *)
Multi(children) == Element("MultiGeometry", <<>>, children)
Outer == <<"p", "q", "r", "p">>
Simple ==
    {Element("Point", <<t>>, <<>>) : t \in {<<"p">>, <<"q", "r">>, <<"short">>}}
    \cup {Element("Point", <<<<"q">>, <<"bad">>>>, <<>>)}
    \cup {Element("LineString", <<t>>, <<>>) : t \in {<<"p", "q", "short", "r">>, <<"q">>, <<"r", "bad", "p">>}}
    \cup {Element("Polygon", t, <<>>) : t \in {<<Outer>>, <<Outer, <<"q", "r", "q">>, <<"r", "q", "p", "r">>>>,
                                         <<>>, <<<<"p", "short", "q", "p">>>>}}
    \cup {Element("Model", <<<<"p">>>>, <<>>)}
Compound ==
    {Multi(<<>>)} \cup {Multi(<<a, b>>) : a, b \in Simple}
    \cup {Multi(<<a, Multi(<<b, b>>)>>) : a, b \in Simple}
Placemarks == {<<>>} \cup {<<e>> : e \in Simple \cup Compound} \cup {<<a, b>> : a, b \in Simple}

P(x) == Leaf(At(x))
Geometries ==
    {Null, Node("missing", <<>>), Geometry("Point", P("p")), Geometry("Point", Other),
     Geometry("LineString", List(<<P("q"), P("r")>>)), Geometry("LineString", List(<<>>)),
     Geometry("Polygon", List(<<List(<<P("p"), P("q"), P("r")>>), List(<<>>)>>)),
     Geometry("Polygon", List(<<List(<<P("p"), Other>>)>>))}
Nested ==
    Geometries \cup {Collection(s) : s \in UNION {[1..n -> Geometries] : n \in 0..2}}
    \cup {Collection(<<Collection(<<g, Null>>), g>>) : g \in Geometries}
FeaturesOf(geometries) ==
    [object: {TRUE}, geometry: geometries] \cup {[object |-> FALSE, geometry |-> Null]}
File(kind, content) == [kind |-> kind, content |-> content]
SomeFiles ==
    {File("kml", s) : s \in UNION {[1..n -> Placemarks] : n \in 0..1}}
    \cup {File("kml", <<a, <<b>>>>) : a \in Placemarks, b \in Simple}
    \cup {File(k, <<f>>) : k \in {"FeatureCollection", "Topology", "txt"}, f \in FeaturesOf(Nested)}
    \cup {File("Feature", <<[object |-> TRUE, geometry |-> g]>>) : g \in Nested}
    \cup {File("FeatureCollection", s) : s \in UNION {[1..n -> FeaturesOf(Geometries)] : n \in 0..3}}
ThreePlaces == {"p", "q", "r"}
SomeNames == Known \cup {"MultiGeometry", "Model", "other", "missing"}
DriftOf == "p" :> 0 @@ "q" :> 2 @@ "r" :> 1

-----------------------------------------------------------------------------
(* Grids: nested, interleaved, shifted within the slack and beyond it, a    *)
(* point on a midpoint, points beyond the ends, and arrays that are too     *)
(* short or not increasing.                                                 *)
EdgesX3 == {<<0, 3>>, <<0, 1, 3>>, <<0, 2, 3>>, <<1, 2, 3>>, <<0, 1, 4>>}
EdgesY3 == {<<0, 2>>, <<0, 1, 2>>, <<1, 3>>, <<0>>, <<0, 2, 1>>}
CentersX3 == {<<0, 2>>, <<0, 1, 3>>, <<1>>, <<1, 4>>, <<2, 1>>}
CentersY3 == {<<0, 2>>, <<1>>, <<1, 3>>, <<0, 0>>}
Tolerances2 == {-1, 0, 1}
Rates3 == {-1, 0, 2}
Uncertainties3 == {None, -1, 1}

-----------------------------------------------------------------------------
(* Maps: up to three dashes in any order, of one line within and beyond the *)
(* gap, one within another, upright, slanted, too short, on a neighbouring  *)
(* line or not red; manholes and labels near and far.                       *)
Drawn(colour, points) ==
    [colour |-> colour, closed |-> FALSE,
     points |-> [i \in DOMAIN points |-> <<Unit * points[i][1], Unit * points[i][2]>>]]
Red(p, q) == Drawn("red", <<p, q>>)
DashPool ==
    {Red(<<0, 0>>, <<40, 0>>), Red(<<5, 1>>, <<10, 1>>), Red(<<52, 0>>, <<60, 0>>),
     Red(<<60, 2>>, <<50, 2>>), Red(<<53, 0>>, <<58, 0>>), Red(<<0, 1>>, <<50, -1>>),
     Red(<<20, 10>>, <<20, 25>>), Drawn("black", <<<<0, 0>>, <<99, 0>>>>),
     Drawn("red", <<<<0, 30>>, <<12, 30>>, <<12, 30>>, <<12, 45>>>>),
     Red(<<0, 6>>, <<12, 6>>), Red(<<0, -2>>, <<8, -2>>)}
UpToThreeDashes == UNION {{s \in [1..n -> DashPool] : IsInjective(s)} : n \in 1..3}
Ring(x, y, w, h) ==
    LET r == w \div 2  t == h \div 2 IN
    Drawn("cyan", <<<<x - r, y>>, <<x - 4, y - 4>>, <<x, y - t>>, <<x + 4, y - 4>>, <<x + r, y>>,
                    <<x + 4, y + 4>>, <<x, y + t>>, <<x - 4, y + 4>>, <<x - r, y>>>>)
Rings ==
    {<<Ring(10, 20, 14, 14)>>, <<Ring(20, 40, 12, 12), Ring(26, 17, 16, 16)>>,
     <<Ring(-30, 0, 14, 14), Ring(10, 10, 16, 14)>>, <<Ring(30, 41, 14, 14)>>,
     <<Drawn("cyan", <<<<0, 0>>, <<14, 14>>>>)>>}
Span(text, x, y) ==
    [text |-> text, drainage |-> text # "title", manhole |-> text \in {"MH 1", "MH 2"},
     point |-> <<Unit * x, Unit * y>>]
Spans ==
    {<<Span("MH 1", 10, 50), Span("SEWER", 11, 20)>>, <<Span("MH 1", 40, 40), Span("MH 2", 20, 20)>>,
     <<Span("title", 10, 20), Span("MH 2", 30, 11)>>, <<Span("IVL", 90, 90)>>, <<Span("MH 1", 5, 20)>>}

-----------------------------------------------------------------------------
(* Calibrations of three to five controls on a grid of two by three, by     *)
(* maps that turn, stretch or flatten, with one control displaced or none,  *)
(* or twice the same.                                                       *)
SomeTransforms ==
    {<<1, 0, 0, 0, 1, 0>>, <<2, -1, 1, 1, 1, 0>>, <<0, 1, 2, -1, 0, 3>>, <<1, 0, 0, 2, 0, 1>>}
PageGrid == (0..1) \X (0..2)
InOrder(s) == \A i, j \in DOMAIN s : i < j => 3 * s[i][1] + s[i][2] < 3 * s[j][1] + s[j][2]
Layouts == {s \in [1..4 -> PageGrid] : InOrder(s)}
           \cup {<<<<0, 0>>, <<1, 1>>, <<0, 2>>>>, <<<<0, 0>>, <<1, 1>>, <<0, 2>>, <<1, 0>>, <<1, 2>>>>, <<<<0, 0>>, <<0, 1>>, <<0, 0>>, <<1, 0>>>>}
Controls(pages, t, i, by) ==
    [j \in DOMAIN pages |->
        LET z == Image(t, pages[j]) IN
        [page |-> pages[j], target |-> IF j = i THEN <<z[1] + by[1], z[2] + by[2]>> ELSE z]]
SomeCalibrations ==
    {Controls(pages, t, i, by) : pages \in Layouts, t \in SomeTransforms, i \in 1..4,
                                 by \in {<<0, 0>>, <<0, 2>>, <<-4, 3>>}}

-----------------------------------------------------------------------------
(* Pages of three places and two colours. *)
ThreePoints == {"a", "b", "c"}
OneCurve == {<<"b", "c">>}
OneRectangle == {<<"a", "b", "b", "a">>}
=============================================================================
