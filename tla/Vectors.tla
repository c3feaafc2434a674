------------------------------ MODULE Vectors ------------------------------
(***************************************************************************)
(* What normalize_vector (floodguard/spatial/vector.py) makes of a KML or   *)
(* GeoJSON file: parse, project to the working CRS, project back for QA.    *)
(* A file is the tree that the XML or JSON reader returns; numbers are left *)
(* out, a position is where it is and in which CRS.  Projection is a        *)
(* library's: it keeps positions apart, and loses Drift on a round trip.    *)
(***************************************************************************)
EXTENDS Calls, Integers, Sequences, FiniteSets, SequencesExt

CONSTANTS
    Files,      \* the files offered
    Places,     \* where a position can be
    Drift,      \* the round trip error of a place
    Names,      \* the tags of elements and the types of geometries
    Depth       \* how deep the elements of a file nest

At(place) == [crs |-> "source", place |-> place]
Project(position, crs) == [position EXCEPT !.crs = crs]

Mapped(s, Op(_)) == [i \in DOMAIN s |-> Op(s[i])]
Only(s, Test(_)) == FlattenSeq(Mapped(s, LAMBDA x : IF Test(x) THEN <<x>> ELSE <<>>))

-----------------------------------------------------------------------------
(* A tree: a position, or a node of some kind with its items.  Coordinates  *)
(* are a position, a list or anything else; a geometry has its coordinates  *)
(* as its one item, a collection has geometries.  An XML element has rings, *)
(* the texts of its coordinates elements, and its children: a ring is a     *)
(* sequence of tokens, a place, "short" (fewer than two numbers) or "bad"   *)
(* (not numbers).  In KML only a MultiGeometry has elements in it.          *)
Tokens == Places \cup {"short", "bad"}
Positions == [crs: {"source", "working", "wgs84"}, place: Places]

Leaf(position) == [kind |-> "position", at |-> position, rings |-> <<>>, items |-> <<>>]
Element(tag, rings, children) ==
    [kind |-> tag, at |-> At(None), rings |-> rings, items |-> children]
Node(kind, items) == Element(kind, <<>>, items)

List(items) == Node("list", items)
Other == Node("other", <<>>)
Geometry(type, coordinates) == Node(type, <<coordinates>>)
Collection(parts) == Node("GeometryCollection", parts)
Null == Node("null", <<>>)
Raised == Node("raised", <<>>)

(* The trees of up to n levels, in a file or made of it. *)
TreesUpTo[n \in Nat] ==
    IF n = 0 THEN {}
    ELSE [kind: {"position"}, at: Positions, rings: {<<>>}, items: {<<>>}]
         \cup [kind: Names, at: {At(None)}, rings: Seq(Seq(Tokens)),
               items: Seq(TreesUpTo[n - 1])]

Elements == TreesUpTo[Depth]
Trees == TreesUpTo[Depth + 3]

Known == {"Point", "LineString", "Polygon", "MultiPoint", "MultiLineString", "MultiPolygon",
          "GeometryCollection", "list", "null", "raised"}

ASSUME VectorsAssumption ==
    /\ Depth \in Nat
    /\ Known \subseteq Names /\ "position" \notin Names
    /\ Drift \in [Places -> Nat]
    /\ {"short", "bad"} \cap Places = {}
    /\ \A file \in Files :
           /\ file.kind = "kml" => file.content \in Seq(Seq(Elements))
           /\ file.kind # "kml" => file.content \in Seq([object: BOOLEAN, geometry: Trees])

Kinds(trees) == {trees[i].kind : i \in DOMAIN trees}

-----------------------------------------------------------------------------
(* KML. *)

(* Mutant: the text is read up to the first token that is not a position. *)
ParseCoordinateTextHead(tokens) ==
    LET stop == SelectInSeq(tokens, LAMBDA t : t = "short") IN
    IF stop = 0 THEN tokens ELSE SubSeq(tokens, 1, stop - 1)

ParseCoordinateText(tokens) == Only(tokens, LAMBDA t : t # "short")

Unreadable(tokens) == "bad" \in ToSet(tokens)
PositionsOf(tokens) == Mapped(ParseCoordinateText(tokens), LAMBDA t : Leaf(At(t)))

Supported == {"Point", "LineString", "Polygon", "MultiGeometry"}
Multiple == [Point |-> "MultiPoint", LineString |-> "MultiLineString", Polygon |-> "MultiPolygon"]

ParsePolygon(rings) ==
    IF rings = <<>> \/ Len(PositionsOf(rings[1])) < 4 \/ (\E i \in DOMAIN rings : Unreadable(rings[i]))
    THEN Raised
    ELSE LET holes == Only(Tail(rings), LAMBDA r : Len(PositionsOf(r)) >= 4)
         IN  Geometry("Polygon", List(Mapped(<<rings[1]>> \o holes, LAMBDA r : List(PositionsOf(r)))))

ParseSimple(element) ==
    LET first == IF element.rings = <<>> THEN <<>> ELSE element.rings[1]
        text == IF Unreadable(first) THEN <<>> ELSE PositionsOf(first)
    IN  CASE element.kind = "Point" ->
                 IF text = <<>> THEN Raised ELSE Geometry("Point", text[1])
          [] element.kind = "LineString" ->
                 IF Len(text) < 2 THEN Raised ELSE Geometry("LineString", List(text))
          [] element.kind = "Polygon" -> ParsePolygon(element.rings)
          [] OTHER -> Raised

Combined(geometries) ==
    IF geometries = <<>> \/ "raised" \in Kinds(geometries) THEN Raised
    ELSE IF Cardinality(Kinds(geometries)) = 1 /\ geometries[1].kind \in DOMAIN Multiple
    THEN Geometry(Multiple[geometries[1].kind], List(Mapped(geometries, LAMBDA g : g.items[1])))
    ELSE Collection(geometries)

Children(element) == Only(element.items, LAMBDA c : c.kind \in Supported)

ParseKmlGeometry[element \in Elements] ==
    IF element.kind # "MultiGeometry" THEN ParseSimple(element)
    ELSE Combined([i \in DOMAIN Children(element) |-> ParseKmlGeometry[Children(element)[i]]])

(* A placemark is the elements in it, of which the first supported one      *)
(* counts; one without any is passed over.                                  *)
TopLevel(placemark) == SelectInSeq(placemark, LAMBDA e : e.kind \in Supported)
ParseKml(file) ==
    Mapped(Only(file.content, LAMBDA p : TopLevel(p) # 0),
           LAMBDA p : ParseKmlGeometry[p[TopLevel(p)]])

-----------------------------------------------------------------------------
(* GeoJSON: the root is a feature, a collection of features, or refused.  A *)
(* feature is [object, geometry]: whether it is an object at all.           *)
ParseGeojson(file) ==
    Mapped(Only(file.content, LAMBDA f : f.object), LAMBDA f : f.geometry)

Accepts(file) == file.kind \in {"kml", "FeatureCollection", "Feature"}
Parse(file) == IF file.kind = "kml" THEN ParseKml(file) ELSE ParseGeojson(file)

-----------------------------------------------------------------------------
(* Projection.  An answer is the tree and its worst round trip error.       *)
Worst(answers) == Max({0} \cup {answers[i].error : i \in DOMAIN answers})

TransformNode(node, answers, crs) ==
    LET values == Mapped(answers, LAMBDA a : a.value) IN
    [value |-> CASE node.kind = "position" -> Leaf(Project(node.at, crs))
                 [] node.kind \in {"other", "missing", "raised"} -> Raised
                 [] OTHER ->
                        IF "raised" \in Kinds(values) THEN Raised
                        ELSE IF node.kind = "GeometryCollection"
                        THEN Collection(Only(values, LAMBDA g : g # Null))
                        ELSE Node(node.kind, values),
     error |-> IF node.kind = "position" THEN Drift[node.at.place] ELSE Worst(answers)]

(* _transform_coordinates and _transform_geometry *)
TransformGeometry(geometry, crs) ==
    LET Transform[v \in Trees] ==
            TransformNode(v, [i \in DOMAIN v.items |-> Transform[v.items[i]]], crs)
    IN  Transform[geometry]

TransformFeatures(features, crs) == Mapped(features, LAMBDA g : TransformGeometry(g, crs))

-----------------------------------------------------------------------------
(* _coordinate_pairs, _geometry_pairs: the positions of a geometry in order.*)
GeometryPairs[v \in Trees] ==
    IF v.kind = "position" THEN <<v.at>>
    ELSE FlattenSeq([i \in DOMAIN v.items |-> GeometryPairs[v.items[i]]])

Pairs(features) == FlattenSeq(Mapped(features, LAMBDA g : GeometryPairs[g]))

NormalizeVector(file) ==
    LET transformed == TransformFeatures(Parse(file), "working")
        working == Mapped(transformed, LAMBDA a : a.value)
        qa == Mapped(TransformFeatures(working, "wgs84"), LAMBDA a : a.value)
    IN  [working |-> working, qa |-> qa, types |-> Kinds(working) \ {"null"},
         error |-> Worst(transformed), bounds |-> ToSet(Pairs(working))]

CallVector ==
    /\ request = None
    /\ \E file \in Files :
           LET result == NormalizeVector(file) IN
           Answer([call |-> "vector", file |-> file],
                  Accepts(file) /\ "raised" \notin Kinds(result.working) /\ Pairs(result.working) # <<>>,
                  result)

-----------------------------------------------------------------------------
(* The rings that are written in an element, in order, each with the kind   *)
(* of the element it is in and those of the elements around that; and what  *)
(* a layer keeps of a ring.                                                 *)
Written(element) ==
    [i \in DOMAIN element.rings |->
        [kind |-> element.kind, nth |-> i, around |-> {},
         places |-> Only(element.rings[i], LAMBDA t : t \in Places)]]

Inside(kind, written) == Mapped(written, LAMBDA w : [w EXCEPT !.around = @ \cup {kind}])

WrittenIn[element \in Elements] ==
    Written(element)
    \o FlattenSeq([i \in DOMAIN element.items |-> Inside(element.kind, WrittenIn[element.items[i]])])

Kept(w) ==
    IF ~(w.around \subseteq {"MultiGeometry"}) THEN <<>>
    ELSE CASE w.kind = "Point" /\ w.nth = 1 /\ w.places # <<>> -> <<w.places[1]>>
           [] w.kind = "LineString" /\ w.nth = 1 -> w.places
           [] w.kind = "Polygon" /\ (w.nth = 1 \/ Len(w.places) >= 4) -> w.places
           [] OTHER -> <<>>

FirstSupported(placemark) ==
    LET first == {i \in DOMAIN placemark :
                     /\ placemark[i].kind \in Supported
                     /\ \A j \in 1..(i - 1) : placemark[j].kind \notin Supported}
    IN  IF first = {} THEN <<>> ELSE <<placemark[CHOOSE i \in first : TRUE]>>

PlacesOf(file) ==
    IF file.kind = "kml"
    THEN LET elements == FlattenSeq(Mapped(file.content, FirstSupported))
             written == FlattenSeq(Mapped(elements, LAMBDA e : WrittenIn[e]))
         IN  FlattenSeq(Mapped(written, Kept))
    ELSE Mapped(Pairs(Mapped(Only(file.content, LAMBDA f : f.object), LAMBDA f : f.geometry)),
                LAMBDA p : p.place)

(* A layer holds the positions of its file, all of them and in order, but   *)
(* for the further positions of a point, the further texts of a point or a  *)
(* line and the holes of fewer than four; the QA copy is the same layer in  *)
(* the same shape, and the alignment error is that of the position that     *)
(* lost most (vector.py:233-303 and 390-418).                               *)
LayersKeepThePositions ==
    Answered("vector") =>
        LET working == Pairs(answer.working) IN
        /\ working = Mapped(PlacesOf(request.file), LAMBDA p : [crs |-> "working", place |-> p])
        /\ Pairs(answer.qa) = Mapped(working, LAMBDA p : Project(p, "wgs84"))
        /\ Mapped(answer.qa, LAMBDA g : g.kind) = Mapped(answer.working, LAMBDA g : g.kind)
        /\ answer.error = Max({Drift[working[i].place] : i \in DOMAIN working})
=============================================================================
