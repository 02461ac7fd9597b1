------------------------------ MODULE MapFeeds ------------------------------
(***************************************************************************)
(* The adapters whose answers are features of a map: the storms of the     *)
(* National Hurricane Center with their KMZ products, ArcGIS services,     *)
(* dissolved flood zones, and the stops and routes of a GTFS archive.      *)
(***************************************************************************)
EXTENDS FeedRecords

CONSTANTS
    Island,         \* the cells of the map the island polygon covers
    Corridors       \* the buffered causeways, each a set of cells

-----------------------------------------------------------------------------
(* geography.py *)

IsMiamiBeachRelevant(cell) == cell \in Island \cup UNION Corridors

-----------------------------------------------------------------------------
(* nhc.py, _kml_geometry.  An element is its kind and, of each <coordinates>*)
(* text in it, the role and the number of pairs: a point and a line have   *)
(* one such text, a polygon one for each of its boundaries.                *)

(* The boundaries that make rings. *)
Rings(element) ==
    {text \in ToSet(element.texts) : text.pairs >= 4 /\ text.role \in {"outer", "inner"}}

Usable(element) ==
    CASE element.kind = "Point" -> element.texts[1].pairs >= 1
      [] element.kind = "LineString" -> element.texts[1].pairs >= 2
      [] element.kind = "Polygon" -> Rings(element) # {}

Multi == [Point |-> "MultiPoint", LineString |-> "MultiLineString", Polygon |-> "MultiPolygon"]

(* The type of the geometry and its parts, or None where nothing is usable.*)
KmlGeometry(document) ==
    LET parts == Picked(document, {i \in DOMAIN document : Usable(document[i])})
        kinds == {parts[i].kind : i \in DOMAIN parts}
    IN IF parts = <<>> THEN None
       ELSE [type |-> IF Len(parts) = 1 THEN parts[1].kind
                      ELSE IF Cardinality(kinds) = 1 THEN Multi[parts[1].kind]
                      ELSE "GeometryCollection",
             parts |-> parts]

(* The products a storm may name, GIS_PRODUCTS. *)
GisProducts == {"forecast_track", "forecast_cone", "watch_warning",
                "current_wind_radii", "forecast_wind_radii"}

(* Seeded fault: a product that cannot be fetched is left out. *)
WantedIfFetched(storm) ==
    {p \in DOMAIN storm.products :
        storm.products[p].official /\ storm.products[p].document # None}

(* The products fetched: those at the center's own address. *)
Wanted(storm) == {p \in DOMAIN storm.products : storm.products[p].official}

StormId(storm) == Or(storm.id, storm.name)

StormRecord(storm, kind, observed, geometry) ==
    Record(<<StormId(storm), kind>>, <<StormId(storm), kind>>, geometry, observed, None)

(* fetch: all products at once, and one that fails, or is no archive of    *)
(* one KML document, fails the poll.  normalize: a center for each storm,  *)
(* and a record for each document that was fetched for it.                 *)
StormRecords(storms) ==
    LET wanted == {w \in (DOMAIN storms) \X GisProducts : w[2] \in Wanted(storms[w[1]])}
        document(w) == storms[w[1]].products[w[2]].document
        center(storm) == StormRecord(storm, "center", storm.updated, storm.center)
        product(w) ==
            LET storm == storms[w[1]] IN
            StormRecord(storm, w[2], Or(storm.products[w[2]].issued, storm.updated),
                        KmlGeometry(document(w)))
    IN IF \/ \E i \in DOMAIN storms : StormId(storms[i]) = None
          \/ \E w \in wanted : document(w) = None \/ KmlGeometry(document(w)) = None
       THEN Refused
       ELSE Accepted([i \in DOMAIN storms |-> center(storms[i])]
                     \o SetToSeq({product(w) : w \in wanted}))

-----------------------------------------------------------------------------
(* arcgis.py.  A feature's shape is the kind of its geometry and the cells *)
(* it covers.  Rings are taken as make_valid leaves them: a polygon, empty *)
(* perhaps, lines or points when they enclose nothing, of a collection its *)
(* polygons, and scraps where the collection has none.                     *)

(* Points outside the area are left out, unless their ZIP is the city's;   *)
(* a service without geographic scope is taken as it answers.              *)
InArea(scoped, feature) ==
    \/ ~scoped
    \/ feature.shape # "Point"
    \/ feature.zip
    \/ \A cell \in feature.cells : IsMiamiBeachRelevant(cell)

FeatureRecord(feature) == Record(feature.id, feature.id, feature, None, feature.expires)

(* Scraps refuse the answer; rings that became lines do not. *)
ValidFeature(feature) == feature.id # None /\ feature.shape # "Scraps"

ArcGisRecords(scoped, features) ==
    IF \A i \in DOMAIN features : ValidFeature(features[i])
    THEN LET kept == Picked(features, {i \in DOMAIN features : InArea(scoped, features[i])})
         IN Accepted([i \in DOMAIN kept |-> FeatureRecord(kept[i])])
    ELSE Refused

(* Seeded fault: the geometry of the first member stands for all. *)
DissolvedToFirst(class, members) ==
    <<Record(<<"dissolved", class>>, <<"dissolved", class>>,
             [members[1].says EXCEPT !.shape = "Polygon"], members[1].at, members[1].expires)>>

(* The features of a class become one, the union of its polygons under the *)
(* attributes of the first; a class without a polygon is passed on as it is.*)
Dissolved(class, members) ==
    LET polygons == {m \in ToSet(members) : m.says.shape = "Polygon"}
        area == UNION {m.says.cells : m \in polygons}
        whole == [members[1].says EXCEPT !.shape = "Polygon", !.cells = area]
    IN IF polygons = {} THEN members
       ELSE <<Record(<<"dissolved", class>>, <<"dissolved", class>>, whole,
                     members[1].at, members[1].expires)>>

DissolvedRecords(scoped, features) ==
    LET plain == ArcGisRecords(scoped, features)
        classes == {r.says.class : r \in ToSet(plain.records)}
        of(class) == Picked(plain.records, {i \in DOMAIN plain.records :
                                                plain.records[i].says.class = class})
    IN IF plain.ok
       THEN Accepted(FlattenSeq(SetToSeq({Dissolved(class, of(class)) : class \in classes})))
       ELSE Refused

-----------------------------------------------------------------------------
(* gtfs.py.  An archive without one of its tables is refused; rows that    *)
(* lack a position are passed over.                                        *)

(* Two rows with one trip_id: the later stands. *)
TripsById(trips) ==
    [id \in {trips[i].id : i \in DOMAIN trips} |->
        trips[SelectLastInSeq(trips, LAMBDA trip : trip.id = id)]]

RelevantStops(archive) ==
    {s \in archive.stops : s.cell # None /\ IsMiamiBeachRelevant(s.cell)}

(* Seeded fault: any row of a relevant trip counts. *)
RelevantTripRows(archive) ==
    LET stopIds == {s.id : s \in RelevantStops(archive)}
        calls == {c \in archive.stopTimes : c.stop \in stopIds}
    IN {trip \in ToSet(archive.trips) : trip.id \in {c.trip : c \in calls}}

RelevantTrips(archive) ==
    LET stopIds == {s.id : s \in RelevantStops(archive)}
        calls == {c \in archive.stopTimes : c.stop \in stopIds}
        byId == TripsById(archive.trips)
    IN {byId[id] : id \in DOMAIN byId \cap {c.trip : c \in calls}}

(* Of the shapes a route's trips follow, the first is drawn: its points,   *)
(* each with its place on the line.                                        *)
GtfsRecords(archive) ==
    LET stops == RelevantStops(archive)
        trips == RelevantTrips(archive)
        routes == {trip.route : trip \in trips} \ {None}
        shapes(route) == {trip.shape : trip \in {t \in trips : t.route = route}} \ {None}
        line(shape) ==
            {[order |-> p.order, cell |-> p.cell] : p \in {q \in archive.points : q.shape = shape}}
        drawn(route) == IF shapes(route) = {} THEN {} ELSE line(Min(shapes(route)))
        stop(s) == Record(<<"stop", s.id>>, <<"stop", s.id>>, s.cell, None, None)
        route(r) == Record(<<"route", r>>, <<"route", r>>, drawn(r), None, None)
    IN IF archive.whole
       THEN Accepted(SetToSeq({stop(s) : s \in stops}) \o SetToSeq({route(r) : r \in routes}))
       ELSE Refused
=============================================================================
