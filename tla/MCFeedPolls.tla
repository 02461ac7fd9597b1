---------------------------- MODULE MCFeedPolls -----------------------------
(***************************************************************************)
(* What the publishers may answer in the TLC runs of FeedPolls: for each   *)
(* feed the answers its adapter tells apart, among them late ones, empty   *)
(* ones and those it refuses.                                              *)
(***************************************************************************)
EXTENDS FeedPolls, TLC

CONSTANTS
    i1, i2,         \* incidents and alerts
    high, low,      \* tide types
    st1, st2,       \* stations and stops
    al1, al2,       \* storms
    Horizon         \* the hours of a forecast

SeqsUpTo(S, n) == UNION {[1 .. k -> S] : k \in 0 .. n}

MCIsland == {1, 2}
MCCorridors == {{3}}

Incidents(t) ==
    [id : {i1, i2}, received : {t}, closed : {None, t, t + 1}]
        \cup {[id |-> None, received |-> t, closed |-> None]}

Alerts(t) ==
    [id : {i1, None}, url : {i2, None}, effective : {None}, sent : {t}, expires : {None, t + 2}]

(* The hours of a forecast made at t, or an hour before. *)
Periods(t, late) ==
    [n \in 1 .. Horizon |->
        LET start == Hour * (t \div Hour + n - 1 - late) IN
        [number |-> n, start |-> start, end |-> start + Hour]]

HourlyAnswers(t) ==
    {[forecast |-> None],
     [forecast |-> <<[number |-> None, start |-> t, end |-> t + Hour]>>]}
        \cup {[forecast |-> Periods(t, late)] : late \in {0, 1}}

ObservationAnswers(t) ==
    [stations : {<<>>, <<st1>>, <<st2, st1>>},
     reading : [{st1, st2} -> {None, t - 1, t}]]

Row(t, type) == [t |-> t, type |-> type]

(* The rows of a window that begins at the time first and ends at last. *)
Measured(first, last) == [i \in 1 .. last - first + 1 |-> Row(first + i - 1, None)]

CoopsRows(product, t) ==
    CASE product = "water_level" -> {Measured(t - Hour, t), Measured(t - Hour, t - 1), <<>>}
      [] product = "predicted_water_level" -> {Measured(t - Hour, t + Hour)}
      [] product = "tide_predictions" -> {<<Row(1, high), Row(13, low)>>, <<Row(13, low)>>}
      [] product = "wind" -> {<<Row(t, None)>>, <<Row(t - 1, None)>>}

CoopsAnswers(product, t) ==
    {[error |-> TRUE, rows |-> <<>>], [error |-> FALSE, rows |-> <<Row(None, None)>>]}
        \cup {[error |-> FALSE, rows |-> rows] : rows \in CoopsRows(product, t)}

EiaAnswers(t) ==
    {<<>>} \cup {<<row>> : row \in
        [metric : {"demand", "net_generation"}, period : {None, t - 1, t},
         value : {None, 7}, unit : {None, "MWh"}]}

(* Frames of the last minutes, in any order, and the service's default. *)
RadarAnswers(t) ==
    LET clock == RadarClock(t)
        times == {clock, clock - 240, clock - 330, clock - 1200}
    IN {None, [times |-> <<clock, None>>, default |-> None]}
        \cup [times : SeqsUpTo(times, 3), default : {None, clock + 60, clock - 240}]

(* Documents of a storm's product: no archive, nothing usable, one shape,  *)
(* shapes of one kind, shapes of two.                                      *)
Text(role, pairs) == [role |-> role, pairs |-> pairs]
Point == [kind |-> "Point", texts |-> <<Text("own", 1)>>]
Line == [kind |-> "LineString", texts |-> <<Text("own", 2)>>]
Stub == [kind |-> "LineString", texts |-> <<Text("own", 1)>>]
Cone == [kind |-> "Polygon", texts |-> <<Text("outer", 4), Text("inner", 3)>>]
Documents == {None, <<Stub>>, <<Cone>>, <<Line, Stub, Line>>, <<Point, Line, Cone>>}

Products(p) ==
    {<<>>} \cup {p :> product : product \in
        [official : BOOLEAN, issued : {None, 1}, document : Documents]}

Storm(id, name, products) ==
    [id |-> id, name |-> name, updated |-> 0, center |-> None, products |-> products]

StormAnswers ==
    LET first == {Storm(al1, None, products) : products \in Products("forecast_cone")}
        second == {Storm(None, al2, "forecast_track" :> [official |-> TRUE, issued |-> None,
                                                         document |-> d]) : d \in Documents}
    IN {<<>>, <<Storm(None, None, <<>>)>>} \cup {<<s>> : s \in first \cup second}
        \cup {<<s, t>> : s \in first, t \in second}

Feature(id, shape, cells, zip, class) ==
    [id |-> id, shape |-> shape, cells |-> cells, zip |-> zip, class |-> class, expires |-> None]

FeatureAnswers ==
    SeqsUpTo({Feature(id, shape, at[1], at[2], "AE") :
                id \in {i1, i2}, shape \in {"Point", "Polygon"},
                at \in {<<{1}, FALSE>>, <<{3}, FALSE>>, <<{9}, FALSE>>, <<{9}, TRUE>>}}
             \cup {Feature(None, "Point", {1}, FALSE, "AE"), Feature(i1, "Scraps", {}, FALSE, "AE"),
                   Feature(i2, "Line", {}, FALSE, "AE")},
             2)

(* Up to three features of two classes, whose polygons overlap, and one    *)
(* among two whose rings are scraps.                                       *)
ZoneAnswers ==
    LET zones(id) == {Feature(id, "Polygon", cells, FALSE, class) :
                        cells \in {{1, 2}, {2, 3}}, class \in {"AE", "VE"}}
                     \cup {Feature(id, "Line", {}, FALSE, "AE"), Feature(id, "Point", {1}, FALSE, "VE")}
        scraps == Feature(i2, "Scraps", {}, FALSE, "AE")
    IN {<<>>} \cup {<<z>> : z \in zones(i1)} \cup {<<z, y>> : z \in zones(i1), y \in zones(i2)}
        \cup {<<z, scraps>> : z \in zones(i1)}
        \cup {<<z, y, x>> : z \in zones(i1), y \in zones(i2), x \in zones(al1)}

TransitAnswers ==
    LET trip(id, route, shape) == [id |-> id, route |-> route, shape |-> shape]
        point(shape, order, cell) == [shape |-> shape, order |-> order, cell |-> cell]
    IN [whole : BOOLEAN,
        stops : {{[id |-> st1, cell |-> 1], [id |-> st2, cell |-> 9], [id |-> i1, cell |-> None]}},
        stopTimes : SUBSET ([trip : {"t1", "t2"}, stop : {st1, st2}]),
        trips : {<<trip("t1", "A", 1), trip("t2", "B", 2)>>,
                 <<trip("t1", "A", 2), trip("t2", "A", 1)>>,
                 <<trip("t1", "A", 1), trip("t1", "B", None)>>,
                 <<trip("t1", None, 2), trip("t2", "B", 2)>>},
        points : {{point(1, 2, 1), point(1, 1, 9), point(2, 1, 3)}}]

(* Pages of headings, texts, scripts and comments. *)
Piece(kind, word) == [kind |-> kind, word |-> word]

Pieces == {Piece("heading", "Active"), Piece("heading", "Past"), Piece("heading", "Share"),
           Piece("text", "boil"), Piece("text", "lifted"), Piece("script", "boil"),
           Piece("comment", "lifted")}

Node == <<Piece("text", "boil"), Piece("script", "lifted"), Piece("comment", "lifted")>>

Headings == {piece \in Pieces : piece.kind = "heading"}

(* Short pages of any pieces, and pages of two sections. *)
Pages ==
    SeqsUpTo(Pieces, 3)
        \cup {<<h, p, g, q>> : h \in Headings, g \in Headings,
                              p \in Pieces \ Headings, q \in Pieces \ Headings}

PageAnswers == [page : Pages, nodes : {{}, {Node}, {Node, <<>>}}]

MCWebSource ==
    [boil_water |-> [emitRecords |-> TRUE, activeSection |-> <<"Active", "Past">>, terms |-> {}],
     bulletins |-> [emitRecords |-> TRUE, activeSection |-> None, terms |-> {"boil"}],
     evacuation |-> [emitRecords |-> FALSE, activeSection |-> None, terms |-> {}]]

MCAnswers(name, t) ==
    CASE name = "pulsepoint" ->
            [active : SeqsUpTo(Incidents(t), 1), recent : SeqsUpTo(Incidents(t), 1)]
      [] name = "alerts" -> SeqsUpTo(Alerts(t), 2)
      [] name = "hourly" -> HourlyAnswers(t)
      [] name = "observation" -> ObservationAnswers(t)
      [] name \in CoopsProducts -> CoopsAnswers(name, t)
      [] name = "demand" -> EiaAnswers(t)
      [] name = "radar" -> RadarAnswers(t)
      [] name = "storms" -> StormAnswers
      [] name \in {"closures", "shelters"} -> FeatureAnswers
      [] name = "zones" -> ZoneAnswers
      [] name = "transit" -> TransitAnswers
      [] name = "boil_water" -> {said \in PageAnswers : said.nodes = {Node} \/ said.page = <<>>}
      [] OTHER -> {said \in PageAnswers : Len(said.page) < 2}

(* The answers above satisfy the hypotheses of the theorems.               *)
ASSUME PublishersAssumption ==
    /\ HoursNumberedOnce
    /\ TimesMeasuredOnce
    /\ StormsNamedOnce
    /\ ZonesStand
=============================================================================
