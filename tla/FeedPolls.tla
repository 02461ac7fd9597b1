----------------------------- MODULE FeedPolls ------------------------------
(***************************************************************************)
(* One feed polled over and over: each poll takes what the publisher says  *)
(* now, makes records of it as the feed's adapter does, and files them as  *)
(* Repository.upsert_records does for a source with retire_missing, which  *)
(* is every source of the registry.  A refused answer leaves the records   *)
(* alone; what it does to labels and health is SourceIngestion's subject.  *)
(*                                                                         *)
(* A behaviour is about one feed, chosen at the start.  The table keeps    *)
(* the rows a reader would be given: expired rows are dropped from it.     *)
(***************************************************************************)
EXTENDS TimedFeeds, MapFeeds, PageFeeds

CONSTANTS
    Feeds,              \* the feeds to poll, by the names the actions use
    Answers(_, _),      \* what the publisher of a feed may answer at a time
    WebSource,          \* the selection of OfficialWebSource a page is read by
    MaxTime,            \* bound: the half hours polled
    PageLimit           \* the display limit of the feed's category

ASSUME MaxTimeAssumption == MaxTime \in Nat

(* A name stands for one adapter. *)
ASSUME WebSourceAssumption ==
    DOMAIN WebSource \cap (CoopsProducts \cup
        {"pulsepoint", "alerts", "hourly", "observation", "demand", "radar",
         "storms", "closures", "shelters", "zones", "transit"}) = {}

(* What an answer is made of before an adapter looks at it: the arrays of  *)
(* a JSON document and the rows of a table are lists, a page is a list of  *)
(* its pieces, and nothing is without end.                                 *)
ASSUME AnswersAssumption ==
    \A t \in 0 .. MaxTime :
        /\ \A said \in Answers("pulsepoint", t) : IsList(said.active) /\ IsList(said.recent)
        /\ \A said \in Answers("hourly", t) : said.forecast # None => IsList(said.forecast)
        /\ \A name \in CoopsProducts : \A said \in Answers(name, t) : IsList(said.rows)
        /\ \A name \in {"alerts", "storms", "closures", "shelters", "zones"} :
              \A said \in Answers(name, t) : IsList(said)
        /\ \A said \in Answers("zones", t) : \A i \in DOMAIN said :
              {"shape", "class", "cells"} \subseteq DOMAIN said[i]
        /\ \A said \in Answers("storms", t) : \A i \in DOMAIN said :
              LET products == said[i].products
              IN /\ DOMAIN products \subseteq GisProducts
                 /\ \A p \in DOMAIN products :
                       products[p].document # None => IsList(products[p].document)
        /\ \A said \in Answers("transit", t) :
              /\ IsFiniteSet(said.stops) /\ IsList(said.trips)
              /\ \A i \in DOMAIN said.trips : said.trips[i].shape \in Nat \cup {None}
        /\ \A name \in DOMAIN WebSource : \A said \in Answers(name, t) :
              /\ IsList(said.page) /\ IsFiniteSet(said.nodes)
              /\ \A node \in said.nodes : IsList(node)

VARIABLES
    feed,       \* the feed of this behaviour
    now,
    payload,    \* history: the answer last accepted, None before the first
    answer,     \* history: the records made of it
    table       \* the rows by their identity

vars == <<feed, now, payload, answer, table>>

-----------------------------------------------------------------------------
(* The table *)

Ids(records) == {records[i].id : i \in DOMAIN records}

(* Later records with the same identity overwrite earlier ones. *)
Filed(id, records) == records[SelectLastInSeq(records, LAMBDA record : record.id = id)]

Upserted(rows, records) ==
    [id \in DOMAIN rows \cup Ids(records) |->
        IF id \in Ids(records) THEN Filed(id, records) ELSE rows[id]]

(* Seeded fault: an absent row keeps its own expiry. *)
KeptToItsExpiry(row, time) == row

(* A row the answer does not contain expires with it. *)
Retired(row, time) == Record(row.id, row.fact, row.says, row.at, time)

(* Seeded fault: an answer without records retires nothing. *)
RetireIfSeen(rows, seen, time) ==
    [id \in DOMAIN rows |->
        IF id \in seen \/ seen = {} THEN rows[id] ELSE Retired(rows[id], time)]

RetireMissing(rows, seen, time) ==
    [id \in DOMAIN rows |-> IF id \in seen THEN rows[id] ELSE Retired(rows[id], time)]

Unexpired(row, time) == row.expires \in Int => row.expires > time

Current(rows, time) == Restrict(rows, {id \in DOMAIN rows : Unexpired(rows[id], time)})

UpsertRecords(rows, records, time) ==
    Current(RetireMissing(Upserted(rows, records), Ids(records), time), time)

-----------------------------------------------------------------------------
Init ==
    /\ feed \in Feeds
    /\ now = 0
    /\ payload = None
    /\ answer = <<>>
    /\ table = <<>>

Receive(said, result) ==
    /\ IF result.ok
       THEN /\ payload' = said
            /\ answer' = result.records
            /\ table' = UpsertRecords(table, result.records, now)
       ELSE UNCHANGED <<payload, answer, table>>
    /\ UNCHANGED <<feed, now>>

PollPulsePoint ==
    /\ feed = "pulsepoint"
    /\ \E said \in Answers(feed, now) : Receive(said, PulsePointRecords(said))

PollAlerts ==
    /\ feed = "alerts"
    /\ \E said \in Answers(feed, now) : Receive(said, AlertRecords(said))

PollForecast ==
    /\ feed = "hourly"
    /\ \E said \in Answers(feed, now) : Receive(said, FetchForecast(said))

PollObservation ==
    /\ feed = "observation"
    /\ \E said \in Answers(feed, now) : Receive(said, FetchObservation(said))

(* The publisher keeps to the window it is asked for. *)
PollCoops ==
    /\ feed \in CoopsProducts
    /\ \E said \in Answers(feed, now) :
          /\ \A i \in DOMAIN said.rows : said.rows[i].t \in CoopsWindow(feed, now) \cup {None}
          /\ Receive(said, CoopsRecords(feed, said))

PollEia ==
    /\ feed = "demand"
    /\ \E said \in Answers(feed, now) : Receive(said, EiaRecords(feed, said))

PollRadar ==
    /\ feed = "radar"
    /\ \E said \in Answers(feed, now) : Receive(said, RadarRecords(said, RadarClock(now)))

PollStorms ==
    /\ feed = "storms"
    /\ \E said \in Answers(feed, now) : Receive(said, StormRecords(said))

(* Only the closures are confined to the area. *)
PollFeatures ==
    /\ feed \in {"closures", "shelters"}
    /\ \E said \in Answers(feed, now) : Receive(said, ArcGisRecords(feed = "closures", said))

PollZones ==
    /\ feed = "zones"
    /\ \E said \in Answers(feed, now) : Receive(said, DissolvedRecords(TRUE, said))

PollTransit ==
    /\ feed = "transit"
    /\ \E said \in Answers(feed, now) : Receive(said, GtfsRecords(said))

PollNotices ==
    /\ feed \in DOMAIN WebSource
    /\ \E said \in Answers(feed, now) :
          Receive(said, WebRecords(WebSource[feed], said.page, said.nodes))

Tick ==
    /\ now < MaxTime
    /\ now' = now + 1
    /\ table' = Current(table, now')
    /\ UNCHANGED <<feed, payload, answer>>

Next ==
    \/ PollPulsePoint \/ PollAlerts \/ PollForecast \/ PollObservation
    \/ PollCoops \/ PollEia \/ PollRadar \/ PollStorms
    \/ PollFeatures \/ PollZones \/ PollTransit \/ PollNotices
    \/ Tick

Spec == Init /\ [][Next]_vars

-----------------------------------------------------------------------------
(* Properties *)

(* What is shown is what the last accepted answer says, less what has      *)
(* expired: no sequence of answers and refusals leaves a row of an earlier *)
(* one behind, or loses one of the last (upsert_records over normalize).   *)
OnlyTheLastAnswer ==
    table = Current([id \in Ids(answer) |-> Filed(id, answer)], now)

(* No two rows speak of the same hour, measurement, storm product, zone or *)
(* notice, though several adapters number the items of an answer and so    *)
(* know the same fact by another identity in every poll.                   *)
OneRowPerFact ==
    \A a, b \in DOMAIN table : table[a].fact = table[b].fact => a = b

(* A storm on display has its center and every product the center          *)
(* published for it, each with all the shapes its document holds: a        *)
(* product that cannot be fetched or read keeps the poll from being        *)
(* accepted, never from being complete (nhc.py, fetch and normalize).      *)
StormsAreWhole ==
    feed = "storms" /\ payload # None =>
        LET shown(storm) == {row \in ToSet(answer) : row.id[1] = StormId(storm)}
            official(storm) == {p \in DOMAIN storm.products : storm.products[p].official}
        IN /\ \A i \in DOMAIN payload :
                 {table[id].id[2] : id \in {r.id : r \in shown(payload[i])}}
                     = {"center"} \cup official(payload[i])
           /\ \A i \in DOMAIN payload : \A p \in official(payload[i]) :
                 LET parts == table[<<StormId(payload[i]), p>>].says.parts
                     document == payload[i].products[p].document
                 IN \A k \in DOMAIN document :
                       Usable(document[k]) <=> document[k] \in ToSet(parts)

(* A route is shown exactly when a trip of it, by the last row that names  *)
(* the trip, calls at a stop that is shown, and the line drawn for it is   *)
(* the way of such a trip (gtfs.py, the joins of normalize).               *)
RoutesReachTheBeach ==
    feed = "transit" /\ payload # None =>
        LET trips == payload.trips
            standing == {i \in DOMAIN trips : \A j \in DOMAIN trips :
                            j > i => trips[j].id # trips[i].id}
            reaching == {trips[i] : i \in {k \in standing :
                            \E call \in payload.stopTimes :
                                /\ call.trip = trips[k].id
                                /\ <<"stop", call.stop>> \in DOMAIN table}}
            way(shape) == {p.cell : p \in {q \in payload.points : q.shape = shape}}
        IN /\ {id[2] : id \in {i \in DOMAIN table : i[1] = "route"}}
                  = {trip.route : trip \in reaching} \ {None}
           /\ \A id \in DOMAIN table :
                 id[1] = "route" /\ table[id].says # {} =>
                    \E trip \in reaching :
                        /\ trip.route = id[2]
                        /\ {point.cell : point \in table[id].says} = way(trip.shape)

(* Dissolving loses no ground and moves none to another class: the cells   *)
(* shown of a class are those of its polygons (arcgis.py,                  *)
(* DissolvingArcGisAdapter.normalize).                                     *)
ZonesKeepTheirArea ==
    feed = "zones" /\ payload # None =>
        \A class \in {payload[i].class : i \in DOMAIN payload} :
            UNION {row.says.cells : row \in {r \in Range(table) :
                        r.says.class = class /\ r.says.shape = "Polygon"}}
            = UNION {f.cells : f \in {g \in ToSet(payload) :
                        g.class = class /\ g.shape = "Polygon"}}

(* Every word of a notice stands on the page below the heading of active   *)
(* notices, with no heading that ends them in between, and in no script    *)
(* (web.py, _section_text): what the page archives is never shown as       *)
(* current.  A comment of the section may be.                              *)
OnlyActiveSection ==
    feed \in DOMAIN WebSource /\ payload # None /\ WebSource[feed].activeSection # None =>
        LET page == payload.page
            heading(k, word) == page[k].kind = "heading" /\ page[k].word = word
            active(k) == \E i \in 1 .. k - 1 :
                /\ heading(i, WebSource[feed].activeSection[1])
                /\ \A j \in i + 1 .. k : ~heading(j, WebSource[feed].activeSection[2])
        IN \A text \in DOMAIN table : \A word \in ToSet(text) :
              \E k \in DOMAIN page : page[k].word = word /\ page[k].kind # "script" /\ active(k)

-----------------------------------------------------------------------------
(***************************************************************************)
(* Publishers.  What the code takes for granted of an answer and checks    *)
(* nowhere: the hypotheses of the theorems that need them.                 *)
(***************************************************************************)

(* One forecast gives an hour one number (nws.py numbers its records by    *)
(* the period's own number and start).                                     *)
HoursNumberedOnce ==
    \A time \in 0 .. MaxTime : \A said \in Answers("hourly", time) :
        said.forecast # None =>
            \A i, j \in DOMAIN said.forecast :
                said.forecast[i].start = said.forecast[j].start =>
                    said.forecast[i].number = said.forecast[j].number

(* A station's table gives a time one row (coops.py numbers the rows).     *)
TimesMeasuredOnce ==
    \A product \in CoopsProducts, time \in 0 .. MaxTime :
        \A said \in Answers(product, time) : \A i, j \in DOMAIN said.rows :
            said.rows[i].t = said.rows[j].t => i = j

(* A bulletin of the center names a storm once. *)
StormsNamedOnce ==
    \A time \in 0 .. MaxTime : \A said \in Answers("storms", time) : \A i, j \in DOMAIN said :
        StormId(said[i]) = StormId(said[j]) => i = j

(* No expiry field is configured for the flood zones (registry.py), and no *)
(* feature is named the way a dissolved one is.                            *)
ZonesStand ==
    \A time \in 0 .. MaxTime : \A said \in Answers("zones", time) : \A i, j \in DOMAIN said :
        said[i].expires = None /\ said[i].id # <<"dissolved", said[j].class>>

-----------------------------------------------------------------------------
(* The page of a category (Repository.list_records with its limit): the    *)
(* rows whose time is latest.                                              *)

Page == {id \in DOMAIN table :
            Cardinality({other \in DOMAIN table : table[other].at > table[id].at}) < PageLimit}

(* The dashboard's choice from the page: the first hour from the time the  *)
(* panel was mounted on, and the earliest one without it (Dashboard.tsx,   *)
(* WeatherCoastal).                                                        *)
NextHour(renderedAt) ==
    LET coming == {id \in Page : table[id].at >= renderedAt}
        from == IF coming = {} THEN Page ELSE coming
    IN CHOOSE id \in from : \A other \in from : table[id].at <= table[other].at

(* What a panel mounted just now shows as the next-hour forecast begins    *)
(* within the hour, if a forecast that does is held.                       *)
NextHourIsNext ==
    feed = "hourly" /\ (\E id \in DOMAIN table : table[id].at \in now .. now + Hour) =>
        table[NextHour(now)].at \in now .. now + Hour
=============================================================================
