----------------------------- MODULE TimedFeeds -----------------------------
(***************************************************************************)
(* The adapters whose answers are windows of time that move on from poll   *)
(* to poll: PulsePoint, the National Weather Service, CO-OPS and EIA.      *)
(***************************************************************************)
EXTENDS FeedRecords

-----------------------------------------------------------------------------
(* pulsepoint.py: the active incidents, then the recent ones.  An incident *)
(* with a closing time leaves the display then.                            *)

IncidentRecord(state, raw) ==
    Record(raw.id, raw.id, state, raw.received, raw.closed)

PulsePointRecords(payload) ==
    LET filed(status, list) == [i \in DOMAIN list |-> IncidentRecord(status, list[i])]
    IN EachRecord(filed("active", payload.active) \o filed("recent", payload.recent),
                  {raw \in ToSet(payload.active \o payload.recent) : raw.id = None})

-----------------------------------------------------------------------------
(* nws.py *)

AlertId(feature) == Or(feature.id, feature.url)

AlertRecords(features) ==
    LET filed(feature) == Record(AlertId(feature), AlertId(feature), "alert",
                                 Or(feature.effective, feature.sent), feature.expires)
    IN EachRecord([i \in DOMAIN features |-> filed(features[i])],
                  {feature \in ToSet(features) : AlertId(feature) = None})

(* The number of a period is its place in the answer, so an hour has       *)
(* another identity in every answer it is part of.                         *)
ForecastRecords(periods) ==
    LET filed(period) == Record(<<period.number, period.start>>, period.start, "forecast",
                                period.start, period.end)
    IN EachRecord([i \in DOMAIN periods |-> filed(periods[i])],
                  {period \in ToSet(periods) : period.number = None})

(* The first request names the address of the second. *)
FetchForecast(point) ==
    IF point.forecast = None THEN Refused ELSE ForecastRecords(point.forecast)

(* One record, of the nearest station; a reading counts for half an hour. *)
ObservationRecords(station, observed) ==
    IF station = None \/ observed = None
    THEN Refused
    ELSE Accepted(<<Record(<<station, observed>>, "conditions", station, observed, observed + 1)>>)

(* Three requests: the point, its stations, the latest reading of the      *)
(* first of them.                                                          *)
FetchObservation(point) ==
    IF point.stations = <<>>
    THEN Refused
    ELSE ObservationRecords(point.stations[1], point.reading[point.stations[1]])

-----------------------------------------------------------------------------
(* coops.py *)

CoopsProducts == {"water_level", "predicted_water_level", "tide_predictions", "wind"}

Predicted == {"predicted_water_level", "tide_predictions"}

(* The window the request asks for.  Tide predictions start at midnight,   *)
(* here the time 0; wind stands for the four products that are asked for   *)
(* their latest row only.                                                  *)
CoopsWindow(product, now) ==
    CASE product = "water_level" -> now - Hour .. now
      [] product = "predicted_water_level" -> now - Hour .. now + Hour
      [] product = "tide_predictions" -> 0 .. 48 * Hour
      [] OTHER -> now - 1 .. now

CoopsExpiry(product, observed) ==
    observed + (IF product = "tide_predictions" THEN 12 ELSE 2) * Hour

(* A row without a tide type is known by its time and its place in the     *)
(* answer: when the window moves on, the same measurement has a new place. *)
CoopsRecords(product, payload) ==
    LET rows == payload.rows
        record(i) ==
            Record(<<rows[i].t, Or(rows[i].type, i - 1)>>, rows[i].t,
                   IF product \in Predicted THEN "predicted" ELSE "observed",
                   rows[i].t, CoopsExpiry(product, rows[i].t))
    IN IF payload.error \/ \E i \in DOMAIN rows : rows[i].t = None
       THEN Refused
       ELSE Accepted([i \in DOMAIN rows |-> record(i)])

-----------------------------------------------------------------------------
(* eia.py: the request sorts by period, newest first, and asks for one row.*)
(* That row stands until another takes its place.                          *)

EiaRecords(metric, rows) ==
    IF \/ rows = <<>>
       \/ rows[1].metric # metric
       \/ rows[1].period = None
       \/ rows[1].value = None
       \/ rows[1].unit = None
    THEN Refused
    ELSE Accepted(<<Record(<<metric, rows[1].period>>, metric, rows[1].value,
                           rows[1].period, None)>>)
=============================================================================
