--------------------------- MODULE SourceRegistry ----------------------------
(***************************************************************************)
(* The sources of this release (api/app/registry.py): of each adapter what *)
(* the scheduler, the ingestion runner and the read API depend on.         *)
(* Addresses, titles and field names are left out.  An identifier is split *)
(* where a prefix of _source_health_summary may end.                       *)
(*                                                                         *)
(* The assumptions below are facts about these tables, which live in four  *)
(* files of the code and agree only by care; TLC evaluates them.           *)
(***************************************************************************)
EXTENDS Integers, FiniteSets

Minute == 60

Hour == 60 * Minute

Day == 24 * Hour

(* requests counts the rounds of requests one fetch makes in turn. *)
Adapter(id, category, interval, timeout, requests) ==
    [id |-> id, category |-> category, interval |-> interval,
     timeout |-> timeout, requests |-> requests]

Named(family, names) == {<<family, n>> : n \in names}

-----------------------------------------------------------------------------
PulsePointSource == Adapter(<<"pulsepoint", "-x1012">>, "pulsepoint_call", 15, 12, 1)

EiaSources ==
    {Adapter(id, "power_grid_status", 900, 20, 1) :
        id \in Named("eia-fpl-", {"demand", "day-ahead-demand-forecast", "net-generation"})}

NwsSources ==
    {Adapter(<<"nws-", "alerts">>, "weather_alert", 45, 20, 1),
     Adapter(<<"nws-", "forecast">>, "forecast", 300, 20, 2),
     Adapter(<<"nws-", "hourly">>, "forecast", 300, 20, 2),
     Adapter(<<"nws-", "observation">>, "weather_observation", 300, 20, 3)}

RadarSource == Adapter(<<"noaa-mrms-", "radar-status">>, "radar_status", 300, 20, 1)

CoopsSources ==
    {Adapter(id, "coastal_observation",
             IF id[2] = "tide-predictions" THEN 6 * Hour ELSE 330, 20, 1) :
        id \in Named("coops-",
            {"water-level", "predicted-water-level", "tide-predictions",
             "air-temperature", "water-temperature", "wind", "air-pressure"})}

(* The products of all storms are asked for at once, after the list. *)
StormSource == Adapter(<<"nhc-", "current-storms">>, "tropical", 300, 20, 2)

RoadSources ==
    {Adapter(id, "traffic_incident", Minute, 45, 1) :
        id \in Named("fdem-fhp-", {"closures", "crashes"}) \cup
               Named("fdem-fl511-", {"crashes", "congestion", "construction", "other"})}

PreliminaryFirmSources ==
    {Adapter(id, "flood_zone", Day, 45, 1) :
        id \in Named("miami-beach-preliminary-firm-2024-",
            {"limwa", "ae", "ao", "ve", "x-annual-chance", "x-minimal"})}

OutlookSources ==
    {Adapter(<<"wpc-", "day-1-excessive-rainfall">>, "excessive_rainfall_outlook", 900, 45, 1),
     Adapter(<<"spc-", "day-1-convective-outlook">>, "severe_weather_outlook", 900, 45, 1)}

CitySources ==
    {Adapter(<<"miami-beach-", "lane-closures">>, "lane_closure", 2 * Minute, 45, 1),
     Adapter(<<"miami-beach-", "stormwater-pumps">>, "stormwater_pump_asset", 6 * Hour, 45, 1),
     Adapter(<<"miami-beach-", "flood-zones">>, "flood_zone", Day, 45, 1)}

FacilitySources ==
    {Adapter(<<"miami-beach-", "municipal-boundary">>, "municipal_boundary", Day, 45, 1),
     Adapter(<<"miami-dade-", "hurricane-evacuation-zones">>, "evacuation_zone", Day, 45, 1),
     Adapter(<<"fdem-fl511-", "traffic-cameras">>, "traffic_camera", 300, 45, 1),
     Adapter(<<"miami-dade-", "hospitals">>, "hospital", Day, 45, 1),
     Adapter(<<"fdem-", "florida-hotels">>, "hotel", Day, 45, 1),
     Adapter(<<"fema-", "open-shelters">>, "open_shelter", 300, 45, 1),
     Adapter(<<"miami-dade-", "evacuation-centers">>, "evacuation_center", 6 * Hour, 45, 1)}

TransitSource == Adapter(<<"miami-dade-", "static-gtfs">>, "transit", 6 * Hour, 45, 1)

OfficialWebSources ==
    {Adapter(<<"miami-beach-", "emergency-notifications">>, "official_notice", 300, 45, 1),
     Adapter(<<"miami-beach-", "boil-water">>, "official_notice", 300, 45, 1),
     Adapter(<<"miami-dade-", "emergency-activation">>, "official_notice", 300, 45, 1),
     Adapter(<<"miami-dade-", "transit-updates">>, "transit", 300, 45, 1),
     Adapter(<<"miami-dade-", "elevator-escalator">>, "transit", 300, 45, 1),
     Adapter(<<"miami-beach-", "traffic-advisories">>, "traffic_incident", 300, 45, 1),
     Adapter(<<"official-", "causeway-advisories">>, "traffic_incident", 300, 45, 1)}

Registry ==
    {PulsePointSource, RadarSource, StormSource, TransitSource}
        \cup EiaSources \cup NwsSources \cup CoopsSources \cup RoadSources
        \cup PreliminaryFirmSources \cup OutlookSources \cup CitySources
        \cup FacilitySources \cup OfficialWebSources

-----------------------------------------------------------------------------
(* What the rest of the code says about the same sources *)

DashboardCategories ==
    {"pulsepoint_call", "weather_alert", "weather_observation", "forecast",
     "radar_status", "excessive_rainfall_outlook", "severe_weather_outlook",
     "coastal_observation", "tropical", "traffic_incident", "traffic_camera",
     "lane_closure", "power_grid_status", "stormwater_pump_asset", "open_shelter",
     "evacuation_center", "hospital", "hotel", "transit", "official_notice",
     "flood_zone", "evacuation_zone", "municipal_boundary"}

CriticalMembers(label) ==
    CASE label = "PulsePoint" -> {s \in Registry : s.id[1] = "pulsepoint"}
      [] label = "NWS Alerts" -> {s \in Registry : s.id = <<"nws-", "alerts">>}
      [] label = "NOAA Radar" -> {RadarSource}
      [] label = "NHC" -> {StormSource}
      [] label = "Roads" ->
            {s \in Registry : \/ s.id = <<"miami-beach-", "lane-closures">>
                              \/ s.id[1] \in {"fdem-fhp-", "fdem-fl511-", "fl511-"}}
      [] label = "CO-OPS" -> {s \in Registry : s.id[1] = "coops-"}

CriticalLabels == {"PulsePoint", "NWS Alerts", "NOAA Radar", "NHC", "Roads", "CO-OPS"}

(* The sources whose last success may stamp the count of road incidents. *)
RoadKpiSources ==
    {<<"fdem-fhp-", "crashes">>, <<"miami-beach-", "lane-closures">>,
     <<"miami-beach-", "traffic-advisories">>, <<"official-", "causeway-advisories">>}
        \cup Named("fdem-fl511-", {"crashes", "congestion", "construction", "other"})

(* retry_count = 2, and the two sleeps of _attempt at their longest *)
Attempts == 3

BackoffSeconds == (1 + 1) + (2 + 1)

(* A timeout of httpx bounds a phase of a request, and an attempt goes on   *)
(* after its fetch: in the snapshot store, in normalize, in the database.  *)
(* The code bounds neither the slow phases of a request nor the seconds    *)
(* local to an attempt; they are parameters.                               *)
LongestRun(s, phases, local) ==
    Attempts * (s.requests * phases * s.timeout + local) + BackoffSeconds

LockSeconds(s) ==
    LET wanted == (Attempts + 1) * s.timeout IN
    IF wanted < 60 THEN 60 ELSE wanted

-----------------------------------------------------------------------------
(* Facts *)

(* Locks, health rows and records are filed under the identifier. *)
ASSUME IdentifiersAreUnique ==
    Cardinality({s.id : s \in Registry}) = Cardinality(Registry)

(* Every category has a display limit, or its records would never be read  *)
(* for a summary, and every limit has a category.                          *)
ASSUME CategoriesAreLimited ==
    {s.category : s \in Registry} = DashboardCategories

(* No critical group is without a source that could be healthy. *)
ASSUME CriticalGroupsArePolled ==
    \A label \in CriticalLabels : CriticalMembers(label) # {}

(* Where one phase of a request is slow and an attempt spends at most four *)
(* more seconds, exactly the fetches of one request are covered by their   *)
(* lock: for the others the condition under which polls of a source        *)
(* exclude each other fails.                                               *)
ASSUME LockCoversOneRequest ==
    \A s \in Registry : LongestRun(s, 1, 4) < LockSeconds(s) <=> s.requests = 1

(* Where two phases are slow, connect and read, no source is covered. *)
ASSUME NoLockCoversTwoPhases ==
    \A s \in Registry : LongestRun(s, 2, 0) >= LockSeconds(s)

(* The prefix fdem-fl511- takes the cameras into the critical roads, and   *)
(* the count of road incidents leaves one of its sources out of its stamp. *)
ASSUME RoadsDiffer ==
    LET counted == {s \in Registry : s.category \in {"traffic_incident", "lane_closure"}} IN
    /\ \E s \in CriticalMembers("Roads") \ counted : s.category = "traffic_camera"
    /\ {s.id : s \in counted} \ RoadKpiSources = {<<"fdem-fhp-", "closures">>}
=============================================================================
