------------------------- MODULE MCWorkerScheduler --------------------------
(* PulsePoint beside the alerts of the weather service, whose interval is  *)
(* three ticks and whose polls may outlast it.  One release comes without  *)
(* the alerts.  The times of both are the registry's, for requests slow in *)
(* one phase and a second of other work in an attempt.                     *)
EXTENDS WorkerScheduler, SourceRegistry, TLC

CONSTANTS pp, alerts

MCReleases == {{pp, alerts}, {pp}}

AlertsSource == CHOOSE s \in NwsSources : s.category = "weather_alert"

MCAdapter == (pp :> PulsePointSource) @@ (alerts :> AlertsSource)

Ticks(seconds) == (seconds + 14) \div 15

MCInterval == [s \in {pp, alerts} |-> Ticks(MCAdapter[s].interval)]

MCTimeoutSeconds == [s \in {pp, alerts} |-> MCAdapter[s].timeout]

MCPollMax == [s \in {pp, alerts} |-> Ticks(LongestRun(MCAdapter[s], 1, 1))]
=============================================================================
