----------------------------- MODULE HttpShell -----------------------------
(***************************************************************************)
(* The API process around its routes (api/app/main.py): the middleware,    *)
(* with the limiter of RateLimiter for paths under /api/; /health/ready,   *)
(* which asks its four dependencies one after the other; /health/ai, which *)
(* alone asks the AI gateway; and the fallback of the browser application. *)
(*                                                                         *)
(* How long a dependency takes to answer is left open: Postgres and Redis  *)
(* are asked without a timeout, the optional services with one for each    *)
(* wait, so that requests of all kinds go on between any two probes.       *)
(***************************************************************************)
EXTENDS RateLimiter

CONSTANT AiEnabled   \* a setting

ASSUME SettingsAssumption == AiEnabled \in BOOLEAN

VARIABLES
    path,       \* what each request asks for, "none" when there is none
    asking,     \* the dependency its readiness is asking
    failed,     \* not critical_healthy
    status      \* of the response, 0 before there is one

shell == <<path, asking, failed, status>>

allVars == <<vars, shell>>

ShellInit ==
    /\ Init
    /\ path = [q \in Requests |-> "none"]
    /\ asking = [q \in Requests |-> "none"]
    /\ failed = [q \in Requests |-> FALSE]
    /\ status = [q \in Requests |-> 0]

Ask(q, p) == path[q] = "none" /\ path' = [path EXCEPT ![q] = p]

Reply(q, code) == status[q] = 0 /\ status' = [status EXCEPT ![q] = code]

-----------------------------------------------------------------------------
(* Routes of the API: the limiter first, then the handler, whose           *)
(* exceptions become a 500.                                                *)

AskApi(q, c) ==
    /\ Ask(q, "/api/")
    /\ Arrive(q, c)
    /\ UNCHANGED <<asking, failed, status>>

Limiting(q) ==
    /\ Incr(q) \/ IncrRaises(q) \/ Expire(q) \/ ExpireRaises(q) \/ Check(q)
    /\ UNCHANGED shell

RespondApi(q) ==
    /\ \/ pc[q] = "refused" /\ Reply(q, 429)
       \/ pc[q] = "served" /\ \E code \in {200, 500} : Reply(q, code)
    /\ UNCHANGED <<vars, path, asking, failed>>

-----------------------------------------------------------------------------
(* /health/ready *)

AskReady(q) ==
    /\ Ask(q, "/health/ready")
    /\ asking' = [asking EXCEPT ![q] = "postgres"]
    /\ UNCHANGED <<vars, failed, status>>

(* The statements of one connection, or an exception of any of them. *)
ProbePostgres(q) ==
    /\ asking[q] = "postgres"
    /\ asking' = [asking EXCEPT ![q] = "redis"]
    /\ failed' \in {failed, [failed EXCEPT ![q] = TRUE]}
    /\ UNCHANGED <<vars, path, status>>

(* A ping that is answered, with whatever truth, is not critical. *)
ProbeRedis(q) ==
    /\ asking[q] = "redis"
    /\ asking' = [asking EXCEPT ![q] = "maxun"]
    /\ failed' \in {failed, [failed EXCEPT ![q] = TRUE]}
    /\ UNCHANGED <<vars, path, status>>

(* An optional service, switched off, healthy or not, only adds its name. *)
ProbeOptional(q, service, next) ==
    /\ asking[q] = service
    /\ asking' = [asking EXCEPT ![q] = next]
    /\ UNCHANGED <<vars, path, failed, status>>

ProbeMaxun(q) == ProbeOptional(q, "maxun", "hermes")

ProbeHermes(q) == ProbeOptional(q, "hermes", "nothing")

RespondReady(q) ==
    /\ asking[q] = "nothing"
    /\ Reply(q, IF failed[q] THEN 503 ELSE 200)
    /\ UNCHANGED <<vars, path, asking, failed>>

-----------------------------------------------------------------------------
(* /health/ai: the states the gateway may report, "raises" for anything    *)
(* that becomes a GatewayGroundingError.                                   *)
AiStatus(state) == IF ~AiEnabled \/ state = "ready" THEN 200 ELSE 503

AskAi(q) ==
    /\ Ask(q, "/health/ai")
    /\ \E state \in {"ready", "cold", "raises"} : Reply(q, AiStatus(state))
    /\ UNCHANGED <<vars, asking, failed>>

(* SpaStaticFiles: files of the application, and its entry page for        *)
(* addresses without a suffix that are not the API's own.                  *)
SpaStatus(get, reserved, exists, suffix) ==
    IF get /\ ~reserved /\ (exists \/ ~suffix) THEN 200 ELSE 404

AskPage(q) ==
    /\ Ask(q, "/")
    /\ \E get, reserved, exists, suffix \in BOOLEAN :
          Reply(q, SpaStatus(get, reserved, exists, suffix))
    /\ UNCHANGED <<vars, asking, failed>>

-----------------------------------------------------------------------------
(* The response is sent; a 429 leaves before the headers are set. *)
Send(q) ==
    /\ status[q] # 0
    /\ IF path[q] = "/api/" THEN Answer(q) ELSE UNCHANGED vars
    /\ path' = [path EXCEPT ![q] = "none"]
    /\ asking' = [asking EXCEPT ![q] = "none"]
    /\ failed' = [failed EXCEPT ![q] = FALSE]
    /\ status' = [status EXCEPT ![q] = 0]

Serve(q) ==
    \/ \E c \in Clients : AskApi(q, c)
    \/ Limiting(q) \/ RespondApi(q)
    \/ AskReady(q) \/ RespondReady(q)
    \/ ProbePostgres(q) \/ ProbeRedis(q) \/ ProbeMaxun(q) \/ ProbeHermes(q)
    \/ AskAi(q)
    \/ AskPage(q)
    \/ Send(q)

ShellNext ==
    \/ \E q \in Requests : Serve(q)
    \/ Tick /\ UNCHANGED shell

ShellSpec == ShellInit /\ [][ShellNext]_allVars
=============================================================================
