-------------------------- MODULE SourceIngestion --------------------------
(***************************************************************************)
(* The life of one configured source: IngestionRunner.run, _attempt and    *)
(* _record_failure (api/app/ingestion.py) together with the repository     *)
(* operations they commit (api/app/repository.py).                         *)
(*                                                                         *)
(* Several workers may poll the source; each poll is a sequence of awaits, *)
(* and one action here is the code between two awaits that matter: it ends *)
(* with one committed transaction or with one answer of the upstream.      *)
(*                                                                         *)
(* Instants are kept as distances from now.  The lock stores how long it   *)
(* has left, a record how long until expires_at, the health row how long   *)
(* since last_attempt, and Tick moves them all; a distance that no longer  *)
(* matters saturates, so the state space is finite without a clock bound.  *)
(***************************************************************************)
EXTENDS Integers, FiniteSets

CONSTANTS
    Workers,      \* processes that run IngestionRunner.run on this source
    Records,      \* the source_record_ids the source may publish
    Lifetimes,    \* how far in the future an answer may put expires_at
    Requests,     \* sequential HTTP requests one adapter.fetch makes
    Phases,       \* waits of one request that end well: connect, each read
    Timeout,      \* adapter.timeout_seconds, for each such wait (httpx)
    LocalMax,     \* longest an attempt takes for the raw snapshot (database
                  \* row and file) and for normalize, after the requests
    RetryCount,   \* adapter.retry_count
    Backoff,      \* longest sleep between two attempts
    DbMax,        \* longest time one database or Redis step takes
    MinLock,      \* the floor of the lock's timeout (60 s in the code)
    Threshold,    \* adapter.circuit_breaker_threshold
    Cooldown,     \* circuit_cooldown_seconds(adapter)
    Conditions,   \* what the outside world may be like, see below
    NoWorker      \* not a worker: the lock is free

ASSUME WorkersAssumption == NoWorker \notin Workers
ASSUME RequestsAssumption == Requests \in Nat \ {0}
ASSUME PhasesAssumption == Phases \in Nat \ {0}
ASSUME LocalMaxAssumption == LocalMax \in Nat
ASSUME TimeoutAssumption == Timeout \in Nat \ {0}
ASSUME RetryCountAssumption == RetryCount \in Nat
ASSUME BackoffAssumption == Backoff \in Nat
ASSUME DbMaxAssumption == DbMax \in Nat
ASSUME MinLockAssumption == MinLock \in Nat \ {0}
ASSUME ThresholdAssumption == Threshold \in Nat \ {0}
ASSUME CooldownAssumption == Cooldown \in Nat \ {0}

(* "ok": the publisher answers.  "rejecting": it fails with an error the   *)
(* except clause of _attempt names.  "malformed": it answers, and the      *)
(* adapter trips over the payload with some other exception.  "faulty":    *)
(* the disk, PostgreSQL, Redis or the process itself fails.                *)
ASSUME ConditionsAssumption ==
    /\ "ok" \in Conditions
    /\ Conditions \subseteq {"ok", "rejecting", "malformed", "faulty"}

(* expires_at IS NULL: a lifetime that never runs down. *)
Never == -1

ASSUME LifetimesAssumption == Lifetimes \subseteq Nat \cup {Never}

VARIABLES
    upstream,   \* what the world outside the worker does just now
    lock,       \* the Redis lock eoc:ingest-lock:<source>
    rows,       \* canonical_records of this source
    health,     \* the source_health row
    pc,         \* where each worker's poll stands
    elapsed,    \* time each worker has spent in that place
    attempt,    \* local: loop counter of _attempt
    previous,   \* local: what get_health returned
    batch,      \* local: the normalised records
    error,      \* local: last_error, or the exception that escapes
    hasLkg,     \* local: has_lkg of _record_failure
    pending     \* history: the commit of records or labels that still
                \* awaits its health row

vars == <<upstream, lock, rows, health, pc, elapsed, attempt, previous,
          batch, error, hasLkg, pending>>

local == <<attempt, previous, batch, error, hasLkg>>

-----------------------------------------------------------------------------
(* Data *)

ErrorKinds == {"layout", "schema", "other"}

(* "unclassified" is an exception outside the except clause of _attempt. *)
Errors == ErrorKinds \cup {"none", "unclassified"}

(* A row's stale flag with its stale_reason: "aged" is an adapter's own    *)
(* judgement (radar, PulsePoint), the other labels are the repository's.   *)
Marks == {"fresh", "aged", "refresh_failed", "absent"}

Lives == Nat \cup {Never}

NoRow == [life |-> 0, mark |-> "none"]

Row == [life : Lives, mark : Marks] \cup {NoRow}

Answer == [life : Lifetimes, mark : {"fresh", "aged"}] \cup {NoRow}

NoBatch == [r \in Records |-> NoRow]

States == {"ABSENT", "HEALTHY", "SCRAPER_LAYOUT_CHANGED",
           "INVALID_RESPONSE", "UNAVAILABLE"}

Failing == {"SCRAPER_LAYOUT_CHANGED", "INVALID_RESPONSE", "UNAVAILABLE"}

(* consecutive_failures saturates here: the code adds one and compares.    *)
FailureCounts == 0 .. Threshold

Health == [state : States, failures : FailureCounts,
           circuit : {"CLOSED", "OPEN"}, sinceAttempt : 0 .. Cooldown,
           succeeded : BOOLEAN, lkg : BOOLEAN]

(* No row yet: get_health returns None, and the callers' "if previous      *)
(* else" branches give it these values.                                    *)
NoHealth == [state |-> "ABSENT", failures |-> 0, circuit |-> "CLOSED",
             sinceAttempt |-> Cooldown, succeeded |-> FALSE, lkg |-> FALSE]

Seen(h) == [failures |-> h.failures, succeeded |-> h.succeeded]

-----------------------------------------------------------------------------
(* Time *)

(* httpx limits each wait, never the sum; what the attempt does with the   *)
(* answer (save_snapshot, the file, normalize) has no limit of its own.    *)
FetchMax == Requests * Phases * Timeout + LocalMax

(* Seeded fault: a lock sized for the requests alone. *)
LockTTLWithoutSlack == Timeout * (RetryCount + 1)

LockTTL ==
    LET wanted == Timeout * (RetryCount + 2) IN
    IF wanted > MinLock THEN wanted ELSE MinLock

Resting == {"down", "idle"}

Writing == {"read_health", "upsert", "set_healthy", "count", "mark",
            "set_failed", "release"}

Stages == Resting \cup Writing \cup {"fetch", "backoff"}

(* How long a poll may stay in a stage.                                    *)
Deadline(stage) ==
    CASE stage = "fetch"   -> FetchMax
      [] stage = "backoff" -> Backoff
      [] OTHER             -> DbMax

Running(w) == pc[w] \notin Resting

Current(row) == row.life # 0

Shown == {r \in Records : Current(rows[r])}

Doubted == {r \in Shown : rows[r].mark = "refresh_failed"}

Aged == {r \in Shown : rows[r].mark = "aged"}

Older(life) == IF life > 0 THEN life - 1 ELSE life

(* Redis drops the key when its time is up. *)
LockAged ==
    IF lock.left > 1 THEN [lock EXCEPT !.left = @ - 1]
                     ELSE [owner |-> NoWorker, left |-> 0]

(* Time passes, unless some poll has used up its stage. *)
Tick ==
    /\ \A w \in Workers : Running(w) => elapsed[w] < Deadline(pc[w])
    /\ elapsed' = [w \in Workers |->
                     IF Running(w) THEN elapsed[w] + 1 ELSE elapsed[w]]
    /\ lock' = LockAged
    /\ rows' = [r \in Records |-> [rows[r] EXCEPT !.life = Older(@)]]
    /\ health' = [health EXCEPT !.sinceAttempt =
                    IF @ < Cooldown THEN @ + 1 ELSE @]
    /\ UNCHANGED <<upstream, pc, local, pending>>

ConditionsChange ==
    /\ upstream' \in Conditions \ {upstream}
    /\ UNCHANGED <<lock, rows, health, pc, elapsed, local, pending>>

-----------------------------------------------------------------------------
(* One poll *)

Goto(w, stage) ==
    /\ pc' = [pc EXCEPT ![w] = stage]
    /\ elapsed' = [elapsed EXCEPT ![w] = 0]

(* The locals of a finished or dead run are gone. *)
Forget(w) ==
    /\ attempt' = [attempt EXCEPT ![w] = 0]
    /\ previous' = [previous EXCEPT ![w] = Seen(NoHealth)]
    /\ batch' = [batch EXCEPT ![w] = NoBatch]
    /\ error' = [error EXCEPT ![w] = "none"]
    /\ hasLkg' = [hasLkg EXCEPT ![w] = FALSE]

(* lock.acquire(blocking=False).  When another run holds the lock, run     *)
(* returns None and changes nothing: a stuttering step.                    *)
Acquire(w) ==
    /\ pc[w] = "idle"
    /\ lock.owner = NoWorker
    /\ lock' = [owner |-> w, left |-> LockTTL]
    /\ Goto(w, "read_health")
    /\ UNCHANGED <<upstream, rows, health, local, pending>>

(* Seeded fault: the cooldown is compared with the wrong clock unit. *)
CircuitCoolingBriefly(h) == h.circuit = "OPEN" /\ h.sinceAttempt = 0

(* Seeded fault: an open circuit is never tried again. *)
CircuitCoolingForever(h) == h.circuit = "OPEN"

CircuitCooling(h) == h.circuit = "OPEN" /\ h.sinceAttempt < Cooldown

(* get_health; a source whose circuit is open and cooling is not fetched. *)
ReadHealth(w) ==
    /\ pc[w] = "read_health"
    /\ previous' = [previous EXCEPT ![w] = Seen(health)]
    /\ Goto(w, IF CircuitCooling(health) THEN "release" ELSE "fetch")
    /\ UNCHANGED <<upstream, lock, rows, health, attempt, batch, error,
                   hasLkg, pending>>

(* fetch, the raw snapshot and normalize all succeed. *)
FetchOk(w) ==
    /\ pc[w] = "fetch"
    /\ upstream = "ok"
    /\ \E answer \in [Records -> Answer] :
          batch' = [batch EXCEPT ![w] = answer]
    /\ Goto(w, "upsert")
    /\ UNCHANGED <<upstream, lock, rows, health, attempt, previous, error,
                   hasLkg, pending>>

MayRetry(w) == attempt[w] < RetryCount

(* An attempt that raised a classified error is repeated after a sleep ... *)
FetchFails(w) ==
    /\ pc[w] = "fetch"
    /\ upstream = "rejecting"
    /\ \E kind \in ErrorKinds : error' = [error EXCEPT ![w] = kind]
    /\ Goto(w, IF MayRetry(w) THEN "backoff" ELSE "count")
    /\ UNCHANGED <<upstream, lock, rows, health, attempt, previous, batch,
                   hasLkg, pending>>

(* ... and last_error survives an attempt that then succeeds: it is only   *)
(* read when the loop ends, so this resets it for the properties' sake.    *)
Retry(w) ==
    /\ pc[w] = "backoff"
    /\ attempt' = [attempt EXCEPT ![w] = @ + 1]
    /\ error' = [error EXCEPT ![w] = "none"]
    /\ Goto(w, "fetch")
    /\ UNCHANGED <<upstream, lock, rows, health, previous, batch, hasLkg,
                   pending>>

(* Seeded fault: absent records are not retired. *)
UpsertedOnly(answer) ==
    [r \in Records |-> IF answer[r] # NoRow THEN answer[r] ELSE rows[r]]

(* What one upsert_records transaction leaves: every published record as   *)
(* published, every other visible one retired on the spot.                 *)
Upserted(answer) ==
    [r \in Records |->
        IF answer[r] # NoRow THEN answer[r]
        ELSE IF Current(rows[r]) THEN [life |-> 0, mark |-> "absent"]
        ELSE rows[r]]

UpsertRecords(w) ==
    /\ pc[w] = "upsert"
    /\ rows' = Upserted(batch[w])
    /\ pending' = "answer"
    /\ Goto(w, "set_healthy")
    /\ UNCHANGED <<upstream, lock, health, local>>

HealthAfterSuccess(answer) ==
    [state |-> "HEALTHY", failures |-> 0, circuit |-> "CLOSED",
     sinceAttempt |-> 0, succeeded |-> TRUE,
     lkg |-> \E r \in Records : answer[r] # NoRow]

SetHealthy(w) ==
    /\ pc[w] = "set_healthy"
    /\ health' = HealthAfterSuccess(batch[w])
    /\ pending' = "none"
    /\ Goto(w, "release")
    /\ UNCHANGED <<upstream, lock, rows, local>>

(* Seeded fault: records kept from an earlier failure are not counted. *)
SourceHasUndoubted == Shown \ Doubted # {}

(* source_record_count: is anything left to show? *)
SourceHasRecords == Shown # {}

CountLkg(w) ==
    /\ pc[w] = "count"
    /\ hasLkg' = [hasLkg EXCEPT ![w] = SourceHasRecords]
    /\ Goto(w, "mark")
    /\ UNCHANGED <<upstream, lock, rows, health, attempt, previous, batch,
                   error, pending>>

(* Seeded fault: a row the adapter itself called stale is left alone. *)
MarkedUnlessAged(row) ==
    IF row.mark \in {"none", "aged"} THEN row
                                    ELSE [row EXCEPT !.mark = "refresh_failed"]

(* Seeded fault: a failed refresh clears the display. *)
MarkedAndDropped(row) ==
    IF row = NoRow THEN row ELSE [life |-> 0, mark |-> "refresh_failed"]

(* mark_source_stale labels every row of the source, visible or not. *)
Marked(row) ==
    IF row = NoRow THEN row ELSE [row EXCEPT !.mark = "refresh_failed"]

MarkStale(w) ==
    /\ pc[w] = "mark"
    /\ rows' = [r \in Records |-> Marked(rows[r])]
    /\ pending' = "doubt"
    /\ Goto(w, "set_failed")
    /\ UNCHANGED <<upstream, lock, health, local>>

FailureState(kind) ==
    CASE kind = "layout" -> "SCRAPER_LAYOUT_CHANGED"
      [] kind = "schema" -> "INVALID_RESPONSE"
      [] OTHER           -> "UNAVAILABLE"

(* Seeded fault: the earlier failures are not carried over. *)
FailuresFromScratch(before) == 1

(* consecutive_failures + 1, saturated at Threshold. *)
Failures(before) ==
    IF before.failures < Threshold THEN before.failures + 1 ELSE Threshold

(* Seeded fault: last_success is not copied from the previous row. *)
FailureForgetsSuccess(before, kind, lkg) ==
    [state |-> FailureState(kind), failures |-> Failures(before),
     circuit |-> IF Failures(before) >= Threshold THEN "OPEN" ELSE "CLOSED",
     sinceAttempt |-> 0, succeeded |-> FALSE, lkg |-> lkg]

(* The row is computed from the health read before the fetch. *)
HealthAfterFailure(before, kind, lkg) ==
    [state |-> FailureState(kind), failures |-> Failures(before),
     circuit |-> IF Failures(before) >= Threshold THEN "OPEN" ELSE "CLOSED",
     sinceAttempt |-> 0, succeeded |-> before.succeeded, lkg |-> lkg]

SetFailed(w) ==
    /\ pc[w] = "set_failed"
    /\ health' = HealthAfterFailure(previous[w], error[w], hasLkg[w])
    /\ pending' = "none"
    /\ Goto(w, "release")
    /\ UNCHANGED <<upstream, lock, rows, local>>

(* Redis releases only the token of this acquisition; releasing a lock that*)
(* expired or changed hands raises, and the error is swallowed.            *)
AfterRelease(w) ==
    IF lock.owner = w THEN [owner |-> NoWorker, left |-> 0] ELSE lock

(* The finally clause; with Redis out of reach the lock stays to its TTL. *)
Release(w) ==
    /\ pc[w] = "release"
    /\ \/ lock' = AfterRelease(w)
       \/ upstream = "faulty" /\ lock' = lock
    /\ Goto(w, "idle")
    /\ Forget(w)
    /\ UNCHANGED <<upstream, rows, health, pending>>

(* An exception the except clause does not name goes straight to the       *)
(* finally clause: AttributeError and the like from the adapter, OSError,  *)
(* SQLAlchemyError or RedisError from a step that stores something.        *)
Escape(w) ==
    /\ \/ pc[w] = "fetch" /\ upstream \in {"malformed", "faulty"}
       \/ pc[w] \in Writing \ {"release"} /\ upstream = "faulty"
    /\ error' = [error EXCEPT ![w] = "unclassified"]
    /\ Goto(w, "release")
    /\ UNCHANGED <<upstream, lock, rows, health, attempt, previous, batch,
                   hasLkg, pending>>

-----------------------------------------------------------------------------
(* The process dies; nothing runs, and Redis keeps the lock until its TTL. *)
Crash(w) ==
    /\ pc[w] # "down"
    /\ upstream = "faulty"
    /\ Goto(w, "down")
    /\ Forget(w)
    /\ UNCHANGED <<upstream, lock, rows, health, pending>>

Restart(w) ==
    /\ pc[w] = "down"
    /\ Goto(w, "idle")
    /\ UNCHANGED <<upstream, lock, rows, health, local, pending>>

-----------------------------------------------------------------------------
Init ==
    /\ upstream = "ok"
    /\ lock = [owner |-> NoWorker, left |-> 0]
    /\ rows = NoBatch
    /\ health = NoHealth
    /\ pc = [w \in Workers |-> "idle"]
    /\ elapsed = [w \in Workers |-> 0]
    /\ attempt = [w \in Workers |-> 0]
    /\ previous = [w \in Workers |-> Seen(NoHealth)]
    /\ batch = [w \in Workers |-> NoBatch]
    /\ error = [w \in Workers |-> "none"]
    /\ hasLkg = [w \in Workers |-> FALSE]
    /\ pending = "none"

Poll(w) ==
    \/ Acquire(w) \/ ReadHealth(w)
    \/ FetchOk(w) \/ FetchFails(w) \/ Retry(w)
    \/ UpsertRecords(w) \/ SetHealthy(w)
    \/ CountLkg(w) \/ MarkStale(w) \/ SetFailed(w)
    \/ Release(w) \/ Escape(w)

Next ==
    \/ Tick
    \/ ConditionsChange
    \/ \E w \in Workers : Poll(w) \/ Crash(w) \/ Restart(w)

Spec == Init /\ [][Next]_vars

(* The scheduler fires every job again and again, the event loop runs what *)
(* is ready, Docker restarts a dead worker, and time diverges (strongly:   *)
(* between two instants a poll may complete, which stops Tick for a while).*)
Fairness ==
    /\ \A w \in Workers : WF_vars(Poll(w)) /\ WF_vars(Restart(w))
    /\ SF_vars(Tick)

FairSpec == Spec /\ Fairness

-----------------------------------------------------------------------------
(* Properties *)

(* Every variable keeps the type its column, key or local has in the code. *)
TypeOK ==
    /\ upstream \in Conditions
    /\ lock \in [owner : Workers \cup {NoWorker}, left : 0 .. LockTTL]
    /\ rows \in [Records -> Row]
    /\ health \in Health
    /\ pc \in [Workers -> Stages]
    /\ elapsed \in [Workers -> Nat]
    /\ attempt \in [Workers -> 0 .. RetryCount]
    /\ previous \in [Workers -> [failures : FailureCounts, succeeded : BOOLEAN]]
    /\ batch \in [Workers -> [Records -> Answer]]
    /\ error \in [Workers -> Errors]
    /\ hasLkg \in [Workers -> BOOLEAN]
    /\ pending \in {"none", "answer", "doubt"}

(* Two polls of one source never run at once (the lock of run).            *)
MutualExclusion ==
    \A v, w \in Workers : Running(v) /\ Running(w) => v = w

HoldsPrevious == {"fetch", "backoff", "upsert", "set_healthy", "count",
                  "mark", "set_failed"}

(* The health row a poll read before its fetch is still the stored one     *)
(* when _record_failure derives the new counters from it.                  *)
PreviousIsCurrent ==
    \A w \in Workers :
        pc[w] \in HoldsPrevious => previous[w] = Seen(health)

(* For Cooldown after the Threshold-th failure in a row, no poll talks to  *)
(* the publisher: not even one that read the row before the circuit opened.*)
OpenMeansQuiet ==
    health.failures >= Threshold /\ health.sinceAttempt < Cooldown =>
        \A w \in Workers : pc[w] \notin {"fetch", "backoff", "upsert"}

(* The three commits of a poll (records, labels, health) agree whenever    *)
(* none is outstanding: a healthy source shows nothing labelled as kept    *)
(* from before a failure, and a failing one shows nothing else.            *)
RecordsMatchStatus ==
    pending = "none" =>
        /\ health.state = "ABSENT" => Shown = {}
        /\ health.state = "HEALTHY" => Doubted = {}
        /\ health.state \in Failing => Doubted = Shown

(* At every instant, crash or no crash, a source's visible records carry   *)
(* one verdict: all of them are kept from before a failure, or none is.    *)
LabelsUniform == Doubted = {} \/ Doubted = Shown

(* last_known_good is never FALSE while readers are shown a record.        *)
LkgFlagSound == pending = "none" /\ Shown # {} => health.lkg

(* A recorded last_success is never erased by a later write of the row.    *)
SuccessRemembered == [][health.succeeded => health'.succeeded]_vars

(* The source keeps the promises of LastKnownGood.                         *)
Report ==
    CASE health.state = "ABSENT"  -> "unknown"
      [] health.state = "HEALTHY" -> "healthy"
      [] OTHER                    -> "failing"

Promise == INSTANCE LastKnownGood
             WITH life <- [r \in Records |-> rows[r].life],
                  doubted <- Doubted, aged <- Aged, report <- Report,
                  pending <- pending

KeepsLastKnownGood == Promise!Spec

(* The same as a reader of the database sees it (DashboardReads).          *)
Display == INSTANCE SourceDisplay
             WITH Failing <- {"failing"}, Ageing <- Records, shown <- Shown,
                  doubted <- Doubted, aged <- Aged, report <- Report,
                  pending <- pending

(* Once the publisher answers for good, the source ends up healthy with    *)
(* nothing labelled, whatever crashes, locks and open circuits came before.*)
Recovery ==
    <>[](upstream = "ok")
        => <>[](health.state = "HEALTHY" /\ Doubted = {})

(* A publisher that keeps failing is reported so, its circuit opens, and   *)
(* every record still shown is labelled.                                   *)
Degradation ==
    <>[](upstream = "rejecting")
        => <>[](health.circuit = "OPEN" /\ Doubted = Shown)

(* README.md:53: "A failed poll retains last-known-good records and marks  *)
(* them stale" - for every poll that ends in an error.                     *)
FailedPollMarksStale ==
    [][\A w \in Workers :
          pc[w] = "release" /\ pc'[w] = "idle" /\ error[w] # "none"
              => Doubted' = Shown']_vars
=============================================================================
