-------------------------- MODULE WorkerScheduler ---------------------------
(***************************************************************************)
(* The worker process (api/app/worker.py): reconciliation of the tables    *)
(* with the registry before anything is scheduled, one interval job for    *)
(* each configured source, the pace of PulsePoint over its flag in Redis,  *)
(* and the heartbeat worker_health reads.                                  *)
(*                                                                         *)
(* A tick is 15 seconds, the shortest interval.  What a poll does inside   *)
(* is SourceIngestion; here it may set the flag, store records, and set    *)
(* and store again in a retry, and it ends by returning or by raising.     *)
(* The event loop may be late for a job that is due, by MaxStall ticks.    *)
(***************************************************************************)
EXTENDS Integers, FiniteSets

CONSTANTS
    Sources,
    PulsePoint,         \* the source whose pace follows its incidents
    Releases,           \* the registries the releases of the worker come with
    Interval,           \* poll_interval_seconds, in ticks
    TimeoutSeconds,     \* timeout_seconds of each adapter
    PollMax,            \* the ticks a poll may take
    RetryCount,         \* retry_count
    MaxStall            \* bound: the ticks the event loop may be late

ASSUME SourcesAssumption ==
    /\ IsFiniteSet(Sources)
    /\ PulsePoint \in Sources
    /\ Releases \subseteq SUBSET Sources
    /\ {} \notin Releases               \* retire_unconfigured_sources raises

ASSUME TimesAssumption ==
    /\ Interval \in [Sources -> Nat \ {0}]
    /\ TimeoutSeconds \in [Sources -> Nat]
    /\ PollMax \in [Sources -> Nat]
    /\ RetryCount \in Nat
    /\ MaxStall \in Nat

VARIABLES
    configured,     \* the sources of the running release, {} while down
    shown,          \* the sources that have current records
    every,          \* the interval of each job, in ticks
    due,            \* the ticks until a job runs next, negative when late
    running,        \* the ticks a job's poll has taken, Idle without one
    flag,           \* eoc:pulsepoint:has-active
    flagAge,        \* ticks since it was set
    beatAge,        \* ticks since eoc:worker:last-heartbeat was set
    told,           \* history: the flag PulsePoint's last poll set last
    excused         \* history: PulsePoint's last poll did not return, or
                    \* the worker has not polled it since it started

vars == <<configured, shown, every, due, running, flag, flagAge, beatAge, told, excused>>

Idle == -1

(* Seeded fault: the heartbeat lasts a minute. *)
MinuteTTL == 4

HeartbeatTTL == 8

(* Seeded fault: ex=12. *)
ShortFlagTTL == 1

FlagTTL == 8

-----------------------------------------------------------------------------
(* Seeded fault: the scheduler's own default of one second. *)
DefaultGraceSeconds(s) == 1

MisfireGraceSeconds(s) ==
    LET expected == TimeoutSeconds[s] * (RetryCount + 1) + 10 IN
    IF expected < 60 THEN 60 ELSE IF expected > 600 THEN 600 ELSE expected

(* The pace of PulsePoint: 15 seconds with active incidents, else 45. *)
Pace(active) == IF active THEN 1 ELSE 3

-----------------------------------------------------------------------------
Init ==
    /\ configured = {}
    /\ shown = {}
    /\ every = Interval
    /\ due = [s \in Sources |-> 0]
    /\ running = [s \in Sources |-> Idle]
    /\ flag = "unset" /\ flagAge = 0
    /\ beatAge = HeartbeatTTL
    /\ told = "nothing"
    /\ excused = TRUE

(* Seeded fault: only the health rows of removed sources go. *)
RetainRecords(rows, release) == rows

(* retire_unconfigured_sources, one transaction *)
RetireUnconfigured(rows, release) == rows \cap release

(* main: the tables are reconciled, then every job is added with its own   *)
(* first run: PulsePoint is first in the registry, others follow soon.     *)
Start(release) ==
    /\ configured = {}
    /\ configured' = release
    /\ shown' = RetireUnconfigured(shown, release)
    /\ every' = Interval
    /\ due' \in [Sources -> {0, 1}] /\ due'[PulsePoint] = 0
    /\ UNCHANGED <<running, flag, flagAge, beatAge, told, excused>>

(* The process ends, and the polls with it; Redis and the tables stay. *)
Stop ==
    /\ configured # {}
    /\ configured' = {}
    /\ due' = [s \in Sources |-> 0]
    /\ running' = [s \in Sources |-> Idle]
    /\ told' = "nothing"
    /\ excused' = TRUE
    /\ UNCHANGED <<shown, every, flag, flagAge, beatAge>>

-----------------------------------------------------------------------------
(* The scheduler.  Of several missed run times the latest counts           *)
(* (coalesce), and the next is the first still to come.                    *)

Lateness(s) == (-due[s]) % every[s]

NextRun(s) == every[s] - Lateness(s)

IsDue(s) == s \in configured /\ due[s] <= 0

RunJob(s) ==
    /\ IsDue(s)
    /\ running[s] = Idle
    /\ 15 * Lateness(s) <= MisfireGraceSeconds(s)
    /\ running' = [running EXCEPT ![s] = 0]
    /\ due' = [due EXCEPT ![s] = NextRun(s)]
    /\ told' = IF s = PulsePoint THEN "nothing" ELSE told
    /\ UNCHANGED <<configured, shown, every, flag, flagAge, beatAge, excused>>

(* The run is given up: its poll would be the second instance, or it is    *)
(* later than the grace allows.                                            *)
SkipRun(s) ==
    /\ IsDue(s)
    /\ running[s] # Idle \/ 15 * Lateness(s) > MisfireGraceSeconds(s)
    /\ due' = [due EXCEPT ![s] = NextRun(s)]
    /\ UNCHANGED <<configured, shown, every, running, flag, flagAge, beatAge, told, excused>>

IsRunning(s) == s \in configured /\ running[s] # Idle

(* The part of runner.run the worker depends on.  PulsePoint's flag is set *)
(* before its records are stored, and a retry sets it again.               *)
SetFlag(s, active) ==
    /\ IsRunning(s)
    /\ s = PulsePoint
    /\ told' = IF active THEN "active" ELSE "idle"
    /\ flag' = told' /\ flagAge' = 0
    /\ UNCHANGED <<configured, shown, every, due, running, beatAge, excused>>

Store(s) ==
    /\ IsRunning(s)
    /\ s = PulsePoint => told # "nothing"
    /\ shown' = shown \cup {s}
    /\ UNCHANGED <<configured, every, due, running, flag, flagAge, beatAge, told, excused>>

(* The flag is read back, and reschedule_job counts the new interval from  *)
(* now.                                                                    *)
EndPoll(s) ==
    /\ IsRunning(s)
    /\ running' = [running EXCEPT ![s] = Idle]
    /\ IF s = PulsePoint
       THEN /\ every' = [every EXCEPT ![s] = Pace(flag = "active")]
            /\ due' = [due EXCEPT ![s] = every'[s]]
       ELSE UNCHANGED <<every, due>>
    /\ UNCHANGED <<configured, shown, flag, flagAge, told>>

Return(s) ==
    /\ EndPoll(s)
    /\ beatAge' = 0
    /\ excused' = IF s = PulsePoint THEN FALSE ELSE excused

(* The job is rescheduled and redis.set of the heartbeat raises; Redis may *)
(* have taken it.                                                          *)
BeatRaises(s) ==
    /\ EndPoll(s)
    /\ beatAge' \in {0, beatAge}
    /\ excused' = IF s = PulsePoint THEN TRUE ELSE excused

(* An exception of runner.run, or of redis.get before the job is           *)
(* rescheduled.                                                            *)
Raise(s) ==
    /\ IsRunning(s)
    /\ running' = [running EXCEPT ![s] = Idle]
    /\ IF s = PulsePoint THEN told' = "nothing" /\ excused' = TRUE
                         ELSE UNCHANGED <<told, excused>>
    /\ UNCHANGED <<configured, shown, every, due, flag, flagAge, beatAge>>

-----------------------------------------------------------------------------
Older(age, ttl) == IF age < ttl THEN age + 1 ELSE age

(* No poll outlasts PollMax, no due job waits longer than MaxStall.  Keys  *)
(* of Redis expire.                                                        *)
Tick ==
    /\ \A s \in configured : running[s] < PollMax[s] /\ due[s] > -MaxStall
    /\ due' = [s \in Sources |-> IF s \in configured THEN due[s] - 1 ELSE due[s]]
    /\ running' = [s \in Sources |-> IF running[s] = Idle THEN Idle ELSE running[s] + 1]
    /\ flagAge' = IF flag = "unset" \/ flagAge + 1 >= FlagTTL THEN 0 ELSE flagAge + 1
    /\ flag' = IF flagAge + 1 >= FlagTTL THEN "unset" ELSE flag
    /\ beatAge' = Older(beatAge, HeartbeatTTL)
    /\ UNCHANGED <<configured, shown, every, told, excused>>

Poll(s) ==
    \/ RunJob(s) \/ SkipRun(s)
    \/ \E active \in BOOLEAN : SetFlag(s, active)
    \/ Store(s)
    \/ Return(s) \/ BeatRaises(s) \/ Raise(s)

Next ==
    \/ \E release \in Releases : Start(release)
    \/ Stop
    \/ \E s \in Sources : Poll(s)
    \/ Tick

Spec == Init /\ [][Next]_vars

-----------------------------------------------------------------------------
(* Properties *)

(* While the worker runs, nothing is shown of a source its release does    *)
(* not name, whatever earlier releases left behind and whenever they       *)
(* stopped (reconcile_configured_sources before scheduler.start).          *)
OnlyConfiguredShown == configured # {} => shown \subseteq configured

(* worker_health calls the worker dead only after a poll of PulsePoint     *)
(* that did not return: the idle pace, the longest poll and the lateness   *)
(* of the event loop together stay below the 120 seconds of the key.       *)
HeartbeatHolds == beatAge >= HeartbeatTTL => excused

(* Once a poll of PulsePoint that set its flag has ended without an        *)
(* exception of its own, the job has the pace of the flag it set last, 15  *)
(* seconds with active incidents and 45 without: the flag outlives the     *)
(* poll that sets it, whatever its retries do.                             *)
PaceFollowsAnswer ==
    running[PulsePoint] = Idle /\ told # "nothing" =>
        every[PulsePoint] = Pace(told = "active")

(* Time passes, the event loop processes the jobs that are due, and the    *)
(* restart policy brings a stopped worker back.                            *)
Fairness ==
    /\ WF_vars(Tick)
    /\ WF_vars(\E release \in Releases : Start(release))
    /\ \A s \in Sources :
          /\ WF_vars(RunJob(s) \/ SkipRun(s))
          /\ WF_vars(Return(s) \/ BeatRaises(s) \/ Raise(s))

FairSpec == Spec /\ Fairness

(* A source that stays configured is polled again and again, however polls *)
(* end, however late the event loop is within its bound and however long   *)
(* polls overlap their next run: no run of a job is lost for good to       *)
(* misfire_grace_time, max_instances or coalesce (worker.py add_job).      *)
PollsRecur ==
    \A s \in Sources : []<>(s \notin configured \/ running[s] # Idle)
=============================================================================
