----------------------- MODULE WorkerSchedulerProofs ------------------------
(***************************************************************************)
(* The safety properties of WorkerScheduler for any registry, intervals    *)
(* and durations that fit the two keys in Redis: the heartbeat and the     *)
(* flag of PulsePoint.  The age of the heartbeat is bounded by what the    *)
(* job of PulsePoint has spent of its interval, its lateness and its poll; *)
(* the age of the flag by the poll that set it.                            *)
(***************************************************************************)
EXTENDS WorkerScheduler, TLAPS

(* The idle pace, the lateness and the longest poll: below the 120 seconds *)
(* of the heartbeat, and the poll alone below those of the flag.           *)
HeartbeatFits == Pace(FALSE) + MaxStall + PollMax[PulsePoint] < HeartbeatTTL

FlagFits == PollMax[PulsePoint] < FlagTTL

Types ==
    /\ configured \subseteq Sources
    /\ every \in [Sources -> Nat \ {0}]
    /\ due \in [Sources -> Int]
    /\ running \in [Sources -> Nat \cup {-1}]
    /\ flagAge \in Nat
    /\ beatAge \in Nat
    /\ told \in {"nothing", "active", "idle"}
    /\ excused \in BOOLEAN

(* From the return of a poll of PulsePoint to the next. *)
Beating ==
    ~excused =>
        /\ PulsePoint \in configured
        /\ every[PulsePoint] \in {1, 3}
        /\ running[PulsePoint] = Idle =>
              /\ -MaxStall <= due[PulsePoint] /\ due[PulsePoint] <= every[PulsePoint]
              /\ beatAge <= every[PulsePoint] - due[PulsePoint]
        /\ running[PulsePoint] # Idle =>
              /\ running[PulsePoint] <= PollMax[PulsePoint]
              /\ beatAge <= 3 + MaxStall + running[PulsePoint]

(* From the flag a poll of PulsePoint sets to its pace. *)
Pacing ==
    /\ configured = {} => told = "nothing"
    /\ running[PulsePoint] # Idle => PulsePoint \in configured
    /\ told # "nothing" /\ running[PulsePoint] # Idle =>
          flag = told /\ flagAge <= running[PulsePoint]
    /\ told # "nothing" /\ running[PulsePoint] = Idle =>
          every[PulsePoint] = Pace(told = "active")

-----------------------------------------------------------------------------
LEMMA Constants ==
    /\ PulsePoint \in Sources /\ MaxStall \in Nat
    /\ PollMax[PulsePoint] \in Nat
    /\ Interval \in [Sources -> Nat \ {0}]
BY SourcesAssumption, TimesAssumption

(* A late job is late by less than its interval. *)
LEMMA LatenessBounds ==
    ASSUME Types, NEW s \in Sources
    PROVE  /\ Lateness(s) \in Nat
           /\ NextRun(s) \in Int
           /\ every[s] \in {1, 3} => Lateness(s) <= 2
<1>1. every[s] \in Nat \ {0} /\ -due[s] \in Int
  BY DEF Types
<1>2. Lateness(s) \in Nat
  BY <1>1 DEF Lateness
<1>3. every[s] = 1 => Lateness(s) <= 2
  BY <1>1 DEF Lateness
<1>4. every[s] = 3 => Lateness(s) <= 2
  BY <1>1 DEF Lateness
<1> QED
  BY <1>1, <1>2, <1>3, <1>4 DEF NextRun

(* The grace is never less than a minute. *)
LEMMA GraceBounds ==
    ASSUME NEW s \in Sources
    PROVE  MisfireGraceSeconds(s) \in Nat /\ MisfireGraceSeconds(s) >= 60
<1>1. TimeoutSeconds[s] * (RetryCount + 1) + 10 \in Nat
  BY TimesAssumption
<1> QED
  BY <1>1 DEF MisfireGraceSeconds

-----------------------------------------------------------------------------
LEMMA TypesStep == Types /\ [Next]_vars => Types'
<1> SUFFICES ASSUME Types, [Next]_vars PROVE Types'
  OBVIOUS
<1> USE Constants
<1>1. CASE UNCHANGED vars
  BY <1>1 DEF vars, Types
<1>2. ASSUME NEW release \in Releases, Start(release) PROVE Types'
  <2>1. due' \in [Sources -> Int] /\ release \subseteq Sources
    BY <1>2, SourcesAssumption DEF Start
  <2> QED
    BY <1>2, <2>1 DEF Start, Types
<1>3. CASE Stop
  BY <1>3 DEF Stop, Types, Idle
<1>4. CASE Tick
  <2>1. due' \in [Sources -> Int] /\ running' \in [Sources -> Nat \cup {-1}]
    BY <1>4 DEF Tick, Types, Idle
  <2>2. flagAge' \in Nat /\ beatAge' \in Nat
    BY <1>4 DEF Tick, Types, Older
  <2> QED
    BY <1>4, <2>1, <2>2 DEF Tick, Types
<1>5. ASSUME NEW s \in Sources, Poll(s) PROVE Types'
  <2>1. CASE RunJob(s)
    BY <2>1, LatenessBounds DEF RunJob, Types
  <2>2. CASE SkipRun(s)
    BY <2>2, LatenessBounds DEF SkipRun, Types
  <2>3. ASSUME NEW active \in BOOLEAN, SetFlag(s, active) PROVE Types'
    BY <2>3 DEF SetFlag, Types
  <2>4. CASE Store(s)
    BY <2>4 DEF Store, Types
  <2>5. ASSUME EndPoll(s), beatAge' \in {0, beatAge}, excused' \in BOOLEAN
        PROVE  Types'
    <3>1. \/ every' = every /\ due' = due
          \/ /\ every' \in {[every EXCEPT ![s] = 1], [every EXCEPT ![s] = 3]}
             /\ due' = [due EXCEPT ![s] = every'[s]]
      BY <2>5 DEF EndPoll, Pace
    <3>2. every' \in [Sources -> Nat \ {0}]
      BY <3>1 DEF Types
    <3>3. due' \in [Sources -> Int]
      BY <3>1, <3>2 DEF Types
    <3>4. beatAge' \in Nat
      BY <2>5 DEF Types
    <3> QED
      BY <2>5, <3>2, <3>3, <3>4 DEF EndPoll, Types, Idle
  <2>6. CASE Return(s)
    BY <2>5, <2>6 DEF Return, Types
  <2>7. CASE BeatRaises(s)
    BY <2>5, <2>7 DEF BeatRaises, Types
  <2>8. CASE Raise(s)
    BY <2>8 DEF Raise, Types, Idle
  <2> QED
    BY <1>5, <2>1, <2>2, <2>3, <2>4, <2>6, <2>7, <2>8 DEF Poll
<1> QED
  BY <1>1, <1>2, <1>3, <1>4, <1>5 DEF Next

LEMMA TypesInvariant == Spec => []Types
<1>1. Init => Types
  BY Constants DEF Init, Types, HeartbeatTTL, Idle
<1> QED
  BY <1>1, TypesStep, PTL DEF Spec

-----------------------------------------------------------------------------
(* OnlyConfiguredShown of every run.                                       *)
THEOREM NothingUnconfigured == Spec => []OnlyConfiguredShown
<1>1. Init => OnlyConfiguredShown
  BY DEF Init, OnlyConfiguredShown
<1>2. OnlyConfiguredShown /\ [Next]_vars => OnlyConfiguredShown'
  <2> SUFFICES ASSUME OnlyConfiguredShown, [Next]_vars PROVE OnlyConfiguredShown'
    OBVIOUS
  <2> USE DEF OnlyConfiguredShown
  <2>1. CASE UNCHANGED vars
    BY <2>1 DEF vars
  <2>2. ASSUME NEW release \in Releases, Start(release) PROVE OnlyConfiguredShown'
    BY <2>2 DEF Start, RetireUnconfigured
  <2>3. CASE Stop
    BY <2>3 DEF Stop
  <2>4. CASE Tick
    BY <2>4 DEF Tick
  <2>5. ASSUME NEW s \in Sources, Poll(s) PROVE OnlyConfiguredShown'
    BY <2>5 DEF Poll, RunJob, SkipRun, SetFlag, Store, IsRunning, EndPoll,
                Return, BeatRaises, Raise
  <2> QED
    BY <2>1, <2>2, <2>3, <2>4, <2>5 DEF Next
<1> QED
  BY <1>1, <1>2, PTL DEF Spec

-----------------------------------------------------------------------------
LEMMA BeatingStep == Types /\ Types' /\ Beating /\ [Next]_vars => Beating'
<1> SUFFICES ASSUME Types, Types', Beating, [Next]_vars, ~excused' PROVE Beating'
  BY DEF Beating
<1> USE Constants
<1> DEFINE pp == PulsePoint
<1>1. CASE UNCHANGED vars
  BY <1>1 DEF vars, Beating
<1>2. ASSUME NEW release \in Releases, Start(release) PROVE Beating'
  BY <1>2 DEF Start, Beating
<1>3. CASE Stop
  BY <1>3 DEF Stop
<1>4. CASE Tick
  <2>1. /\ ~excused /\ pp \in configured /\ configured' = configured
        /\ running[pp] < PollMax[pp] /\ due[pp] > -MaxStall
        /\ due'[pp] = due[pp] - 1 /\ every' = every
        /\ running'[pp] = IF running[pp] = Idle THEN Idle ELSE running[pp] + 1
        /\ beatAge' \in {beatAge, beatAge + 1}
    BY <1>4 DEF Tick, Beating, Older
  <2>2. /\ running[pp] \in Nat \cup {-1} /\ due[pp] \in Int /\ beatAge \in Nat
        /\ every[pp] \in Nat
    BY DEF Types
  <2>3. CASE running[pp] = Idle
    BY <2>1, <2>2, <2>3 DEF Beating, Idle
  <2>4. CASE running[pp] # Idle
    BY <2>1, <2>2, <2>4 DEF Beating, Idle
  <2> QED
    BY <2>3, <2>4
<1>5. ASSUME NEW s \in Sources, Poll(s) PROVE Beating'
  <2>1. CASE s # pp
    <3>1. /\ ~excused /\ configured' = configured
          /\ every'[pp] = every[pp] /\ due'[pp] = due[pp] /\ running'[pp] = running[pp]
          /\ beatAge' \in {0, beatAge}
      BY <1>5, <2>1 DEF Poll, RunJob, SkipRun, SetFlag, Store, EndPoll,
                        Return, BeatRaises, Raise, Types
    <3>2. beatAge \in Nat /\ beatAge' <= beatAge
      BY <3>1 DEF Types
    <3>3. /\ every[pp] \in Nat /\ due[pp] \in Int /\ running[pp] \in Nat \cup {-1}
      BY DEF Types
    <3> QED
      BY <3>1, <3>2, <3>3 DEF Beating
  <2>2. CASE s = pp /\ RunJob(s)
    <3>1. /\ ~excused /\ configured' = configured /\ every' = every /\ beatAge' = beatAge
          /\ running[pp] = Idle /\ running'[pp] = 0
      BY <2>2 DEF RunJob, Types
    <3>2. /\ every[pp] \in {1, 3} /\ due[pp] \in Int /\ -MaxStall <= due[pp]
          /\ beatAge \in Nat /\ beatAge <= every[pp] - due[pp] /\ pp \in configured
      BY <3>1 DEF Beating, Types
    <3> QED
      BY <3>1, <3>2 DEF Beating, Idle
  <2>3. CASE s = pp /\ SkipRun(s)
    <3>1. /\ ~excused /\ configured' = configured /\ every' = every /\ beatAge' = beatAge
          /\ running' = running
      BY <2>3 DEF SkipRun
    <3>2. every[pp] \in {1, 3}
      BY <3>1 DEF Beating
    <3>3. Lateness(pp) \in Nat /\ Lateness(pp) <= 2
      BY <3>2, LatenessBounds
    <3>4. 15 * Lateness(pp) <= MisfireGraceSeconds(pp)
      BY <3>3, GraceBounds
    <3>5. running[pp] # Idle
      BY <2>3, <3>3, <3>4, GraceBounds DEF SkipRun
    <3> QED
      BY <3>1, <3>5 DEF Beating
  <2>4. ASSUME NEW active \in BOOLEAN, SetFlag(s, active) PROVE Beating'
    BY <2>4 DEF SetFlag, Beating
  <2>5. CASE Store(s)
    BY <2>5 DEF Store, Beating
  <2>6. CASE s = pp /\ Return(s)
    <3>1. /\ configured' = configured /\ pp \in configured
          /\ running'[pp] = Idle /\ every'[pp] \in {1, 3} /\ due'[pp] = every'[pp]
          /\ beatAge' = 0
      BY <2>6 DEF Return, EndPoll, IsRunning, Types, Pace
    <3> QED
      BY <3>1 DEF Beating, Idle
  <2>7. CASE s = pp /\ (BeatRaises(s) \/ Raise(s))
    BY <2>7 DEF BeatRaises, Raise
  <2> QED
    BY <1>5, <2>1, <2>2, <2>3, <2>4, <2>5, <2>6, <2>7 DEF Poll
<1> QED
  BY <1>1, <1>2, <1>3, <1>4, <1>5 DEF Next

(* HeartbeatHolds of every run in which the idle pace, the lateness of the *)
(* event loop and the longest poll of PulsePoint fit the key together.     *)
THEOREM HeartbeatLasts == ASSUME HeartbeatFits PROVE Spec => []HeartbeatHolds
<1>1. Init => Beating
  BY DEF Init, Beating
<1>2. Types /\ Beating => HeartbeatHolds
  <2> SUFFICES ASSUME Types, Beating, ~excused PROVE beatAge < 8
    BY DEF HeartbeatHolds, HeartbeatTTL, Types
  <2>1. /\ beatAge \in Nat /\ due[PulsePoint] \in Int /\ running[PulsePoint] \in Nat \cup {-1}
        /\ MaxStall \in Nat /\ PollMax[PulsePoint] \in Nat
    BY Constants DEF Types
  <2>2. CASE running[PulsePoint] = Idle
    BY <2>1, <2>2, HeartbeatFits DEF Beating, HeartbeatFits, Pace, HeartbeatTTL
  <2>3. CASE running[PulsePoint] # Idle
    BY <2>1, <2>3, HeartbeatFits DEF Beating, HeartbeatFits, Pace, HeartbeatTTL
  <2> QED
    BY <2>2, <2>3
<1>3. Types /\ [Next]_vars => Types'
  BY TypesStep
<1> QED
  BY <1>1, <1>2, BeatingStep, TypesInvariant, PTL DEF Spec

-----------------------------------------------------------------------------
LEMMA PacingStep ==
    ASSUME FlagFits
    PROVE  Types /\ Types' /\ Pacing /\ [Next]_vars => Pacing'
<1> SUFFICES ASSUME Types, Types', Pacing, [Next]_vars PROVE Pacing'
  OBVIOUS
<1> USE Constants
<1> DEFINE pp == PulsePoint
<1>1. CASE UNCHANGED vars
  BY <1>1 DEF vars, Pacing
<1>2. ASSUME NEW release \in Releases, Start(release) PROVE Pacing'
  BY <1>2 DEF Start, Pacing
<1>3. CASE Stop
  BY <1>3 DEF Stop, Pacing
<1>4. CASE Tick
  <2>1. /\ configured' = configured /\ told' = told /\ every' = every
        /\ running'[pp] = IF running[pp] = Idle THEN Idle ELSE running[pp] + 1
        /\ running[pp] \in Nat \cup {-1} /\ flagAge \in Nat
    BY <1>4 DEF Tick, Types
  <2>2. CASE told = "nothing" \/ running[pp] = Idle
    BY <2>1, <2>2 DEF Pacing, Idle
  <2>3. CASE told # "nothing" /\ running[pp] # Idle
    <3>1. configured # {} /\ flag = told /\ flagAge <= running[pp]
      BY <2>3 DEF Pacing
    <3>2. pp \in configured /\ running[pp] < PollMax[pp]
      BY <1>4, <2>3 DEF Pacing, Tick
    <3>3. flagAge + 1 < 8
      BY <2>1, <2>3, <3>1, <3>2, FlagFits DEF FlagFits, FlagTTL, Idle
    <3>4. flag' = flag /\ flagAge' \in {0, flagAge + 1}
      BY <1>4, <2>1, <3>3 DEF Tick, FlagTTL
    <3>5. told' # "nothing" /\ running'[pp] # Idle /\ flagAge' <= running'[pp]
      BY <2>1, <2>3, <3>1, <3>4 DEF Idle
    <3> QED
      BY <2>1, <3>1, <3>2, <3>4, <3>5 DEF Pacing
  <2> QED
    BY <2>2, <2>3
<1>5. ASSUME NEW s \in Sources, Poll(s) PROVE Pacing'
  <2>1. s \in configured /\ configured' = configured
    BY <1>5 DEF Poll, RunJob, IsDue, SkipRun, SetFlag, Store, IsRunning, EndPoll,
                Return, BeatRaises, Raise
  <2>2. CASE s # pp
    <3>1. /\ told' = told /\ flag' = flag /\ flagAge' = flagAge
          /\ every'[pp] = every[pp] /\ running'[pp] = running[pp]
      BY <1>5, <2>2 DEF Poll, RunJob, SkipRun, SetFlag, Store, EndPoll,
                        Return, BeatRaises, Raise, Types
    <3> QED
      BY <2>1, <3>1 DEF Pacing
  <2>3. CASE s = pp /\ RunJob(s)
    BY <2>1, <2>3 DEF RunJob, Pacing
  <2>4. CASE SkipRun(s)
    BY <2>4 DEF SkipRun, Pacing
  <2>5. ASSUME NEW active \in BOOLEAN, SetFlag(s, active), s = pp PROVE Pacing'
    <3>1. /\ running'[pp] # Idle /\ flag' = told' /\ flagAge' = 0
      BY <2>5 DEF SetFlag, IsRunning
    <3>2. running'[pp] \in Nat
      BY <3>1 DEF Types, Idle
    <3> QED
      BY <2>1, <2>5, <3>1, <3>2 DEF Pacing
  <2>6. CASE Store(s)
    BY <2>6 DEF Store, Pacing
  <2>7. CASE s = pp /\ (Return(s) \/ BeatRaises(s))
    <3>1. /\ running[pp] # Idle /\ running'[pp] = Idle /\ told' = told
          /\ every'[pp] = Pace(flag = "active")
      BY <2>7 DEF Return, BeatRaises, EndPoll, IsRunning, Types
    <3>2. told # "nothing" => flag = told
      BY <3>1 DEF Pacing
    <3> QED
      BY <2>1, <3>1, <3>2 DEF Pacing
  <2>8. CASE s = pp /\ Raise(s)
    BY <2>1, <2>8 DEF Raise, Pacing
  <2> QED
    BY <1>5, <2>2, <2>3, <2>4, <2>5, <2>6, <2>7, <2>8 DEF Poll
<1> QED
  BY <1>1, <1>2, <1>3, <1>4, <1>5 DEF Next

(* PaceFollowsAnswer of every run in which a poll of PulsePoint is shorter *)
(* than the life of its flag.                                              *)
THEOREM PaceIsTheAnswers == ASSUME FlagFits PROVE Spec => []PaceFollowsAnswer
<1>1. Init => Pacing
  BY SourcesAssumption DEF Init, Pacing, Idle
<1>2. Pacing => PaceFollowsAnswer
  BY DEF Pacing, PaceFollowsAnswer
<1>3. Types /\ Types' /\ Pacing /\ [Next]_vars => Pacing'
  BY PacingStep
<1> QED
  BY <1>1, <1>2, <1>3, TypesInvariant, PTL DEF Spec
=============================================================================
