----------------------- MODULE SourceIngestionProofs -----------------------
(***************************************************************************)
(* Theorems about SourceIngestion, for every number of workers, records,   *)
(* retries and every timing constant.                                      *)
(***************************************************************************)
EXTENDS SourceIngestion, TLAPS

(* A poll sleeps only when an attempt is left. *)
RetriesLeft ==
    \A w \in Workers : pc[w] = "backoff" => attempt[w] < RetryCount

Typed == TypeOK /\ RetriesLeft

LEMMA LockTTLType == LockTTL \in Nat \ {0}
<1>1. Timeout * (RetryCount + 2) \in Nat
  BY TimeoutAssumption, RetryCountAssumption
<1> QED
  BY <1>1, MinLockAssumption DEF LockTTL

(* Goto changes one worker's place and restarts its stage clock. *)
LEMMA GotoType ==
    ASSUME TypeOK, NEW w \in Workers, NEW stage \in Stages, Goto(w, stage)
    PROVE  /\ pc' \in [Workers -> Stages]
           /\ elapsed' \in [Workers -> Nat]
           /\ pc'[w] = stage /\ elapsed'[w] = 0
           /\ \A v \in Workers \ {w} :
                 pc'[v] = pc[v] /\ elapsed'[v] = elapsed[v]
BY DEF TypeOK, Goto

LEMMA NoHealthType == NoHealth \in Health
BY ThresholdAssumption, CooldownAssumption
DEF NoHealth, Health, States, FailureCounts

LEMMA NoBatchType == NoBatch \in [Records -> Answer]
BY DEF NoBatch, Answer

LEMMA AnswerIsRow == Answer \subseteq Row
BY LifetimesAssumption DEF Answer, Row, Lives, Marks, NoRow

LEMMA ForgetType ==
    ASSUME TypeOK, NEW w \in Workers, Forget(w)
    PROVE  /\ attempt' \in [Workers -> 0 .. RetryCount]
           /\ previous' \in [Workers -> [failures : FailureCounts,
                                         succeeded : BOOLEAN]]
           /\ batch' \in [Workers -> [Records -> Answer]]
           /\ error' \in [Workers -> Errors]
           /\ hasLkg' \in [Workers -> BOOLEAN]
<1>1. Seen(NoHealth) \in [failures : FailureCounts, succeeded : BOOLEAN]
  BY ThresholdAssumption DEF Seen, NoHealth, FailureCounts
<1> QED
  BY <1>1, NoBatchType, RetryCountAssumption DEF TypeOK, Forget, Errors

LEMMA InitTyped == Init => Typed
<1> SUFFICES ASSUME Init PROVE Typed
  OBVIOUS
<1>1. rows \in [Records -> Row]
  BY NoBatchType, AnswerIsRow DEF Init
<1>2. Seen(NoHealth) \in [failures : FailureCounts, succeeded : BOOLEAN]
  BY ThresholdAssumption DEF Seen, NoHealth, FailureCounts
<1>3. lock \in [owner : Workers \cup {NoWorker}, left : 0 .. LockTTL]
  BY LockTTLType DEF Init
<1>4. batch \in [Workers -> [Records -> Answer]]
  BY NoBatchType DEF Init
<1>5. previous \in [Workers -> [failures : FailureCounts, succeeded : BOOLEAN]]
  BY <1>2 DEF Init
<1>6. pc \in [Workers -> Stages] /\ elapsed \in [Workers -> Nat]
  BY DEF Init, Stages, Resting
<1>7. /\ attempt \in [Workers -> 0 .. RetryCount]
      /\ error \in [Workers -> Errors]
      /\ hasLkg \in [Workers -> BOOLEAN]
  BY RetryCountAssumption DEF Init, Errors
<1>8. upstream \in Conditions /\ health \in Health /\ pending \in {"none", "answer", "doubt"}
  BY ConditionsAssumption, NoHealthType DEF Init
<1>9. RetriesLeft
  BY DEF Init, RetriesLeft
<1> QED
  BY <1>1, <1>3, <1>4, <1>5, <1>6, <1>7, <1>8, <1>9 DEF Typed, TypeOK

LEMMA TickTyped == Typed /\ Tick => Typed'
<1> SUFFICES ASSUME Typed, Tick PROVE Typed'
  OBVIOUS
<1> USE DEF Typed, TypeOK
<1>1. elapsed' \in [Workers -> Nat]
  BY DEF Tick
<1>2. lock' \in [owner : Workers \cup {NoWorker}, left : 0 .. LockTTL]
  BY LockTTLType DEF Tick, LockAged
<1>3. rows' \in [Records -> Row]
  <2>1. ASSUME NEW r \in Records
        PROVE  [rows[r] EXCEPT !.life = Older(@)] \in Row
    <3>1. CASE rows[r] = NoRow
      BY <3>1 DEF NoRow, Older, Row
    <3>2. CASE rows[r] \in [life : Lives, mark : Marks]
      <4>1. Older(rows[r].life) \in Lives
        BY <3>2 DEF Older, Lives, Never
      <4> QED
        BY <3>2, <4>1 DEF Row
    <3> QED
      BY <3>1, <3>2 DEF Row
  <2> QED
    BY <2>1 DEF Tick
<1>4. health' \in Health
  <2> DEFINE age == IF health.sinceAttempt < Cooldown
                      THEN health.sinceAttempt + 1 ELSE health.sinceAttempt
  <2>1. age \in 0 .. Cooldown
    BY CooldownAssumption DEF Health
  <2>2. health' = [health EXCEPT !.sinceAttempt = age]
    BY DEF Tick
  <2> HIDE DEF age
  <2> QED
    BY <2>1, <2>2 DEF Health
<1> QED
  BY <1>1, <1>2, <1>3, <1>4 DEF Tick, local, RetriesLeft

(* What a completed poll stores is a row of the right type. *)
LEMMA SuccessType == \A answer : HealthAfterSuccess(answer) \in Health
BY ThresholdAssumption, CooldownAssumption
DEF HealthAfterSuccess, Health, States, FailureCounts

LEMMA FailureType ==
    ASSUME NEW before \in [failures : FailureCounts, succeeded : BOOLEAN],
           NEW kind, NEW lkg \in BOOLEAN
    PROVE  HealthAfterFailure(before, kind, lkg) \in Health
<1>1. Failures(before) \in FailureCounts
  BY ThresholdAssumption DEF Failures, FailureCounts
<1>2. FailureState(kind) \in States
  BY DEF FailureState, States
<1> QED
  BY <1>1, <1>2, CooldownAssumption DEF HealthAfterFailure, Health

LEMMA UpsertedType ==
    ASSUME rows \in [Records -> Row], NEW answer \in [Records -> Answer]
    PROVE  Upserted(answer) \in [Records -> Row]
<1>1. [life |-> 0, mark |-> "absent"] \in Row
  BY DEF Row, Lives, Marks
<1> QED
  BY <1>1, AnswerIsRow DEF Upserted

LEMMA MarkedType == \A row \in Row : Marked(row) \in Row
BY DEF Marked, Row, Marks

(* The steps that end with Goto keep the stage clocks and places typed,    *)
(* and reach backoff only with an attempt left.                            *)
LEMMA PollTyped ==
    ASSUME Typed, NEW w \in Workers, Poll(w)
    PROVE  Typed'
<1> USE DEF Typed, TypeOK
<1> DEFINE InStages == pc' \in [Workers -> Stages] /\ elapsed' \in [Workers -> Nat]
<1>1. CASE Acquire(w)
  <2>1. InStages /\ RetriesLeft'
    BY <1>1, GotoType
    DEF Acquire, Stages, Writing, Goto, RetriesLeft, local
  <2>2. lock' \in [owner : Workers \cup {NoWorker}, left : 0 .. LockTTL]
    BY <1>1, LockTTLType DEF Acquire
  <2> QED
    BY <1>1, <2>1, <2>2 DEF Acquire, local
<1>2. CASE ReadHealth(w)
  <2>1. InStages /\ RetriesLeft'
    BY <1>2, GotoType
    DEF ReadHealth, Stages, Writing, Goto, RetriesLeft
  <2>2. Seen(health) \in [failures : FailureCounts, succeeded : BOOLEAN]
    BY DEF Seen, Health
  <2> QED
    BY <1>2, <2>1, <2>2 DEF ReadHealth
<1>3. CASE FetchOk(w)
  <2>1. InStages /\ RetriesLeft'
    BY <1>3, GotoType DEF FetchOk, Stages, Writing, Goto, RetriesLeft
  <2>2. batch' \in [Workers -> [Records -> Answer]]
    BY <1>3 DEF FetchOk
  <2> QED
    BY <1>3, <2>1, <2>2 DEF FetchOk
<1>4. CASE FetchFails(w)
  <2>1. InStages /\ RetriesLeft'
    BY <1>4, GotoType
    DEF FetchFails, MayRetry, Stages, Writing, Goto, RetriesLeft
  <2>2. error' \in [Workers -> Errors]
    BY <1>4 DEF FetchFails, Errors
  <2> QED
    BY <1>4, <2>1, <2>2 DEF FetchFails
<1>5. CASE Retry(w)
  <2>1. InStages /\ RetriesLeft'
    BY <1>5, GotoType DEF Retry, Stages, Goto, RetriesLeft
  <2>2. attempt' \in [Workers -> 0 .. RetryCount]
    BY <1>5, RetryCountAssumption DEF Retry, RetriesLeft
  <2>3. error' \in [Workers -> Errors]
    BY <1>5 DEF Retry, Errors
  <2> QED
    BY <1>5, <2>1, <2>2, <2>3 DEF Retry
<1>6. CASE UpsertRecords(w)
  <2>1. InStages /\ RetriesLeft'
    BY <1>6, GotoType
    DEF UpsertRecords, Stages, Writing, Goto, RetriesLeft, local
  <2> QED
    BY <1>6, <2>1, UpsertedType DEF UpsertRecords, local
<1>7. CASE SetHealthy(w)
  <2>1. InStages /\ RetriesLeft'
    BY <1>7, GotoType
    DEF SetHealthy, Stages, Writing, Goto, RetriesLeft, local
  <2> QED
    BY <1>7, <2>1, SuccessType DEF SetHealthy, local
<1>8. CASE CountLkg(w)
  <2>1. InStages /\ RetriesLeft'
    BY <1>8, GotoType DEF CountLkg, Stages, Writing, Goto, RetriesLeft
  <2>2. hasLkg' \in [Workers -> BOOLEAN]
    BY <1>8 DEF CountLkg, SourceHasRecords
  <2> QED
    BY <1>8, <2>1, <2>2 DEF CountLkg
<1>9. CASE MarkStale(w)
  <2>1. InStages /\ RetriesLeft'
    BY <1>9, GotoType
    DEF MarkStale, Stages, Writing, Goto, RetriesLeft, local
  <2>2. rows' \in [Records -> Row]
    BY <1>9, MarkedType DEF MarkStale
  <2> QED
    BY <1>9, <2>1, <2>2 DEF MarkStale, local
<1>10. CASE SetFailed(w)
  <2>1. InStages /\ RetriesLeft'
    BY <1>10, GotoType
    DEF SetFailed, Stages, Writing, Goto, RetriesLeft, local
  <2>2. health' \in Health
    BY <1>10, FailureType DEF SetFailed
  <2> QED
    BY <1>10, <2>1, <2>2 DEF SetFailed, local
<1>11. CASE Release(w)
  <2>1. InStages /\ RetriesLeft'
    BY <1>11, GotoType
    DEF Release, Forget, Stages, Resting, Goto, RetriesLeft
  <2>2. lock' \in [owner : Workers \cup {NoWorker}, left : 0 .. LockTTL]
    BY <1>11, LockTTLType DEF Release, AfterRelease
  <2> QED
    BY <1>11, <2>1, <2>2, ForgetType DEF Release
<1>12. CASE Escape(w)
  <2>1. InStages /\ RetriesLeft'
    BY <1>12, GotoType
    DEF Escape, Stages, Writing, Goto, RetriesLeft
  <2>2. error' \in [Workers -> Errors]
    BY <1>12 DEF Escape, Errors
  <2> QED
    BY <1>12, <2>1, <2>2 DEF Escape
<1> QED
  BY <1>1, <1>2, <1>3, <1>4, <1>5, <1>6, <1>7, <1>8, <1>9, <1>10, <1>11,
     <1>12 DEF Poll

LEMMA CrashTyped ==
    ASSUME Typed, NEW w \in Workers, Crash(w) \/ Restart(w)
    PROVE  Typed'
<1> USE DEF Typed, TypeOK
<1>1. pc' \in [Workers -> Stages] /\ elapsed' \in [Workers -> Nat]
  BY GotoType DEF Crash, Restart, Stages, Resting
<1>2. RetriesLeft'
  BY DEF Crash, Restart, Goto, Forget, RetriesLeft, local
<1> QED
  BY <1>1, <1>2, ForgetType DEF Crash, Restart, local

LEMMA StepTyped == Typed /\ [Next]_vars => Typed'
<1> SUFFICES ASSUME Typed, [Next]_vars PROVE Typed'
  OBVIOUS
<1>1. CASE Tick
  BY <1>1, TickTyped
<1>2. CASE ConditionsChange
  BY <1>2 DEF ConditionsChange, Typed, TypeOK, RetriesLeft, local
<1>3. ASSUME NEW w \in Workers, Poll(w) PROVE Typed'
  BY <1>3, PollTyped
<1>4. ASSUME NEW w \in Workers, Crash(w) \/ Restart(w) PROVE Typed'
  BY <1>4, CrashTyped
<1>5. CASE UNCHANGED vars
  BY <1>5 DEF vars, Typed, TypeOK, RetriesLeft
<1> QED
  BY <1>1, <1>2, <1>3, <1>4, <1>5 DEF Next

(* Every variable keeps its type along every behaviour.                    *)
THEOREM TypeCorrect == Spec => []TypeOK
<1>1. Spec => []Typed
  BY InitTyped, StepTyped, PTL DEF Spec
<1>2. Typed => TypeOK
  BY DEF Typed
<1> QED
  BY <1>1, <1>2, PTL

-----------------------------------------------------------------------------
(***************************************************************************)
(* The lock.  Its timeout is long enough when it exceeds the longest run:  *)
(* every wait of a request may take Timeout, what follows the requests     *)
(* LocalMax, every retry waits Backoff first, and five storage steps       *)
(* surround the attempts.                                                  *)
(***************************************************************************)
LongestRun ==
    DbMax + FetchMax + RetryCount * (Backoff + FetchMax) + 4 * DbMax

LockCoversRun == LongestRun < LockTTL

(* Time that attempt number n and the later ones may still take once the   *)
(* current fetch is over, the storage steps of a failure included.         *)
Later(n) == (RetryCount - n) * (Backoff + FetchMax) + 4 * DbMax

(* Time a poll may still take after the moment it entered a stage. *)
Budget(stage, n) ==
    CASE stage = "read_health" -> DbMax + FetchMax + Later(0)
      [] stage = "fetch"       -> FetchMax + Later(n)
      [] stage = "backoff"     -> Later(n)
      [] stage = "count"       -> 4 * DbMax
      [] stage = "upsert"      -> 3 * DbMax
      [] stage = "mark"        -> 3 * DbMax
      [] stage = "set_healthy" -> 2 * DbMax
      [] stage = "set_failed"  -> 2 * DbMax
      [] OTHER                 -> DbMax

(* A running poll owns the lock, and the lock outlives what the poll may   *)
(* still need.                                                             *)
LockOutlives ==
    \A w \in Workers : Running(w) =>
        /\ lock.owner = w
        /\ lock.left > Budget(pc[w], attempt[w]) - elapsed[w]
        /\ elapsed[w] <= Deadline(pc[w])

(* The first attempt is number 0, and no run carries a number over. *)
FreshAttempt ==
    \A w \in Workers : pc[w] \in {"down", "idle", "read_health"} => attempt[w] = 0

LockInv == Typed /\ FreshAttempt /\ LockOutlives

LEMMA FetchMaxType == FetchMax \in Nat
<1>1. Requests * Phases \in Nat
  BY RequestsAssumption, PhasesAssumption
<1>2. (Requests * Phases) * Timeout \in Nat
  <2> DEFINE n == Requests * Phases
  <2> HIDE DEF n
  <2>1. n \in Nat
    BY <1>1 DEF n
  <2>2. n * Timeout \in Nat
    BY <2>1, TimeoutAssumption
  <2> QED
    BY <2>2 DEF n
<1> QED
  BY <1>2, LocalMaxAssumption DEF FetchMax

LEMMA LaterType == \A n \in 0 .. RetryCount : Later(n) \in Nat
<1> SUFFICES ASSUME NEW n \in 0 .. RetryCount PROVE Later(n) \in Nat
  OBVIOUS
<1> DEFINE c == Backoff + FetchMax
           k == RetryCount - n
<1>1. c \in Nat /\ k \in Nat
  BY FetchMaxType, BackoffAssumption, RetryCountAssumption
<1>2. k * c \in Nat
  <2> HIDE DEF c, k
  <2> QED BY <1>1
<1> QED
  BY <1>2, DbMaxAssumption DEF Later

(* One retry uses up one Backoff and one fetch of what was left. *)
LEMMA LaterStep ==
    ASSUME NEW n \in 0 .. RetryCount, n < RetryCount
    PROVE  Later(n) = Later(n + 1) + Backoff + FetchMax
<1> DEFINE c == Backoff + FetchMax
           k == RetryCount - (n + 1)
<1>1. c \in Nat /\ k \in Nat
  BY FetchMaxType, BackoffAssumption, RetryCountAssumption
<1>2. (k + 1) * c = k * c + c
  <2> HIDE DEF c, k
  <2> QED BY <1>1
<1>3. RetryCount - n = k + 1
  BY RetryCountAssumption
<1>4. k * c \in Nat
  <2> HIDE DEF c, k
  <2> QED BY <1>1
<1> QED
  BY <1>2, <1>3, <1>4, FetchMaxType, BackoffAssumption, DbMaxAssumption DEF Later

LEMMA LaterBound == \A n \in 0 .. RetryCount : Later(n) >= 4 * DbMax
<1> SUFFICES ASSUME NEW n \in 0 .. RetryCount PROVE Later(n) >= 4 * DbMax
  OBVIOUS
<1> DEFINE c == Backoff + FetchMax
           k == RetryCount - n
<1>1. c \in Nat /\ k \in Nat
  BY FetchMaxType, BackoffAssumption, RetryCountAssumption
<1>2. k * c >= 0 /\ k * c \in Nat
  <2> HIDE DEF c, k
  <2> QED BY <1>1
<1> QED
  BY <1>2, DbMaxAssumption DEF Later

LEMMA BudgetType ==
    \A stage \in Stages, n \in 0 .. RetryCount : Budget(stage, n) \in Nat
BY LaterType, FetchMaxType, DbMaxAssumption, RetryCountAssumption DEF Budget

(* A stage's own deadline fits in its budget, so a legal elapsed never     *)
(* exceeds it and the lock has time left while the poll runs.              *)
LEMMA DeadlineFits ==
    \A stage \in Stages \ Resting, n \in 0 .. RetryCount :
        (stage = "backoff" => n < RetryCount)
            => Deadline(stage) <= Budget(stage, n)
<1> SUFFICES ASSUME NEW stage \in Stages \ Resting, NEW n \in 0 .. RetryCount,
                    stage = "backoff" => n < RetryCount
             PROVE  Deadline(stage) <= Budget(stage, n)
  OBVIOUS
<1>1. CASE stage = "fetch"
  BY <1>1, LaterType, FetchMaxType DEF Deadline, Budget
<1>2. CASE stage = "backoff"
  <2>1. Later(n) = Later(n + 1) + Backoff + FetchMax
    BY <1>2, LaterStep
  <2>2. Later(n + 1) \in Nat
    BY <1>2, LaterType, RetryCountAssumption
  <2> QED
    BY <1>2, <2>1, <2>2, FetchMaxType, BackoffAssumption DEF Deadline, Budget
<1>3. CASE stage = "read_health"
  BY <1>3, LaterType, FetchMaxType, DbMaxAssumption, RetryCountAssumption
  DEF Deadline, Budget
<1>4. CASE stage \in Writing \ {"read_health"}
  BY <1>4, DbMaxAssumption DEF Deadline, Budget, Writing
<1> QED
  BY <1>1, <1>2, <1>3, <1>4 DEF Stages, Writing

LEMMA InitLocked == Init => LockInv
<1>1. Init => FreshAttempt /\ LockOutlives
  BY DEF Init, FreshAttempt, LockOutlives, Running, Resting
<1> QED
  BY <1>1, InitTyped DEF LockInv

(* What LockOutlives says of one worker. *)
Covered(w) ==
    Running(w) => /\ lock.owner = w
                  /\ lock.left > Budget(pc[w], attempt[w]) - elapsed[w]
                  /\ elapsed[w] <= Deadline(pc[w])

(* Only the owner of the lock runs. *)
LEMMA OnlyRunner ==
    ASSUME LockInv, NEW w \in Workers, Running(w)
    PROVE  \A v \in Workers : Running(v) => v = w
BY DEF LockInv, LockOutlives

(* A running poll that moves on within its deadline stays covered, as long *)
(* as the next stage needs no more than what the current one leaves.       *)
LEMMA MovesOn ==
    ASSUME LockInv, Typed', FreshAttempt',
           NEW w \in Workers, Running(w),
           NEW stage \in Stages, Goto(w, stage), lock' = lock,
           \A v \in Workers \ {w} : attempt'[v] = attempt[v],
           stage \notin Resting =>
               Budget(stage, attempt'[w])
                   <= Budget(pc[w], attempt[w]) - Deadline(pc[w])
    PROVE  LockInv'
<1> USE DEF LockInv
<1>1. /\ pc'[w] = stage /\ elapsed'[w] = 0
      /\ \A v \in Workers \ {w} : pc'[v] = pc[v] /\ elapsed'[v] = elapsed[v]
  BY GotoType DEF Typed
<1>2. \A v \in Workers \ {w} : ~Running(v)' 
  BY <1>1, OnlyRunner DEF Running
<1>3. CASE stage \in Resting
  BY <1>1, <1>2, <1>3 DEF LockOutlives, Running
<1>4. CASE stage \notin Resting
  <2>1. /\ lock.owner = w
        /\ lock.left > Budget(pc[w], attempt[w]) - elapsed[w]
        /\ elapsed[w] <= Deadline(pc[w])
    BY DEF LockOutlives
  <2>2. /\ Budget(pc[w], attempt[w]) \in Nat
        /\ Budget(stage, attempt'[w]) \in Nat
        /\ elapsed[w] \in Nat /\ lock.left \in Int
    BY BudgetType, LockTTLType DEF Typed, TypeOK
  <2>3. Deadline(pc[w]) \in Nat /\ Deadline(stage) \in Nat
    BY FetchMaxType, BackoffAssumption, DbMaxAssumption DEF Deadline
  <2>4. lock.left > Budget(stage, attempt'[w])
    BY <1>4, <2>1, <2>2, <2>3
  <2>5. lock'.left > Budget(stage, attempt'[w]) - elapsed'[w]
    BY <1>1, <2>2, <2>4
  <2>6. elapsed'[w] <= Deadline(stage)
    BY <1>1, <2>3
  <2> QED
    BY <1>1, <1>2, <2>1, <2>5, <2>6 DEF LockOutlives, Running
<1> QED
  BY <1>3, <1>4

(* What each stage leaves of its budget covers every stage after it. *)
LEMMA BudgetSteps ==
    ASSUME NEW n \in 0 .. RetryCount
    PROVE  /\ Budget("fetch", 0) <= Budget("read_health", 0) - Deadline("read_health")
           /\ \A s \in {"backoff", "count", "upsert"} :
                 Budget(s, n) <= Budget("fetch", n) - Deadline("fetch")
           /\ n < RetryCount =>
                 Budget("fetch", n + 1) <= Budget("backoff", n) - Deadline("backoff")
           /\ Budget("set_healthy", n) <= Budget("upsert", n) - Deadline("upsert")
           /\ Budget("mark", n) <= Budget("count", n) - Deadline("count")
           /\ Budget("set_failed", n) <= Budget("mark", n) - Deadline("mark")
           /\ \A s \in {"fetch", "read_health", "upsert", "set_healthy",
                        "count", "mark", "set_failed"} :
                 Budget("release", n) <= Budget(s, n) - Deadline(s)
<1>1. /\ Later(n) \in Nat /\ Later(0) \in Nat
      /\ Later(n) >= 4 * DbMax /\ Later(0) >= 4 * DbMax
  BY LaterType, LaterBound, RetryCountAssumption
<1>2. n < RetryCount => /\ Later(n + 1) \in Nat
                        /\ Later(n) = Later(n + 1) + Backoff + FetchMax
  BY LaterType, LaterStep, RetryCountAssumption
<1> QED
  BY <1>1, <1>2, FetchMaxType, DbMaxAssumption, BackoffAssumption
  DEF Budget, Deadline

LEMMA AcquireLocked ==
    ASSUME LockCoversRun, LockInv, NEW w \in Workers, Acquire(w), Typed'
    PROVE  LockInv'
<1> USE DEF LockInv
<1>1. \A v \in Workers : ~Running(v)
  BY WorkersAssumption DEF Acquire, LockOutlives
<1>2. /\ pc'[w] = "read_health" /\ elapsed'[w] = 0
      /\ attempt' = attempt /\ attempt[w] = 0
      /\ \A v \in Workers \ {w} : pc'[v] = pc[v] /\ elapsed'[v] = elapsed[v]
  BY GotoType DEF Acquire, Stages, Writing, local, FreshAttempt, Typed
<1>3. FreshAttempt'
  BY <1>2 DEF FreshAttempt
<1>4. lock'.owner = w /\ lock'.left = LockTTL
  BY DEF Acquire
<1>5. Budget("read_health", 0) = LongestRun
  <2>1. RetryCount - 0 = RetryCount
    BY RetryCountAssumption
  <2>2. Later(0) = RetryCount * (Backoff + FetchMax) + 4 * DbMax
    BY <2>1 DEF Later
  <2>3. RetryCount * (Backoff + FetchMax) \in Nat
    BY FetchMaxType, BackoffAssumption, RetryCountAssumption
  <2> QED
    BY <2>2, <2>3, FetchMaxType, DbMaxAssumption DEF Budget, LongestRun
<1>6. Budget("read_health", 0) \in Nat
  BY BudgetType, RetryCountAssumption DEF Stages, Writing
<1>7. Covered(w)'
  BY <1>2, <1>4, <1>5, <1>6, LockTTLType, DbMaxAssumption
  DEF Covered, LockCoversRun, Deadline
<1>8. \A v \in Workers \ {w} : ~Running(v)'
  BY <1>1, <1>2 DEF Running
<1> QED
  BY <1>3, <1>7, <1>8 DEF LockOutlives, Covered

LEMMA PollLocked ==
    ASSUME LockCoversRun, LockInv, NEW w \in Workers, Poll(w), Typed'
    PROVE  LockInv'
<1> USE DEF LockInv
<1> DEFINE n == attempt[w]
<1>0. n \in 0 .. RetryCount
  BY DEF Typed, TypeOK
<1>1. CASE Acquire(w)
  BY <1>1, AcquireLocked
<1>2. CASE ReadHealth(w)
  <2>1. Running(w) /\ n = 0 /\ pc[w] = "read_health"
    BY <1>2 DEF ReadHealth, Running, Resting, FreshAttempt
  <2>2. FreshAttempt'
    BY <1>2, GotoType DEF ReadHealth, FreshAttempt, Goto, Typed, TypeOK
  <2> QED
    BY <1>0, <1>2, <2>1, <2>2, BudgetSteps, MovesOn DEF ReadHealth, Stages, Writing
<1>3. CASE FetchOk(w)
  <2>1. Running(w) /\ FreshAttempt'
    BY <1>3 DEF FetchOk, Running, Resting, FreshAttempt, Goto, Typed, TypeOK
  <2> QED
    BY <1>0, <1>3, <2>1, BudgetSteps, MovesOn DEF FetchOk, Stages, Writing
<1>4. CASE FetchFails(w)
  <2>1. Running(w) /\ FreshAttempt'
    BY <1>4 DEF FetchFails, Running, Resting, FreshAttempt, Goto, Typed, TypeOK
  <2> QED
    BY <1>0, <1>4, <2>1, BudgetSteps, MovesOn DEF FetchFails, Stages, Writing
<1>5. CASE Retry(w)
  <2>1. Running(w) /\ n < RetryCount /\ attempt'[w] = n + 1
    BY <1>5 DEF Retry, Running, Resting, Typed, TypeOK, RetriesLeft
  <2>2. FreshAttempt' /\ \A v \in Workers \ {w} : attempt'[v] = attempt[v]
    BY <1>5 DEF Retry, FreshAttempt, Goto, Typed, TypeOK
  <2> QED
    BY <1>0, <1>5, <2>1, <2>2, BudgetSteps, MovesOn DEF Retry, Stages
<1>6. CASE UpsertRecords(w)
  <2>1. Running(w) /\ FreshAttempt'
    BY <1>6
    DEF UpsertRecords, Running, Resting, FreshAttempt, Goto, Typed, TypeOK, local
  <2> QED
    BY <1>0, <1>6, <2>1, BudgetSteps, MovesOn
    DEF UpsertRecords, Stages, Writing, local
<1>7. CASE SetHealthy(w)
  <2>1. Running(w) /\ FreshAttempt'
    BY <1>7
    DEF SetHealthy, Running, Resting, FreshAttempt, Goto, Typed, TypeOK, local
  <2> QED
    BY <1>0, <1>7, <2>1, BudgetSteps, MovesOn
    DEF SetHealthy, Stages, Writing, local
<1>8. CASE CountLkg(w)
  <2>1. Running(w) /\ FreshAttempt'
    BY <1>8 DEF CountLkg, Running, Resting, FreshAttempt, Goto, Typed, TypeOK
  <2> QED
    BY <1>0, <1>8, <2>1, BudgetSteps, MovesOn DEF CountLkg, Stages, Writing
<1>9. CASE MarkStale(w)
  <2>1. Running(w) /\ FreshAttempt'
    BY <1>9
    DEF MarkStale, Running, Resting, FreshAttempt, Goto, Typed, TypeOK, local
  <2> QED
    BY <1>0, <1>9, <2>1, BudgetSteps, MovesOn
    DEF MarkStale, Stages, Writing, local
<1>10. CASE SetFailed(w)
  <2>1. Running(w) /\ FreshAttempt'
    BY <1>10
    DEF SetFailed, Running, Resting, FreshAttempt, Goto, Typed, TypeOK, local
  <2> QED
    BY <1>0, <1>10, <2>1, BudgetSteps, MovesOn
    DEF SetFailed, Stages, Writing, local
<1>11. CASE Release(w)
  <2>1. Running(w) /\ pc'[w] = "idle"
        /\ \A v \in Workers \ {w} : pc'[v] = pc[v] /\ attempt'[v] = attempt[v]
    BY <1>11 DEF Release, Running, Resting, Goto, Forget, Typed, TypeOK
  <2>2. FreshAttempt'
    BY <1>11, <2>1 DEF Release, Forget, FreshAttempt, Typed, TypeOK
  <2>3. \A v \in Workers : ~Running(v)'
    BY <2>1, OnlyRunner DEF Running, Resting
  <2> QED
    BY <2>2, <2>3 DEF LockOutlives
<1>12. CASE Escape(w)
  <2>1. Running(w) /\ FreshAttempt'
    BY <1>12
    DEF Escape, Running, Resting, Writing, FreshAttempt, Goto, Typed, TypeOK
  <2>2. Budget("release", n) <= Budget(pc[w], n) - Deadline(pc[w])
    BY <1>0, <1>12, BudgetSteps DEF Escape, Writing
  <2> QED
    BY <1>12, <2>1, <2>2, MovesOn DEF Escape, Stages, Writing
<1> QED
  BY <1>1, <1>2, <1>3, <1>4, <1>5, <1>6, <1>7, <1>8, <1>9, <1>10, <1>11,
     <1>12 DEF Poll

LEMMA TickLocked == LockInv /\ Tick /\ Typed' => LockInv'
<1> SUFFICES ASSUME LockInv, Tick, Typed' PROVE LockInv'
  OBVIOUS
<1> USE DEF LockInv
<1>1. FreshAttempt'
  BY DEF Tick, local, FreshAttempt
<1>2. ASSUME NEW w \in Workers, Running(w)'
      PROVE  Covered(w)'
  <2>1. /\ Running(w) /\ pc'[w] = pc[w] /\ attempt'[w] = attempt[w]
        /\ elapsed'[w] = elapsed[w] + 1 /\ elapsed[w] < Deadline(pc[w])
    BY <1>2 DEF Tick, Running, local, Typed, TypeOK
  <2>2. /\ lock.owner = w
        /\ lock.left > Budget(pc[w], attempt[w]) - elapsed[w]
    BY <2>1 DEF LockOutlives
  <2>3. /\ pc[w] \in Stages \ Resting /\ attempt[w] \in 0 .. RetryCount
        /\ elapsed[w] \in Nat /\ lock.left \in Int
    BY <2>1, LockTTLType DEF Typed, TypeOK, Running
  <2>4. Deadline(pc[w]) <= Budget(pc[w], attempt[w])
    BY <2>3, DeadlineFits DEF Typed, RetriesLeft
  <2>5. Deadline(pc[w]) \in Nat /\ Budget(pc[w], attempt[w]) \in Nat
    BY <2>3, BudgetType, FetchMaxType, BackoffAssumption, DbMaxAssumption
    DEF Deadline
  <2>6. lock.left > 1
    BY <2>1, <2>2, <2>3, <2>4, <2>5
  <2>7. lock'.owner = w /\ lock'.left = lock.left - 1
    BY <2>2, <2>6 DEF Tick, LockAged, Typed, TypeOK
  <2> QED
    BY <2>1, <2>2, <2>3, <2>5, <2>7 DEF Covered
<1> QED
  BY <1>1, <1>2 DEF LockOutlives, Covered

LEMMA CrashLocked ==
    ASSUME LockInv, NEW w \in Workers, Crash(w) \/ Restart(w), Typed'
    PROVE  LockInv'
<1> USE DEF LockInv
<1>1. /\ pc'[w] \in Resting /\ lock' = lock
      /\ \A v \in Workers \ {w} : /\ pc'[v] = pc[v] /\ elapsed'[v] = elapsed[v]
                                  /\ attempt'[v] = attempt[v]
  BY DEF Crash, Restart, Goto, Forget, local, Resting, Typed, TypeOK
<1>2. FreshAttempt'
  BY <1>1 DEF Crash, Restart, Forget, local, FreshAttempt, Typed, TypeOK
<1>3. ASSUME NEW v \in Workers, Running(v)' PROVE Covered(v)'
  BY <1>1, <1>3 DEF Running, LockOutlives, Covered
<1> QED
  BY <1>2, <1>3 DEF LockOutlives, Covered

LEMMA StepLocked == LockCoversRun /\ LockInv /\ [Next]_vars => LockInv'
<1> SUFFICES ASSUME LockCoversRun, LockInv, [Next]_vars PROVE LockInv'
  OBVIOUS
<1>0. Typed'
  BY StepTyped DEF LockInv
<1>1. CASE Tick
  BY <1>0, <1>1, TickLocked
<1>2. CASE ConditionsChange
  BY <1>0, <1>2
  DEF ConditionsChange, LockInv, FreshAttempt, LockOutlives, Running, local
<1>3. ASSUME NEW w \in Workers, Poll(w) PROVE LockInv'
  BY <1>0, <1>3, PollLocked
<1>4. ASSUME NEW w \in Workers, Crash(w) \/ Restart(w) PROVE LockInv'
  BY <1>0, <1>4, CrashLocked
<1>5. CASE UNCHANGED vars
  BY <1>0, <1>5 DEF vars, LockInv, FreshAttempt, LockOutlives, Running
<1> QED
  BY <1>1, <1>2, <1>3, <1>4, <1>5 DEF Next

LEMMA LockInvariant ==
    ASSUME LockCoversRun
    PROVE  Spec => []LockInv
<1>1. LockInv /\ [Next]_vars => LockInv'
  BY StepLocked
<1> QED
  BY <1>1, InitLocked, PTL DEF Spec

(* When the lock's timeout covers the longest run, two polls of one source *)
(* never overlap, whatever crashes and expiries happen.                    *)
THEOREM LockExcludes ==
    ASSUME LockCoversRun
    PROVE  Spec => []MutualExclusion
<1>1. LockInv => MutualExclusion
  BY DEF LockInv, LockOutlives, MutualExclusion
<1> QED
  BY <1>1, LockInvariant, PTL

-----------------------------------------------------------------------------
(***************************************************************************)
(* What exclusion buys: the health row read before the fetch is current    *)
(* when the new one is derived from it.                                    *)
(***************************************************************************)
CurrentInv == LockInv /\ PreviousIsCurrent

(* A step that leaves health alone and lets nobody into the stages that    *)
(* hold a copy of it, except with a fresh copy, keeps the copies current.  *)
LEMMA StepCurrent ==
    ASSUME LockCoversRun, CurrentInv, [Next]_vars
    PROVE  CurrentInv'
<1> USE DEF CurrentInv
<1>0. LockInv' /\ TypeOK
  BY StepLocked DEF LockInv, Typed
<1>1. CASE Tick
  BY <1>0, <1>1 DEF Tick, local, PreviousIsCurrent, Seen, TypeOK, Health
<1>2. CASE ConditionsChange \/ UNCHANGED vars
  BY <1>0, <1>2 DEF ConditionsChange, local, PreviousIsCurrent, vars
<1>3. ASSUME NEW w \in Workers, Poll(w) PROVE PreviousIsCurrent'
  <2>1. CASE Acquire(w)
    BY <1>0, <2>1
    DEF Acquire, Goto, local, PreviousIsCurrent, HoldsPrevious, TypeOK
  <2>2. CASE ReadHealth(w)
    BY <1>0, <2>2 DEF ReadHealth, Goto, PreviousIsCurrent, TypeOK
  <2>3. CASE FetchOk(w) \/ FetchFails(w) \/ Retry(w) \/ CountLkg(w)
    BY <1>0, <2>3
    DEF FetchOk, FetchFails, Retry, CountLkg, Goto, PreviousIsCurrent,
        HoldsPrevious, TypeOK
  <2>4. CASE UpsertRecords(w) \/ MarkStale(w)
    BY <1>0, <2>4
    DEF UpsertRecords, MarkStale, Goto, local, PreviousIsCurrent,
        HoldsPrevious, TypeOK
  <2>5. CASE SetHealthy(w) \/ SetFailed(w)
    <3>1. Running(w) /\ pc' = [pc EXCEPT ![w] = "release"]
      BY <2>5 DEF SetHealthy, SetFailed, Running, Resting, Goto
    <3>2. \A v \in Workers : pc'[v] \notin HoldsPrevious
      BY <1>0, <3>1, OnlyRunner DEF HoldsPrevious, Running, Resting, TypeOK
    <3> QED
      BY <3>2 DEF PreviousIsCurrent
  <2>6. CASE Release(w)
    BY <1>0, <2>6
    DEF Release, Forget, Goto, PreviousIsCurrent, HoldsPrevious, TypeOK
  <2>7. CASE Escape(w)
    BY <1>0, <2>7 DEF Escape, Goto, PreviousIsCurrent, HoldsPrevious, TypeOK
  <2> QED
    BY <1>3, <2>1, <2>2, <2>3, <2>4, <2>5, <2>6, <2>7 DEF Poll
<1>4. ASSUME NEW w \in Workers, Crash(w) \/ Restart(w)
      PROVE  PreviousIsCurrent'
  BY <1>0, <1>4
  DEF Crash, Restart, Forget, Goto, local, PreviousIsCurrent, HoldsPrevious,
      TypeOK
<1> QED
  BY <1>0, <1>1, <1>2, <1>3, <1>4 DEF Next

LEMMA CurrentInvariant ==
    ASSUME LockCoversRun
    PROVE  Spec => []CurrentInv
<1>1. Init => CurrentInv
  BY InitLocked DEF CurrentInv, Init, PreviousIsCurrent, HoldsPrevious
<1>2. CurrentInv /\ [Next]_vars => CurrentInv'
  BY StepCurrent
<1> QED
  BY <1>1, <1>2, PTL DEF Spec

(* The failure counter, last_success and circuit a failing poll writes are *)
(* derived from the row it replaces, never from an older one.              *)
THEOREM NoLostUpdate ==
    ASSUME LockCoversRun
    PROVE  Spec => []PreviousIsCurrent
<1>1. CurrentInv => PreviousIsCurrent
  BY DEF CurrentInv
<1> QED
  BY <1>1, CurrentInvariant, PTL

(* A recorded success is never erased.                                     *)
THEOREM SuccessNeverErased ==
    ASSUME LockCoversRun
    PROVE  Spec => SuccessRemembered
<1>1. CurrentInv /\ [Next]_vars
          => [health.succeeded => health'.succeeded]_vars
  <2> SUFFICES ASSUME CurrentInv, Next, health.succeeded
               PROVE  health'.succeeded
    BY DEF vars
  <2>0. TypeOK
    BY DEF CurrentInv, LockInv, Typed
  <2>1. CASE Tick
    BY <2>0, <2>1 DEF Tick, TypeOK, Health
  <2>2. CASE ConditionsChange
    BY <2>2 DEF ConditionsChange
  <2>3. ASSUME NEW w \in Workers, Poll(w) PROVE health'.succeeded
    <3>1. CASE SetHealthy(w)
      BY <3>1 DEF SetHealthy, HealthAfterSuccess
    <3>2. CASE SetFailed(w)
      <4>1. previous[w] = Seen(health)
        BY <3>2 DEF CurrentInv, PreviousIsCurrent, SetFailed, HoldsPrevious
      <4> QED
        BY <3>2, <4>1 DEF SetFailed, HealthAfterFailure, Seen
    <3>3. CASE ~SetHealthy(w) /\ ~SetFailed(w)
      BY <2>3, <3>3
      DEF Poll, Acquire, ReadHealth, FetchOk, FetchFails, Retry,
          UpsertRecords, CountLkg, MarkStale, Release, Escape
    <3> QED
      BY <3>1, <3>2, <3>3
  <2>4. ASSUME NEW w \in Workers, Crash(w) \/ Restart(w)
        PROVE  health'.succeeded
    BY <2>4 DEF Crash, Restart
  <2> QED
    BY <2>1, <2>2, <2>3, <2>4 DEF Next
<1> QED
  BY <1>1, CurrentInvariant, PTL DEF Spec, SuccessRemembered

-----------------------------------------------------------------------------
(***************************************************************************)
(* The circuit.  That an open circuit keeps every poll away is not         *)
(* inductive: a poll that is already past its check must have found the    *)
(* very row that is stored now, and the row's two ways of saying "open"    *)
(* must agree.                                                             *)
(***************************************************************************)
CircuitCounts == health.circuit = "OPEN" <=> health.failures >= Threshold

Contacting == {"fetch", "backoff", "upsert"}

NoneContactsCooling ==
    \A w \in Workers : pc[w] \in Contacting => ~CircuitCooling(health)

QuietInv == LockInv /\ CircuitCounts /\ NoneContactsCooling

(* Both writers of the health row open the circuit by the same count.      *)
LEMMA WrittenCircuit ==
    ASSUME TypeOK, NEW w \in Workers, SetHealthy(w) \/ SetFailed(w)
    PROVE  CircuitCounts'
<1>1. CASE SetHealthy(w)
  BY <1>1, ThresholdAssumption DEF SetHealthy, HealthAfterSuccess, CircuitCounts
<1>2. CASE SetFailed(w)
  <2>1. /\ health'.failures = Failures(previous[w])
        /\ health'.circuit = IF Failures(previous[w]) >= Threshold
                                THEN "OPEN" ELSE "CLOSED"
    BY <1>2 DEF SetFailed, HealthAfterFailure
  <2> QED
    BY <2>1 DEF CircuitCounts
<1> QED
  BY <1>1, <1>2

LEMMA StepQuiet ==
    ASSUME LockCoversRun, QuietInv, [Next]_vars
    PROVE  QuietInv'
<1> USE DEF QuietInv
<1>0. LockInv' /\ TypeOK
  BY StepLocked DEF LockInv, Typed
<1>1. CASE Tick
  <2>1. /\ health'.circuit = health.circuit
        /\ health'.failures = health.failures
        /\ health'.sinceAttempt >= health.sinceAttempt
    BY <1>0, <1>1, CooldownAssumption DEF Tick, TypeOK, Health
  <2>2. health.sinceAttempt \in Int /\ health'.sinceAttempt \in Int
    BY <1>0 DEF LockInv, Typed, TypeOK, Health
  <2>3. CircuitCooling(health') => CircuitCooling(health)
    BY <2>1, <2>2, CooldownAssumption DEF CircuitCooling
  <2> QED
    BY <1>0, <1>1, <2>1, <2>3 DEF Tick, CircuitCounts, NoneContactsCooling
<1>2. CASE ConditionsChange \/ UNCHANGED vars
  BY <1>0, <1>2
  DEF ConditionsChange, vars, CircuitCounts, NoneContactsCooling
<1>3. ASSUME NEW w \in Workers, Poll(w)
      PROVE  CircuitCounts' /\ NoneContactsCooling'
  <2>1. CASE Acquire(w)
    BY <1>0, <2>1
    DEF Acquire, Goto, CircuitCounts, NoneContactsCooling, Contacting, TypeOK
  <2>2. CASE ReadHealth(w)
    BY <1>0, <2>2
    DEF ReadHealth, Goto, CircuitCounts, NoneContactsCooling, Contacting,
        TypeOK
  <2>3. CASE FetchOk(w) \/ FetchFails(w) \/ Retry(w) \/ CountLkg(w)
    BY <1>0, <2>3
    DEF FetchOk, FetchFails, Retry, CountLkg, Goto, CircuitCounts,
        NoneContactsCooling, Contacting, TypeOK
  <2>4. CASE UpsertRecords(w) \/ MarkStale(w) \/ Escape(w) \/ Release(w)
    BY <1>0, <2>4
    DEF UpsertRecords, MarkStale, Escape, Release, Goto, CircuitCounts,
        NoneContactsCooling, Contacting, TypeOK
  <2>5. CASE SetHealthy(w) \/ SetFailed(w)
    <3>1. Running(w) /\ pc' = [pc EXCEPT ![w] = "release"]
      BY <2>5 DEF SetHealthy, SetFailed, Running, Resting, Goto
    <3>2. \A v \in Workers : pc'[v] \notin Contacting
      BY <1>0, <3>1, OnlyRunner DEF Contacting, Running, Resting, TypeOK
    <3> QED
      BY <1>0, <2>5, <3>2, WrittenCircuit DEF NoneContactsCooling
  <2> QED
    BY <1>3, <2>1, <2>2, <2>3, <2>4, <2>5 DEF Poll
<1>4. ASSUME NEW w \in Workers, Crash(w) \/ Restart(w)
      PROVE  CircuitCounts' /\ NoneContactsCooling'
  BY <1>0, <1>4
  DEF Crash, Restart, Goto, CircuitCounts, NoneContactsCooling, Contacting,
      TypeOK
<1> QED
  BY <1>0, <1>1, <1>2, <1>3, <1>4 DEF Next

(* An open circuit means quiet: for Cooldown after the Threshold-th        *)
(* failure in a row no poll of the source talks to the publisher, the one  *)
(* that was already running when the circuit opened included.              *)
THEOREM CircuitKeepsQuiet ==
    ASSUME LockCoversRun
    PROVE  Spec => []OpenMeansQuiet
<1>1. Init => QuietInv
  BY InitLocked, ThresholdAssumption
  DEF QuietInv, Init, CircuitCounts, NoneContactsCooling, Contacting, NoHealth
<1>2. QuietInv /\ [Next]_vars => QuietInv'
  BY StepQuiet
<1>3. QuietInv => OpenMeansQuiet
  BY DEF QuietInv, CircuitCounts, NoneContactsCooling, Contacting,
         CircuitCooling, OpenMeansQuiet
<1> QED
  BY <1>1, <1>2, <1>3, PTL DEF Spec

-----------------------------------------------------------------------------
(***************************************************************************)
(* The records and the health row.  Agreement between them is not          *)
(* inductive by itself: it needs what each poll has already committed when *)
(* its health write is still to come.                                      *)
(***************************************************************************)
CommittedHalf ==
    \A w \in Workers :
        /\ pc[w] = "set_healthy" =>
              /\ pending = "answer" /\ Doubted = {}
              /\ Shown \subseteq {r \in Records : batch[w][r] # NoRow}
        /\ pc[w] = "set_failed" => pending = "doubt" /\ Doubted = Shown
        /\ pc[w] \in {"mark", "set_failed"} => (Shown # {} => hasLkg[w])

Agreement ==
    /\ LabelsUniform
    /\ RecordsMatchStatus
    /\ LkgFlagSound
    /\ CommittedHalf

AgreeInv == LockInv /\ Agreement

LEMMA SameRows ==
    ASSUME rows' = rows
    PROVE  Shown' = Shown /\ Doubted' = Doubted /\ Aged' = Aged
BY DEF Shown, Doubted, Aged, Current

(* Time only removes records from the display. *)
LEMMA TickShrinks ==
    ASSUME TypeOK, Tick
    PROVE  /\ Shown' \subseteq Shown
           /\ Doubted' = Doubted \cap Shown' /\ Aged' = Aged \cap Shown'
<1>1. \A r \in Records : /\ rows'[r].life = Older(rows[r].life)
                         /\ rows'[r].mark = rows[r].mark
  BY DEF Tick, TypeOK, Row, NoRow
<1> QED
  BY <1>1 DEF Shown, Doubted, Aged, Current, Older

(* After a complete answer only its own records are shown, none labelled. *)
LEMMA UpsertReplaces ==
    ASSUME TypeOK, NEW w \in Workers, UpsertRecords(w)
    PROVE  /\ Shown' \subseteq {r \in Records : batch[w][r] # NoRow}
           /\ Doubted' = {}
<1>1. \A r \in Records :
         rows'[r] = IF batch[w][r] # NoRow THEN batch[w][r]
                    ELSE IF Current(rows[r]) THEN [life |-> 0, mark |-> "absent"]
                    ELSE rows[r]
  BY DEF UpsertRecords, Upserted, TypeOK
<1>2. \A r \in Records : batch[w][r] # NoRow => batch[w][r].mark # "refresh_failed"
  <2>1. \A r \in Records : batch[w][r] \in Answer
    BY DEF TypeOK
  <2> QED
    BY <2>1 DEF Answer
<1> QED
  BY <1>1, <1>2 DEF Shown, Doubted, Current

(* A failed refresh keeps every shown record and labels it. *)
LEMMA MarkKeeps ==
    ASSUME TypeOK, NEW w \in Workers, MarkStale(w)
    PROVE  /\ \A r \in Records : rows'[r].life = rows[r].life
           /\ Shown' = Shown /\ Doubted' = Shown /\ Aged' = {}
<1>1. \A r \in Records : rows'[r] = Marked(rows[r])
  BY DEF MarkStale, TypeOK
<1>2. \A r \in Records :
         /\ Marked(rows[r]).life = rows[r].life
         /\ Current(rows[r]) => Marked(rows[r]).mark = "refresh_failed"
  BY DEF Marked, TypeOK, Row, NoRow, Current
<1> QED
  BY <1>1, <1>2 DEF Shown, Doubted, Aged, Current

LEMMA InitAgrees == Init => AgreeInv
<1> SUFFICES ASSUME Init PROVE Agreement
  BY InitLocked DEF AgreeInv
<1>1. Shown = {} /\ Doubted = {}
  BY DEF Init, NoBatch, NoRow, Shown, Doubted, Current
<1> QED
  BY <1>1
  DEF Init, Agreement, LabelsUniform, RecordsMatchStatus, LkgFlagSound,
      CommittedHalf, NoHealth, Failing

(* A step that touches neither records nor health nor pending, and lets no    *)
(* worker into a stage CommittedHalf speaks of, changes nothing here.      *)
LEMMA QuietStep ==
    ASSUME Agreement,
           rows' = rows, health' = health, pending' = pending,
           \A v \in Workers :
              pc'[v] \in {"set_healthy", "set_failed", "mark"} =>
                 pc'[v] = pc[v] /\ batch'[v] = batch[v] /\ hasLkg'[v] = hasLkg[v]
    PROVE  Agreement'
BY SameRows
DEF Agreement, LabelsUniform, RecordsMatchStatus, LkgFlagSound, CommittedHalf

LEMMA TickAgrees ==
    ASSUME TypeOK, Agreement, Tick
    PROVE  Agreement'
<1>1. Shown' \subseteq Shown /\ Doubted' = Doubted \cap Shown'
  BY TickShrinks
<1>2. health'.state = health.state /\ health'.lkg = health.lkg
  BY DEF Tick, TypeOK, Health
<1>3. pc' = pc /\ batch' = batch /\ hasLkg' = hasLkg /\ pending' = pending
  BY DEF Tick, local
<1>4. Doubted \subseteq Shown
  BY DEF Doubted
<1> QED
  BY <1>1, <1>2, <1>3, <1>4
  DEF Agreement, LabelsUniform, RecordsMatchStatus, LkgFlagSound, CommittedHalf

LEMMA PollAgrees ==
    ASSUME AgreeInv, NEW w \in Workers, Poll(w)
    PROVE  Agreement'
<1> USE DEF AgreeInv
<1>0. TypeOK
  BY DEF LockInv, Typed
<1>1. CASE Acquire(w) \/ ReadHealth(w) \/ FetchOk(w) \/ FetchFails(w)
           \/ Retry(w) \/ Release(w) \/ Escape(w)
  BY <1>0, <1>1, QuietStep
  DEF Acquire, ReadHealth, FetchOk, FetchFails, Retry, Release, Escape,
      Goto, Forget, local, TypeOK
<1>2. CASE UpsertRecords(w)
  <2>1. /\ Shown' \subseteq {r \in Records : batch[w][r] # NoRow}
        /\ Doubted' = {}
    BY <1>0, <1>2, UpsertReplaces
  <2>2. \A v \in Workers \ {w} : pc'[v] \in Resting
    BY <1>0, <1>2, OnlyRunner
    DEF UpsertRecords, Goto, Running, Resting, TypeOK
  <2>3. pc'[w] = "set_healthy" /\ pending' = "answer" /\ batch' = batch
    BY <1>0, <1>2 DEF UpsertRecords, Goto, local, TypeOK
  <2> QED
    BY <2>1, <2>2, <2>3
    DEF Agreement, LabelsUniform, RecordsMatchStatus, LkgFlagSound,
        CommittedHalf, Resting
<1>3. CASE SetHealthy(w)
  <2>1. Doubted = {} /\ Shown \subseteq {r \in Records : batch[w][r] # NoRow}
    BY <1>3 DEF SetHealthy, Agreement, CommittedHalf
  <2>2. Shown' = Shown /\ Doubted' = Doubted
    BY <1>3, SameRows DEF SetHealthy
  <2>3. \A v \in Workers : pc'[v] \in Resting \cup {"release"}
    BY <1>0, <1>3, OnlyRunner DEF SetHealthy, Goto, Running, Resting, TypeOK
  <2>4. /\ health'.state = "HEALTHY"
        /\ health'.lkg = \E r \in Records : batch[w][r] # NoRow
    BY <1>3 DEF SetHealthy, HealthAfterSuccess
  <2>5. LabelsUniform' /\ RecordsMatchStatus' /\ CommittedHalf'
    BY <2>1, <2>2, <2>3, <2>4
    DEF LabelsUniform, RecordsMatchStatus, CommittedHalf, Failing, Resting
  <2>6. LkgFlagSound'
    BY <2>1, <2>2, <2>4 DEF LkgFlagSound
  <2> QED
    BY <2>5, <2>6 DEF Agreement
<1>4. CASE CountLkg(w)
  <2>1. Shown' = Shown /\ Doubted' = Doubted
    BY <1>4, SameRows DEF CountLkg
  <2>2. /\ pc' = [pc EXCEPT ![w] = "mark"]
        /\ hasLkg' = [hasLkg EXCEPT ![w] = (Shown # {})]
        /\ health' = health /\ pending' = pending /\ batch' = batch
    BY <1>4 DEF CountLkg, Goto, SourceHasRecords
  <2>3. CommittedHalf'
    BY <1>0, <2>1, <2>2 DEF Agreement, CommittedHalf, TypeOK
  <2> QED
    BY <2>1, <2>2, <2>3
    DEF Agreement, LabelsUniform, RecordsMatchStatus, LkgFlagSound
<1>5. CASE MarkStale(w)
  <2>1. Shown' = Shown /\ Doubted' = Shown
    BY <1>0, <1>5, MarkKeeps
  <2>2. \A v \in Workers \ {w} : pc'[v] \in Resting
    BY <1>0, <1>5, OnlyRunner DEF MarkStale, Goto, Running, Resting, TypeOK
  <2>3. pc'[w] = "set_failed" /\ pending' = "doubt" /\ hasLkg' = hasLkg
    BY <1>0, <1>5 DEF MarkStale, Goto, local, TypeOK
  <2>4. Shown # {} => hasLkg[w]
    BY <1>5 DEF MarkStale, Agreement, CommittedHalf
  <2> QED
    BY <2>1, <2>2, <2>3, <2>4
    DEF Agreement, LabelsUniform, RecordsMatchStatus, LkgFlagSound,
        CommittedHalf, Resting
<1>6. CASE SetFailed(w)
  <2>1. Doubted = Shown /\ (Shown # {} => hasLkg[w])
    BY <1>6 DEF SetFailed, Agreement, CommittedHalf
  <2>2. Shown' = Shown /\ Doubted' = Doubted
    BY <1>6, SameRows DEF SetFailed
  <2>3. \A v \in Workers : pc'[v] \in Resting \cup {"release"}
    BY <1>0, <1>6, OnlyRunner DEF SetFailed, Goto, Running, Resting, TypeOK
  <2>4. health'.state \in Failing /\ health'.lkg = hasLkg[w]
    BY <1>6 DEF SetFailed, HealthAfterFailure, FailureState, Failing
  <2> QED
    BY <2>1, <2>2, <2>3, <2>4
    DEF Agreement, LabelsUniform, RecordsMatchStatus, LkgFlagSound,
        CommittedHalf, Failing, Resting
<1> QED
  BY <1>1, <1>2, <1>3, <1>4, <1>5, <1>6 DEF Poll

LEMMA StepAgrees ==
    ASSUME LockCoversRun, AgreeInv, [Next]_vars
    PROVE  AgreeInv'
<1> USE DEF AgreeInv
<1>0. LockInv' /\ TypeOK
  BY StepLocked DEF LockInv, Typed
<1>1. CASE Tick
  BY <1>0, <1>1, TickAgrees
<1>2. CASE ConditionsChange \/ UNCHANGED vars
  BY <1>0, <1>2, QuietStep DEF ConditionsChange, vars, local
<1>3. ASSUME NEW w \in Workers, Poll(w) PROVE Agreement'
  BY <1>3, PollAgrees
<1>4. ASSUME NEW w \in Workers, Crash(w) \/ Restart(w) PROVE Agreement'
  BY <1>0, <1>4, QuietStep DEF Crash, Restart, Goto, Forget, local, TypeOK
<1> QED
  BY <1>0, <1>1, <1>2, <1>3, <1>4 DEF Next

LEMMA AgreeInvariant ==
    ASSUME LockCoversRun
    PROVE  Spec => []AgreeInv
<1>1. AgreeInv /\ [Next]_vars => AgreeInv'
  BY StepAgrees
<1> QED
  BY <1>1, InitAgrees, PTL DEF Spec

(* Whenever no health write is outstanding, a healthy source shows nothing *)
(* kept from before a failure and a failing one shows nothing else.        *)
THEOREM RecordsAgreeWithStatus ==
    ASSUME LockCoversRun
    PROVE  Spec => []RecordsMatchStatus
<1>1. AgreeInv => RecordsMatchStatus
  BY DEF AgreeInv, Agreement
<1> QED
  BY <1>1, AgreeInvariant, PTL

(* At every instant, whatever crashes come between a poll's commits, the   *)
(* visible records of a source carry one verdict: mark_source_stale and    *)
(* upsert_records each relabel all of them in one transaction.             *)
THEOREM OneVerdict ==
    ASSUME LockCoversRun
    PROVE  Spec => []LabelsUniform
<1>1. AgreeInv => LabelsUniform
  BY DEF AgreeInv, Agreement
<1> QED
  BY <1>1, AgreeInvariant, PTL

(* last_known_good is never FALSE while readers are shown a record of the  *)
(* source: the count of _record_failure and the answer of a success both   *)
(* cover everything still visible once their health row is written.        *)
THEOREM FlagCoversShown ==
    ASSUME LockCoversRun
    PROVE  Spec => []LkgFlagSound
<1>1. AgreeInv => LkgFlagSound
  BY DEF AgreeInv, Agreement
<1> QED
  BY <1>1, AgreeInvariant, PTL

-----------------------------------------------------------------------------
(***************************************************************************)
(* SourceIngestion implements LastKnownGood: each step is one step of the  *)
(* promise, or changes nothing the promise speaks of.                      *)
(***************************************************************************)
LifeOf == [r \in Records |-> rows[r].life]

LEMMA PromiseShown == Promise!shown = Shown
BY DEF Promise!shown, Shown, Current

LEMMA PromiseShownNext == Promise!shown' = Shown'
BY DEF Promise!shown, Shown, Current

LEMMA PromiseInit == Init => Promise!Init
BY DEF Init, Promise!Init, NoBatch, NoRow, NoHealth, Report, Doubted, Aged,
       Shown, Current

LEMMA PromiseStutter ==
    ASSUME rows' = rows, health'.state = health.state, pending' = pending
    PROVE  UNCHANGED Promise!vars
BY SameRows DEF Promise!vars, Report

LEMMA PromiseTick ==
    ASSUME TypeOK, Tick
    PROVE  Promise!Elapse
<1>1. LifeOf' = [r \in Records |-> IF LifeOf[r] > 0 THEN LifeOf[r] - 1
                                                   ELSE LifeOf[r]]
  <2>1. \A r \in Records : rows'[r].life = Older(rows[r].life)
    BY DEF Tick, TypeOK, Row, NoRow
  <2> QED
    BY <2>1 DEF LifeOf, Older
<1>2. Doubted' = Doubted \cap Promise!shown' /\ Aged' = Aged \cap Promise!shown'
  BY TickShrinks, PromiseShownNext
<1>3. Report' = Report /\ pending' = pending
  BY DEF Tick, TypeOK, Health, Report
<1> QED
  BY <1>1, <1>2, <1>3 DEF Promise!Elapse, LifeOf

LEMMA PromisePoll ==
    ASSUME AgreeInv, NEW w \in Workers, Poll(w)
    PROVE  [Promise!Next]_(Promise!vars)
<1>0. TypeOK
  BY DEF AgreeInv, LockInv, Typed
<1>1. CASE Acquire(w) \/ ReadHealth(w) \/ FetchOk(w) \/ FetchFails(w)
           \/ Retry(w) \/ CountLkg(w) \/ Release(w) \/ Escape(w)
  BY <1>1, PromiseStutter
  DEF Acquire, ReadHealth, FetchOk, FetchFails, Retry, CountLkg, Release,
      Escape
<1>2. CASE UpsertRecords(w)
  <2>1. rows' \in [Records -> Row]
    BY <1>0, <1>2, UpsertedType DEF UpsertRecords, TypeOK
  <2>2. LifeOf' \in [Records -> Promise!Lives]
    BY <2>1 DEF LifeOf, Row, NoRow, Lives, Never, Promise!Lives, Promise!Forever
  <2>3. Doubted' = {} /\ Report' = Report /\ pending' = "answer"
    BY <1>0, <1>2, UpsertReplaces DEF UpsertRecords, Report
  <2>4. Aged' \in SUBSET Promise!shown'
    BY PromiseShownNext DEF Aged
  <2> QED
    BY <2>2, <2>3, <2>4 DEF Promise!Next, Promise!Replace, LifeOf
<1>3. CASE MarkStale(w)
  <2>1. LifeOf' = LifeOf
    BY <1>0, <1>3, MarkKeeps DEF LifeOf
  <2>2. /\ Doubted' = Promise!shown /\ Aged' = {}
        /\ Report' = Report /\ pending' = "doubt"
    BY <1>0, <1>3, MarkKeeps, PromiseShown DEF MarkStale, Report
  <2> QED
    BY <2>1, <2>2 DEF Promise!Next, Promise!Doubt, LifeOf
<1>4. CASE SetHealthy(w)
  <2>1. pending = "answer"
    BY <1>4 DEF SetHealthy, AgreeInv, Agreement, CommittedHalf
  <2>2. /\ rows' = rows /\ Doubted' = Doubted /\ Aged' = Aged
        /\ Report' = "healthy" /\ pending' = "none"
    BY <1>4, SameRows DEF SetHealthy, HealthAfterSuccess, Report
  <2> QED
    BY <2>1, <2>2 DEF Promise!Next, Promise!ReportHealthy
<1>5. CASE SetFailed(w)
  <2>1. pending = "doubt"
    BY <1>5 DEF SetFailed, AgreeInv, Agreement, CommittedHalf
  <2>2. /\ rows' = rows /\ Doubted' = Doubted /\ Aged' = Aged
        /\ Report' = "failing" /\ pending' = "none"
    BY <1>5, SameRows
    DEF SetFailed, HealthAfterFailure, FailureState, Report
  <2> QED
    BY <2>1, <2>2 DEF Promise!Next, Promise!ReportFailing
<1> QED
  BY <1>1, <1>2, <1>3, <1>4, <1>5 DEF Poll

LEMMA PromiseStep ==
    ASSUME AgreeInv, [Next]_vars
    PROVE  [Promise!Next]_(Promise!vars)
<1>0. TypeOK
  BY DEF AgreeInv, LockInv, Typed
<1>1. CASE Tick
  BY <1>0, <1>1, PromiseTick DEF Promise!Next
<1>2. CASE ConditionsChange \/ UNCHANGED vars
  BY <1>2, PromiseStutter DEF ConditionsChange, vars
<1>3. ASSUME NEW w \in Workers, Poll(w)
      PROVE  [Promise!Next]_(Promise!vars)
  BY <1>3, PromisePoll
<1>4. ASSUME NEW w \in Workers, Crash(w) \/ Restart(w)
      PROVE  [Promise!Next]_(Promise!vars)
  BY <1>4, PromiseStutter DEF Crash, Restart
<1> QED
  BY <1>1, <1>2, <1>3, <1>4 DEF Next

(* A source keeps its promises through retries, crashes, expiring locks    *)
(* and open circuits.                                                      *)
THEOREM ImplementsLastKnownGood ==
    ASSUME LockCoversRun
    PROVE  Spec => KeepsLastKnownGood
<1>1. AgreeInv /\ [Next]_vars => [Promise!Next]_(Promise!vars)
  BY PromiseStep
<1> QED
  BY <1>1, PromiseInit, AgreeInvariant, PTL
  DEF Spec, KeepsLastKnownGood, Promise!Spec
-----------------------------------------------------------------------------
(* A step of the promise, seen without lifetimes. *)
LEMMA DisplayStep ==
    ASSUME TypeOK, TypeOK', [Promise!Next]_(Promise!vars)
    PROVE  [Display!Next]_(Display!vars)
<1>1. /\ Shown = {r \in Records : LifeOf[r] # 0}
      /\ Shown' = {r \in Records : LifeOf'[r] # 0}
  BY DEF Shown, Current, LifeOf
<1>2. CASE UNCHANGED Promise!vars
  BY <1>1, <1>2 DEF Promise!vars, Display!vars, LifeOf
<1>3. CASE Promise!Replace
  <2>1. Shown' \in SUBSET Records /\ Aged' \in SUBSET (Shown' \cap Records)
    BY DEF Shown, Aged
  <2> QED
    BY <1>3, <2>1 DEF Promise!Replace, Display!Next, Display!Answer
<1>4. CASE Promise!Doubt
  BY <1>1, <1>4, PromiseShown DEF Promise!Doubt, Display!Next, Display!Doubt, LifeOf
<1>5. CASE Promise!Elapse
  <2> DEFINE gone == Shown \ Shown'
  <2>1. Shown' \subseteq Shown
    BY <1>1, <1>5 DEF Promise!Elapse, LifeOf
  <2>2. /\ Doubted' = Doubted \cap Shown' /\ Doubted \subseteq Shown
        /\ Aged' = Aged \cap Shown' /\ Aged \subseteq Shown
    BY <1>1, <1>5 DEF Promise!Elapse, Promise!shown, LifeOf, Doubted, Aged
  <2>3. /\ gone \in SUBSET Shown /\ Shown' = Shown \ gone
        /\ Doubted' = Doubted \ gone /\ Aged' = Aged \ gone
    BY <2>1, <2>2
  <2> QED
    BY <1>5, <2>3 DEF Promise!Elapse, Display!Next, Display!Leave
<1>6. CASE Promise!ReportHealthy
  BY <1>1, <1>6 DEF Promise!ReportHealthy, Display!Next, Display!Report, LifeOf
<1>7. CASE Promise!ReportFailing
  BY <1>1, <1>7 DEF Promise!ReportFailing, Display!Next, Display!Report, LifeOf
<1> QED
  BY <1>2, <1>3, <1>4, <1>5, <1>6, <1>7 DEF Promise!Next

(* The worker's source is one of those the API is shown to read            *)
(* consistently (DashboardReadsProofs).                                    *)
THEOREM ImplementsSourceDisplay ==
    ASSUME LockCoversRun
    PROVE  Spec => Display!Spec
<1>1. Init => Display!Init
  BY DEF Init, Display!Init, NoBatch, NoRow, NoHealth, Report, Doubted, Aged,
     Shown, Current
<1>2. AgreeInv /\ AgreeInv' /\ [Next]_vars => [Display!Next]_(Display!vars)
  BY PromiseStep, DisplayStep DEF AgreeInv, LockInv, Typed
<1> QED
  BY <1>1, <1>2, AgreeInvariant, PTL DEF Spec, Display!Spec
=============================================================================
