------------------------- MODULE BrowserCacheProofs -------------------------
(***************************************************************************)
(* Theorems about BrowserCache, for any number of retries and answers and  *)
(* any behaviour of the network, the storage and the other tabs.           *)
(***************************************************************************)
EXTENDS BrowserCache, TLAPS

USE DEF Answers, Bodies, Replies, Shown

LEMMA Bounds ==
    /\ MaxAnswers \in Nat /\ MaxAnswers > 0 /\ Retries \in Nat
    /\ Garbage \notin Answers /\ None \notin Answers /\ None # Garbage
    /\ NoReply.body = None /\ NoReply \in Replies
BY MaxAnswersAssumption, RetriesAssumption, BodiesAssumption DEF NoReply

LEMMA GeneratedType ==
    ASSUME TypeOK
    PROVE  /\ Generated \in Answers
           /\ Generated >= answers
           /\ Generated > answers \/ Generated = MaxAnswers
BY Bounds DEF TypeOK, Generated

LEMMA FalseIsBoolean ==
    /\ failed = FALSE => failed \in BOOLEAN
    /\ failed' = FALSE => failed' \in BOOLEAN
BY Zenon

LEMMA InitTyped == Init => TypeOK
<1> SUFFICES ASSUME Init PROVE TypeOK
  OBVIOUS
<1>1. failed \in BOOLEAN
  BY FalseIsBoolean DEF Init
<1> QED
  BY <1>1, Bounds DEF Init, TypeOK, Conditions

LEMMA FetchTyped ==
    ASSUME TypeOK, Fetch
    PROVE  TypeOK'
<1>0. Generated \in Answers
  BY GeneratedType
<1>1. CASE Ask
  BY <1>1, Bounds DEF TypeOK, Ask, world, shared, screen
<1>2. CASE NetworkAnswers
  BY <1>0, <1>2, Bounds DEF TypeOK, NetworkAnswers, Put, Reply, screen
<1>3. CASE NetworkGarbles
  BY <1>3, Bounds DEF TypeOK, NetworkGarbles, Put, Reply, screen
<1>4. CASE NoAnswer
  BY <1>4, Bounds DEF TypeOK, NoAnswer, Reply, screen
<1>5. CASE CacheAnswers
  BY <1>5, Bounds DEF TypeOK, CacheAnswers, CacheServes, Hit, Reply, screen
<1>6. CASE ShowLive
  <2>1. reply.body \in Answers /\ (storage = "ok") \in BOOLEAN
    BY <1>6 DEF ShowLive, Parses
  <2>2. data' \in Shown
    BY <1>6, <2>1 DEF ShowLive, Finish
  <2>3. snapshot' \in Answers \cup {None}
    BY <1>6, <2>1 DEF ShowLive, Stored, TypeOK
  <2>4. failed' \in BOOLEAN
    BY <1>6, FalseIsBoolean DEF ShowLive, Finish
  <2> QED
    BY <1>6, <2>2, <2>3, <2>4, Bounds DEF TypeOK, ShowLive, Finish, Rest, world
<1>7. CASE ShowHit
  <2>1. failed' \in BOOLEAN
    BY <1>7, FalseIsBoolean DEF ShowHit, Finish
  <2>2. data' \in Shown
    BY <1>7 DEF ShowHit, Parses, Finish
  <2> QED
    BY <1>7, <2>1, <2>2, Bounds DEF TypeOK, ShowHit, Finish, Rest, world
<1>8. CASE ShowSnapshot
  <2>1. failed' \in BOOLEAN
    BY <1>8, FalseIsBoolean DEF ShowSnapshot, Finish
  <2>2. data' \in Shown
    BY <1>8 DEF ShowSnapshot, Readable, SnapshotMarked, Finish, TypeOK
  <2> QED
    BY <1>8, <2>1, <2>2, Bounds DEF TypeOK, ShowSnapshot, Finish, Rest, world
<1>9. CASE Retry
  BY <1>9, Bounds DEF TypeOK, Retry, world, shared, screen
<1>10. CASE GiveUp
  BY <1>10, Bounds DEF TypeOK, GiveUp, Rest, world, shared
<1> QED
  BY <1>1, <1>2, <1>3, <1>4, <1>5, <1>6, <1>7, <1>8, <1>9, <1>10 DEF Fetch

LEMMA EnvironmentTyped ==
    ASSUME TypeOK, Environment
    PROVE  TypeOK'
<1>0. Generated \in Answers
  BY GeneratedType
<1>1. CASE PutCompletes \/ PutLost
  BY <1>1 DEF TypeOK, PutCompletes, PutLost, world, fetching, screen
<1>2. CASE Reload
  <2>1. failed' \in BOOLEAN
    BY <1>2, FalseIsBoolean DEF Reload
  <2> QED
    BY <1>2, <2>1, Bounds DEF TypeOK, Reload, Rest, world, shared
<1>3. CASE OtherTabAnswered
  <2>1. UNCHANGED <<network, storage, cache, snapshot, fetching, screen>>
    BY <1>3 DEF OtherTabAnswered
  <2>2. answers' \in 0 .. MaxAnswers
    BY <1>0, <1>3, Bounds DEF TypeOK, OtherTabAnswered
  <2>3. puts' = puts \cup {Generated} \/ puts' = puts \cup {Garbage}
    BY <1>3 DEF OtherTabAnswered, Put
  <2>4. puts' \in SUBSET Bodies
    BY <1>0, <2>3 DEF TypeOK
  <2> QED
    BY <2>1, <2>2, <2>4 DEF TypeOK, fetching, screen
<1>4. CASE OtherTabStores
  BY <1>4, Bounds DEF TypeOK, OtherTabStores, Stored, world, fetching, screen
<1>5. CASE NetworkChanges \/ QuotaChanges
  BY <1>5 DEF TypeOK, NetworkChanges, QuotaChanges, shared, fetching, screen
<1> QED
  BY <1>1, <1>2, <1>3, <1>4, <1>5 DEF Environment

LEMMA StutterTyped == TypeOK /\ UNCHANGED vars => TypeOK'
BY DEF TypeOK, vars, world, shared, fetching, screen

LEMMA StepTyped == TypeOK /\ [Next]_vars => TypeOK'
BY FetchTyped, EnvironmentTyped, StutterTyped DEF Next

(* The variables of BrowserCache keep their types; in particular a body    *)
(* that does not parse never gets into localStorage or onto the screen.    *)
THEOREM TypeCorrect == Spec => []TypeOK
BY InitTyped, StepTyped, PTL DEF Spec

-----------------------------------------------------------------------------
(* A tab that could store what it shows has a snapshot to fall back to.    *)
Backed ==
    data # None /\ data.stored => snapshot # None /\ storage # "blocked"

FailureInv == TypeOK /\ Backed /\ NoSilentFailure

LEMMA InitBacked == Init => FailureInv
BY InitTyped DEF Init, FailureInv, Backed, NoSilentFailure

LEMMA StepBacked ==
    ASSUME FailureInv, [Next]_vars
    PROVE  FailureInv'
<1>0. TypeOK /\ TypeOK'
  BY StepTyped DEF FailureInv
<1>1. CASE Finish(SnapshotMarked) /\ UNCHANGED snapshot
  BY <1>0, <1>1, Bounds
  DEF FailureInv, Backed, NoSilentFailure, ShowsUnmarked, Finish,
      SnapshotMarked, world
<1>2. CASE ShowLive
  BY <1>0, <1>2, Bounds
  DEF FailureInv, Backed, NoSilentFailure, ShowLive, Parses, Stored, Finish,
      world, TypeOK
<1>3. CASE ShowHit
  BY <1>0, <1>3, Bounds
  DEF FailureInv, Backed, NoSilentFailure, ShowHit, Parses, Finish, world
<1>4. CASE GiveUp
  <2>1. ~Readable /\ UNCHANGED <<world, shared, data>>
    BY <1>4 DEF GiveUp
  <2>2. ~(data # None /\ data.stored)
    BY <2>1 DEF FailureInv, Backed, Readable
  <2> QED
    BY <1>0, <2>1, <2>2
    DEF FailureInv, Backed, NoSilentFailure, ShowsUnmarked, world, shared
<1>5. CASE Reload
  BY <1>0, <1>5 DEF FailureInv, Backed, NoSilentFailure, Reload
<1>6. CASE OtherTabStores
  BY <1>0, <1>6, Bounds
  DEF FailureInv, Backed, NoSilentFailure, ShowsUnmarked, OtherTabStores,
      Stored, world, screen, TypeOK
<1>7. CASE QuotaChanges
  BY <1>0, <1>7
  DEF FailureInv, Backed, NoSilentFailure, ShowsUnmarked, QuotaChanges, shared,
      screen
<1>8. CASE UNCHANGED <<storage, snapshot, screen>>
  BY <1>0, <1>8
  DEF FailureInv, Backed, NoSilentFailure, ShowsUnmarked, screen
<1>9. CASE Ask \/ Retry
  BY <1>8, <1>9 DEF Ask, Retry, world, shared
<1>10. CASE NetworkAnswers \/ NetworkGarbles \/ NoAnswer \/ CacheAnswers
  BY <1>8, <1>10
  DEF NetworkAnswers, NetworkGarbles, NoAnswer, CacheAnswers, Reply
<1>11. CASE PutCompletes \/ PutLost \/ OtherTabAnswered \/ NetworkChanges
  BY <1>8, <1>11
  DEF PutCompletes, PutLost, OtherTabAnswered, NetworkChanges, world, shared
<1>12. CASE UNCHANGED vars
  BY <1>8, <1>12 DEF vars, world, shared
<1> QED
  BY <1>1, <1>2, <1>3, <1>4, <1>5, <1>6, <1>7, <1>9, <1>10, <1>11, <1>12
  DEF Next, Fetch, Environment, ShowSnapshot

(* A failed tab that shows unmarked data had no means of storing them.     *)
THEOREM FailuresAreVisible == Spec => []NoSilentFailure
<1>1. FailureInv => NoSilentFailure
  BY DEF FailureInv
<1> QED
  BY <1>1, InitBacked, StepBacked, PTL DEF Spec

-----------------------------------------------------------------------------
(* While a request runs, the screen is no younger than the request, and an *)
(* answer of the network is younger; nothing is younger than the API.      *)
Dated ==
    /\ asked <= answers
    /\ snapshot # None => snapshot <= answers
    /\ cache \in Answers => cache <= answers
    /\ \A body \in puts : body \in Answers => body <= answers
    /\ reply.body \in Answers => reply.body <= answers
    /\ data # None => data.answer <= answers

InOrder ==
    /\ pc # "holding" => reply.body = None
    /\ pc # "resting" /\ data # None => data.answer <= asked
    /\ reply.body \in Answers /\ ~reply.hit =>
          reply.body > asked \/ reply.body = MaxAnswers

DateInv == TypeOK /\ Dated /\ InOrder

LEMMA InitDated == Init => DateInv
BY InitTyped, Bounds DEF Init, DateInv, Dated, InOrder

LEMMA FetchDated ==
    ASSUME DateInv, Fetch
    PROVE  DateInv'
<1>0. /\ TypeOK /\ TypeOK' /\ Generated \in Answers /\ Generated >= answers
      /\ Generated > answers \/ Generated = MaxAnswers
  BY FetchTyped, GeneratedType DEF DateInv
<1>1. CASE Ask
  BY <1>0, <1>1, Bounds
  DEF DateInv, Dated, InOrder, TypeOK, Ask, world, shared, screen
<1>2. CASE NetworkAnswers
  <2>1. Dated'
    BY <1>0, <1>2, Bounds
    DEF DateInv, Dated, TypeOK, NetworkAnswers, Put, Reply, screen
  <2>2. InOrder'
    BY <1>0, <1>2, Bounds
    DEF DateInv, Dated, InOrder, TypeOK, NetworkAnswers, Put, Reply, screen
  <2> QED
    BY <1>0, <2>1, <2>2 DEF DateInv
<1>3. CASE NetworkGarbles
  BY <1>0, <1>3, Bounds
  DEF DateInv, Dated, InOrder, NetworkGarbles, Put, Reply, screen
<1>4. CASE NoAnswer
  BY <1>0, <1>4, Bounds
  DEF DateInv, Dated, InOrder, NoAnswer, Reply, screen
<1>5. CASE CacheAnswers
  BY <1>0, <1>5, Bounds
  DEF DateInv, Dated, InOrder, CacheAnswers, Hit, Reply, screen
<1>6. CASE ShowLive
  BY <1>0, <1>6, Bounds
  DEF DateInv, Dated, InOrder, TypeOK, ShowLive, Parses, Stored, Finish, Rest,
      world
<1>7. CASE ShowHit
  BY <1>0, <1>7, Bounds
  DEF DateInv, Dated, InOrder, TypeOK, ShowHit, Parses, Finish, Rest, world
<1>8. CASE ShowSnapshot
  BY <1>0, <1>8, Bounds
  DEF DateInv, Dated, InOrder, TypeOK, ShowSnapshot, Readable, SnapshotMarked,
      Finish, Rest, world
<1>9. CASE Retry
  BY <1>0, <1>9, Bounds
  DEF DateInv, Dated, InOrder, TypeOK, Retry, world, shared, screen
<1>10. CASE GiveUp
  BY <1>0, <1>10, Bounds
  DEF DateInv, Dated, InOrder, TypeOK, GiveUp, Rest, world, shared
<1> QED
  BY <1>1, <1>2, <1>3, <1>4, <1>5, <1>6, <1>7, <1>8, <1>9, <1>10 DEF Fetch

LEMMA EnvironmentDated ==
    ASSUME DateInv, Environment
    PROVE  DateInv'
<1>0. /\ TypeOK /\ TypeOK' /\ Generated \in Answers /\ Generated >= answers
  BY EnvironmentTyped, GeneratedType DEF DateInv
<1>1. CASE PutCompletes \/ PutLost
  BY <1>0, <1>1
  DEF DateInv, Dated, InOrder, PutCompletes, PutLost, world, fetching, screen
<1>2. CASE Reload
  BY <1>0, <1>2, Bounds
  DEF DateInv, Dated, InOrder, TypeOK, Reload, Rest, world, shared
<1>3. CASE OtherTabAnswered
  BY <1>0, <1>3, Bounds
  DEF DateInv, Dated, InOrder, TypeOK, OtherTabAnswered, Put, fetching, screen
<1>4. CASE OtherTabStores
  BY <1>0, <1>4, Bounds
  DEF DateInv, Dated, InOrder, TypeOK, OtherTabStores, Stored, world, fetching,
      screen
<1>5. CASE NetworkChanges \/ QuotaChanges
  BY <1>0, <1>5
  DEF DateInv, Dated, InOrder, NetworkChanges, QuotaChanges, shared, fetching,
      screen
<1> QED
  BY <1>1, <1>2, <1>3, <1>4, <1>5 DEF Environment

LEMMA StepDated == DateInv /\ [Next]_vars => DateInv'
<1>1. DateInv /\ UNCHANGED vars => DateInv'
  BY StutterTyped
  DEF DateInv, Dated, InOrder, vars, world, shared, fetching, screen
<1> QED
  BY <1>1, FetchDated, EnvironmentDated DEF Next

Live ==
    ShowsUnmarked' /\ data' # data =>
        /\ data'.answer > asked \/ data'.answer = MaxAnswers
        /\ data # None => data'.answer >= data.answer

LEMMA StepLive ==
    ASSUME DateInv, [Next]_vars
    PROVE  Live
<1>0. TypeOK
  BY DEF DateInv
<1>1. CASE ShowLive
  <2>1. data'.answer = reply.body /\ reply.body \in Answers /\ ~reply.hit
    BY <1>1 DEF ShowLive, Parses, Finish
  <2>2. reply.body > asked \/ reply.body = MaxAnswers
    BY <2>1 DEF DateInv, InOrder
  <2>3. data # None => data.answer <= asked /\ data.answer \in Answers
    BY <1>0, <1>1 DEF DateInv, InOrder, ShowLive, Finish, TypeOK
  <2> QED
    BY <1>0, <2>1, <2>2, <2>3, Bounds DEF Live, TypeOK
<1>2. CASE ShowHit \/ ShowSnapshot
  BY <1>2 DEF ShowHit, ShowSnapshot, Finish, SnapshotMarked, Live, ShowsUnmarked
<1>3. CASE Reload
  BY <1>3 DEF Reload, Live, ShowsUnmarked
<1>4. CASE UNCHANGED data
  BY <1>4 DEF Live
<1>5. CASE Ask \/ Retry \/ GiveUp
  BY <1>4, <1>5 DEF Ask, Retry, GiveUp, screen
<1>6. CASE NetworkAnswers \/ NetworkGarbles \/ NoAnswer \/ CacheAnswers
  BY <1>4, <1>6
  DEF NetworkAnswers, NetworkGarbles, NoAnswer, CacheAnswers, Reply, screen
<1>7. CASE Environment /\ ~Reload
  BY <1>4, <1>7
  DEF Environment, PutCompletes, PutLost, OtherTabAnswered, OtherTabStores,
      NetworkChanges, QuotaChanges, screen
<1>8. CASE UNCHANGED vars
  BY <1>4, <1>8 DEF vars, screen
<1> QED
  BY <1>1, <1>2, <1>3, <1>5, <1>6, <1>7, <1>8 DEF Next, Fetch

(* What is newly shown without a mark was generated after it was asked for *)
(* and is no older than what it replaces.                                  *)
THEOREM UnmarkedDataIsLive == Spec => UnmarkedIsLive
<1>1. DateInv /\ [Next]_vars => Live
  BY StepLive
<1>2. Spec => [](DateInv)
  BY InitDated, StepDated, PTL DEF Spec
<1>3. DateInv /\ [Next]_vars => [Live]_vars
  BY <1>1
<1> QED
  BY <1>2, <1>3, PTL DEF Spec, UnmarkedIsLive, Live
=============================================================================
