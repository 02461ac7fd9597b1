-------------------------- MODULE HttpShellProofs ---------------------------
(***************************************************************************)
(* The two properties of the limiter, for any number of clients, requests  *)
(* and ticks and any limit, and the composition with the rest of the API   *)
(* process, which leaves the limiter as it is.                             *)
(*                                                                         *)
(* The requests of a minute that were counted within the limit and are not *)
(* answered yet, with those already let through, are never more than the   *)
(* limit, nor, while a request of that minute may still be counted, more   *)
(* than the value of its key: the key expires too late to be begun again.  *)
(* The requests of a minute that have still to be counted, with the value  *)
(* of its key, are never more than the requests made.                      *)
(*                                                                         *)
(* Last, what GroundedExtraction returns is grounded.                      *)
(***************************************************************************)
EXTENDS HttpShell, GroundedExtraction, FiniteSetTheorems, TLAPS

Asking == {"arrived", "counted", "timed"}

TypesOK ==
    /\ clock \in Nat /\ clock <= MaxClock
    /\ counter \in [Key -> Nat]
    /\ left \in [Key -> Nat]
    /\ pc \in [Requests -> Asking \cup {"free", "served", "refused"}]
    /\ key \in [Requests -> Key \cup {NoKey}]
    /\ count \in [Requests -> Nat]
    /\ origin \in [Requests -> Key \cup {NoKey}]
    /\ tried \in [Key -> Nat]
    /\ passed \in [Key -> Nat]

(* Requests on their way through the limiter are of a recent minute. *)
KeysOK ==
    \A q \in Requests :
        /\ pc[q] # "free" => key[q] \in Key /\ origin[q] = key[q]
        /\ pc[q] \in Asking => 2 * key[q][2] <= clock /\ clock <= 2 * key[q][2] + 2

(* A key expires only when no request of its minute can come any more. *)
ExpiryOK == \A k \in Key : left[k] # NoExpiry => clock + left[k] >= 2 * k[2] + 3

(* Counted within the limit, and not let through yet *)
Within(k) ==
    {q \in Requests : pc[q] \in {"counted", "timed"} /\ key[q] = k /\ count[q] <= Limit}

Uncounted(k) == {q \in Requests : pc[q] = "arrived" /\ key[q] = k}

PassedOK ==
    \A k \in Key :
        /\ passed[k] + Cardinality(Within(k)) <= Limit
        /\ clock <= 2 * k[2] + 2 =>
              passed[k] + Cardinality(Within(k)) <= counter[k]

TriedOK ==
    /\ \A k \in Key : counter[k] + Cardinality(Uncounted(k)) <= tried[k]
    /\ \A q \in Requests :
          /\ pc[q] \in {"counted", "timed", "refused"} => count[q] <= tried[key[q]]
          /\ pc[q] = "refused" => count[q] > Limit

LimiterInv == TypesOK /\ KeysOK /\ ExpiryOK /\ PassedOK /\ TriedOK

-----------------------------------------------------------------------------
(* A minute has two ticks. *)
LEMMA MinuteBounds ==
    ASSUME NEW n \in Nat
    PROVE  Minute(n) \in Nat /\ 2 * Minute(n) <= n /\ n <= 2 * Minute(n) + 1
BY DEF Minute

(* The minute of a tick within the bound has a key for each client. *)
LEMMA KeyOfNow ==
    ASSUME TypesOK, NEW c \in Clients
    PROVE  <<c, Minute(clock)>> \in Key
<1>1. Minute(clock) \in Nat /\ 2 * Minute(clock) <= clock
  BY MinuteBounds DEF TypesOK
<1>2. Minute(MaxClock) \in Nat /\ MaxClock <= 2 * Minute(MaxClock) + 1
  BY MinuteBounds, LimitAssumption
<1>3. Minute(clock) <= Minute(MaxClock)
  BY <1>1, <1>2, LimitAssumption DEF TypesOK
<1> QED
  BY <1>1, <1>2, <1>3 DEF Key, Minutes

(* The minute in a key is a number. *)
LEMMA KeyMinute ==
    ASSUME NEW k \in Key
    PROVE  k[2] \in Nat
<1>1. Minute(MaxClock) \in Nat
  BY MinuteBounds, LimitAssumption
<1> QED
  BY <1>1 DEF Key, Minutes

(* Sets of requests are finite, and so is what a step adds to them or      *)
(* takes from them.                                                        *)
LEMMA Counting ==
    ASSUME NEW S \in SUBSET Requests
    PROVE  /\ Cardinality(S) \in Nat
           /\ \A q \in Requests :
                 /\ q \notin S => Cardinality(S \cup {q}) = Cardinality(S) + 1
                 /\ q \in S => Cardinality(S \ {q}) = Cardinality(S) - 1
<1>1. IsFiniteSet(S)
  BY FS_Subset, LimitAssumption
<1>2. Cardinality(S) \in Nat
  BY <1>1, FS_CardinalityType
<1>3. ASSUME NEW q \in Requests
      PROVE  /\ q \notin S => Cardinality(S \cup {q}) = Cardinality(S) + 1
             /\ q \in S => Cardinality(S \ {q}) = Cardinality(S) - 1
  <2>1. CASE q \notin S
    BY <1>1, <2>1, FS_AddElement
  <2>2. CASE q \in S
    BY <1>1, <2>2, FS_RemoveElement
  <2> QED
    BY <2>1, <2>2
<1> QED
  BY <1>2, <1>3

LEMMA NothingCounts == Cardinality({}) = 0
BY FS_EmptySet

-----------------------------------------------------------------------------
THEOREM LimiterInit == Init => LimiterInv
<1> SUFFICES ASSUME Init PROVE LimiterInv
  OBVIOUS
<1>1. TypesOK
  BY LimitAssumption DEF Init, TypesOK, Asking, NoExpiry
<1>2. KeysOK /\ ExpiryOK
  BY DEF Init, KeysOK, ExpiryOK, Asking
<1>3. \A k \in Key : Within(k) = {} /\ Uncounted(k) = {}
  BY DEF Init, Within, Uncounted
<1>4. PassedOK
  BY <1>1, <1>3, NothingCounts, LimitAssumption DEF Init, PassedOK, TypesOK
<1>5. TriedOK
  BY <1>1, <1>3, NothingCounts DEF Init, TriedOK, TypesOK
<1> QED
  BY <1>1, <1>2, <1>4, <1>5 DEF LimiterInv

(* Each step keeps each part. *)
LEMMA ArriveKeeps ==
    ASSUME LimiterInv, NEW q \in Requests, NEW c \in Clients, Arrive(q, c)
    PROVE  LimiterInv'
<1> DEFINE k0 == <<c, Minute(clock)>>
<1> USE DEF LimiterInv
<1>1. k0 \in Key /\ k0[2] = Minute(clock) /\ Bucket(clock) = Minute(clock)
  BY KeyOfNow DEF Bucket
<1>2. clock \in Nat /\ 2 * k0[2] <= clock /\ clock <= 2 * k0[2] + 2 /\ k0[2] \in Nat
  BY <1>1, MinuteBounds DEF TypesOK
<1> HIDE DEF k0
<1>3. /\ pc[q] = "free" /\ pc' = [pc EXCEPT ![q] = "arrived"]
      /\ key' = [key EXCEPT ![q] = k0] /\ origin' = [origin EXCEPT ![q] = k0]
      /\ tried' = [tried EXCEPT ![k0] = @ + 1]
      /\ UNCHANGED <<clock, counter, left, count, passed>>
  BY <1>1 DEF Arrive, redis, k0
<1>4. TypesOK'
  BY <1>1, <1>3 DEF TypesOK, Asking
<1>5. KeysOK'
  BY <1>1, <1>2, <1>3 DEF TypesOK, KeysOK, Asking
<1>6. ExpiryOK'
  BY <1>3 DEF ExpiryOK
<1>7. ASSUME NEW k \in Key PROVE Within(k)' = Within(k)
  BY <1>3 DEF Within, TypesOK
<1>8. PassedOK'
  BY <1>3, <1>7 DEF PassedOK
<1>9. ASSUME NEW k \in Key
      PROVE  (counter[k] + Cardinality(Uncounted(k)) <= tried[k])'
  <2>1. Uncounted(k) \in SUBSET Requests /\ q \notin Uncounted(k)
    BY <1>3 DEF Uncounted
  <2>2. /\ Cardinality(Uncounted(k)) \in Nat
        /\ Cardinality(Uncounted(k) \cup {q}) = Cardinality(Uncounted(k)) + 1
    BY <2>1, Counting
  <2>3. CASE k = k0
    <3>1. Uncounted(k)' = Uncounted(k) \cup {q}
      BY <1>3, <2>3 DEF Uncounted, TypesOK
    <3>2. tried'[k] = tried[k] + 1 /\ tried[k] \in Nat /\ counter[k] \in Nat
      BY <1>3, <2>3 DEF TypesOK
    <3> QED
      BY <1>3, <2>2, <3>1, <3>2 DEF TriedOK
  <2>4. CASE k # k0
    <3>1. Uncounted(k)' = Uncounted(k)
      BY <1>3, <2>4 DEF Uncounted, TypesOK
    <3>2. tried'[k] = tried[k]
      BY <1>3, <2>4 DEF TypesOK
    <3> QED
      BY <1>3, <3>1, <3>2 DEF TriedOK
  <2> QED
    BY <2>3, <2>4
<1>10. ASSUME NEW r \in Requests
       PROVE  (/\ pc[r] \in {"counted", "timed", "refused"} => count[r] <= tried[key[r]]
               /\ pc[r] = "refused" => count[r] > Limit)'
  <2>1. CASE r = q
    BY <1>3, <2>1 DEF TypesOK
  <2>2. CASE r # q
    <3>1. pc'[r] = pc[r] /\ key'[r] = key[r] /\ count'[r] = count[r]
      BY <1>3, <2>2 DEF TypesOK
    <3>2. \A k \in Key : tried[k] <= tried'[k] /\ tried[k] \in Nat /\ tried'[k] \in Nat
      BY <1>3 DEF TypesOK
    <3>3. pc[r] # "free" => key[r] \in Key
      BY DEF KeysOK
    <3>4. count[r] \in Nat
      BY DEF TypesOK
    <3> QED
      BY <3>1, <3>2, <3>3, <3>4 DEF TriedOK
  <2> QED
    BY <2>1, <2>2
<1>11. TriedOK'
  BY <1>9, <1>10 DEF TriedOK
<1> QED
  BY <1>4, <1>5, <1>6, <1>8, <1>11

LEMMA IncrKeeps ==
    ASSUME LimiterInv, NEW q \in Requests, Incr(q)
    PROVE  LimiterInv'
<1> DEFINE k0 == key[q]
<1> USE DEF LimiterInv
<1>1. /\ pc[q] = "arrived" /\ pc' = [pc EXCEPT ![q] = "counted"]
      /\ counter' = [counter EXCEPT ![k0] = @ + 1]
      /\ count' = [count EXCEPT ![q] = counter'[k0]]
      /\ UNCHANGED <<clock, left, key, origin, tried, passed>>
  BY DEF Incr
<1>2. k0 \in Key /\ k0[2] \in Nat /\ clock \in Nat /\ clock <= 2 * k0[2] + 2
  BY <1>1, KeyMinute DEF KeysOK, TypesOK, Asking
<1>3. counter[k0] \in Nat /\ counter'[k0] = counter[k0] + 1 /\ count'[q] = counter[k0] + 1
  BY <1>1, <1>2 DEF TypesOK
<1>4. TypesOK'
  BY <1>1, <1>2, <1>3 DEF TypesOK, Asking
<1>5. KeysOK'
  BY <1>1, <1>2 DEF TypesOK, KeysOK, Asking
<1>6. ExpiryOK'
  BY <1>1 DEF ExpiryOK
<1>7. q \notin Within(k0) /\ q \in Uncounted(k0)
  BY <1>1 DEF Within, Uncounted
<1>8. ASSUME NEW k \in Key, k # k0
      PROVE  /\ Within(k)' = Within(k) /\ Uncounted(k)' = Uncounted(k)
             /\ counter'[k] = counter[k]
  BY <1>1, <1>8 DEF Within, Uncounted, TypesOK
<1>9. Uncounted(k0)' = Uncounted(k0) \ {q}
  BY <1>1 DEF Uncounted, TypesOK
<1>10. Within(k0)' = IF count'[q] <= Limit THEN Within(k0) \cup {q} ELSE Within(k0)
  BY <1>1 DEF Within, TypesOK
<1>11. /\ Cardinality(Within(k0)) \in Nat
       /\ Cardinality(Within(k0) \cup {q}) = Cardinality(Within(k0)) + 1
  BY <1>7, Counting DEF Within
<1>12. /\ Cardinality(Uncounted(k0)) \in Nat
       /\ Cardinality(Uncounted(k0) \ {q}) = Cardinality(Uncounted(k0)) - 1
  BY <1>7, Counting DEF Uncounted
<1>13. /\ passed[k0] \in Nat /\ passed[k0] + Cardinality(Within(k0)) <= Limit
       /\ passed[k0] + Cardinality(Within(k0)) <= counter[k0]
       /\ tried[k0] \in Nat /\ counter[k0] + Cardinality(Uncounted(k0)) <= tried[k0]
  BY <1>2 DEF PassedOK, TriedOK, TypesOK
<1>14. /\ (passed[k0] + Cardinality(Within(k0)) <= Limit)'
       /\ (passed[k0] + Cardinality(Within(k0)) <= counter[k0])'
  <2>1. CASE count'[q] <= Limit
    <3>1. Cardinality(Within(k0))' = Cardinality(Within(k0)) + 1
      BY <1>10, <1>11, <2>1 DEF k0
    <3> QED
      BY <1>1, <1>3, <1>11, <1>13, <2>1, <3>1, LimitAssumption DEF k0
  <2>2. CASE ~(count'[q] <= Limit)
    <3>1. Cardinality(Within(k0))' = Cardinality(Within(k0))
      BY <1>10, <2>2
    <3> QED
      BY <1>1, <1>3, <1>11, <1>13, <3>1
  <2> QED
    BY <2>1, <2>2
<1>15. PassedOK'
  BY <1>1, <1>8, <1>14 DEF PassedOK
<1>16. (counter[k0] + Cardinality(Uncounted(k0)) <= tried[k0])'
  BY <1>1, <1>3, <1>9, <1>12, <1>13
<1>17. \A k \in Key : (counter[k] + Cardinality(Uncounted(k)) <= tried[k])'
  BY <1>1, <1>8, <1>16 DEF TriedOK
<1>18. Cardinality(Uncounted(k0)) >= 1
  BY <1>9, <1>12, Counting DEF Uncounted
<1>19. ASSUME NEW r \in Requests
       PROVE  (/\ pc[r] \in {"counted", "timed", "refused"} => count[r] <= tried[key[r]]
               /\ pc[r] = "refused" => count[r] > Limit)'
  <2>1. CASE r = q
    BY <1>1, <1>3, <1>12, <1>13, <1>18, <2>1 DEF TypesOK
  <2>2. CASE r # q
    BY <1>1, <2>2 DEF TriedOK, TypesOK
  <2> QED
    BY <2>1, <2>2
<1>20. TriedOK'
  BY <1>17, <1>19 DEF TriedOK
<1> QED
  BY <1>4, <1>5, <1>6, <1>15, <1>20

LEMMA IncrRaisesKeeps ==
    ASSUME LimiterInv, NEW q \in Requests, IncrRaises(q)
    PROVE  LimiterInv'
<1> DEFINE k0 == key[q]
<1> USE DEF LimiterInv
<1>1. /\ pc[q] = "arrived" /\ pc' = [pc EXCEPT ![q] = "served"]
      /\ \/ counter' = counter
         \/ counter' = [counter EXCEPT ![k0] = @ + 1]
      /\ UNCHANGED <<clock, left, key, count, origin, tried, passed>>
  BY DEF IncrRaises
<1>2. k0 \in Key
  BY <1>1 DEF KeysOK
<1>3. TypesOK'
  BY <1>1, <1>2 DEF TypesOK, Asking
<1>4. KeysOK'
  BY <1>1 DEF TypesOK, KeysOK, Asking
<1>5. ExpiryOK'
  BY <1>1 DEF ExpiryOK
<1>6. q \in Uncounted(k0)
  BY <1>1 DEF Uncounted
<1>7. ASSUME NEW k \in Key PROVE Within(k)' = Within(k)
  BY <1>1 DEF Within, TypesOK
<1>8. \A k \in Key : counter[k] \in Nat /\ counter'[k] \in Nat /\ counter[k] <= counter'[k]
  BY <1>1, <1>2 DEF TypesOK
<1>9. \A k \in Key : Cardinality(Within(k)) \in Nat /\ passed[k] \in Nat
  BY Counting DEF Within, TypesOK
<1>10. PassedOK'
  BY <1>1, <1>7, <1>8, <1>9, KeyMinute DEF PassedOK, TypesOK
<1>11. /\ Uncounted(k0)' = Uncounted(k0) \ {q}
       /\ \A k \in Key : k # k0 => Uncounted(k)' = Uncounted(k)
  BY <1>1 DEF Uncounted, TypesOK
<1>12. /\ Cardinality(Uncounted(k0)) \in Nat
       /\ Cardinality(Uncounted(k0) \ {q}) = Cardinality(Uncounted(k0)) - 1
  BY <1>6, Counting DEF Uncounted
<1>13. /\ counter[k0] \in Nat /\ tried[k0] \in Nat
       /\ counter[k0] + Cardinality(Uncounted(k0)) <= tried[k0]
       /\ counter'[k0] \in {counter[k0], counter[k0] + 1}
  BY <1>1, <1>2 DEF TriedOK, TypesOK
<1>14. (counter[k0] + Cardinality(Uncounted(k0)) <= tried[k0])'
  BY <1>1, <1>11, <1>12, <1>13
<1>15. ASSUME NEW k \in Key, k # k0
       PROVE  (counter[k] + Cardinality(Uncounted(k)) <= tried[k])'
  <2>1. counter'[k] = counter[k] /\ tried'[k] = tried[k]
    BY <1>1, <1>15 DEF TypesOK
  <2> QED
    BY <1>11, <1>15, <2>1 DEF TriedOK
<1>16. TriedOK'
  BY <1>1, <1>14, <1>15 DEF TriedOK, TypesOK
<1> QED
  BY <1>3, <1>4, <1>5, <1>10, <1>16

LEMMA ExpireKeeps ==
    ASSUME LimiterInv, NEW q \in Requests, Expire(q)
    PROVE  LimiterInv'
<1> DEFINE k0 == key[q]
<1> USE DEF LimiterInv
<1>1. /\ pc[q] = "counted" /\ pc' = [pc EXCEPT ![q] = "timed"]
      /\ left' = [left EXCEPT ![k0] = IF counter[k0] = 0 THEN left[k0] ELSE 3]
      /\ UNCHANGED <<clock, counter, key, count, origin, tried, passed>>
  BY DEF Expire, Expiry
<1>2. k0 \in Key /\ 2 * k0[2] <= clock /\ k0[2] \in Nat /\ clock \in Nat
  BY <1>1, KeyMinute DEF KeysOK, TypesOK, Asking
<1>3. TypesOK'
  BY <1>1, <1>2 DEF TypesOK, Asking
<1>4. KeysOK'
  BY <1>1 DEF TypesOK, KeysOK, Asking
<1>5. ExpiryOK'
  BY <1>1, <1>2 DEF ExpiryOK, TypesOK
<1>6. ASSUME NEW k \in Key
      PROVE  Within(k)' = Within(k) /\ Uncounted(k)' = Uncounted(k)
  BY <1>1 DEF Within, Uncounted, TypesOK
<1>7. PassedOK'
  BY <1>1, <1>6 DEF PassedOK
<1>8. TriedOK'
  BY <1>1, <1>6 DEF TriedOK, TypesOK
<1> QED
  BY <1>3, <1>4, <1>5, <1>7, <1>8

(* A request counted within the limit goes on to its handler. *)
LEMMA LetThroughKeeps ==
    ASSUME LimiterInv, NEW q \in Requests, pc[q] \in {"counted", "timed"},
           count[q] <= Limit, LetThrough(q),
           UNCHANGED <<clock, redis, key, count, origin, tried>>
    PROVE  LimiterInv'
<1> DEFINE k0 == key[q]
<1> USE DEF LimiterInv
<1>1. /\ pc' = [pc EXCEPT ![q] = "served"]
      /\ passed' = [passed EXCEPT ![k0] = @ + 1]
      /\ UNCHANGED <<clock, counter, left, key, count, origin, tried>>
  BY DEF LetThrough, redis, KeysOK
<1>2. k0 \in Key
  BY DEF KeysOK
<1>3. TypesOK'
  BY <1>1, <1>2 DEF TypesOK, Asking
<1>4. KeysOK'
  BY <1>1 DEF TypesOK, KeysOK, Asking
<1>5. ExpiryOK'
  BY <1>1 DEF ExpiryOK
<1>6. q \in Within(k0)
  BY DEF Within
<1>7. /\ Within(k0)' = Within(k0) \ {q}
      /\ \A k \in Key : k # k0 => Within(k)' = Within(k)
      /\ \A k \in Key : Uncounted(k)' = Uncounted(k)
  BY <1>1 DEF Within, Uncounted, TypesOK
<1>8. /\ Cardinality(Within(k0)) \in Nat
      /\ Cardinality(Within(k0) \ {q}) = Cardinality(Within(k0)) - 1
  BY <1>6, Counting DEF Within
<1>9. /\ passed'[k0] = passed[k0] + 1 /\ passed[k0] \in Nat
      /\ \A k \in Key : k # k0 => passed'[k] = passed[k]
  BY <1>1, <1>2 DEF TypesOK
<1>10. passed'[k0] + Cardinality(Within(k0))' = passed[k0] + Cardinality(Within(k0))
  BY <1>7, <1>8, <1>9 DEF k0
<1>11. ASSUME NEW k \in Key
       PROVE  passed'[k] + Cardinality(Within(k))' = passed[k] + Cardinality(Within(k))
  BY <1>1, <1>7, <1>9, <1>10
<1>12. PassedOK'
  BY <1>1, <1>11 DEF PassedOK
<1>13. TriedOK'
  BY <1>1, <1>7 DEF TriedOK, TypesOK
<1> QED
  BY <1>3, <1>4, <1>5, <1>12, <1>13

LEMMA CheckKeeps ==
    ASSUME LimiterInv, NEW q \in Requests, Check(q)
    PROVE  LimiterInv'
<1> USE DEF LimiterInv
<1>1. pc[q] \in {"counted", "timed"} /\ UNCHANGED <<clock, redis, key, count, origin, tried>>
  BY DEF Check
<1>2. count[q] \in Nat /\ Limit \in Nat
  BY LimitAssumption DEF TypesOK
<1>3. CASE count[q] <= Limit
  <2>1. LetThrough(q)
    BY <1>2, <1>3 DEF Check
  <2> QED
    BY <1>1, <1>3, <2>1, LetThroughKeeps
<1>4. CASE count[q] > Limit
  <2>1. /\ pc' = [pc EXCEPT ![q] = "refused"]
        /\ UNCHANGED <<clock, counter, left, key, count, origin, tried, passed>>
    BY <1>1, <1>4 DEF Check, redis
  <2>2. TypesOK'
    BY <2>1 DEF TypesOK, Asking
  <2>3. KeysOK'
    BY <1>1, <2>1 DEF TypesOK, KeysOK, Asking
  <2>4. ExpiryOK'
    BY <2>1 DEF ExpiryOK
  <2>5. ASSUME NEW k \in Key
        PROVE  Within(k)' = Within(k) /\ Uncounted(k)' = Uncounted(k)
    BY <1>1, <1>2, <1>4, <2>1 DEF Within, Uncounted, TypesOK
  <2>6. PassedOK'
    BY <2>1, <2>5 DEF PassedOK
  <2>7. TriedOK'
    BY <1>1, <1>4, <2>1, <2>5 DEF TriedOK, TypesOK
  <2> QED
    BY <2>2, <2>3, <2>4, <2>6, <2>7
<1> QED
  BY <1>2, <1>3, <1>4

LEMMA AnswerKeeps ==
    ASSUME LimiterInv, NEW q \in Requests, Answer(q)
    PROVE  LimiterInv'
<1> USE DEF LimiterInv
<1>1. /\ pc[q] \in {"served", "refused"} /\ pc' = [pc EXCEPT ![q] = "free"]
      /\ key' = [key EXCEPT ![q] = NoKey] /\ count' = [count EXCEPT ![q] = 0]
      /\ origin' = [origin EXCEPT ![q] = NoKey]
      /\ UNCHANGED <<clock, counter, left, tried, passed>>
  BY DEF Answer, redis
<1>2. TypesOK'
  BY <1>1 DEF TypesOK, Asking
<1>3. KeysOK'
  BY <1>1 DEF TypesOK, KeysOK, Asking
<1>4. ExpiryOK'
  BY <1>1 DEF ExpiryOK
<1>5. ASSUME NEW k \in Key
      PROVE  Within(k)' = Within(k) /\ Uncounted(k)' = Uncounted(k)
  BY <1>1 DEF Within, Uncounted, TypesOK
<1>6. PassedOK'
  BY <1>1, <1>5 DEF PassedOK
<1>7. TriedOK'
  BY <1>1, <1>5 DEF TriedOK, TypesOK
<1> QED
  BY <1>2, <1>3, <1>4, <1>6, <1>7

LEMMA TickKeeps ==
    ASSUME LimiterInv, Tick
    PROVE  LimiterInv'
<1> USE DEF LimiterInv
<1>1. /\ clock < MaxClock /\ clock' = clock + 1
      /\ counter' = [k \in Key |-> IF left[k] = 1 THEN 0 ELSE counter[k]]
      /\ left' = [k \in Key |-> IF left[k] = NoExpiry THEN NoExpiry ELSE left[k] - 1]
      /\ UNCHANGED <<pc, key, count, origin, tried, passed>>
  BY DEF Tick
<1>2. \A q \in Requests : pc[q] \in Asking => clock < 2 * origin[q][2] + 2
  BY DEF Tick, Asking
<1>3. clock \in Nat /\ MaxClock \in Nat
  BY LimitAssumption DEF TypesOK
<1>4. TypesOK'
  <2>1. \A k \in Key : counter'[k] \in Nat /\ left'[k] \in Nat
    BY <1>1 DEF TypesOK, NoExpiry
  <2>2. counter' \in [Key -> Nat] /\ left' \in [Key -> Nat]
    BY <1>1, <2>1
  <2> QED
    BY <1>1, <1>3, <2>2 DEF TypesOK
<1>5. KeysOK'
  <2>1. ASSUME NEW q \in Requests
        PROVE  (/\ pc[q] # "free" => key[q] \in Key /\ origin[q] = key[q]
                /\ pc[q] \in Asking => 2 * key[q][2] <= clock /\ clock <= 2 * key[q][2] + 2)'
    <3>1. pc[q] \in Asking => key[q] \in Key /\ origin[q] = key[q]
      BY DEF KeysOK, Asking
    <3>2. pc[q] \in Asking => key[q][2] \in Nat
      BY <3>1, KeyMinute
    <3> QED
      BY <1>1, <1>2, <1>3, <3>1, <3>2 DEF KeysOK
  <2> QED
    BY <2>1 DEF KeysOK
<1>6. ExpiryOK'
  <2>1. ASSUME NEW k \in Key PROVE (left[k] # NoExpiry => clock + left[k] >= 2 * k[2] + 3)'
    BY <1>1, <1>3, KeyMinute DEF ExpiryOK, NoExpiry, TypesOK
  <2> QED
    BY <2>1 DEF ExpiryOK
<1>7. ASSUME NEW k \in Key
      PROVE  Within(k)' = Within(k) /\ Uncounted(k)' = Uncounted(k)
  BY <1>1 DEF Within, Uncounted
<1>8. ASSUME NEW k \in Key
      PROVE  /\ counter[k] \in Nat /\ counter'[k] \in Nat /\ counter'[k] <= counter[k]
             /\ clock' <= 2 * k[2] + 2 => counter'[k] = counter[k]
  BY <1>1, <1>3, KeyMinute DEF ExpiryOK, NoExpiry, TypesOK
<1>9. PassedOK'
  <2>1. ASSUME NEW k \in Key
        PROVE  (/\ passed[k] + Cardinality(Within(k)) <= Limit
                /\ clock <= 2 * k[2] + 2 =>
                      passed[k] + Cardinality(Within(k)) <= counter[k])'
    BY <1>1, <1>3, <1>7, <1>8, KeyMinute DEF PassedOK
  <2> QED
    BY <2>1 DEF PassedOK
<1>10. TriedOK'
  <2>1. ASSUME NEW k \in Key
        PROVE  (counter[k] + Cardinality(Uncounted(k)) <= tried[k])'
    <3>1. Cardinality(Uncounted(k)) \in Nat /\ tried[k] \in Nat
      BY Counting DEF Uncounted, TypesOK
    <3> QED
      BY <1>1, <1>7, <1>8, <3>1 DEF TriedOK
  <2> QED
    BY <1>1, <2>1 DEF TriedOK
<1> QED
  BY <1>4, <1>5, <1>6, <1>9, <1>10

LEMMA LimiterStep == LimiterInv /\ [Next]_vars => LimiterInv'
<1> SUFFICES ASSUME LimiterInv, [Next]_vars PROVE LimiterInv'
  OBVIOUS
<1>1. CASE UNCHANGED vars
  BY <1>1 DEF LimiterInv, TypesOK, KeysOK, ExpiryOK, PassedOK, TriedOK, Within, Uncounted,
     vars, redis
<1>2. CASE Tick
  BY <1>2, TickKeeps
<1>3. ASSUME NEW q \in Requests, Handle(q) PROVE LimiterInv'
  <2>1. ASSUME NEW c \in Clients, Arrive(q, c) PROVE LimiterInv'
    BY <2>1, ArriveKeeps
  <2>2. CASE Incr(q)
    BY <2>2, IncrKeeps
  <2>3. CASE IncrRaises(q)
    BY <2>3, IncrRaisesKeeps
  <2>4. CASE Expire(q)
    BY <2>4, ExpireKeeps
  <2>5. CASE ExpireRaises(q)
    <3>1. count[q] <= Limit
      BY <2>5, LimitAssumption DEF ExpireRaises
    <3> QED
      BY <2>5, <3>1, LetThroughKeeps DEF ExpireRaises
  <2>6. CASE Check(q)
    BY <2>6, CheckKeeps
  <2>7. CASE Answer(q)
    BY <2>7, AnswerKeeps
  <2> QED
    BY <1>3, <2>1, <2>2, <2>3, <2>4, <2>5, <2>6, <2>7 DEF Handle
<1> QED
  BY <1>1, <1>2, <1>3 DEF Next

-----------------------------------------------------------------------------
LEMMA LimiterInvariant == Spec => []LimiterInv
<1> QED
  BY LimiterInit, LimiterStep, PTL DEF Spec

(* NeverOverLimit of every run of the limiter. *)
THEOREM LimitHolds == Spec => []NeverOverLimit
<1>1. LimiterInv => NeverOverLimit
  <2> SUFFICES ASSUME LimiterInv, NEW k \in Key PROVE passed[k] <= Limit
    BY DEF NeverOverLimit
  <2>1. Cardinality(Within(k)) \in Nat /\ passed[k] \in Nat
    BY Counting DEF Within, LimiterInv, TypesOK
  <2>2. passed[k] + Cardinality(Within(k)) <= Limit
    BY DEF LimiterInv, PassedOK
  <2> QED
    BY <2>1, <2>2, LimitAssumption
<1> QED
  BY <1>1, LimiterInvariant, PTL

(* RefusedForCause of every run of the limiter. *)
THEOREM NoLockOut == Spec => []RefusedForCause
<1>1. LimiterInv => RefusedForCause
  <2> SUFFICES ASSUME LimiterInv, NEW q \in Requests, pc[q] = "refused"
               PROVE  tried[origin[q]] > Limit
    BY DEF RefusedForCause
  <2>1. count[q] > Limit /\ count[q] <= tried[key[q]]
    BY DEF LimiterInv, TriedOK
  <2>2. origin[q] = key[q] /\ key[q] \in Key
    BY DEF LimiterInv, KeysOK
  <2>3. tried[key[q]] \in Nat /\ count[q] \in Nat
    BY <2>2 DEF LimiterInv, TypesOK
  <2> QED
    BY <2>1, <2>2, <2>3, LimitAssumption
<1> QED
  BY <1>1, LimiterInvariant, PTL

(* The routes, the probes and the fallback beside the limiter never        *)
(* disturb it: the whole process implements RateLimiter, and has both of   *)
(* its properties.                                                         *)
THEOREM ShellImplementsLimiter == ShellSpec => Spec
<1>1. ShellInit => Init
  BY DEF ShellInit
<1>2. [ShellNext]_allVars => [Next]_vars
  <2>1. CASE UNCHANGED allVars
    BY <2>1 DEF allVars
  <2>2. CASE Tick /\ UNCHANGED shell
    BY <2>2 DEF Next
  <2>3. ASSUME NEW q \in Requests, Serve(q) PROVE [Next]_vars
    <3>1. ASSUME NEW c \in Clients, AskApi(q, c) PROVE Handle(q)
      BY <3>1 DEF AskApi, Handle
    <3>2. CASE Limiting(q)
      BY <3>2 DEF Limiting, Handle, Next
    <3>3. CASE Send(q)
      BY <3>3 DEF Send, Handle, Next
    <3>4. CASE \/ RespondApi(q) \/ AskReady(q) \/ ProbePostgres(q) \/ ProbeRedis(q)
               \/ ProbeMaxun(q) \/ ProbeHermes(q) \/ RespondReady(q) \/ AskAi(q) \/ AskPage(q)
      BY <3>4 DEF RespondApi, AskReady, ProbePostgres, ProbeRedis, ProbeMaxun, ProbeHermes,
         ProbeOptional, RespondReady, AskAi, AskPage
    <3> QED
      BY <2>3, <3>1, <3>2, <3>3, <3>4 DEF Serve, Next
  <2> QED
    BY <2>1, <2>2, <2>3 DEF ShellNext
<1> QED
  BY <1>1, <1>2, PTL DEF ShellSpec, Spec

-----------------------------------------------------------------------------
ExtractionInv ==
    /\ timedOut => extraction = "raised"
    /\ extraction = "returned" => echoed = requestId /\ Grounded(result)

(* ReturnedIsGrounded of every run of the extraction, whatever the texts,  *)
(* the allowed records and the answers of the gateway.                     *)
THEOREM ExtractionIsGrounded == ExtractionSpec => []ReturnedIsGrounded
<1>1. ExtractionInit => ExtractionInv
  BY DEF ExtractionInit, ExtractionInv
<1>2. ExtractionInv /\ [ExtractionNext]_extractionVars => ExtractionInv'
  <2> SUFFICES ASSUME ExtractionInv, [ExtractionNext]_extractionVars PROVE ExtractionInv'
    OBVIOUS
  <2>1. CASE UNCHANGED extractionVars
    BY <2>1 DEF extractionVars, ExtractionInv, Grounded, Valid, Cited, Quoted, Claimed
  <2>2. ASSUME NEW source \in SUBSET Phrases, NEW credential \in BOOLEAN,
               Extract(source, credential)
        PROVE  ExtractionInv'
    BY <2>2 DEF Extract, ExtractionInv
  <2>3. CASE extraction = "asking" /\ Rejects
    BY <2>3 DEF Rejects, ExtractionInv
  <2>4. ASSUME NEW id \in RequestIds, NEW r \in Results, GatewayAnswers(id, r)
        PROVE  ExtractionInv'
    <3>1. CASE id = requestId /\ Grounded(r)
      <4>1. /\ extraction' = "returned" /\ echoed' = requestId' /\ result' = r
            /\ text' = text /\ ~timedOut'
        BY <2>4, <3>1 DEF GatewayAnswers, ExtractionInv
      <4>2. Grounded(result)'
        BY <3>1, <4>1 DEF Grounded, Valid, Cited, Quoted, Claimed
      <4> QED
        BY <4>1, <4>2 DEF ExtractionInv
    <3>2. CASE ~(id = requestId /\ Grounded(r))
      BY <2>3, <2>4, <3>2 DEF GatewayAnswers
    <3> QED
      BY <3>1, <3>2
  <2>5. CASE TimesOut
    BY <2>5 DEF TimesOut, ExtractionInv
  <2>6. CASE Leave
    BY <2>6 DEF Leave, ExtractionInv
  <2> QED
    BY <2>1, <2>2, <2>3, <2>4, <2>5, <2>6 DEF ExtractionNext, Malformed
<1>3. ExtractionInv => ReturnedIsGrounded
  <2> SUFFICES ASSUME ExtractionInv, extraction = "returned" PROVE ReturnedIsGrounded
    BY DEF ReturnedIsGrounded
  <2>1. echoed = requestId /\ ~timedOut /\ Grounded(result)
    BY DEF ExtractionInv
  <2>2. \A e \in result.evidence : e[1] \in RecordIds /\ e[2] \in text
    BY <2>1 DEF Grounded, Cited, Quoted
  <2>3. \A e \in result.evidence : e[1] \notin OtherIds
    BY <2>2, IdsAssumption
  <2>4. ASSUME NEW c \in result.claims PROVE \E phrase \in text : c[1] = phrase[1]
    <3>1. PICK phrase \in text : Lower(c) = Lower(phrase)
      BY <2>1 DEF Grounded, Claimed
    <3> QED
      BY <3>1 DEF Lower
  <2>5. result.confident => result.sufficient
    BY <2>1 DEF Grounded, Valid
  <2> QED
    BY <2>1, <2>2, <2>3, <2>4, <2>5 DEF ReturnedIsGrounded
<1> QED
  BY <1>1, <1>2, <1>3, PTL DEF ExtractionSpec
=============================================================================
