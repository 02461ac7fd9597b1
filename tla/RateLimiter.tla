---------------------------- MODULE RateLimiter ----------------------------
(***************************************************************************)
(* The rate limit of request_context (api/app/main.py): requests of one    *)
(* API process interleave at its awaits, and Redis is asked twice.  The    *)
(* key of a request names its client and the minute it arrived in; INCR    *)
(* counts it, and the request that finds the count at one sets the expiry. *)
(* An exception of Redis at either call lets the request through.          *)
(*                                                                         *)
(* A tick is 30 seconds.                                                   *)
(***************************************************************************)
EXTENDS Integers, FiniteSets

CONSTANTS
    Clients,        \* cf-connecting-ip, else the peer
    Requests,       \* bound: requests under way at a time
    Limit,          \* rate_limit_per_minute
    MaxClock,       \* bound: ticks
    MaxArrivals     \* bound: requests in all

ASSUME LimitAssumption ==
    /\ Limit \in Nat \ {0}
    /\ MaxClock \in Nat
    /\ IsFiniteSet(Requests)

VARIABLES
    clock,
    counter,    \* the value of each key, 0 for none
    left,       \* the ticks until it expires, NoExpiry when it has none
    pc,         \* what each request is doing
    key,        \* its key
    count,      \* what INCR answered
    origin,     \* history: its client and the minute it arrived in
    arrivals,   \* history: the requests so far
    tried,      \* history: those of each client and minute
    passed      \* history: those the limiter counted and let through

redis == <<counter, left>>

vars == <<clock, redis, pc, key, count, origin, arrivals, tried, passed>>

Minute(now) == now \div 2

Minutes == 0 .. Minute(MaxClock)

Key == Clients \X Minutes

NoExpiry == 0

(* Seeded fault: the key expires with half of its minute to come. *)
ShortExpiry == 1

(* expire(key, 90) *)
Expiry == 3

(* Seeded fault: a key for each client, without the minute. *)
NoBucket(now) == 0

Bucket(now) == Minute(now)

NoKey == <<>>

-----------------------------------------------------------------------------
Init ==
    /\ clock = 0
    /\ counter = [k \in Key |-> 0]
    /\ left = [k \in Key |-> NoExpiry]
    /\ pc = [q \in Requests |-> "free"]
    /\ key = [q \in Requests |-> NoKey]
    /\ count = [q \in Requests |-> 0]
    /\ origin = [q \in Requests |-> NoKey]
    /\ arrivals = 0
    /\ tried = [k \in Key |-> 0]
    /\ passed = [k \in Key |-> 0]

(* A request under /api/ arrives: its key is computed. *)
Arrive(q, c) ==
    /\ pc[q] = "free"
    /\ arrivals < MaxArrivals
    /\ arrivals' = arrivals + 1
    /\ pc' = [pc EXCEPT ![q] = "arrived"]
    /\ key' = [key EXCEPT ![q] = <<c, Bucket(clock)>>]
    /\ origin' = [origin EXCEPT ![q] = <<c, Minute(clock)>>]
    /\ tried' = [tried EXCEPT ![<<c, Minute(clock)>>] = @ + 1]
    /\ UNCHANGED <<clock, redis, count, passed>>

(* INCR keeps the expiry a key has. *)
Incr(q) ==
    /\ pc[q] = "arrived"
    /\ counter' = [counter EXCEPT ![key[q]] = @ + 1]
    /\ count' = [count EXCEPT ![q] = counter'[key[q]]]
    /\ pc' = [pc EXCEPT ![q] = "counted"]
    /\ UNCHANGED <<clock, left, key, origin, arrivals, tried, passed>>

(* INCR raises, before or after Redis counted. *)
IncrRaises(q) ==
    /\ pc[q] = "arrived"
    /\ \/ UNCHANGED counter
       \/ counter' = [counter EXCEPT ![key[q]] = @ + 1]
    /\ pc' = [pc EXCEPT ![q] = "served"]
    /\ UNCHANGED <<clock, left, key, count, origin, arrivals, tried, passed>>

(* A request the limiter has counted goes on to its handler. *)
LetThrough(q) ==
    /\ pc' = [pc EXCEPT ![q] = "served"]
    /\ passed' = [passed EXCEPT ![origin[q]] = @ + 1]

Expire(q) ==
    /\ pc[q] = "counted" /\ count[q] = 1
    /\ left' = [left EXCEPT ![key[q]] = IF counter[key[q]] = 0 THEN @ ELSE Expiry]
    /\ pc' = [pc EXCEPT ![q] = "timed"]
    /\ UNCHANGED <<clock, counter, key, count, origin, arrivals, tried, passed>>

(* EXPIRE raises: the key stays without an expiry. *)
ExpireRaises(q) ==
    /\ pc[q] = "counted" /\ count[q] = 1
    /\ LetThrough(q)
    /\ UNCHANGED <<clock, redis, key, count, origin, arrivals, tried>>

Check(q) ==
    /\ \/ pc[q] = "timed"
       \/ pc[q] = "counted" /\ count[q] # 1
    /\ IF count[q] > Limit
       THEN pc' = [pc EXCEPT ![q] = "refused"] /\ UNCHANGED passed
       ELSE LetThrough(q)
    /\ UNCHANGED <<clock, redis, key, count, origin, arrivals, tried>>

(* The answer is sent. *)
Answer(q) ==
    /\ pc[q] \in {"served", "refused"}
    /\ pc' = [pc EXCEPT ![q] = "free"]
    /\ key' = [key EXCEPT ![q] = NoKey]
    /\ count' = [count EXCEPT ![q] = 0]
    /\ origin' = [origin EXCEPT ![q] = NoKey]
    /\ UNCHANGED <<clock, redis, arrivals, tried, passed>>

(* A call of Redis is answered or raises within 30 seconds of the minute   *)
(* the request arrived in.                                                 *)
Tick ==
    /\ clock < MaxClock
    /\ \A q \in Requests :
          pc[q] \in {"arrived", "counted", "timed"} => clock < 2 * origin[q][2] + 2
    /\ clock' = clock + 1
    /\ counter' = [k \in Key |-> IF left[k] = 1 THEN 0 ELSE counter[k]]
    /\ left' = [k \in Key |-> IF left[k] = NoExpiry THEN NoExpiry ELSE left[k] - 1]
    /\ UNCHANGED <<pc, key, count, origin, arrivals, tried, passed>>

Handle(q) ==
    \/ \E c \in Clients : Arrive(q, c)
    \/ Incr(q) \/ IncrRaises(q)
    \/ Expire(q) \/ ExpireRaises(q)
    \/ Check(q)
    \/ Answer(q)

Next == Tick \/ \E q \in Requests : Handle(q)

Spec == Init /\ [][Next]_vars

-----------------------------------------------------------------------------
(* Properties *)

(* However its requests interleave and whichever calls of Redis fail, at   *)
(* most Limit of the requests of one client and one minute pass the        *)
(* limiter counted: the count of a minute outlives its last request        *)
(* (the 90 seconds of expire).                                             *)
NeverOverLimit == \A k \in Key : passed[k] <= Limit

(* A request is refused only when its client made more than Limit in the   *)
(* same minute: no count of an earlier minute, of another client or of a   *)
(* key that lost its expiry is held against it.                            *)
RefusedForCause ==
    \A q \in Requests :
        pc[q] = "refused" => tried[origin[q]] > Limit
=============================================================================
