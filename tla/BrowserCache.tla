---------------------------- MODULE BrowserCache ----------------------------
(***************************************************************************)
(* How a dashboard summary reaches the screen: the service worker          *)
(* (web/public/sw.js), fetchDashboard with its localStorage snapshot       *)
(* (web/src/lib/api.ts) and the query that retries it and keeps what it    *)
(* has (web/src/hooks/useDashboard.ts), in one tab.  The other tabs of the *)
(* browser are an environment: they share the worker's cache and the       *)
(* snapshot and may change both at any moment.                             *)
(*                                                                         *)
(* The worker stores a response without waiting for it, so a put may       *)
(* complete late, after a younger one, or never.  (While every put is lost,*)
(* a tab with a worker behaves as a tab without one.)                      *)
(*                                                                         *)
(* A body is the number of the answer it carries, which stands for its     *)
(* generated_at, or Garbage: a 200 that is no dashboard, such as a proxy's *)
(* or a login page.                                                        *)
(***************************************************************************)
EXTENDS Integers

CONSTANTS
    MaxAnswers,     \* bound: from this answer on the API repeats itself
    Retries,        \* retry of useDashboard
    StorageStates,  \* how localStorage may be: "ok", "full", "blocked"
    Garbage,        \* a body fetchDashboard cannot parse
    None            \* nothing

ASSUME MaxAnswersAssumption == MaxAnswers \in Nat \ {0}
ASSUME RetriesAssumption == Retries \in Nat
ASSUME StorageAssumption == StorageStates \subseteq {"ok", "full", "blocked"}
ASSUME BodiesAssumption ==
    Garbage \notin Int /\ None \notin Int /\ None # Garbage

VARIABLES
    answers,    \* how many answers the API has generated
    network,    \* what a request of this browser meets just now
    storage,    \* what localStorage does
    puts,       \* bodies whose cache.put has not completed
    cache,      \* the summary in mbfd-eoc-last-rendered-v1
    snapshot,   \* the answer under SNAPSHOT_KEY
    pc,         \* what the query is doing
    tries,      \* failureCount of the running fetch
    asked,      \* history: answers when the running request was made
    reply,      \* the response in hand
    data,       \* query.data, with its marks
    failed      \* query.isError: the last fetch ended in an error

world == <<answers, network, storage>>

shared == <<puts, cache, snapshot>>

screen == <<data, failed>>

fetching == <<pc, tries, asked, reply>>

vars == <<world, shared, fetching, screen>>

-----------------------------------------------------------------------------
Answers == 1 .. MaxAnswers

Bodies == Answers \cup {Garbage}

Conditions == {"ok", "garbled", "error", "down", "offline"}

NoReply == [body |-> None, hit |-> FALSE]

Replies == [body : Bodies, hit : BOOLEAN] \cup {NoReply}

(* "stored" is a history: the tab could write this answer to localStorage. *)
Shown == [answer : Answers, marked : BOOLEAN, stored : BOOLEAN]

(* What the next request to reach the API is answered. *)
Generated == IF answers < MaxAnswers THEN answers + 1 ELSE answers

-----------------------------------------------------------------------------
(* The query and the service worker *)

(* The fetch is over; what belonged to it is gone. *)
Rest ==
    /\ pc' = "resting"
    /\ reply' = NoReply
    /\ tries' = 0
    /\ asked' = 0

(* The query asks: its interval, a focus or a reconnection.  A query of the*)
(* default network mode rests while the browser knows itself offline.      *)
Ask ==
    /\ pc = "resting"
    /\ network # "offline"
    /\ pc' = "asking"
    /\ asked' = answers
    /\ UNCHANGED <<world, shared, tries, reply, screen>>

(* Seeded fault: the cached response comes before the network. *)
CacheFirst == cache # None

(* The worker turns to its cache only when fetch rejects. *)
CacheServes == cache # None /\ network \in {"down", "offline"}

(* Seeded fault: the cached response goes out without its header. *)
HitUnlabelled == [body |-> cache, hit |-> FALSE]

Hit == [body |-> cache, hit |-> TRUE]

Reply(response) ==
    /\ pc = "asking"
    /\ pc' = "holding"
    /\ reply' = response
    /\ UNCHANGED <<network, storage, cache, snapshot, tries, asked, screen>>

(* A copy of every ok response goes to the cache, whatever is in it. *)
Put(body) == puts' = puts \cup {body}

NetworkAnswers ==
    /\ network = "ok" /\ ~CacheServes
    /\ answers' = Generated
    /\ Put(Generated)
    /\ Reply([body |-> Generated, hit |-> FALSE])

NetworkGarbles ==
    /\ network = "garbled" /\ ~CacheServes
    /\ Put(Garbage)
    /\ Reply([body |-> Garbage, hit |-> FALSE])
    /\ UNCHANGED answers

(* An HTTP error passes through; with nothing cached the worker answers 503*)
(* where a page without a worker would see the rejection: no body at all.  *)
NoAnswer ==
    /\ network \in {"error", "down", "offline"} /\ ~CacheServes
    /\ Reply(NoReply)
    /\ UNCHANGED <<answers, puts>>

CacheAnswers ==
    /\ CacheServes
    /\ Reply(Hit)
    /\ UNCHANGED <<answers, puts>>

PutCompletes ==
    \E body \in puts :
        /\ cache' = body
        /\ puts' = puts \ {body}
        /\ UNCHANGED <<world, snapshot, fetching, screen>>

(* The quota is exhausted, or the worker is terminated. *)
PutLost ==
    \E body \in puts :
        /\ puts' = puts \ {body}
        /\ UNCHANGED <<world, cache, snapshot, fetching, screen>>

-----------------------------------------------------------------------------
(* fetchDashboard *)

(* dashboardSummarySchema.parse *)
Parses(body) == body \in Answers

(* What setItem leaves; it throws when storage is full or blocked, and the *)
(* error is swallowed.                                                     *)
Stored(answer) == IF storage = "ok" THEN answer ELSE snapshot

Finish(shown) ==
    /\ pc = "holding"
    /\ Rest
    /\ data' = shown
    /\ failed' = FALSE
    /\ UNCHANGED <<world, puts, cache>>

(* A dashboard from the network is stored, and shown as it is ... *)
ShowLive ==
    /\ Parses(reply.body) /\ ~reply.hit
    /\ snapshot' = Stored(reply.body)
    /\ Finish([answer |-> reply.body, marked |-> FALSE,
               stored |-> storage = "ok"])

(* ... one from the cache is shown as markDashboardStale leaves it ... *)
ShowHit ==
    /\ Parses(reply.body) /\ reply.hit
    /\ Finish([answer |-> reply.body, marked |-> TRUE, stored |-> FALSE])
    /\ UNCHANGED snapshot

(* Seeded fault: the snapshot is only for a rejected fetch. *)
ReadableUnlessHttp ==
    storage # "blocked" /\ snapshot # None /\ network \in {"down", "offline"}

Readable == storage # "blocked" /\ snapshot # None

(* Seeded fault: the snapshot is shown as it was stored. *)
SnapshotUnmarked == [answer |-> snapshot, marked |-> FALSE, stored |-> FALSE]

SnapshotMarked == [answer |-> snapshot, marked |-> TRUE, stored |-> FALSE]

(* ... and whatever throws ends at the last rendered snapshot ... *)
ShowSnapshot ==
    /\ ~Parses(reply.body) /\ Readable
    /\ Finish(SnapshotMarked)
    /\ UNCHANGED snapshot

(* ... or is thrown again, and the query retries.  An offline browser      *)
(* pauses it here.                                                         *)
Retry ==
    /\ pc = "holding"
    /\ ~Parses(reply.body) /\ ~Readable
    /\ tries < Retries
    /\ network # "offline"
    /\ pc' = "asking"
    /\ tries' = tries + 1
    /\ asked' = answers
    /\ reply' = NoReply
    /\ UNCHANGED <<world, shared, screen>>

(* The query keeps its data as they are and has an error beside them. *)
GiveUp ==
    /\ pc = "holding"
    /\ ~Parses(reply.body) /\ ~Readable
    /\ tries = Retries
    /\ Rest
    /\ failed' = TRUE
    /\ UNCHANGED <<world, shared, data>>

-----------------------------------------------------------------------------
(* The browser *)

Reload ==
    /\ Rest
    /\ data' = None
    /\ failed' = FALSE
    /\ UNCHANGED <<world, shared>>

(* Another tab is answered, or comes to store an answer it has held since. *)
OtherTabAnswered ==
    /\ \/ network = "ok" /\ answers' = Generated /\ Put(Generated)
       \/ network = "garbled" /\ Put(Garbage) /\ UNCHANGED answers
    /\ UNCHANGED <<network, storage, cache, snapshot, fetching, screen>>

OtherTabStores ==
    /\ \E answer \in 1 .. answers : snapshot' = Stored(answer)
    /\ UNCHANGED <<world, puts, cache, fetching, screen>>

NetworkChanges ==
    /\ network' \in Conditions \ {network}
    /\ UNCHANGED <<answers, storage, shared, fetching, screen>>

(* A quota fills up and is freed; a blocked storage is blocked for good. *)
QuotaChanges ==
    /\ storage # "blocked"
    /\ storage' \in (StorageStates \cap {"ok", "full"}) \ {storage}
    /\ UNCHANGED <<answers, network, shared, fetching, screen>>

-----------------------------------------------------------------------------
Init ==
    /\ answers = 0
    /\ network = "ok"
    /\ storage \in StorageStates
    /\ puts = {}
    /\ cache = None
    /\ snapshot = None
    /\ pc = "resting"
    /\ tries = 0
    /\ asked = 0
    /\ reply = NoReply
    /\ data = None
    /\ failed = FALSE

Fetch ==
    \/ Ask \/ NetworkAnswers \/ NetworkGarbles \/ NoAnswer \/ CacheAnswers
    \/ ShowLive \/ ShowHit \/ ShowSnapshot \/ Retry \/ GiveUp

Environment ==
    \/ PutCompletes \/ PutLost \/ Reload \/ OtherTabAnswered \/ OtherTabStores
    \/ NetworkChanges \/ QuotaChanges

Next == Fetch \/ Environment

Spec == Init /\ [][Next]_vars

(* The timers and promises of a visible tab go on; nothing makes a put     *)
(* complete or the network change.                                         *)
FairSpec == Spec /\ WF_vars(Fetch)

-----------------------------------------------------------------------------
(* Properties *)

(* A snapshot is always a dashboard that parses; a cached body may not be. *)
TypeOK ==
    /\ answers \in 0 .. MaxAnswers
    /\ network \in Conditions
    /\ storage \in StorageStates
    /\ puts \in SUBSET Bodies
    /\ cache \in Bodies \cup {None}
    /\ snapshot \in Answers \cup {None}
    /\ pc \in {"resting", "asking", "holding"}
    /\ tries \in 0 .. Retries
    /\ asked \in 0 .. MaxAnswers
    /\ reply \in Replies
    /\ data \in Shown \cup {None}
    /\ failed \in BOOLEAN

ShowsUnmarked == data # None /\ ~data.marked

(* Through late, lost and overtaken puts and whatever other tabs store,    *)
(* what is newly shown without a mark was generated after it was asked for *)
(* (up to the bound), so it is no older than anything shown before.        *)
UnmarkedIsLive ==
    [][ShowsUnmarked' /\ data' # data =>
          /\ data'.answer > asked \/ data'.answer = MaxAnswers
          /\ data # None => data'.answer >= data.answer]_vars

(* A tab whose refresh has failed shows unmarked data only if it could not *)
(* store them: otherwise fetchDashboard falls back to a marked snapshot.   *)
NoSilentFailure == failed /\ ShowsUnmarked => ~data.stored

(* When the API stays out of reach of a browser that does not know itself  *)
(* to be offline, and some snapshot can be read, the tab does not go on    *)
(* showing what it has as if it were current.                              *)
OutageShows ==
    <>[](network \in {"down", "error", "garbled"} /\ Readable)
        => <>[]~ShowsUnmarked

(* When the API stays in reach, the tab keeps neither cached data nor an   *)
(* error, whatever is in the cache.                                        *)
Recovers ==
    <>[](network = "ok")
        => <>[](~failed /\ (data # None => ShowsUnmarked))
=============================================================================
