--------------------------- MODULE DashboardReads ---------------------------
(***************************************************************************)
(* How the API (api/app/api.py over Repository.list_records and            *)
(* list_health) reads what the worker writes at the same time.  A summary  *)
(* is one query per category and then one for the health rows, a group     *)
(* response one query for its categories and then the health rows; each    *)
(* statement sees what is committed when it runs (READ COMMITTED), so the  *)
(* parts of one response may be of different moments.                      *)
(*                                                                         *)
(* Every source behaves as SourceDisplay says, which SourceIngestion is    *)
(* shown to implement: Answers is its Answer, Fails its Doubt, Expires its *)
(* Leave, Reports its Report.                                              *)
(***************************************************************************)
EXTENDS Integers, Sequences, FiniteSets

CONSTANTS
    Sources,
    Records,
    SourceOf,       \* the source of each record
    CategoryOf,     \* the category of each source: an adapter has one
    Categories,     \* the keys of DASHBOARD_CATEGORY_LIMITS, in their order
    Limits,         \* DASHBOARD_CATEGORY_LIMITS
    Groups,         \* CATEGORY_GROUPS, each a set of categories
    GroupLimit,     \* the default limit of list_records
    Ageing,         \* records an adapter may call stale itself (radar.py:153,
                    \* pulsepoint.py:70) in an answer that is a success
    Failing         \* the states failed polls leave in health rows

Names == {Categories[i] : i \in DOMAIN Categories}

ASSUME RecordsAssumption ==
    /\ IsFiniteSet(Records)
    /\ SourceOf \in [Records -> Sources]
    /\ Ageing \subseteq Records

ASSUME CategoriesAssumption ==
    /\ Categories \in Seq(Names)
    /\ \A i, j \in DOMAIN Categories : Categories[i] = Categories[j] => i = j
    /\ CategoryOf \in [Sources -> Names]
    /\ Groups \subseteq (SUBSET Names) \ {Names}

ASSUME LimitsAssumption ==
    /\ Limits \in [Names -> Nat \ {0}]
    /\ GroupLimit \in Nat \ {0}

ASSUME FailingAssumption ==
    Failing \subseteq {"unavailable", "invalid_response", "scraper_layout_changed"}

VARIABLES
    current,    \* the records that have not expired
    labelled,   \* those that carry the label of a failed refresh
    aged,       \* those their adapter called stale
    pending,    \* what happened to a source's records and is not reported
    row,        \* the state in each source's health row, "none" without one
    pc,         \* what the request is doing
    asked,      \* the categories it is about
    step,       \* the query a summary is at
    page,       \* the records read for it
    marks,      \* those read as stale, for whatever reason
    kept,       \* those read with the label of a failed refresh
    health,     \* the health rows read for it
    quiet,      \* history: sources with nothing unreported when their
                \* category was read, and unmoved since
    present     \* history: categories that had a record when they were read

database == <<current, labelled, aged, pending, row>>

response == <<pc, asked, step, page, marks, kept, health, quiet, present>>

vars == <<database, response>>

-----------------------------------------------------------------------------
States == Failing \cup {"none", "healthy"}

Of(s) == {r \in Records : SourceOf[r] = s}

In(cats) == {s \in Sources : CategoryOf[s] \in cats}

-----------------------------------------------------------------------------
(* The sources *)

(* A source that moves is no longer quiet. *)
Moves(s) ==
    /\ quiet' = quiet \ {s}
    /\ UNCHANGED <<pc, asked, step, page, marks, kept, health, present>>

(* A successful poll: the complete answer is committed, with no label, but *)
(* some of it may be old in the adapter's own judgement.                   *)
Answers(s) ==
    /\ \E rs \in SUBSET Of(s) :
          /\ current' = (current \ Of(s)) \cup rs
          /\ \E old \in SUBSET (rs \cap Ageing) : aged' = (aged \ Of(s)) \cup old
    /\ labelled' = labelled \ Of(s)
    /\ pending' = [pending EXCEPT ![s] = "answer"]
    /\ Moves(s)
    /\ UNCHANGED row

(* mark_source_stale, as far as it can be seen *)
Labels(s) == current \cap Of(s)

(* A failed poll: every record the source shows is labelled; the label     *)
(* takes the place of the reason an adapter gave.                          *)
Fails(s) ==
    /\ labelled' = labelled \cup Labels(s)
    /\ aged' = aged \ Of(s)
    /\ pending' = [pending EXCEPT ![s] = "failure"]
    /\ Moves(s)
    /\ UNCHANGED <<current, row>>

(* Its health row follows, if the worker lives to write it. *)
Reports(s) ==
    /\ \/ pending[s] = "answer" /\ row' = [row EXCEPT ![s] = "healthy"]
       \/ pending[s] = "failure" /\ \E f \in Failing : row' = [row EXCEPT ![s] = f]
    /\ pending' = [pending EXCEPT ![s] = "none"]
    /\ Moves(s)
    /\ UNCHANGED <<current, labelled, aged>>

(* Time passes the expires_at of some records, of whatever sources. *)
Expires(rs) ==
    /\ current' = current \ rs
    /\ labelled' = labelled \ rs
    /\ aged' = aged \ rs
    /\ UNCHANGED <<pending, row, response>>

-----------------------------------------------------------------------------
(* The requests *)

(* Seeded fault: expired rows are read too. *)
EverExpired(cats) == {r \in Records : CategoryOf[SourceOf[r]] \in cats}

(* WHERE category IN cats AND the record has not expired *)
Matching(cats) == {r \in current : CategoryOf[SourceOf[r]] \in cats}

(* The column stale, which both kinds of mark set *)
Stale == labelled \cup aged

(* ORDER BY stale, newest first, LIMIT: fresh records before stale ones,   *)
(* and within each any order, as the records' times are left out.          *)
Pages(matching, limit) ==
    {p \in SUBSET matching :
        /\ Cardinality(p) =
             IF Cardinality(matching) < limit THEN Cardinality(matching) ELSE limit
        /\ p \cap Stale # {} => matching \ Stale \subseteq p}

(* Seeded fault: one limit for the records of all categories. *)
LimitInAll(cat) ==
    IF Cardinality(page) < Limits[cat] THEN Limits[cat] - Cardinality(page) ELSE 0

LimitFor(cat) == Limits[cat]

(* One list_records. *)
Read(cats, limit) ==
    /\ \E p \in Pages(Matching(cats), limit) :
          /\ page' = page \cup p
          /\ marks' = marks \cup (p \cap Stale)
          /\ kept' = kept \cup (p \cap labelled)
    /\ quiet' = quiet \cup {s \in In(cats) : pending[s] = "none"}
    /\ present' = present \cup {CategoryOf[SourceOf[r]] : r \in Matching(cats)}
    /\ UNCHANGED <<database, asked, health>>

AskSummary ==
    /\ pc = "idle"
    /\ pc' = "summary"
    /\ asked' = Names
    /\ UNCHANGED <<database, step, page, marks, kept, health, quiet, present>>

(* _dashboard_records *)
ReadCategory ==
    /\ pc = "summary"
    /\ step \in DOMAIN Categories
    /\ step' = step + 1
    /\ Read({Categories[step]}, LimitFor(Categories[step]))
    /\ UNCHANGED pc

AskGroup ==
    /\ pc = "idle"
    /\ pc' = "group"
    /\ asked' \in Groups
    /\ UNCHANGED <<database, step, page, marks, kept, health, quiet, present>>

(* _records_response *)
ReadGroup ==
    /\ pc = "group"
    /\ step = 1
    /\ step' = 2
    /\ Read(asked, GroupLimit)
    /\ UNCHANGED pc

RecordsRead ==
    \/ pc = "summary" /\ step \notin DOMAIN Categories
    \/ pc = "group" /\ step = 2

(* list_health *)
ReadHealth ==
    /\ RecordsRead
    /\ pc' = "answered"
    /\ health' = row
    /\ UNCHANGED <<database, asked, step, page, marks, kept, quiet, present>>

NoHealth == [s \in Sources |-> "none"]

(* The response is sent and forgotten. *)
Respond ==
    /\ pc = "answered"
    /\ pc' = "idle"
    /\ asked' = {}
    /\ step' = 1
    /\ page' = {}
    /\ marks' = {}
    /\ kept' = {}
    /\ health' = NoHealth
    /\ quiet' = {}
    /\ present' = {}
    /\ UNCHANGED database

-----------------------------------------------------------------------------
(* The metadata of a response *)

PageSources == {SourceOf[r] : r \in page}

Rows(sources) == {s \in sources : health[s] # "none"}

(* Seeded fault: a group speaks for every source. *)
AllRows == Rows(Sources)

(* Seeded fault: a group without records speaks for nobody. *)
PageRows == IF asked = Names THEN Rows(Sources) ELSE Rows(PageSources)

(* relevant_health: the rows of the sources that have a record on the page,*)
(* or all rows when none has.  A summary is about all rows.                *)
Relevant ==
    IF asked = Names \/ Rows(PageSources) = {}
    THEN Rows(Sources)
    ELSE Rows(PageSources)

(* metadata.source_health; any stale record counts, marked by its adapter  *)
(* or kept from a failed refresh.                                          *)
Verdict ==
    LET states == {health[s] : s \in Relevant} IN
    IF states = {"unavailable"} THEN "unavailable"
    ELSE IF marks # {} THEN "stale"
    ELSE IF states \cap Failing # {} THEN "delayed"
    ELSE "healthy"

-----------------------------------------------------------------------------
Init ==
    /\ current = {}
    /\ labelled = {}
    /\ aged = {}
    /\ pending = [s \in Sources |-> "none"]
    /\ row = [s \in Sources |-> "none"]
    /\ pc = "idle"
    /\ asked = {}
    /\ step = 1
    /\ page = {}
    /\ marks = {}
    /\ kept = {}
    /\ health = NoHealth
    /\ quiet = {}
    /\ present = {}

Worker ==
    \/ \E s \in Sources : Answers(s) \/ Fails(s) \/ Reports(s)
    \/ \E rs \in SUBSET current : Expires(rs)

Request ==
    \/ AskSummary \/ ReadCategory
    \/ AskGroup \/ ReadGroup
    \/ ReadHealth \/ Respond

Next == Worker \/ Request

Spec == Init /\ [][Next]_vars

-----------------------------------------------------------------------------
(* Properties *)

TypeOK ==
    /\ current \subseteq Records
    /\ labelled \subseteq current
    /\ aged \subseteq (current \cap Ageing) \ labelled
    /\ pending \in [Sources -> {"none", "answer", "failure"}]
    /\ row \in [Sources -> States]
    /\ pc \in {"idle", "summary", "group", "answered"}
    /\ asked \in Groups \cup {{}, Names}
    /\ step \in (1 .. Len(Categories) + 1) \cup {2}
    /\ page \subseteq Records
    /\ marks \subseteq page
    /\ kept \subseteq marks
    /\ health \in [Sources -> States]
    /\ quiet \subseteq Sources
    /\ present \subseteq Names

(* A category that had a record when it was read has one in the response,  *)
(* however full the other categories are (the comment at api.py:64).       *)
CategoriesRepresented ==
    pc = "answered" /\ asked = Names =>
        \A cat \in present : \E r \in page : CategoryOf[SourceOf[r]] = cat

(* The records of a source and its health row, read by different queries   *)
(* of one request, tell the same story unless the source itself moved in   *)
(* between: nothing labelled as kept and healthy, or all of it and failing.*)
QuietSourcesAgree ==
    pc = "answered" =>
        \A s \in quiet :
            LET mine == page \cap Of(s) IN
            mine # {} =>
                \/ health[s] = "healthy" /\ mine \cap kept = {}
                \/ health[s] \in Failing /\ mine \subseteq kept

(* What a group response with records is called is what its own records    *)
(* are, if their sources were quiet, whatever other sources went through:  *)
(* healthy exactly when none of them is stale, by its adapter or by a      *)
(* failed refresh; unavailable only when all are kept from failures; and   *)
(* never delayed, which is said of failing sources that show nothing stale.*)
GroupSpeaksForItself ==
    pc = "answered" /\ asked # Names /\ page # {} /\ PageSources \subseteq quiet =>
        /\ Verdict = "healthy" <=> marks = {}
        /\ Verdict = "unavailable" => page \subseteq kept
        /\ Verdict # "delayed"

(* A response called healthy leaves no failing source of its categories    *)
(* unsaid but in one case: a group with records of other sources, where    *)
(* the failing one has none left or a full page of fresh records crowds    *)
(* them out.  Not in a summary, nor in a group that has nothing to show    *)
(* (the "or health" of relevant_health).                                   *)
FailuresAreNotHidden ==
    pc = "answered" /\ Verdict = "healthy" =>
        \A s \in In(asked) \cap quiet :
            row[s] \in Failing =>
                /\ asked # Names
                /\ page # {} /\ page \cap Of(s) = {}
                /\ current \cap Of(s) # {} => Cardinality(page) = GroupLimit

(* Each source is one of SourceDisplay: the worker's half of this module   *)
(* is what the API may rely on, no more.                                   *)
ReportOf(s) == IF row[s] = "none" THEN "unknown" ELSE row[s]

PendingOf(s) == IF pending[s] = "failure" THEN "doubt" ELSE pending[s]

Display(s) == INSTANCE SourceDisplay
                WITH Records <- Of(s), shown <- current \cap Of(s),
                     doubted <- labelled \cap Of(s), aged <- aged \cap Of(s),
                     report <- ReportOf(s), pending <- PendingOf(s)
=============================================================================
