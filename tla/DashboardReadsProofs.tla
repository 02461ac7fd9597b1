------------------------ MODULE DashboardReadsProofs ------------------------
(***************************************************************************)
(* For any sources, records, categories and limits: the parts of a         *)
(* response agree about every source that did not move meanwhile, no       *)
(* category is crowded out of a summary, and the sources the API reads are *)
(* those the worker promises.                                              *)
(***************************************************************************)
EXTENDS DashboardFigures, FiniteSetTheorems, TLAPS

(* What a source's records and its health row have to do with each other   *)
(* between its moves: RecordsMatchStatus of SourceIngestion.               *)
Agree(rs, marked, state) ==
    /\ state = "none" => rs = {}
    /\ state = "healthy" => rs \cap marked = {}
    /\ state \in Failing => rs \subseteq marked

DatabaseAgrees ==
    \A s \in Sources :
        /\ pending[s] = "none" => Agree(current \cap Of(s), labelled, row[s])
        /\ pending[s] = "answer" => Of(s) \cap labelled = {}
        /\ pending[s] = "failure" => current \cap Of(s) \subseteq labelled

PageAgrees ==
    \A s \in quiet :
        /\ pending[s] = "none"
        /\ Agree(page \cap Of(s), kept, row[s])

(* Nothing is read before its turn, so nothing is read twice. *)
InOrder ==
    /\ step = 1 => page = {} /\ quiet = {} /\ present = {}
    /\ pc = "idle" => step = 1
    /\ pc = "summary" =>
          \A r \in page : \A i \in DOMAIN Categories :
              i >= step => Categories[i] # CategoryOf[SourceOf[r]]

AskedIsKnown ==
    /\ pc = "idle" => asked = {}
    /\ pc = "summary" => asked = Names
    /\ pc = "group" => asked \in Groups

HealthIsRow ==
    pc = "answered" => \A s \in quiet : health[s] = row[s]

Represented ==
    asked = Names =>
        \A cat \in present : \E r \in page : CategoryOf[SourceOf[r]] = cat

(* What a group's page leaves out of a source that has not moved since was *)
(* left out because the page is full.                                      *)
PageFull ==
    asked # Names =>
        \A s \in quiet : current \cap Of(s) \subseteq page \/ Cardinality(page) = GroupLimit

IInv ==
    /\ TypeOK
    /\ DatabaseAgrees
    /\ PageAgrees
    /\ InOrder
    /\ AskedIsKnown
    /\ HealthIsRow
    /\ Represented
    /\ PageFull

-----------------------------------------------------------------------------
(* A page holds matching records only, and one at least if there is one. *)
LEMMA PageFacts ==
    ASSUME current \subseteq Records, NEW cats, NEW limit \in Nat \ {0},
           NEW p \in Pages(Matching(cats), limit)
    PROVE  /\ p \subseteq Matching(cats)
           /\ Matching(cats) # {} => p # {}
<1> DEFINE m == Matching(cats)
<1>1. p \subseteq m
  BY DEF Pages
<1>2. IsFiniteSet(m)
  BY RecordsAssumption, FS_Subset DEF Matching
<1>3. ASSUME m # {} PROVE p # {}
  <2>1. Cardinality(m) \in Nat /\ Cardinality(m) # 0
    BY <1>2, <1>3, FS_CardinalityType, FS_EmptySet
  <2>2. Cardinality(p) # 0
    BY <2>1 DEF Pages
  <2> QED
    BY <2>2, FS_EmptySet
<1> QED
  BY <1>1, <1>3

(* Initially nothing is there to disagree about. *)
LEMMA InitEstablishes == Init => IInv
<1> SUFFICES ASSUME Init PROVE IInv
  OBVIOUS
<1>1. Len(Categories) \in Nat
  BY CategoriesAssumption
<1>2. TypeOK
  BY <1>1 DEF Init, TypeOK, States, NoHealth
<1>3. Represented
  BY DEF Init, Represented
<1> QED
  BY <1>2, <1>3 DEF Init, IInv, DatabaseAgrees, PageAgrees, InOrder,
     AskedIsKnown, HealthIsRow, PageFull, Agree

(* The records of two sources are disjoint. *)
LEMMA OfDisjoint ==
    ASSUME NEW s, NEW t, s # t
    PROVE  Of(s) \cap Of(t) = {}
BY DEF Of

(* A move of a source leaves the response agreeing about the others. *)
LEMMA MovesKeep ==
    ASSUME IInv, NEW s \in Sources, Moves(s), TypeOK',
           \A t \in Sources \ {s} : row'[t] = row[t] /\ pending'[t] = pending[t],
           \A t \in Sources \ {s} :
               /\ current' \cap Of(t) = current \cap Of(t)
               /\ labelled' \cap Of(t) = labelled \cap Of(t),
           pending'[s] = "none" => Agree(current' \cap Of(s), labelled', row'[s]),
           pending'[s] = "answer" => Of(s) \cap labelled' = {},
           pending'[s] = "failure" => current' \cap Of(s) \subseteq labelled'
    PROVE  IInv'
<1> USE DEF IInv, Moves
<1>1. DatabaseAgrees'
  <2> SUFFICES ASSUME NEW t \in Sources
               PROVE  /\ pending'[t] = "none" =>
                            Agree(current' \cap Of(t), labelled', row'[t])
                      /\ pending'[t] = "answer" => Of(t) \cap labelled' = {}
                      /\ pending'[t] = "failure" =>
                            current' \cap Of(t) \subseteq labelled'
    BY DEF DatabaseAgrees, Of
  <2>1. CASE t = s
    BY <2>1
  <2>2. CASE t # s
    <3>1. /\ pending[t] = "none" => Agree(current \cap Of(t), labelled, row[t])
          /\ pending[t] = "answer" => Of(t) \cap labelled = {}
          /\ pending[t] = "failure" => current \cap Of(t) \subseteq labelled
      BY <2>2 DEF DatabaseAgrees
    <3> QED
      BY <2>2, <3>1 DEF Agree
  <2> QED
    BY <2>1, <2>2
<1>2. PageAgrees'
  BY DEF PageAgrees, TypeOK, Agree, Of
<1>3. InOrder'
  BY DEF InOrder
<1>4. HealthIsRow'
  BY DEF HealthIsRow, TypeOK
<1>5. AskedIsKnown' /\ Represented'
  BY DEF AskedIsKnown, Represented
<1>6. PageFull'
  BY DEF PageFull, TypeOK, Of
<1> QED
  BY <1>1, <1>2, <1>3, <1>4, <1>5, <1>6

LEMMA AnswersKeeps ==
    ASSUME IInv, NEW s \in Sources, Answers(s)
    PROVE  IInv'
<1> PICK rs \in SUBSET Of(s) : current' = (current \ Of(s)) \cup rs
  BY DEF Answers
<1>1. TypeOK'
  BY DEF IInv, TypeOK, Answers, Moves, Of
<1>2. pending'[s] = "answer"
  BY DEF IInv, TypeOK, Answers
<1>3. ASSUME NEW t \in Sources \ {s}
      PROVE  /\ row'[t] = row[t] /\ pending'[t] = pending[t]
             /\ current' \cap Of(t) = current \cap Of(t)
             /\ labelled' \cap Of(t) = labelled \cap Of(t)
  BY OfDisjoint DEF IInv, TypeOK, Answers
<1> QED
  BY <1>1, <1>2, <1>3, MovesKeep DEF Answers

LEMMA FailsKeeps ==
    ASSUME IInv, NEW s \in Sources, Fails(s)
    PROVE  IInv'
<1>1. TypeOK'
  BY DEF IInv, TypeOK, Fails, Labels, Moves, Of
<1>2. pending'[s] = "failure"
  BY DEF IInv, TypeOK, Fails
<1>3. ASSUME NEW t \in Sources \ {s}
      PROVE  /\ row'[t] = row[t] /\ pending'[t] = pending[t]
             /\ current' \cap Of(t) = current \cap Of(t)
             /\ labelled' \cap Of(t) = labelled \cap Of(t)
  BY OfDisjoint DEF IInv, TypeOK, Fails, Labels
<1> QED
  BY <1>1, <1>2, <1>3, MovesKeep DEF Fails, Labels

LEMMA ReportsKeeps ==
    ASSUME IInv, NEW s \in Sources, Reports(s)
    PROVE  IInv'
<1>1. TypeOK'
  BY DEF IInv, TypeOK, Reports, Moves, States
<1>2. pending'[s] = "none"
  BY DEF IInv, TypeOK, Reports
<1>3. ASSUME NEW t \in Sources \ {s}
      PROVE  /\ row'[t] = row[t] /\ pending'[t] = pending[t]
             /\ current' \cap Of(t) = current \cap Of(t)
             /\ labelled' \cap Of(t) = labelled \cap Of(t)
  BY DEF IInv, TypeOK, Reports
<1>4. Agree(current' \cap Of(s), labelled', row'[s])
  <2>1. CASE pending[s] = "answer" /\ row' = [row EXCEPT ![s] = "healthy"]
    <3>1. row'[s] = "healthy" /\ Of(s) \cap labelled = {}
      BY <2>1 DEF IInv, TypeOK, DatabaseAgrees
    <3> QED
      BY <3>1, FailingAssumption DEF Reports, Agree
  <2>2. CASE pending[s] = "failure" /\ \E f \in Failing : row' = [row EXCEPT ![s] = f]
    <3>1. row'[s] \in Failing /\ current \cap Of(s) \subseteq labelled
      BY <2>2 DEF IInv, TypeOK, DatabaseAgrees
    <3> QED
      BY <3>1, FailingAssumption DEF Reports, Agree
  <2> QED
    BY <2>1, <2>2 DEF Reports
<1> QED
  BY <1>1, <1>2, <1>3, <1>4, MovesKeep DEF Reports

LEMMA ExpiresKeeps ==
    ASSUME IInv, NEW rs \in SUBSET current, Expires(rs)
    PROVE  IInv'
<1> USE DEF IInv, Expires, response
<1>1. TypeOK'
  BY DEF TypeOK
<1>2. DatabaseAgrees' /\ PageAgrees'
  BY DEF DatabaseAgrees, PageAgrees, Agree, Of, TypeOK
<1>3. InOrder' /\ AskedIsKnown' /\ HealthIsRow' /\ Represented' /\ PageFull'
  BY DEF InOrder, AskedIsKnown, HealthIsRow, Represented, PageFull, Of
<1> QED
  BY <1>1, <1>2, <1>3

-----------------------------------------------------------------------------
(* A query of categories of which nothing has been read yet leaves the     *)
(* response agreeing: what it reads of a quiet source is of this moment.   *)
LEMMA ReadAgrees ==
    ASSUME IInv, NEW cats, NEW limit \in Nat \ {0}, Read(cats, limit),
           \A r \in page : CategoryOf[SourceOf[r]] \notin cats
    PROVE  PageAgrees'
<1> USE DEF IInv, TypeOK
<1> PICK p \in Pages(Matching(cats), limit) :
           page' = page \cup p /\ kept' = kept \cup (p \cap labelled)
  BY DEF Read
<1>1. p \subseteq Matching(cats)
  BY PageFacts
<1> SUFFICES ASSUME NEW s \in quiet'
             PROVE  pending[s] = "none" /\ Agree(page' \cap Of(s), kept', row[s])
  BY DEF PageAgrees, Read, database, Of
<1>2. s \in Sources /\ pending[s] = "none"
  BY DEF Read, PageAgrees, In
<1>3. CASE CategoryOf[s] \in cats
  <2>1. page' \cap Of(s) \subseteq current \cap Of(s)
    BY <1>1, <1>3 DEF Matching, Of
  <2>2. page' \cap Of(s) \cap kept' = page' \cap Of(s) \cap labelled
    BY <1>1, <1>3 DEF Of
  <2>3. Agree(current \cap Of(s), labelled, row[s])
    BY <1>2 DEF DatabaseAgrees
  <2> QED
    BY <1>2, <2>1, <2>2, <2>3 DEF Agree
<1>4. CASE CategoryOf[s] \notin cats
  <2>1. p \cap Of(s) = {}
    BY <1>1, <1>4 DEF Matching, Of
  <2>2. s \in quiet
    BY <1>4 DEF Read, In
  <2>3. Agree(page \cap Of(s), kept, row[s])
    BY <2>2 DEF PageAgrees
  <2> QED
    BY <1>2, <2>1, <2>3 DEF Agree
<1> QED
  BY <1>3, <1>4

(* A query keeps the types of what it writes. *)
LEMMA ReadTypes ==
    ASSUME IInv, NEW cats, NEW limit \in Nat \ {0}, Read(cats, limit)
    PROVE  /\ page' \subseteq Records /\ marks' \subseteq page' /\ kept' \subseteq marks'
           /\ quiet' \subseteq Sources /\ present' \subseteq Names
<1> USE DEF IInv, TypeOK
<1>1. \A p \in Pages(Matching(cats), limit) : p \subseteq Matching(cats)
  BY PageFacts
<1>2. Matching(cats) \subseteq Records
  BY DEF Matching
<1>3. page' \subseteq Records /\ marks' \subseteq page' /\ kept' \subseteq marks'
  BY <1>1, <1>2 DEF Read, Stale
<1>4. quiet' \subseteq Sources
  BY DEF Read, In
<1>5. \A r \in Records : CategoryOf[SourceOf[r]] \in Names
  BY RecordsAssumption, CategoriesAssumption
<1>6. present' \subseteq Names
  BY <1>5 DEF Read, Matching
<1> QED
  BY <1>3, <1>4, <1>6

LEMMA ReadCategoryKeeps ==
    ASSUME IInv, ReadCategory
    PROVE  IInv'
<1> DEFINE cat == Categories[step]
<1> USE DEF IInv
<1>1. /\ step \in DOMAIN Categories /\ step \in 1 .. Len(Categories)
      /\ Len(Categories) \in Nat
  BY CategoriesAssumption DEF ReadCategory
<1>2. cat \in Names /\ LimitFor(cat) \in Nat \ {0}
  BY <1>1, LimitsAssumption DEF Names, LimitFor
<1>3. Read({cat}, LimitFor(cat)) /\ pc = "summary" /\ pc' = pc /\ step' = step + 1
  BY DEF ReadCategory
<1>4. \A r \in page : CategoryOf[SourceOf[r]] \notin {cat}
  BY <1>1, <1>3 DEF InOrder
<1>5. PageAgrees'
  BY <1>2, <1>3, <1>4, ReadAgrees
<1>6. TypeOK'
  <2>1. step' \in 1 .. Len(Categories) + 1
    BY <1>1, <1>3
  <2>2. /\ page' \subseteq Records /\ marks' \subseteq page' /\ kept' \subseteq marks'
        /\ quiet' \subseteq Sources /\ present' \subseteq Names
    BY <1>2, <1>3, ReadTypes
  <2>3. UNCHANGED <<database, asked, health, pc>>
    BY <1>3 DEF Read
  <2> QED
    BY <2>1, <2>2, <2>3 DEF TypeOK, database
<1>7. \A r \in page' : r \in page \/ CategoryOf[SourceOf[r]] = cat
  <2>1. PICK p \in Pages(Matching({cat}), LimitFor(cat)) : page' = page \cup p
    BY <1>3 DEF Read
  <2>2. p \subseteq Matching({cat})
    BY <1>2, <2>1, PageFacts DEF TypeOK
  <2> QED
    BY <2>1, <2>2 DEF Matching
<1>8. InOrder'
  <2> SUFFICES ASSUME NEW r \in page', NEW i \in DOMAIN Categories, i >= step'
               PROVE  Categories[i] # CategoryOf[SourceOf[r]]
    BY <1>1, <1>3 DEF InOrder
  <2>1. i \in 1 .. Len(Categories) /\ i >= step /\ i # step
    BY <1>1, <1>3, CategoriesAssumption
  <2>2. CASE r \in page
    BY <2>1, <2>2, <1>3 DEF InOrder
  <2>3. CASE CategoryOf[SourceOf[r]] = cat
    BY <2>1, <2>3, <1>1, CategoriesAssumption
  <2> QED
    BY <1>7, <2>2, <2>3
<1>9. Represented'
  <2> SUFFICES ASSUME asked = Names, NEW c \in present'
               PROVE  \E r \in page' : CategoryOf[SourceOf[r]] = c
    BY <1>3 DEF Represented, Read
  <2>1. CASE c \in present
    BY <2>1, <1>3 DEF Represented, Read
  <2>2. CASE c \notin present
    <3>1. c = cat /\ Matching({cat}) # {}
      BY <2>2, <1>3 DEF Read, Matching
    <3>2. PICK p \in Pages(Matching({cat}), LimitFor(cat)) : page' = page \cup p
      BY <1>3 DEF Read
    <3>3. p # {} /\ p \subseteq Matching({cat})
      BY <3>1, <3>2, <1>2, PageFacts DEF TypeOK
    <3> QED
      BY <3>1, <3>2, <3>3 DEF Matching
  <2> QED
    BY <2>1, <2>2
<1>10. DatabaseAgrees' /\ AskedIsKnown' /\ HealthIsRow' /\ PageFull'
  BY <1>3 DEF DatabaseAgrees, AskedIsKnown, HealthIsRow, PageFull, Read, database, Of
<1> QED
  BY <1>5, <1>6, <1>8, <1>9, <1>10

LEMMA ReadGroupKeeps ==
    ASSUME IInv, ReadGroup
    PROVE  IInv'
<1> USE DEF IInv
<1>1. /\ Read(asked, GroupLimit) /\ pc = "group" /\ pc' = pc
      /\ step = 1 /\ step' = 2 /\ page = {}
  BY DEF ReadGroup, InOrder
<1>2. PageAgrees'
  BY <1>1, LimitsAssumption, ReadAgrees
<1>3. TypeOK'
  BY <1>1, LimitsAssumption, ReadTypes DEF TypeOK, Read, database
<1>4. asked' = asked /\ asked # Names
  BY <1>1, CategoriesAssumption DEF AskedIsKnown, Read
<1>5. Represented' /\ InOrder' /\ AskedIsKnown' /\ HealthIsRow'
  BY <1>1, <1>4 DEF Represented, InOrder, AskedIsKnown, HealthIsRow
<1>6. DatabaseAgrees'
  BY <1>1 DEF DatabaseAgrees, Read, database, Of
<1>7. PageFull'
  <2> SUFFICES ASSUME NEW s \in quiet', Cardinality(page') # GroupLimit
               PROVE  current \cap Of(s) \subseteq page'
    BY <1>1 DEF PageFull, Read, database, Of
  <2>1. PICK p \in Pages(Matching(asked), GroupLimit) : page' = p
    BY <1>1 DEF Read
  <2>2. p \subseteq Matching(asked) /\ Cardinality(p) = Cardinality(Matching(asked))
    BY <2>1 DEF Pages
  <2>3. IsFiniteSet(Matching(asked))
    BY RecordsAssumption, FS_Subset DEF Matching, TypeOK
  <2>4. p = Matching(asked)
    BY <2>2, <2>3, FS_Subset
  <2>5. s \in In(asked)
    BY <1>1 DEF Read, InOrder
  <2> QED
    BY <2>1, <2>4, <2>5 DEF Matching, In, Of
<1> QED
  BY <1>2, <1>3, <1>5, <1>6, <1>7

(* Asking, reading the health rows and responding read no record. *)
LEMMA OthersKeep ==
    ASSUME IInv, AskSummary \/ AskGroup \/ ReadHealth \/ Respond
    PROVE  IInv'
<1> USE DEF IInv, database
<1>1. DatabaseAgrees'
  BY DEF AskSummary, AskGroup, ReadHealth, Respond, DatabaseAgrees, Of
<1>2. CASE AskSummary
  <2>1. TypeOK'
    BY <1>2 DEF AskSummary, TypeOK
  <2>2. PageAgrees' /\ InOrder' /\ AskedIsKnown' /\ HealthIsRow' /\ Represented' /\ PageFull'
    BY <1>2 DEF AskSummary, PageAgrees, InOrder, AskedIsKnown, HealthIsRow,
       Represented, PageFull, Of
  <2> QED
    BY <1>1, <2>1, <2>2
<1>3. CASE AskGroup
  <2>1. TypeOK'
    BY <1>3 DEF AskGroup, TypeOK
  <2>2. PageAgrees' /\ InOrder' /\ AskedIsKnown' /\ HealthIsRow' /\ Represented' /\ PageFull'
    BY <1>3, CategoriesAssumption DEF AskGroup, PageAgrees, InOrder, AskedIsKnown,
       HealthIsRow, Represented, PageFull, Of
  <2> QED
    BY <1>1, <2>1, <2>2
<1>4. CASE ReadHealth
  <2>1. TypeOK'
    BY <1>4 DEF ReadHealth, TypeOK
  <2>2. PageAgrees' /\ AskedIsKnown' /\ HealthIsRow' /\ Represented' /\ PageFull'
    BY <1>4 DEF ReadHealth, PageAgrees, AskedIsKnown, HealthIsRow, Represented, PageFull, Of
  <2>3. InOrder'
    BY <1>4 DEF ReadHealth, InOrder
  <2> QED
    BY <1>1, <2>1, <2>2, <2>3
<1>5. CASE Respond
  <2>1. Len(Categories) \in Nat
    BY CategoriesAssumption
  <2>2. TypeOK'
    BY <1>5, <2>1 DEF Respond, TypeOK, NoHealth, States
  <2>3. PageAgrees' /\ InOrder' /\ AskedIsKnown' /\ HealthIsRow' /\ Represented' /\ PageFull'
    BY <1>5 DEF Respond, PageAgrees, InOrder, AskedIsKnown, HealthIsRow, Represented, PageFull, Of
  <2> QED
    BY <1>1, <2>2, <2>3
<1> QED
  BY <1>2, <1>3, <1>4, <1>5

LEMMA NextKeeps == IInv /\ [Next]_vars => IInv'
<1> SUFFICES ASSUME IInv, [Next]_vars PROVE IInv'
  OBVIOUS
<1>1. CASE Worker
  BY <1>1, AnswersKeeps, FailsKeeps, ReportsKeeps, ExpiresKeeps DEF Worker
<1>2. CASE Request
  BY <1>2, ReadCategoryKeeps, ReadGroupKeeps, OthersKeep DEF Request
<1>3. CASE UNCHANGED vars
  <2> USE <1>3 DEF vars, database, response, IInv
  <2>1. TypeOK' /\ DatabaseAgrees' /\ PageAgrees'
    BY DEF TypeOK, DatabaseAgrees, PageAgrees, Of
  <2>2. InOrder' /\ AskedIsKnown' /\ HealthIsRow' /\ Represented' /\ PageFull'
    BY DEF InOrder, AskedIsKnown, HealthIsRow, Represented, PageFull, Of
  <2> QED
    BY <2>1, <2>2
<1> QED
  BY <1>1, <1>2, <1>3 DEF Next

LEMMA Invariance == Spec => []IInv
BY InitEstablishes, NextKeeps, PTL DEF Spec

-----------------------------------------------------------------------------
(* Every variable keeps its type. *)
THEOREM TypeCorrect == Spec => []TypeOK
<1>1. IInv => TypeOK
  BY DEF IInv
<1> QED
  BY <1>1, Invariance, PTL

LEMMA QuietInv ==
    ASSUME IInv
    PROVE  QuietSourcesAgree
<1> SUFFICES ASSUME pc = "answered", NEW s \in quiet, page \cap Of(s) # {}
             PROVE  \/ health[s] = "healthy" /\ (page \cap Of(s)) \cap kept = {}
                    \/ health[s] \in Failing /\ page \cap Of(s) \subseteq kept
  BY DEF QuietSourcesAgree
<1>1. Agree(page \cap Of(s), kept, row[s]) /\ row[s] = health[s]
  BY DEF IInv, PageAgrees, HealthIsRow
<1>2. row[s] \in States
  BY DEF IInv, TypeOK
<1> QED
  BY <1>1, <1>2 DEF Agree, States

(* The parts of a response agree about every source that did not move      *)
(* between the queries of dashboard_summary or _records_response.          *)
THEOREM QuietSourcesTellOneStory == Spec => []QuietSourcesAgree
BY QuietInv, Invariance, PTL

(* What a group response is called follows from the stale marks of its own *)
(* records, the adapters' and the runner's, whatever the rows of other     *)
(* sources say.                                                            *)
THEOREM GroupMetadataAreItsOwn == Spec => []GroupSpeaksForItself
<1>1. ASSUME IInv PROVE GroupSpeaksForItself
  <2> SUFFICES ASSUME pc = "answered", asked # Names, page # {}, PageSources \subseteq quiet
               PROVE  /\ Verdict = "healthy" <=> marks = {}
                      /\ Verdict = "unavailable" => page \subseteq kept
                      /\ Verdict # "delayed"
    BY DEF GroupSpeaksForItself
  <2>1. ASSUME NEW s \in PageSources
        PROVE  \/ health[s] = "healthy"
               \/ health[s] \in Failing /\ marks # {} /\ page \cap Of(s) \subseteq kept
    <3>1. page \cap Of(s) # {}
      BY <1>1 DEF PageSources, Of, IInv, TypeOK
    <3>2. kept \subseteq marks
      BY <1>1 DEF IInv, TypeOK
    <3> QED
      BY <1>1, <3>1, <3>2, QuietInv DEF QuietSourcesAgree
  <2>2. \A s \in PageSources : health[s] # "none"
    BY <2>1, FailingAssumption
  <2>3. PageSources # {} /\ Rows(PageSources) = PageSources
    BY <2>2 DEF PageSources, Rows
  <2>4. Relevant = PageSources
    BY <2>3 DEF Relevant
  <2>5. ASSUME marks = {} PROVE Verdict = "healthy"
    <3>1. {health[s] : s \in Relevant} = {"healthy"}
      BY <2>1, <2>3, <2>4, <2>5
    <3> QED
      BY <3>1, <2>5, FailingAssumption DEF Verdict
  <2>6. ASSUME marks # {} PROVE Verdict \in {"unavailable", "stale"}
    BY <2>6 DEF Verdict
  <2>7. ASSUME Verdict = "unavailable" PROVE page \subseteq kept
    <3>1. \A s \in PageSources : health[s] = "unavailable"
      BY <2>4, <2>7 DEF Verdict
    <3>2. \A r \in page : SourceOf[r] \in PageSources /\ r \in page \cap Of(SourceOf[r])
      BY <1>1 DEF PageSources, Of, IInv, TypeOK
    <3> QED
      BY <2>1, <3>1, <3>2
  <2> QED
    BY <2>5, <2>6, <2>7
<1> QED
  BY <1>1, Invariance, PTL

(* A response called healthy leaves a failing source of its categories     *)
(* unsaid only where others' fresh records are all that is on the page     *)
(* (_metadata over relevant_health, and the order of list_records).        *)
THEOREM GoodVerdictsHideNoFailure == Spec => []FailuresAreNotHidden
<1>1. ASSUME IInv PROVE FailuresAreNotHidden
  <2> SUFFICES ASSUME pc = "answered", Verdict = "healthy",
                      NEW s \in In(asked) \cap quiet, row[s] \in Failing
               PROVE  /\ asked # Names
                      /\ page # {} /\ page \cap Of(s) = {}
                      /\ current \cap Of(s) # {} => Cardinality(page) = GroupLimit
    BY DEF FailuresAreNotHidden
  <2>1. health[s] \in Failing /\ s \in Sources
    BY <1>1 DEF IInv, HealthIsRow, In
  <2>2. s \notin Relevant
    BY <2>1, FailingAssumption DEF Verdict
  <2>3. \A sources : s \in sources => s \in Rows(sources)
    BY <2>1, FailingAssumption DEF Rows
  <2>4. asked # Names /\ Rows(PageSources) # {} /\ s \notin PageSources
    BY <2>1, <2>2, <2>3 DEF Relevant
  <2>5. page # {} /\ page \cap Of(s) = {}
    BY <2>4 DEF Rows, PageSources, Of
  <2>6. current \cap Of(s) # {} => Cardinality(page) = GroupLimit
    BY <1>1, <2>4, <2>5 DEF IInv, PageFull
  <2> QED
    BY <2>4, <2>5, <2>6
<1> QED
  BY <1>1, Invariance, PTL

(* The critical feeds of a summary are judged as its records show them,    *)
(* for any groups of sources and any moves of the sources outside.         *)
THEOREM CriticalFeedsAsShown == Spec => []CriticalGroupsSound
<1>1. ASSUME IInv PROVE CriticalGroupsSound
  <2> SUFFICES ASSUME pc = "answered", NEW group \in CriticalGroups, group \subseteq quiet
               PROVE  LET shown == {r \in page : SourceOf[r] \in group} IN
                      IF group \in UnavailableCritical
                      THEN shown \subseteq kept
                      ELSE \E s \in group : kept \cap Of(s) = {}
    BY DEF CriticalGroupsSound
  <2>1. ASSUME NEW s \in group, page \cap Of(s) # {}
        PROVE  \/ health[s] = "healthy" /\ (page \cap Of(s)) \cap kept = {}
               \/ health[s] \in Failing /\ page \cap Of(s) \subseteq kept
    BY <1>1, <2>1, QuietInv DEF QuietSourcesAgree
  <2>2. CASE group \in UnavailableCritical
    <3> SUFFICES ASSUME NEW r \in page, SourceOf[r] \in group
                 PROVE  r \in kept
      BY <2>2
    <3>1. r \in page \cap Of(SourceOf[r])
      BY <1>1 DEF IInv, TypeOK, Of
    <3>2. health[SourceOf[r]] # "healthy"
      BY <2>2 DEF UnavailableCritical, GroupHealthy, Rows
    <3> QED
      BY <2>1, <3>1, <3>2
  <2>3. CASE group \notin UnavailableCritical
    <3>1. PICK s \in group : health[s] = "healthy"
      BY <2>3 DEF UnavailableCritical, GroupHealthy, Rows
    <3>2. (page \cap Of(s)) \cap kept = {}
      BY <2>1, <3>1, FailingAssumption
    <3>3. kept \subseteq page
      BY <1>1 DEF IInv, TypeOK
    <3> QED
      BY <2>3, <3>2, <3>3
  <2> QED
    BY <2>2, <2>3
<1> QED
  BY <1>1, Invariance, PTL

(* DASHBOARD_CATEGORY_LIMITS lets no category be crowded out. *)
THEOREM NoCategoryCrowdedOut == Spec => []CategoriesRepresented
<1>1. IInv => CategoriesRepresented
  BY DEF IInv, Represented, CategoriesRepresented
<1> QED
  BY <1>1, Invariance, PTL
-----------------------------------------------------------------------------
(***************************************************************************)
(* The worker seen by the API.  SourceIngestion implements SourceDisplay   *)
(* (SourceIngestionProofs); here every source is one of SourceDisplay, and *)
(* may do all that SourceDisplay may: what is proved above of responses    *)
(* holds of what the worker really does.                                   *)
(***************************************************************************)

(* What a source's step leaves of the other sources. *)
LEMMA OthersStand ==
    ASSUME NEW s, NEW t, s # t, NEW rs \in SUBSET Of(s)
    PROVE  /\ ((current \ Of(s)) \cup rs) \cap Of(t) = current \cap Of(t)
           /\ (labelled \ Of(s)) \cap Of(t) = labelled \cap Of(t)
           /\ (labelled \cup rs) \cap Of(t) = labelled \cap Of(t)
           /\ (aged \ Of(s)) \cap Of(t) = aged \cap Of(t)
           /\ ((aged \ Of(s)) \cup rs) \cap Of(t) = aged \cap Of(t)
BY OfDisjoint

LEMMA DisplayStep ==
    ASSUME TypeOK, NEW s \in Sources, [Next]_vars
    PROVE  [Display(s)!Next]_(Display(s)!vars)
<1> USE DEF Display!vars, ReportOf, PendingOf
<1>1. CASE UNCHANGED database
  BY <1>1 DEF database, Of
<1>2. ASSUME NEW t \in Sources, Answers(t)
      PROVE  [Display(s)!Next]_(Display(s)!vars)
  <2>1. PICK rs \in SUBSET Of(t), old \in SUBSET (Of(t) \cap Ageing) :
               /\ old \subseteq rs
               /\ current' = (current \ Of(t)) \cup rs
               /\ aged' = (aged \ Of(t)) \cup old
    BY <1>2 DEF Answers
  <2>2. CASE t = s
    <3>1. /\ current' \cap Of(s) \in SUBSET Of(s) /\ labelled' \cap Of(s) = {}
          /\ aged' \cap Of(s) \in SUBSET ((current' \cap Of(s)) \cap Ageing)
      BY <1>2, <2>1, <2>2 DEF Answers
    <3>2. ReportOf(s)' = ReportOf(s) /\ PendingOf(s)' = "answer"
      BY <1>2, <2>2 DEF Answers, TypeOK
    <3> QED
      BY <3>1, <3>2 DEF Display!Next, Display!Answer, Of
  <2>3. CASE t # s
    BY <1>2, <2>1, <2>3, OthersStand DEF Answers, TypeOK, Of
  <2> QED
    BY <2>2, <2>3
<1>3. ASSUME NEW t \in Sources, Fails(t)
      PROVE  [Display(s)!Next]_(Display(s)!vars)
  <2>1. Labels(t) \in SUBSET Of(t)
    BY DEF Labels
  <2>2. CASE t = s
    <3>1. /\ labelled' \cap Of(s) = current \cap Of(s) /\ current' = current
          /\ aged' \cap Of(s) = {}
      BY <1>3, <2>2 DEF Fails, Labels, TypeOK
    <3>2. ReportOf(s)' = ReportOf(s) /\ PendingOf(s)' = "doubt"
      BY <1>3, <2>2 DEF Fails, TypeOK
    <3> QED
      BY <3>1, <3>2 DEF Display!Next, Display!Doubt, Of
  <2>3. CASE t # s
    BY <1>3, <2>1, <2>3, OthersStand DEF Fails, TypeOK, Of
  <2> QED
    BY <2>2, <2>3
<1>4. ASSUME NEW t \in Sources, Reports(t)
      PROVE  [Display(s)!Next]_(Display(s)!vars)
  <2>1. current' = current /\ labelled' = labelled /\ aged' = aged
    BY <1>4 DEF Reports
  <2>2. CASE t = s
    <3>1. \/ PendingOf(s) = "answer" /\ ReportOf(s)' = "healthy"
          \/ PendingOf(s) = "doubt" /\ ReportOf(s)' \in Failing
      BY <1>4, <2>2, FailingAssumption DEF Reports, TypeOK
    <3>2. PendingOf(s)' = "none"
      BY <1>4, <2>2 DEF Reports, TypeOK
    <3> QED
      BY <2>1, <3>1, <3>2 DEF Display!Next, Display!Report, Of
  <2>3. CASE t # s
    BY <1>4, <2>1, <2>3 DEF Reports, TypeOK, Of
  <2> QED
    BY <2>2, <2>3
<1>5. ASSUME NEW rs \in SUBSET current, Expires(rs)
      PROVE  [Display(s)!Next]_(Display(s)!vars)
  <2>1. rs \cap Of(s) \in SUBSET (current \cap Of(s))
    OBVIOUS
  <2>2. /\ (current \cap Of(s))' = (current \cap Of(s)) \ (rs \cap Of(s))
        /\ (labelled \cap Of(s))' = (labelled \cap Of(s)) \ (rs \cap Of(s))
        /\ (aged \cap Of(s))' = (aged \cap Of(s)) \ (rs \cap Of(s))
    BY <1>5 DEF Expires, Of
  <2>3. ReportOf(s)' = ReportOf(s) /\ PendingOf(s)' = PendingOf(s)
    BY <1>5 DEF Expires
  <2> QED
    BY <2>1, <2>2, <2>3 DEF Display!Next, Display!Leave
<1>6. CASE Request
  BY <1>1, <1>6 DEF Request, AskSummary, ReadCategory, AskGroup, ReadGroup, ReadHealth,
     Respond, Read
<1> QED
  BY <1>1, <1>2, <1>3, <1>4, <1>5, <1>6 DEF Next, Worker, vars

(* Of every source the API sees what the worker promises and nothing else: *)
(* labels are lost to an answer or with their record, and a health row     *)
(* follows the records it speaks of.                                       *)
THEOREM SourcesKeepPromises ==
    ASSUME NEW s \in Sources
    PROVE  Spec => Display(s)!Spec
<1>1. Init => Display(s)!Init
  BY DEF Init, Display!Init, ReportOf, PendingOf
<1>2. TypeOK /\ [Next]_vars => [Display(s)!Next]_(Display(s)!vars)
  BY DisplayStep
<1> QED
  BY <1>1, <1>2, TypeCorrect, PTL DEF Spec, Display!Spec
(* The other sources rest. *)
OthersRest(s) ==
    \A t \in Sources \ {s} :
        /\ (current \cap Of(t))' = current \cap Of(t)
        /\ (labelled \cap Of(t))' = labelled \cap Of(t)
        /\ (aged \cap Of(t))' = aged \cap Of(t)
        /\ row'[t] = row[t] /\ pending'[t] = pending[t]

(* What the database is after a step of one source alone. *)
LEMMA OnlyOneMoves ==
    ASSUME TypeOK, TypeOK', NEW s \in Sources, OthersRest(s)
    PROVE  /\ current' = (current \ Of(s)) \cup (current' \cap Of(s))
           /\ labelled' = (labelled \ Of(s)) \cup (labelled' \cap Of(s))
           /\ aged' = (aged \ Of(s)) \cup (aged' \cap Of(s))
           /\ row' = [row EXCEPT ![s] = row'[s]]
           /\ pending' = [pending EXCEPT ![s] = pending'[s]]
           /\ ReportOf(s)' = ReportOf(s) => row' = row
           /\ PendingOf(s)' = PendingOf(s) => pending' = pending
<1> DEFINE at(r) == SourceOf[r]
<1>1. \A r \in Records : at(r) \in Sources /\ r \in Of(at(r))
  BY RecordsAssumption DEF Of
<1>2. \A r \in Records \ Of(s) : at(r) \in Sources \ {s}
  BY <1>1
<1>3. \A r \in Records \ Of(s) :
         /\ r \in current' <=> r \in current
         /\ r \in labelled' <=> r \in labelled
         /\ r \in aged' <=> r \in aged
  BY <1>1, <1>2 DEF OthersRest, Of
<1>4. /\ current' = (current \ Of(s)) \cup (current' \cap Of(s))
      /\ labelled' = (labelled \ Of(s)) \cup (labelled' \cap Of(s))
      /\ aged' = (aged \ Of(s)) \cup (aged' \cap Of(s))
  BY <1>3 DEF TypeOK
<1>5. /\ row' = [row EXCEPT ![s] = row'[s]]
      /\ pending' = [pending EXCEPT ![s] = pending'[s]]
  BY DEF TypeOK, OthersRest
<1>6. ReportOf(s)' = ReportOf(s) => row'[s] = row[s]
  BY FailingAssumption DEF ReportOf, TypeOK, States
<1>7. PendingOf(s)' = PendingOf(s) => pending'[s] = pending[s]
  BY DEF PendingOf, TypeOK
<1>8. row = [row EXCEPT ![s] = row[s]] /\ pending = [pending EXCEPT ![s] = pending[s]]
  BY DEF TypeOK
<1> QED
  BY <1>4, <1>5, <1>6, <1>7, <1>8

(* Whatever the worker promises to do to one source, the sources of this   *)
(* module do: the reads proved consistent above are consistent with every  *)
(* worker that keeps its promise, not with a tamer one.                    *)
THEOREM PromisesAreAllTold ==
    ASSUME TypeOK, TypeOK', NEW s \in Sources, OthersRest(s),
           \/ (Display(s)!Answer \/ Display(s)!Doubt \/ Display(s)!Report) /\ Moves(s)
           \/ Display(s)!Leave /\ UNCHANGED response
    PROVE  Worker
<1>1. CASE Display(s)!Answer /\ Moves(s)
  <2>1. pending'[s] = "answer" /\ row' = row /\ labelled' = labelled \ Of(s)
    BY <1>1, OnlyOneMoves DEF Display!Answer, PendingOf, TypeOK
  <2> DEFINE rs == current' \cap Of(s)
             old == aged' \cap Of(s)
  <2>2. rs \in SUBSET Of(s) /\ current' = (current \ Of(s)) \cup rs
    BY <1>1, OnlyOneMoves
  <2>3. old \in SUBSET (rs \cap Ageing) /\ aged' = (aged \ Of(s)) \cup old
    BY <1>1, OnlyOneMoves DEF Display!Answer
  <2>4. pending' = [pending EXCEPT ![s] = "answer"]
    BY <1>1, <2>1, OnlyOneMoves
  <2>5. Answers(s)
    <3> HIDE DEF rs, old
    <3> QED
      BY <1>1, <2>1, <2>2, <2>3, <2>4 DEF Answers
  <2> QED
    BY <2>5 DEF Worker
<1>2. CASE Display(s)!Doubt /\ Moves(s)
  <2>1. pending'[s] = "failure" /\ row' = row
    BY <1>2, OnlyOneMoves DEF Display!Doubt, PendingOf, TypeOK
  <2>2. current' = current /\ aged' = aged \ Of(s)
    BY <1>2, OnlyOneMoves DEF Display!Doubt
  <2>3. labelled' = labelled \cup Labels(s)
    BY <1>2, OnlyOneMoves DEF Display!Doubt, Labels, TypeOK
  <2> QED
    BY <1>2, <2>1, <2>2, <2>3, OnlyOneMoves DEF Worker, Fails
<1>3. CASE Display(s)!Report /\ Moves(s)
  <2>1. current' = current /\ labelled' = labelled /\ aged' = aged
    BY <1>3, OnlyOneMoves DEF Display!Report
  <2>2. pending'[s] = "none"
    BY <1>3 DEF Display!Report, PendingOf, TypeOK
  <2>3. \/ pending[s] = "answer" /\ row'[s] = "healthy"
        \/ pending[s] = "failure" /\ row'[s] \in Failing
    BY <1>3, FailingAssumption DEF Display!Report, PendingOf, ReportOf, TypeOK
  <2> QED
    BY <1>3, <2>1, <2>2, <2>3, OnlyOneMoves DEF Worker, Reports
<1>4. CASE Display(s)!Leave /\ UNCHANGED response
  <2>1. PICK gone \in SUBSET (current \cap Of(s)) :
            /\ (current \cap Of(s))' = (current \cap Of(s)) \ gone
            /\ (labelled \cap Of(s))' = (labelled \cap Of(s)) \ gone
            /\ (aged \cap Of(s))' = (aged \cap Of(s)) \ gone
    BY <1>4 DEF Display!Leave
  <2>2. row' = row /\ pending' = pending
    BY <1>4, OnlyOneMoves DEF Display!Leave
  <2>3. current' = current \ gone /\ labelled' = labelled \ gone /\ aged' = aged \ gone
    BY <2>1, OnlyOneMoves
  <2>4. gone \in SUBSET current
    OBVIOUS
  <2> QED
    BY <1>4, <2>2, <2>3, <2>4 DEF Worker, Expires
<1> QED
  BY <1>1, <1>2, <1>3, <1>4
=============================================================================
