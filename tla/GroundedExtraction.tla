------------------------- MODULE GroundedExtraction -------------------------
(***************************************************************************)
(* GatewayNormalizer.extract (api/app/ai.py): a text of a public source is *)
(* sent to the AI gateway, twice at most, and what comes back is returned  *)
(* only when it is grounded in that text.  The gateway may answer          *)
(* anything, and with the answer of another request.                       *)
(*                                                                         *)
(* A text is the set of the phrases it contains; a phrase is a word in one *)
(* of two cases.                                                           *)
(***************************************************************************)
EXTENDS Integers, FiniteSets

CONSTANTS
    Words,
    RecordIds,      \* the IDs the caller allows
    OtherIds,       \* and any others
    RequestIds      \* request IDs: of this call, and of other requests

ASSUME IdsAssumption == RecordIds \cap OtherIds = {}

Phrases == Words \X {"Upper", "lower"}

Lower(phrase) == <<phrase[1], "lower">>

VARIABLES
    extraction, \* what the call is doing
    text,       \* source_text
    requestId,  \* NoId between the calls
    attempt,    \* attempts made
    timedOut,   \* history: one of them timed out
    result,     \* what the call returned
    echoed      \* history: the request ID that came with it

extractionVars == <<extraction, text, requestId, attempt, timedOut, result, echoed>>

NoId == "none"

NoResult == [evidence |-> {}, claims |-> {}, sufficient |-> TRUE, confident |-> FALSE]

(* What the schema lets through.  Confident is a confidence above 0.5; the *)
(* claims are locations, roads and times.                                  *)
Results ==
    {r \in [evidence : SUBSET ((RecordIds \cup OtherIds) \X Phrases),
            claims : SUBSET Phrases, sufficient : BOOLEAN, confident : BOOLEAN] :
        Cardinality(r.evidence) = 1 /\ Cardinality(r.claims) <= 1}

(* insufficient_evidence_cannot_be_high_confidence *)
Valid(r) == r.sufficient \/ ~r.confident

(* Seeded fault: evidence is compared as claims are. *)
QuotedInAnyCase(r) ==
    \A e \in r.evidence : \E phrase \in text : Lower(e[2]) = Lower(phrase)

Quoted(r) == \A e \in r.evidence : e[2] \in text

Claimed(r) == \A c \in r.claims : Lower(c) \in {Lower(phrase) : phrase \in text}

Cited(r) == {e[1] : e \in r.evidence} \subseteq RecordIds

Grounded(r) == Valid(r) /\ Cited(r) /\ Quoted(r) /\ Claimed(r)

-----------------------------------------------------------------------------
ExtractionInit ==
    /\ extraction = "idle"
    /\ text = {}
    /\ requestId = NoId
    /\ attempt = 0
    /\ timedOut = FALSE
    /\ result = NoResult
    /\ echoed = NoId

(* Without text, record IDs or a credential nothing is sent. *)
Extract(source, credential) ==
    /\ extraction = "idle"
    /\ text' = source
    /\ requestId' \in RequestIds
    /\ extraction' = IF source = {} \/ RecordIds = {} \/ ~credential THEN "raised" ELSE "asking"
    /\ UNCHANGED <<attempt, timedOut, result, echoed>>

(* The caller goes on. *)
Leave ==
    /\ extraction \in {"returned", "raised"}
    /\ extraction' = "idle"
    /\ text' = {}
    /\ attempt' = 0
    /\ timedOut' = FALSE
    /\ result' = NoResult
    /\ requestId' = NoId /\ echoed' = NoId

(* The attempt is lost: there is one more, or the call raises. *)
Rejects ==
    /\ attempt' = attempt + 1
    /\ extraction' = IF attempt = 1 THEN "raised" ELSE "asking"
    /\ UNCHANGED <<text, requestId, timedOut, result, echoed>>

(* An HTTP error, a missing message, text that is not JSON or not of the   *)
(* schema                                                                  *)
Malformed == extraction = "asking" /\ Rejects

GatewayAnswers(id, r) ==
    /\ extraction = "asking"
    /\ IF id = requestId /\ Grounded(r)
       THEN /\ extraction' = "returned"
            /\ attempt' = attempt + 1
            /\ result' = r
            /\ echoed' = id
            /\ UNCHANGED <<text, requestId, timedOut>>
       ELSE Rejects

TimesOut ==
    /\ extraction = "asking"
    /\ extraction' = "raised"
    /\ attempt' = attempt + 1
    /\ timedOut' = TRUE
    /\ UNCHANGED <<text, requestId, result, echoed>>

ExtractionNext ==
    \/ \E source \in SUBSET Phrases, credential \in BOOLEAN : Extract(source, credential)
    \/ Malformed
    \/ \E id \in RequestIds, r \in Results : GatewayAnswers(id, r)
    \/ TimesOut
    \/ Leave

ExtractionSpec == ExtractionInit /\ [][ExtractionNext]_extractionVars

-----------------------------------------------------------------------------
(* Properties *)

(* Whatever the gateway answers, to this request or to another, at the     *)
(* first attempt or the second: what is returned answers this request,     *)
(* cites only allowed records, quotes the text to the letter, claims       *)
(* nothing that is not in it, and is not confident of insufficient         *)
(* evidence (docs/OLLAMA.md:34-38).                                        *)
ReturnedIsGrounded ==
    extraction = "returned" =>
        /\ echoed = requestId /\ ~timedOut
        /\ \A e \in result.evidence : e[1] \notin OtherIds /\ e[2] \in text
        /\ \A c \in result.claims : \E phrase \in text : c[1] = phrase[1]
        /\ result.confident => result.sufficient
=============================================================================
