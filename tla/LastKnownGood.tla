--------------------------- MODULE LastKnownGood ---------------------------
(***************************************************************************)
(* What one public source promises to the dashboard, with no poll, retry,  *)
(* lock or circuit in sight: the records it shows, the ones among them     *)
(* that carry the "refresh failed" label or were old when they came, and   *)
(* the outcome its health row reports.  SourceIngestion is shown to        *)
(* implement it.                                                           *)
(*                                                                         *)
(* Two promises are built into the actions.  A record leaves the display   *)
(* only because its own expiry passed or because a complete new answer     *)
(* replaced the set; and a report is published only after the records it   *)
(* speaks of: "healthy" after an answer, "failing" after the labels.       *)
(***************************************************************************)
EXTENDS Integers

CONSTANT Records

VARIABLES
    life,       \* how much longer each record is shown; 0 when it is not
    doubted,    \* the shown records labelled as kept from a failed refresh
    aged,       \* the shown records their publisher or adapter calls stale
    report,     \* what the health row says of the source
    pending     \* what happened to the records and is not yet reported

vars == <<life, doubted, aged, report, pending>>

(* A record without expiry. *)
Forever == -1

Lives == Nat \cup {Forever}

shown == {r \in Records : life[r] # 0}

Init ==
    /\ life = [r \in Records |-> 0]
    /\ doubted = {}
    /\ aged = {}
    /\ report = "unknown"
    /\ pending = "none"

(* A complete answer is authoritative about membership, lifetimes and what *)
(* is old in it.                                                           *)
Replace ==
    /\ life' \in [Records -> Lives]
    /\ doubted' = {}
    /\ aged' \in SUBSET shown'
    /\ pending' = "answer"
    /\ UNCHANGED report

(* A failed refresh keeps every record and labels every one of them, with  *)
(* a reason that takes the place of any other.                             *)
Doubt ==
    /\ doubted' = shown
    /\ aged' = {}
    /\ pending' = "doubt"
    /\ UNCHANGED <<life, report>>

(* Time removes a record when its own lifetime has run down, no sooner,    *)
(* and never clears a label.                                               *)
Elapse ==
    /\ life' = [r \in Records |-> IF life[r] > 0 THEN life[r] - 1 ELSE life[r]]
    /\ doubted' = doubted \cap shown'
    /\ aged' = aged \cap shown'
    /\ UNCHANGED <<report, pending>>

ReportHealthy ==
    /\ pending = "answer"
    /\ pending' = "none"
    /\ report' = "healthy"
    /\ UNCHANGED <<life, doubted, aged>>

ReportFailing ==
    /\ pending = "doubt"
    /\ pending' = "none"
    /\ report' = "failing"
    /\ UNCHANGED <<life, doubted, aged>>

Next == Replace \/ Doubt \/ Elapse \/ ReportHealthy \/ ReportFailing

Spec == Init /\ [][Next]_vars
=============================================================================
