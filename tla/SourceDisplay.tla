---------------------------- MODULE SourceDisplay ----------------------------
(***************************************************************************)
(* LastKnownGood as a reader sees it, who knows of no lifetimes: records   *)
(* leave when they leave.  It stands between the two halves of the system: *)
(* the worker's source (SourceIngestion) implements it, and the sources    *)
(* the API reads (DashboardReads) may do what it allows and nothing else.  *)
(***************************************************************************)

CONSTANTS
    Records,
    Ageing,     \* the records an adapter may call stale in a good answer
    Failing     \* the reports of failed polls

VARIABLES
    shown,      \* the records that have not expired
    doubted,    \* those labelled as kept from a failed refresh
    aged,       \* those their publisher or adapter calls stale
    report,     \* what the health row says
    pending     \* what happened to the records and is not yet reported

vars == <<shown, doubted, aged, report, pending>>

Init ==
    /\ shown = {}
    /\ doubted = {}
    /\ aged = {}
    /\ report = "unknown"
    /\ pending = "none"

(* A complete answer takes the place of everything. *)
Answer ==
    /\ shown' \in SUBSET Records
    /\ doubted' = {}
    /\ aged' \in SUBSET (shown' \cap Ageing)
    /\ pending' = "answer"
    /\ UNCHANGED report

(* A failed refresh keeps every record and labels them all anew. *)
Doubt ==
    /\ doubted' = shown
    /\ aged' = {}
    /\ pending' = "doubt"
    /\ UNCHANGED <<shown, report>>

(* Records leave with their labels; no other label is lost. *)
Leave ==
    /\ \E gone \in SUBSET shown :
          /\ shown' = shown \ gone
          /\ doubted' = doubted \ gone
          /\ aged' = aged \ gone
    /\ UNCHANGED <<report, pending>>

(* A report follows what it speaks of. *)
Report ==
    /\ \/ pending = "answer" /\ report' = "healthy"
       \/ pending = "doubt" /\ report' \in Failing
    /\ pending' = "none"
    /\ UNCHANGED <<shown, doubted, aged>>

Next == Answer \/ Doubt \/ Leave \/ Report

Spec == Init /\ [][Next]_vars
=============================================================================
