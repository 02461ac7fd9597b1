---------------------------- MODULE MCHttpShell -----------------------------
(* The API process with two requests at a time, and the job that uses the  *)
(* AI gateway.  The two share no state, so the job's steps are taken while *)
(* no request is under way; a text may hold a word in both cases, in one,  *)
(* or not at all.                                                          *)
EXTENDS HttpShell, GroundedExtraction, TLC

Idle == \A q \in Requests : path[q] = "none"

MCInit == ShellInit /\ ExtractionInit

MCNext ==
    \/ extraction = "idle" /\ ShellNext /\ UNCHANGED extractionVars
    \/ Idle /\ ExtractionNext /\ UNCHANGED allVars

MCSpec == MCInit /\ [][MCNext]_<<allVars, extractionVars>>

MCSymmetry == Permutations(Clients) \cup Permutations(Requests)
=============================================================================
