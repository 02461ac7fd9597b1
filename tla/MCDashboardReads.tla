-------------------------- MODULE MCDashboardReads --------------------------
(* The records of two sources share a category whose limit they exceed; a  *)
(* third source is alone in its own, as the radar and PulsePoint are, and  *)
(* like theirs its record may be old in a good answer.                     *)
EXTENDS DashboardFigures, TLC

CONSTANTS s1, s2, s3, r1, r2, r3

MCSourceOf == (r1 :> s1) @@ (r2 :> s2) @@ (r3 :> s3)

MCCategoryOf == (s1 :> "traffic") @@ (s2 :> "traffic") @@ (s3 :> "radar")

MCCategories == <<"traffic", "radar">>

MCLimits == [traffic |-> 1, radar |-> 1]

(* The first two sources change places, with their records. *)
MCSymmetry == {(s1 :> s2) @@ (s2 :> s1) @@ (r1 :> r2) @@ (r2 :> r1)}

MCGroups == {{"traffic"}, {"radar"}}

MCCriticalGroups == {{s1, s2}, {s3}}
=============================================================================
