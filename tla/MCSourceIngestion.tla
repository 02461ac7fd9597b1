------------------------- MODULE MCSourceIngestion -------------------------
(* Constant values for the TLC runs of SourceIngestion. *)
EXTENDS SourceIngestion

(* expires_at absent, already past on arrival, or one tick ahead *)
MCLifetimes == {Never, 0, 1}

(* records without expiry only *)
MCForever == {Never}
=============================================================================
