---------------------------- MODULE FeedRecords ----------------------------
(***************************************************************************)
(* What the adapters' normalize functions return (api/app/adapters): the   *)
(* records of one answer in its order, or the UpstreamSchemaError that     *)
(* refuses the answer as a whole.  A record keeps                          *)
(*   id       source_record_id, the key it is filed under                  *)
(*   fact     what it speaks of: an hour, a storm's product, a zone        *)
(*   says     what it says of it                                           *)
(*   at       observed_at, else published_at, else retrieved_at            *)
(*   expires  expires_at                                                   *)
(* Time is counted in half hours.                                          *)
(***************************************************************************)
EXTENDS Integers, FiniteSets, SequencesExt

CONSTANT None       \* an absent value, and what parse_datetime makes of
                    \* a value that is no time

ASSUME NoneAssumption == None \notin Int

Hour == 2

Record(id, fact, says, at, expires) ==
    [id |-> id, fact |-> fact, says |-> says, at |-> at, expires |-> expires]

Accepted(records) == [ok |-> TRUE, records |-> records]

Refused == [ok |-> FALSE, records |-> <<>>]

(* The loop over an answer's items: the first that is invalid raises. *)
EachRecord(records, invalid) == IF invalid = {} THEN Accepted(records) ELSE Refused

IsList(items) == items \in Seq(ToSet(items))

(* The items at some places, in their order: the loops that pass over an   *)
(* item and go on with the next.                                           *)
Picked(items, places) ==
    FlattenSeq([i \in DOMAIN items |-> IF i \in places THEN <<items[i]>> ELSE <<>>])

Or(value, otherwise) == IF value # None THEN value ELSE otherwise
=============================================================================
