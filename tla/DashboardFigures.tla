-------------------------- MODULE DashboardFigures ---------------------------
(***************************************************************************)
(* The critical feeds of a summary (_source_health_summary, api/app/api.py)*)
(* are counted from the health rows alone, beside records that were read   *)
(* before them.                                                            *)
(***************************************************************************)
EXTENDS DashboardReads

CONSTANTS
    CriticalGroups  \* each a set of sources, see SourceRegistry

ASSUME CriticalGroupsAssumption == CriticalGroups \subseteq SUBSET Sources

(* Seeded fault: a group is healthy when all its sources are. *)
GroupThroughout(group) == \A s \in Rows(group) : health[s] = "healthy"

(* One healthy source is enough, and a source without a row is none. *)
GroupHealthy(group) == \E s \in Rows(group) : health[s] = "healthy"

UnavailableCritical == {group \in CriticalGroups : ~GroupHealthy(group)}

(* What a summary calls an unavailable critical feed shows no record that  *)
(* is not kept from a failed refresh, and a feed it counts as healthy has  *)
(* a source none of whose records is, unless a source of the feed moved    *)
(* between the queries: a duty officer who reads "Roads unavailable" beside*)
(* live road records, or the reverse, is being misled.                     *)
CriticalGroupsSound ==
    pc = "answered" /\ asked = Names =>
        \A group \in CriticalGroups :
            group \subseteq quiet =>
                LET shown == {r \in page : SourceOf[r] \in group} IN
                IF group \in UnavailableCritical
                THEN shown \subseteq kept
                ELSE \E s \in group : kept \cap Of(s) = {}
=============================================================================
