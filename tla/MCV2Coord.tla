------------------------------ MODULE MCV2Coord ------------------------------
(* An upkeep in reports for two check blocks.  The registry logs the first   *)
(* report as performed and, from another node, as stale.                     *)
EXTENDS V2Coordinator

K(b, i) == [block |-> b, id |-> i]
L(t, k, tb) == [type |-> t, key |-> k, transmitBlock |-> tb]

MCReport == {<<K(1, "a")>>, <<K(3, "a")>>}
MCLog == {L("perform", K(1, "a"), 4), L("stale", K(1, "a"), 5)}

MCSpec == CoordinatorSpec /\ CoordinatorFairness
=============================================================================
