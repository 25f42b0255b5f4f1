---------------------------- MODULE MCCoordinator ----------------------------
(* Two check blocks of a log-triggered work, whose report for block 1 is     *)
(* performed while the one for block 2 comes too late and is stale.          *)
EXTENDS Coordinator

Ev(w, b, t, tb) == [workID |-> w, checkBlock |-> b, type |-> t, transmitBlock |-> tb]

MCLogEvent == {Ev("log", 1, "perform", 2), Ev("log", 2, "stale", 3)}
=============================================================================
