---------------------------- MODULE MCWorkerGroup ----------------------------
(* Two concurrent calls on one worker, so that items wait for it and both    *)
(* notification channels drop notifications.                                 *)
EXTENDS WorkerGroup

CONSTANTS g1, g2

MCGroup == {g1, g2}
MCJobs == [g \in Group |-> IF g = g1 THEN 2 ELSE 1]
=============================================================================
