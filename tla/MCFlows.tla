------------------------------- MODULE MCFlows -------------------------------
(* Batches of one, so that a tick's batches come back in either order, and   *)
(* ages of at most one step past each limit.                                 *)
EXTENDS Flows
=============================================================================
