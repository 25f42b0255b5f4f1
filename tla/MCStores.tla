------------------------------- MODULE MCStores -------------------------------
(* Two stores a node keeps between the flows and the OCR rounds, one per       *)
(* behaviour: they share no state.                                             *)
(*   - the result store, at the end of the check pipeline: one work checked on *)
(*     two blocks by two ticks that overlap;                                   *)
(*   - the proposal queue: two works of one type, of which a batch takes one,  *)
(*     and a flow of another type that finds nothing but expired records.      *)
EXTENDS Flows

CONSTANTS
  Work, TypeOf, BlockNumber, RoundHistoryLimit, SurfacedLimit, ProposalExpiry, BatchSize

VARIABLES
  focus,                           \* the store that is looked at
  rounds, records, ran, lapsed     \* ProposalQueue

Queue == INSTANCE ProposalQueue WITH WorkID <- Work, Block <- BlockNumber

ASSUME ProposalQueueAssumption ==
  /\ TypeOf \in [Work -> {"log", "conditional"}]
  /\ BlockNumber \subseteq Nat
  /\ {RoundHistoryLimit, SurfacedLimit, ProposalExpiry, BatchSize} \subseteq Nat

MCTypeOf == [w \in Work |-> "log"]

queueVars == <<rounds, records, ran, lapsed>>

MCInit == focus \in {"queue", "results"} /\ Init /\ Queue!Init

MCNext ==
  /\ UNCHANGED focus
  /\ \/ focus = "queue" /\ Queue!Next /\ UNCHANGED vars
     \/ focus = "results" /\ Next /\ UNCHANGED queueVars

MCSpec == MCInit /\ [][MCNext]_<<focus, vars, queueVars>>

RunOnce == Queue!RunOnce
BlocksOnlyGrow == Queue!BlocksOnlyGrow
===============================================================================
