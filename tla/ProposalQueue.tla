---------------------------- MODULE ProposalQueue ----------------------------
(***************************************************************************)
(* The queue of coordinated proposals of one node                          *)
(* (pkg/v3/stores/proposal_queue.go) between the OCR plugin, which on      *)
(* every observation enqueues all the rounds of surfaced proposals the     *)
(* previous outcome carries, and the final flows, one per upkeep type,     *)
(* which dequeue a batch on every tick and run it through the pipeline.    *)
(*                                                                         *)
(* The outcome is the one of module Outcome: a work appears once in its    *)
(* rounds and keeps its block there.  A node that is down or behind does   *)
(* not observe every round, so rounds and observations are separate steps. *)
(***************************************************************************)
EXTENDS Integers, Sequences, FiniteSets, FiniteSetsExt

CONSTANTS
  WorkID,
  TypeOf,                  \* the type of each work
  Block,                   \* coordinated blocks
  RoundHistoryLimit,       \* rounds an outcome carries
  SurfacedLimit,           \* proposals of a round
  ProposalExpiry,          \* age up to which a record is kept
  BatchSize                \* proposals taken by one tick of a flow

UpkeepType == {"log", "conditional"}
Proposal == [workID : WorkID, block : Block]
Age == 0..(ProposalExpiry + 1)

VARIABLES
  rounds,   \* surfaced proposals of the latest outcome, newest first, with their age
  records,  \* the queue: a set of records, at most one per work
  ran,      \* history: how often a proposal was run since it was surfaced (up to 2)
  lapsed    \* history: whether the assumption of RunOnce has failed

vars == <<rounds, records, ran, lapsed>>

Surfaced == UNION {rounds[i].proposals : i \in 1..Len(rounds)}
RecordsOf(w) == {r \in records : r.proposal.workID = w}

Init ==
  /\ rounds = <<>>
  /\ records = {}
  /\ ran = [p \in Proposal |-> 0]
  /\ lapsed = FALSE

-----------------------------------------------------------------------------
(* The network: the next outcome surfaces works that no kept round has.    *)

NextRound(ps) ==
  /\ Cardinality(ps) <= SurfacedLimit
  /\ \A p, q \in ps : p.workID = q.workID => p = q
  /\ \A p \in ps, q \in Surfaced : p.workID # q.workID
  /\ LET all == <<[proposals |-> ps, age |-> 0]>> \o rounds
     IN rounds' = SubSeq(all, 1, IF Len(all) > RoundHistoryLimit
                                 THEN RoundHistoryLimit ELSE Len(all))
  /\ ran' = [p \in Proposal |-> IF p \in ps THEN 0 ELSE ran[p]]
  /\ UNCHANGED records

-----------------------------------------------------------------------------
(* The queue.                                                              *)

Expired(r) == r.age > ProposalExpiry

\* Mutant: a record is replaced whatever its block.
EnqueueAny(ps) ==
  LET new == {p \in ps : \A r \in RecordsOf(p.workID) : r.proposal.block # p.block}
  IN {r \in records : \A p \in new : p.workID # r.proposal.workID}
       \cup {[proposal |-> p, removed |-> FALSE, age |-> 0] : p \in new}

\* Enqueue keeps a record whose block is as new as the proposal's.
Enqueue(ps) ==
  LET new == {p \in ps : \A r \in RecordsOf(p.workID) : r.proposal.block < p.block}
  IN {r \in records : \A p \in new : p.workID # r.proposal.workID}
       \cup {[proposal |-> p, removed |-> FALSE, age |-> 0] : p \in new}

\* The AddToProposalQ hook of an observation: every round of the outcome.
AddToProposalQ ==
  /\ rounds # <<>>
  /\ records' = Enqueue(Surfaced)
  /\ UNCHANGED <<rounds, ran>>

Pending(t) ==
  {r \in records : ~Expired(r) /\ ~r.removed /\ TypeOf[r.proposal.workID] = t}

\* Mutant: a dequeued record is deleted instead of marked.
DequeueDeletes(t, batch) ==
  /\ batch \subseteq Pending(t)
  /\ Cardinality(batch) = Min({BatchSize, Cardinality(Pending(t))})
  /\ records' = {r \in records : ~Expired(r)} \ batch

\* Any batch, since map order is random; expired records go, the batch is marked so
\* that it is not dequeued again.
Dequeue(t, batch) ==
  /\ batch \subseteq Pending(t)
  /\ Cardinality(batch) = Min({BatchSize, Cardinality(Pending(t))})
  /\ records' = {[r EXCEPT !.removed = @ \/ r \in batch] : r \in {s \in records : ~Expired(s)}}

RanAgain(n) == IF n = 0 THEN 1 ELSE 2

\* The tick of a final flow: of what it dequeues, the pipeline gets what the builder
\* made payloads of, which is nothing if the builder failed.
coordinatedProposalsTick(t) ==
  \E batch \in SUBSET Pending(t) :
    /\ Dequeue(t, batch)
    /\ \E built \in SUBSET {r.proposal : r \in batch} :
         ran' = [p \in Proposal |-> IF p \in built THEN RanAgain(ran[p]) ELSE ran[p]]
    /\ UNCHANGED rounds

FinalRecoveryFlow == coordinatedProposalsTick("log")
FinalConditionalFlow == coordinatedProposalsTick("conditional")

Older(a) == IF a > ProposalExpiry THEN a ELSE a + 1

Tick ==
  /\ records' = {[r EXCEPT !.age = Older(@)] : r \in records}
  /\ rounds' = [i \in 1..Len(rounds) |-> [rounds[i] EXCEPT !.age = Older(@)]]
  /\ UNCHANGED ran

\* The process restarts with an empty queue; what it ran is lost.
Restart ==
  /\ records' = {}
  /\ ran' = [p \in Proposal |-> 0]
  /\ UNCHANGED rounds

\* What RunOnce needs: the rounds of an outcome span no more time than a record is
\* kept, and a work the queue remembers is coordinated anew on a newer block.
RoundsFast == \A i \in 1..Len(rounds) : rounds[i].age <= ProposalExpiry
NewerBlock ==
  \A p \in Surfaced' \ Surfaced, r \in records :
    r.proposal.workID = p.workID => r.proposal.block < p.block

Next ==
  /\ \/ \E ps \in SUBSET Proposal : NextRound(ps)
     \/ AddToProposalQ
     \/ FinalRecoveryFlow \/ FinalConditionalFlow
     \/ Tick
     \/ Restart
  /\ lapsed' = (lapsed \/ ~RoundsFast' \/ ~NewerBlock)

Spec == Init /\ [][Next]_vars

-----------------------------------------------------------------------------
(* Properties.                                                             *)

\* The types of the queue's fields and of the rounds; the map has one record per work.
TypeOK ==
  /\ rounds \in Seq([proposals : SUBSET Proposal, age : Age])
  /\ records \subseteq [proposal : Proposal, removed : BOOLEAN, age : Age]
  /\ \A r, s \in records : r.proposal.workID = s.proposal.workID => r = s
  /\ ran \in [Proposal -> 0..2]
  /\ lapsed \in BOOLEAN

\* "only kept for a period of time to run pipeline for it once"
\* (pkg/v3/stores/proposal_queue.go): while an outcome carries a proposal, the
\* node takes it for the pipeline at most once, as long as the rounds of an outcome
\* have never lasted longer than that period.
RunOnce == lapsed \/ \A p \in Surfaced : ran[p] <= 1

\* The queue never goes back: while it has a record of a work, Enqueue replaces it
\* only by one on a newer block and a dequeued record is not pending again.
BlocksOnlyGrow ==
  [][\A r \in records, s \in records' :
       r.proposal.workID = s.proposal.workID =>
         \/ s.proposal.block > r.proposal.block
         \/ s.proposal = r.proposal /\ (r.removed => s.removed)]_vars

=============================================================================
