------------------------------- MODULE Outcome -------------------------------
(***************************************************************************)
(* The Outcome phase of the OCR3 plugin (pkg/v3/plugin/ocr3.go): the       *)
(* attributed observations of a round are decoded, validated and counted   *)
(* (performables.add, coordinatedBlockProposals.add), the latest block     *)
(* with a quorum is looked for (getLatestQuorumBlock, a loop over a Go map, *)
(* in no particular order), and the next outcome is built from the counts  *)
(* and the previous outcome (performables.set, then                        *)
(* coordinatedBlockProposals.set).                                         *)
(*                                                                         *)
(* Faulty oracles may send any observation.  A payload is abstracted to    *)
(* what the code tells apart: its work ID, the rest of its data, and       *)
(* whether it passes the field checks of validateCheckResult or            *)
(* validateUpkeepProposal.                                                 *)
(***************************************************************************)
EXTENDS Integers, Sequences, FiniteSets, Functions

CONSTANTS
  Oracle, Faulty, F,        \* the oracles, the faulty ones, the bound on them
  WorkID, Data,
  BlockNumber, BlockHash,   \* sets of naturals; hash 0 is the zero hash
  UniqueID,                 \* CheckResult.UniqueID as a rank in string order
  LogTriggered,             \* the work IDs whose upkeep is a log trigger
  Observation,              \* what an oracle may send
  OutcomeAgreedPerformablesLimit,
  OutcomeSurfacedProposalsLimit,
  OutcomeSurfacedProposalsRoundHistoryLimit,
  ObservationPerformablesLimit,
  ObservationConditionalsProposalsLimit,
  ObservationLogRecoveryProposalsLimit,
  ObservationBlockHistoryLimit

CheckResult == [workID : WorkID, data : Data, valid : BOOLEAN]
Proposal == [workID : WorkID, valid : BOOLEAN]
BlockKey == [number : BlockNumber, hash : BlockHash]
Coordinated == [workID : WorkID, valid : BOOLEAN, block : BlockKey]

ASSUME OracleAssumption ==
  /\ Oracle \subseteq Nat /\ IsFiniteSet(Oracle)
  /\ Faulty \subseteq Oracle
  /\ F \in Nat /\ Cardinality(Faulty) <= F

ASSUME DataAssumption ==
  /\ IsFiniteSet(WorkID) /\ IsFiniteSet(Data) /\ LogTriggered \subseteq WorkID
  /\ BlockNumber \subseteq Nat /\ BlockHash \subseteq Nat
  /\ UniqueID \in Injection(CheckResult, Nat)
  /\ \A ao \in Observation :
       /\ ao.performable \in Seq(CheckResult)
       /\ ao.upkeepProposals \in Seq(Proposal)
       /\ ao.blockHistory \in Seq(BlockKey)

ASSUME LimitAssumption ==
  /\ OutcomeAgreedPerformablesLimit \in Nat
  /\ OutcomeSurfacedProposalsLimit \in Nat
  /\ OutcomeSurfacedProposalsRoundHistoryLimit \in Nat \ {0}

VARIABLES
  outcome,          \* the last agreed AutomationOutcome
  phase,            \* where Outcome() is: observe, scan, set; done between rounds
  observers,        \* the oracles whose observation this round has been read
  resultCount,      \* performables.resultCount
  recentBlocks,     \* coordinatedBlockProposals.recentBlocks
  allNewProposals,  \* coordinatedBlockProposals.allNewProposals
  unscanned,        \* blocks the loop of getLatestQuorumBlock has not reached
  mostRecent,       \* its result so far
  resultBackers,    \* history: who observed a result this round
  blockBackers      \* history: who observed a block this round

counts == <<observers, resultCount, recentBlocks, allNewProposals>>
backers == <<resultBackers, blockBackers>>
vars == <<outcome, phase, counts, unscanned, mostRecent, backers>>

-----------------------------------------------------------------------------
(* Validation of what other oracles sent.                                  *)

\* No two entries of a list (or of a round) are for the same work.
DistinctWork(list) ==
  \A i, j \in DOMAIN list : list[i].workID = list[j].workID => i = j

\* How many entries of a list satisfy the membership in S.
CountIn(list, S) == Cardinality({i \in DOMAIN list : list[i].workID \in S})

validateAutomationObservation(ao) ==
  /\ Len(ao.blockHistory) <= ObservationBlockHistoryLimit
  /\ \A i, j \in DOMAIN ao.blockHistory :
       ao.blockHistory[i].number = ao.blockHistory[j].number => i = j
  /\ Len(ao.performable) <= ObservationPerformablesLimit
  /\ \A i \in DOMAIN ao.performable : ao.performable[i].valid
  /\ DistinctWork(ao.performable)
  /\ Len(ao.upkeepProposals) <= ObservationConditionalsProposalsLimit
                                  + ObservationLogRecoveryProposalsLimit
  /\ \A i \in DOMAIN ao.upkeepProposals : ao.upkeepProposals[i].valid
  /\ DistinctWork(ao.upkeepProposals)
  /\ CountIn(ao.upkeepProposals, WorkID \ LogTriggered)
       <= ObservationConditionalsProposalsLimit
  /\ CountIn(ao.upkeepProposals, LogTriggered)
       <= ObservationLogRecoveryProposalsLimit

(* A round of surfaced proposals is a function from slots to proposals:    *)
(* a proposal that is dropped later leaves its slot empty.                 *)
validateAutomationOutcome(o) ==
  /\ Len(o.agreedPerformables) <= OutcomeAgreedPerformablesLimit
  /\ \A i \in DOMAIN o.agreedPerformables : o.agreedPerformables[i].valid
  /\ DistinctWork(o.agreedPerformables)
  /\ Len(o.surfacedProposals) <= OutcomeSurfacedProposalsRoundHistoryLimit
  /\ \A k \in DOMAIN o.surfacedProposals :
       LET round == o.surfacedProposals[k]
       IN /\ Cardinality(DOMAIN round) <= OutcomeSurfacedProposalsLimit
          /\ \A i \in DOMAIN round : round[i].valid
          /\ \A l \in DOMAIN o.surfacedProposals :
               \A i \in DOMAIN round, j \in DOMAIN o.surfacedProposals[l] :
                 round[i].workID = o.surfacedProposals[l][j].workID
                   => k = l /\ i = j

-----------------------------------------------------------------------------
(* Counting the observations of a round.                                   *)

Occurrences(list, x) == Cardinality({i \in DOMAIN list : list[i] = x})

zeroBlock == [number |-> 0, hash |-> 0]

Init ==
  /\ outcome = [agreedPerformables |-> <<>>, surfacedProposals |-> <<>>]
  /\ phase = "observe"
  /\ observers = {}
  /\ resultCount = [r \in CheckResult |-> 0]
  /\ recentBlocks = [b \in BlockKey |-> 0]
  /\ allNewProposals = {}
  /\ unscanned = {}
  /\ mostRecent = zeroBlock
  /\ resultBackers = [r \in CheckResult |-> {}]
  /\ blockBackers = [b \in BlockKey |-> {}]

\* p.add(observation)
performablesAdd(o, ao) ==
  /\ resultCount' = [r \in CheckResult |->
                       resultCount[r] + Occurrences(ao.performable, r)]
  /\ resultBackers' = [r \in CheckResult |->
                         IF \E i \in DOMAIN ao.performable : ao.performable[i] = r
                         THEN resultBackers[r] \cup {o} ELSE resultBackers[r]]

\* c.add(observation)
coordinatedBlockProposalsAdd(o, ao) ==
  /\ allNewProposals' = allNewProposals \cup
       {[observer |-> o, workID |-> ao.upkeepProposals[i].workID,
         valid |-> ao.upkeepProposals[i].valid] :
          i \in DOMAIN ao.upkeepProposals}
  /\ recentBlocks' = [b \in BlockKey |->
                        recentBlocks[b] + Occurrences(ao.blockHistory, b)]
  /\ blockBackers' = [b \in BlockKey |->
                        IF \E i \in DOMAIN ao.blockHistory : ao.blockHistory[i] = b
                        THEN blockBackers[b] \cup {o} ELSE blockBackers[b]]

\* A correct oracle reports blocks of its chain, which have a hash.
CanSend(o, ao) ==
  o \notin Faulty => \A i \in DOMAIN ao.blockHistory : ao.blockHistory[i].hash # 0

\* One iteration of the loop over the attributed observations: an observation
\* that does not decode to a valid one is skipped.
AddObservation(o, ao) ==
  /\ phase = "observe"
  /\ o \notin observers
  /\ CanSend(o, ao)
  /\ observers' = observers \cup {o}
  /\ IF validateAutomationObservation(ao)
     THEN performablesAdd(o, ao) /\ coordinatedBlockProposalsAdd(o, ao)
     ELSE UNCHANGED <<resultCount, recentBlocks, allNewProposals, backers>>
  /\ UNCHANGED <<outcome, phase, unscanned, mostRecent>>

\* ObservationQuorum: libocr hands over the observations of 2F+1 oracles or more.
FinishObservations ==
  /\ phase = "observe"
  /\ Cardinality(observers) >= 2 * F + 1
  /\ phase' = "scan"
  /\ unscanned' = {b \in BlockKey : recentBlocks[b] > 0}
  /\ mostRecent' = zeroBlock
  /\ UNCHANGED <<outcome, counts, backers>>

-----------------------------------------------------------------------------
(* getLatestQuorumBlock.                                                   *)

\* Mutant: the threshold is F.
quorumThresholdLow == F

quorumThreshold == F + 1

\* Mutant: blocks of a fork are not ordered by their hash.
LaterByNumber(b, c) == b.number > c.number

Later(b, c) == \/ b.number > c.number
               \/ b.number = c.number /\ b.hash > c.hash

\* One iteration of the loop over the map recentBlocks, whose order Go leaves open.
ScanBlock(b) ==
  /\ phase = "scan"
  /\ unscanned' = unscanned \ {b}
  /\ mostRecent' = IF /\ recentBlocks[b] >= quorumThreshold
                      /\ mostRecent.hash = 0 \/ Later(b, mostRecent)
                   THEN b ELSE mostRecent
  /\ UNCHANGED <<outcome, phase, counts, backers>>

FinishScan ==
  /\ phase = "scan"
  /\ unscanned = {}
  /\ phase' = "set"
  /\ UNCHANGED <<outcome, counts, unscanned, mostRecent, backers>>

-----------------------------------------------------------------------------
(* Building the outcome.                                                   *)

\* The orders sort.Slice may leave the elements of S in when it sorts them by
\* their shuffled work ID.
ShuffleSorted(S, shuffled) ==
  {s \in Bijection(1..Cardinality(S), S) :
     \A i, j \in DOMAIN s : i < j => shuffled[s[i].workID] <= shuffled[s[j].workID]}

AtMost(list, limit) == IF Len(list) > limit THEN SubSeq(list, 1, limit) ELSE list

\* The results with a quorum, one for each work ID: the first in the order of
\* the unique IDs.
Agreed ==
  {r \in CheckResult :
     /\ resultCount[r] >= quorumThreshold
     /\ \A q \in CheckResult :
          q.workID = r.workID /\ resultCount[q] >= quorumThreshold
            => UniqueID[r] <= UniqueID[q]}

performablesSet(shuffled) ==
  {AtMost(s, OutcomeAgreedPerformablesLimit) : s \in ShuffleSorted(Agreed, shuffled)}

performableExists(performables, p) ==
  \E i \in DOMAIN performables : performables[i].workID = p.workID

proposalExists(existing, p) ==
  \E k \in DOMAIN existing :
    \E i \in DOMAIN existing[k] : existing[k][i].workID = p.workID

\* Mutant: proposals that became performables stay.
CarriedOverAll(performables) == outcome.surfacedProposals

\* The previous rounds without the proposals that became performables.
CarriedOver(performables) ==
  [k \in DOMAIN outcome.surfacedProposals |->
     LET round == outcome.surfacedProposals[k]
     IN Restrict(round, {i \in DOMAIN round : ~performableExists(performables, round[i])})]

\* Mutant: proposals of earlier rounds are surfaced again.
SurfacedAgain(history, performables) ==
  {p \in allNewProposals :
     /\ ~performableExists(performables, p)
     /\ \A q \in allNewProposals : q.workID = p.workID => p.observer <= q.observer}

\* The proposals of this round that are surfaced: new, not being performed,
\* and the first with their work ID.
Surfaced(history, performables) ==
  {p \in allNewProposals :
     /\ ~proposalExists(history, p)
     /\ ~performableExists(performables, p)
     /\ \A q \in allNewProposals : q.workID = p.workID => p.observer <= q.observer}

Coordinate(p) == [workID |-> p.workID, valid |-> p.valid, block |-> mostRecent]

\* Mutant: the newest round is put last.
PrependLast(latest, history) == Append(history, latest)

Prepend(latest, history) == <<latest>> \o history

\* The values coordinatedBlockProposals.set may give to SurfacedProposals.
coordinatedBlockProposalsSet(performables, shuffled) ==
  LET carried == CarriedOver(performables)
      history == AtMost(carried, OutcomeSurfacedProposalsRoundHistoryLimit - 1)
  IN IF mostRecent.hash = 0
     THEN {carried}
     ELSE {Prepend([i \in DOMAIN AtMost(s, OutcomeSurfacedProposalsLimit) |->
                      Coordinate(s[i])], history) :
             s \in ShuffleSorted(Surfaced(history, performables), shuffled)}

\* The shuffle is seeded with the config digest and the sequence number: it is
\* the same permutation of the work IDs for both sorts and for every oracle.
SetOutcome ==
  /\ phase = "set"
  /\ validateAutomationOutcome(outcome)
  /\ \E shuffled \in Injection(WorkID, 1..Cardinality(WorkID)) :
       \E performables \in performablesSet(shuffled) :
         \E proposals \in coordinatedBlockProposalsSet(performables, shuffled) :
           outcome' = [agreedPerformables |-> performables,
                       surfacedProposals |-> proposals]
  /\ phase' = "done"
  /\ UNCHANGED <<counts, unscanned, mostRecent, backers>>

\* The next round starts with fresh performables and coordinatedBlockProposals.
NextRound ==
  /\ phase = "done"
  /\ phase' = "observe"
  /\ observers' = {}
  /\ resultCount' = [r \in CheckResult |-> 0]
  /\ recentBlocks' = [b \in BlockKey |-> 0]
  /\ allNewProposals' = {}
  /\ unscanned' = {}
  /\ mostRecent' = zeroBlock
  /\ resultBackers' = [r \in CheckResult |-> {}]
  /\ blockBackers' = [b \in BlockKey |-> {}]
  /\ UNCHANGED outcome

Next ==
  \/ \E o \in Oracle, ao \in Observation : AddObservation(o, ao)
  \/ FinishObservations
  \/ \E b \in unscanned : ScanBlock(b)
  \/ FinishScan
  \/ SetOutcome
  \/ NextRound

Spec == Init /\ [][Next]_vars

-----------------------------------------------------------------------------
(* Properties.                                                             *)

Round == UNION {[S -> Coordinated] : S \in SUBSET (1..OutcomeSurfacedProposalsLimit)}

TypeOK ==
  /\ outcome.agreedPerformables \in Seq(CheckResult)
  /\ outcome.surfacedProposals \in Seq(Round)
  /\ phase \in {"observe", "scan", "set", "done"}
  /\ observers \subseteq Oracle
  /\ resultCount \in [CheckResult -> Nat]
  /\ recentBlocks \in [BlockKey -> Nat]
  /\ allNewProposals \subseteq [observer : Oracle, workID : WorkID, valid : BOOLEAN]
  /\ unscanned \subseteq BlockKey
  /\ mostRecent \in BlockKey \cup {zeroBlock}
  /\ resultBackers \in [CheckResult -> SUBSET Oracle]
  /\ blockBackers \in [BlockKey -> SUBSET Oracle]

\* Every outcome the plugin produces passes the validation that decodes it as
\* the previous outcome in the next round (DecodeAutomationOutcome in Outcome,
\* Observation and Reports): otherwise no later round could make progress.
OutcomeDecodes == validateAutomationOutcome(outcome)

\* A result agreed in a round was observed in that round by a correct oracle,
\* and so was the block of a newly surfaced proposal, whatever the faulty
\* oracles sent (the quorum of F+1 and the duplicate checks of the validation).
AgreementBacked ==
  phase = "done" =>
    /\ \A i \in DOMAIN outcome.agreedPerformables :
         resultBackers[outcome.agreedPerformables[i]] \ Faulty # {}
    /\ mostRecent.hash # 0 => blockBackers[mostRecent] \ Faulty # {}

\* getLatestQuorumBlock finds the greatest block with a quorum whatever the
\* iteration order of the map, so all correct oracles compute one outcome.
QuorumBlockIsLatest ==
  phase \in {"set", "done"} =>
    LET quorum == {b \in BlockKey : recentBlocks[b] >= quorumThreshold}
    IN /\ mostRecent.hash = 0 <=> quorum = {}
       /\ mostRecent.hash # 0 => mostRecent \in quorum
       /\ \A b \in quorum : b = mostRecent \/ Later(mostRecent, b)

\* No work is both performed and proposed in one outcome ("Performables should
\* be set before creating new proposals", ocr3.go).
PerformedNotProposed ==
  \A i \in DOMAIN outcome.agreedPerformables :
    ~proposalExists(outcome.surfacedProposals, outcome.agreedPerformables[i])

\* A surfaced proposal is not tied to a new block while it is in the history: a
\* round moves its proposals one place back or, without a quorum block, leaves
\* them in place, drops only the ones being performed, and loses a round only
\* when the history is full.
HistoryKept ==
  [][outcome' # outcome =>
       \A k \in DOMAIN outcome.surfacedProposals :
         LET round == outcome.surfacedProposals[k]
             l == IF mostRecent.hash = 0 THEN k ELSE k + 1
         IN \/ l > OutcomeSurfacedProposalsRoundHistoryLimit
            \/ \A i \in DOMAIN round :
                 \/ performableExists(outcome'.agreedPerformables, round[i])
                 \/ /\ l \in DOMAIN outcome'.surfacedProposals
                    /\ i \in DOMAIN outcome'.surfacedProposals[l]
                    /\ outcome'.surfacedProposals[l][i] = round[i]]_vars

=============================================================================
