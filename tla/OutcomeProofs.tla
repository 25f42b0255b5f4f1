---------------------------- MODULE OutcomeProofs ----------------------------
(* Proofs of the properties of Outcome, for every number of oracles, every  *)
(* set of work IDs and every limit.                                         *)
EXTENDS Outcome, FiniteSetTheorems, TLAPS

(***************************************************************************)
(* The inductive invariant: the counters count the oracles that observed   *)
(* an item, only faulty oracles observe a zero hash, proposals come from   *)
(* valid observations, and the scan has found the latest of the blocks     *)
(* with a quorum it has visited.                                           *)
(***************************************************************************)
Counted ==
  /\ \A r \in CheckResult : /\ resultBackers[r] \subseteq observers
                            /\ resultCount[r] = Cardinality(resultBackers[r])
                            /\ resultCount[r] > 0 => r.valid
  /\ \A b \in BlockKey : /\ blockBackers[b] \subseteq observers
                         /\ recentBlocks[b] = Cardinality(blockBackers[b])
                         /\ b.hash = 0 => blockBackers[b] \subseteq Faulty

ProposalsValid ==
  \A p \in allNewProposals :
    /\ p.valid
    /\ p.observer \in observers
    /\ \A q \in allNewProposals : p.observer = q.observer /\ p.workID = q.workID => p = q

ScanInv ==
  phase # "observe" =>
    /\ \/ mostRecent = zeroBlock
       \/ mostRecent \in BlockKey /\ recentBlocks[mostRecent] >= quorumThreshold
    /\ \A b \in BlockKey \ unscanned :
         recentBlocks[b] >= quorumThreshold => b = mostRecent \/ Later(mostRecent, b)
    /\ phase \in {"set", "done"} => unscanned = {}

AgreedBacked ==
  phase = "done" => \A i \in DOMAIN outcome.agreedPerformables :
                      resultCount[outcome.agreedPerformables[i]] >= quorumThreshold

IInv ==
  /\ TypeOK
  /\ OutcomeDecodes
  /\ PerformedNotProposed
  /\ Counted
  /\ ProposalsValid
  /\ ScanInv
  /\ AgreedBacked

-----------------------------------------------------------------------------
(* Facts about the operators of the model.                                  *)

\* An item that a list holds at most once is counted once or not at all
\* (the map updates of performables.add and coordinatedBlockProposals.add).
LEMMA OccurrencesOnce ==
  ASSUME NEW list, NEW x,
         \A i, j \in DOMAIN list : list[i] = x /\ list[j] = x => i = j
  PROVE  Occurrences(list, x) = IF \E i \in DOMAIN list : list[i] = x THEN 1 ELSE 0
<1> DEFINE I == {i \in DOMAIN list : list[i] = x}
<1>1. CASE \E i \in DOMAIN list : list[i] = x
  <2>1. PICK k \in DOMAIN list : list[k] = x
    BY <1>1
  <2>2. I = {k}
    BY <2>1
  <2>3. Cardinality(I) = 1
    BY <2>2, FS_Singleton
  <2> QED BY <1>1, <2>3 DEF Occurrences
<1>2. CASE ~\E i \in DOMAIN list : list[i] = x
  <2>1. I = {}
    BY <1>2
  <2> QED BY <1>2, <2>1, FS_EmptySet DEF Occurrences
<1> QED BY <1>1, <1>2

\* Adding an oracle that was not counted before adds one to a cardinality.
LEMMA CountOne ==
  ASSUME NEW T, NEW S \in SUBSET T, IsFiniteSet(T), NEW x, x \notin S
  PROVE  Cardinality(S \cup {x}) = Cardinality(S) + 1 /\ Cardinality(S) \in Nat
BY FS_Subset, FS_AddElement, FS_CardinalityType

\* Truncating a list keeps a prefix of it (the slice expressions [:limit]).
LEMMA AtMostPrefix ==
  ASSUME NEW S, NEW list \in Seq(S), NEW limit \in Nat
  PROVE  /\ AtMost(list, limit) \in Seq(S)
         /\ Len(AtMost(list, limit)) <= limit
         /\ Len(AtMost(list, limit)) <= Len(list)
         /\ Len(list) <= limit => AtMost(list, limit) = list
         /\ Len(list) > limit => Len(AtMost(list, limit)) = limit
         /\ DOMAIN AtMost(list, limit) = 1..Len(AtMost(list, limit))
         /\ \A i \in DOMAIN AtMost(list, limit) : /\ i \in DOMAIN list
                                                  /\ AtMost(list, limit)[i] = list[i]
BY DEF AtMost

\* Sorting neither loses, invents nor repeats an element.
LEMMA SortedIsInjective ==
  ASSUME NEW S, IsFiniteSet(S), NEW shuffled, NEW s \in ShuffleSorted(S, shuffled)
  PROVE  /\ s \in Seq(S)
         /\ \A i, j \in DOMAIN s : s[i] = s[j] => i = j
<1>1. Cardinality(S) \in Nat
  BY FS_CardinalityType
<1>2. s \in [1..Cardinality(S) -> S] /\ \A i, j \in 1..Cardinality(S) : s[i] = s[j] => i = j
  BY DEF ShuffleSorted, Bijection, Injection, IsInjective
<1> QED BY <1>1, <1>2

\* A zero hash never reaches the quorum of F+1: only faulty oracles report it.
LEMMA ZeroHashNoQuorum ==
  ASSUME TypeOK, Counted, NEW b \in BlockKey, recentBlocks[b] >= quorumThreshold
  PROVE  b.hash # 0
<1> SUFFICES ASSUME b.hash = 0 PROVE FALSE
  OBVIOUS
<1>1. blockBackers[b] \subseteq Faulty /\ recentBlocks[b] = Cardinality(blockBackers[b])
  BY DEF Counted
<1>2. IsFiniteSet(Faulty)
  BY OracleAssumption, FS_Subset
<1>3. Cardinality(blockBackers[b]) <= Cardinality(Faulty) /\ Cardinality(blockBackers[b]) \in Nat
       /\ Cardinality(Faulty) \in Nat
  BY <1>1, <1>2, FS_Subset, FS_CardinalityType
<1> QED BY <1>1, <1>3, OracleAssumption DEF quorumThreshold

-----------------------------------------------------------------------------
(* Every action preserves the invariant.                                    *)

LEMMA InitIInv == Init => IInv
<1> SUFFICES ASSUME Init PROVE IInv
  OBVIOUS
<1>1. TypeOK
  BY DEF Init, TypeOK
<1>2. OutcomeDecodes /\ PerformedNotProposed
  BY LimitAssumption DEF Init, OutcomeDecodes, validateAutomationOutcome, DistinctWork,
     PerformedNotProposed
<1>3. Counted
  BY FS_EmptySet DEF Init, Counted
<1>4. ProposalsValid /\ ScanInv /\ AgreedBacked
  BY DEF Init, ProposalsValid, ScanInv, AgreedBacked
<1> QED BY <1>1, <1>2, <1>3, <1>4 DEF IInv

LEMMA AddPreserves ==
  ASSUME IInv, NEW o \in Oracle, NEW ao \in Observation, AddObservation(o, ao)
  PROVE  IInv'
<1> USE DEF IInv
<1>0. CASE ~validateAutomationObservation(ao)
  <2>1. UNCHANGED <<outcome, phase, resultCount, recentBlocks, allNewProposals, unscanned,
                    mostRecent, resultBackers, blockBackers>>
        /\ observers' = observers \cup {o} /\ phase = "observe"
    BY <1>0 DEF AddObservation, backers
  <2>2. TypeOK' BY <2>1 DEF TypeOK
  <2>3. OutcomeDecodes' /\ PerformedNotProposed'
    BY <2>1 DEF OutcomeDecodes, PerformedNotProposed
  <2>4. Counted' BY <2>1 DEF Counted
  <2>5. ProposalsValid' BY <2>1 DEF ProposalsValid
  <2>6. ScanInv' /\ AgreedBacked' BY <2>1 DEF ScanInv, AgreedBacked
  <2> QED BY <2>2, <2>3, <2>4, <2>5, <2>6
<1>1. CASE validateAutomationObservation(ao)
  <2>1. /\ UNCHANGED <<outcome, phase, unscanned, mostRecent>>
        /\ observers' = observers \cup {o} /\ phase = "observe" /\ o \notin observers
        /\ performablesAdd(o, ao) /\ coordinatedBlockProposalsAdd(o, ao) /\ CanSend(o, ao)
    BY <1>1 DEF AddObservation
  <2>2. /\ ao.performable \in Seq(CheckResult) /\ ao.upkeepProposals \in Seq(Proposal)
        /\ ao.blockHistory \in Seq(BlockKey)
    BY DataAssumption
  <2>3. /\ \A r \in CheckResult : \A i, j \in DOMAIN ao.performable :
             ao.performable[i] = r /\ ao.performable[j] = r => i = j
        /\ \A b \in BlockKey : \A i, j \in DOMAIN ao.blockHistory :
             ao.blockHistory[i] = b /\ ao.blockHistory[j] = b => i = j
    BY <1>1 DEF validateAutomationObservation, DistinctWork
  <2>4. ASSUME NEW r \in CheckResult
        PROVE  /\ resultBackers'[r] \subseteq observers'
               /\ resultCount'[r] \in Nat
               /\ resultCount'[r] = Cardinality(resultBackers'[r])
               /\ resultCount'[r] > 0 => r.valid
    <3>1. /\ resultBackers[r] \subseteq observers /\ observers \subseteq Oracle
          /\ resultCount[r] = Cardinality(resultBackers[r])
          /\ resultCount[r] > 0 => r.valid
      BY DEF TypeOK, Counted
    <3>2. /\ resultCount'[r] = resultCount[r] + Occurrences(ao.performable, r)
          /\ resultBackers'[r] = IF \E i \in DOMAIN ao.performable : ao.performable[i] = r
                                 THEN resultBackers[r] \cup {o} ELSE resultBackers[r]
      BY <2>1 DEF performablesAdd
    <3>3. /\ Cardinality(resultBackers[r]) + Occurrences(ao.performable, r)
               = Cardinality(resultBackers'[r])
          /\ Cardinality(resultBackers[r]) \in Nat
          /\ Occurrences(ao.performable, r) \in Nat
      <4>1. Occurrences(ao.performable, r) =
              IF \E i \in DOMAIN ao.performable : ao.performable[i] = r THEN 1 ELSE 0
        BY <2>3, OccurrencesOnce
      <4>2. Cardinality(resultBackers[r] \cup {o}) = Cardinality(resultBackers[r]) + 1 /\ Cardinality(resultBackers[r]) \in Nat
        BY <3>1, <2>1, OracleAssumption, CountOne
      <4> QED BY <4>1, <4>2, <3>2
    <3>4. Occurrences(ao.performable, r) > 0 => r.valid
      BY <2>2, <2>3, <1>1, OccurrencesOnce DEF validateAutomationObservation
    <3> QED BY <3>1, <3>2, <3>3, <3>4, <2>1
  <2>5. ASSUME NEW b \in BlockKey
        PROVE  /\ blockBackers'[b] \subseteq observers'
               /\ recentBlocks'[b] \in Nat
               /\ recentBlocks'[b] = Cardinality(blockBackers'[b])
               /\ b.hash = 0 => blockBackers'[b] \subseteq Faulty
    <3>1. /\ blockBackers[b] \subseteq observers /\ observers \subseteq Oracle
          /\ recentBlocks[b] = Cardinality(blockBackers[b])
          /\ b.hash = 0 => blockBackers[b] \subseteq Faulty
      BY DEF TypeOK, Counted
    <3>2. /\ recentBlocks'[b] = recentBlocks[b] + Occurrences(ao.blockHistory, b)
          /\ blockBackers'[b] = IF \E i \in DOMAIN ao.blockHistory : ao.blockHistory[i] = b
                                THEN blockBackers[b] \cup {o} ELSE blockBackers[b]
      BY <2>1 DEF coordinatedBlockProposalsAdd
    <3>3. /\ Cardinality(blockBackers[b]) + Occurrences(ao.blockHistory, b)
               = Cardinality(blockBackers'[b])
          /\ Cardinality(blockBackers[b]) \in Nat
          /\ Occurrences(ao.blockHistory, b) \in Nat
      <4>1. Occurrences(ao.blockHistory, b) =
              IF \E i \in DOMAIN ao.blockHistory : ao.blockHistory[i] = b THEN 1 ELSE 0
        BY <2>3, OccurrencesOnce
      <4>2. Cardinality(blockBackers[b] \cup {o}) = Cardinality(blockBackers[b]) + 1 /\ Cardinality(blockBackers[b]) \in Nat
        BY <3>1, <2>1, OracleAssumption, CountOne
      <4> QED BY <4>1, <4>2, <3>2
    <3>4. b.hash = 0 /\ (\E i \in DOMAIN ao.blockHistory : ao.blockHistory[i] = b) => o \in Faulty
      BY <2>1 DEF CanSend
    <3> QED BY <3>1, <3>2, <3>3, <3>4, <2>1
  <2>6. ASSUME NEW p \in allNewProposals'
        PROVE  /\ p \in [observer : Oracle, workID : WorkID, valid : BOOLEAN]
               /\ p.valid /\ p.observer \in observers'
               /\ \A q \in allNewProposals' : p.observer = q.observer /\ p.workID = q.workID => p = q
    <3> DEFINE New == {[observer |-> o, workID |-> ao.upkeepProposals[i].workID,
                        valid |-> ao.upkeepProposals[i].valid] : i \in DOMAIN ao.upkeepProposals}
    <3>1. allNewProposals' = allNewProposals \cup New
      BY <2>1 DEF coordinatedBlockProposalsAdd
    <3>2. \A q \in New : /\ q \in [observer : Oracle, workID : WorkID, valid : BOOLEAN]
                         /\ q.valid /\ q.observer = o
      <4>1. \A i \in DOMAIN ao.upkeepProposals :
              /\ ao.upkeepProposals[i].workID \in WorkID
              /\ ao.upkeepProposals[i].valid \in BOOLEAN
        <5>1. \A i \in DOMAIN ao.upkeepProposals : ao.upkeepProposals[i] \in Proposal
          BY <2>2
        <5> QED BY <5>1 DEF Proposal
      <4>2. \A i \in DOMAIN ao.upkeepProposals : ao.upkeepProposals[i].valid
        BY <1>1 DEF validateAutomationObservation
      <4> QED BY <4>1, <4>2
    <3>3. \A q \in allNewProposals : /\ q \in [observer : Oracle, workID : WorkID, valid : BOOLEAN]
                                     /\ q.valid /\ q.observer \in observers
      BY DEF TypeOK, ProposalsValid
    <3>4. \A q1, q2 \in New : q1.workID = q2.workID => q1 = q2
      BY <1>1, <2>2 DEF validateAutomationObservation, DistinctWork
    <3>5. \A q1, q2 \in allNewProposals : q1.observer = q2.observer /\ q1.workID = q2.workID => q1 = q2
      BY DEF ProposalsValid
    <3> QED BY <3>1, <3>2, <3>3, <3>4, <3>5, <2>1
  <2>7. TypeOK'
    <3>1. resultCount' \in [CheckResult -> Nat] /\ resultBackers' \in [CheckResult -> SUBSET Oracle]
      <4>1. /\ resultCount' = [r \in CheckResult |-> resultCount'[r]]
            /\ resultBackers' = [r \in CheckResult |-> resultBackers'[r]]
        BY <2>1 DEF performablesAdd
      <4>2. observers' \subseteq Oracle
        BY <2>1 DEF TypeOK
      <4>3. \A r \in CheckResult : resultCount'[r] \in Nat /\ resultBackers'[r] \in SUBSET Oracle
        BY <2>4, <4>2
      <4> QED BY <4>1, <4>3
    <3>2. recentBlocks' \in [BlockKey -> Nat] /\ blockBackers' \in [BlockKey -> SUBSET Oracle]
      <4>1. /\ recentBlocks' = [b \in BlockKey |-> recentBlocks'[b]]
            /\ blockBackers' = [b \in BlockKey |-> blockBackers'[b]]
        BY <2>1 DEF coordinatedBlockProposalsAdd
      <4>2. observers' \subseteq Oracle
        BY <2>1 DEF TypeOK
      <4>3. \A b \in BlockKey : recentBlocks'[b] \in Nat /\ blockBackers'[b] \in SUBSET Oracle
        BY <2>5, <4>2
      <4> QED BY <4>1, <4>3
    <3> QED BY <3>1, <3>2, <2>1, <2>6 DEF TypeOK
  <2>8. OutcomeDecodes' /\ PerformedNotProposed'
    BY <2>1 DEF OutcomeDecodes, PerformedNotProposed
  <2>9. Counted' BY <2>4, <2>5 DEF Counted
  <2>10. ProposalsValid' BY <2>6 DEF ProposalsValid
  <2>11. ScanInv' /\ AgreedBacked' BY <2>1 DEF ScanInv, AgreedBacked
  <2> QED BY <2>7, <2>8, <2>9, <2>10, <2>11
<1> QED BY <1>0, <1>1

LEMMA FinishObservationsPreserves ==
  ASSUME IInv, FinishObservations
  PROVE  IInv'
<1> USE DEF IInv, FinishObservations, counts, backers
<1>1. TypeOK' BY DEF TypeOK
<1>2. OutcomeDecodes' /\ PerformedNotProposed' BY DEF OutcomeDecodes, PerformedNotProposed
<1>3. Counted' BY DEF Counted
<1>4. ProposalsValid' BY DEF ProposalsValid
<1>5. ScanInv'
  <2>1. \A b \in BlockKey : recentBlocks[b] >= quorumThreshold => recentBlocks[b] > 0
    BY OracleAssumption DEF TypeOK, quorumThreshold
  <2> QED BY <2>1 DEF ScanInv, quorumThreshold
<1>6. AgreedBacked' BY DEF AgreedBacked
<1> QED BY <1>1, <1>2, <1>3, <1>4, <1>5, <1>6

LEMMA ScanBlockPreserves ==
  ASSUME IInv, NEW b \in unscanned, ScanBlock(b)
  PROVE  IInv'
<1> USE DEF IInv
<1>0. /\ UNCHANGED <<outcome, phase, observers, resultCount, recentBlocks, allNewProposals,
                     resultBackers, blockBackers>>
      /\ phase = "scan" /\ unscanned' = unscanned \ {b} /\ b \in BlockKey
      /\ mostRecent' \in {b, mostRecent}
  BY DEF ScanBlock, counts, backers, TypeOK
<1>1. TypeOK' BY <1>0 DEF TypeOK
<1>2. OutcomeDecodes' /\ PerformedNotProposed' BY <1>0 DEF OutcomeDecodes, PerformedNotProposed
<1>3. Counted' BY <1>0 DEF Counted
<1>4. ProposalsValid' BY <1>0 DEF ProposalsValid
<1>5. ScanInv'
  <2> DEFINE Q(c) == recentBlocks[c] >= quorumThreshold
  <2>1. \A c \in BlockKey : c.number \in Nat /\ c.hash \in Nat
    BY DataAssumption DEF BlockKey
  <2>2. \A c \in BlockKey : Q(c) => c.hash # 0
    BY ZeroHashNoQuorum
  <2>3. /\ mostRecent = zeroBlock \/ (mostRecent \in BlockKey /\ Q(mostRecent))
        /\ \A c \in BlockKey \ unscanned : Q(c) => c = mostRecent \/ Later(mostRecent, c)
    BY <1>0 DEF ScanInv
  <2>4. CASE Q(b) /\ (mostRecent.hash = 0 \/ Later(b, mostRecent))
    <3>1. mostRecent' = b
      BY <2>4 DEF ScanBlock
    <3>2. ASSUME NEW c \in BlockKey \ unscanned, Q(c) PROVE c = b \/ Later(b, c)
      <4>1. CASE mostRecent = zeroBlock
        <5>1. ~Later(zeroBlock, c) /\ c # zeroBlock
          BY <2>1, <2>2, <3>2 DEF Later, zeroBlock
        <5> QED BY <4>1, <5>1, <2>3, <3>2
      <4>2. CASE mostRecent \in BlockKey /\ Q(mostRecent)
        <5>1. Later(b, mostRecent)
          BY <4>2, <2>4, <2>2
        <5>2. c = mostRecent \/ Later(mostRecent, c)
          BY <2>3, <3>2
        <5> QED BY <5>1, <5>2, <4>2, <2>1, <1>0 DEF Later
      <4> QED BY <4>1, <4>2, <2>3
    <3> QED BY <3>1, <3>2, <2>4, <1>0 DEF ScanInv, quorumThreshold
  <2>5. CASE ~(Q(b) /\ (mostRecent.hash = 0 \/ Later(b, mostRecent)))
    <3>1. mostRecent' = mostRecent
      BY <2>5 DEF ScanBlock
    <3>2. Q(b) => b = mostRecent \/ Later(mostRecent, b)
      <4> SUFFICES ASSUME Q(b) PROVE b = mostRecent \/ Later(mostRecent, b)
        OBVIOUS
      <4>1. mostRecent \in BlockKey
        BY <2>5, <2>3 DEF zeroBlock
      <4>2. ~Later(b, mostRecent)
        BY <2>5
      <4>3. b.number = mostRecent.number /\ b.hash = mostRecent.hash => b = mostRecent
        BY <4>1, <1>0 DEF BlockKey
      <4> QED BY <4>1, <4>2, <4>3, <1>0, <2>1 DEF Later
    <3> QED BY <3>1, <3>2, <2>3, <1>0 DEF ScanInv, quorumThreshold
  <2> QED BY <2>4, <2>5
<1>6. AgreedBacked' BY <1>0 DEF AgreedBacked
<1> QED BY <1>1, <1>2, <1>3, <1>4, <1>5, <1>6

LEMMA FinishScanPreserves ==
  ASSUME IInv, FinishScan
  PROVE  IInv'
<1> USE DEF IInv, FinishScan, counts, backers
<1>1. TypeOK' BY DEF TypeOK
<1>2. OutcomeDecodes' /\ PerformedNotProposed' BY DEF OutcomeDecodes, PerformedNotProposed
<1>3. Counted' BY DEF Counted
<1>4. ProposalsValid' BY DEF ProposalsValid
<1>5. ScanInv' BY DEF ScanInv, quorumThreshold
<1>6. AgreedBacked' BY DEF AgreedBacked
<1> QED BY <1>1, <1>2, <1>3, <1>4, <1>5, <1>6

LEMMA NextRoundPreserves ==
  ASSUME IInv, NextRound
  PROVE  IInv'
<1> USE DEF IInv, NextRound
<1>1. TypeOK' BY DEF TypeOK
<1>2. OutcomeDecodes' /\ PerformedNotProposed' BY DEF OutcomeDecodes, PerformedNotProposed
<1>3. Counted' BY FS_EmptySet DEF Counted
<1>4. ProposalsValid' /\ ScanInv' /\ AgreedBacked' BY DEF ProposalsValid, ScanInv, AgreedBacked
<1> QED BY <1>1, <1>2, <1>3, <1>4

-----------------------------------------------------------------------------
(* Building the outcome.                                                    *)

LEMMA BooleanFinite == IsFiniteSet(BOOLEAN)
<1>1. ASSUME NEW a, NEW b PROVE IsFiniteSet({a, b})
  <2>1. IsFiniteSet({a}) /\ IsFiniteSet({b}) /\ {a, b} = {a} \cup {b}
    BY FS_Singleton
  <2> QED BY <2>1, FS_Union
<1>2. IsFiniteSet({TRUE, FALSE})
  BY <1>1, Zenon
<1>3. BOOLEAN = {TRUE, FALSE}
  OBVIOUS
<1> QED BY <1>2, <1>3, Zenon

LEMMA CheckResultFinite == IsFiniteSet(CheckResult)
<1> DEFINE T == (WorkID \X Data) \X BOOLEAN
           f == [r \in CheckResult |-> <<<<r.workID, r.data>>, r.valid>>]
<1>1. IsFiniteSet(BOOLEAN)
  BY BooleanFinite
<1>2. IsFiniteSet(T)
  BY <1>1, DataAssumption, FS_Product
<1>3. f \in [CheckResult -> T]
  BY DEF CheckResult
<1>4. \A q, r \in CheckResult : f[q] = f[r] => q = r
  BY DEF CheckResult
<1>5. f \in Injection(CheckResult, T)
  BY <1>3, <1>4 DEF Injection, IsInjective
<1> QED BY <1>2, <1>5, FS_Injection

LEMMA NewProposalsFinite == ASSUME TypeOK PROVE IsFiniteSet(allNewProposals)
<1> DEFINE P == [observer : Oracle, workID : WorkID, valid : BOOLEAN]
           T == (Oracle \X WorkID) \X BOOLEAN
           f == [p \in P |-> <<<<p.observer, p.workID>>, p.valid>>]
<1>1. IsFiniteSet(BOOLEAN)
  BY BooleanFinite
<1>2. IsFiniteSet(T)
  BY <1>1, DataAssumption, OracleAssumption, FS_Product
<1>3. f \in [P -> T] /\ \A p, q \in P : f[p] = f[q] => p = q
  OBVIOUS
<1>4. f \in Injection(P, T)
  BY <1>3 DEF Injection, IsInjective
<1>5. IsFiniteSet(P)
  BY <1>2, <1>4, FS_Injection
<1> QED BY <1>5, FS_Subset DEF TypeOK

\* The performables of an outcome are within the limit, valid, one for each
\* work ID, and each has a quorum.
LEMMA PerformablesAgreed ==
  ASSUME IInv, NEW shuffled, NEW performables \in performablesSet(shuffled)
  PROVE  /\ performables \in Seq(CheckResult)
         /\ Len(performables) <= OutcomeAgreedPerformablesLimit
         /\ DistinctWork(performables)
         /\ \A i \in DOMAIN performables : /\ performables[i].valid
                                           /\ resultCount[performables[i]] >= quorumThreshold
<1>1. PICK s \in ShuffleSorted(Agreed, shuffled) :
        performables = AtMost(s, OutcomeAgreedPerformablesLimit)
  BY DEF performablesSet
<1>2. IsFiniteSet(Agreed) /\ Agreed \subseteq CheckResult
  BY CheckResultFinite, FS_Subset DEF Agreed
<1>3. s \in Seq(Agreed) /\ \A i, j \in DOMAIN s : s[i] = s[j] => i = j
  BY <1>2, SortedIsInjective
<1>4. /\ performables \in Seq(Agreed)
      /\ Len(performables) <= OutcomeAgreedPerformablesLimit
      /\ \A i \in DOMAIN performables : i \in DOMAIN s /\ performables[i] = s[i]
  BY <1>1, <1>3, LimitAssumption, AtMostPrefix
<1>5. \A i \in DOMAIN performables : performables[i] \in Agreed
  BY <1>4
<1>6. \A r \in Agreed : resultCount[r] >= quorumThreshold /\ r.valid
  BY OracleAssumption DEF Agreed, IInv, TypeOK, Counted, quorumThreshold
<1>7. \A q, r \in Agreed : q.workID = r.workID => q = r
  <2>1. \A q, r \in CheckResult : /\ UniqueID[q] \in Nat
                                  /\ UniqueID[q] = UniqueID[r] => q = r
    BY DataAssumption DEF Injection, IsInjective
  <2>2. ASSUME NEW q \in Agreed, NEW r \in Agreed, q.workID = r.workID PROVE q = r
    <3>1. UniqueID[q] <= UniqueID[r] /\ UniqueID[r] <= UniqueID[q]
      BY <2>2, <1>2 DEF Agreed
    <3> QED BY <3>1, <2>1, <1>2
  <2> QED BY <2>2
<1>8. DistinctWork(performables)
  BY <1>3, <1>4, <1>5, <1>7 DEF DistinctWork
<1>9. performables \in Seq(CheckResult)
  BY <1>4, <1>2
<1> QED BY <1>4, <1>5, <1>6, <1>8, <1>9

\* A history of surfaced proposals next to which the performables may stand in
\* an outcome: valid proposals, one for each work ID, none of them performed.
ValidHistory(h, performables) ==
  /\ h \in Seq(Round)
  /\ \A k \in DOMAIN h : \A i \in DOMAIN h[k] :
       h[k][i].valid /\ ~performableExists(performables, h[k][i])
  /\ \A k, l \in DOMAIN h : \A i \in DOMAIN h[k], j \in DOMAIN h[l] :
       h[k][i].workID = h[l][j].workID => k = l /\ i = j

LEMMA RoundType ==
  ASSUME NEW r
  PROVE  r \in Round <=> /\ DOMAIN r \subseteq 1..OutcomeSurfacedProposalsLimit
                         /\ r \in [DOMAIN r -> Coordinated]
BY DEF Round

LEMMA RoundCardinality ==
  ASSUME NEW r \in Round
  PROVE  Cardinality(DOMAIN r) <= OutcomeSurfacedProposalsLimit
<1> DEFINE I == 1..OutcomeSurfacedProposalsLimit
<1>1. IsFiniteSet(I) /\ Cardinality(I) = OutcomeSurfacedProposalsLimit
  BY LimitAssumption, FS_Interval
<1>2. DOMAIN r \subseteq I
  BY RoundType
<1>3. Cardinality(DOMAIN r) <= Cardinality(I)
  BY <1>1, <1>2, FS_Subset
<1> QED BY <1>1, <1>3

\* What is carried over is the previous history without the performed work.
LEMMA CarriedOverValid ==
  ASSUME IInv, NEW performables
  PROVE  LET carried == CarriedOver(performables)
         IN /\ ValidHistory(carried, performables)
            /\ Len(carried) = Len(outcome.surfacedProposals)
            /\ DOMAIN carried = DOMAIN outcome.surfacedProposals
            /\ \A k \in DOMAIN carried :
                 /\ DOMAIN carried[k] = {i \in DOMAIN outcome.surfacedProposals[k] :
                      ~performableExists(performables, outcome.surfacedProposals[k][i])}
                 /\ \A i \in DOMAIN carried[k] :
                      carried[k][i] = outcome.surfacedProposals[k][i]
<1> DEFINE old == outcome.surfacedProposals
           carried == CarriedOver(performables)
<1>1. old \in Seq(Round)
  BY DEF IInv, TypeOK
<1>2. /\ DOMAIN carried = DOMAIN old
      /\ \A k \in DOMAIN old :
           /\ DOMAIN carried[k] = {i \in DOMAIN old[k] : ~performableExists(performables, old[k][i])}
           /\ \A i \in DOMAIN carried[k] : carried[k][i] = old[k][i]
           /\ carried[k] = [i \in DOMAIN carried[k] |-> old[k][i]]
      /\ carried = [k \in DOMAIN old |-> carried[k]]
  BY DEF CarriedOver, Restrict
<1> HIDE DEF carried
<1>3. ASSUME NEW k \in DOMAIN old PROVE carried[k] \in Round
  <2>1. old[k] \in Round
    BY <1>1
  <2>2. DOMAIN old[k] \subseteq 1..OutcomeSurfacedProposalsLimit /\ old[k] \in [DOMAIN old[k] -> Coordinated]
    BY <2>1, RoundType
  <2>3. /\ DOMAIN carried[k] \subseteq 1..OutcomeSurfacedProposalsLimit
        /\ carried[k] \in [DOMAIN carried[k] -> Coordinated]
    <3>1. DOMAIN carried[k] \subseteq DOMAIN old[k]
      BY <1>2
    <3>2. \A i \in DOMAIN carried[k] : old[k][i] \in Coordinated
      BY <2>2, <3>1
    <3>3. carried[k] = [i \in DOMAIN carried[k] |-> old[k][i]]
      BY <1>2
    <3> QED BY <2>2, <3>1, <3>2, <3>3
  <2> QED BY <2>3, RoundType
<1>4. carried \in Seq(Round) /\ Len(carried) = Len(old)
  <2>1. carried \in [1..Len(old) -> Round]
    BY <1>1, <1>2, <1>3
  <2> QED BY <2>1, <1>1
<1>5. \A k \in DOMAIN old : \A i \in DOMAIN old[k] : old[k][i].valid
  BY DEF IInv, OutcomeDecodes, validateAutomationOutcome
<1>6. \A k, l \in DOMAIN old : \A i \in DOMAIN old[k], j \in DOMAIN old[l] :
        old[k][i].workID = old[l][j].workID => k = l /\ i = j
  BY DEF IInv, OutcomeDecodes, validateAutomationOutcome
<1>7. ValidHistory(carried, performables)
  <2>1. \A k \in DOMAIN carried : \A i \in DOMAIN carried[k] :
          carried[k][i].valid /\ ~performableExists(performables, carried[k][i])
    <3>1. ASSUME NEW k \in DOMAIN carried, NEW i \in DOMAIN carried[k]
          PROVE  carried[k][i].valid /\ ~performableExists(performables, carried[k][i])
      <4>1. /\ k \in DOMAIN old /\ i \in DOMAIN old[k] /\ carried[k][i] = old[k][i]
            /\ ~performableExists(performables, old[k][i])
        BY <1>2
      <4> QED BY <4>1, <1>5
    <3> QED BY <3>1
  <2>2. ASSUME NEW k \in DOMAIN carried, NEW l \in DOMAIN carried,
               NEW i \in DOMAIN carried[k], NEW j \in DOMAIN carried[l],
               carried[k][i].workID = carried[l][j].workID
        PROVE  k = l /\ i = j
    <3>1. /\ k \in DOMAIN old /\ l \in DOMAIN old /\ i \in DOMAIN old[k] /\ j \in DOMAIN old[l]
          /\ carried[k][i] = old[k][i] /\ carried[l][j] = old[l][j]
      BY <1>2
    <3> QED BY <3>1, <2>2, <1>6
  <2> QED BY <2>1, <2>2, <1>4 DEF ValidHistory
<1> QED BY <1>2, <1>4, <1>7 DEF carried

LEMMA TruncatedValid ==
  ASSUME NEW h, NEW performables, ValidHistory(h, performables), NEW n \in Nat
  PROVE  ValidHistory(AtMost(h, n), performables)
<1>1. h \in Seq(Round)
  BY DEF ValidHistory
<1>2. /\ AtMost(h, n) \in Seq(Round)
      /\ \A i \in DOMAIN AtMost(h, n) : i \in DOMAIN h /\ AtMost(h, n)[i] = h[i]
  BY <1>1, AtMostPrefix
<1> DEFINE t == AtMost(h, n)
<1> HIDE DEF t
<1>3. \A k \in DOMAIN t : \A i \in DOMAIN t[k] :
        t[k][i].valid /\ ~performableExists(performables, t[k][i])
  BY <1>2 DEF ValidHistory, t
<1>4. ASSUME NEW k \in DOMAIN t, NEW l \in DOMAIN t, NEW i \in DOMAIN t[k], NEW j \in DOMAIN t[l],
             t[k][i].workID = t[l][j].workID
      PROVE  k = l /\ i = j
  <2>1. k \in DOMAIN h /\ t[k] = h[k] /\ l \in DOMAIN h /\ t[l] = h[l]
    BY <1>2 DEF t
  <2> QED BY <2>1, <1>4 DEF ValidHistory
<1> QED BY <1>2, <1>3, <1>4 DEF ValidHistory, t

\* A round of new proposals in front of a valid history.
LEMMA PrependValid ==
  ASSUME NEW performables, NEW h, ValidHistory(h, performables),
         NEW latest \in Round, DistinctWork(latest),
         \A i \in DOMAIN latest : /\ latest[i].valid
                                  /\ ~performableExists(performables, latest[i])
                                  /\ ~proposalExists(h, latest[i])
  PROVE  LET new == Prepend(latest, h)
         IN /\ ValidHistory(new, performables)
            /\ Len(new) = Len(h) + 1
            /\ new[1] = latest
            /\ \A k \in DOMAIN h : k + 1 \in DOMAIN new /\ new[k + 1] = h[k]
<1> DEFINE new == Prepend(latest, h)
<1>1. h \in Seq(Round)
  BY DEF ValidHistory
<1>2. /\ new \in Seq(Round) /\ Len(new) = Len(h) + 1 /\ new[1] = latest
      /\ \A k \in DOMAIN h : k + 1 \in DOMAIN new /\ new[k + 1] = h[k]
      /\ \A k \in DOMAIN new : k # 1 => k - 1 \in DOMAIN h /\ new[k] = h[k - 1]
      /\ DOMAIN new \subseteq Nat
  BY <1>1 DEF Prepend
<1> HIDE DEF new
<1>3. \A k \in DOMAIN new : \A i \in DOMAIN new[k] :
        new[k][i].valid /\ ~performableExists(performables, new[k][i])
  <2>1. ASSUME NEW k \in DOMAIN new, NEW i \in DOMAIN new[k]
        PROVE  new[k][i].valid /\ ~performableExists(performables, new[k][i])
    <3>1. CASE k = 1
      BY <3>1, <1>2
    <3>2. CASE k # 1
      <4>1. k - 1 \in DOMAIN h /\ new[k] = h[k - 1]
        BY <3>2, <1>2
      <4> QED BY <4>1 DEF ValidHistory
    <3> QED BY <3>1, <3>2
  <2> QED BY <2>1
<1>4. ASSUME NEW k \in DOMAIN new, NEW l \in DOMAIN new,
             NEW i \in DOMAIN new[k], NEW j \in DOMAIN new[l],
             new[k][i].workID = new[l][j].workID
      PROVE  k = l /\ i = j
  <2>1. CASE k = 1 /\ l = 1
    BY <2>1, <1>2, <1>4 DEF DistinctWork
  <2>2. CASE k = 1 /\ l # 1
    BY <2>2, <1>2, <1>4 DEF proposalExists
  <2>3. CASE k # 1 /\ l = 1
    BY <2>3, <1>2, <1>4 DEF proposalExists
  <2>4. CASE k # 1 /\ l # 1
    <3>1. /\ k - 1 \in DOMAIN h /\ l - 1 \in DOMAIN h
          /\ new[k] = h[k - 1] /\ new[l] = h[l - 1]
      BY <2>4, <1>2
    <3>2. k - 1 = l - 1 /\ i = j
      BY <3>1, <1>4 DEF ValidHistory
    <3> QED BY <3>2, <1>2
  <2> QED BY <2>1, <2>2, <2>3, <2>4
<1>5. ValidHistory(new, performables)
  BY <1>2, <1>3, <1>4 DEF ValidHistory
<1> QED BY <1>2, <1>5 DEF new

\* The round of new proposals: new, within the limit and tied to the quorum block.
LEMMA LatestRoundValid ==
  ASSUME IInv, phase = "set", mostRecent.hash # 0, NEW performables, NEW h, NEW shuffled,
         NEW s \in ShuffleSorted(Surfaced(h, performables), shuffled)
  PROVE  LET latest == [i \in DOMAIN AtMost(s, OutcomeSurfacedProposalsLimit) |-> Coordinate(s[i])]
         IN /\ latest \in Round
            /\ DistinctWork(latest)
            /\ \A i \in DOMAIN latest : /\ latest[i].valid
                                        /\ ~performableExists(performables, latest[i])
                                        /\ ~proposalExists(h, latest[i])
<1> DEFINE new == Surfaced(h, performables)
           top == AtMost(s, OutcomeSurfacedProposalsLimit)
           latest == [i \in DOMAIN top |-> Coordinate(s[i])]
<1>1. new \subseteq allNewProposals /\ IsFiniteSet(new)
  BY NewProposalsFinite, FS_Subset DEF Surfaced, IInv
<1>2. s \in Seq(new) /\ \A i, j \in DOMAIN s : s[i] = s[j] => i = j
  BY <1>1, SortedIsInjective
<1>3. /\ DOMAIN top \subseteq 1..OutcomeSurfacedProposalsLimit
      /\ \A i \in DOMAIN top : i \in DOMAIN s /\ s[i] \in new
  <2>1. /\ DOMAIN top = 1..Len(top) /\ Len(top) <= OutcomeSurfacedProposalsLimit
        /\ Len(top) \in Nat /\ \A i \in DOMAIN top : i \in DOMAIN s
    BY <1>2, LimitAssumption, AtMostPrefix
  <2> QED BY <2>1, <1>2, LimitAssumption
<1> HIDE DEF top
<1>4. mostRecent \in BlockKey
  BY DEF IInv, ScanInv, zeroBlock
<1>5. \A p \in new : /\ p.workID \in WorkID /\ p.valid \in BOOLEAN /\ p.valid /\ p.observer \in Nat
                     /\ ~performableExists(performables, p) /\ ~proposalExists(h, p)
  BY OracleAssumption, <1>1 DEF IInv, TypeOK, ProposalsValid, Surfaced
<1>6. \A p, q \in new : p.workID = q.workID => p = q
  <2>1. ASSUME NEW p \in new, NEW q \in new, p.workID = q.workID PROVE p = q
    <3>1. p.observer <= q.observer /\ q.observer <= p.observer
      BY <2>1, <1>1 DEF Surfaced
    <3>2. p.observer = q.observer
      BY <3>1, <1>5
    <3> QED BY <3>2, <2>1, <1>1 DEF IInv, ProposalsValid
  <2> QED BY <2>1
<1> HIDE DEF new
<1>7. \A i \in DOMAIN top : /\ latest[i] = Coordinate(s[i])
                            /\ latest[i].workID = s[i].workID
                            /\ latest[i].valid = s[i].valid
                            /\ latest[i] \in Coordinated
  <2>1. \A i \in DOMAIN top : s[i].workID \in WorkID /\ s[i].valid \in BOOLEAN
    BY <1>3, <1>5
  <2> QED BY <2>1, <1>4 DEF Coordinate, Coordinated
<1>8. latest \in Round
  <2>1. DOMAIN latest = DOMAIN top /\ latest \in [DOMAIN top -> Coordinated]
    BY <1>7
  <2> QED BY <2>1, <1>3, RoundType
<1>9. DistinctWork(latest)
  <2>1. ASSUME NEW i \in DOMAIN top, NEW j \in DOMAIN top, latest[i].workID = latest[j].workID
        PROVE  i = j
    <3>1. s[i] = s[j]
      <4>1. s[i].workID = s[j].workID
        BY <2>1, <1>7
      <4>2. s[i] \in new /\ s[j] \in new
        BY <1>3
      <4> QED BY <4>1, <4>2, <1>6
    <3> QED BY <3>1, <1>3, <1>2
  <2> QED BY <2>1 DEF DistinctWork
<1>10. \A i \in DOMAIN latest : /\ latest[i].valid
                                /\ ~performableExists(performables, latest[i])
                                /\ ~proposalExists(h, latest[i])
  <2>1. ASSUME NEW i \in DOMAIN top
        PROVE  /\ latest[i].valid
               /\ ~performableExists(performables, latest[i])
               /\ ~proposalExists(h, latest[i])
    <3>1. /\ s[i].valid /\ s[i].valid \in BOOLEAN
          /\ ~performableExists(performables, s[i]) /\ ~proposalExists(h, s[i])
      BY <1>3, <1>5
    <3>2. latest[i].valid = s[i].valid /\ latest[i].workID = s[i].workID
      BY <1>7
    <3>3. ~performableExists(performables, latest[i]) /\ ~proposalExists(h, latest[i])
      BY <3>1, <3>2 DEF performableExists, proposalExists
    <3> QED BY <3>1, <3>2, <3>3
  <2> QED BY <2>1
<1> QED BY <1>8, <1>9, <1>10 DEF top

\* What SetOutcome leaves in the outcome: valid performables with a quorum and
\* a valid history next to them that keeps the proposals of the previous one.
LEMMA SetOutcomeResult ==
  ASSUME IInv, SetOutcome
  PROVE  LET performables == outcome'.agreedPerformables
             proposals == outcome'.surfacedProposals
             old == outcome.surfacedProposals
         IN /\ performables \in Seq(CheckResult)
            /\ Len(performables) <= OutcomeAgreedPerformablesLimit
            /\ DistinctWork(performables)
            /\ \A i \in DOMAIN performables : /\ performables[i].valid
                                              /\ resultCount[performables[i]] >= quorumThreshold
            /\ ValidHistory(proposals, performables)
            /\ Len(proposals) <= OutcomeSurfacedProposalsRoundHistoryLimit
            /\ \A k \in DOMAIN old :
                 LET l == IF mostRecent.hash = 0 THEN k ELSE k + 1
                 IN l <= OutcomeSurfacedProposalsRoundHistoryLimit =>
                      /\ l \in DOMAIN proposals
                      /\ \A i \in DOMAIN old[k] :
                           \/ performableExists(performables, old[k][i])
                           \/ i \in DOMAIN proposals[l] /\ proposals[l][i] = old[k][i]
<1> DEFINE H == OutcomeSurfacedProposalsRoundHistoryLimit
           old == outcome.surfacedProposals
<1>a. PICK shuffled \in Injection(WorkID, 1..Cardinality(WorkID)) :
        \E performables \in performablesSet(shuffled) :
          \E proposals \in coordinatedBlockProposalsSet(performables, shuffled) :
            outcome' = [agreedPerformables |-> performables, surfacedProposals |-> proposals]
  BY DEF SetOutcome
<1>b. PICK performables \in performablesSet(shuffled) :
        \E proposals \in coordinatedBlockProposalsSet(performables, shuffled) :
          outcome' = [agreedPerformables |-> performables, surfacedProposals |-> proposals]
  BY <1>a
<1>1. PICK proposals \in coordinatedBlockProposalsSet(performables, shuffled) :
        outcome' = [agreedPerformables |-> performables, surfacedProposals |-> proposals]
  BY <1>b
<1>2. /\ performables \in Seq(CheckResult)
      /\ Len(performables) <= OutcomeAgreedPerformablesLimit
      /\ DistinctWork(performables)
      /\ \A i \in DOMAIN performables : /\ performables[i].valid
                                        /\ resultCount[performables[i]] >= quorumThreshold
  BY PerformablesAgreed
<1> DEFINE carried == CarriedOver(performables)
           history == AtMost(carried, H - 1)
<1>3. /\ ValidHistory(carried, performables) /\ Len(carried) = Len(old)
      /\ DOMAIN carried = DOMAIN old
      /\ \A k \in DOMAIN old : \A i \in DOMAIN old[k] :
           \/ performableExists(performables, old[k][i])
           \/ i \in DOMAIN carried[k] /\ carried[k][i] = old[k][i]
  <2>1. /\ ValidHistory(carried, performables) /\ Len(carried) = Len(old)
        /\ DOMAIN carried = DOMAIN old
        /\ \A k \in DOMAIN carried :
             /\ DOMAIN carried[k] = {i \in DOMAIN old[k] : ~performableExists(performables, old[k][i])}
             /\ \A i \in DOMAIN carried[k] : carried[k][i] = old[k][i]
    BY CarriedOverValid
  <2> HIDE DEF carried
  <2> QED BY <2>1
<1>4. old \in Seq(Round) /\ Len(old) <= H /\ H \in Nat \ {0} /\ H - 1 \in Nat
  BY LimitAssumption DEF IInv, TypeOK, OutcomeDecodes, validateAutomationOutcome
<1>5. carried \in Seq(Round)
  BY <1>3 DEF ValidHistory
<1> HIDE DEF carried
<1>6. /\ ValidHistory(proposals, performables) /\ Len(proposals) <= H
      /\ \A k \in DOMAIN old :
           LET l == IF mostRecent.hash = 0 THEN k ELSE k + 1
           IN l <= H => l \in DOMAIN proposals /\ proposals[l] = carried[k]
  <2>1. CASE mostRecent.hash = 0
    <3>1. proposals = carried
      BY <2>1, <1>1 DEF coordinatedBlockProposalsSet, carried
    <3> QED BY <3>1, <2>1, <1>3, <1>4
  <2>2. CASE mostRecent.hash # 0
    <3>1. PICK s \in ShuffleSorted(Surfaced(history, performables), shuffled) :
            proposals = Prepend([i \in DOMAIN AtMost(s, OutcomeSurfacedProposalsLimit) |->
                                   Coordinate(s[i])], history)
      BY <2>2, <1>1 DEF coordinatedBlockProposalsSet, carried
    <3> DEFINE latest == [i \in DOMAIN AtMost(s, OutcomeSurfacedProposalsLimit) |-> Coordinate(s[i])]
    <3>2. phase = "set"
      BY DEF SetOutcome
    <3>3. /\ latest \in Round /\ DistinctWork(latest)
          /\ \A i \in DOMAIN latest : /\ latest[i].valid
                                      /\ ~performableExists(performables, latest[i])
                                      /\ ~proposalExists(history, latest[i])
      BY <2>2, <3>2, LatestRoundValid
    <3>4. ValidHistory(history, performables)
      BY <1>3, <1>4, TruncatedValid
    <3>5. /\ history \in Seq(Round) /\ Len(history) <= H - 1
          /\ Len(carried) <= H - 1 => history = carried
          /\ Len(carried) > H - 1 => Len(history) = H - 1
          /\ \A i \in DOMAIN history : history[i] = carried[i]
      BY <1>4, <1>5, AtMostPrefix
    <3> HIDE DEF latest, history
    <3>6. /\ ValidHistory(proposals, performables) /\ Len(proposals) = Len(history) + 1
          /\ \A k \in DOMAIN history : k + 1 \in DOMAIN proposals /\ proposals[k + 1] = history[k]
      <4>1. proposals = Prepend(latest, history)
        BY <3>1 DEF latest
      <4>2. \A i \in DOMAIN latest : /\ latest[i].valid
                                     /\ ~performableExists(performables, latest[i])
                                     /\ ~proposalExists(history, latest[i])
        BY <3>3
      <4>3. latest \in Round /\ DistinctWork(latest)
        BY <3>3
      <4> QED BY <4>1, <4>2, <4>3, <3>4, PrependValid
    <3>7. ASSUME NEW k \in DOMAIN old, k + 1 <= H PROVE k \in DOMAIN history
      <4>1. k \in 1..Len(carried)
        <5>1. k \in 1..Len(old)
          BY <1>4
        <5>2. Len(carried) = Len(old)
          BY <1>3
        <5> QED BY <5>1, <5>2
      <4> QED BY <4>1, <3>5, <3>7, <1>4, <1>5
    <3>8. Len(proposals) <= H
      BY <3>5, <3>6, <1>4
    <3>9. ASSUME NEW k \in DOMAIN old, k + 1 <= H
          PROVE  k + 1 \in DOMAIN proposals /\ proposals[k + 1] = carried[k]
      <4>1. k \in DOMAIN history
        BY <3>7, <3>9
      <4>2. history[k] = carried[k]
        BY <3>5, <4>1
      <4> QED BY <4>1, <4>2, <3>6
    <3> QED BY <2>2, <3>6, <3>8, <3>9
  <2> QED BY <2>1, <2>2
<1>7. outcome'.agreedPerformables = performables /\ outcome'.surfacedProposals = proposals
  BY <1>1
<1> QED BY <1>2, <1>3, <1>6, <1>7

LEMMA SetOutcomePreserves ==
  ASSUME IInv, SetOutcome
  PROVE  IInv'
<1> DEFINE performables == outcome'.agreedPerformables
           proposals == outcome'.surfacedProposals
<1>0. /\ UNCHANGED <<observers, resultCount, recentBlocks, allNewProposals, unscanned,
                     mostRecent, resultBackers, blockBackers>>
      /\ phase = "set" /\ phase' = "done"
  BY DEF SetOutcome, counts, backers
<1>1. /\ performables \in Seq(CheckResult)
      /\ Len(performables) <= OutcomeAgreedPerformablesLimit
      /\ DistinctWork(performables)
      /\ \A i \in DOMAIN performables : /\ performables[i].valid
                                        /\ resultCount[performables[i]] >= quorumThreshold
      /\ ValidHistory(proposals, performables)
      /\ Len(proposals) <= OutcomeSurfacedProposalsRoundHistoryLimit
  BY SetOutcomeResult
<1>2. proposals \in Seq(Round)
  BY <1>1 DEF ValidHistory
<1> HIDE DEF performables, proposals
<1>3. TypeOK'
  BY <1>0, <1>1, <1>2 DEF TypeOK, IInv, performables, proposals
<1>4. OutcomeDecodes'
  <2>1. \A k \in DOMAIN proposals : Cardinality(DOMAIN proposals[k]) <= OutcomeSurfacedProposalsLimit
    <3>1. \A k \in DOMAIN proposals : proposals[k] \in Round
      BY <1>2
    <3> QED BY <3>1, RoundCardinality
  <2>2. /\ \A k \in DOMAIN proposals : \A i \in DOMAIN proposals[k] : proposals[k][i].valid
        /\ \A k, l \in DOMAIN proposals : \A i \in DOMAIN proposals[k], j \in DOMAIN proposals[l] :
             proposals[k][i].workID = proposals[l][j].workID => k = l /\ i = j
    BY <1>1 DEF ValidHistory
  <2>3. validateAutomationOutcome(outcome')
    BY <1>1, <2>1, <2>2 DEF validateAutomationOutcome, performables, proposals
  <2> QED BY <2>3 DEF OutcomeDecodes, validateAutomationOutcome, DistinctWork
<1>5. PerformedNotProposed'
  <2>1. \A i \in DOMAIN performables : ~proposalExists(proposals, performables[i])
    BY <1>1 DEF ValidHistory, performableExists, proposalExists
  <2> QED BY <2>1 DEF PerformedNotProposed, proposalExists, performables, proposals
<1>6. Counted' BY <1>0 DEF Counted, IInv
<1>7. ProposalsValid' BY <1>0 DEF ProposalsValid, IInv
<1>8. ScanInv' BY <1>0 DEF ScanInv, IInv, quorumThreshold
<1>9. AgreedBacked' BY <1>0, <1>1 DEF AgreedBacked, quorumThreshold, performables
<1> QED BY <1>3, <1>4, <1>5, <1>6, <1>7, <1>8, <1>9 DEF IInv

LEMMA NextIInv == IInv /\ [Next]_vars => IInv'
<1> SUFFICES ASSUME IInv, [Next]_vars PROVE IInv'
  OBVIOUS
<1>1. ASSUME NEW o \in Oracle, NEW ao \in Observation, AddObservation(o, ao) PROVE IInv'
  BY <1>1, AddPreserves
<1>2. CASE FinishObservations BY <1>2, FinishObservationsPreserves
<1>3. ASSUME NEW b \in unscanned, ScanBlock(b) PROVE IInv'
  BY <1>3, ScanBlockPreserves
<1>4. CASE FinishScan BY <1>4, FinishScanPreserves
<1>5. CASE SetOutcome BY <1>5, SetOutcomePreserves
<1>6. CASE NextRound BY <1>6, NextRoundPreserves
<1>7. CASE UNCHANGED vars
  <2> USE <1>7 DEF vars, counts, backers
  <2>1. TypeOK' BY DEF IInv, TypeOK
  <2>2. OutcomeDecodes' /\ PerformedNotProposed' BY DEF IInv, OutcomeDecodes, PerformedNotProposed
  <2>3. Counted' BY DEF IInv, Counted
  <2>4. ProposalsValid' BY DEF IInv, ProposalsValid
  <2>5. ScanInv' BY DEF IInv, ScanInv
  <2>6. AgreedBacked' BY DEF IInv, AgreedBacked
  <2> QED BY <2>1, <2>2, <2>3, <2>4, <2>5, <2>6 DEF IInv
<1> QED BY <1>1, <1>2, <1>3, <1>4, <1>5, <1>6, <1>7 DEF Next

-----------------------------------------------------------------------------
(* The theorems.                                                            *)

\* The inductive invariant holds in every reachable state.
THEOREM OutcomeInv == Spec => []IInv
BY InitIInv, NextIInv, PTL DEF Spec

\* The counters, the scan and the outcome keep their types, whatever the
\* oracles send.
THEOREM OutcomeType == Spec => []TypeOK
<1>1. IInv => TypeOK BY DEF IInv
<1> QED BY <1>1, OutcomeInv, PTL

\* Whatever faulty oracles send, an outcome the plugin produces is accepted by
\* the decoder of the next round.
THEOREM OutcomeAlwaysDecodes == Spec => []OutcomeDecodes
<1>1. IInv => OutcomeDecodes BY DEF IInv
<1> QED BY <1>1, OutcomeInv, PTL

\* No outcome proposes work that it performs.
THEOREM NeverPerformedAndProposed == Spec => []PerformedNotProposed
<1>1. IInv => PerformedNotProposed BY DEF IInv
<1> QED BY <1>1, OutcomeInv, PTL

\* A quorum of F+1 observations contains one of a correct oracle.
LEMMA QuorumHasCorrect ==
  ASSUME NEW B \in SUBSET Oracle, Cardinality(B) >= F + 1
  PROVE  B \ Faulty # {}
<1> SUFFICES ASSUME B \subseteq Faulty PROVE FALSE
  OBVIOUS
<1>1. IsFiniteSet(Faulty)
  BY OracleAssumption, FS_Subset
<1>2. Cardinality(B) <= Cardinality(Faulty) /\ Cardinality(B) \in Nat /\ Cardinality(Faulty) \in Nat
  BY <1>1, FS_Subset, FS_CardinalityType
<1> QED BY <1>2, OracleAssumption

\* An agreed result, and the block new proposals are tied to, was observed by a
\* correct oracle in the round.
THEOREM AgreementIsBacked == Spec => []AgreementBacked
<1>1. IInv => AgreementBacked
  <2> SUFFICES ASSUME IInv, phase = "done"
               PROVE  /\ \A i \in DOMAIN outcome.agreedPerformables :
                           resultBackers[outcome.agreedPerformables[i]] \ Faulty # {}
                      /\ mostRecent.hash # 0 => blockBackers[mostRecent] \ Faulty # {}
    BY DEF AgreementBacked
  <2>1. ASSUME NEW i \in DOMAIN outcome.agreedPerformables
        PROVE  resultBackers[outcome.agreedPerformables[i]] \ Faulty # {}
    <3> DEFINE r == outcome.agreedPerformables[i]
    <3>1. r \in CheckResult
      BY DEF IInv, TypeOK
    <3>2. resultCount[r] >= F + 1 /\ resultCount[r] = Cardinality(resultBackers[r])
          /\ resultBackers[r] \in SUBSET Oracle
      BY <3>1 DEF IInv, AgreedBacked, Counted, TypeOK, quorumThreshold
    <3> QED BY <3>2, QuorumHasCorrect
  <2>2. ASSUME mostRecent.hash # 0 PROVE blockBackers[mostRecent] \ Faulty # {}
    <3>1. mostRecent \in BlockKey /\ recentBlocks[mostRecent] >= F + 1
      BY <2>2 DEF IInv, ScanInv, zeroBlock, quorumThreshold
    <3>2. recentBlocks[mostRecent] = Cardinality(blockBackers[mostRecent])
          /\ blockBackers[mostRecent] \in SUBSET Oracle
      BY <3>1 DEF IInv, Counted, TypeOK
    <3> QED BY <3>1, <3>2, QuorumHasCorrect
  <2> QED BY <2>1, <2>2
<1> QED BY <1>1, OutcomeInv, PTL

\* The block getLatestQuorumBlock returns does not depend on the iteration
\* order of the map: it is the greatest block with a quorum.
THEOREM QuorumBlockOrderIndependent == Spec => []QuorumBlockIsLatest
<1>1. IInv => QuorumBlockIsLatest
  <2> SUFFICES ASSUME IInv, phase \in {"set", "done"} PROVE QuorumBlockIsLatest
    BY DEF QuorumBlockIsLatest
  <2> DEFINE quorum == {b \in BlockKey : recentBlocks[b] >= quorumThreshold}
  <2>1. /\ mostRecent = zeroBlock \/ mostRecent \in quorum
        /\ \A b \in quorum : b = mostRecent \/ Later(mostRecent, b)
    BY DEF IInv, ScanInv
  <2>2. \A b \in quorum : b.hash # 0 /\ b.hash \in Nat /\ b.number \in Nat
    BY ZeroHashNoQuorum, DataAssumption DEF IInv, BlockKey
  <2>3. \A b \in quorum : b # zeroBlock /\ ~Later(zeroBlock, b)
    BY <2>2 DEF Later, zeroBlock
  <2>4. mostRecent.hash = 0 <=> mostRecent = zeroBlock
    BY <2>1, <2>2 DEF zeroBlock
  <2>5. mostRecent.hash = 0 <=> quorum = {}
    BY <2>1, <2>3, <2>4
  <2> QED BY <2>1, <2>4, <2>5 DEF QuorumBlockIsLatest
<1> QED BY <1>1, OutcomeInv, PTL

\* A proposal keeps its coordinated block for as long as it is in the history,
\* and leaves it only when performed or when the history is full.
THEOREM ProposalsKeepTheirBlock == Spec => HistoryKept
<1> DEFINE Kept == outcome' # outcome =>
       \A k \in DOMAIN outcome.surfacedProposals :
         LET round == outcome.surfacedProposals[k]
             l == IF mostRecent.hash = 0 THEN k ELSE k + 1
         IN \/ l > OutcomeSurfacedProposalsRoundHistoryLimit
            \/ \A i \in DOMAIN round :
                 \/ performableExists(outcome'.agreedPerformables, round[i])
                 \/ /\ l \in DOMAIN outcome'.surfacedProposals
                    /\ i \in DOMAIN outcome'.surfacedProposals[l]
                    /\ outcome'.surfacedProposals[l][i] = round[i]
<1>1. ASSUME IInv, [Next]_vars PROVE [Kept]_vars
  <2> SUFFICES ASSUME outcome' # outcome PROVE Kept
    OBVIOUS
  <2>1. SetOutcome
    BY <1>1 DEF Next, AddObservation, FinishObservations, ScanBlock, FinishScan, NextRound, vars
  <2>2. outcome.surfacedProposals \in Seq(Round) /\ OutcomeSurfacedProposalsRoundHistoryLimit \in Nat
    BY <1>1, LimitAssumption DEF IInv, TypeOK
  <2>3. \A k \in DOMAIN outcome.surfacedProposals :
          LET round == outcome.surfacedProposals[k]
              l == IF mostRecent.hash = 0 THEN k ELSE k + 1
          IN l <= OutcomeSurfacedProposalsRoundHistoryLimit =>
               /\ l \in DOMAIN outcome'.surfacedProposals
               /\ \A i \in DOMAIN round :
                    \/ performableExists(outcome'.agreedPerformables, round[i])
                    \/ /\ i \in DOMAIN outcome'.surfacedProposals[l]
                       /\ outcome'.surfacedProposals[l][i] = round[i]
    BY <1>1, <2>1, SetOutcomeResult
  <2>4. ASSUME NEW k \in DOMAIN outcome.surfacedProposals
        PROVE  LET l == IF mostRecent.hash = 0 THEN k ELSE k + 1
               IN l > OutcomeSurfacedProposalsRoundHistoryLimit
                    \/ l <= OutcomeSurfacedProposalsRoundHistoryLimit
    <3>1. k \in Nat
      BY <2>2
    <3> QED BY <3>1, <2>2
  <2> QED BY <2>3, <2>4
<1>2. Spec => [][Kept]_vars
  BY <1>1, OutcomeInv, PTL DEF Spec
<1> QED BY <1>2 DEF HistoryKept

=============================================================================
