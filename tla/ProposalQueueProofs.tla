------------------------- MODULE ProposalQueueProofs -------------------------
(***************************************************************************)
(* The proposal queue for every set of works and blocks and every limit:   *)
(* it never goes back to an older block, and runs a surfaced proposal at   *)
(* most once.                                                              *)
(***************************************************************************)
EXTENDS MCStores, TLAPS

Record == [proposal : Queue!Proposal, removed : BOOLEAN, age : Queue!Age]

\* What is known of a proposal that an outcome carries at an age and that was run: the
\* queue has a record that keeps Enqueue from taking it again, and which is not older
\* than the round.
Remembered(rs, p, a) ==
  \E r \in rs :
    /\ r.proposal.workID = p.workID /\ r.age <= a
    /\ (r.proposal = p /\ r.removed) \/ r.proposal.block > p.block

\* A work has one proposal in the rounds of an outcome.
OneProposal ==
  \A i, j \in 1..Len(rounds) : \A p \in rounds[i].proposals, q \in rounds[j].proposals :
    p.workID = q.workID => p = q

\* A record is not older than the round that surfaced its proposal.
YoungRecords ==
  \A i \in 1..Len(rounds) : \A r \in records :
    r.proposal \in rounds[i].proposals => r.age <= rounds[i].age

\* The inductive invariant: what RunOnce needs of the rounds and records.
IInv ==
  /\ Queue!TypeOK
  /\ OneProposal
  /\ ~lapsed =>
       /\ Queue!RoundsFast
       /\ YoungRecords
       /\ \A i \in 1..Len(rounds) : \A p \in rounds[i].proposals :
            ran[p] = 0 \/ (ran[p] = 1 /\ Remembered(records, p, rounds[i].age))

-----------------------------------------------------------------------------
(* The steps on the queue.                                                 *)

\* The elements of a sequence over a set are in the set.
LEMMA ElementOf == ASSUME NEW S, NEW s \in Seq(S), NEW i \in 1..Len(s) PROVE s[i] \in S
  OBVIOUS

\* Surfaced proposals are proposals.
LEMMA SurfacedType == Queue!TypeOK => Queue!Surfaced \subseteq Queue!Proposal
PROOF
  <1> SUFFICES ASSUME Queue!TypeOK, NEW i \in 1..Len(rounds)
               PROVE  rounds[i].proposals \subseteq Queue!Proposal
    BY DEF Queue!Surfaced
  <1>1. rounds \in Seq([proposals : SUBSET Queue!Proposal, age : Queue!Age])
    BY DEF Queue!TypeOK
  <1>2. rounds[i] \in [proposals : SUBSET Queue!Proposal, age : Queue!Age]
    BY <1>1, ElementOf
  <1> QED
    BY <1>2

\* Enqueue keeps one record per work, and only replaces a record by one on a newer block.
LEMMA EnqueueKeeps ==
  ASSUME Queue!TypeOK, NEW ps \in SUBSET Queue!Proposal,
         \A p, q \in ps : p.workID = q.workID => p = q
  PROVE  /\ Queue!Enqueue(ps) \subseteq Record
         /\ \A r, s \in Queue!Enqueue(ps) : r.proposal.workID = s.proposal.workID => r = s
         /\ \A r \in records : \E s \in Queue!Enqueue(ps) :
              \/ s = r
              \/ s.proposal.workID = r.proposal.workID /\ s.proposal.block > r.proposal.block
                   /\ s.age = 0
         /\ \A s \in Queue!Enqueue(ps) : s \notin records =>
              \A r \in records : r.proposal.workID = s.proposal.workID =>
                s.proposal.block > r.proposal.block
PROOF
  <1> DEFINE new == {p \in ps : \A r \in Queue!RecordsOf(p.workID) : r.proposal.block < p.block}
             rec(p) == [proposal |-> p, removed |-> FALSE, age |-> 0]
             kept == {r \in records : \A p \in new : p.workID # r.proposal.workID}
  <1>1. Queue!Enqueue(ps) = kept \cup {rec(p) : p \in new}
    BY DEF Queue!Enqueue
  <1>2. \A p \in new : rec(p) \in Record /\ rec(p).proposal = p /\ rec(p).age = 0
    BY ProposalQueueAssumption DEF Record, Queue!Age
  <1>3. \A p \in new, r \in records : r.proposal.workID = p.workID => p.block > r.proposal.block
    BY ProposalQueueAssumption DEF Queue!RecordsOf, Queue!TypeOK, Queue!Proposal
  <1> HIDE DEF new, rec
  <1>4. new \subseteq ps
    BY DEF new
  <1>5. records \subseteq Record /\ \A r, s \in records : r.proposal.workID = s.proposal.workID => r = s
    BY DEF Queue!TypeOK, Record
  <1>6. Queue!Enqueue(ps) \subseteq Record
    BY <1>1, <1>2, <1>5
  <1>7. \A r, s \in Queue!Enqueue(ps) : r.proposal.workID = s.proposal.workID => r = s
    BY <1>1, <1>2, <1>4, <1>5
  <1>8. \A r \in records : \E s \in Queue!Enqueue(ps) :
          \/ s = r
          \/ s.proposal.workID = r.proposal.workID /\ s.proposal.block > r.proposal.block
               /\ s.age = 0
    <2> TAKE r \in records
    <2>1. CASE r \in kept
      BY <2>1, <1>1
    <2>2. CASE r \notin kept
      <3>1. PICK p \in new : p.workID = r.proposal.workID
        BY <2>2
      <3> QED
        BY <3>1, <1>1, <1>2, <1>3
    <2> QED
      BY <2>1, <2>2
  <1>9. \A s \in Queue!Enqueue(ps) : s \notin records =>
          \A r \in records : r.proposal.workID = s.proposal.workID =>
            s.proposal.block > r.proposal.block
    BY <1>1, <1>2, <1>3
  <1> QED
    BY <1>6, <1>7, <1>8, <1>9

\* The rounds after NextRound: the new one in front, the others one place further.
LEMMA NextRoundRounds ==
  ASSUME Queue!TypeOK, NEW ps \in SUBSET Queue!Proposal, Queue!NextRound(ps)
  PROVE  /\ rounds' \in Seq([proposals : SUBSET Queue!Proposal, age : Queue!Age])
         /\ \A i \in 1..Len(rounds') :
              \/ rounds'[i] = [proposals |-> ps, age |-> 0]
              \/ \E j \in 1..Len(rounds) : rounds'[i] = rounds[j]
PROOF
  <1> DEFINE R == [proposals : SUBSET Queue!Proposal, age : Queue!Age]
             new == [proposals |-> ps, age |-> 0]
             all == <<new>> \o rounds
             n == IF Len(all) > RoundHistoryLimit THEN RoundHistoryLimit ELSE Len(all)
  <1>1. new \in R
    BY ProposalQueueAssumption DEF Queue!Age
  <1>2. rounds \in Seq(R) /\ RoundHistoryLimit \in Nat
    BY ProposalQueueAssumption DEF Queue!TypeOK
  <1>3. rounds' = SubSeq(all, 1, n)
    BY DEF Queue!NextRound
  <1> HIDE DEF R, new
  <1>4. /\ all \in Seq(R) /\ Len(all) = Len(rounds) + 1
        /\ \A i \in 1..Len(all) : all[i] = IF i = 1 THEN new ELSE rounds[i - 1]
    BY <1>1, <1>2
  <1>5. n \in 0..Len(all)
    BY <1>2, <1>4
  <1> HIDE DEF all, n
  <1>6. /\ rounds' \in Seq(R) /\ Len(rounds') = n
        /\ \A i \in 1..n : rounds'[i] = all[i]
    BY <1>3, <1>4, <1>5
  <1>7. \A i \in 1..Len(rounds') : rounds'[i] = new \/ \E j \in 1..Len(rounds) : rounds'[i] = rounds[j]
    <2> TAKE i \in 1..Len(rounds')
    <2>1. i \in 1..Len(all) /\ rounds'[i] = all[i]
      BY <1>4, <1>5, <1>6
    <2>2. CASE i = 1
      BY <2>1, <2>2, <1>4
    <2>3. CASE i # 1
      <3>1. i - 1 \in 1..Len(rounds) /\ rounds'[i] = rounds[i - 1]
        BY <2>1, <2>3, <1>2, <1>4
      <3> QED
        BY <3>1
    <2> QED
      BY <2>2, <2>3
  <1> QED
    BY <1>6, <1>7 DEF R, new

\* What a step does to the records, whichever it is: they stay well-formed and one per
\* work, and the queue does not go back.
StepKeeps ==
  /\ records' \subseteq Record
  /\ \A r, s \in records' : r.proposal.workID = s.proposal.workID => r = s
  /\ \A r \in records, s \in records' :
       r.proposal.workID = s.proposal.workID =>
         \/ s.proposal.block > r.proposal.block
         \/ s.proposal = r.proposal /\ (r.removed => s.removed)

\* Enqueue of the surfaced proposals.
LEMMA AddToProposalQKeeps ==
  ASSUME Queue!TypeOK, OneProposal, Queue!AddToProposalQ PROVE StepKeeps
PROOF
  <1>1. Queue!Surfaced \subseteq Queue!Proposal
    BY SurfacedType
  <1>2. \A p, q \in Queue!Surfaced : p.workID = q.workID => p = q
    BY DEF OneProposal, Queue!Surfaced
  <1>3. records' = Queue!Enqueue(Queue!Surfaced)
    BY DEF Queue!AddToProposalQ
  <1>4. /\ records' \subseteq Record
        /\ \A r, s \in records' : r.proposal.workID = s.proposal.workID => r = s
        /\ \A s \in records' : s \notin records =>
             \A r \in records : r.proposal.workID = s.proposal.workID =>
               s.proposal.block > r.proposal.block
    BY <1>1, <1>2, <1>3, EnqueueKeeps
  <1> QED
    BY <1>4 DEF StepKeeps, Queue!TypeOK

\* The records after Dequeue come one by one from the records before.
LEMMA DequeueRecords ==
  ASSUME Queue!TypeOK, NEW t \in Queue!UpkeepType, NEW batch \in SUBSET Queue!Pending(t), Queue!Dequeue(t, batch)
  PROVE  /\ \A s \in records' : \E r \in records :
              /\ s.proposal = r.proposal /\ s.age = r.age /\ s \in Record
              /\ s.removed = (r.removed \/ r \in batch)
         /\ \A r \in records : ~Queue!Expired(r) => \E s \in records' :
              /\ s.proposal = r.proposal /\ s.age = r.age
              /\ s.removed = (r.removed \/ r \in batch)
PROOF
  <1> DEFINE mark(r) == [r EXCEPT !.removed = @ \/ r \in batch]
  <1>1. records' = {mark(r) : r \in {s \in records : ~Queue!Expired(s)}}
    BY DEF Queue!Dequeue
  <1>2. \A r \in records : /\ mark(r).proposal = r.proposal /\ mark(r).age = r.age
                           /\ mark(r) \in Record /\ mark(r).removed = (r.removed \/ r \in batch)
    BY DEF Queue!TypeOK, Record
  <1> HIDE DEF mark
  <1> QED
    BY <1>1, <1>2

LEMMA DequeueStepKeeps ==
  ASSUME Queue!TypeOK, NEW t \in Queue!UpkeepType, NEW batch \in SUBSET Queue!Pending(t), Queue!Dequeue(t, batch)
  PROVE  StepKeeps
PROOF
  <1>1. \A s \in records' : \E r \in records :
          /\ s.proposal = r.proposal /\ s.age = r.age /\ s \in Record
          /\ s.removed = (r.removed \/ r \in batch)
    BY DequeueRecords
  <1>2. \A r, s \in records : r.proposal.workID = s.proposal.workID => r = s
    BY DEF Queue!TypeOK
  <1>3. \A r, s \in records' : r.proposal.workID = s.proposal.workID => r = s
    <2> SUFFICES ASSUME NEW r \in records', NEW s \in records',
                        r.proposal.workID = s.proposal.workID
                 PROVE  r = s
      OBVIOUS
    <2>1. PICK x \in records : /\ r.proposal = x.proposal /\ r.age = x.age /\ r \in Record
                               /\ r.removed = (x.removed \/ x \in batch)
      BY <1>1
    <2>2. PICK y \in records : /\ s.proposal = y.proposal /\ s.age = y.age /\ s \in Record
                               /\ s.removed = (y.removed \/ y \in batch)
      BY <1>1
    <2>3. x = y
      BY <2>1, <2>2, <1>2
    <2>4. r.proposal = s.proposal /\ r.age = s.age /\ r.removed = s.removed
      BY <2>1, <2>2, <2>3
    <2> QED
      BY <2>1, <2>2, <2>4 DEF Record
  <1>4. \A r \in records, s \in records' : r.proposal.workID = s.proposal.workID =>
          s.proposal = r.proposal /\ (r.removed => s.removed)
    <2> SUFFICES ASSUME NEW r \in records, NEW s \in records',
                        r.proposal.workID = s.proposal.workID
                 PROVE  s.proposal = r.proposal /\ (r.removed => s.removed)
      OBVIOUS
    <2>1. PICK x \in records : s.proposal = x.proposal /\ s.removed = (x.removed \/ x \in batch)
      BY <1>1
    <2>2. x = r
      BY <2>1, <1>2
    <2> QED
      BY <2>1, <2>2
  <1>5. records' \subseteq Record
    BY <1>1
  <1> QED
    BY <1>3, <1>4, <1>5 DEF StepKeeps

\* Older does not overtake.
LEMMA OlderMonotone ==
  \A a, b \in Queue!Age : Queue!Older(a) \in Queue!Age /\ (a <= b => Queue!Older(a) <= Queue!Older(b))
  BY ProposalQueueAssumption DEF Queue!Older, Queue!Age

\* The records after a tick are those before, older.
LEMMA TickRecords ==
  ASSUME Queue!TypeOK, Queue!Tick
  PROVE  /\ \A s \in records' : \E r \in records :
              /\ s.proposal = r.proposal /\ s.age = Queue!Older(r.age) /\ s \in Record
              /\ s.removed = r.removed
         /\ \A r \in records : \E s \in records' :
              /\ s.proposal = r.proposal /\ s.age = Queue!Older(r.age)
              /\ s.removed = r.removed
PROOF
  <1> DEFINE aged(r) == [r EXCEPT !.age = Queue!Older(@)]
  <1>1. records' = {aged(r) : r \in records}
    BY DEF Queue!Tick
  <1>2. \A r \in records : r.age \in Queue!Age /\ Queue!Older(r.age) \in Queue!Age
    BY OlderMonotone DEF Queue!TypeOK
  <1>3. \A r \in records : /\ aged(r).proposal = r.proposal /\ aged(r).age = Queue!Older(r.age)
                           /\ aged(r) \in Record /\ aged(r).removed = r.removed
    BY <1>2 DEF Queue!TypeOK, Record
  <1> HIDE DEF aged
  <1> QED
    BY <1>1, <1>3

LEMMA TickStepKeeps == ASSUME Queue!TypeOK, Queue!Tick PROVE StepKeeps
PROOF
  <1>1. \A s \in records' : \E r \in records :
          /\ s.proposal = r.proposal /\ s.age = Queue!Older(r.age) /\ s \in Record
          /\ s.removed = r.removed
    BY TickRecords
  <1>2. \A r, s \in records : r.proposal.workID = s.proposal.workID => r = s
    BY DEF Queue!TypeOK
  <1>3. ASSUME NEW r \in records', NEW s \in records', r.proposal.workID = s.proposal.workID
        PROVE  r = s
    <2>1. PICK x \in records : /\ r.proposal = x.proposal /\ r.age = Queue!Older(x.age) /\ r \in Record
                               /\ r.removed = x.removed
      BY <1>1
    <2>2. PICK y \in records : /\ s.proposal = y.proposal /\ s.age = Queue!Older(y.age) /\ s \in Record
                               /\ s.removed = y.removed
      BY <1>1
    <2>3. x = y
      BY <2>1, <2>2, <1>2, <1>3
    <2>4. r.proposal = s.proposal /\ r.age = s.age /\ r.removed = s.removed
      BY <2>1, <2>2, <2>3
    <2> QED
      BY <2>1, <2>2, <2>4 DEF Record
  <1>4. ASSUME NEW r \in records, NEW s \in records', r.proposal.workID = s.proposal.workID
        PROVE  s.proposal = r.proposal /\ (r.removed => s.removed)
    <2>1. PICK x \in records : s.proposal = x.proposal /\ s.removed = x.removed
      BY <1>1
    <2>2. x = r
      BY <2>1, <1>2, <1>4
    <2> QED
      BY <2>1, <2>2
  <1>5. records' \subseteq Record
    BY <1>1
  <1> QED
    BY <1>3, <1>4, <1>5 DEF StepKeeps

\* Every step.
LEMMA NextKeeps == ASSUME Queue!TypeOK, OneProposal, [Queue!Next]_queueVars PROVE StepKeeps
PROOF
  <1>1. ASSUME UNCHANGED records PROVE StepKeeps
    BY <1>1 DEF StepKeeps, Queue!TypeOK, Record
  <1>2. CASE UNCHANGED queueVars
    BY <1>1, <1>2 DEF queueVars
  <1>3. ASSUME NEW ps \in SUBSET Queue!Proposal, Queue!NextRound(ps) PROVE StepKeeps
    BY <1>1, <1>3 DEF Queue!NextRound
  <1>4. CASE Queue!AddToProposalQ
    BY <1>4, AddToProposalQKeeps
  <1>5. ASSUME NEW t \in Queue!UpkeepType, Queue!coordinatedProposalsTick(t) PROVE StepKeeps
    BY <1>5, DequeueStepKeeps DEF Queue!coordinatedProposalsTick
  <1>6. CASE Queue!Tick
    BY <1>6, TickStepKeeps
  <1>7. CASE Queue!Restart
    BY <1>7 DEF Queue!Restart, StepKeeps
  <1> QED
    BY <1>2, <1>3, <1>4, <1>5, <1>6, <1>7
       DEF Queue!Next, Queue!FinalRecoveryFlow, Queue!FinalConditionalFlow, Queue!UpkeepType

-----------------------------------------------------------------------------
(* The inductive invariant.                                                *)

\* The rounds after a tick are those before, older.
LEMMA TickRounds ==
  ASSUME Queue!TypeOK, Queue!Tick
  PROVE  /\ rounds' \in Seq([proposals : SUBSET Queue!Proposal, age : Queue!Age])
         /\ Len(rounds') = Len(rounds)
         /\ \A i \in 1..Len(rounds) : /\ rounds'[i].proposals = rounds[i].proposals
                                      /\ rounds'[i].age = Queue!Older(rounds[i].age)
PROOF
  <1> DEFINE R == [proposals : SUBSET Queue!Proposal, age : Queue!Age]
             aged(i) == [rounds[i] EXCEPT !.age = Queue!Older(@)]
  <1>1. rounds \in Seq(R) /\ Len(rounds) \in Nat
    BY DEF Queue!TypeOK
  <1>2. \A i \in 1..Len(rounds) : rounds[i] \in R
    BY <1>1, ElementOf
  <1>3. \A i \in 1..Len(rounds) : /\ aged(i) \in R /\ aged(i).proposals = rounds[i].proposals
                                  /\ aged(i).age = Queue!Older(rounds[i].age)
    BY <1>2, OlderMonotone
  <1>4. rounds' = [i \in 1..Len(rounds) |-> aged(i)]
    BY DEF Queue!Tick
  <1> HIDE DEF R, aged
  <1>5. rounds' \in Seq(R) /\ Len(rounds') = Len(rounds)
    BY <1>1, <1>3, <1>4
  <1> QED
    BY <1>3, <1>4, <1>5 DEF R

\* A work has one proposal in the rounds after every step.
LEMMA OneProposalKept == ASSUME Queue!TypeOK, OneProposal, [Queue!Next]_queueVars PROVE OneProposal'
PROOF
  <1>1. ASSUME UNCHANGED rounds PROVE OneProposal'
    BY <1>1 DEF OneProposal
  <1>2. ASSUME NEW ps \in SUBSET Queue!Proposal, Queue!NextRound(ps) PROVE OneProposal'
    <2> SUFFICES ASSUME NEW i \in 1..Len(rounds'), NEW j \in 1..Len(rounds'),
                        NEW p \in rounds'[i].proposals, NEW q \in rounds'[j].proposals,
                        p.workID = q.workID
                 PROVE  p = q
      BY DEF OneProposal
    <2>1. /\ \A x, y \in ps : x.workID = y.workID => x = y
          /\ \A x \in ps, y \in Queue!Surfaced : x.workID # y.workID
      BY <1>2 DEF Queue!NextRound
    <2>2. \A k \in 1..Len(rounds') : \/ rounds'[k] = [proposals |-> ps, age |-> 0]
                                     \/ \E l \in 1..Len(rounds) : rounds'[k] = rounds[l]
      BY <1>2, NextRoundRounds
    <2>3. \A k \in 1..Len(rounds') : \/ rounds'[k].proposals = ps
                                     \/ \E l \in 1..Len(rounds) : rounds'[k].proposals = rounds[l].proposals
      BY <2>2
    <2>4. /\ p \in ps \/ \E k \in 1..Len(rounds) : p \in rounds[k].proposals
          /\ q \in ps \/ \E k \in 1..Len(rounds) : q \in rounds[k].proposals
      BY <2>3
    <2>5. CASE p \in ps /\ q \in ps
      BY <2>1, <2>5
    <2>6. CASE p \in Queue!Surfaced /\ q \in Queue!Surfaced
      BY <2>6 DEF OneProposal, Queue!Surfaced
    <2>7. p \in ps \/ p \in Queue!Surfaced
      BY <2>4 DEF Queue!Surfaced
    <2>8. q \in ps \/ q \in Queue!Surfaced
      BY <2>4 DEF Queue!Surfaced
    <2> QED
      BY <2>1, <2>5, <2>6, <2>7, <2>8
  <1>3. CASE Queue!Tick
    <2>1. /\ Len(rounds') = Len(rounds)
          /\ \A i \in 1..Len(rounds) : rounds'[i].proposals = rounds[i].proposals
      BY <1>3, TickRounds
    <2> QED
      BY <2>1 DEF OneProposal
  <1> QED
    BY <1>1, <1>2, <1>3
       DEF Queue!Next, queueVars, Queue!AddToProposalQ, Queue!FinalRecoveryFlow,
           Queue!FinalConditionalFlow,
                            Queue!coordinatedProposalsTick, Queue!Restart

\* The types.
LEMMA TypeKept == ASSUME Queue!TypeOK, OneProposal, [Queue!Next]_queueVars PROVE Queue!TypeOK'
PROOF
  <1>1. /\ records' \subseteq [proposal : Queue!Proposal, removed : BOOLEAN, age : Queue!Age]
        /\ \A r, s \in records' : r.proposal.workID = s.proposal.workID => r = s
    BY NextKeeps DEF StepKeeps, Record
  <1>2. rounds' \in Seq([proposals : SUBSET Queue!Proposal, age : Queue!Age])
    <2>1. ASSUME UNCHANGED rounds PROVE rounds' \in Seq([proposals : SUBSET Queue!Proposal, age : Queue!Age])
      BY <2>1 DEF Queue!TypeOK
    <2>2. ASSUME NEW ps \in SUBSET Queue!Proposal, Queue!NextRound(ps)
          PROVE  rounds' \in Seq([proposals : SUBSET Queue!Proposal, age : Queue!Age])
      BY <2>2, NextRoundRounds
    <2>3. ASSUME Queue!Tick PROVE rounds' \in Seq([proposals : SUBSET Queue!Proposal, age : Queue!Age])
      BY <2>3, TickRounds
    <2> QED
      BY <2>1, <2>2, <2>3
         DEF Queue!Next, queueVars, Queue!AddToProposalQ, Queue!FinalRecoveryFlow,
             Queue!FinalConditionalFlow,
                              Queue!coordinatedProposalsTick, Queue!Restart
  <1>3. ran' \in [Queue!Proposal -> 0..2]
    <2>1. ran \in [Queue!Proposal -> 0..2]
      BY DEF Queue!TypeOK
    <2>2. ASSUME UNCHANGED ran PROVE ran' \in [Queue!Proposal -> 0..2]
      BY <2>1, <2>2
    <2>3. ASSUME NEW ps, Queue!NextRound(ps) PROVE ran' \in [Queue!Proposal -> 0..2]
      BY <2>1, <2>3 DEF Queue!NextRound
    <2>4. ASSUME NEW t, Queue!coordinatedProposalsTick(t) PROVE ran' \in [Queue!Proposal -> 0..2]
      BY <2>1, <2>4 DEF Queue!coordinatedProposalsTick, Queue!RanAgain
    <2>5. CASE Queue!Restart
      BY <2>5 DEF Queue!Restart
    <2> QED
      BY <2>2, <2>3, <2>4, <2>5
         DEF Queue!Next, queueVars, Queue!AddToProposalQ, Queue!FinalRecoveryFlow,
                                    Queue!FinalConditionalFlow, Queue!Tick
  <1>4. lapsed' \in BOOLEAN
    BY DEF Queue!Next, queueVars, Queue!TypeOK
  <1> QED
    BY <1>1, <1>2, <1>3, <1>4 DEF Queue!TypeOK

\* What the invariant says of a proposal in the rounds, as a step has to restore it.
RunsOnce(i) ==
  \A p \in rounds[i].proposals : ran[p] = 0 \/ (ran[p] = 1 /\ Remembered(records, p, rounds[i].age))

\* NextRound forgets how often the new proposals were run and keeps what the queue
\* remembers of the others; a record of a new proposal would break NewerBlock.
LEMMA NextRoundOnce ==
  ASSUME IInv, ~lapsed, Queue!NewerBlock, NEW ps \in SUBSET Queue!Proposal, Queue!NextRound(ps)
  PROVE  YoungRecords' /\ \A i \in 1..Len(rounds') : RunsOnce(i)'
PROOF
  <1>1. /\ Queue!TypeOK /\ YoungRecords
        /\ \A i \in 1..Len(rounds) : RunsOnce(i)
    BY DEF IInv, RunsOnce
  <1>2. /\ ran' = [p \in Queue!Proposal |-> IF p \in ps THEN 0 ELSE ran[p]]
        /\ records' = records
        /\ \A p \in ps, q \in Queue!Surfaced : p.workID # q.workID
    BY DEF Queue!NextRound
  <1>3. ASSUME NEW i \in 1..Len(rounds')
        PROVE  \/ rounds'[i] = [proposals |-> ps, age |-> 0]
               \/ \E j \in 1..Len(rounds) : rounds'[i] = rounds[j]
    BY <1>1, NextRoundRounds
  <1>4. ASSUME NEW i \in 1..Len(rounds') PROVE RunsOnce(i)'
    <2>1. CASE rounds'[i] = [proposals |-> ps, age |-> 0]
      BY <2>1, <1>2 DEF RunsOnce
    <2>2. ASSUME NEW j \in 1..Len(rounds), rounds'[i] = rounds[j] PROVE RunsOnce(i)'
      <3> SUFFICES ASSUME NEW p \in rounds'[i].proposals
                   PROVE  ran'[p] = 0 \/ (ran'[p] = 1 /\ Remembered(records', p, rounds'[i].age))
        BY DEF RunsOnce
      <3>1. p \in Queue!Proposal
        BY <2>2, <1>1, SurfacedType DEF Queue!Surfaced
      <3>2. ran[p] = 0 \/ (ran[p] = 1 /\ Remembered(records, p, rounds[j].age))
        BY <1>1, <2>2 DEF RunsOnce
      <3> QED
        BY <3>1, <3>2, <1>2, <2>2
    <2> QED
      BY <1>3, <2>1, <2>2
  <1>5. YoungRecords'
    <2> SUFFICES ASSUME NEW i \in 1..Len(rounds'), NEW r \in records,
                        r.proposal \in rounds'[i].proposals
                 PROVE  r.age <= rounds'[i].age
      BY <1>2 DEF YoungRecords
    <2>1. CASE rounds'[i] = [proposals |-> ps, age |-> 0]
      <3>1. r.proposal \in ps /\ r.proposal \in Queue!Surfaced'
        BY <2>1 DEF Queue!Surfaced
      <3>2. r.proposal \notin Queue!Surfaced
        BY <3>1, <1>2
      <3>3. r.proposal.block < r.proposal.block
        BY <3>1, <3>2 DEF Queue!NewerBlock
      <3>4. r.proposal.block \in Nat
        BY <1>1, ProposalQueueAssumption DEF Queue!TypeOK, Queue!Proposal
      <3> QED
        BY <3>3, <3>4
    <2>2. ASSUME NEW j \in 1..Len(rounds), rounds'[i] = rounds[j] PROVE r.age <= rounds'[i].age
      BY <2>2, <1>1 DEF YoungRecords
    <2> QED
      BY <1>3, <2>1, <2>2
  <1> QED
    BY <1>4, <1>5

\* Enqueue replaces the record that remembers a proposal only by one on a newer block.
LEMMA AddToProposalQOnce ==
  ASSUME IInv, ~lapsed, Queue!AddToProposalQ
  PROVE  YoungRecords' /\ \A i \in 1..Len(rounds') : RunsOnce(i)'
PROOF
  <1>1. /\ Queue!TypeOK /\ OneProposal /\ YoungRecords
        /\ \A i \in 1..Len(rounds) : RunsOnce(i)
    BY DEF IInv, RunsOnce
  <1>2. records' = Queue!Enqueue(Queue!Surfaced) /\ rounds' = rounds /\ ran' = ran
    BY DEF Queue!AddToProposalQ
  <1>3. Queue!Surfaced \subseteq Queue!Proposal
    BY <1>1, SurfacedType
  <1>4. \A p, q \in Queue!Surfaced : p.workID = q.workID => p = q
    BY <1>1 DEF OneProposal, Queue!Surfaced
  <1>5. /\ records' \subseteq Record
        /\ \A r \in records : \E s \in records' :
             \/ s = r
             \/ s.proposal.workID = r.proposal.workID /\ s.proposal.block > r.proposal.block
                  /\ s.age = 0
    BY <1>1, <1>2, <1>3, <1>4, EnqueueKeeps
  <1>6. \A i \in 1..Len(rounds) : rounds[i].age \in Nat
    <2>1. \A i \in 1..Len(rounds) : rounds[i] \in [proposals : SUBSET Queue!Proposal, age : Queue!Age]
      BY <1>1, ElementOf DEF Queue!TypeOK
    <2> QED
      BY <2>1, ProposalQueueAssumption DEF Queue!Age
  <1>7. ASSUME NEW i \in 1..Len(rounds'), NEW p \in rounds'[i].proposals
        PROVE  ran'[p] = 0 \/ (ran'[p] = 1 /\ Remembered(records', p, rounds'[i].age))
    <2>1. CASE ran[p] = 0
      BY <2>1, <1>2
    <2>2. CASE ran[p] = 1 /\ Remembered(records, p, rounds[i].age)
      <3>1. PICK r \in records :
              /\ r.proposal.workID = p.workID /\ r.age <= rounds[i].age
              /\ (r.proposal = p /\ r.removed) \/ r.proposal.block > p.block
        BY <2>2 DEF Remembered
      <3>2. PICK s \in records' :
              \/ s = r
              \/ s.proposal.workID = r.proposal.workID /\ s.proposal.block > r.proposal.block
                   /\ s.age = 0
        BY <1>5
      <3>3. CASE s = r
        <4>1. Remembered(records', p, rounds'[i].age)
          BY <3>1, <3>3, <1>2 DEF Remembered
        <4> QED
          BY <2>2, <4>1, <1>2
      <3>4. CASE s # r
        <4>1. p \in Queue!Proposal
          BY <1>2, <1>3 DEF Queue!Surfaced
        <4>2. p.block \in Nat /\ r.proposal.block \in Nat /\ s.proposal.block \in Nat
          BY <4>1, <1>1, <1>5, ProposalQueueAssumption DEF Queue!TypeOK, Queue!Proposal, Record
        <4>3. s.proposal.block > p.block
          BY <3>1, <3>2, <3>4, <4>2
        <4>4. s.proposal.workID = p.workID /\ s.age = 0
          BY <3>1, <3>2, <3>4
        <4>5. s.age <= rounds'[i].age
          BY <4>4, <1>2, <1>6
        <4>6. Remembered(records', p, rounds'[i].age)
          BY <4>3, <4>4, <4>5 DEF Remembered
        <4> QED
          BY <2>2, <4>6, <1>2
      <3> QED
        BY <3>3, <3>4
    <2> QED
      BY <1>1, <1>2, <2>1, <2>2 DEF RunsOnce
  <1>8. ASSUME NEW i \in 1..Len(rounds'), NEW s \in records', s.proposal \in rounds'[i].proposals
        PROVE  s.age <= rounds'[i].age
    <2>1. s \in records \/ s.age = 0
      BY <1>2 DEF Queue!Enqueue
    <2> QED
      BY <2>1, <1>1, <1>2, <1>6, <1>8 DEF YoungRecords
  <1>9. YoungRecords'
    BY <1>8 DEF YoungRecords
  <1> QED
    BY <1>7, <1>9 DEF RunsOnce

\* A proposal that is taken was not run before, and is remembered by the record that is
\* marked; as long as the rounds are fast no record that remembers one is expired.
LEMMA FlowOnce ==
  ASSUME IInv, ~lapsed, NEW t \in Queue!UpkeepType, Queue!coordinatedProposalsTick(t)
  PROVE  YoungRecords' /\ \A i \in 1..Len(rounds') : RunsOnce(i)'
PROOF
  <1>1. /\ Queue!TypeOK /\ Queue!RoundsFast /\ YoungRecords
        /\ \A i \in 1..Len(rounds) : RunsOnce(i)
    BY DEF IInv, RunsOnce
  <1>2. PICK batch \in SUBSET Queue!Pending(t) : 
          /\ Queue!Dequeue(t, batch)
          /\ \E built \in SUBSET {r.proposal : r \in batch} :
               ran' = [p \in Queue!Proposal |-> IF p \in built THEN Queue!RanAgain(ran[p]) ELSE ran[p]]
          /\ rounds' = rounds
    BY DEF Queue!coordinatedProposalsTick
  <1>3. PICK built \in SUBSET {r.proposal : r \in batch} :
          ran' = [p \in Queue!Proposal |-> IF p \in built THEN Queue!RanAgain(ran[p]) ELSE ran[p]]
    BY <1>2
  <1>4. /\ \A s \in records' : \E r \in records : s.proposal = r.proposal /\ s.age = r.age
        /\ \A r \in records : ~Queue!Expired(r) => \E s \in records' :
             /\ s.proposal = r.proposal /\ s.age = r.age
             /\ s.removed = (r.removed \/ r \in batch)
    BY <1>1, <1>2, DequeueRecords
  <1>5. \A r, s \in records : r.proposal.workID = s.proposal.workID => r = s
    BY <1>1 DEF Queue!TypeOK
  <1>6. ASSUME NEW r \in records, NEW i \in 1..Len(rounds), r.age <= rounds[i].age
        PROVE  ~Queue!Expired(r)
    <2>1. rounds \in Seq([proposals : SUBSET Queue!Proposal, age : Queue!Age]) /\ r.age \in Queue!Age
      BY <1>1 DEF Queue!TypeOK
    <2>2. rounds[i] \in [proposals : SUBSET Queue!Proposal, age : Queue!Age]
      BY <2>1, ElementOf
    <2>3. rounds[i].age \in Queue!Age /\ rounds[i].age <= ProposalExpiry
      BY <1>1, <2>2 DEF Queue!RoundsFast
    <2>4. Queue!Age \subseteq Nat /\ ProposalExpiry \in Nat
      BY ProposalQueueAssumption DEF Queue!Age
    <2>5. r.age \in Nat /\ rounds[i].age \in Nat /\ ProposalExpiry \in Nat
      BY <2>1, <2>3, <2>4
    <2>6. r.age <= rounds[i].age /\ rounds[i].age <= ProposalExpiry
      BY <1>6, <2>3
    <2> QED
      BY <2>5, <2>6 DEF Queue!Expired
  <1>7. ASSUME NEW i \in 1..Len(rounds), NEW p \in rounds[i].proposals
        PROVE  ran'[p] = 0 \/ (ran'[p] = 1 /\ Remembered(records', p, rounds[i].age))
    <2>1. p \in Queue!Proposal
      BY <1>1, SurfacedType DEF Queue!Surfaced
    <2>2. ran[p] = 0 \/ (ran[p] = 1 /\ Remembered(records, p, rounds[i].age))
      BY <1>1 DEF RunsOnce
    <2>3. CASE p \in built
      <3>1. PICK r \in batch : r.proposal = p
        BY <2>3
      <3>2. r \in records /\ ~r.removed /\ ~Queue!Expired(r)
        BY <1>2 DEF Queue!Pending
      <3>3. ~Remembered(records, p, rounds[i].age)
        <4> SUFFICES ASSUME NEW q \in records, q.proposal.workID = p.workID,
                            (q.proposal = p /\ q.removed) \/ q.proposal.block > p.block
                     PROVE  FALSE
          BY DEF Remembered
        <4>1. q = r
          BY <3>1, <3>2, <1>5
        <4>2. p.block \in Nat
          BY <2>1, ProposalQueueAssumption DEF Queue!Proposal
        <4> QED
          BY <3>1, <3>2, <4>1, <4>2
      <3>4. ran'[p] = 1
        BY <1>3, <2>1, <2>2, <2>3, <3>3 DEF Queue!RanAgain
      <3>5. r.age <= rounds[i].age
        BY <3>1, <3>2, <1>1 DEF YoungRecords
      <3>6. PICK s \in records' : /\ s.proposal = r.proposal /\ s.age = r.age
                                  /\ s.removed = (r.removed \/ r \in batch)
        BY <3>2, <1>4
      <3>7. Remembered(records', p, rounds[i].age)
        BY <3>1, <3>5, <3>6 DEF Remembered
      <3> QED
        BY <3>4, <3>7
    <2>4. CASE p \notin built
      <3>1. ran'[p] = ran[p]
        BY <1>3, <2>1, <2>4
      <3>2. CASE ran[p] = 0
        BY <3>1, <3>2
      <3>3. CASE ran[p] = 1 /\ Remembered(records, p, rounds[i].age)
        <4>1. PICK r \in records :
                /\ r.proposal.workID = p.workID /\ r.age <= rounds[i].age
                /\ (r.proposal = p /\ r.removed) \/ r.proposal.block > p.block
          BY <3>3 DEF Remembered
        <4>2. ~Queue!Expired(r)
          BY <4>1, <1>6
        <4>3. PICK s \in records' : /\ s.proposal = r.proposal /\ s.age = r.age
                                    /\ s.removed = (r.removed \/ r \in batch)
          BY <4>2, <1>4
        <4>4. Remembered(records', p, rounds[i].age)
          BY <4>1, <4>3 DEF Remembered
        <4> QED
          BY <3>1, <3>3, <4>4
      <3> QED
        BY <2>2, <3>2, <3>3
    <2> QED
      BY <2>3, <2>4
  <1>8. YoungRecords'
    BY <1>1, <1>2, <1>4 DEF YoungRecords
  <1> QED
    BY <1>2, <1>7, <1>8 DEF RunsOnce

\* Records and rounds grow older together.
LEMMA TickOnce ==
  ASSUME IInv, ~lapsed, Queue!Tick
  PROVE  YoungRecords' /\ \A i \in 1..Len(rounds') : RunsOnce(i)'
PROOF
  <1>1. /\ Queue!TypeOK /\ YoungRecords
        /\ \A i \in 1..Len(rounds) : RunsOnce(i)
    BY DEF IInv, RunsOnce
  <1>2. /\ Len(rounds') = Len(rounds)
        /\ \A i \in 1..Len(rounds) : /\ rounds'[i].proposals = rounds[i].proposals
                                     /\ rounds'[i].age = Queue!Older(rounds[i].age)
    BY <1>1, TickRounds
  <1>3. /\ \A s \in records' : \E r \in records : s.proposal = r.proposal /\ s.age = Queue!Older(r.age)
        /\ \A r \in records : \E s \in records' :
             s.proposal = r.proposal /\ s.age = Queue!Older(r.age) /\ s.removed = r.removed
    BY <1>1, TickRecords
  <1>4. ran' = ran
    BY DEF Queue!Tick
  <1>5. ASSUME NEW r \in records, NEW i \in 1..Len(rounds), r.age <= rounds[i].age
        PROVE  Queue!Older(r.age) <= rounds'[i].age
    <2>1. rounds \in Seq([proposals : SUBSET Queue!Proposal, age : Queue!Age]) /\ r.age \in Queue!Age
      BY <1>1 DEF Queue!TypeOK
    <2>2. rounds[i] \in [proposals : SUBSET Queue!Proposal, age : Queue!Age]
      BY <2>1, ElementOf
    <2>3. rounds[i].age \in Queue!Age
      BY <2>2
    <2> QED
      BY <1>5, <1>2, <2>1, <2>3, OlderMonotone
  <1>6. YoungRecords'
    BY <1>1, <1>2, <1>3, <1>5 DEF YoungRecords
  <1>7. ASSUME NEW i \in 1..Len(rounds), NEW p \in rounds[i].proposals
        PROVE  ran[p] = 0 \/ (ran[p] = 1 /\ Remembered(records', p, rounds'[i].age))
    <2>1. CASE ran[p] = 0
      BY <2>1
    <2>2. CASE ran[p] = 1 /\ Remembered(records, p, rounds[i].age)
      <3>1. PICK r \in records :
              /\ r.proposal.workID = p.workID /\ r.age <= rounds[i].age
              /\ (r.proposal = p /\ r.removed) \/ r.proposal.block > p.block
        BY <2>2 DEF Remembered
      <3>2. PICK s \in records' : s.proposal = r.proposal /\ s.age = Queue!Older(r.age) /\ s.removed = r.removed
        BY <1>3
      <3>3. s.age <= rounds'[i].age
        BY <3>1, <3>2, <1>5
      <3>4. Remembered(records', p, rounds'[i].age)
        BY <3>1, <3>2, <3>3 DEF Remembered
      <3> QED
        BY <2>2, <3>4
    <2> QED
      BY <1>1, <2>1, <2>2 DEF RunsOnce
  <1> QED
    BY <1>2, <1>4, <1>6, <1>7 DEF RunsOnce

\* The invariant holds at the start and every step keeps it.
LEMMA InitIInv == Queue!Init => IInv
PROOF
  <1> SUFFICES ASSUME Queue!Init PROVE IInv
    OBVIOUS
  <1>1. rounds = <<>> /\ Len(rounds) = 0 /\ records = {} /\ lapsed = FALSE
    BY DEF Queue!Init
  <1>2. Queue!TypeOK
    <2>1. \A S : <<>> \in Seq(S)
      OBVIOUS
    <2>2. ran \in [Queue!Proposal -> 0..2]
      BY DEF Queue!Init
    <2> QED
      BY <1>1, <2>1, <2>2, Zenon DEF Queue!TypeOK
  <1>3. OneProposal /\ Queue!RoundsFast /\ YoungRecords
    BY <1>1 DEF OneProposal, Queue!RoundsFast, YoungRecords
  <1> QED
    BY <1>1, <1>2, <1>3 DEF IInv

LEMMA NextIInv == IInv /\ [Queue!Next]_queueVars => IInv'
PROOF
  <1> SUFFICES ASSUME IInv, [Queue!Next]_queueVars PROVE IInv'
    OBVIOUS
  <1>1. Queue!TypeOK /\ OneProposal
    BY DEF IInv
  <1>2. Queue!TypeOK' /\ OneProposal'
    BY <1>1, TypeKept, OneProposalKept
  <1>3. CASE UNCHANGED queueVars
    BY <1>3 DEF IInv, queueVars, Queue!TypeOK, OneProposal, Queue!RoundsFast, YoungRecords
  <1>4. ASSUME Queue!Next, ~lapsed'
        PROVE  Queue!RoundsFast' /\ YoungRecords' /\ \A i \in 1..Len(rounds') : RunsOnce(i)'
    <2>1. ~lapsed /\ Queue!RoundsFast' /\ Queue!NewerBlock
      BY <1>4 DEF Queue!Next
    <2>2. ASSUME NEW ps \in SUBSET Queue!Proposal, Queue!NextRound(ps)
          PROVE  YoungRecords' /\ \A i \in 1..Len(rounds') : RunsOnce(i)'
      BY <2>1, <2>2, NextRoundOnce
    <2>3. CASE Queue!AddToProposalQ
      BY <2>1, <2>3, AddToProposalQOnce
    <2>4. ASSUME NEW t \in Queue!UpkeepType, Queue!coordinatedProposalsTick(t)
          PROVE  YoungRecords' /\ \A i \in 1..Len(rounds') : RunsOnce(i)'
      BY <2>1, <2>4, FlowOnce
    <2>5. CASE Queue!Tick
      BY <2>1, <2>5, TickOnce
    <2>6. CASE Queue!Restart
      <3>1. /\ rounds' = rounds /\ records' = {} /\ ran' = [p \in Queue!Proposal |-> 0]
        BY <2>6 DEF Queue!Restart
      <3>2. \A i \in 1..Len(rounds) : rounds[i].proposals \subseteq Queue!Proposal
        BY <1>1, SurfacedType DEF Queue!Surfaced
      <3> QED
        BY <2>1, <3>1, <3>2 DEF YoungRecords, RunsOnce
    <2> QED
      BY <1>4, <2>1, <2>2, <2>3, <2>4, <2>5, <2>6
         DEF Queue!Next, Queue!FinalRecoveryFlow, Queue!FinalConditionalFlow, Queue!UpkeepType
  <1> QED
    BY <1>2, <1>3, <1>4 DEF IInv, RunsOnce

LEMMA AlwaysIInv == Queue!Spec => []IInv
  BY InitIInv, NextIInv, PTL DEF Queue!Spec, Queue!vars, queueVars

-----------------------------------------------------------------------------
(* The theorems.                                                           *)

\* The queue's map, the rounds and the counters keep their types, and the map never has
\* two records of a work.
THEOREM QueueType == Queue!Spec => []Queue!TypeOK
PROOF
  <1>1. IInv => Queue!TypeOK
    BY DEF IInv
  <1> QED
    BY <1>1, AlwaysIInv, PTL

\* Enqueue, Dequeue and expiry never take the queue back: a record is replaced only by one
\* on a newer block, and what was dequeued is not pending again.
THEOREM QueueNeverGoesBack == Queue!Spec => BlocksOnlyGrow
PROOF
  <1>1. IInv /\ [Queue!Next]_queueVars =>
          [\A r \in records, s \in records' :
             r.proposal.workID = s.proposal.workID =>
               \/ s.proposal.block > r.proposal.block
               \/ s.proposal = r.proposal /\ (r.removed => s.removed)]_queueVars
    BY NextKeeps DEF StepKeeps, IInv
  <1> QED
    BY <1>1, AlwaysIInv, PTL
       DEF Queue!Spec, Queue!vars, queueVars, BlocksOnlyGrow, Queue!BlocksOnlyGrow

\* Dequeue hands a proposal to the pipeline at most once while an outcome carries it, if
\* no outcome's rounds lasted longer than a record is kept.
THEOREM ProposalsRunOnce == Queue!Spec => []RunOnce
PROOF
  <1>1. IInv => RunOnce
    <2> SUFFICES ASSUME IInv, ~lapsed, NEW i \in 1..Len(rounds), NEW p \in rounds[i].proposals
                 PROVE  ran[p] <= 1
      BY DEF RunOnce, Queue!RunOnce, Queue!Surfaced
    <2>1. ran[p] = 0 \/ ran[p] = 1
      BY DEF IInv
    <2> QED
      BY <2>1
  <1> QED
    BY <1>1, AlwaysIInv, PTL

=============================================================================
