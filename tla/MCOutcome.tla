------------------------------ MODULE MCOutcome ------------------------------
(* A small instance of Outcome: four oracles, the fourth of them faulty.    *)
EXTENDS Outcome

Result(w, d) == [workID |-> w, data |-> d, valid |-> TRUE]
Propose(w) == [workID |-> w, valid |-> TRUE]
Block(n, h) == [number |-> n, hash |-> h]
Obs(performable, proposals, blocks) ==
  [performable |-> performable, upkeepProposals |-> proposals, blockHistory |-> blocks]

MCUniqueID == [r \in CheckResult |-> (IF r.workID = "a" THEN 0 ELSE 1)
                                       + (IF r.valid THEN 0 ELSE 2) + 4 * (3 - r.data)]

(* What correct oracles may see: two results for the work a, a fork at      *)
(* block 2, and an oracle that lags behind.  The last three are only ever   *)
(* sent by a faulty oracle: a result or a block listed twice, a zero hash.  *)
MCObservation ==
  { Obs(<<>>, <<Propose("a"), Propose("b")>>, <<Block(2, 1), Block(1, 1)>>),
    Obs(<<>>, <<Propose("b")>>, <<Block(2, 2), Block(1, 1)>>),
    Obs(<<Result("a", 1)>>, <<Propose("b")>>, <<Block(1, 1)>>),
    Obs(<<Result("a", 2), Result("b", 1)>>, <<>>, <<Block(2, 1)>>),
    Obs(<<Result("b", 1), Result("a", 1)>>, <<>>, <<>>),
    Obs(<<Result("a", 2), Result("a", 2)>>, <<>>, <<>>),
    Obs(<<>>, <<>>, <<Block(2, 2), Block(2, 2)>>),
    Obs(<<>>, <<[workID |-> "b", valid |-> FALSE]>>, <<Block(2, 0)>>),
    Obs(<<>>, <<>>, <<Block(2, 0), Block(1, 0)>>) }

MCOracle == 1..4
=============================================================================
