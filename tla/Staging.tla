------------------------------- MODULE Staging -------------------------------
(***************************************************************************)
(* The hook that fills a node's observation with results from the result   *)
(* store (pkg/v3/plugin/hooks/add_from_staging.go), as Observation calls   *)
(* it in every round: order the results by an identifier shuffled with a   *)
(* source of randomness that all nodes share for RoundsPerSource rounds,   *)
(* then cut the list until the encoded observation is short enough.        *)
(*                                                                         *)
(* What the store holds and the coordinator lets through is any set of     *)
(* results; the rest of the observation has any size in BaseSize.  The     *)
(* encoding is a length, that of the rest and of each result.              *)
(***************************************************************************)
EXTENDS Integers, Sequences, SequencesExt

CONSTANTS
  Node, WorkID,
  MaxRound,                  \* rounds of the model
  RoundsPerSource,
  Shuffled,                  \* per source and work: the shuffled identifier
  ResultSize, BaseSize,      \* encoded length of each work's result, and of the rest
  ObservationPerformablesLimit, MaxObservationLength,
  None

Source == 0..(MaxRound \div RoundsPerSource)

\* On-chain limits keep a result and the rest of the observation far below the
\* maximal length.
ConstantsOK ==
  /\ MaxRound \in Nat /\ RoundsPerSource \in Nat \ {0}
  /\ ObservationPerformablesLimit \in Nat /\ MaxObservationLength \in Nat
  /\ ResultSize \in [WorkID -> Nat \ {0}] /\ BaseSize \subseteq Nat
  /\ \A w \in WorkID : \A b \in BaseSize :
       b + 2 * ResultSize[w] + ObservationPerformablesLimit <= MaxObservationLength
  /\ Shuffled \in [Source -> [WorkID -> Nat]]
  /\ \A s \in Source : \A v, w \in WorkID : Shuffled[s][v] = Shuffled[s][w] => v = w

VARIABLES
  seqNr,    \* the round
  sorter,   \* per node: the last source and the shuffled identifiers cached for it
  obs       \* per node: None, or the observation being built

vars == <<seqNr, sorter, obs>>

Init ==
  /\ seqNr = 0
  /\ sorter = [n \in Node |-> [src |-> None, ids |-> [w \in WorkID |-> None]]]
  /\ obs = [n \in Node |-> None]

RandSrc == seqNr \div RoundsPerSource

\* The nodes go to the next round; what they built before is sent.
NextRound ==
  /\ seqNr < MaxRound
  /\ seqNr' = seqNr + 1
  /\ obs' = [n \in Node |-> None]
  /\ UNCHANGED sorter

\* Mutant: the identifiers shuffled with the last source are kept.
UpdateShuffledIDsKeeping(s, results) ==
  [src |-> RandSrc,
   ids |-> [w \in WorkID |-> IF w \in results /\ s.ids[w] = None
                             THEN Shuffled[RandSrc][w] ELSE s.ids[w]]]

UpdateShuffledIDs(s, results) ==
  LET ids == IF s.src = RandSrc THEN s.ids ELSE [w \in WorkID |-> None]
  IN [src |-> RandSrc,
      ids |-> [w \in WorkID |-> IF w \in results /\ ids[w] = None
                                THEN Shuffled[RandSrc][w] ELSE ids[w]]]

OrderResults(results, ids) == SetToSortSeq(results, LAMBDA v, w : ids[v] < ids[w])

Min2(a, b) == IF a < b THEN a ELSE b

\* RunHook views and filters the results, measures the rest and orders the results.
RunHook(n) ==
  /\ obs[n] = None
  /\ \E results \in SUBSET WorkID : \E base \in BaseSize :
       LET s == UpdateShuffledIDs(sorter[n], results)
       IN /\ sorter' = [sorter EXCEPT ![n] = s]
          /\ obs' = [obs EXCEPT ![n] =
               [results |-> OrderResults(results, s.ids), base |-> base,
                limit |-> ObservationPerformablesLimit, performable |-> <<>>, done |-> FALSE]]
  /\ UNCHANGED seqNr

Length(o) == o.base + FoldLeft(LAMBDA sum, w : sum + ResultSize[w], 0, o.performable)

CeilDiv(a, b) == (a + b - 1) \div b

\* Mutant: as many results are removed as the excess amounts to, and none more.
LimitTight(o, limit) ==
  limit - (Length(o) - MaxObservationLength) \div ((Length(o) - o.base) \div limit)

\* The limit after an observation that is too long: fewer by the excess in average
\* results, and by one more.
NextLimit(o, limit) ==
  limit - (CeilDiv(Length(o) - MaxObservationLength, (Length(o) - o.base) \div limit) + 1)

\* Mutant: the check of the length is left out.
AddAll(n) ==
  /\ obs[n] # None /\ ~obs[n].done
  /\ LET limit == Min2(obs[n].limit, Len(obs[n].results))
     IN obs' = [obs EXCEPT ![n] = [@ EXCEPT !.performable = SubSeq(obs[n].results, 1, limit),
                                            !.done = TRUE]]
  /\ UNCHANGED <<seqNr, sorter>>

\* A call of addByPercentageExceeded, up to its recursive call.
AddByPercentageExceeded(n) ==
  /\ obs[n] # None /\ ~obs[n].done
  /\ LET limit == Min2(obs[n].limit, Len(obs[n].results))
         o == [obs[n] EXCEPT !.performable = SubSeq(obs[n].results, 1, limit)]
     IN obs' = [obs EXCEPT ![n] =
          IF limit <= 0 THEN [@ EXCEPT !.done = TRUE]
          ELSE IF Length(o) <= MaxObservationLength THEN [o EXCEPT !.done = TRUE]
          ELSE [o EXCEPT !.limit = NextLimit(o, limit), !.done = NextLimit(o, limit) <= 0]]
  /\ UNCHANGED <<seqNr, sorter>>

Next ==
  \/ NextRound
  \/ \E n \in Node : RunHook(n) \/ AddByPercentageExceeded(n)

Spec == Init /\ [][Next]_vars

\* Observation runs to its end.
FairSpec == Spec /\ \A n \in Node : WF_vars(AddByPercentageExceeded(n))

-----------------------------------------------------------------------------
(* Properties.                                                             *)

Done(n) == obs[n] # None /\ obs[n].done

\* The hook meets the size constraint of an observation however the sizes of the
\* results vary around their average.
ObservationFits == \A n \in Node : Done(n) => Length(obs[n]) <= MaxObservationLength

\* Nodes that have the same results in a round send the same ones, up to where one
\* had to cut its list, whatever results they ordered in earlier rounds.
SameSubset ==
  \A m, n \in Node : Done(m) /\ Done(n) /\ Range(obs[m].results) = Range(obs[n].results) =>
    \/ IsPrefix(obs[m].performable, obs[n].performable)
    \/ IsPrefix(obs[n].performable, obs[m].performable)

\* The recursion ends: every call of addByPercentageExceeded removes a result.
HookEnds == \A n \in Node : obs[n] # None ~> Done(n) \/ obs[n] = None
=============================================================================
