---------------------------- MODULE MCObservation ----------------------------
(* What the hooks of an observation take from a node's stores, one store per   *)
(* behaviour: they share no state.                                             *)
(*   - proposals from the metadata store: three log works, enough for a        *)
(*     deletion to shift two later keys, and a conditional one;                *)
(*   - results from the result store, at two nodes: results of unequal size    *)
(*     that do not all fit, and rounds on either side of a change of the       *)
(*     source of randomness.                                                   *)
EXTENDS MetadataStore

CONSTANTS
  Node, ResultID, MaxRound, RoundsPerSource, Shuffled, ResultSize, BaseSize,
  ObservationPerformablesLimit, MaxObservationLength

VARIABLES
  focus,                   \* the store that is looked at
  seqNr, sorter, building  \* Staging

Hook == INSTANCE Staging WITH WorkID <- ResultID, obs <- building

ASSUME StagingAssumption == Hook!ConstantsOK

CONSTANTS r1, r2, r3, r4

MCResultID == {r1, r2, r3, r4}
MCResultSize == r1 :> 5 @@ r2 :> 5 @@ r3 :> 5 @@ r4 :> 2
MCShuffled ==
  0 :> (r1 :> 1 @@ r2 :> 2 @@ r3 :> 3 @@ r4 :> 4)
  @@ 1 :> (r1 :> 4 @@ r2 :> 3 @@ r3 :> 1 @@ r4 :> 2)

hookVars == <<seqNr, sorter, building>>
all == <<focus, vars, hookVars>>

MCInit == focus \in {"metadata", "results"} /\ Init /\ Hook!Init

Results(step) == focus = "results" /\ step /\ UNCHANGED <<focus, vars>>

MCNext ==
  \/ focus = "metadata" /\ Next /\ UNCHANGED <<focus, hookVars>>
  \/ Results(Hook!Next)

\* Observation runs to its end.
MCSpec ==
  /\ MCInit /\ [][MCNext]_all
  /\ \A n \in Node : WF_all(Results(Hook!AddByPercentageExceeded(n)))

ObservationFits == Hook!ObservationFits
SameSubset == Hook!SameSubset
HookEnds == Hook!HookEnds
=============================================================================
