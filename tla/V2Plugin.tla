------------------------------ MODULE V2Plugin ------------------------------
(***************************************************************************)
(* How the OCR2 plugin (pkg/v2/ocr.go, observation.go, shuffle.go) turns   *)
(* the observations of a round into a report: the median block, the keys   *)
(* that are not pending, the check of a bounded number of them and the     *)
(* choice of those that fit into a report.                                 *)
(*                                                                         *)
(* Every key of a round has the median block, so a key is its upkeep.  The *)
(* keys are shuffled before they are cut and the runner returns them in    *)
(* any order, so up to there they are sets.                                *)
(***************************************************************************)
EXTENDS Integers, Sequences, FiniteSets, FiniteSetsExt, Functions

CONSTANTS
  Oracle, Faulty,
  BlockKey, Gas,
  Ids,                        \* lists of identifiers that observations hold
  Invalid,                    \* an observation that does not decode or validate
  ObservationUpkeepsLimit, ReportKeysLimit,
  MaxUpkeepBatchSize, GasLimitPerReport, GasOverheadPerUpkeep,
  UintRange                   \* 2^32

\* What the encoder says of a result: Eligible's answer, with or without an error,
\* or no detail at all.
Verdict == {"eligible", "ineligible", "unknown", "eligible, with an error", "no detail"}

UpkeepResult(keys) == [id : keys, gas : Gas, verdict : Verdict]
Observation == [block : BlockKey, ids : Ids] \cup {Invalid}

VARIABLES
  round,       \* collect, filter, check, build, or how the round ended: report, none, failed
  attributed,  \* the observations, by oracle
  block,       \* medianBlock
  keysToCheck,
  checked, i,  \* the results, and the one the loop is at
  toPerform, totalReportGas

pluginVars ==
  <<round, attributed, block, keysToCheck, checked, i, toPerform, totalReportGas>>

RoundInit ==
  /\ round = "collect"
  /\ block = 0
  /\ keysToCheck = {}
  /\ checked = <<>> /\ i = 1
  /\ toPerform = {} /\ totalReportGas = 0

Cut(ids) == SubSeq(ids, 1, Min({Len(ids), ObservationUpkeepsLimit}))

\* As many identifiers as fit into the bytes of an observation; when not even the
\* first does, what is sent is empty and decodes to nothing.
limitedLengthEncode(b, ids) ==
  IF ids = <<>> THEN {[block |-> b, ids |-> ids]}
  ELSE {[block |-> b, ids |-> SubSeq(ids, 1, n)] : n \in 1..Len(ids)} \cup {Invalid}

\* What an oracle that keeps to the code may send: the block and the shuffled list of
\* its observer, which before the first head are a block that does not validate.
Observed == {Invalid} \cup UNION {limitedLengthEncode(b, Cut(ids)) : b \in BlockKey, ids \in Ids}

\* A faulty oracle sends anything.
PluginInit ==
  /\ \E quorum \in SUBSET Oracle \ {{}} :
       /\ attributed \in [quorum -> Observed \cup Observation]
       /\ \A o \in quorum \ Faulty : attributed[o] \in Observed
  /\ RoundInit

Ends(how) ==
  /\ round' = how
  /\ UNCHANGED <<attributed, block, keysToCheck, checked, i, toPerform, totalReportGas>>

-----------------------------------------------------------------------------

Valid == {o \in DOMAIN attributed : attributed[o] # Invalid}

Below(b) == Cardinality({o \in Valid : attributed[o].block < b})
UpTo(b) == Cardinality({o \in Valid : attributed[o].block <= b})

\* Mutant: the highest block.
GetMedianHighest == Max({attributed[o].block : o \in Valid})

\* The element in the middle of the sorted blocks, the higher of two.
GetMedian ==
  CHOOSE b \in BlockKey : Below(b) <= Cardinality(Valid) \div 2 /\ Cardinality(Valid) \div 2 < UpTo(b)

TakenFrom(ids) == {ids[k] : k \in 1..Min({Len(ids), ObservationUpkeepsLimit})}

\* ObservationsToUpkeepKeys
Collect ==
  /\ round = "collect" /\ Valid # {}
  /\ block' = GetMedian
  /\ keysToCheck' = UNION {TakenFrom(attributed[o].ids) : o \in Valid}
  /\ round' = "filter"
  /\ UNCHANGED <<attributed, checked, i, toPerform, totalReportGas>>

\* ErrTooManyErrors
CollectFails == round = "collect" /\ Valid = {} /\ Ends("failed")

\* filterDedupeShuffleObservations, with IsPending as the filter, and the cut.  The
\* observations are not looked at any more, and the block is the same in every key.
Filter ==
  /\ round = "filter"
  /\ \E left \in SUBSET keysToCheck :
       /\ keysToCheck' \in kSubset(Min({Cardinality(left), ReportKeysLimit}), left)
       /\ round' = IF left = {} THEN "none" ELSE "check"
  /\ attributed' = <<>> /\ block' = 0
  /\ UNCHANGED <<checked, i, toPerform, totalReportGas>>

\* The runner leaves out the upkeeps of the calls that failed.
CheckUpkeep ==
  /\ round = "check"
  /\ \E n \in 1..ReportKeysLimit :
       checked' \in {s \in [1..n -> UpkeepResult(keysToCheck)] : IsInjective([k \in 1..n |-> s[k].id])}
  /\ round' = "build"
  /\ keysToCheck' = {}
  /\ UNCHANGED <<attributed, block, i, toPerform, totalReportGas>>

CheckFindsNothing == round = "check" /\ Ends("none")
CheckFails == round = "check" /\ Ends("failed")

\* Only an upkeep that is called eligible together with an error is left out for
\* its eligibility.
Skipped(r) == r.verdict \in {"eligible, with an error", "no detail"}

Wrapped(n) == n % UintRange
upkeepMaxGas(r) == Wrapped(r.gas + GasOverheadPerUpkeep)

\* Mutant: a full report ends the loop only after one more.
BuildingLate == round = "build" /\ i <= Len(checked) /\ Cardinality(toPerform) <= MaxUpkeepBatchSize

Building == round = "build" /\ i <= Len(checked) /\ Cardinality(toPerform) < MaxUpkeepBatchSize

BuildStep ==
  /\ Building
  /\ LET r == checked[i]
         skip == Skipped(r) \/ Wrapped(totalReportGas + upkeepMaxGas(r)) > GasLimitPerReport
     IN  /\ toPerform' = IF skip THEN toPerform ELSE toPerform \cup {r}
         /\ totalReportGas' = IF skip THEN totalReportGas
                                      ELSE Wrapped(totalReportGas + upkeepMaxGas(r))
  /\ i' = i + 1
  /\ UNCHANGED <<round, attributed, block, keysToCheck, checked>>

BuildEnds ==
  /\ round = "build" /\ ~Building
  /\ Ends(IF toPerform = {} THEN "none" ELSE "report")

\* EncodeReport fails.
BuildFails == round = "build" /\ ~Building /\ toPerform # {} /\ Ends("failed")

PluginNext ==
  \/ Collect \/ CollectFails \/ Filter
  \/ CheckUpkeep \/ CheckFindsNothing \/ CheckFails
  \/ BuildStep \/ BuildEnds \/ BuildFails

PluginSpec == PluginInit /\ [][PluginNext]_pluginVars

-----------------------------------------------------------------------------
(* Properties.                                                             *)

Honest == Valid \ Faulty

\* The block a report is made for is not in the hands of faulty nodes: it lies
\* between the blocks of two honest nodes of the round.  That takes more valid
\* observations of honest nodes than of faulty ones: a node that has not seen a head
\* yet, or that staged an identifier it could not split, sends one that is not.
MedianHonest ==
  round = "filter" /\ Cardinality(Honest) > Cardinality(Valid \cap Faulty) =>
    /\ \E o \in Honest : attributed[o].block <= block
    /\ \E o \in Honest : attributed[o].block >= block

Needs(r) == r.gas + GasOverheadPerUpkeep

NoOverflow ==
  \A k \in DOMAIN checked : Needs(checked[k]) + GasLimitPerReport < UintRange

Spent == SumFunction([r \in toPerform |-> Needs(r)])

\* "We don't break here since there could be an upkeep with the lower gas limit so
\* there could be a space for it in the report": a report is within the gas and the
\* batch limit, and unless it holds a full batch no upkeep that was checked and left
\* out would still fit.
ReportFull ==
  round = "report" /\ NoOverflow =>
    /\ Spent <= GasLimitPerReport
    /\ Cardinality(toPerform) <= MaxUpkeepBatchSize
    /\ \/ Cardinality(toPerform) = MaxUpkeepBatchSize
       \/ \A k \in DOMAIN checked :
            \/ Skipped(checked[k]) \/ checked[k] \in toPerform
            \/ Spent + Needs(checked[k]) > GasLimitPerReport

=============================================================================
