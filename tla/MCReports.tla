------------------------------ MODULE MCReports ------------------------------
(* The two generations of the plugin building reports, one per behaviour.    *)
(* OCR3: a gas limit that one upkeep can exceed, gas that overflows, and     *)
(* outcomes long enough for a full report, a repeated upkeep and a gas cut.  *)
(* OCR2: three oracles, one of them faulty, with valid and invalid           *)
(* observations, lists longer than what is taken from them, and more keys    *)
(* than are checked.                                                         *)
EXTENDS Reports

CONSTANTS
  GasV2, Oracle, Faulty, BlockKey, Ids, Invalid, ObservationUpkeepsLimit, ReportKeysLimit

VARIABLES
  version,
  round, attributed, block, keysToCheck, checked, i, toPerform, totalReportGas

MCIds == {<<>>, <<"u1">>, <<"u2", "u3", "u1">>, <<"u4">>}

v2vars ==
  <<round, attributed, block, keysToCheck, checked, i, toPerform, totalReportGas>>

V2 == INSTANCE V2Plugin WITH Gas <- GasV2

ASSUME V2PluginAssumption ==
  /\ ObservationUpkeepsLimit \in Nat \ {0} /\ ReportKeysLimit \in Nat \ {0}
  /\ Faulty \subseteq Oracle /\ IsFiniteSet(Oracle)
  /\ BlockKey \subseteq Nat /\ GasV2 \subseteq Uint

MCInit ==
  \/ version = "OCR3" /\ Init /\ V2!RoundInit /\ attributed = <<>>
  \/ version = "OCR2" /\ performables = <<>> /\ Init /\ V2!PluginInit

MCNext ==
  /\ UNCHANGED version
  /\ \/ version = "OCR3" /\ Next /\ UNCHANGED v2vars
     \/ version = "OCR2" /\ V2!PluginNext /\ UNCHANGED vars

MCSpec == MCInit /\ [][MCNext]_<<version, vars, v2vars>>

MedianHonest == V2!MedianHonest
ReportFull == V2!ReportFull
=============================================================================
