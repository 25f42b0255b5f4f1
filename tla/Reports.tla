------------------------------- MODULE Reports -------------------------------
(***************************************************************************)
(* The Reports phase of the OCR3 plugin (pkg/v3/plugin/ocr3.go): how the   *)
(* agreed performables of an outcome are cut into reports.  The loop takes *)
(* the performables in order, so the pending list toPerform and every      *)
(* report is an interval of positions of the outcome; what is modelled is  *)
(* where the cuts are made.  Gas is counted in unsigned integers of the    *)
(* code's width.                                                           *)
(***************************************************************************)
EXTENDS Integers, Sequences, FiniteSets, Functions

CONSTANTS
  UpkeepID,
  Gas,                    \* values of GasAllocated
  PerformablesLimit,      \* OutcomeAgreedPerformablesLimit
  MaxUpkeepBatchSize, GasLimitPerReport, GasOverheadPerUpkeep,
  UintRange               \* 2^64

Uint == 0..(UintRange - 1)
Performable == [upkeepID : UpkeepID, gas : Gas]

\* The limits are 32-bit, so that twice the gas limit does not overflow.
ASSUME ReportsAssumption ==
  /\ PerformablesLimit \in Nat
  /\ MaxUpkeepBatchSize \in Nat \ {0}
  /\ UintRange \in Nat \ {0}
  /\ GasLimitPerReport \in Uint /\ GasOverheadPerUpkeep \in Uint
  /\ 2 * GasLimitPerReport < UintRange
  /\ Gas \subseteq Uint \ {0}

\* OutcomeAgreedPerformablesLimit is what the plugin declares to libocr.
MaxReportCount == PerformablesLimit

VARIABLES
  performables,  \* outcome.AgreedPerformables
  first, next,   \* toPerform is performables[first .. next - 1]
  gasUsed, seenUpkeepIDs,
  reports,       \* the intervals encoded so far
  status         \* "loop", "done" or "failed" (an encoding error)

vars == <<performables, first, next, gasUsed, seenUpkeepIDs, reports, status>>

Init ==
  /\ \E n \in 0..PerformablesLimit : performables \in [1..n -> Performable]
  /\ first = 1 /\ next = 1
  /\ gasUsed = 0
  /\ seenUpkeepIDs = {}
  /\ reports = <<>>
  /\ status = "loop"

-----------------------------------------------------------------------------

Plus(a, b) == (a + b) % UintRange

Charge(p) == Plus(p.gas, GasOverheadPerUpkeep)

\* Mutant: a report may hold one performable more.
FullLate(p) ==
  \/ next - first > MaxUpkeepBatchSize
  \/ Plus(Plus(gasUsed, p.gas), GasOverheadPerUpkeep) > GasLimitPerReport
  \/ p.upkeepID \in seenUpkeepIDs

\* The performable does not go into the pending report.
Full(p) ==
  \/ next - first >= MaxUpkeepBatchSize
  \/ Plus(Plus(gasUsed, p.gas), GasOverheadPerUpkeep) > GasLimitPerReport
  \/ p.upkeepID \in seenUpkeepIDs

Report(a, b) == [first |-> a, last |-> b]

Fail ==
  /\ status' = "failed"
  /\ UNCHANGED <<performables, first, next, gasUsed, seenUpkeepIDs, reports>>

\* Mutant: the gas of the performable that opens a report is not counted.
StepUncharged ==
  /\ status = "loop" /\ next <= Len(performables)
  /\ LET p == performables[next]
     IN IF Full(p)
        THEN /\ reports' = Append(reports, Report(first, next - 1))
             /\ first' = next
             /\ gasUsed' = 0
             /\ seenUpkeepIDs' = {p.upkeepID}
        ELSE /\ gasUsed' = Plus(gasUsed, Charge(p))
             /\ seenUpkeepIDs' = seenUpkeepIDs \cup {p.upkeepID}
             /\ UNCHANGED <<first, reports>>
  /\ next' = next + 1
  /\ UNCHANGED <<performables, status>>

\* Mutant: the performable that did not fit is left out.
StepSkips ==
  /\ status = "loop" /\ next <= Len(performables)
  /\ LET p == performables[next]
     IN IF Full(p)
        THEN /\ reports' = Append(reports, Report(first, next - 1))
             /\ first' = next + 1
             /\ gasUsed' = Charge(p)
             /\ seenUpkeepIDs' = {p.upkeepID}
        ELSE /\ gasUsed' = Plus(gasUsed, Charge(p))
             /\ seenUpkeepIDs' = seenUpkeepIDs \cup {p.upkeepID}
             /\ UNCHANGED <<first, reports>>
  /\ next' = next + 1
  /\ UNCHANGED <<performables, status>>

\* Mutant: the performable that did not fit is looked at again.
StepAgain ==
  /\ status = "loop" /\ next <= Len(performables)
  /\ LET p == performables[next]
     IN IF Full(p)
        THEN /\ reports' = Append(reports, Report(first, next - 1))
             /\ first' = next
             /\ gasUsed' = 0
             /\ seenUpkeepIDs' = {}
             /\ next' = next
        ELSE /\ gasUsed' = Plus(gasUsed, Charge(p))
             /\ seenUpkeepIDs' = seenUpkeepIDs \cup {p.upkeepID}
             /\ next' = next + 1
             /\ UNCHANGED <<first, reports>>
  /\ UNCHANGED <<performables, status>>

\* One turn of the loop.
Step ==
  /\ status = "loop" /\ next <= Len(performables)
  /\ LET p == performables[next]
     IN IF Full(p)
        THEN /\ reports' = Append(reports, Report(first, next - 1))
             /\ first' = next
             /\ gasUsed' = Charge(p)
             /\ seenUpkeepIDs' = {p.upkeepID}
        ELSE /\ gasUsed' = Plus(gasUsed, Charge(p))
             /\ seenUpkeepIDs' = seenUpkeepIDs \cup {p.upkeepID}
             /\ UNCHANGED <<first, reports>>
  /\ next' = next + 1
  /\ UNCHANGED <<performables, status>>

StepFails ==
  /\ status = "loop" /\ next <= Len(performables)
  /\ Full(performables[next])
  /\ Fail

\* After the loop: what is pending becomes the last report.
Finish ==
  /\ status = "loop" /\ next > Len(performables)
  /\ reports' = IF first < next THEN Append(reports, Report(first, next - 1)) ELSE reports
  /\ first' = next
  /\ status' = "done"
  /\ UNCHANGED <<performables, next, gasUsed, seenUpkeepIDs>>

FinishFails ==
  /\ status = "loop" /\ next > Len(performables) /\ first < next
  /\ Fail

Next == Step \/ StepFails \/ Finish \/ FinishFails

Spec == Init /\ [][Next]_vars

-----------------------------------------------------------------------------
(* Properties.                                                             *)

TypeOK ==
  /\ performables \in Seq(Performable) /\ Len(performables) <= PerformablesLimit
  /\ first \in 1..next /\ next \in 1..(Len(performables) + 1)
  /\ gasUsed \in Uint
  /\ seenUpkeepIDs \subseteq UpkeepID
  /\ reports \in Seq([first : Nat, last : Nat])
  /\ status \in {"loop", "done", "failed"}

\* Nothing that was agreed on is lost, repeated or reordered: the reports, in
\* order, and then the pending list, are the performables up to the loop's
\* position, and all of them once the loop is over.
ReportsPartition ==
  /\ \A k \in 1..Len(reports) :
       /\ reports[k].first = IF k = 1 THEN 1 ELSE reports[k - 1].last + 1
       /\ reports[k].last >= reports[k].first - 1
  /\ first = IF reports = <<>> THEN 1 ELSE reports[Len(reports)].last + 1
  /\ status = "done" => first = Len(performables) + 1

Content(r) == r.first..r.last

\* What the executing contract needs of a report: it is within the batch size
\* and no upkeep occurs twice, whatever repeats the outcome holds.
ReportsExecutable ==
  \A i \in 1..Len(reports) :
    /\ reports[i].last - reports[i].first < MaxUpkeepBatchSize
    /\ \A j, k \in Content(reports[i]) :
         performables[j].upkeepID = performables[k].upkeepID => j = k

Needs == [k \in DOMAIN performables |-> performables[k].gas + GasOverheadPerUpkeep]
GasOf(r) == SumFunctionOnSet(Needs, Content(r))
Fits(r) == \A k \in Content(r) : Needs[k] <= GasLimitPerReport

\* Performables that each fit into the gas of a report fit together into the
\* report they are put in, in spite of sums that overflow elsewhere.
ReportsWithinGas ==
  \A i \in 1..Len(reports) : Fits(reports[i]) => GasOf(reports[i]) <= GasLimitPerReport

\* "MaxReportCount limits the total number of reports allowed to be produced by
\* the OCR protocol in a single round" (pkg/v3/outcome.go): an outcome gives no
\* more reports than that, or one more, an empty one, if its first performable
\* alone is over the gas of a report.
ReportCountBounded ==
  \/ Len(reports) <= MaxReportCount
  \/ Len(reports) = MaxReportCount + 1 /\ Charge(performables[1]) > GasLimitPerReport

=============================================================================
