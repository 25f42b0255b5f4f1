---------------------------- MODULE ReportsProofs ----------------------------
(* Proofs about Reports, for every outcome and every limit.                  *)
EXTENDS MCReports, FiniteSetTheorems, WellFoundedInduction, TLAPS

(* The inductive invariant.  Besides the two properties it says of the       *)
(* pending list what ReportsExecutable says of a report: it is not over the  *)
(* batch size, and seenUpkeepIDs holds the upkeeps in it, each of them once. *)
PendingOK ==
  /\ next - first <= MaxUpkeepBatchSize
  /\ \A k \in first..(next - 1) : performables[k].upkeepID \in seenUpkeepIDs
  /\ \A j, k \in first..(next - 1) :
       performables[j].upkeepID = performables[k].upkeepID => j = k

IInv == TypeOK /\ ReportsPartition /\ PendingOK /\ ReportsExecutable

LEMMA InitIInv == Init => IInv
<1> SUFFICES ASSUME Init PROVE IInv
  OBVIOUS
<1>1. PICK n \in 0..PerformablesLimit : performables \in [1..n -> Performable]
  BY DEF Init
<1>2. performables \in Seq(Performable) /\ Len(performables) = n /\ n \in Nat
  BY <1>1, ReportsAssumption
<1> QED BY <1>1, <1>2, ReportsAssumption
        DEF Init, IInv, TypeOK, ReportsPartition, PendingOK, ReportsExecutable, Uint

\* Sums stay within the width of an unsigned integer.
LEMMA PlusUint ==
  ASSUME NEW a \in Uint, NEW b \in Uint
  PROVE  Plus(a, b) \in Uint
BY ReportsAssumption DEF Plus, Uint

\* The pending list becomes a report.
LEMMA AppendReport ==
  ASSUME IInv, reports' = Append(reports, Report(first, next - 1)), first' = next,
         performables' = performables
  PROVE  /\ reports' \in Seq([first : Nat, last : Nat])
         /\ \A k \in 1..Len(reports') :
              /\ reports'[k].first = IF k = 1 THEN 1 ELSE reports'[k - 1].last + 1
              /\ reports'[k].last >= reports'[k].first - 1
         /\ first' = reports'[Len(reports')].last + 1 /\ reports' # <<>>
         /\ ReportsExecutable'
<1> DEFINE r == Report(first, next - 1)
<1>1. /\ reports \in Seq([first : Nat, last : Nat]) /\ Len(reports) \in Nat
      /\ first \in Nat \ {0} /\ next \in Nat /\ first <= next
  BY DEF IInv, TypeOK
<1>2. r \in [first : Nat, last : Nat] /\ r.first = first /\ r.last = next - 1
  BY <1>1 DEF Report
<1> HIDE DEF r
<1>3. /\ reports' = Append(reports, r)
      /\ Len(reports') = Len(reports) + 1
      /\ reports'[Len(reports) + 1] = r
      /\ \A k \in 1..Len(reports) : reports'[k] = reports[k]
  BY <1>1, <1>2 DEF r
<1>4. reports' \in Seq([first : Nat, last : Nat])
  BY <1>1, <1>2, <1>3
<1>5. ASSUME NEW k \in 1..Len(reports')
      PROVE  /\ reports'[k].first = IF k = 1 THEN 1 ELSE reports'[k - 1].last + 1
             /\ reports'[k].last >= reports'[k].first - 1
  <2>1. CASE k \in 1..Len(reports)
    <3>1. /\ reports[k].first = IF k = 1 THEN 1 ELSE reports[k - 1].last + 1
          /\ reports[k].last >= reports[k].first - 1
      BY <2>1 DEF IInv, ReportsPartition
    <3>2. k # 1 => k - 1 \in 1..Len(reports)
      BY <2>1, <1>1
    <3> QED BY <2>1, <3>1, <3>2, <1>3
  <2>2. CASE k = Len(reports) + 1
    <3>1. reports'[k].first = first /\ reports'[k].last = next - 1
      BY <2>2, <1>2, <1>3
    <3>2. first = IF Len(reports) = 0 THEN 1 ELSE reports[Len(reports)].last + 1
      BY <1>1 DEF IInv, ReportsPartition
    <3> QED BY <2>2, <1>1, <1>3, <3>1, <3>2
  <2> QED BY <2>1, <2>2, <1>1, <1>3
<1>6. first' = reports'[Len(reports')].last + 1 /\ reports' # <<>>
  BY <1>1, <1>2, <1>3
<1>7. ReportsExecutable'
  <2> SUFFICES ASSUME NEW n \in 1..Len(reports')
               PROVE  /\ reports'[n].last - reports'[n].first < MaxUpkeepBatchSize
                      /\ \A j, k \in reports'[n].first..reports'[n].last :
                           performables[j].upkeepID = performables[k].upkeepID => j = k
    BY DEF ReportsExecutable, Content
  <2>1. CASE n \in 1..Len(reports)
    BY <2>1, <1>3 DEF IInv, ReportsExecutable, Content
  <2>2. CASE n = Len(reports) + 1
    <3>1. reports'[n].first = first /\ reports'[n].last = next - 1
      BY <2>2, <1>2, <1>3
    <3>2. /\ next - first <= MaxUpkeepBatchSize
          /\ \A j, k \in first..(next - 1) :
               performables[j].upkeepID = performables[k].upkeepID => j = k
      BY DEF IInv, PendingOK
    <3>3. MaxUpkeepBatchSize \in Nat BY ReportsAssumption
    <3>4. reports'[n].last - reports'[n].first < MaxUpkeepBatchSize
      BY <3>1, <3>2, <3>3, <1>1
    <3> QED BY <3>1, <3>2, <3>4
  <2> QED BY <2>1, <2>2, <1>1, <1>3
<1> QED BY <1>4, <1>5, <1>6, <1>7

LEMMA NextIInv == IInv /\ [Next]_vars => IInv'
<1> SUFFICES ASSUME IInv, [Next]_vars PROVE IInv'
  OBVIOUS
<1>t. /\ performables \in Seq(Performable) /\ Len(performables) \in Nat
      /\ first \in Nat \ {0} /\ next \in Nat /\ first <= next /\ next <= Len(performables) + 1
      /\ gasUsed \in Uint /\ reports \in Seq([first : Nat, last : Nat])
  BY DEF IInv, TypeOK
<1>1. CASE Step
  <2> DEFINE p == performables[next]
  <2>1. p \in Performable /\ p.upkeepID \in UpkeepID /\ p.gas \in Uint
    <3>1. next \in 1..Len(performables) BY <1>1, <1>t DEF Step
    <3>2. p \in Performable BY <3>1, <1>t
    <3> QED BY <3>2, ReportsAssumption DEF Performable
  <2>2. Charge(p) \in Uint /\ Plus(gasUsed, Charge(p)) \in Uint
    BY <2>1, <1>t, PlusUint, ReportsAssumption DEF Charge
  <2>3. next' = next + 1 /\ performables' = performables /\ status' = status /\ status = "loop"
        /\ next <= Len(performables)
    BY <1>1 DEF Step
  <2>4. CASE Full(p)
    <3>1. /\ reports' = Append(reports, Report(first, next - 1)) /\ first' = next
          /\ gasUsed' = Charge(p) /\ seenUpkeepIDs' = {p.upkeepID}
      BY <1>1, <2>4 DEF Step
    <3>2. /\ reports' \in Seq([first : Nat, last : Nat])
          /\ \A k \in 1..Len(reports') :
               /\ reports'[k].first = IF k = 1 THEN 1 ELSE reports'[k - 1].last + 1
               /\ reports'[k].last >= reports'[k].first - 1
          /\ first' = reports'[Len(reports')].last + 1 /\ reports' # <<>>
          /\ ReportsExecutable'
      BY <3>1, <2>3, AppendReport
    <3>3. TypeOK'
      <4>1. first' \in 1..next' /\ next' \in 1..(Len(performables') + 1)
        BY <3>1, <2>3, <1>t
      <4>2. gasUsed' \in Uint /\ seenUpkeepIDs' \subseteq UpkeepID
        BY <3>1, <2>1, <2>2
      <4> QED BY <4>1, <4>2, <3>2, <2>3 DEF IInv, TypeOK
    <3>4. ReportsPartition'
      BY <3>2, <2>3 DEF ReportsPartition
    <3>5. PendingOK'
      <4>1. first'..(next' - 1) = {next}
        BY <3>1, <2>3, <1>t
      <4> QED BY <4>1, <3>1, <2>3, <1>t, ReportsAssumption DEF PendingOK
    <3> QED BY <3>2, <3>3, <3>4, <3>5 DEF IInv
  <2>5. CASE ~Full(p)
    <3>1. /\ gasUsed' = Plus(gasUsed, Charge(p)) /\ first' = first /\ reports' = reports
          /\ seenUpkeepIDs' = seenUpkeepIDs \cup {p.upkeepID}
      BY <1>1, <2>5 DEF Step
    <3>2. p.upkeepID \notin seenUpkeepIDs /\ next - first < MaxUpkeepBatchSize
      BY <2>5, <1>t, ReportsAssumption DEF Full
    <3>3. TypeOK'
      <4>1. first' \in 1..next' /\ next' \in 1..(Len(performables') + 1)
        BY <3>1, <2>3, <1>t
      <4>2. gasUsed' \in Uint /\ seenUpkeepIDs' \subseteq UpkeepID
        BY <3>1, <2>1, <2>2 DEF IInv, TypeOK
      <4> QED BY <4>1, <4>2, <3>1, <2>3 DEF IInv, TypeOK
    <3>4. ReportsPartition' /\ ReportsExecutable'
      BY <3>1, <2>3 DEF IInv, ReportsPartition, ReportsExecutable, Content
    <3>5. PendingOK'
      <4>1. \A k \in first'..(next' - 1) : k \in first..(next - 1) \/ k = next
        BY <3>1, <2>3, <1>t
      <4>2. next' - first' <= MaxUpkeepBatchSize
        BY <3>1, <3>2, <2>3, <1>t, ReportsAssumption
      <4>3. /\ \A k \in first..(next - 1) : performables[k].upkeepID \in seenUpkeepIDs
            /\ \A j, k \in first..(next - 1) :
                 performables[j].upkeepID = performables[k].upkeepID => j = k
        BY DEF IInv, PendingOK
      <4>4. \A k \in first'..(next' - 1) : performables'[k].upkeepID \in seenUpkeepIDs'
        BY <4>1, <4>3, <3>1, <2>3
      <4>5. \A j, k \in first'..(next' - 1) :
              performables'[j].upkeepID = performables'[k].upkeepID => j = k
        <5> SUFFICES ASSUME NEW j \in first'..(next' - 1), NEW k \in first'..(next' - 1),
                            performables[j].upkeepID = performables[k].upkeepID
                     PROVE  j = k
          BY <2>3
        <5>1. CASE j \in first..(next - 1) /\ k \in first..(next - 1)
          BY <5>1, <4>3
        <5>2. CASE j = next /\ k = next
          BY <5>2
        <5>3. CASE j = next /\ k \in first..(next - 1)
          BY <5>3, <4>3, <3>2
        <5>4. CASE k = next /\ j \in first..(next - 1)
          BY <5>4, <4>3, <3>2
        <5> QED BY <4>1, <5>1, <5>2, <5>3, <5>4
      <4> QED BY <4>2, <4>4, <4>5 DEF PendingOK
    <3> QED BY <3>3, <3>4, <3>5 DEF IInv
  <2> QED BY <2>4, <2>5
<1>2. CASE Fail
  BY <1>2 DEF Fail, IInv, TypeOK, ReportsPartition, PendingOK, ReportsExecutable, Content
<1>3. CASE Finish
  <2>1. /\ status' = "done" /\ first' = next /\ next' = next /\ performables' = performables
        /\ gasUsed' = gasUsed /\ seenUpkeepIDs' = seenUpkeepIDs
        /\ next = Len(performables) + 1
    BY <1>3, <1>t DEF Finish
  <2>2. PendingOK'
    BY <2>1, <1>t, ReportsAssumption DEF PendingOK
  <2>3. CASE first < next
    <3>1. reports' = Append(reports, Report(first, next - 1))
      BY <1>3, <2>3 DEF Finish
    <3>2. /\ reports' \in Seq([first : Nat, last : Nat])
          /\ \A k \in 1..Len(reports') :
               /\ reports'[k].first = IF k = 1 THEN 1 ELSE reports'[k - 1].last + 1
               /\ reports'[k].last >= reports'[k].first - 1
          /\ first' = reports'[Len(reports')].last + 1 /\ reports' # <<>>
          /\ ReportsExecutable'
      BY <3>1, <2>1, AppendReport
    <3>3. TypeOK'
      BY <3>2, <2>1, <1>t DEF IInv, TypeOK
    <3>4. ReportsPartition'
      BY <3>2, <2>1 DEF ReportsPartition
    <3> QED BY <2>2, <3>2, <3>3, <3>4 DEF IInv
  <2>4. CASE ~(first < next)
    <3>1. reports' = reports /\ first' = first
      BY <1>3, <2>4, <2>1, <1>t DEF Finish
    <3>2. TypeOK'
      BY <3>1, <2>1, <1>t DEF IInv, TypeOK
    <3>3. ReportsPartition' /\ ReportsExecutable'
      BY <3>1, <2>1 DEF IInv, ReportsPartition, ReportsExecutable, Content
    <3> QED BY <2>2, <3>2, <3>3 DEF IInv
  <2> QED BY <2>3, <2>4
<1>4. CASE UNCHANGED vars
  BY <1>4 DEF vars, IInv, TypeOK, ReportsPartition, PendingOK, ReportsExecutable, Content
<1> QED BY <1>1, <1>2, <1>3, <1>4 DEF Next, StepFails, FinishFails

\* The loop's variables keep their types.
THEOREM ReportsType == Spec => []TypeOK
<1>1. IInv => TypeOK BY DEF IInv
<1> QED BY <1>1, InitIInv, NextIInv, PTL DEF Spec

\* Whatever the outcome and the limits, the reports hold the agreed performables
\* in order, each of them once.
THEOREM NothingLostInReports == Spec => []ReportsPartition
<1>1. IInv => ReportsPartition BY DEF IInv
<1> QED BY <1>1, InitIInv, NextIInv, PTL DEF Spec

\* Whatever the outcome and the limits, no report is over the batch size or
\* names an upkeep twice.
THEOREM ReportsAreExecutable == Spec => []ReportsExecutable
<1>1. IInv => ReportsExecutable BY DEF IInv
<1> QED BY <1>1, InitIInv, NextIInv, PTL DEF Spec

-----------------------------------------------------------------------------
(* The number of reports.  A report holds one performable at least, except   *)
(* that the first is empty when the first performable alone is too large:    *)
(* after the first turn of the loop the pending list is never empty.         *)

FirstTooLarge == Len(performables) > 0 /\ Charge(performables[1]) > GasLimitPerReport

CountOK ==
  /\ Len(reports) <= IF FirstTooLarge THEN first ELSE first - 1
  /\ next = 1 => gasUsed = 0 /\ seenUpkeepIDs = {} /\ Len(reports) = 0
  /\ next > 1 => first < next \/ status = "done"

\* A first performable that does not fit into an empty report is over its gas.
LEMMA FullFirst ==
  ASSUME IInv, CountOK, next <= Len(performables), status = "loop", first = next,
         Full(performables[next])
  PROVE  FirstTooLarge /\ next = 1 /\ Len(reports) = 0
<1>1. /\ first \in Nat \ {0} /\ next \in Nat /\ Len(performables) \in Nat
      /\ performables \in Seq(Performable)
  BY DEF IInv, TypeOK
<1>2. next = 1 /\ gasUsed = 0 /\ seenUpkeepIDs = {} /\ Len(reports) = 0
  BY <1>1 DEF CountOK
<1>3. performables[1] \in Performable
  BY <1>1, <1>2
<1>4. performables[1].gas \in Uint /\ GasOverheadPerUpkeep \in Uint
  BY <1>3, ReportsAssumption DEF Performable
<1>5. Plus(gasUsed, performables[1].gas) = performables[1].gas
  BY <1>2, <1>4, ReportsAssumption DEF Plus, Uint
<1>6. ~(next - first >= MaxUpkeepBatchSize)
  BY <1>1, ReportsAssumption
<1> QED BY <1>1, <1>2, <1>5, <1>6 DEF Full, FirstTooLarge, Charge

LEMMA NextCount == IInv /\ CountOK /\ [Next]_vars => CountOK'
<1> SUFFICES ASSUME IInv, CountOK, [Next]_vars PROVE CountOK'
  OBVIOUS
<1>t. /\ first \in Nat \ {0} /\ next \in Nat /\ first <= next /\ Len(performables) \in Nat
      /\ reports \in Seq([first : Nat, last : Nat]) /\ Len(reports) \in Nat
  BY DEF IInv, TypeOK
<1>a. ASSUME reports' = Append(reports, Report(first, next - 1))
      PROVE  Len(reports') = Len(reports) + 1
  <2>1. Report(first, next - 1) \in [first : Nat, last : Nat]
    BY <1>t DEF Report
  <2> QED BY <1>a, <1>t, <2>1
<1>1. CASE Step
  <2>1. /\ next' = next + 1 /\ performables' = performables /\ status' = status
        /\ status = "loop" /\ next <= Len(performables)
    BY <1>1 DEF Step
  <2>2. FirstTooLarge' <=> FirstTooLarge
    BY <2>1 DEF FirstTooLarge, Charge
  <2>3. CASE Full(performables[next])
    <3>1. Len(reports') = Len(reports) + 1 /\ first' = next
      BY <1>1, <1>a, <2>3 DEF Step
    <3>2. CASE first = next
      <4>1. FirstTooLarge /\ next = 1 /\ Len(reports) = 0
        BY <2>1, <2>3, <3>2, FullFirst
      <4> QED BY <4>1, <3>1, <2>1, <2>2 DEF CountOK
    <3>3. CASE first < next
      BY <3>1, <3>3, <2>1, <2>2, <1>t DEF CountOK
    <3> QED BY <3>2, <3>3, <1>t
  <2>4. CASE ~Full(performables[next])
    <3>1. first' = first /\ reports' = reports
      BY <1>1, <2>4 DEF Step
    <3> QED BY <3>1, <2>1, <2>2, <1>t DEF CountOK
  <2> QED BY <2>3, <2>4
<1>2. CASE StepFails \/ FinishFails
  BY <1>2 DEF StepFails, FinishFails, Fail, CountOK, FirstTooLarge, Charge
<1>3. CASE Finish
  <2>1. /\ status' = "done" /\ first' = next /\ next' = next /\ performables' = performables
        /\ gasUsed' = gasUsed /\ seenUpkeepIDs' = seenUpkeepIDs
    BY <1>3 DEF Finish
  <2>2. FirstTooLarge' <=> FirstTooLarge
    BY <2>1 DEF FirstTooLarge, Charge
  <2>3. CASE first < next
    <3>1. Len(reports') = Len(reports) + 1
      BY <1>3, <1>a, <2>3 DEF Finish
    <3> QED BY <3>1, <2>1, <2>2, <2>3, <1>t DEF CountOK
  <2>4. CASE first = next
    <3>1. reports' = reports
      BY <1>3, <2>4, <1>t DEF Finish
    <3> QED BY <3>1, <2>1, <2>2, <2>4, <1>t DEF CountOK
  <2> QED BY <2>3, <2>4, <1>t
<1>4. CASE UNCHANGED vars
  BY <1>4 DEF vars, CountOK, FirstTooLarge, Charge
<1> QED BY <1>1, <1>2, <1>3, <1>4 DEF Next

\* Whatever the outcome and the limits, there are no more reports than
\* MaxReportCount, or one more when the first performable is over the gas limit.
THEOREM ReportCountIsBounded == Spec => []ReportCountBounded
<1>1. Init => CountOK
  BY DEF Init, CountOK
<1>2. IInv /\ CountOK => ReportCountBounded
  <2> SUFFICES ASSUME IInv, CountOK PROVE ReportCountBounded
    OBVIOUS
  <2>1. /\ first \in Nat /\ first - 1 <= Len(performables) /\ Len(reports) \in Nat
        /\ Len(performables) \in Nat /\ Len(performables) <= PerformablesLimit
    BY DEF IInv, TypeOK
  <2>2. PerformablesLimit \in Nat
    BY ReportsAssumption
  <2> QED BY <2>1, <2>2 DEF CountOK, FirstTooLarge, ReportCountBounded, MaxReportCount
<1> QED BY <1>1, <1>2, InitIInv, NextIInv, NextCount, PTL DEF Spec

-----------------------------------------------------------------------------
(* Induction, as the choice of a least counterexample.                       *)
LEMMA LeastNat ==
  ASSUME NEW T, T \subseteq Nat, T # {}
  PROVE  \E n \in T : \A m \in T : n <= m
<1>1. PICK n \in T : \A m \in T : ~(<<m, n>> \in OpToRel(<, Nat))
  BY WFMin, NatLessThanWellFounded
<1>2. \A m \in T : ~(m < n)
  BY <1>1 DEF OpToRel
<1> QED BY <1>2

LEMMA LeastSet ==
  ASSUME NEW S, IsFiniteSet(S), NEW T, T \subseteq SUBSET S, T # {}
  PROVE  \E s \in T : \A t \in T : t \subseteq s => t = s
<1>1. T \subseteq FiniteSubsetsOf(S)
  BY FS_FiniteSubsetsOfFinite
<1>2. \E s \in T : \A t \in T : ~(<<t, s>> \in StrictSubsetOrdering(S))
  BY <1>1, WFMin, FS_StrictSubsetOrderingWellFounded
<1> QED BY <1>2 DEF StrictSubsetOrdering

(* Sums over a finite set.  The fold takes the elements out of the set in an *)
(* order of its own; the sum does not depend on it.                          *)
Any(s) == CHOOSE x \in s : TRUE

Fold(g, f, s) == IF s = {} THEN 0 ELSE f[Any(s)] + g[s \ {Any(s)}]

Sums(g, f, S) == g = [s \in SUBSET S |-> Fold(g, f, s)]

LEMMA SumIsFold ==
  ASSUME NEW f, NEW S
  PROVE  SumFunctionOnSet(f, S) = (CHOOSE g : Sums(g, f, S))[S]
BY DEF SumFunctionOnSet, FoldFunctionOnSet, MapThenFoldSet, Sums, Fold, Any

LEMMA Smaller ==
  ASSUME NEW S, IsFiniteSet(S), NEW s \in SUBSET S
  PROVE  /\ IsFiniteSet(s) /\ Cardinality(s) \in 0..Cardinality(S)
         /\ s = {} <=> Cardinality(s) = 0
         /\ s # {} => /\ Any(s) \in s /\ s \ {Any(s)} \in SUBSET S
                      /\ Cardinality(s \ {Any(s)}) = Cardinality(s) - 1
<1>1. IsFiniteSet(s) /\ Cardinality(s) <= Cardinality(S)
  BY FS_Subset
<1>2. Cardinality(s) \in Nat /\ Cardinality(S) \in Nat
  BY <1>1, FS_CardinalityType
<1>3. s # {} => Any(s) \in s
  BY DEF Any
<1>4. s # {} => Cardinality(s \ {Any(s)}) = Cardinality(s) - 1
  BY <1>1, <1>3, FS_RemoveElement
<1> QED BY <1>1, <1>2, <1>3, <1>4, FS_EmptySet

\* The recursion of the fold is well founded.
LEMMA SumsExist ==
  ASSUME NEW S, IsFiniteSet(S), NEW f
  PROVE  \E g : Sums(g, f, S)
<1> DEFINE Upto(n) == {s \in SUBSET S : Cardinality(s) <= n}
           Part(g, n) == g = [s \in Upto(n) |-> Fold(g, f, s)]
           T == {n \in Nat : ~\E g : Part(g, n)}
<1>1. T = {}
  <2> SUFFICES ASSUME T # {} PROVE FALSE
    OBVIOUS
  <2>1. PICK n \in T : \A m \in T : n <= m
    BY LeastNat
  <2>2. CASE n = 0
    <3>1. \A s \in Upto(0) : s = {}
      <4>1. \A s \in SUBSET S : Cardinality(s) \in Nat /\ (s = {} <=> Cardinality(s) = 0)
        BY FS_Subset, FS_CardinalityType, FS_EmptySet
      <4> QED BY <4>1
    <3>2. Part([s \in Upto(0) |-> 0], 0)
      BY <3>1 DEF Fold
    <3> QED BY <2>1, <2>2, <3>2
  <2>3. CASE n # 0
    <3>1. n \in Nat /\ n - 1 \in Nat
      BY <2>1, <2>3
    <3>2. PICK g : Part(g, n - 1)
      <4> HIDE DEF T
      <4>1. n - 1 \notin T
        BY <2>1, <3>1
      <4> QED BY <3>1, <4>1 DEF T
    <3> DEFINE h == [s \in Upto(n) |-> Fold(g, f, s)]
    <3>3. \A s \in Upto(n) : s # {} => s \ {Any(s)} \in Upto(n - 1)
      BY <3>1, Smaller
    <3>4. \A s \in Upto(n - 1) : s \in Upto(n) /\ g[s] = Fold(g, f, s)
      <4>1. \A s \in SUBSET S : Cardinality(s) \in Nat
        BY FS_Subset, FS_CardinalityType
      <4>2. \A s \in Upto(n - 1) : s \in Upto(n)
        BY <3>1, <4>1
      <4> HIDE DEF Upto
      <4>3. \A s \in Upto(n - 1) : g[s] = Fold(g, f, s)
        BY <3>2
      <4> QED BY <4>2, <4>3
    <3>5. \A s \in Upto(n - 1) : h[s] = g[s]
      BY <3>4
    <3> HIDE DEF Upto
    <3>6. \A s \in Upto(n) : h[s] = Fold(h, f, s)
      BY <3>3, <3>5 DEF Fold
    <3>7. h = [s \in Upto(n) |-> h[s]]
      OBVIOUS
    <3> HIDE DEF h
    <3>8. Part(h, n)
      BY <3>6, <3>7
    <3> QED BY <2>1, <3>8
  <2> QED BY <2>2, <2>3
<1>2. Cardinality(S) \in Nat /\ Upto(Cardinality(S)) = SUBSET S
  <2>1. \A s \in SUBSET S : Cardinality(s) <= Cardinality(S)
    BY FS_Subset
  <2> QED BY <2>1, FS_CardinalityType
<1>3. PICK g : Part(g, Cardinality(S))
  BY <1>1, <1>2
<1> QED BY <1>2, <1>3 DEF Sums

LEMMA SumsAgree ==
  ASSUME NEW S, IsFiniteSet(S), NEW R \in SUBSET S, NEW f, NEW g, NEW h,
         Sums(g, f, S), Sums(h, f, R)
  PROVE  g[R] = h[R]
<1> DEFINE T == {s \in SUBSET R : g[s] # h[s]}
<1>1. T = {}
  <2> SUFFICES ASSUME T # {} PROVE FALSE
    OBVIOUS
  <2>0. T \subseteq SUBSET S
    OBVIOUS
  <2> HIDE DEF T
  <2>1. PICK s \in T : \A t \in T : t \subseteq s => t = s
    BY <2>0, LeastSet
  <2> USE DEF T
  <2>2. g[s] = Fold(g, f, s) /\ h[s] = Fold(h, f, s)
    BY DEF Sums
  <2>3. s # {}
    BY <2>1, <2>2 DEF Fold
  <2>4. Any(s) \in s
    BY <2>3 DEF Any
  <2>5. s \ {Any(s)} \notin T
    BY <2>1, <2>4
  <2>6. g[s \ {Any(s)}] = h[s \ {Any(s)}]
    BY <2>5
  <2> QED BY <2>1, <2>2, <2>6 DEF Fold
<1> QED BY <1>1

LEMMA SumStep ==
  ASSUME NEW S, IsFiniteSet(S), NEW f
  PROVE  /\ S = {} => SumFunctionOnSet(f, S) = 0
         /\ S # {} => /\ Any(S) \in S
                      /\ SumFunctionOnSet(f, S) = f[Any(S)] + SumFunctionOnSet(f, S \ {Any(S)})
<1> DEFINE R == S \ {Any(S)}
           g == CHOOSE g : Sums(g, f, S)
           h == CHOOSE h : Sums(h, f, R)
<1>1. Sums(g, f, S)
  BY SumsExist
<1>2. IsFiniteSet(R) /\ R \in SUBSET S
  BY FS_RemoveElement
<1>3. Sums(h, f, R)
  BY <1>2, SumsExist
<1>4. SumFunctionOnSet(f, S) = g[S] /\ SumFunctionOnSet(f, R) = h[R]
  BY SumIsFold
<1> HIDE DEF g, h
<1>5. g[R] = h[R]
  BY <1>1, <1>2, <1>3, SumsAgree
<1>6. g[S] = Fold(g, f, S)
  BY <1>1 DEF Sums
<1>7. S # {} => Any(S) \in S
  BY DEF Any
<1> QED BY <1>4, <1>5, <1>6, <1>7 DEF Fold

LEMMA SumNat ==
  ASSUME NEW S, IsFiniteSet(S), NEW f, \A x \in S : f[x] \in Nat
  PROVE  SumFunctionOnSet(f, S) \in Nat
<1> DEFINE T == {s \in SUBSET S : SumFunctionOnSet(f, s) \notin Nat}
<1>1. T = {}
  <2> SUFFICES ASSUME T # {} PROVE FALSE
    OBVIOUS
  <2>0. T \subseteq SUBSET S
    OBVIOUS
  <2> HIDE DEF T
  <2>1. PICK s \in T : \A t \in T : t \subseteq s => t = s
    BY <2>0, LeastSet
  <2> USE DEF T
  <2>2. IsFiniteSet(s)
    BY FS_Subset
  <2>3. s # {}
    <3>1. SumFunctionOnSet(f, s) # 0
      OBVIOUS
    <3> HIDE DEF T
    <3> QED BY <2>2, <3>1, SumStep
  <2>4. Any(s) \in s /\ SumFunctionOnSet(f, s) = f[Any(s)] + SumFunctionOnSet(f, s \ {Any(s)})
    BY <2>2, <2>3, SumStep
  <2>5. s \ {Any(s)} \in SUBSET S /\ s \ {Any(s)} \notin T
    BY <2>1, <2>4
  <2>6. SumFunctionOnSet(f, s \ {Any(s)}) \in Nat /\ f[Any(s)] \in Nat
    BY <2>4, <2>5
  <2> QED BY <2>4, <2>6
<1> QED BY <1>1

\* Any element may be taken out first.
LEMMA SumWithout ==
  ASSUME NEW S, IsFiniteSet(S), NEW f, \A x \in S : f[x] \in Nat, NEW x \in S
  PROVE  SumFunctionOnSet(f, S) = f[x] + SumFunctionOnSet(f, S \ {x})
<1> DEFINE Sum(s) == SumFunctionOnSet(f, s)
           T == {s \in SUBSET S : \E y \in s : Sum(s) # f[y] + Sum(s \ {y})}
<1>1. T = {}
  <2> SUFFICES ASSUME T # {} PROVE FALSE
    OBVIOUS
  <2>0. T \subseteq SUBSET S
    OBVIOUS
  <2> HIDE DEF T
  <2>1. PICK s \in T : \A t \in T : t \subseteq s => t = s
    BY <2>0, LeastSet
  <2> USE DEF T
  <2>2. PICK y \in s : Sum(s) # f[y] + Sum(s \ {y})
    BY <2>1
  <2>3. PICK a : a = Any(s)
    OBVIOUS
  <2>4. IsFiniteSet(s) /\ s \in SUBSET S
    BY FS_Subset
  <2>5. a \in s /\ Sum(s) = f[a] + Sum(s \ {a})
    BY <2>2, <2>3, <2>4, SumStep
  <2>6. a # y
    BY <2>2, <2>5
  <2>7. s \ {a} \notin T /\ s \ {y} \notin T
    BY <2>1, <2>2, <2>5
  <2> DEFINE r == s \ {a, y}
  <2>8. (s \ {a}) \ {y} = r /\ (s \ {y}) \ {a} = r /\ r \in SUBSET S
    OBVIOUS
  <2>9. Sum(s \ {a}) = f[y] + Sum(r)
    BY <2>2, <2>5, <2>6, <2>7, <2>8
  <2>10. Sum(s \ {y}) = f[a] + Sum(r)
    BY <2>2, <2>5, <2>6, <2>7, <2>8
  <2>11. f[a] \in Nat /\ f[y] \in Nat
    BY <2>2, <2>4, <2>5
  <2>12. Sum(r) \in Nat
    BY <2>4, FS_Subset, SumNat
  <2> HIDE DEF r, Sum
  <2> QED BY <2>2, <2>5, <2>9, <2>10, <2>11, <2>12
<1> QED BY <1>1

\* The sum depends on the values on the set only.
LEMMA SumSame ==
  ASSUME NEW S, IsFiniteSet(S), NEW f, NEW g, \A x \in S : f[x] = g[x]
  PROVE  SumFunctionOnSet(f, S) = SumFunctionOnSet(g, S)
<1> DEFINE T == {s \in SUBSET S : SumFunctionOnSet(f, s) # SumFunctionOnSet(g, s)}
<1>1. T = {}
  <2> SUFFICES ASSUME T # {} PROVE FALSE
    OBVIOUS
  <2>0. T \subseteq SUBSET S
    OBVIOUS
  <2> HIDE DEF T
  <2>1. PICK s \in T : \A t \in T : t \subseteq s => t = s
    BY <2>0, LeastSet
  <2>2. s \in SUBSET S /\ SumFunctionOnSet(f, s) # SumFunctionOnSet(g, s)
    BY <2>1 DEF T
  <2>3. IsFiniteSet(s)
    BY <2>2, FS_Subset
  <2>4. s # {}
    BY <2>2, <2>3, SumStep
  <2>5. PICK a : a = Any(s)
    OBVIOUS
  <2>6. /\ a \in s
        /\ SumFunctionOnSet(f, s) = f[a] + SumFunctionOnSet(f, s \ {a})
        /\ SumFunctionOnSet(g, s) = g[a] + SumFunctionOnSet(g, s \ {a})
    BY <2>3, <2>4, <2>5, SumStep
  <2>7. s \ {a} \notin T /\ s \ {a} \in SUBSET S
    BY <2>1, <2>2, <2>6
  <2>8. SumFunctionOnSet(f, s \ {a}) = SumFunctionOnSet(g, s \ {a})
    BY <2>7 DEF T
  <2>9. f[a] = g[a]
    BY <2>2, <2>6
  <2> QED BY <2>2, <2>6, <2>8, <2>9, Zenon
<1> QED BY <1>1

-----------------------------------------------------------------------------
(* The gas of a report.  As long as every performable of the pending list    *)
(* fits into a report, the counter is the sum of what they need: neither it  *)
(* nor what it is compared with has overflowed.                              *)

Pending == Report(first, next - 1)

GasCounted ==
  status = "loop" /\ Fits(Pending) =>
    gasUsed = GasOf(Pending) /\ gasUsed <= GasLimitPerReport

LEMMA NeedsOf ==
  ASSUME TypeOK
  PROVE  /\ DOMAIN performables = 1..Len(performables)
         /\ \A k \in 1..Len(performables) :
              /\ Needs[k] = performables[k].gas + GasOverheadPerUpkeep /\ Needs[k] \in Nat
              /\ performables[k].gas \in Uint
<1>1. performables \in Seq(Performable) BY DEF TypeOK
<1>2. \A k \in 1..Len(performables) : performables[k] \in Performable
  BY <1>1
<1>3. \A p \in Performable : p.gas \in Uint
  BY ReportsAssumption DEF Performable
<1> QED BY <1>1, <1>2, <1>3, ReportsAssumption DEF Needs, Uint

\* Over an interval, the element taken out is the last.
LEMMA SumOfInterval ==
  ASSUME NEW f, NEW a \in Nat, NEW n \in Nat, \A k \in a..n : f[k] \in Nat
  PROVE  a <= n => SumFunctionOnSet(f, a..n) = f[n] + SumFunctionOnSet(f, a..(n - 1))
<1> SUFFICES ASSUME a <= n
             PROVE  SumFunctionOnSet(f, a..n) = f[n] + SumFunctionOnSet(f, a..(n - 1))
  OBVIOUS
<1>1. IsFiniteSet(a..n)
  BY FS_Interval
<1>2. n \in a..n
  OBVIOUS
<1>3. (a..n) \ {n} = a..(n - 1)
  OBVIOUS
<1>4. SumFunctionOnSet(f, a..n) = f[n] + SumFunctionOnSet(f, (a..n) \ {n})
  BY <1>1, <1>2, SumWithout
<1> QED BY <1>3, <1>4, Zenon

LEMMA SumOfNothing ==
  ASSUME NEW f, NEW a \in Int, NEW n \in Int, a > n
  PROVE  SumFunctionOnSet(f, a..n) = 0
<1>1. a..n = {}
  OBVIOUS
<1>2. SumFunctionOnSet(f, {}) = 0
  BY FS_EmptySet, SumStep
<1> QED BY <1>1, <1>2, Zenon

\* What fits is added up without overflow.
LEMMA PlusExact ==
  ASSUME NEW a \in Nat, NEW b \in Nat, a + b < UintRange
  PROVE  Plus(a, b) = a + b
BY ReportsAssumption DEF Plus

LEMMA ExactGas ==
  ASSUME NEW g \in Nat, NEW x \in Nat, g <= GasLimitPerReport,
         x + GasOverheadPerUpkeep <= GasLimitPerReport
  PROVE  /\ Plus(x, GasOverheadPerUpkeep) = x + GasOverheadPerUpkeep
         /\ Plus(g, x + GasOverheadPerUpkeep) = g + (x + GasOverheadPerUpkeep)
         /\ Plus(Plus(g, x), GasOverheadPerUpkeep) = g + (x + GasOverheadPerUpkeep)
<1>1. /\ GasLimitPerReport \in Nat /\ GasOverheadPerUpkeep \in Nat /\ UintRange \in Nat
      /\ GasLimitPerReport < UintRange /\ 2 * GasLimitPerReport < UintRange
  BY ReportsAssumption DEF Uint
<1>2. Plus(x, GasOverheadPerUpkeep) = x + GasOverheadPerUpkeep
  BY <1>1, PlusExact
<1>3. Plus(g, x + GasOverheadPerUpkeep) = g + (x + GasOverheadPerUpkeep)
  BY <1>1, PlusExact
<1>4. Plus(g, x) = g + x
  BY <1>1, PlusExact
<1>5. Plus(g + x, GasOverheadPerUpkeep) = g + x + GasOverheadPerUpkeep
  BY <1>1, PlusExact
<1> QED BY <1>1, <1>2, <1>3, <1>4, <1>5

LEMMA NextGas ==
  ASSUME IInv, GasCounted, ReportsWithinGas, [Next]_vars
  PROVE  GasCounted' /\ ReportsWithinGas'
<1>t. /\ TypeOK /\ performables \in Seq(Performable) /\ Len(performables) \in Nat
      /\ first \in Nat \ {0} /\ next \in Nat \ {0} /\ first <= next
      /\ next <= Len(performables) + 1
      /\ gasUsed \in Nat /\ reports \in Seq([first : Nat, last : Nat])
      /\ GasLimitPerReport \in Nat /\ GasOverheadPerUpkeep \in Nat
  BY ReportsAssumption DEF IInv, TypeOK, Uint
<1>p. performables' = performables /\ Needs' = Needs
  BY DEF Next, Step, StepFails, Fail, Finish, FinishFails, vars, Needs
<1>r. Content(Pending) = first..(next - 1)
  BY DEF Pending, Report, Content
<1>a. ASSUME reports' = Append(reports, Pending), status = "loop"
      PROVE  ReportsWithinGas'
  <2>1. Pending \in [first : Nat, last : Nat]
    BY <1>t DEF Pending, Report
  <2>2. /\ Len(reports') = Len(reports) + 1 /\ reports'[Len(reports) + 1] = Pending
        /\ \A n \in 1..Len(reports) : reports'[n] = reports[n]
    BY <1>a, <1>t, <2>1
  <2>3. ASSUME NEW k \in 1..Len(reports')
        PROVE  \/ k \in 1..Len(reports) /\ reports'[k] = reports[k]
               \/ reports'[k] = Pending
    BY <1>t, <2>2
  <2> QED BY <1>a, <1>p, <2>3 DEF ReportsWithinGas, GasCounted, Fits, GasOf, Content
<1>u. ASSUME reports' = reports
      PROVE  ReportsWithinGas'
  BY <1>u, <1>p DEF ReportsWithinGas, Fits, GasOf, Content
<1>1. CASE Step
  <2> DEFINE p == performables[next]
  <2>1. /\ next' = next + 1 /\ status = "loop" /\ next \in 1..Len(performables)
    BY <1>1, <1>t DEF Step
  <2>2. /\ Needs[next] = p.gas + GasOverheadPerUpkeep /\ Needs[next] \in Nat
        /\ p.gas \in Nat
    BY <1>t, <2>1, NeedsOf DEF Uint
  <2>3. Content(Pending)' = first'..next
    BY <1>t, <2>1 DEF Pending, Report, Content
  <2>4. CASE Full(p)
    <3>1. reports' = Append(reports, Pending) /\ first' = next /\ gasUsed' = Charge(p)
      BY <1>1, <2>4 DEF Step, Pending
    <3>2. ReportsWithinGas'
      BY <1>a, <2>1, <3>1
    <3>3. GasCounted'
      <4> SUFFICES ASSUME Fits(Pending)'
                   PROVE  gasUsed' = GasOf(Pending)' /\ gasUsed' <= GasLimitPerReport
        BY DEF GasCounted
      <4>1. Needs[next] <= GasLimitPerReport
        BY <1>p, <1>t, <2>3, <3>1 DEF Fits
      <4>2. gasUsed' = Needs[next]
        BY <1>t, <2>2, <3>1, <4>1, ExactGas DEF Charge
      <4>3. GasOf(Pending)' = SumFunctionOnSet(Needs, next..next)
        BY <1>p, <2>3, <3>1 DEF GasOf
      <4>4. SumFunctionOnSet(Needs, next..(next - 1)) = 0
        BY <1>t, SumOfNothing
      <4>5. SumFunctionOnSet(Needs, next..next)
              = Needs[next] + SumFunctionOnSet(Needs, next..(next - 1))
        <5>1. PICK n \in Nat : n = next
          BY <1>t
        <5>2. next <= n /\ \A k \in next..n : Needs[k] \in Nat
          BY <1>t, <2>2, <5>1
        <5>3. SumFunctionOnSet(Needs, next..n) = Needs[n] + SumFunctionOnSet(Needs, next..(n - 1))
          BY <1>t, <5>2, SumOfInterval
        <5> QED BY <5>1, <5>3
      <4> QED BY <2>2, <4>1, <4>2, <4>3, <4>4, <4>5
    <3> QED BY <3>2, <3>3
  <2>5. CASE ~Full(p)
    <3>1. reports' = reports /\ first' = first /\ gasUsed' = Plus(gasUsed, Charge(p))
      BY <1>1, <2>5 DEF Step
    <3>2. GasCounted'
      <4> SUFFICES ASSUME Fits(Pending)'
                   PROVE  gasUsed' = GasOf(Pending)' /\ gasUsed' <= GasLimitPerReport
        BY DEF GasCounted
      <4>1. Needs[next] <= GasLimitPerReport /\ Fits(Pending)
        <5>1. \A k \in first..next : Needs[k] <= GasLimitPerReport
          BY <1>p, <2>3, <3>1 DEF Fits
        <5> QED BY <1>r, <1>t, <5>1 DEF Fits
      <4>2. gasUsed = GasOf(Pending) /\ gasUsed <= GasLimitPerReport
        BY <2>1, <4>1 DEF GasCounted
      <4>3. gasUsed + Needs[next] <= GasLimitPerReport
        <5>1. Plus(Plus(gasUsed, p.gas), GasOverheadPerUpkeep) = gasUsed + Needs[next]
          BY <1>t, <2>2, <4>1, <4>2, ExactGas
        <5>2. ~(Plus(Plus(gasUsed, p.gas), GasOverheadPerUpkeep) > GasLimitPerReport)
          BY <2>5 DEF Full
        <5> QED BY <1>t, <2>2, <5>1, <5>2
      <4>4. /\ gasUsed + Needs[next] <= GasLimitPerReport
            /\ gasUsed' = gasUsed + Needs[next]
        <5>1. Charge(p) = Needs[next]
          BY <1>t, <2>2, <4>1, <4>2, ExactGas DEF Charge
        <5>2. Plus(gasUsed, Needs[next]) = gasUsed + Needs[next]
          BY <1>t, <2>2, <4>1, <4>2, ExactGas
        <5> QED BY <3>1, <4>3, <5>1, <5>2
      <4>5. GasOf(Pending)' = SumFunctionOnSet(Needs, first..next)
        BY <1>p, <2>3, <3>1 DEF GasOf
      <4>6. \A k \in first..next : Needs[k] \in Nat
        BY <1>t, <2>1, NeedsOf
      <4>7. SumFunctionOnSet(Needs, first..next)
              = Needs[next] + SumFunctionOnSet(Needs, first..(next - 1))
        BY <1>t, <4>6, SumOfInterval
      <4> QED BY <1>r, <1>t, <2>2, <4>2, <4>4, <4>5, <4>7 DEF GasOf
    <3> QED BY <1>u, <3>1, <3>2
  <2> QED BY <2>4, <2>5
<1>2. CASE StepFails \/ FinishFails
  BY <1>2, <1>u DEF StepFails, FinishFails, Fail, GasCounted
<1>3. CASE Finish
  <2>1. status' = "done" /\ status = "loop" /\ (reports' = reports \/ reports' = Append(reports, Pending))
    BY <1>3 DEF Finish, Pending
  <2> QED BY <1>a, <1>u, <2>1 DEF GasCounted
<1>4. CASE UNCHANGED vars
  BY <1>4, <1>p, <1>u DEF vars, GasCounted, Fits, GasOf, Pending, Content
<1> QED BY <1>1, <1>2, <1>3, <1>4 DEF Next

\* Whatever the outcome and the limits, the upkeeps of a report fit into its gas
\* together when each of them fits: the cut is made on sums that did not overflow.
THEOREM ReportsStayWithinGas == Spec => []ReportsWithinGas
<1>1. Init => GasCounted /\ ReportsWithinGas
  <2> SUFFICES ASSUME Init PROVE GasCounted /\ ReportsWithinGas
    OBVIOUS
  <2>1. SumFunctionOnSet(Needs, 1..0) = 0
    BY SumOfNothing
  <2>2. GasOf(Pending) = 0 /\ gasUsed = 0 /\ Len(reports) = 0
    BY <2>1 DEF Init, GasOf, Pending, Report, Content
  <2> QED BY <2>2, ReportsAssumption DEF GasCounted, ReportsWithinGas, Uint
<1>2. IInv /\ GasCounted /\ ReportsWithinGas /\ [Next]_vars => GasCounted' /\ ReportsWithinGas'
  BY NextGas
<1> QED BY <1>1, <1>2, InitIInv, NextIInv, PTL DEF Spec

-----------------------------------------------------------------------------
(* The OCR2 plugin.  The median: of a finite, non-empty set of blocks there  *)
(* is one that the choice of GetMedian accepts.                              *)

\* The oracles of V whose block is below b, and at most b.
BelowBlock(V, blk, b) == {o \in V : blk[o] < b}
UpToBlock(V, blk, b) == {o \in V : blk[o] <= b}

LEMMA UpToCount ==
  ASSUME NEW V, IsFiniteSet(V), NEW blk, NEW b
  PROVE  /\ Cardinality(UpToBlock(V, blk, b)) \in Nat
         /\ Cardinality(UpToBlock(V, blk, b)) <= Cardinality(V)
<1>1. UpToBlock(V, blk, b) \in SUBSET V
  BY DEF UpToBlock
<1> QED BY <1>1, FS_Subset, FS_CardinalityType

\* Some oracle has the highest block.
LEMMA Highest ==
  ASSUME NEW V, IsFiniteSet(V), V # {}, NEW blk \in [V -> Nat]
  PROVE  \E o \in V : UpToBlock(V, blk, blk[o]) = V
<1> DEFINE Above(o) == Cardinality(V) - Cardinality(UpToBlock(V, blk, blk[o]))
           T == {Above(o) : o \in V}
<1>1. \A o \in V : Above(o) \in Nat
  BY UpToCount, FS_CardinalityType
<1> HIDE DEF Above
<1>2. T \subseteq Nat /\ T # {}
  BY <1>1
<1> HIDE DEF T
<1>3. PICK m \in T : \A k \in T : m <= k
  BY <1>2, LeastNat
<1>4. PICK o \in V : m = Above(o)
  BY <1>3 DEF T
<1>5. ASSUME NEW p \in V PROVE blk[p] <= blk[o]
  <2> SUFFICES ASSUME blk[p] > blk[o] PROVE FALSE
    OBVIOUS
  <2>1. Above(o) <= Above(p)
    BY <1>3, <1>4 DEF T
  <2> DEFINE A == UpToBlock(V, blk, blk[o])
             B == UpToBlock(V, blk, blk[p])
  <2>2. A \subseteq B /\ p \in B /\ p \notin A /\ B \in SUBSET V
    BY DEF UpToBlock
  <2>3. Cardinality(A) \in Nat /\ Cardinality(B) \in Nat /\ Cardinality(V) \in Nat
    BY UpToCount, FS_CardinalityType
  <2>4. Cardinality(B) <= Cardinality(A)
    BY <2>1, <2>3 DEF Above
  <2> HIDE DEF A, B
  <2>5. IsFiniteSet(B)
    BY <2>2, FS_Subset
  <2>6. Cardinality(A) <= Cardinality(B) /\ (Cardinality(B) = Cardinality(A) => B = A)
    BY <2>2, <2>5, FS_Subset
  <2> QED BY <2>2, <2>3, <2>4, <2>6
<1> QED BY <1>5 DEF UpToBlock

LEMMA MedianExists ==
  ASSUME NEW V, IsFiniteSet(V), V # {}, NEW blk \in [V -> Nat]
  PROVE  \E o \in V :
           /\ Cardinality(BelowBlock(V, blk, blk[o])) <= Cardinality(V) \div 2
           /\ Cardinality(V) \div 2 < Cardinality(UpToBlock(V, blk, blk[o]))
<1> DEFINE n == Cardinality(V)
           Up(b) == Cardinality(UpToBlock(V, blk, b))
           T == {b \in Nat : n \div 2 < Up(b)}
<1>1. n \in Nat /\ n # 0 /\ n \div 2 \in Nat /\ n \div 2 < n
  BY FS_CardinalityType, FS_EmptySet
<1>2. \A b \in Nat : Up(b) \in Nat
  BY UpToCount
<1>3. PICK h \in V : UpToBlock(V, blk, blk[h]) = V
  BY Highest
<1> HIDE DEF n
<1>4. blk[h] \in T
  BY <1>1, <1>3 DEF n
<1> HIDE DEF Up
<1>5. T \subseteq Nat /\ T # {}
  BY <1>4
<1> HIDE DEF T
<1>6. PICK b \in T : \A k \in T : b <= k
  BY <1>5, LeastNat
<1>7. b \in Nat /\ n \div 2 < Up(b)
  BY <1>6 DEF T
<1> DEFINE B == BelowBlock(V, blk, b)
<1>8. Cardinality(B) <= n \div 2
  <2>1. CASE b = 0
    <3>1. B = {}
      BY <2>1 DEF BelowBlock
    <3> QED BY <1>1, <3>1, FS_EmptySet
  <2>2. CASE b # 0
    <3>1. b - 1 \in Nat /\ b - 1 \notin T
      BY <1>6, <1>7, <2>2
    <3>2. Up(b - 1) <= n \div 2
      BY <1>1, <1>2, <3>1 DEF T
    <3>3. B = UpToBlock(V, blk, b - 1)
      BY <1>7 DEF UpToBlock, BelowBlock
    <3> QED BY <3>2, <3>3 DEF Up
  <2> QED BY <2>1, <2>2
<1>9. PICK o \in V : blk[o] = b
  <2> SUFFICES ASSUME \A o \in V : blk[o] # b PROVE FALSE
    OBVIOUS
  <2>1. B = UpToBlock(V, blk, b)
    BY <1>7 DEF UpToBlock, BelowBlock
  <2>2. Cardinality(B) = Up(b)
    BY <2>1 DEF Up
  <2> QED BY <1>1, <1>2, <1>7, <1>8, <2>2
<1> QED BY <1>7, <1>8, <1>9 DEF Up, n

\* Where the honest have the majority, the median is between two of theirs.
LEMMA HonestMajority ==
  ASSUME NEW V, IsFiniteSet(V), NEW H \in SUBSET V, NEW F, F = V \ H,
         Cardinality(H) > Cardinality(F),
         NEW blk \in [V -> Nat], NEW b \in Nat,
         Cardinality(BelowBlock(V, blk, b)) <= Cardinality(V) \div 2,
         Cardinality(V) \div 2 < Cardinality(UpToBlock(V, blk, b))
  PROVE  /\ \E o \in H : blk[o] <= b
         /\ \E o \in H : blk[o] >= b
<1> DEFINE n == Cardinality(V)
           h == Cardinality(H)
           f == Cardinality(F)
           L == BelowBlock(V, blk, b)
           U == UpToBlock(V, blk, b)
<1>1. V \cap H = H
  OBVIOUS
<1>2. IsFiniteSet(H) /\ IsFiniteSet(F) /\ f = n - h
  <2>1. IsFiniteSet(V \ H) /\ Cardinality(V \ H) = Cardinality(V) - Cardinality(V \cap H)
    BY FS_Difference
  <2> QED BY <1>1, <2>1, FS_Subset, Zenon
<1>3. n \in Nat /\ h \in Nat /\ f \in Nat
  BY <1>2, FS_CardinalityType
<1>4. 2 * f < n /\ n < 2 * h
  BY <1>2, <1>3
<1>5. ASSUME \A o \in H : ~(blk[o] <= b) PROVE FALSE
  <2>1. U \in SUBSET F
    BY <1>5 DEF UpToBlock
  <2>2. Cardinality(U) \in Nat /\ Cardinality(U) <= f
    BY <1>2, <2>1, FS_Subset, FS_CardinalityType
  <2> QED BY <1>3, <1>4, <2>2
<1>6. ASSUME \A o \in H : ~(blk[o] >= b) PROVE FALSE
  <2>1. H \in SUBSET L /\ L \in SUBSET V
    BY <1>6 DEF BelowBlock
  <2>2. IsFiniteSet(L)
    BY <2>1, FS_Subset
  <2>3. Cardinality(L) \in Nat /\ h <= Cardinality(L)
    BY <2>1, <2>2, FS_Subset, FS_CardinalityType
  <2> QED BY <1>3, <1>4, <2>3
<1> QED BY <1>5, <1>6

(* The operators of the library as the instance of V2Plugin names them.      *)
LEMMA SameCardinality == \A S : V2!Cardinality(S) = Cardinality(S)
BY DEF V2!Cardinality, Cardinality

LEMMA SameSum == \A f, S : V2!SumFunctionOnSet(f, S) = SumFunctionOnSet(f, S)
BY DEF V2!SumFunctionOnSet, SumFunctionOnSet, V2!FoldFunctionOnSet, FoldFunctionOnSet,
       V2!MapThenFoldSet, MapThenFoldSet

LEMMA Counts ==
  ASSUME NEW b
  PROVE  /\ V2!Below(b) = Cardinality({o \in V2!Valid : attributed[o].block < b})
         /\ V2!UpTo(b) = Cardinality({o \in V2!Valid : attributed[o].block <= b})
BY SameCardinality, Zenon DEF V2!Below, V2!UpTo

(* The invariant of a round up to the filter: the observations are of        *)
(* oracles, the valid ones have a block, and the block chosen is a median.   *)
IsMedian(b) ==
  /\ b \in BlockKey
  /\ V2!Below(b) <= Cardinality(V2!Valid) \div 2
  /\ Cardinality(V2!Valid) \div 2 < V2!UpTo(b)

MedianInv ==
  /\ round \in {"collect", "filter"} =>
       /\ DOMAIN attributed \subseteq Oracle
       /\ \A o \in V2!Valid : attributed[o].block \in BlockKey
  /\ round = "filter" => IsMedian(block)

LEMMA ObservedBlock ==
  \A x \in V2!Observed \cup V2!Observation : x # Invalid => x.block \in BlockKey
<1>1. ASSUME NEW b \in BlockKey, NEW s, NEW x \in V2!limitedLengthEncode(b, s), x # Invalid
      PROVE  x.block \in BlockKey
  <2>1. CASE s = <<>>
    BY <1>1, <2>1 DEF V2!limitedLengthEncode
  <2>2. CASE s # <<>>
    BY <1>1, <2>2 DEF V2!limitedLengthEncode
  <2> QED BY <2>1, <2>2
<1>2. ASSUME NEW x \in V2!Observed, x # Invalid PROVE x.block \in BlockKey
  <2>1. \E b \in BlockKey, ids \in Ids : x \in V2!limitedLengthEncode(b, V2!Cut(ids))
    BY <1>2 DEF V2!Observed
  <2> QED BY <1>1, <1>2, <2>1
<1>3. \A x \in V2!Observation : x # Invalid => x.block \in BlockKey
  BY DEF V2!Observation
<1> QED BY <1>2, <1>3

LEMMA MedianInit == V2!PluginInit => MedianInv
<1> SUFFICES ASSUME V2!PluginInit PROVE MedianInv
  OBVIOUS
<1>1. PICK quorum \in SUBSET Oracle \ {{}} :
        attributed \in [quorum -> V2!Observed \cup V2!Observation]
  BY DEF V2!PluginInit
<1>2. /\ DOMAIN attributed \subseteq Oracle
      /\ \A o \in DOMAIN attributed : attributed[o] \in V2!Observed \cup V2!Observation
  BY <1>1
<1>3. round = "collect"
  BY DEF V2!PluginInit, V2!RoundInit
<1> QED BY <1>2, <1>3, ObservedBlock DEF MedianInv, V2!Valid

\* Whatever the observations, the choice of GetMedian is a median.
LEMMA GetMedianIs ==
  ASSUME MedianInv, round \in {"collect", "filter"}, V2!Valid # {}
  PROVE  IsMedian(V2!GetMedian)
<1> DEFINE V == V2!Valid
           blk == [o \in V |-> attributed[o].block]
<1>1. V \in SUBSET Oracle
  BY DEF MedianInv, V2!Valid
<1>2. IsFiniteSet(V)
  BY <1>1, V2PluginAssumption, FS_Subset
<1>3. \A o \in V : blk[o] = attributed[o].block /\ blk[o] \in BlockKey
  BY DEF MedianInv
<1>4. blk \in [V -> Nat]
  BY <1>3, V2PluginAssumption
<1> HIDE DEF blk, V
<1>5. PICK o \in V :
        /\ Cardinality(BelowBlock(V, blk, blk[o])) <= Cardinality(V) \div 2
        /\ Cardinality(V) \div 2 < Cardinality(UpToBlock(V, blk, blk[o]))
  BY <1>2, <1>4, MedianExists DEF V
<1>6. /\ BelowBlock(V, blk, blk[o]) = {p \in V2!Valid : attributed[p].block < blk[o]}
      /\ UpToBlock(V, blk, blk[o]) = {p \in V2!Valid : attributed[p].block <= blk[o]}
  BY <1>3 DEF V, BelowBlock, UpToBlock
<1>7. /\ V2!Below(blk[o]) = Cardinality(BelowBlock(V, blk, blk[o]))
      /\ V2!UpTo(blk[o]) = Cardinality(UpToBlock(V, blk, blk[o]))
  BY <1>6, Counts, Zenon
<1>8. \E b \in BlockKey : /\ V2!Below(b) <= V2!Cardinality(V2!Valid) \div 2
                          /\ V2!Cardinality(V2!Valid) \div 2 < V2!UpTo(b)
  BY <1>3, <1>5, <1>7, SameCardinality DEF V
<1>9. /\ V2!GetMedian \in BlockKey
      /\ V2!Below(V2!GetMedian) <= V2!Cardinality(V2!Valid) \div 2
      /\ V2!Cardinality(V2!Valid) \div 2 < V2!UpTo(V2!GetMedian)
  BY <1>8, Zenon DEF V2!GetMedian
<1> QED BY <1>9, SameCardinality DEF IsMedian

LEMMA MedianNext == MedianInv /\ [V2!PluginNext]_v2vars => MedianInv'
<1> SUFFICES ASSUME MedianInv, [V2!PluginNext]_v2vars PROVE MedianInv'
  OBVIOUS
<1>1. CASE V2!Collect
  <2>1. /\ round = "collect" /\ round' = "filter" /\ attributed' = attributed
        /\ block' = V2!GetMedian /\ V2!Valid # {}
    BY <1>1 DEF V2!Collect
  <2>2. V2!Valid' = V2!Valid
    BY <2>1 DEF V2!Valid
  <2>3. IsMedian(V2!GetMedian)
    BY <2>1, GetMedianIs
  <2>4. IsMedian(block)'
    BY <2>1, <2>2, <2>3 DEF IsMedian, V2!Below, V2!UpTo
  <2> QED BY <2>1, <2>2, <2>4 DEF MedianInv
<1>2. CASE UNCHANGED v2vars
  BY <1>2 DEF v2vars, MedianInv, IsMedian, V2!Below, V2!UpTo, V2!Valid
<1>3. CASE round' \notin {"collect", "filter"}
  BY <1>3 DEF MedianInv
<1>4. CASE V2!Filter \/ V2!CheckUpkeep \/ V2!BuildStep
  BY <1>3, <1>4 DEF V2!Filter, V2!CheckUpkeep, V2!BuildStep, V2!Building
<1>5. CASE V2!CollectFails \/ V2!CheckFindsNothing \/ V2!CheckFails \/ V2!BuildEnds \/ V2!BuildFails
  BY <1>3, <1>5 DEF V2!CollectFails, V2!CheckFindsNothing, V2!CheckFails, V2!BuildEnds,
                    V2!BuildFails, V2!Ends
<1> QED BY <1>1, <1>2, <1>4, <1>5 DEF V2!PluginNext

\* Whatever the oracles, the observations and who is faulty: the block of an OCR2
\* round is between two blocks of honest nodes, when they have the majority of the
\* valid observations.
THEOREM AlwaysMedianHonest == V2!PluginSpec => []MedianHonest
<1>1. MedianInv => MedianHonest
  <2> SUFFICES ASSUME MedianInv, round = "filter",
                      Cardinality(V2!Honest) > Cardinality(V2!Valid \cap Faulty)
               PROVE  /\ \E o \in V2!Honest : attributed[o].block <= block
                      /\ \E o \in V2!Honest : attributed[o].block >= block
    BY SameCardinality DEF MedianHonest, V2!MedianHonest
  <2> DEFINE V == V2!Valid
             blk == [o \in V |-> attributed[o].block]
  <2>1. V \in SUBSET Oracle
    BY DEF MedianInv, V2!Valid
  <2>2. IsFiniteSet(V)
    BY <2>1, V2PluginAssumption, FS_Subset
  <2>3. \A o \in V : blk[o] = attributed[o].block /\ blk[o] \in BlockKey
    BY DEF MedianInv
  <2>4. blk \in [V -> Nat]
    BY <2>3, V2PluginAssumption
  <2> HIDE DEF blk
  <2>5. IsMedian(block) /\ block \in Nat
    BY V2PluginAssumption DEF MedianInv, IsMedian
  <2>6. /\ BelowBlock(V, blk, block) = {p \in V2!Valid : attributed[p].block < block}
        /\ UpToBlock(V, blk, block) = {p \in V2!Valid : attributed[p].block <= block}
    BY <2>3 DEF BelowBlock, UpToBlock
  <2>7. /\ Cardinality(BelowBlock(V, blk, block)) <= Cardinality(V) \div 2
        /\ Cardinality(V) \div 2 < Cardinality(UpToBlock(V, blk, block))
    BY <2>5, <2>6, Counts, Zenon DEF IsMedian
  <2> HIDE DEF V
  <2>8. PICK H, F : H = V2!Honest /\ F = V \ H
    OBVIOUS
  <2>9. H \in SUBSET V /\ F = V2!Valid \cap Faulty
    BY <2>8 DEF V, V2!Honest
  <2>10. Cardinality(H) > Cardinality(F)
    BY <2>8, <2>9
  <2>11. (\E o \in H : blk[o] <= block) /\ (\E o \in H : blk[o] >= block)
    BY <2>2, <2>4, <2>5, <2>7, <2>8, <2>9, <2>10, HonestMajority
  <2> QED BY <2>3, <2>8, <2>9, <2>11
<1> QED BY <1>1, MedianInit, MedianNext, PTL DEF V2!PluginSpec, V2!pluginVars, v2vars

(* Building the report.  The gas a report needs, as its sum.                 *)
Spending(T) == SumFunctionOnSet([r \in T |-> V2!Needs(r)], T)

LEMMA SpentIs == V2!Spent = Spending(toPerform)
<1>1. V2!Spent = V2!SumFunctionOnSet([r \in toPerform |-> V2!Needs(r)], toPerform)
  BY DEF V2!Spent, V2!SumFunction
<1> QED BY <1>1, SameSum, Zenon DEF Spending

LEMMA SpendingNone == Spending({}) = 0
BY FS_EmptySet, SumStep DEF Spending

\* Another upkeep adds what it needs.
LEMMA SpendingMore ==
  ASSUME NEW T, IsFiniteSet(T), \A r \in T : V2!Needs(r) \in Nat,
         NEW x, x \notin T, V2!Needs(x) \in Nat
  PROVE  Spending(T \cup {x}) = V2!Needs(x) + Spending(T) /\ Spending(T) \in Nat
<1> DEFINE R == T \cup {x}
           f == [r \in R |-> V2!Needs(r)]
           g == [r \in T |-> V2!Needs(r)]
<1>1. IsFiniteSet(R) /\ x \in R
  BY FS_AddElement
<1>2. R \ {x} = T
  OBVIOUS
<1>3. /\ \A r \in R : f[r] \in Nat
      /\ f[x] = V2!Needs(x)
      /\ \A r \in T : f[r] = g[r] /\ g[r] \in Nat
  OBVIOUS
<1> HIDE DEF f, g
<1>4. SumFunctionOnSet(f, R) = f[x] + SumFunctionOnSet(f, R \ {x})
  BY <1>1, <1>3, SumWithout
<1>5. SumFunctionOnSet(f, T) = SumFunctionOnSet(g, T) /\ SumFunctionOnSet(g, T) \in Nat
  BY <1>3, SumSame, SumNat
<1>6. Spending(R) = SumFunctionOnSet(f, R) /\ Spending(T) = SumFunctionOnSet(g, T)
  BY DEF Spending, f, g
<1> HIDE DEF R
<1>7. Spending(R) = V2!Needs(x) + Spending(T)
  BY <1>2, <1>3, <1>4, <1>5, <1>6, Zenon
<1> QED BY <1>5, <1>6, <1>7, Zenon DEF R

\* A result before the loop's position was skipped, is in the report, or does not
\* fit any more.
Settled(k) ==
  \/ V2!Skipped(checked[k]) \/ checked[k] \in toPerform
  \/ Spending(toPerform) + V2!Needs(checked[k]) > GasLimitPerReport

BuildInv ==
  /\ round \in {"collect", "filter", "check"} =>
       i = 1 /\ toPerform = {} /\ totalReportGas = 0
  /\ round \in {"build", "report"} =>
       /\ \E keys : checked \in Seq(V2!UpkeepResult(keys))
       /\ \A j, k \in 1..Len(checked) : checked[j].id = checked[k].id => j = k
       /\ i \in 1..(Len(checked) + 1)
       /\ \A r \in toPerform : \E k \in 1..(i - 1) : r = checked[k]
       /\ IsFiniteSet(toPerform) /\ Cardinality(toPerform) <= MaxUpkeepBatchSize
       /\ V2!NoOverflow =>
            /\ totalReportGas = Spending(toPerform)
            /\ totalReportGas \in 0..GasLimitPerReport
            /\ \A k \in 1..(i - 1) : Settled(k)
  /\ round = "report" => Cardinality(toPerform) = MaxUpkeepBatchSize \/ i = Len(checked) + 1

LEMMA CheckedNeeds ==
  ASSUME NEW keys, checked \in Seq(V2!UpkeepResult(keys))
  PROVE  /\ Len(checked) \in Nat /\ DOMAIN checked = 1..Len(checked)
         /\ \A k \in 1..Len(checked) :
              /\ V2!Needs(checked[k]) = checked[k].gas + GasOverheadPerUpkeep
              /\ V2!Needs(checked[k]) \in Nat /\ checked[k].gas \in Nat
<1>0. GasV2 \subseteq Nat
  BY V2PluginAssumption, ReportsAssumption DEF Uint
<1>1. \A r \in V2!UpkeepResult(keys) : r.gas \in Nat
  BY <1>0 DEF V2!UpkeepResult
<1>2. \A k \in 1..Len(checked) : checked[k] \in V2!UpkeepResult(keys)
  OBVIOUS
<1> QED BY <1>1, <1>2, ReportsAssumption DEF V2!Needs, Uint

\* Below the range, the sums are exact.
LEMMA WrappedExact ==
  ASSUME NEW n \in Nat, n < UintRange
  PROVE  V2!Wrapped(n) = n
BY ReportsAssumption DEF V2!Wrapped

LEMMA BuildStepInv ==
  ASSUME BuildInv, V2!BuildStep
  PROVE  BuildInv'
<1>1. /\ round = "build" /\ round' = "build" /\ checked' = checked /\ i' = i + 1
      /\ i <= Len(checked) /\ V2!Cardinality(toPerform) < MaxUpkeepBatchSize
  BY DEF V2!BuildStep, V2!Building
<1>2. PICK keys : checked \in Seq(V2!UpkeepResult(keys))
  BY <1>1 DEF BuildInv
<1>3. i \in 1..Len(checked) /\ Len(checked) \in Nat
  BY <1>1, <1>2 DEF BuildInv
<1>t. /\ \A j, k \in 1..Len(checked) : checked[j].id = checked[k].id => j = k
      /\ \A r \in toPerform : \E k \in 1..(i - 1) : r = checked[k]
      /\ IsFiniteSet(toPerform) /\ Cardinality(toPerform) < MaxUpkeepBatchSize
      /\ Cardinality(toPerform) \in Nat /\ MaxUpkeepBatchSize \in Nat
      /\ GasLimitPerReport \in Nat /\ UintRange \in Nat
  BY <1>1, SameCardinality, FS_CardinalityType, ReportsAssumption DEF BuildInv, Uint
<1> DEFINE r == checked[i]
           need == V2!Needs(r)
           skip == \/ V2!Skipped(r)
                   \/ V2!Wrapped(totalReportGas + V2!upkeepMaxGas(r)) > GasLimitPerReport
<1>4. /\ toPerform' = IF skip THEN toPerform ELSE toPerform \cup {r}
      /\ totalReportGas' = IF skip THEN totalReportGas
                           ELSE V2!Wrapped(totalReportGas + V2!upkeepMaxGas(r))
  BY DEF V2!BuildStep
<1>5. /\ need \in Nat /\ need = r.gas + GasOverheadPerUpkeep
      /\ \A x \in toPerform : V2!Needs(x) \in Nat
      /\ \A k \in 1..Len(checked) : V2!Needs(checked[k]) \in Nat
  BY <1>2, <1>3, <1>t, CheckedNeeds
<1>6. r \notin toPerform
  BY <1>3, <1>t
<1>7. /\ IsFiniteSet(toPerform') /\ Cardinality(toPerform') <= MaxUpkeepBatchSize
      /\ \A x \in toPerform' : \E k \in 1..i : x = checked[k]
  <2>1. /\ IsFiniteSet(toPerform \cup {r})
        /\ Cardinality(toPerform \cup {r}) = Cardinality(toPerform) + 1
    BY <1>6, <1>t, FS_AddElement
  <2>2. IsFiniteSet(toPerform') /\ Cardinality(toPerform') <= Cardinality(toPerform) + 1
    BY <1>4, <1>t, <2>1
  <2>3. \A x \in toPerform' : x \in toPerform \/ x = r
    BY <1>4
  <2>4. \A x \in toPerform' : \E k \in 1..i : x = checked[k]
    BY <1>3, <1>t, <2>3
  <2>5. Cardinality(toPerform') \in Nat
    BY <2>2, FS_CardinalityType
  <2> QED BY <1>t, <2>2, <2>4, <2>5
<1>8. ASSUME V2!NoOverflow
      PROVE  /\ totalReportGas' = Spending(toPerform')
             /\ totalReportGas' \in 0..GasLimitPerReport
             /\ \A k \in 1..i : Settled(k)'
  <2>1. /\ totalReportGas = Spending(toPerform) /\ totalReportGas \in 0..GasLimitPerReport
        /\ \A k \in 1..(i - 1) : Settled(k)
    BY <1>1, <1>8 DEF BuildInv
  <2>2. need + GasLimitPerReport < UintRange
    BY <1>2, <1>3, <1>8, CheckedNeeds DEF V2!NoOverflow
  <2>3. V2!upkeepMaxGas(r) = need
    BY <1>5, <1>t, <2>2, WrappedExact DEF V2!upkeepMaxGas
  <2>4. V2!Wrapped(totalReportGas + V2!upkeepMaxGas(r)) = totalReportGas + need
    <3>1. PICK n : n = totalReportGas + need
      OBVIOUS
    <3>2. n \in Nat /\ n < UintRange
      BY <1>5, <1>t, <2>1, <2>2, <3>1
    <3>3. V2!Wrapped(n) = n
      BY <3>2, WrappedExact
    <3> QED BY <2>3, <3>1, <3>3
  <2> HIDE DEF need, r
  <2>5. CASE skip
    <3>1. toPerform' = toPerform /\ totalReportGas' = totalReportGas
      BY <1>4, <2>5
    <3>2. Settled(i)
      BY <2>1, <2>4, <2>5, <1>5 DEF Settled, need, r
    <3>3. \A k \in 1..i : Settled(k)
      BY <1>3, <2>1, <3>2
    <3> QED BY <1>1, <2>1, <3>1, <3>3 DEF Settled
  <2>6. CASE ~skip
    <3>1. toPerform' = toPerform \cup {r} /\ totalReportGas' = totalReportGas + need
      BY <1>4, <2>4, <2>6
    <3>2. /\ Spending(toPerform \cup {r}) = need + Spending(toPerform)
          /\ Spending(toPerform) \in Nat
      BY <1>5, <1>6, <1>t, SpendingMore DEF need
    <3>3. Spending(toPerform') = totalReportGas + need
      BY <1>5, <2>1, <3>1, <3>2
    <3>4. totalReportGas + need <= GasLimitPerReport
      BY <1>5, <1>t, <2>1, <2>4, <2>6
    <3>5. \A k \in 1..i : Settled(k)'
      <4> SUFFICES ASSUME NEW k \in 1..i PROVE Settled(k)'
        OBVIOUS
      <4>1. CASE k = i
        BY <4>1, <3>1, <1>1 DEF Settled, r
      <4>2. CASE k \in 1..(i - 1)
        <5>1. Settled(k) /\ V2!Needs(checked[k]) \in Nat
          BY <1>3, <1>5, <2>1, <4>2
        <5>2. CASE V2!Skipped(checked[k]) \/ checked[k] \in toPerform
          BY <5>2, <3>1, <1>1 DEF Settled
        <5>3. CASE Spending(toPerform) + V2!Needs(checked[k]) > GasLimitPerReport
          <6>1. Spending(toPerform') + V2!Needs(checked[k]) > GasLimitPerReport
            BY <1>5, <1>t, <2>1, <3>2, <3>3, <5>1, <5>3
          <6> QED BY <6>1, <1>1 DEF Settled
        <5> QED BY <5>1, <5>2, <5>3 DEF Settled
      <4> QED BY <1>3, <4>1, <4>2
    <3> QED BY <1>5, <1>t, <2>1, <3>1, <3>3, <3>4, <3>5
  <2> QED BY <2>5, <2>6
<1>9. V2!NoOverflow' <=> V2!NoOverflow
  BY <1>1 DEF V2!NoOverflow
<1>10. i' \in 1..(Len(checked) + 1) /\ i' - 1 = i
  BY <1>1, <1>3
<1> QED BY <1>1, <1>2, <1>7, <1>8, <1>9, <1>10, <1>t DEF BuildInv

LEMMA CheckUpkeepInv ==
  ASSUME BuildInv, V2!CheckUpkeep
  PROVE  BuildInv'
<1>1. /\ round' = "build" /\ i' = 1 /\ toPerform' = {} /\ totalReportGas' = 0
  BY DEF V2!CheckUpkeep, BuildInv
<1>2. PICK n \in 1..ReportKeysLimit :
        checked' \in {s \in [1..n -> V2!UpkeepResult(keysToCheck)] :
                        V2!IsInjective([k \in 1..n |-> s[k].id])}
  BY DEF V2!CheckUpkeep
<1>3. PICK keys, s : keys = keysToCheck /\ s = checked'
  OBVIOUS
<1>4. s \in [1..n -> V2!UpkeepResult(keys)] /\ n \in Nat
  BY <1>2, <1>3, V2PluginAssumption
<1>5. s \in Seq(V2!UpkeepResult(keys)) /\ Len(s) = n
  BY <1>4
<1>6. \A j, k \in 1..n : s[j].id = s[k].id => j = k
  BY <1>2, <1>3 DEF V2!IsInjective
<1>7. Spending(toPerform') = 0 /\ IsFiniteSet(toPerform') /\ Cardinality(toPerform') = 0
  BY <1>1, SpendingNone, FS_EmptySet
<1>8. /\ i' \in 1..(Len(checked') + 1) /\ i' - 1 = 0
      /\ \A j, k \in 1..Len(checked') : checked'[j].id = checked'[k].id => j = k
      /\ \E ks : checked' \in Seq(V2!UpkeepResult(ks))
  BY <1>1, <1>3, <1>4, <1>5, <1>6
<1>9. 0 <= MaxUpkeepBatchSize /\ 0 \in 0..GasLimitPerReport
  BY ReportsAssumption DEF Uint
<1> QED BY <1>1, <1>7, <1>8, <1>9 DEF BuildInv

LEMMA BuildNext == BuildInv /\ [V2!PluginNext]_v2vars => BuildInv'
<1> SUFFICES ASSUME BuildInv, [V2!PluginNext]_v2vars PROVE BuildInv'
  OBVIOUS
<1>1. CASE V2!BuildStep
  BY <1>1, BuildStepInv
<1>2. CASE V2!CheckUpkeep
  BY <1>2, CheckUpkeepInv
<1>3. CASE V2!Collect \/ V2!Filter
  <2>1. /\ i' = i /\ toPerform' = toPerform /\ totalReportGas' = totalReportGas
        /\ round \in {"collect", "filter"} /\ round' \in {"filter", "check", "none"}
    BY <1>3 DEF V2!Collect, V2!Filter
  <2> QED BY <2>1 DEF BuildInv
<1>4. CASE V2!BuildEnds
  <2>1. /\ UNCHANGED <<checked, i, toPerform, totalReportGas>>
        /\ round = "build" /\ round' \in {"none", "report"}
        /\ ~(i <= Len(checked) /\ Cardinality(toPerform) < MaxUpkeepBatchSize)
    BY <1>4, SameCardinality DEF V2!BuildEnds, V2!Building, V2!Ends
  <2>2. /\ i \in 1..(Len(checked) + 1) /\ IsFiniteSet(toPerform)
        /\ Cardinality(toPerform) <= MaxUpkeepBatchSize
        /\ \E keys : checked \in Seq(V2!UpkeepResult(keys))
    BY <2>1 DEF BuildInv
  <2>3. Cardinality(toPerform) \in Nat /\ MaxUpkeepBatchSize \in Nat /\ Len(checked) \in Nat
    BY <2>2, FS_CardinalityType, ReportsAssumption
  <2>4. Cardinality(toPerform) = MaxUpkeepBatchSize \/ i = Len(checked) + 1
    BY <2>1, <2>2, <2>3
  <2> QED BY <2>1, <2>4 DEF BuildInv, Settled, V2!NoOverflow
<1>5. CASE V2!CollectFails \/ V2!CheckFindsNothing \/ V2!CheckFails \/ V2!BuildFails
  BY <1>5 DEF V2!CollectFails, V2!CheckFindsNothing, V2!CheckFails, V2!BuildFails, V2!Ends,
              BuildInv
<1>6. CASE UNCHANGED v2vars
  BY <1>6 DEF v2vars, BuildInv, Settled, V2!NoOverflow
<1> QED BY <1>1, <1>2, <1>3, <1>4, <1>5, <1>6 DEF V2!PluginNext

\* Whatever the upkeeps, their gas and the limits, where no sum overflows: an OCR2
\* report is within the gas and the batch size, and it leaves out no upkeep that
\* would still fit.
THEOREM AlwaysReportFull == V2!PluginSpec => []ReportFull
<1>1. V2!PluginInit => BuildInv
  BY DEF V2!PluginInit, V2!RoundInit, BuildInv
<1>2. BuildInv => ReportFull
  <2> SUFFICES ASSUME BuildInv, round = "report", V2!NoOverflow
               PROVE  /\ Spending(toPerform) <= GasLimitPerReport
                      /\ Cardinality(toPerform) <= MaxUpkeepBatchSize
                      /\ \/ Cardinality(toPerform) = MaxUpkeepBatchSize
                         \/ \A k \in DOMAIN checked : Settled(k)
    BY SpentIs, SameCardinality DEF ReportFull, V2!ReportFull, Settled
  <2>1. PICK keys : checked \in Seq(V2!UpkeepResult(keys))
    BY DEF BuildInv
  <2>2. Len(checked) \in Nat /\ DOMAIN checked = 1..Len(checked)
    BY <2>1
  <2>3. /\ Spending(toPerform) \in 0..GasLimitPerReport
        /\ Cardinality(toPerform) <= MaxUpkeepBatchSize
        /\ \A k \in 1..(i - 1) : Settled(k)
        /\ Cardinality(toPerform) = MaxUpkeepBatchSize \/ i = Len(checked) + 1
    BY DEF BuildInv
  <2> QED BY <2>2, <2>3
<1> QED BY <1>1, <1>2, BuildNext, PTL DEF V2!PluginSpec, V2!pluginVars, v2vars

=============================================================================
