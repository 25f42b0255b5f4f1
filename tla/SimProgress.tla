----------------------------- MODULE SimProgress -----------------------------
(***************************************************************************)
(* The progress telemetry of the simulator (telemetry/progress.go) on top  *)
(* of the chain: a tracker for the blocks and one for the perform events,  *)
(* each with a goroutine, and the loop that waits for them and decides     *)
(* whether the simulation succeeded.  The writer that renders the trackers *)
(* is a library.                                                           *)
(***************************************************************************)
EXTENDS SimChain, FiniteSetsExt

Namespace == {"blocks", "performs"}

\* A log triggers an upkeep that is there and is eligible then or later.
logTriggersUpkeep(l, u) ==
  /\ l.triggerAt >= u.createInBlock /\ l.triggerValue = u.triggeredBy
  /\ u.alwaysEligible \/ \E b \in u.eligibleAt : b >= l.triggerAt

calculateExpectedPerformEvents ==
  MapThenSumSet(
    LAMBDA u : IF u.type = "conditional" THEN Cardinality(u.eligibleAt)
               ELSE Cardinality({l \in plan.logs : logTriggersUpkeep(l, u)}),
    {u \in plan.upkeeps : u.expected})

\* What Register was told to expect: Genesis is a block too, so that the blocks of
\* the duration and the padding are one more than their number.
Total(ns) == IF ns = "blocks" THEN Limit - Genesis ELSE calculateExpectedPerformEvents

VARIABLES
  counted,   \* per namespace: the blocks whose increment has arrived
  value,     \* per namespace: the value of the tracker
  tracker,   \* per namespace: new (not rendered yet), open, done, errored
  verdict,   \* checkProgress: open, success, failure
  premature  \* history: the verdict was there before the trackers

progressVars == <<counted, value, tracker, verdict, premature>>

ProgressInit ==
  /\ counted = [ns \in Namespace |-> {}]
  /\ value = [ns \in Namespace |-> 0]
  /\ tracker = [ns \in Namespace |-> "new"]
  /\ verdict = "open"
  /\ premature = FALSE

countPerformEvents(reports) == MapThenSumSet(LAMBDA r : Cardinality(r.works), reports)

\* The increments that were sent: one for a block, and one, of as many as its
\* reports perform works, for a block with reports.
Sent(ns) == {n \in Broadcasted : ns = "blocks" \/ Performs(n) # {}}
Amount(ns, n) == IF ns = "blocks" THEN 1 ELSE countPerformEvents(Performs(n))

-----------------------------------------------------------------------------

\* track adds the tracker to the writer.
AppendTracker(ns) ==
  /\ tracker[ns] = "new"
  /\ tracker' = [tracker EXCEPT ![ns] = "open"]
  /\ UNCHANGED <<counted, value, verdict, premature>>

\* The tracker is done when its value reaches the total; one that expects nothing
\* has failed with the first increment.
Increment(ns, n) ==
  /\ tracker[ns] = "open" /\ n \in Sent(ns) \ counted[ns]
  /\ counted' = [counted EXCEPT ![ns] = @ \cup {n}]
  /\ IF Total(ns) = 0
     THEN tracker' = [tracker EXCEPT ![ns] = "errored"] /\ UNCHANGED value
     ELSE /\ value' = [value EXCEPT ![ns] = @ + Amount(ns, n)]
          /\ tracker' = [tracker EXCEPT ![ns] = IF value'[ns] >= Total(ns) THEN "done" ELSE "open"]
  /\ UNCHANGED <<verdict, premature>>

\* Mutant: a tracker that is closed early counts as done.
closedAsDone(ns) == "done"

closedAs(ns) == IF value[ns] = Total(ns) THEN "done" ELSE "errored"

\* The progress is closed while the tracker waits, increments under way or not.
CloseTracker(ns) ==
  /\ group = "closed" /\ tracker[ns] = "open"
  /\ tracker' = [tracker EXCEPT ![ns] = closedAs(ns)]
  /\ UNCHANGED <<counted, value, verdict, premature>>

\* checkProgress: at a tick without active trackers, or half a second after the
\* close.  Trackers that were not added to the writer by then are not missed.
CheckProgress ==
  /\ verdict = "open"
  /\ group = "closed" \/ \A ns \in Namespace : tracker[ns] # "open"
  /\ verdict' = IF \A ns \in Namespace : tracker[ns] \in {"new", "done"}
                THEN "success" ELSE "failure"
  /\ premature' = (\E ns \in Namespace : tracker[ns] = "new")
  /\ UNCHANGED <<counted, value, tracker>>

ProgressNext ==
  \/ \E ns \in Namespace : AppendTracker(ns) \/ CloseTracker(ns)
  \/ \E ns \in Namespace, n \in Number : Increment(ns, n)
  \/ CheckProgress

-----------------------------------------------------------------------------
(* Properties.                                                             *)

\* A simulation that is reported as done has broadcast as many blocks as planned and
\* performed, in different reports, as many works as expected, or none was counted if
\* none was expected: however the increments, the end and an interrupt interleave,
\* and although every node transmits a report, it counts once.  The one exception is a
\* verdict taken before the trackers were added to the writer.
VerdictSound ==
  verdict = "success" /\ ~premature =>
    /\ Cardinality(Broadcasted) >= Total("blocks")
    /\ countPerformEvents(UNION {Performs(n) : n \in Broadcasted}) >= Total("performs")
    /\ Total("performs") = 0 => counted["performs"] = {}

=============================================================================
