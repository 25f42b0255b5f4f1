----------------------------- MODULE MCSimulator -----------------------------
(* A chain of three blocks whose numbers get a second digit on the way, a    *)
(* plan with an upkeep and a log that triggers it one block later, and one   *)
(* that expects nothing.  A behaviour follows the progress telemetry or some *)
(* trackers of a node.                                                       *)
EXTENDS SimProgress, SimNode

Upkeep(type, expected) ==
  [type |-> type, createInBlock |-> Genesis, triggeredBy |-> "v", alwaysEligible |-> FALSE,
   eligibleAt |-> {Genesis + 1}, expected |-> expected]

MCPlans ==
  {[upkeeps |-> {Upkeep("log", TRUE), Upkeep("conditional", TRUE)},
    logs |-> {[triggerAt |-> Genesis + 1, triggerValue |-> "v"]}, configs |-> {Genesis, Genesis + 1}],
   [upkeeps |-> {Upkeep("log", FALSE)}, logs |-> {}, configs |-> {}]}

MCReport == {[round |-> 1, works |-> {"w1"}], [round |-> 2, works |-> {"w2"}]}

\* No tracker: the behaviour follows the progress telemetry.
MCFollowed == {{}, {"active", "log"}, {"perform"}, {"report"}, {"history"}, {"config"}}

MCInit ==
  /\ ChainInit /\ ProgressInit /\ NodeInit
  /\ follow # {} => plan.logs # {}

MCNext ==
  /\ Alive
  /\ \/ ChainNext /\ UNCHANGED <<progressVars, nodeVars>>
        /\ (transmitted' # {} => follow \subseteq {"perform", "report"})
     \/ follow = {} /\ ProgressNext /\ UNCHANGED <<chainVars, nodeVars>>
     \/ follow # {} /\ NodeNext /\ UNCHANGED <<chainVars, progressVars>>

MCSpec ==
  /\ MCInit /\ [][MCNext]_<<chainVars, progressVars, nodeVars>>
  /\ WF_chainVars(ChainRuns /\ UNCHANGED <<progressVars, nodeVars>>)
  /\ NodeFairness
=============================================================================
