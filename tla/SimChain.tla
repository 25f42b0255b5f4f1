------------------------------ MODULE SimChain ------------------------------
(***************************************************************************)
(* The simulated chain (tools/simulator): the block broadcaster with its   *)
(* loaders, the transmit loader the nodes send reports to, the node group  *)
(* that waits for the end, and the progress telemetry whose verdict the    *)
(* simulator exits with.                                                   *)
(*                                                                         *)
(* A block is delivered, and an increment sent, by a goroutine of its own, *)
(* so what is under way is what was broadcast and has not arrived, and it  *)
(* arrives in any order.                                                   *)
(***************************************************************************)
EXTENDS Integers, FiniteSets

CONSTANTS
  Genesis, Limit,  \* the first block, and the last: duration and padding later
  Plans,           \* simulation plans: upkeeps, logs and the blocks of configurations
  Report,          \* reports: their round and the works they perform
  None

Number == Genesis..Limit

ASSUME SimChainAssumption ==
  /\ Genesis \in Nat /\ Limit \in Nat /\ Genesis <= Limit

VARIABLES
  plan,
  nextBlock,
  run,          \* the broadcaster: first, timer, done (it sends on done), stopped, panicked
  blocks,       \* per block None, or its transactions
  queue,        \* reports the next block takes
  transmitted,  \* all reports that were ever queued
  doneClosed,   \* Stop closed the channel done
  cancelled,    \* the context of the group
  group         \* Start: select, results, closed

chainVars == <<plan, nextBlock, run, blocks, queue, transmitted, doneClosed, cancelled, group>>

ChainInit ==
  /\ plan \in Plans
  /\ nextBlock = Genesis /\ run = "first"
  /\ blocks = [n \in Number |-> None]
  /\ queue = {}
  /\ transmitted = {}
  /\ doneClosed = FALSE /\ cancelled = FALSE
  /\ group = "select"

Broadcasted == {n \in Number : blocks[n] # None}

\* The reports in a block.
Performs(n) == UNION {tx.reports : tx \in {t \in blocks[n] : t.type = "perform"}}

-----------------------------------------------------------------------------
(* The transmit loader.                                                    *)

\* Mutant: a report is taken again once it is in a block.
alreadyTransmittedQueued(r) == r \in queue

alreadyTransmitted(r) == r \in transmitted

\* A node transmits; all nodes do, so the second one gets an error.
Transmit(r) ==
  /\ ~alreadyTransmitted(r)
  /\ queue' = queue \cup {r}
  /\ transmitted' = transmitted \cup {r}
  /\ UNCHANGED <<plan, nextBlock, run, blocks, doneClosed, cancelled, group>>

Performing == IF queue = {} THEN {} ELSE {[type |-> "perform", reports |-> queue]}
Configs(n) == IF n \in plan.configs THEN {[type |-> "config"]} ELSE {}
Creations(n) == {[type |-> "create", upkeep |-> u] : u \in {v \in plan.upkeeps : v.createInBlock = n}}
Logs(n) == {[type |-> "log", log |-> l] : l \in {k \in plan.logs : k.triggerAt = n}}

\* Load of the four loaders: all queued reports in one transaction, and the plan's.
Load(n) == Performing \cup Configs(n) \cup Creations(n) \cup Logs(n)

-----------------------------------------------------------------------------
(* The broadcaster.                                                        *)

broadcast(n) ==
  /\ blocks' = [blocks EXCEPT ![n] = Load(n)]
  /\ queue' = {}
  /\ UNCHANGED transmitted

First ==
  /\ run = "first"
  /\ broadcast(nextBlock)
  /\ run' = "timer"
  /\ UNCHANGED <<plan, nextBlock, doneClosed, cancelled, group>>

\* The timer fires.  Past the limit the broadcaster sends on done, which panics if
\* Stop has closed the channel.
Timer ==
  /\ run = "timer"
  /\ nextBlock' = nextBlock + 1
  /\ IF nextBlock' > Limit
     THEN /\ run' = IF doneClosed THEN "panicked" ELSE "done"
          /\ UNCHANGED <<blocks, queue, transmitted>>
     ELSE broadcast(nextBlock') /\ UNCHANGED run
  /\ UNCHANGED <<plan, doneClosed, cancelled, group>>

\* The select takes the closed channel.
RunReturns ==
  /\ run = "timer" /\ doneClosed
  /\ run' = "stopped"
  /\ UNCHANGED <<plan, nextBlock, blocks, queue, transmitted, doneClosed, cancelled, group>>

-----------------------------------------------------------------------------
(* The group.                                                              *)

\* An interrupt.
Cancel ==
  /\ ~cancelled
  /\ cancelled' = TRUE
  /\ UNCHANGED <<plan, nextBlock, run, blocks, queue, transmitted, doneClosed, group>>

\* The last block is over: the group receives from done, and the timer is set again.
GroupDone ==
  /\ group = "select" /\ run = "done"
  /\ group' = "results"
  /\ run' = "timer"
  /\ UNCHANGED <<plan, nextBlock, blocks, queue, transmitted, doneClosed, cancelled>>

\* The group stops the broadcaster, whose pending send panics.
GroupStops ==
  /\ group = "select" /\ cancelled
  /\ group' = "results"
  /\ doneClosed' = TRUE
  /\ run' = IF run = "done" THEN "panicked" ELSE run
  /\ UNCHANGED <<plan, nextBlock, blocks, queue, transmitted, cancelled>>

\* The results are written, the nodes and the progress are closed.
GroupCloses ==
  /\ group = "results"
  /\ group' = "closed"
  /\ UNCHANGED <<plan, nextBlock, run, blocks, queue, transmitted, doneClosed, cancelled>>

\* A panic in the broadcaster's goroutine ends the process.
Alive == run # "panicked"

RunStep == First \/ Timer
GroupStep == GroupDone \/ GroupStops \/ GroupCloses

\* The timer fires and the group goes on; an interrupt may or may not come.
ChainRuns == Alive /\ (RunStep \/ GroupStep)

ChainNext ==
  /\ Alive
  /\ \/ \E r \in Report : Transmit(r)
     \/ RunStep \/ RunReturns
     \/ Cancel \/ GroupStep

=============================================================================
