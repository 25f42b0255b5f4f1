----------------------------- MODULE V2Observer -----------------------------
(***************************************************************************)
(* The polling observer of the OCR2 plugin                                 *)
(* (pkg/v2/observer/polling/observer.go) under the RecoverableService that *)
(* restarts it after a panic (internal/util/recoverable.go).  Its task     *)
(* takes heads from a ticker, checks a sample of the active upkeeps at     *)
(* each and stages the eligible ones, one at a time, for the head; only    *)
(* when all are staged do they become what Observe returns to the OCR      *)
(* goroutine.                                                              *)
(*                                                                         *)
(* The stager's lists of identifiers are sets here: Observation shuffles   *)
(* them and Report drops repetitions.  An identifier carries the head it   *)
(* was found eligible at, which the code does not keep.                    *)
(***************************************************************************)
EXTENDS Integers, FiniteSets

CONSTANTS
  UpkeepID, BlockKey,
  Unsplit,     \* the upkeeps whose result has a key that cannot be split
  MaxAborted,  \* heads that panic until one succeeds
  None

ConstantsOK == None \notin BlockKey

VARIABLES
  stager,      \* currentBlock, currentIDs, nextBlock, nextIDs
  task,        \* the goroutine of Do: where it is, its head, what it has at hand
  supervisor,  \* the goroutine of serviceStart: off, watching, cooling or gone
  stopped,     \* the channel stopped, of capacity 1: none, panic or ended
  started,     \* startOnce has run
  closed,      \* stopOnce has run, and closed both stop channels if started
  aborted,     \* history: heads that panicked since the stager last advanced ...
  leaked       \* ... and before it last did

observerVars ==
  <<stager, task, supervisor, stopped, started, closed, aborted, leaked>>

At(pc, head, ids) == [pc |-> pc, head |-> head, ids |-> ids]
NoTask == At("none", None, {})
Idle == At("idle", None, {})

ObserverInit ==
  /\ stager = [currentBlock |-> None, currentIDs |-> {}, nextBlock |-> None, nextIDs |-> {}]
  /\ task = NoTask
  /\ supervisor = "off"
  /\ stopped = "none"
  /\ started = FALSE /\ closed = FALSE
  /\ aborted = {} /\ leaked = {}

-----------------------------------------------------------------------------
(* The task: runHeadTasks and processLatestHead.                           *)

\* The stager's methods.
Prepared(s, block) == [s EXCEPT !.nextBlock = block]
Staged(s, x) == [s EXCEPT !.nextIDs = @ \cup {x}]

\* The identifiers that Observe returns for its block; an error of IsPending
\* counts as pending.
Observe(pending) == {x \in stager.currentIDs : x.id \notin pending}

\* A head: unless the active upkeeps cannot be read or the sample is empty, which
\* ends it at once, the block is prepared.
prepareBlock(block, sample) ==
  /\ task = Idle
  /\ stager' = Prepared(stager, block)
  /\ task' = At("check", block, sample)
  /\ UNCHANGED <<supervisor, stopped, started, closed, aborted, leaked>>

\* The runner fails, and the head with it; or it finds some upkeeps eligible.
CheckUpkeep ==
  /\ task.pc = "check"
  /\ \/ task' = Idle
     \/ \E eligible \in SUBSET task.ids : task' = At("stage", task.head, eligible)
  /\ UNCHANGED <<stager, supervisor, stopped, started, closed, aborted, leaked>>

\* The key of a result that cannot be split is logged, and the empty identifier
\* staged in its place.
prepareIdentifier(id) ==
  /\ task.pc = "stage" /\ id \in task.ids
  /\ LET split == IF id \in Unsplit THEN None ELSE id
     IN  stager' = Staged(stager, [id |-> split, head |-> task.head])
  /\ task' = [task EXCEPT !.ids = @ \ {id}]
  /\ UNCHANGED <<supervisor, stopped, started, closed, aborted, leaked>>

\* Mutant: the staged identifiers are not cleared.
AdvancedKeeping(s) ==
  [s EXCEPT !.currentBlock = s.nextBlock, !.currentIDs = s.nextIDs]

Advanced(s) ==
  [s EXCEPT !.currentBlock = s.nextBlock, !.currentIDs = s.nextIDs, !.nextIDs = {}]

advance ==
  /\ task.pc = "stage" /\ task.ids = {}
  /\ stager' = Advanced(stager)
  /\ task' = Idle
  /\ aborted' = {} /\ leaked' = aborted
  /\ UNCHANGED <<supervisor, stopped, started, closed>>

-----------------------------------------------------------------------------
(* Do returns or panics; the supervisor; Start and Close.                  *)

\* Mutant: the task does not listen to its stop channel.
CtxDoneUnheard ==
  task = Idle /\ closed /\ UNCHANGED observerVars

\* The select of runHeadTasks takes the stop channel, or a head although the
\* channel is closed.
CtxDone ==
  /\ task = Idle /\ closed
  /\ task' = NoTask
  /\ stopped' = "ended"
  /\ UNCHANGED <<stager, supervisor, started, closed, aborted, leaked>>

\* A panic anywhere in the task: recover reports it.
Panic ==
  /\ task # NoTask
  /\ task.head # None => Cardinality(aborted) < MaxAborted
  /\ task' = NoTask
  /\ stopped' = "panic"
  /\ aborted' = IF task.head = None THEN aborted ELSE aborted \cup {task.head}
  /\ UNCHANGED <<stager, supervisor, started, closed, leaked>>

\* Mutant: the supervisor waits for errors that are not panics.
restartsOnError(msg) == msg = "ended"

restarts(msg) == msg = "panic"

\* serviceStart receives what Do ended with.
serviceStart ==
  /\ supervisor = "watching" /\ stopped # "none"
  /\ supervisor' = IF restarts(stopped) THEN "cooling" ELSE "watching"
  /\ stopped' = "none"
  /\ UNCHANGED <<stager, task, started, closed, aborted, leaked>>

serviceStop ==
  /\ supervisor = "watching" /\ closed
  /\ supervisor' = "gone"
  /\ UNCHANGED <<stager, task, stopped, started, closed, aborted, leaked>>

\* go Do().
run == task' = Idle

\* The cool down is not cut short by a stop: Do runs once more.
coolDown ==
  /\ supervisor = "cooling"
  /\ supervisor' = "watching"
  /\ run
  /\ UNCHANGED <<stager, stopped, started, closed, aborted, leaked>>

RecoverableStart == supervisor' = "watching" /\ run

Start ==
  /\ ~started
  /\ started' = TRUE
  /\ RecoverableStart
  /\ UNCHANGED <<stager, stopped, closed, aborted, leaked>>

\* A service that runs is told to stop, and so is its supervisor.
RecoverableStop == closed' = TRUE

\* The plugin closes the observers it has started.
Close ==
  /\ started /\ ~closed
  /\ RecoverableStop
  /\ UNCHANGED <<stager, task, supervisor, stopped, started, aborted, leaked>>

TaskStep == CheckUpkeep \/ (\E id \in UpkeepID : prepareIdentifier(id)) \/ advance

ObserverNext ==
  \/ \E block \in BlockKey, sample \in SUBSET UpkeepID \ {{}} : prepareBlock(block, sample)
  \/ TaskStep
  \/ CtxDone \/ Panic
  \/ serviceStart \/ serviceStop \/ coolDown
  \/ Start \/ Close

ObserverSpec == ObserverInit /\ [][ObserverNext]_observerVars

\* The goroutines run, the cool down ends, and a select that is offered the stop
\* channel again and again takes it some time.
ObserverFairness ==
  /\ WF_observerVars(TaskStep) /\ WF_observerVars(coolDown)
  /\ WF_observerVars(serviceStart) /\ SF_observerVars(serviceStop)
  /\ SF_observerVars(CtxDone)

-----------------------------------------------------------------------------
(* Properties.                                                             *)

\* "a slice of identifiers that were observed to be performable along with the
\* block at which they were observed" (Observe): whatever Observe returns was
\* found eligible at the very head it is returned with.  A head that fails before
\* it stages anything leaves no trace; only one that panics half way leaves
\* identifiers behind, which the next head to succeed presents as its own, and no
\* later one.
ObservedTogether ==
  \A pending \in SUBSET UpkeepID : \A x \in Observe(pending) :
    x.head = stager.currentBlock \/ x.head \in leaked

\* Once the observer is closed its task and its supervisor end for good, although
\* a service that panicked is started once more after the close.
CloseEndsObserver == <>closed => <>[](task = NoTask /\ supervisor = "gone")

\* "make all go-routines started by this entity automatically recoverable on
\* panics" (NewPollingObserver): as long as it is not closed, the task comes back.
RecoversFromPanic == (started /\ task = NoTask) ~> (task # NoTask \/ closed)

=============================================================================
