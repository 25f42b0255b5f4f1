----------------------------- MODULE WorkerGroup -----------------------------
(***************************************************************************)
(* WorkerGroup and RunJobs (pkg/util/worker.go): callers that hand jobs to *)
(* a shared group of workers and wait for the results.  The goroutines are *)
(* the caller of each run, its results reader, the queuing loop, the       *)
(* processing loop and the workers; they meet on the channels input,       *)
(* chInputNotify, resultNotify, chStopInputs and chStopProcessing and on   *)
(* the maps of results per run group.                                      *)
(*                                                                         *)
(* An item is the pair of a run and the index of a job in it.  What a job  *)
(* computes, and whether it ends with an error, is left out.               *)
(***************************************************************************)
EXTENDS Integers, Sequences, FiniteSets

CONSTANTS
  Group,        \* the calls of RunJobs, each with its run group
  Jobs,         \* per call, the number of its jobs
  Cancellable,  \* the calls whose context may end before they return
  MaxWorkers,
  None          \* not a list of results

Item == Group \X Nat

ASSUME WorkerGroupAssumption ==
  /\ Jobs \in [Group -> Nat] /\ Cancellable \subseteq Group
  /\ MaxWorkers \in Nat \ {0}
  /\ None \notin Seq(Item)

VARIABLES
  caller,       \* per run: pc, the next job, the wait group, whether its context ended
  reader,       \* per run: the results reader's pc, the results it has in hand and those handled
  input,        \* the channel input, of capacity one
  queuing,      \* the queuing loop: "select", "notify", "stopping" or "done"
  queue,        \* the work queue
  inputNotify,  \* whether chInputNotify holds a token
  processing,   \* the processing loop: "select", "queue", "drain" or "done"
  idle,         \* workers on the channel workers
  active,       \* workers created
  running,      \* items being worked on
  resultData,   \* per run None, or the results, latest first
  resultNotify, \* per run: whether the map has a channel, and its token
  stop          \* "no", "stopping" (services stopped, chStopInputs not taken), "sent"

runs == <<caller, reader, resultData, resultNotify>>
loops == <<queuing, queue, inputNotify, processing, idle, active, running>>
vars == <<runs, loops, input, stop>>

Init ==
  /\ caller = [g \in Group |-> [pc |-> "next", next |-> 1, wait |-> 0, ended |-> FALSE]]
  /\ reader = [g \in Group |-> [pc |-> "notify", todo |-> <<>>, handled |-> {}]]
  /\ input = <<>>
  /\ queuing = "select"
  /\ queue = <<>>
  /\ inputNotify = FALSE
  /\ processing = "select"
  /\ idle = 0 /\ active = 0 /\ running = {}
  /\ resultData = [g \in Group |-> None]
  /\ resultNotify = [g \in Group |-> [inMap |-> FALSE, token |-> FALSE]]
  /\ stop = "no"

-----------------------------------------------------------------------------
(* RunJobs: the caller.                                                    *)

\* The context of a call ends (its time limit passed).
Cancel(g) ==
  /\ g \in Cancellable /\ ~caller[g].ended /\ caller[g].pc # "done"
  /\ caller' = [caller EXCEPT ![g].ended = TRUE]
  /\ UNCHANGED <<reader, input, resultData, resultNotify, stop, loops>>

\* The next job: count it, and start Do.  Do refuses at once when the context has
\* ended or the group is stopped; the caller then gives up the remaining jobs.
NextJob(g) ==
  /\ caller[g].pc = "next"
  /\ IF caller[g].next > Jobs[g] \/ caller[g].ended \/ stop # "no"
     THEN /\ caller' = [caller EXCEPT ![g].pc = "wait"]
          /\ UNCHANGED <<resultData, resultNotify>>
     ELSE /\ caller' = [caller EXCEPT ![g].pc = "send", ![g].wait = @ + 1]
          /\ resultData' = [resultData EXCEPT ![g] = IF @ = None THEN <<>> ELSE @]
          /\ resultNotify' = [resultNotify EXCEPT ![g].inMap = TRUE]
  /\ UNCHANGED <<reader, input, stop, loops>>

\* Do sends the item once the input channel has room.
Send(g) ==
  /\ caller[g].pc = "send" /\ input = <<>>
  /\ input' = <<<<g, caller[g].next>>>>
  /\ caller' = [caller EXCEPT ![g].pc = "next", ![g].next = @ + 1]
  /\ UNCHANGED <<reader, resultData, resultNotify, stop, loops>>

\* Do gives up: the context ended or the group was stopped.
SendFails(g) ==
  /\ caller[g].pc = "send" /\ (caller[g].ended \/ stop # "no")
  /\ caller' = [caller EXCEPT ![g].pc = "wait", ![g].wait = @ - 1]
  /\ UNCHANGED <<reader, input, resultData, resultNotify, stop, loops>>

\* wait.Wait returns and RemoveGroup cleans up.
RemoveGroup(g) ==
  /\ caller[g].pc = "wait" /\ caller[g].wait = 0
  /\ caller' = [caller EXCEPT ![g].pc = "close"]
  /\ resultData' = [resultData EXCEPT ![g] = None]
  /\ resultNotify' = [resultNotify EXCEPT ![g].inMap = FALSE]
  /\ UNCHANGED <<reader, input, stop, loops>>

\* close(end), and return.
CloseEnd(g) ==
  /\ caller[g].pc = "close"
  /\ caller' = [caller EXCEPT ![g].pc = "done"]
  /\ UNCHANGED <<reader, input, resultData, resultNotify, stop, loops>>

-----------------------------------------------------------------------------
(* RunJobs: the results reader.                                            *)

\* NotifyResult returns the channel of the run, a new one if there is none.
NotifyResult(g) ==
  /\ reader[g].pc = "notify"
  /\ reader' = [reader EXCEPT ![g].pc = "select"]
  /\ resultNotify' = [resultNotify EXCEPT ![g] = IF @.inMap THEN @
                                                 ELSE [inMap |-> TRUE, token |-> FALSE]]
  /\ UNCHANGED <<caller, input, resultData, stop, loops>>

\* A notification arrives.
Notified(g) ==
  /\ reader[g].pc = "select" /\ resultNotify[g].token
  /\ reader' = [reader EXCEPT ![g].pc = "results"]
  /\ resultNotify' = [resultNotify EXCEPT ![g].token = FALSE]
  /\ UNCHANGED <<caller, input, resultData, stop, loops>>

\* Results are stored latest first.
OldestFirst(data) == [i \in 1..Len(data) |-> data[(Len(data) - i) + 1]]

\* Mutant: the results are returned and stay in the map.
ResultsKept(g) ==
  /\ reader[g].pc = "results"
  /\ reader' = [reader EXCEPT ![g].pc = "handle",
                              ![g].todo = IF resultData[g] = None THEN <<>> ELSE OldestFirst(resultData[g])]
  /\ UNCHANGED <<caller, input, resultData, resultNotify, stop, loops>>

\* Results takes the results of the run, oldest first.
Results(g) ==
  /\ reader[g].pc = "results"
  /\ reader' = [reader EXCEPT ![g].pc = "handle",
                              ![g].todo = IF resultData[g] = None THEN <<>> ELSE OldestFirst(resultData[g])]
  /\ resultData' = [resultData EXCEPT ![g] = <<>>]
  /\ UNCHANGED <<caller, input, resultNotify, stop, loops>>

\* resFunc and w.Done for one result; back to the select after the last.
HandleResult(g) ==
  /\ reader[g].pc = "handle"
  /\ IF reader[g].todo = <<>>
     THEN reader' = [reader EXCEPT ![g].pc = "notify"] /\ UNCHANGED caller
     ELSE /\ reader' = [reader EXCEPT ![g].todo = Tail(@),
                                      ![g].handled = @ \cup {Head(reader[g].todo)[2]}]
          /\ caller' = [caller EXCEPT ![g].wait = @ - 1]
  /\ UNCHANGED <<input, resultData, resultNotify, stop, loops>>

\* The end channel is closed: the reader returns.
ReaderEnds(g) ==
  /\ reader[g].pc = "select" /\ caller[g].pc = "done"
  /\ reader' = [reader EXCEPT ![g].pc = "done"]
  /\ UNCHANGED <<caller, input, resultData, resultNotify, stop, loops>>

-----------------------------------------------------------------------------
(* The queuing loop, the processing loop and the workers.                  *)

\* runQueuing takes an item and adds it to the queue ...
QueueInput ==
  /\ queuing = "select" /\ input # <<>>
  /\ queuing' = "notify"
  /\ queue' = Append(queue, Head(input))
  /\ input' = <<>>
  /\ UNCHANGED <<runs, inputNotify, processing, idle, active, running, stop>>

\* ... and then notifies the processing loop, unless a notification waits.
NotifyInput ==
  /\ queuing = "notify"
  /\ queuing' = "select"
  /\ inputNotify' = TRUE
  /\ UNCHANGED <<runs, queue, processing, idle, active, running, input, stop>>

\* The processing loop is notified and begins with the queue.
Process ==
  /\ processing = "select" /\ inputNotify
  /\ processing' = "queue"
  /\ inputNotify' = FALSE
  /\ UNCHANGED <<runs, queuing, queue, idle, active, running, input, stop>>

\* A worker for the next item: a new one, or one that is idle.
TakeWorker ==
  \/ active < MaxWorkers /\ active' = active + 1 /\ UNCHANGED idle
  \/ active = MaxWorkers /\ idle > 0 /\ idle' = idle - 1 /\ UNCHANGED active

\* Mutant: one item per notification.
DoJobOnce ==
  /\ processing \in {"queue", "drain"} /\ queue # <<>>
  /\ TakeWorker
  /\ queue' = Tail(queue) /\ running' = running \cup {Head(queue)}
  /\ processing' = IF processing = "queue" THEN "select" ELSE "done"
  /\ UNCHANGED <<runs, queuing, inputNotify, input, stop>>

\* processQueue pops an item and gives it to a worker, waiting for one if all are busy.
DoJob ==
  /\ processing \in {"queue", "drain"} /\ queue # <<>>
  /\ TakeWorker
  /\ queue' = Tail(queue) /\ running' = running \cup {Head(queue)}
  /\ UNCHANGED <<runs, queuing, inputNotify, processing, input, stop>>

\* processQueue finds the queue empty.
QueueEmpty ==
  /\ processing \in {"queue", "drain"} /\ queue = <<>>
  /\ processing' = IF processing = "queue" THEN "select" ELSE "done"
  /\ UNCHANGED <<runs, queuing, queue, inputNotify, idle, active, running, input, stop>>

\* A worker ends an item: it stores the result, notifies the reader unless a
\* notification waits, and is idle again.
StoreResult(item) ==
  LET g == item[1]
  IN /\ running' = running \ {item}
     /\ resultData' = [resultData EXCEPT ![g] = <<item>> \o (IF @ = None THEN <<>> ELSE @)]
     /\ resultNotify' = [resultNotify EXCEPT ![g] = [inMap |-> TRUE, token |-> TRUE]]
     /\ idle' = idle + 1
     /\ UNCHANGED <<caller, reader, queuing, queue, inputNotify, processing, active, input, stop>>

-----------------------------------------------------------------------------
(* Stop.                                                                   *)

\* The service's stop channel is closed and the queue marked closed.
Stop ==
  /\ stop = "no"
  /\ stop' = "stopping"
  /\ UNCHANGED <<runs, loops, input>>

\* The queuing loop takes the stop signal, whether or not an item waits in input.
StopInputs ==
  /\ stop = "stopping" /\ queuing = "select"
  /\ stop' = "sent" /\ queuing' = "stopping"
  /\ UNCHANGED <<runs, queue, inputNotify, processing, idle, active, running, input>>

\* The processing loop takes the stop signal and goes through the queue once more.
StopProcessing ==
  /\ queuing = "stopping" /\ processing = "select"
  /\ queuing' = "done" /\ processing' = "drain"
  /\ UNCHANGED <<runs, queue, inputNotify, idle, active, running, input, stop>>

-----------------------------------------------------------------------------

Caller(g) == NextJob(g) \/ Send(g) \/ SendFails(g) \/ RemoveGroup(g) \/ CloseEnd(g)
Reader(g) == NotifyResult(g) \/ Notified(g) \/ Results(g) \/ HandleResult(g) \/ ReaderEnds(g)
Queuing == QueueInput \/ NotifyInput
Processing == Process \/ DoJob \/ QueueEmpty

Work ==
  \/ \E g \in Group : Cancel(g) \/ Caller(g) \/ Reader(g)
  \/ Queuing \/ Processing
  \/ \E item \in running : StoreResult(item)

Stopping == Stop \/ StopInputs \/ StopProcessing

Next == Work \/ Stopping

Spec == Init /\ [][Next]_vars

\* Every goroutine goes on while it can, and a job ends: it runs under the time
\* limit of the call's context.
Fairness ==
  /\ \A g \in Group : WF_vars(Caller(g)) /\ WF_vars(Reader(g))
  /\ WF_vars(Queuing) /\ WF_vars(Processing)
  /\ WF_vars(\E item \in running : StoreResult(item))
  /\ WF_vars(StopInputs) /\ WF_vars(StopProcessing)

FairSpec == Spec /\ Fairness

-----------------------------------------------------------------------------
(* Properties.                                                             *)

\* The variables have the types of the fields they model; the counter of a wait group is
\* never negative.
TypeOK ==
  /\ caller \in [Group -> [pc : {"next", "send", "wait", "close", "done"}, next : Nat, wait : Nat,
                          ended : BOOLEAN]]
  /\ reader \in [Group -> [pc : {"notify", "select", "results", "handle", "done"},
                          todo : Seq(Item), handled : SUBSET Nat]]
  /\ input \in Seq(Item) /\ queue \in Seq(Item) /\ running \subseteq Item
  /\ resultData \in [Group -> Seq(Item) \cup {None}]

\* The items of a run in a sequence, and between Do and the result function.
Of(g, seq) == Cardinality({k \in 1..Len(seq) : seq[k][1] = g})
Outstanding(g) ==
  Of(g, input) + Of(g, queue) + Cardinality({item \in running : item[1] = g})
  + (IF resultData[g] = None THEN 0 ELSE Len(resultData[g])) + Len(reader[g].todo)

\* The wait group of a run counts the items under way, whatever the order in which
\* the loops, the workers and the reader pass them on, so that it never becomes
\* negative (which panics) and Wait never returns with a result to come.
WaitCounts ==
  \A g \in Group :
    caller[g].wait = Outstanding(g) + (IF caller[g].pc = "send" THEN 1 ELSE 0)

\* The jobs of a run whose Do returned no error.
Submitted(g) == 1..(caller[g].next - 1)

Run(g) == INSTANCE JobRun WITH
  Job <- 1..Jobs[g],
  submitted <- Submitted(g),
  handled <- reader[g].handled,
  returned <- caller[g].pc \in {"close", "done"}

\* RunJobs keeps its promise: each job handed over gets one call of the result
\* function, and RunJobs returns after the last of them, also when it is stopped.
ImplementsJobRun ==
  /\ \A g \in Group : Run(g)!Init
  /\ [][\A g \in Group : [Run(g)!Next]_(Run(g)!avars)]_vars

\* While the group is not stopped every call of RunJobs returns: no notification is
\* lost though both notification channels drop what does not fit.
RunJobsReturns == [](stop = "no") => \A g \in Group : <>(caller[g].pc = "done")
=============================================================================
