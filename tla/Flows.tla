-------------------------------- MODULE Flows --------------------------------
(***************************************************************************)
(* The check pipeline of one node: the log-trigger flow and the retry flow *)
(* (pkg/v3/flows), the observer that runs a tick (pkg/v3/observer.go), the *)
(* runner with its cache and its parallel batches (pkg/v3/runner), the     *)
(* postprocessors, the retry queue and the result store (pkg/v3/stores).   *)
(*                                                                         *)
(* A ticker starts every tick in a goroutine of its own, so several ticks  *)
(* are in progress at a time; Proc are the ones a model lets overlap.      *)
(* Batches of a tick are run by the workers and come back in any order.    *)
(* Whether a payload is eligible, and what the coordinator filters, is the *)
(* environment's choice.  Reporting ineligible work to the state updater   *)
(* changes nothing in the node and is left out.                            *)
(***************************************************************************)
EXTENDS Integers, Sequences, FiniteSets, Functions

CONSTANTS
  WorkID, Block, Proc,
  LogBatch,          \* payloads the log provider returns at a time
  RetryBatchSize,    \* payloads the retry tick takes
  WorkerBatchLimit,  \* payloads of one job
  Expiration,        \* age since creation up to which a retry record is kept
  RetryInterval,     \* the ages since the last update a record may have to wait
  StoreTTL,          \* age up to which a result is shown
  None

\* A result: the check succeeded (the first two) or failed (the last two).
State == {"eligible", "ineligible", "retryable", "failed"}

Payload == [workID : WorkID, block : Block]
Result == [workID : WorkID, block : Block, state : State]
Stored == [block : Block, age : 0..(StoreTTL + 1)]

ASSUME FlowsAssumption ==
  /\ Block \subseteq Nat /\ RetryInterval \subseteq Nat /\ RetryInterval # {}
  /\ {Expiration, StoreTTL} \subseteq Nat
  /\ {LogBatch, RetryBatchSize, WorkerBatchLimit} \subseteq Nat \ {0}
  /\ IsFiniteSet(WorkID) /\ None \notin Stored

VARIABLES
  queue,    \* retry queue: per work None or a record
  store,    \* result store: per work None, or a result's block and its age
  cache,    \* runner cache: per work None, or a successful result
  proc      \* the ticks in progress: None, or one goroutine's state

vars == <<queue, store, cache, proc>>

Init ==
  /\ queue = [w \in WorkID |-> None]
  /\ store = [w \in WorkID |-> None]
  /\ cache = [w \in WorkID |-> None]
  /\ proc = [p \in Proc |-> None]

\* The orders in which the elements of a set can come, and the numbers of a set in
\* increasing order.
Orders(S) == Bijection(1..Cardinality(S), S)
Increasing(I) ==
  {f \in [1..Cardinality(I) -> I] : \A i, j \in 1..Cardinality(I) : i < j => f[i] < f[j]}

-----------------------------------------------------------------------------
(* The retry queue.                                                        *)

\* Mutant: a record that is enqueued again counts as new.
EnqueuedAnew(q, x, interval) ==
  [q EXCEPT ![x.workID] =
     [block |-> IF @ # None /\ x.block <= @.block THEN @.block ELSE x.block,
      pending |-> FALSE, created |-> 0, updated |-> 0, interval |-> interval]]

Enqueued(q, x, interval) ==
  [q EXCEPT ![x.workID] =
     [block |-> IF @ # None /\ x.block <= @.block THEN @.block ELSE x.block,
      pending |-> FALSE,
      created |-> IF @ = None THEN 0 ELSE @.created,
      updated |-> 0, interval |-> interval]]

Expired(r) == r # None /\ r.created > Expiration
Due(r) == r # None /\ ~Expired(r) /\ ~r.pending /\ r.updated > r.interval

\* Dequeue visits the records in any order until it has its batch; it deletes
\* the expired records it meets.
Dequeue(batch, gone) ==
  LET due == {w \in WorkID : Due(queue[w])}
      expired == {w \in WorkID : Expired(queue[w])}
  IN /\ batch \subseteq due /\ gone \subseteq expired
     /\ \/ Cardinality(batch) = RetryBatchSize
        \/ Cardinality(batch) < RetryBatchSize /\ batch = due /\ gone = expired
     /\ queue' = [w \in WorkID |-> IF w \in gone THEN None
                                   ELSE IF w \in batch THEN [queue[w] EXCEPT !.pending = TRUE]
                                   ELSE queue[w]]

-----------------------------------------------------------------------------
(* The observer and the runner.                                            *)

Begin(p, value) ==
  proc' = [proc EXCEPT ![p] =
             [pc |-> "check", value |-> value, todo |-> <<>>, running |-> {}, lost |-> {},
              ok |-> FALSE, failures |-> 0, inbox |-> <<>>, set |-> FALSE, results |-> <<>>]]

\* A tick of the log flow, less what the coordinator filtered.
LogTick(p) ==
  /\ proc[p] = None
  /\ \E works \in SUBSET WorkID, b \in Block :
       /\ works # {} /\ Cardinality(works) <= LogBatch
       /\ \E s \in Orders([workID : works, block : {b}]) : Begin(p, s)
  /\ UNCHANGED <<queue, store, cache>>

\* A tick of the retry flow, less what the coordinator filtered.
RetryTick(p) ==
  /\ proc[p] = None
  /\ \E batch, gone \in SUBSET WorkID :
       /\ Dequeue(batch, gone)
       /\ \E kept \in SUBSET batch :
            \E s \in Orders({[workID |-> w, block |-> queue[w].block] : w \in kept}) : Begin(p, s)
  /\ UNCHANGED <<store, cache>>

\* Mutant: the last batch stops one short.
UnflattenShort(s, size) ==
  [k \in 1..((Len(s) + size - 1) \div size) |->
     SubSeq(s, (k - 1) * size + 1, IF k * size < Len(s) THEN k * size ELSE Len(s) - 1)]

Unflatten(s, size) ==
  [k \in 1..((Len(s) + size - 1) \div size) |->
     SubSeq(s, (k - 1) * size + 1, IF k * size < Len(s) THEN k * size ELSE Len(s))]

Hit(x) == cache[x.workID] # None /\ cache[x.workID].block = x.block
Hits(value) == {i \in 1..Len(value) : Hit(value[i])}

\* parallelCheck answers from the cache what was checked on the same block and
\* splits the rest into jobs.
Check(p) ==
  /\ proc[p] # None /\ proc[p].pc = "check"
  /\ LET value == proc[p].value
         hits == Hits(value)
     IN \E hit \in Increasing(hits), miss \in Increasing((1..Len(value)) \ hits) :
          proc' = [proc EXCEPT
            ![p].pc = "run",
            ![p].results = [k \in DOMAIN hit |-> cache[value[hit[k]].workID]],
            ![p].todo = Unflatten([k \in DOMAIN miss |-> value[miss[k]]], WorkerBatchLimit)]
  /\ UNCHANGED <<queue, store, cache>>

Running(p) == proc[p] # None /\ proc[p].pc = "run"

\* RunJobs hands the next job to the workers.
Do(p) ==
  /\ Running(p) /\ proc[p].todo # <<>>
  /\ proc' = [proc EXCEPT ![p].todo = Tail(@), ![p].running = @ \cup {Head(proc[p].todo)}]
  /\ UNCHANGED <<queue, store, cache>>

\* The tick's time limit passed: the jobs not handed over are dropped.
DoFails(p) ==
  /\ Running(p) /\ proc[p].todo # <<>>
  /\ proc' = [proc EXCEPT ![p].todo = <<>>, ![p].lost = @ \cup Range(proc[p].todo)]
  /\ UNCHANGED <<queue, store, cache>>

\* A job's results reach the aggregation, which handles one job at a time.
JobDone(p) ==
  /\ Running(p) /\ proc[p].inbox = <<>>
  /\ \E job \in proc[p].running : \E states \in [1..Len(job) -> State] :
       proc' = [proc EXCEPT
         ![p].running = @ \ {job}, ![p].ok = TRUE,
         ![p].inbox = [i \in 1..Len(job) |-> [workID |-> job[i].workID, block |-> job[i].block,
                                              state |-> states[i]]]]
  /\ UNCHANGED <<queue, store, cache>>

\* A job comes back with an error.
JobFails(p) ==
  /\ Running(p) /\ proc[p].inbox = <<>>
  /\ \E job \in proc[p].running :
       proc' = [proc EXCEPT ![p].running = @ \ {job}, ![p].lost = @ \cup {job},
                            ![p].failures = @ + 1]
  /\ UNCHANGED <<queue, store, cache>>

\* The aggregation looks a success up in the cache; it will set it if it is newer.
CacheGet(p) ==
  /\ Running(p) /\ proc[p].inbox # <<>> /\ ~proc[p].set
  /\ LET r == Head(proc[p].inbox)
         newer == cache[r.workID] = None \/ r.block > cache[r.workID].block
     IN proc' = IF r.state \in {"eligible", "ineligible"} /\ newer
                THEN [proc EXCEPT ![p].set = TRUE]
                ELSE [proc EXCEPT ![p].inbox = Tail(@), ![p].results = Append(@, r)]
  /\ UNCHANGED <<queue, store, cache>>

CacheSet(p) ==
  /\ Running(p) /\ proc[p].set
  /\ LET r == Head(proc[p].inbox)
     IN /\ cache' = [cache EXCEPT ![r.workID] = r]
        /\ proc' = [proc EXCEPT ![p].set = FALSE, ![p].inbox = Tail(@),
                                ![p].results = Append(@, r)]
  /\ UNCHANGED <<queue, store>>

\* All results are in.  If every job failed the tick ends with an error, and its
\* cached results go with it.
CheckDone(p) ==
  /\ Running(p)
  /\ proc[p].todo = <<>> /\ proc[p].running = {} /\ proc[p].inbox = <<>>
  /\ proc' = IF proc[p].failures > 0 /\ ~proc[p].ok THEN [proc EXCEPT ![p] = None]
             ELSE [proc EXCEPT ![p].pc = "store"]
  /\ UNCHANGED <<queue, store, cache>>

-----------------------------------------------------------------------------
(* The postprocessors, the result store and time.                          *)

\* Mutant: a result replaces any other of its work.
AddedAny(s, r) ==
  IF r.state # "eligible" THEN s ELSE [s EXCEPT ![r.workID] = [block |-> r.block, age |-> 0]]

Added(s, r) ==
  IF r.state # "eligible" \/ (s[r.workID] # None /\ s[r.workID].block >= r.block) THEN s
  ELSE [s EXCEPT ![r.workID] = [block |-> r.block, age |-> 0]]

AddAll(s, results) ==
  LET added[n \in 0..Len(results)] ==
        IF n = 0 THEN s ELSE Added(added[n - 1], results[n])
  IN added[Len(results)]

\* The eligible results go into the result store.
StoreEligible(p) ==
  /\ proc[p] # None /\ proc[p].pc = "store"
  /\ store' = AddAll(store, proc[p].results)
  /\ proc' = [proc EXCEPT ![p].pc = "retry"]
  /\ UNCHANGED <<queue, cache>>

Retryable(p) == {i \in 1..Len(proc[p].results) : proc[p].results[i].state = "retryable"}

EnqueueAll(q, value, interval, count) ==
  LET put[n \in 0..count] ==
        IF n = 0 THEN q
        ELSE IF n \in DOMAIN interval THEN Enqueued(put[n - 1], value[n], interval[n])
        ELSE put[n - 1]
  IN put[count]

\* For the i-th result, if retryable, the i-th payload goes into the retry queue.
EnqueueRetryable(p) ==
  /\ proc[p] # None /\ proc[p].pc = "retry"
  /\ \E interval \in [Retryable(p) -> RetryInterval] :
       queue' = EnqueueAll(queue, proc[p].value, interval, Len(proc[p].results))
  /\ proc' = [proc EXCEPT ![p] = None]
  /\ UNCHANGED <<store, cache>>

\* The hook on an outcome removes agreed work from the result store.
RemoveFromStaging ==
  /\ \E w \in WorkID : store[w] # None /\ store' = [store EXCEPT ![w] = None]
  /\ UNCHANGED <<queue, cache, proc>>

Gc ==
  /\ store' = [w \in WorkID |-> IF store[w] # None /\ store[w].age > StoreTTL
                                THEN None ELSE store[w]]
  /\ UNCHANGED <<queue, cache, proc>>

\* A cache entry expires.
CacheExpire ==
  /\ \E w \in WorkID : cache[w] # None /\ cache' = [cache EXCEPT ![w] = None]
  /\ UNCHANGED <<queue, store, proc>>

\* Ages stop at the first one that no longer differs from the next.
Older(age, limit) == IF age > limit THEN age ELSE age + 1

Tick ==
  /\ queue' = [w \in WorkID |-> IF queue[w] = None THEN None ELSE
                 [queue[w] EXCEPT !.created = Older(@, Expiration),
                                  !.updated = Older(@, queue[w].interval)]]
  /\ store' = [w \in WorkID |-> IF store[w] = None THEN None ELSE
                 [store[w] EXCEPT !.age = Older(@, StoreTTL)]]
  /\ UNCHANGED <<cache, proc>>

Step(p) ==
  \/ Check(p) \/ Do(p) \/ DoFails(p) \/ JobDone(p) \/ JobFails(p) \/ CacheGet(p) \/ CacheSet(p)
  \/ CheckDone(p) \/ StoreEligible(p) \/ EnqueueRetryable(p)

Next ==
  \/ \E p \in Proc : LogTick(p) \/ RetryTick(p) \/ Step(p)
  \/ RemoveFromStaging \/ Gc \/ CacheExpire \/ Tick

Spec == Init /\ [][Next]_vars

\* A tick of the retry flow on which Dequeue meets w's expired record.
Visits(w) == \E p \in Proc : RetryTick(p) /\ queue[w] # None /\ queue'[w] = None

\* Time passes, a tick in progress ends (it has a time limit), and the map order
\* being random, an expired record does not stay out of Dequeue's sight for ever.
FairSpec ==
  /\ Spec /\ WF_vars(Tick)
  /\ \A p \in Proc : WF_vars(Step(p))
  /\ \A w \in WorkID : SF_vars(Visits(w))

-----------------------------------------------------------------------------
(* Properties.                                                             *)

WorksOf(s) == {s[i].workID : i \in 1..Len(s)}
Once(s) == \A i, j \in 1..Len(s) : s[i].workID = s[j].workID => i = j
Apart(s, r) == WorksOf(s) \cap WorksOf(r) = {}

\* The works of a tick are in one place each, of those the runner keeps them in.
InOnePlace(t) ==
  LET jobs == Range(t.todo) \cup t.running \cup t.lost
  IN /\ \A w \in WorkID :
          w \in WorksOf(t.value) <=> \/ w \in WorksOf(t.results) \cup WorksOf(t.inbox)
                                    \/ \E job \in jobs : w \in WorksOf(job)
     /\ Once(t.results) /\ Once(t.inbox) /\ Apart(t.results, t.inbox)
     /\ \A job \in jobs : /\ Once(job) /\ Apart(job, t.results) /\ Apart(job, t.inbox)
                           /\ \A other \in jobs \ {job} : Apart(job, other)
     /\ IsInjective(t.todo) /\ t.running \cap t.lost = {}
     /\ Range(t.todo) \cap (t.running \cup t.lost) = {}

\* parallelCheck loses and repeats no payload: from the cache lookup to the last
\* batch, each payload of the tick is in one place, a result, a batch to come, a
\* batch at the workers or one that failed, whatever order the batches end in.
\* In particular results[i] never runs past the payloads.
PayloadsPartition ==
  \A p \in Proc : proc[p] # None /\ proc[p].pc # "check" =>
    InOnePlace(proc[p]) /\ Len(proc[p].results) <= Len(proc[p].value)

\* resultStore.Add replaces a result only by one on a newer block, so a slow tick
\* that ends late never puts an old check back over a newer one.
StoreOnlyNewer ==
  [][\A w \in WorkID : store[w] # None /\ store'[w] # None =>
       \/ store'[w].block > store[w].block
       \/ store'[w].block = store[w].block /\ store'[w].age >= store[w].age]_vars

\* Every record leaves the retry queue: enqueuing a payload again keeps its
\* creation time, so that not even one that fails for ever stays, and a record
\* left pending by a tick that ended with an error goes as well.
RetryDrains == \A w \in WorkID : queue[w] # None ~> queue[w] = None

\* The retry postprocessor enqueues the work of each retryable result of a tick.
RetryableQueued ==
  [][\A p \in Proc : EnqueueRetryable(p) =>
       \A i \in Retryable(p) :
         LET w == proc[p].results[i].workID
         IN queue'[w] # None /\ ~queue'[w].pending /\ queue'[w].updated = 0]_vars
=============================================================================
