------------------------------ MODULE Recoverer ------------------------------
(***************************************************************************)
(* The services of a node under their recoverers (pkg/v3/service), as the  *)
(* plugin starts and closes them (pkg/v3/plugin).  The plugin has services *)
(* of several kinds:                                                       *)
(*   - "closer": the coordinator and the tickers of the flows keep their   *)
(*     cancel function in a Closer (internal/util);                        *)
(*   - "metadata" and "runner": the metadata store and the runner have a   *)
(*     flag running and a channel on which Close puts the token that ends  *)
(*     Start;                                                              *)
(*   - "results": the result store has that channel alone.                 *)
(* Per service there are the watcher (the goroutine in recoverer.Start)    *)
(* and an instance of the service's Start for every time it was started;   *)
(* they meet on the channel stopped, which holds one message.  The plugin  *)
(* closes the services one after another.                                  *)
(***************************************************************************)
EXTENDS Naturals, Sequences

CONSTANTS
  Services,    \* how many services the plugin has
  Kinds,       \* the kinds they may be of, a set of lists
  MaxPanics,   \* panics per service
  None

Service == 1..Services      \* in the order of plugin.Services
Instance == 1..MaxPanics + 1

ASSUME RecovererAssumption ==
  /\ Services \in Nat /\ MaxPanics \in Nat /\ None \notin Instance
  /\ Kinds \subseteq [Service -> {"closer", "metadata", "runner", "results"}]

VARIABLES
  kind,        \* the kind of each service
  running,     \* recoverer.running
  watcher,     \* "new", "boot" (running not set yet), "select", "cooldown", "off"
  stopped,     \* the channel stopped: at most one of "nil", "error", "panic", "cancelled"
  closer,      \* None, or the instance that stored its cancel function or set its flag
  token,       \* whether Close has put a token that no instance has taken
  instance,    \* per instance: its pc, and whether it was cancelled
  close        \* the plugin's Close: the service it is at, the step there, and whether
               \* unsubscribing from blocks will fail

vars == <<kind, running, watcher, stopped, closer, token, instance, close>>

Init ==
  /\ kind \in Kinds
  /\ running = [s \in Service |-> FALSE]
  /\ watcher = [s \in Service |-> "new"]
  /\ stopped = [s \in Service |-> <<>>]
  /\ closer = [s \in Service |-> None]
  /\ token = [s \in Service |-> FALSE]
  /\ instance = [s \in Service |-> [i \in Instance |-> [pc |-> "none", cancelled |-> FALSE]]]
  /\ close \in [at : {0}, step : {"service"}, failing : BOOLEAN]

\* go recoverableStart(ctx).
Spawned(s) ==
  LET i == CHOOSE i \in Instance : /\ instance[s][i].pc = "none"
                                   /\ \A k \in 1..i - 1 : instance[s][k].pc # "none"
  IN [instance EXCEPT ![s][i].pc = "starting"]

-----------------------------------------------------------------------------
(* The watcher.                                                            *)

\* recoverer.Start, up to the first select.
Start(s) ==
  /\ watcher[s] = "new"
  /\ watcher' = [watcher EXCEPT ![s] = "boot"]
  /\ instance' = Spawned(s)
  /\ UNCHANGED <<kind, running, stopped, closer, token, close>>

Booted(s) ==
  /\ watcher[s] = "boot"
  /\ watcher' = [watcher EXCEPT ![s] = "select"]
  /\ running' = [running EXCEPT ![s] = TRUE]
  /\ UNCHANGED <<kind, stopped, closer, token, instance, close>>

\* Mutant: a panic is taken for a return.
MessageIgnored(s) ==
  /\ watcher[s] = "select" /\ stopped[s] # <<>>
  /\ stopped' = [stopped EXCEPT ![s] = <<>>]
  /\ LET m == Head(stopped[s])
     IN /\ watcher' = [watcher EXCEPT ![s] = IF m = "cancelled" THEN "off" ELSE "select"]
        /\ running' = [running EXCEPT ![s] = m # "cancelled"]
  /\ UNCHANGED <<kind, closer, token, instance, close>>

\* A message: the end by panic is followed by a pause, the end by Close ends the
\* watcher, a return of the service's Start changes nothing.
Message(s) ==
  /\ watcher[s] = "select" /\ stopped[s] # <<>>
  /\ stopped' = [stopped EXCEPT ![s] = <<>>]
  /\ LET m == Head(stopped[s])
     IN /\ watcher' = [watcher EXCEPT ![s] = CASE m = "panic" -> "cooldown"
                                               [] m = "cancelled" -> "off"
                                               [] OTHER -> "select"]
        /\ running' = [running EXCEPT ![s] = m # "cancelled"]
  /\ UNCHANGED <<kind, closer, token, instance, close>>

\* The pause is over: the service is started again.
Restart(s) ==
  /\ watcher[s] = "cooldown"
  /\ watcher' = [watcher EXCEPT ![s] = "select"]
  /\ instance' = Spawned(s)
  /\ UNCHANGED <<kind, running, stopped, closer, token, close>>

-----------------------------------------------------------------------------
(* An instance of the service.                                             *)

Starts(s, i) ==
  /\ closer' = [closer EXCEPT ![s] = i]
  /\ instance' = [instance EXCEPT ![s][i].pc = "running"]

\* Closer.Store refuses when there is a cancel function: Start returns an error.  So
\* does the Start of a service whose flag is set.
Store(s, i) ==
  IF closer[s] = None THEN Starts(s, i)
  ELSE /\ instance' = [instance EXCEPT ![s][i].pc = "error"]
       /\ UNCHANGED closer

\* The result store just starts.
resultStoreStart(s, i) == Starts(s, i)

ServiceStart(s, i) ==
  /\ instance[s][i].pc = "starting"
  /\ IF kind[s] = "results" THEN resultStoreStart(s, i) ELSE Store(s, i)
  /\ UNCHANGED <<kind, running, watcher, stopped, token, close>>

\* The service panics; the cancel function stays stored, the flag set.
Panic(s, i) ==
  /\ instance[s][i].pc = "running" /\ i <= MaxPanics
  /\ instance' = [instance EXCEPT ![s][i].pc = "panic"]
  /\ UNCHANGED <<kind, running, watcher, stopped, closer, token, close>>

\* The service was cancelled and returns.
ServiceReturns(s, i) ==
  /\ instance[s][i].pc = "running" /\ instance[s][i].cancelled
  /\ instance' = [instance EXCEPT ![s][i].pc = "nil"]
  /\ UNCHANGED <<kind, running, watcher, stopped, closer, token, close>>

\* The service takes the token and returns.
ServiceStops(s, i) ==
  /\ instance[s][i].pc = "running" /\ token[s]
  /\ instance' = [instance EXCEPT ![s][i].pc = "nil"]
  /\ token' = [token EXCEPT ![s] = FALSE]
  /\ UNCHANGED <<kind, running, watcher, stopped, closer, close>>

\* recoverableStart reports how the service ended, when the channel has room.
Report(s, i) ==
  /\ instance[s][i].pc \in {"nil", "error", "panic"} /\ stopped[s] = <<>>
  /\ stopped' = [stopped EXCEPT ![s] = <<instance[s][i].pc>>]
  /\ instance' = [instance EXCEPT ![s][i].pc = "done"]
  /\ UNCHANGED <<kind, running, watcher, closer, token, close>>

-----------------------------------------------------------------------------
(* The plugin's Close.                                                     *)

\* The plugin is closed once its services were started.
Close ==
  /\ close.at = 0 /\ \A s \in Service : running[s]
  /\ close' = [close EXCEPT !.at = 1]
  /\ UNCHANGED <<kind, running, watcher, stopped, closer, token, instance>>

\* Mutant: the cancel function is forgotten, not called.
CancelForgets(s) ==
  /\ closer' = [closer EXCEPT ![s] = None]
  /\ UNCHANGED <<token, instance>>

\* Closer.Close.
Cancel(s) ==
  IF closer[s] = None THEN UNCHANGED <<closer, token, instance>>
  ELSE /\ closer' = [closer EXCEPT ![s] = None]
       /\ instance' = [instance EXCEPT ![s][closer[s]].cancelled = TRUE]
       /\ UNCHANGED token

PutToken(s) == ~token[s] /\ token' = [token EXCEPT ![s] = TRUE]

\* Close of a service whose flag is not set is an error.
NotRunning(s) == closer[s] = None /\ UNCHANGED <<closer, token, instance>>

\* With the flag set, the metadata store unsubscribes from blocks, and goes on running
\* if that fails; else it puts the token, once there is room for it, and resets the flag.
metadataStoreClose(s) ==
  \/ NotRunning(s)
  \/ closer[s] # None /\ close.failing /\ UNCHANGED <<closer, token, instance>>
  \/ closer[s] # None /\ ~close.failing /\ PutToken(s)
       /\ closer' = [closer EXCEPT ![s] = None] /\ UNCHANGED instance

\* The runner resets the flag first; an instance that starts before the token is put
\* takes it all the same.
RunnerClose(s) ==
  \/ NotRunning(s)
  \/ /\ closer[s] # None /\ PutToken(s)
     /\ closer' = [closer EXCEPT ![s] = None] /\ UNCHANGED instance

resultStoreClose(s) == PutToken(s) /\ UNCHANGED <<closer, instance>>

\* recoverer.Close closes the service; a recoverer not running is passed over.
CloseService ==
  /\ close.at \in Service /\ close.step = "service"
  /\ IF running[close.at]
     THEN /\ CASE kind[close.at] = "closer" -> Cancel(close.at)
               [] kind[close.at] = "metadata" -> metadataStoreClose(close.at)
               [] kind[close.at] = "runner" -> RunnerClose(close.at)
               [] kind[close.at] = "results" -> resultStoreClose(close.at)
          /\ close' = [close EXCEPT !.step = "watcher"]
     ELSE close' = [close EXCEPT !.at = @ + 1] /\ UNCHANGED <<closer, token, instance>>
  /\ UNCHANGED <<kind, running, watcher, stopped>>

\* Then it tells the watcher, unless the channel is full.
CloseWatcher ==
  /\ close.at \in Service /\ close.step = "watcher"
  /\ stopped' = [stopped EXCEPT ![close.at] = IF @ = <<>> THEN <<"cancelled">> ELSE @]
  /\ close' = [close EXCEPT !.at = @ + 1, !.step = "service"]
  /\ UNCHANGED <<kind, running, watcher, closer, token, instance>>

-----------------------------------------------------------------------------

Watcher(s) == Start(s) \/ Booted(s) \/ Message(s) \/ Restart(s)
Lifecycle(s, i) ==
  ServiceStart(s, i) \/ ServiceReturns(s, i) \/ ServiceStops(s, i) \/ Report(s, i)
Closing == CloseService \/ CloseWatcher

Next ==
  \/ \E s \in Service : Watcher(s) \/ \E i \in Instance : Lifecycle(s, i) \/ Panic(s, i)
  \/ Close \/ Closing

Spec == Init /\ [][Next]_vars

\* Every goroutine goes on while it can; a pause ends.  Panics and the call of Close
\* may or may not come.
FairSpec ==
  /\ Spec /\ WF_vars(Closing)
  /\ \A s \in Service : WF_vars(Watcher(s)) /\ \A i \in Instance : WF_vars(Lifecycle(s, i))

-----------------------------------------------------------------------------
(* Properties.                                                             *)

\* The variables have the types of the fields they model.
TypeOK ==
  /\ kind \in Kinds /\ token \in [Service -> BOOLEAN]
  /\ running \in [Service -> BOOLEAN]
  /\ watcher \in [Service -> {"new", "boot", "select", "cooldown", "off"}]
  /\ stopped \in [Service -> {<<>>, <<"nil">>, <<"error">>, <<"panic">>, <<"cancelled">>}]
  /\ closer \in [Service -> Instance \cup {None}]
  /\ instance \in [Service -> [Instance ->
       [pc : {"none", "starting", "running", "nil", "error", "panic", "done"}, cancelled : BOOLEAN]]]
  /\ close \in [at : 0..Services + 1, step : {"service", "watcher"}, failing : BOOLEAN]

Runs(s, i) == instance[s][i].pc = "running"

\* A service never runs twice at a time: the recoverer starts it again only after
\* the instance before has ended, whatever panics and Close do in between, and the
\* Closer holds the cancel function of the one that runs, which is so never out of the
\* reach of Close, or has been told to end.
OneInstance ==
  \A s \in Service : \A i \in Instance : Runs(s, i) =>
    /\ \A k \in Instance \ {i} : ~Runs(s, k)
    /\ closer[s] = i \/ instance[s][i].cancelled \/ token[s]

\* A service that runs when the plugin's Close reaches it ends, and its goroutine with
\* it: the report of its end is never stuck on the channel, though the watcher that
\* reads the channel may be gone by then.  Only the metadata store goes on when it
\* cannot unsubscribe.
CloseEndsRunning ==
  \A s \in Service : \A i \in Instance :
    close.at = s /\ close.step = "service" /\ Runs(s, i) ~>
      instance[s][i].pc = "done" \/ (kind[s] = "metadata" /\ close.failing)

\* "recovering automatically from panics if they occur" (pkg/v3/service): after a
\* panic the watcher starts the service again, unless the plugin is being closed.  The
\* result store, which keeps nothing of the start before, then really runs again.
RestartsAfterPanic ==
  \A s \in Service : \A i \in Instance : instance[s][i].pc = "panic" ~>
    \/ close.at > 0
    \/ \E k \in Instance : /\ k > i /\ instance[s][k].pc # "none"
                           /\ kind[s] = "results" => instance[s][k].pc \notin {"starting", "error"}
=============================================================================
