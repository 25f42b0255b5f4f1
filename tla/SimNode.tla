------------------------------- MODULE SimNode -------------------------------
(***************************************************************************)
(* What a simulated node sees of the chain: the chain listener, which      *)
(* hands blocks and their transactions to subscribers, and the trackers    *)
(* that subscribe: active upkeeps, triggered logs, performs, transmitted   *)
(* reports, the block history and the OCR configuration.  They are the     *)
(* registry, the log event provider, the transmit event provider, the      *)
(* block subscriber and the configuration tracker the automation plugin    *)
(* runs with in a simulation.                                              *)
(*                                                                         *)
(* The listener and the trackers subscribe from goroutines of their own,   *)
(* and miss what happens before; every event is handed over by a goroutine *)
(* of its own, so events arrive in any order.  Trackers do not influence   *)
(* each other's events: a behaviour follows some of them.                  *)
(***************************************************************************)
EXTENDS SimChain, Sequences, SequencesExt

CONSTANTS
  Followed,       \* the sets of trackers behaviours follow
  HistoryDepth,   \* defaultHistoryDepth
  BlockRange      \* ReportTrackerBlockRange

VARIABLES
  follow,     \* the trackers of this behaviour
  missed,     \* None, or the blocks broadcast before the listener subscribed
  received,   \* the blocks the listener has handed on
  subs,       \* the trackers that have subscribed
  events,     \* events under way to trackers
  upkeeps,    \* active: idLookup
  triggered, read,     \* log: upkeeps with their log, not yet read and read
  performed,  \* perform: performed works
  blockEvents,         \* report: the keys of its map, sorted
  latest,     \* active, report, config: the block of the last event that set it, or None
  history,    \* history: the keys of its map, sorted
  early,      \* history: what a log would have triggered had it come later
  unheard,    \* history: trackers and blocks handed on before they subscribed
  again       \* history: GetOnce has returned something twice

nodeVars == <<follow, missed, received, subs, events, upkeeps, triggered, read, performed,
              blockEvents, latest, history, early, unheard, again>>

NodeInit ==
  /\ follow \in Followed
  /\ missed = None
  /\ received = {} /\ subs = {} /\ events = {}
  /\ upkeeps = {} /\ triggered = {} /\ read = {} /\ performed = {}
  /\ blockEvents = <<>> /\ history = <<>>
  /\ latest = [active |-> 0, report |-> None, config |-> None]
  /\ early = {} /\ unheard = {} /\ again = FALSE

-----------------------------------------------------------------------------
(* The map with sorted keys: block numbers as strings.                     *)

Digits(n) == IF n < 10 THEN 1 ELSE 2

\* sort.Strings on numbers of at most two digits.
StringLess(m, n) ==
  LET padded(k) == IF Digits(k) = 1 THEN 10 * k ELSE k
  IN padded(m) < padded(n) \/ (padded(m) = padded(n) /\ Digits(m) < Digits(n))

\* Mutant: the keys are not sorted.
SetUnsorted(keys, n) == IF n \in Range(keys) THEN keys ELSE Append(keys, n)

Set(keys, n) == IF n \in Range(keys) THEN keys ELSE SortSeq(Append(keys, n), StringLess)

\* The last count keys, in descending order.
Keys(keys, count) ==
  LET size == IF count > Len(keys) THEN Len(keys) ELSE count
  IN [k \in 1..size |-> keys[Len(keys) + 1 - k]]

-----------------------------------------------------------------------------
(* The listener.                                                           *)

ListenerSubscribe ==
  /\ missed = None
  /\ missed' = Broadcasted
  /\ UNCHANGED <<follow, received, subs, events, upkeeps, triggered, read, performed,
                 blockEvents, latest, history, early, unheard, again>>

Subscribe(t) ==
  /\ t \in follow \ subs
  /\ subs' = subs \cup {t}
  /\ UNCHANGED <<follow, missed, received, events, upkeeps, triggered, read, performed,
                 blockEvents, latest, history, early, unheard, again>>

\* The trackers an event is for, by its type; a block is an event as well.
Subscribers(type) ==
  CASE type = "block" -> {"history", "active", "report"}
    [] type = "create" -> {"active"}
    [] type = "log" -> {"log"}
    [] type = "perform" -> {"perform", "report"}
    [] type = "config" -> {"config"}

Event(t, n, tx) == [to |-> t, block |-> n, tx |-> tx]

\* saveBlock and broadcastTransaction, for the block and its transactions.
Receive(n) ==
  /\ missed # None /\ n \in Broadcasted \ (missed \cup received)
  /\ received' = received \cup {n}
  /\ events' = events \cup UNION {{Event(t, n, tx) : t \in subs \cap Subscribers(tx.type)} :
                                    tx \in blocks[n] \cup {[type |-> "block"]}}
  /\ unheard' = unheard \cup {[to |-> t, block |-> n] : t \in follow \ subs}
  /\ UNCHANGED <<follow, missed, subs, upkeeps, triggered, read, performed,
                 blockEvents, latest, history, early, again>>

-----------------------------------------------------------------------------
(* The trackers.                                                           *)

Handles(t, e) == e \in events /\ e.to = t /\ events' = events \ {e}

\* The block of an event replaces the one before, whichever is newer: setLatestBlock
\* of the active upkeeps, updateBlock of the reports, setConfig.
SetLatest(t, e) ==
  /\ Handles(t, e)
  /\ latest' = [latest EXCEPT ![t] = e.block]
  /\ UNCHANGED <<follow, missed, received, subs, upkeeps, triggered, read, performed,
                 blockEvents, history, early, unheard, again>>

setLatestBlock(e) == e.tx.type = "block" /\ SetLatest("active", e)
updateBlock(e) == e.tx.type = "block" /\ SetLatest("report", e)
setConfig(e) == SetLatest("config", e)

addSimulatedUpkeep(e) ==
  /\ Handles("active", e) /\ e.tx.type = "create"
  /\ upkeeps' = upkeeps \cup {e.tx.upkeep}
  /\ UNCHANGED <<follow, missed, received, subs, triggered, read, performed,
                 blockEvents, latest, history, early, unheard, again>>

GetAllByType(us, type) == {u \in us : u.type = type}

Triggers(us, e) ==
  {[upkeep |-> u, block |-> e.block, log |-> e.tx.log] :
     u \in {v \in GetAllByType(us, "log") : v.triggeredBy = e.tx.log.triggerValue}}

createLogUpkeeps(e) ==
  /\ Handles("log", e)
  /\ triggered' = triggered \cup Triggers(upkeeps, e)
  /\ early' = early \cup Triggers(plan.upkeeps \ upkeeps, e)
  /\ UNCHANGED <<follow, missed, received, subs, upkeeps, read, performed,
                 blockEvents, latest, history, unheard, again>>

\* Mutant: what is returned stays in the list.
GetOnceKept == triggered

\* What GetOnce leaves in the list.
GetOnceLeft == {}

\* GetLatestPayloads of the log event provider.
GetOnce ==
  /\ triggered # {}
  /\ read' = read \cup triggered
  /\ again' = (again \/ triggered \cap read # {})
  /\ triggered' = GetOnceLeft
  /\ UNCHANGED <<follow, missed, received, subs, events, upkeeps, performed,
                 blockEvents, latest, history, early, unheard>>

Works(reports) == UNION {r.works : r \in reports}

\* Mutant: only reports of the first block are registered.
registerTransmittedFirst(e) ==
  /\ Handles("perform", e)
  /\ performed' = IF performed = {} THEN Works(e.tx.reports) ELSE performed
  /\ UNCHANGED <<follow, missed, received, subs, upkeeps, triggered, read,
                 blockEvents, latest, history, early, unheard, again>>

registerTransmitted(e) ==
  /\ Handles("perform", e)
  /\ performed' = performed \cup Works(e.tx.reports)
  /\ UNCHANGED <<follow, missed, received, subs, upkeeps, triggered, read,
                 blockEvents, latest, history, early, unheard, again>>

ReportTrackerSet(e) ==
  /\ Handles("report", e) /\ e.tx.type = "perform"
  /\ blockEvents' = Set(blockEvents, e.block)
  /\ UNCHANGED <<follow, missed, received, subs, upkeeps, triggered, read, performed,
                 latest, history, early, unheard, again>>

createPluginTransmitEvents(n) == [block |-> n, confirmations |-> latest.report - n]

\* The blocks whose transmits are returned, with their confirmations; none until the
\* tracker has heard of a block.
GetLatestEvents ==
  IF latest.report = None THEN <<>>
  ELSE LET found == Keys(blockEvents, BlockRange)
       IN [k \in 1..Len(found) |-> createPluginTransmitEvents(found[k])]

HistorySet(e) ==
  /\ Handles("history", e)
  /\ history' = Set(history, e.block)
  /\ UNCHANGED <<follow, missed, received, subs, upkeeps, triggered, read, performed,
                 blockEvents, latest, early, unheard, again>>

Handle(e) ==
  \/ addSimulatedUpkeep(e) \/ createLogUpkeeps(e) \/ registerTransmitted(e)
  \/ ReportTrackerSet(e) \/ HistorySet(e)
  \/ setLatestBlock(e) \/ updateBlock(e) \/ setConfig(e)

NodeNext ==
  \/ ListenerSubscribe
  \/ \E t \in follow : Subscribe(t)
  \/ \E n \in Number : Receive(n)
  \/ \E e \in events : Handle(e)
  \/ GetOnce

Runs(step) == Alive /\ follow # {} /\ step /\ UNCHANGED chainVars

\* Goroutines run, and the log flow goes on asking for payloads.
NodeFairness ==
  /\ WF_nodeVars(Runs(ListenerSubscribe))
  /\ WF_nodeVars(Runs(\E t \in follow : Subscribe(t)))
  /\ WF_nodeVars(Runs(\E n \in Number : Receive(n)))
  /\ WF_nodeVars(Runs(\E e \in events : Handle(e)))
  /\ WF_nodeVars(Runs(GetOnce))

-----------------------------------------------------------------------------
(* Properties.                                                             *)

\* What happened in a block before the tracker could hear of it.
Lost(t, n) == (missed # None /\ n \in missed) \/ [to |-> t, block |-> n] \in unheard

\* The chain takes no more reports.
Over == nextBlock > Limit \/ run = "stopped"

\* Every report that a node transmits is registered as performed by the tracker,
\* whatever order the blocks and events arrive in, unless the chain ends before it is
\* in a block ("add a block padding to allow all transmits to come through") or the
\* block is older than the tracker's subscription.
PerformsRegistered ==
  \A r \in Report :
    "perform" \in follow /\ r \in transmitted ~>
      \/ r.works \subseteq performed \/ ~Alive
      \/ r \in queue /\ Over
      \/ \E n \in Broadcasted : r \in Performs(n) /\ Lost("perform", n)

\* "GetOnce will return a set of triggered upkeeps exactly once": nothing is returned
\* twice, and a log of the plan is returned for every upkeep it triggers, unless the
\* event overtook the one of the upkeep's creation, in whichever block that was, or
\* the tracker did not hear of the block.
LogsExactlyOnce ==
  /\ []~again
  /\ \A p \in Plans : \A u \in p.upkeeps, l \in p.logs :
       LET n == l.triggerAt
           trigger == [upkeep |-> u, block |-> n, log |-> l]
           emitted == /\ "log" \in follow /\ plan = p /\ n \in Broadcasted
                      /\ u.type = "log" /\ u.triggeredBy = l.triggerValue
       IN  emitted ~> (trigger \in read \cup early \/ ~Alive \/ Lost("log", n))

SameDigits(keys) == \A m, n \in Range(keys) : Digits(m) = Digits(n)

\* Some of the keys are the newest ones, newest first.
Newest(some, keys) ==
  \A i \in 1..Len(some) : Cardinality({n \in Range(keys) : n > some[i]}) = i - 1

\* "Keys returns the specified number of keys sorted highest to lowest": the block
\* history the plugin gets has its newest block first and no gap, and the transmit
\* events it gets are those of the newest blocks, in whatever order the blocks came.
\* The keys are strings, so this holds among numbers of as many digits.
NewestReturned ==
  /\ SameDigits(history) => Newest(Keys(history, HistoryDepth), history)
  /\ SameDigits(blockEvents) =>
       Newest([k \in 1..Len(GetLatestEvents) |-> GetLatestEvents[k].block], blockEvents)

=============================================================================
