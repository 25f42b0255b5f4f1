----------------------------- MODULE Coordinator -----------------------------
(***************************************************************************)
(* The in-flight coordinator of one node (pkg/v3/coordinator) with the     *)
(* expiring cache it is built on (pkg/util/cache.go).  Four goroutines     *)
(* share the two caches: the OCR plugin (Accept, ShouldTransmit), the      *)
(* event loop (checkEvents, once a second) and the collectors of the two   *)
(* caches (ClearExpired).  The caches lock each Get and each Set, never a  *)
(* Get together with the Set that depends on it, so the steps here are the *)
(* locked sections.  The flows and the hooks only read (ShouldProcess,     *)
(* FilterProposals).                                                       *)
(*                                                                         *)
(* Time is counted in units of which PerformLockoutWindow are the time to  *)
(* live of an entry: Tick ages every entry, and an entry whose age is over *)
(* the window is expired, present until a collector removes it.            *)
(***************************************************************************)
EXTENDS Integers, FiniteSets

CONSTANTS
  WorkID, LogTriggered,    \* the work IDs, and those of log-triggered upkeeps
  CheckBlock,              \* check blocks of reports
  Event,                   \* transmit events: workID, checkBlock, type, transmitBlock
  PerformLockoutWindow,
  None                     \* not a record, a report or an event

Age == 0..(PerformLockoutWindow + 1)
Report == [workID : WorkID, checkBlock : CheckBlock]
Item == [checkBlockNumber : CheckBlock, isTransmissionPending : BOOLEAN,
         transmitType : {"none", "perform", "stale"}, transmitBlockNumber : Nat, age : Age]
Mark == [age : Age]
Current == [event : Event, read : CheckBlock]

ASSUME CoordinatorAssumption ==
  /\ LogTriggered \subseteq WorkID
  /\ CheckBlock \subseteq Nat
  /\ PerformLockoutWindow \in Nat
  /\ \A e \in Event : /\ e.workID \in WorkID /\ e.checkBlock \in CheckBlock
                      /\ e.type \in {"perform", "stale"} /\ e.transmitBlock \in Nat
  /\ None \notin Item \cup Mark \cup Report \cup Current

VARIABLES
  cache,     \* per work ID: None, or its record and the record's age
  visited,   \* per event: None, or the age of its mark
  ocr,       \* the report Accept is about to store, or None
  events,    \* the confirmed events checkEvents has still to look at
  current,   \* the event checkEvents is about to apply, and the block it read
  toclear,   \* what the collectors have found expired in each cache
  chain,     \* where an event is: absent, fresh, confirmed, old
  accepted   \* history: the reports accepted since the node started

vars == <<cache, visited, ocr, events, current, toclear, chain, accepted>>

-----------------------------------------------------------------------------
(* The cache.                                                              *)

Live(item) == item # None /\ item.age <= PerformLockoutWindow
Expired(item) == item # None /\ item.age > PerformLockoutWindow

Record(block, pending, type, tblock) ==
  [checkBlockNumber |-> block, isTransmissionPending |-> pending,
   transmitType |-> type, transmitBlockNumber |-> tblock, age |-> 0]

\* Mutant: entries do not expire.
OlderNever(item) == item

Older(item) ==
  IF item = None THEN None
  ELSE [item EXCEPT !.age = IF @ > PerformLockoutWindow THEN @ ELSE @ + 1]

Tick ==
  /\ cache' = [w \in WorkID |-> Older(cache[w])]
  /\ visited' = [e \in Event |-> Older(visited[e])]
  /\ UNCHANGED <<ocr, events, current, toclear, chain, accepted>>

\* ClearExpired finds the expired keys under the read lock ...
ClearScan ==
  /\ \/ /\ toclear.cache = {}
        /\ toclear' = [toclear EXCEPT !.cache = {w \in WorkID : Expired(cache[w])}]
     \/ /\ toclear.visited = {}
        /\ toclear' = [toclear EXCEPT !.visited = {e \in Event : Expired(visited[e])}]
  /\ UNCHANGED <<cache, visited, ocr, events, current, chain, accepted>>

\* ... and deletes them under the write lock it takes afterwards.
ClearDelete ==
  /\ \/ /\ toclear.cache # {}
        /\ cache' = [w \in WorkID |-> IF w \in toclear.cache THEN None ELSE cache[w]]
        /\ toclear' = [toclear EXCEPT !.cache = {}]
        /\ UNCHANGED visited
     \/ /\ toclear.visited # {}
        /\ visited' = [e \in Event |-> IF e \in toclear.visited THEN None ELSE visited[e]]
        /\ toclear' = [toclear EXCEPT !.visited = {}]
        /\ UNCHANGED cache
  /\ UNCHANGED <<ocr, events, current, chain, accepted>>

-----------------------------------------------------------------------------
(* The plugin.                                                             *)

Init ==
  /\ cache = [w \in WorkID |-> None]
  /\ visited = [e \in Event |-> None]
  /\ ocr = None
  /\ events = {}
  /\ current = None
  /\ toclear = [cache |-> {}, visited |-> {}]
  /\ chain = [e \in Event |-> "absent"]
  /\ accepted = {}

\* Accept reads the record; it goes on to store the report unless one with the
\* same or a higher check block is waited for.
AcceptGet(r) ==
  /\ ocr = None
  /\ Live(cache[r.workID]) => cache[r.workID].checkBlockNumber < r.checkBlock
  /\ ocr' = r
  /\ UNCHANGED <<cache, visited, events, current, toclear, chain, accepted>>

AcceptSet ==
  /\ ocr # None
  /\ cache' = [cache EXCEPT ![ocr.workID] = Record(ocr.checkBlock, TRUE, "none", 0)]
  /\ accepted' = accepted \cup {ocr}
  /\ ocr' = None
  /\ UNCHANGED <<visited, events, current, toclear, chain>>

ShouldTransmit(r) ==
  LET v == cache[r.workID]
  IN Live(v) /\ r.checkBlock = v.checkBlockNumber /\ v.isTransmissionPending

\* Mutant: a performed log is released after its transmit block, as a
\* conditional upkeep is.
ShouldProcessByBlock(w, block) ==
  LET v == cache[w]
  IN Live(v) => /\ ~v.isTransmissionPending
                /\ v.transmitType = "perform" => block >= v.transmitBlockNumber

ShouldProcess(w, block) ==
  LET v == cache[w]
  IN Live(v) => /\ ~v.isTransmissionPending
                /\ v.transmitType = "perform" =>
                     w \notin LogTriggered /\ block >= v.transmitBlockNumber

\* Whether FilterProposals keeps a proposal of w.
FilterProposals(w) ==
  LET v == cache[w]
  IN Live(v) => /\ ~v.isTransmissionPending
                /\ ~(w \in LogTriggered /\ v.transmitType = "perform")

-----------------------------------------------------------------------------
(* The event loop.                                                         *)

\* Mutant: events without the minimum of confirmations are fetched as well.
FetchEventsUnconfirmed ==
  /\ events = {} /\ current = None
  /\ events' = {e \in Event : chain[e] \in {"fresh", "confirmed"}}
  /\ UNCHANGED <<cache, visited, ocr, current, toclear, chain, accepted>>

\* GetLatestEvents, less the events that checkEvents skips because they have
\* too few confirmations.
FetchEvents ==
  /\ events = {} /\ current = None
  /\ events' = {e \in Event : chain[e] = "confirmed"}
  /\ UNCHANGED <<cache, visited, ocr, current, toclear, chain, accepted>>

\* The loop reaches an event: skip it when visited or not in the cache.
EventGet(e) ==
  /\ current = None
  /\ events' = events \ {e}
  /\ IF ~Live(visited[e]) /\ Live(cache[e.workID])
     THEN /\ visited' = [visited EXCEPT ![e] = [age |-> 0]]
          /\ current' = [event |-> e, read |-> cache[e.workID].checkBlockNumber]
     ELSE UNCHANGED <<visited, current>>
  /\ UNCHANGED <<cache, ocr, toclear, chain, accepted>>

\* An event of the awaited or of a newer report replaces the record.
EventSet ==
  /\ current # None
  /\ LET e == current.event
     IN cache' = IF e.checkBlock >= current.read
                 THEN [cache EXCEPT ![e.workID] =
                         Record(e.checkBlock, FALSE, e.type, e.transmitBlock)]
                 ELSE cache
  /\ current' = None
  /\ UNCHANGED <<visited, ocr, events, toclear, chain, accepted>>

-----------------------------------------------------------------------------
(* The chain, as the event provider sees it, and the process.              *)

ChainStep(e) ==
  /\ \/ chain[e] = "absent" /\ chain' = [chain EXCEPT ![e] = "fresh"]
     \/ chain[e] = "fresh" /\ chain' = [chain EXCEPT ![e] = "absent"]     \* reorg
     \/ chain[e] = "fresh" /\ chain' = [chain EXCEPT ![e] = "confirmed"]
     \/ chain[e] = "confirmed" /\ chain' = [chain EXCEPT ![e] = "old"]    \* out of lookback
  /\ UNCHANGED <<cache, visited, ocr, events, current, toclear, accepted>>

\* The process restarts: the chain is all that is left.
Restart ==
  /\ cache' = [w \in WorkID |-> None]
  /\ visited' = [e \in Event |-> None]
  /\ ocr' = None
  /\ events' = {}
  /\ current' = None
  /\ toclear' = [cache |-> {}, visited |-> {}]
  /\ accepted' = {}
  /\ UNCHANGED chain

Next ==
  \/ Tick
  \/ ClearScan \/ ClearDelete
  \/ \E r \in Report : AcceptGet(r)
  \/ AcceptSet
  \/ FetchEvents
  \/ \E e \in events : EventGet(e)
  \/ EventSet
  \/ \E e \in Event : ChainStep(e)
  \/ Restart

Spec == Init /\ [][Next]_vars

\* Time passes, and a goroutine between its Get and its Set gets to run.
FairSpec == Spec /\ WF_vars(Tick) /\ WF_vars(AcceptSet) /\ WF_vars(EventSet)

\* The behaviours in which no Get/Set pair of the plugin overlaps one of the
\* event loop, as they would be if each pair were one critical section.
NoOverlap == ocr' = None \/ current' = None
SerialSpec == Init /\ [][Next /\ NoOverlap]_vars

-----------------------------------------------------------------------------
(* Properties.                                                             *)

TypeOK ==
  /\ cache \in [WorkID -> {None} \cup Item]
  /\ visited \in [Event -> {None} \cup Mark]
  /\ ocr \in Report \cup {None}
  /\ events \subseteq Event
  /\ current \in {None} \cup Current
  /\ toclear \in [cache : SUBSET WorkID, visited : SUBSET Event]
  /\ chain \in [Event -> {"absent", "fresh", "confirmed", "old"}]
  /\ accepted \subseteq Report

\* What the coordinator says happened: it lets a report be transmitted only if
\* this process accepted it, and takes work for transmitted only on an event
\* that was confirmed on chain, with that event's blocks and type, however
\* Accept, checkEvents, the collectors, reorgs and restarts interleave.
RecordsJustified ==
  /\ \A r \in Report : ShouldTransmit(r) => r \in accepted
  /\ \A w \in WorkID : cache[w] # None /\ ~cache[w].isTransmissionPending =>
       \E e \in Event : /\ e.workID = w /\ chain[e] \in {"confirmed", "old"}
                        /\ e.checkBlock = cache[w].checkBlockNumber
                        /\ e.type = cache[w].transmitType
                        /\ e.transmitBlock = cache[w].transmitBlockNumber

InFlight(w) == Live(cache[w]) /\ cache[w].isTransmissionPending

\* "All keys stored expire after TTL. In case an item is not marked as performed
\* within TTL, it is assumed that the tx got lost" (docs/PROTOCOL_v21.md): a lost
\* transmission never blocks its work for good.
NeverInFlightForever == \A w \in WorkID : InFlight(w) ~> ~InFlight(w)

BlocksGrow ==
  \A w \in WorkID : Live(cache[w]) /\ Live(cache'[w]) =>
    cache'[w].checkBlockNumber >= cache[w].checkBlockNumber

\* "in case of conflict ... it waits on the higher checkBlockNumber"
\* (docs/PROTOCOL_v21.md): as long as a record is live its check block only grows.
WaitsOnHigherBlock == [][BlocksGrow]_vars

\* "For log upkeeps, the same workID will be filtered out as it has been
\* performed" (docs/PROTOCOL_v21.md): once checkEvents has recorded the perform
\* event of a log, neither the flows nor the proposals take the log up again while
\* the record is live, except after a confirmed stale event of the same or a later
\* report, which replaces the record.
PerformedLogFiltered ==
  [][\A w \in LogTriggered : Live(cache[w]) /\ cache[w].transmitType = "perform" =>
       \/ ~Live(cache'[w])
       \/ ~FilterProposals(w)' /\ \A b \in CheckBlock : ~ShouldProcess(w, b)'
       \/ \E e \in Event : /\ e.workID = w /\ e.type = "stale"
                           /\ chain[e] \in {"confirmed", "old"}
                           /\ e.checkBlock >= cache[w].checkBlockNumber]_vars

=============================================================================
