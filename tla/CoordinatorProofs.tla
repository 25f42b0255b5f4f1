-------------------------- MODULE CoordinatorProofs --------------------------
(* Proofs about the in-flight coordinators of the two plugins: Coordinator,  *)
(* for every set of work IDs, events and blocks and every lockout window,    *)
(* and V2Coordinator, for every set of upkeeps, blocks, reports and logs and *)
(* every pair of windows.                                                    *)
EXTENDS Coordinator, V2Coordinator, TLAPS

WasConfirmed(e) == chain[e] \in {"confirmed", "old"}

(* The inductive invariant: the loop only holds confirmed events, a pending  *)
(* record is of an accepted report and a transmitted one of a confirmed event. *)
Justified ==
  /\ \A e \in events : WasConfirmed(e)
  /\ current # None => WasConfirmed(current.event)
  /\ \A w \in WorkID : cache[w] # None =>
       IF cache[w].isTransmissionPending
       THEN [workID |-> w, checkBlock |-> cache[w].checkBlockNumber] \in accepted
       ELSE \E e \in Event : /\ e.workID = w /\ WasConfirmed(e)
                             /\ e.checkBlock = cache[w].checkBlockNumber
                             /\ e.type = cache[w].transmitType
                             /\ e.transmitBlock = cache[w].transmitBlockNumber

IInv == TypeOK /\ Justified

\* Ageing an entry changes nothing but its age.
LEMMA OlderItem ==
  ASSUME NEW v \in {None} \cup Item
  PROVE  /\ Older(v) \in {None} \cup Item
         /\ Older(v) = None <=> v = None
         /\ v # None => /\ Older(v).checkBlockNumber = v.checkBlockNumber
                        /\ Older(v).isTransmissionPending = v.isTransmissionPending
                        /\ Older(v).transmitType = v.transmitType
                        /\ Older(v).transmitBlockNumber = v.transmitBlockNumber
         /\ Live(Older(v)) => Live(v)
<1>1. CASE v = None
  BY <1>1 DEF Older
<1>2. CASE v # None
  <2> DEFINE a == IF v.age > PerformLockoutWindow THEN v.age ELSE v.age + 1
  <2>1. v \in Item /\ v.age \in 0..(PerformLockoutWindow + 1) /\ PerformLockoutWindow \in Nat
    BY <1>2, CoordinatorAssumption DEF Item, Age
  <2>2. a \in Age /\ (a <= PerformLockoutWindow => v.age <= PerformLockoutWindow)
    BY <2>1 DEF Age
  <2>3. Older(v) = [v EXCEPT !.age = a]
    BY <1>2 DEF Older
  <2> HIDE DEF a
  <2>4. /\ Older(v) \in Item /\ Older(v).age = a
        /\ Older(v).checkBlockNumber = v.checkBlockNumber
        /\ Older(v).isTransmissionPending = v.isTransmissionPending
        /\ Older(v).transmitType = v.transmitType
        /\ Older(v).transmitBlockNumber = v.transmitBlockNumber
    BY <2>1, <2>2, <2>3 DEF Item
  <2>5. None \notin Item
    BY CoordinatorAssumption
  <2> QED BY <2>1, <2>2, <2>4, <2>5 DEF Live
<1> QED BY <1>1, <1>2

LEMMA OlderMark ==
  ASSUME NEW v \in {None} \cup Mark
  PROVE  Older(v) \in {None} \cup Mark
<1>1. CASE v = None
  BY <1>1 DEF Older
<1>2. CASE v # None
  <2>1. v \in Mark /\ v.age \in 0..(PerformLockoutWindow + 1) /\ PerformLockoutWindow \in Nat
    BY <1>2, CoordinatorAssumption DEF Mark, Age
  <2> QED BY <1>2, <2>1 DEF Older, Mark, Age
<1> QED BY <1>1, <1>2

LEMMA PendingRecord ==
  ASSUME NEW b \in CheckBlock
  PROVE  LET v == Record(b, TRUE, "none", 0)
         IN v \in Item /\ v.checkBlockNumber = b /\ v.isTransmissionPending = TRUE
BY CoordinatorAssumption DEF Record, Item, Age

LEMMA InitIInv == Init => IInv
BY DEF Init, IInv, TypeOK, Justified

LEMMA NextIInv == IInv /\ [Next]_vars => IInv'
<1> SUFFICES ASSUME IInv, [Next]_vars PROVE IInv'
  OBVIOUS
<1> USE DEF IInv
<1>1. CASE Tick
  <2>1. TypeOK'
    <3>1. \A w \in WorkID : Older(cache[w]) \in {None} \cup Item
      BY OlderItem DEF TypeOK
    <3>2. \A e \in Event : Older(visited[e]) \in {None} \cup Mark
      BY OlderMark DEF TypeOK
    <3> QED BY <1>1, <3>1, <3>2 DEF Tick, TypeOK
  <2>2. Justified'
    <3>1. \A w \in WorkID : /\ cache'[w] = None <=> cache[w] = None
                            /\ cache[w] # None =>
                                 /\ cache'[w].checkBlockNumber = cache[w].checkBlockNumber
                                 /\ cache'[w].isTransmissionPending = cache[w].isTransmissionPending
                                 /\ cache'[w].transmitType = cache[w].transmitType
                                 /\ cache'[w].transmitBlockNumber = cache[w].transmitBlockNumber
      BY <1>1, OlderItem DEF Tick, TypeOK
    <3> QED BY <1>1, <3>1 DEF Tick, Justified, WasConfirmed
  <2> QED BY <2>1, <2>2
<1>2. CASE ClearScan
  <2>1. TypeOK' BY <1>2 DEF ClearScan, TypeOK
  <2>2. Justified' BY <1>2 DEF ClearScan, Justified, WasConfirmed
  <2> QED BY <2>1, <2>2
<1>3. CASE ClearDelete
  <2>1. TypeOK' BY <1>3 DEF ClearDelete, TypeOK
  <2>2. Justified'
    <3>1. \A w \in WorkID : cache'[w] = None \/ cache'[w] = cache[w]
      BY <1>3 DEF ClearDelete
    <3> QED BY <1>3, <3>1 DEF ClearDelete, Justified, WasConfirmed
  <2> QED BY <2>1, <2>2
<1>4. ASSUME NEW r \in Report, AcceptGet(r) PROVE IInv'
  <2>1. TypeOK' BY <1>4 DEF AcceptGet, TypeOK
  <2>2. Justified' BY <1>4 DEF AcceptGet, Justified, WasConfirmed
  <2> QED BY <2>1, <2>2
<1>5. CASE AcceptSet
  <2>1. ocr \in Report /\ ocr.workID \in WorkID /\ ocr.checkBlock \in CheckBlock
    BY <1>5 DEF AcceptSet, TypeOK, Report
  <2> DEFINE v == Record(ocr.checkBlock, TRUE, "none", 0)
  <2>2. v \in Item /\ v.checkBlockNumber = ocr.checkBlock /\ v.isTransmissionPending = TRUE
    BY <2>1, PendingRecord
  <2> HIDE DEF v
  <2>3. cache' = [cache EXCEPT ![ocr.workID] = v] /\ accepted' = accepted \cup {ocr} /\ ocr' = None
        /\ UNCHANGED <<visited, events, current, toclear, chain>>
    BY <1>5 DEF AcceptSet, v
  <2>4. TypeOK' BY <2>1, <2>2, <2>3 DEF TypeOK
  <2>5. ocr = [workID |-> ocr.workID, checkBlock |-> v.checkBlockNumber]
    BY <2>1, <2>2 DEF Report
  <2>6. cache'[ocr.workID] = v /\ \A w \in WorkID : w # ocr.workID => cache'[w] = cache[w]
    BY <2>1, <2>3 DEF TypeOK
  <2>7. Justified' BY <2>1, <2>2, <2>3, <2>5, <2>6 DEF Justified, WasConfirmed
  <2> QED BY <2>4, <2>7
<1>6. CASE FetchEvents
  <2>1. TypeOK' BY <1>6 DEF FetchEvents, TypeOK
  <2>2. Justified' BY <1>6 DEF FetchEvents, Justified, WasConfirmed
  <2> QED BY <2>1, <2>2
<1>7. ASSUME NEW e \in events, EventGet(e) PROVE IInv'
  <2>1. e \in Event /\ e.workID \in WorkID
    BY CoordinatorAssumption DEF TypeOK
  <2>2. visited' \in [Event -> {None} \cup Mark]
    BY <1>7, <2>1, CoordinatorAssumption DEF EventGet, TypeOK, Mark, Age
  <2>3. current' \in {None} \cup Current
    <3>1. Live(cache[e.workID]) => cache[e.workID].checkBlockNumber \in CheckBlock
      BY <2>1 DEF TypeOK, Live, Item
    <3> QED BY <1>7, <2>1, <3>1 DEF EventGet, TypeOK, Current
  <2>4. TypeOK' BY <1>7, <2>2, <2>3 DEF EventGet, TypeOK
  <2>5. current' # None => current' = current \/ current'.event = e
    BY <1>7 DEF EventGet
  <2>6. Justified' BY <1>7, <2>5 DEF EventGet, Justified, WasConfirmed
  <2> QED BY <2>4, <2>6
<1>8. CASE EventSet
  <2>0. PICK e : e = current.event
    OBVIOUS
  <2> DEFINE v == Record(e.checkBlock, FALSE, e.type, e.transmitBlock)
  <2>1. /\ e \in Event /\ e.workID \in WorkID /\ e.checkBlock \in CheckBlock
        /\ e.type \in {"perform", "stale"} /\ e.transmitBlock \in Nat
    BY <1>8, <2>0, CoordinatorAssumption DEF EventSet, TypeOK, Current
  <2>2. /\ v \in Item /\ v.checkBlockNumber = e.checkBlock /\ v.isTransmissionPending = FALSE
        /\ v.transmitType = e.type /\ v.transmitBlockNumber = e.transmitBlock
    BY <2>1, CoordinatorAssumption DEF Record, Item, Age
  <2>3. WasConfirmed(e)
    BY <1>8, <2>0 DEF EventSet, Justified
  <2> HIDE DEF v
  <2>4. cache' = cache \/ cache' = [cache EXCEPT ![e.workID] = v]
    BY <1>8, <2>0 DEF EventSet, v
  <2>5. current' = None /\ UNCHANGED <<visited, ocr, events, toclear, chain, accepted>>
    BY <1>8 DEF EventSet
  <2>6. TypeOK' BY <2>1, <2>2, <2>4, <2>5 DEF TypeOK
  <2>7. CASE cache' = cache
    BY <2>6, <2>7, <2>5 DEF Justified, WasConfirmed
  <2>8. CASE cache' = [cache EXCEPT ![e.workID] = v]
    <3>1. cache'[e.workID] = v /\ \A w \in WorkID : w # e.workID => cache'[w] = cache[w]
      BY <2>1, <2>8 DEF TypeOK
    <3>2. WasConfirmed(e)' BY <2>3, <2>5 DEF WasConfirmed
    <3>3. Justified'
      <4>1. ASSUME NEW w \in WorkID, cache'[w] # None
            PROVE  IF cache'[w].isTransmissionPending
                   THEN [workID |-> w, checkBlock |-> cache'[w].checkBlockNumber] \in accepted'
                   ELSE \E d \in Event : /\ d.workID = w /\ WasConfirmed(d)'
                                         /\ d.checkBlock = cache'[w].checkBlockNumber
                                         /\ d.type = cache'[w].transmitType
                                         /\ d.transmitBlock = cache'[w].transmitBlockNumber
        <5>1. CASE w = e.workID
          BY <5>1, <3>1, <3>2, <2>1, <2>2
        <5>2. CASE w # e.workID
          BY <5>2, <4>1, <3>1, <2>5 DEF Justified, WasConfirmed
        <5> QED BY <5>1, <5>2
      <4> QED BY <4>1, <2>5 DEF Justified, WasConfirmed
    <3> QED BY <3>3, <2>6
  <2> QED BY <2>4, <2>7, <2>8
<1>9. ASSUME NEW e \in Event, ChainStep(e) PROVE IInv'
  <2>1. TypeOK' BY <1>9 DEF ChainStep, TypeOK
  <2>2. \A d \in Event : WasConfirmed(d) => WasConfirmed(d)'
    BY <1>9 DEF ChainStep, TypeOK, WasConfirmed
  <2>3. events \subseteq Event /\ (current # None => current.event \in Event)
    BY DEF TypeOK, Current
  <2>4. UNCHANGED <<cache, events, current, accepted>>
    BY <1>9 DEF ChainStep
  <2>5. Justified' BY <2>2, <2>3, <2>4 DEF Justified
  <2> QED BY <2>1, <2>5
<1>10. CASE Restart
  BY <1>10 DEF Restart, TypeOK, Justified
<1>11. CASE UNCHANGED vars
  BY <1>11 DEF vars, TypeOK, Justified, WasConfirmed
<1> QED BY <1>1, <1>2, <1>3, <1>4, <1>5, <1>6, <1>7, <1>8, <1>9, <1>10, <1>11 DEF Next

\* The caches and the goroutines' locals keep their types.
THEOREM CoordinatorType == Spec => []TypeOK
<1>1. IInv => TypeOK BY DEF IInv
<1> QED BY <1>1, InitIInv, NextIInv, PTL DEF Spec

\* A node transmits only what it accepted, and takes work for transmitted only
\* on a confirmed event, under every interleaving of the four goroutines.
THEOREM RecordsAreJustified == Spec => []RecordsJustified
<1>1. IInv => RecordsJustified
  <2> SUFFICES ASSUME IInv PROVE RecordsJustified
    OBVIOUS
  <2>1. ASSUME NEW r \in Report, ShouldTransmit(r) PROVE r \in accepted
    <3>1. r.workID \in WorkID /\ r = [workID |-> r.workID, checkBlock |-> r.checkBlock]
      BY DEF Report
    <3>2. /\ cache[r.workID] # None /\ cache[r.workID].isTransmissionPending
          /\ r.checkBlock = cache[r.workID].checkBlockNumber
      BY <2>1 DEF ShouldTransmit, Live
    <3> QED BY <3>1, <3>2 DEF IInv, Justified
  <2>2. \A w \in WorkID : cache[w] # None /\ ~cache[w].isTransmissionPending =>
          \E e \in Event : /\ e.workID = w /\ WasConfirmed(e)
                           /\ e.checkBlock = cache[w].checkBlockNumber
                           /\ e.type = cache[w].transmitType
                           /\ e.transmitBlock = cache[w].transmitBlockNumber
    BY DEF IInv, Justified
  <2> QED BY <2>1, <2>2 DEF RecordsJustified, WasConfirmed
<1> QED BY <1>1, InitIInv, NextIInv, PTL DEF Spec

(* Without the overlap of Accept and checkEvents, the block read is still    *)
(* the block of the record when it is written.                               *)
ReadIsCurrent ==
  /\ ocr = None \/ current = None
  /\ ocr # None => (Live(cache[ocr.workID]) =>
                      cache[ocr.workID].checkBlockNumber < ocr.checkBlock)
  /\ current # None => (Live(cache[current.event.workID]) =>
                          cache[current.event.workID].checkBlockNumber = current.read)

LEMMA InitSerial == Init => TypeOK /\ ReadIsCurrent
BY DEF Init, TypeOK, ReadIsCurrent

LEMMA NextSerial ==
  IInv /\ ReadIsCurrent /\ [Next /\ NoOverlap]_vars => ReadIsCurrent' /\ BlocksGrow
<1> SUFFICES ASSUME IInv, ReadIsCurrent, [Next /\ NoOverlap]_vars
             PROVE  ReadIsCurrent' /\ BlocksGrow
  OBVIOUS
<1>t. TypeOK BY DEF IInv
<1>n. \A w \in WorkID : Live(cache[w]) => cache[w].checkBlockNumber \in Nat
  BY <1>t, CoordinatorAssumption DEF TypeOK, Live, Item
<1>o. ocr # None => ocr.workID \in WorkID /\ ocr.checkBlock \in Nat
  BY <1>t, CoordinatorAssumption DEF TypeOK, Report
<1>c. current # None => /\ current.event.workID \in WorkID /\ current.read \in Nat
                        /\ current.event.checkBlock \in Nat
  BY <1>t, CoordinatorAssumption DEF TypeOK, Current
<1> DEFINE Kept(w) == Live(cache'[w]) =>
                        /\ Live(cache[w])
                        /\ cache'[w].checkBlockNumber = cache[w].checkBlockNumber
<1>k. ASSUME \A w \in WorkID : Kept(w), UNCHANGED <<ocr, current>>
      PROVE  ReadIsCurrent' /\ BlocksGrow
  <2>1. BlocksGrow BY <1>k, <1>n DEF BlocksGrow
  <2>2. ReadIsCurrent' BY <1>k, <1>o, <1>c DEF ReadIsCurrent
  <2> QED BY <2>1, <2>2
<1>1. CASE Tick
  <2>1. ASSUME NEW w \in WorkID PROVE Kept(w)
    <3>1. cache[w] \in {None} \cup Item /\ cache'[w] = Older(cache[w])
      BY <1>1, <1>t DEF Tick, TypeOK
    <3> QED BY <3>1, OlderItem DEF Live
  <2> QED BY <2>1, <1>1, <1>k DEF Tick
<1>2. CASE ClearScan
  BY <1>2, <1>k DEF ClearScan
<1>3. CASE ClearDelete
  <2>1. ASSUME NEW w \in WorkID PROVE Kept(w)
    BY <1>3 DEF ClearDelete, Live
  <2> QED BY <2>1, <1>3, <1>k DEF ClearDelete
<1>4. ASSUME NEW r \in Report, AcceptGet(r), NoOverlap PROVE ReadIsCurrent' /\ BlocksGrow
  <2>1. cache' = cache /\ current' = current /\ ocr' = r /\ ocr' # None
    BY <1>4, CoordinatorAssumption DEF AcceptGet
  <2>2. BlocksGrow BY <2>1, <1>n DEF BlocksGrow
  <2>3. ReadIsCurrent' BY <2>1, <1>4 DEF AcceptGet, NoOverlap, ReadIsCurrent
  <2> QED BY <2>2, <2>3
<1>5. CASE AcceptSet
  <2>1. ocr # None /\ current = None /\ ocr' = None /\ current' = None
    BY <1>5 DEF AcceptSet, ReadIsCurrent
  <2>2. ASSUME NEW w \in WorkID, w # ocr.workID PROVE cache'[w] = cache[w]
    BY <2>2, <1>5, <1>t DEF AcceptSet, TypeOK
  <2>3. cache'[ocr.workID].checkBlockNumber = ocr.checkBlock
    BY <1>5, <1>t, <1>o, <2>1 DEF AcceptSet, TypeOK, Record
  <2>4. BlocksGrow
    BY <2>1, <2>2, <2>3, <1>n, <1>o DEF BlocksGrow, ReadIsCurrent
  <2> QED BY <2>1, <2>4 DEF ReadIsCurrent
<1>6. CASE FetchEvents
  BY <1>6, <1>k DEF FetchEvents
<1>7. ASSUME NEW e \in events, EventGet(e), NoOverlap PROVE ReadIsCurrent' /\ BlocksGrow
  <2>1. cache' = cache /\ ocr' = ocr /\ current = None
    BY <1>7 DEF EventGet
  <2>2. BlocksGrow BY <2>1, <1>n DEF BlocksGrow
  <2>3. current' = None \/ /\ current'.event = e
                           /\ current'.read = cache[e.workID].checkBlockNumber
    BY <1>7 DEF EventGet
  <2>4. ReadIsCurrent' BY <2>1, <2>3, <1>7 DEF NoOverlap, ReadIsCurrent
  <2> QED BY <2>2, <2>4
<1>8. CASE EventSet
  <2>1. current # None /\ ocr = None /\ ocr' = None /\ current' = None
    BY <1>8 DEF EventSet, ReadIsCurrent
  <2>2. PICK e : e = current.event
    OBVIOUS
  <2>3. ASSUME NEW w \in WorkID, w # e.workID PROVE cache'[w] = cache[w]
    BY <2>3, <2>2, <1>8, <1>t DEF EventSet, TypeOK
  <2>4. cache' = cache \/ /\ cache'[e.workID].checkBlockNumber = e.checkBlock
                          /\ e.checkBlock >= current.read
    BY <1>8, <1>t, <1>c, <2>1, <2>2 DEF EventSet, TypeOK, Record
  <2>5. Live(cache[e.workID]) => cache[e.workID].checkBlockNumber = current.read
    BY <2>1, <2>2 DEF ReadIsCurrent
  <2>6. e.workID \in WorkID /\ e.checkBlock \in Nat /\ current.read \in Nat
    BY <1>c, <2>1, <2>2
  <2>7. BlocksGrow
    <3>1. CASE cache' = cache BY <3>1, <1>n DEF BlocksGrow
    <3>2. CASE cache' # cache
      BY <3>2, <2>3, <2>4, <2>5, <2>6, <1>n DEF BlocksGrow
    <3> QED BY <3>1, <3>2
  <2> QED BY <2>1, <2>7 DEF ReadIsCurrent
<1>9. ASSUME NEW e \in Event, ChainStep(e) PROVE ReadIsCurrent' /\ BlocksGrow
  BY <1>9, <1>k DEF ChainStep
<1>10. CASE Restart
  <2>1. \A w \in WorkID : ~Live(cache'[w]) BY <1>10 DEF Restart, Live
  <2> QED BY <1>10, <2>1 DEF Restart, ReadIsCurrent, BlocksGrow
<1>11. CASE UNCHANGED vars
  BY <1>11, <1>k DEF vars
<1> QED BY <1>1, <1>2, <1>3, <1>4, <1>5, <1>6, <1>7, <1>8, <1>9, <1>10, <1>11 DEF Next

\* Were each Get and its Set one critical section, a live record's check block
\* would only grow; without that the race run shows that it may not.
THEOREM SerialWaitsOnHigherBlock == SerialSpec => WaitsOnHigherBlock
<1>1. Init => IInv /\ ReadIsCurrent
  BY InitIInv, InitSerial
<1>2. IInv /\ ReadIsCurrent /\ [Next /\ NoOverlap]_vars => IInv' /\ ReadIsCurrent' /\ BlocksGrow
  BY NextIInv, NextSerial
<1> QED BY <1>1, <1>2, PTL DEF SerialSpec, WaitsOnHigherBlock

(* Only checkEvents records a perform event, so the block it read from such  *)
(* a record is still the record's when it comes to write, whatever Accept    *)
(* does in between.                                                          *)
Performed(w) == Live(cache[w]) /\ cache[w].transmitType = "perform"

ReadIsPerformed ==
  current # None /\ Performed(current.event.workID) =>
    cache[current.event.workID].checkBlockNumber = current.read

\* The body of PerformedLogFiltered.
StaysFiltered ==
  \A w \in LogTriggered : Live(cache[w]) /\ cache[w].transmitType = "perform" =>
    \/ ~Live(cache'[w])
    \/ ~FilterProposals(w)' /\ \A b \in CheckBlock : ~ShouldProcess(w, b)'
    \/ \E e \in Event : /\ e.workID = w /\ e.type = "stale"
                        /\ chain[e] \in {"confirmed", "old"}
                        /\ e.checkBlock >= cache[w].checkBlockNumber

LEMMA Filtered ==
  ASSUME NEW w \in LogTriggered, Live(cache'[w]),
         cache'[w].transmitType = "perform" \/ cache'[w].isTransmissionPending
  PROVE  ~FilterProposals(w)' /\ \A b \in CheckBlock : ~ShouldProcess(w, b)'
BY DEF FilterProposals, ShouldProcess

LEMMA NextFiltered ==
  ASSUME IInv, ReadIsPerformed, [Next]_vars
  PROVE  ReadIsPerformed' /\ StaysFiltered
<1>t. TypeOK /\ LogTriggered \subseteq WorkID
  BY CoordinatorAssumption DEF IInv
<1>c. current # None => /\ current.event \in Event /\ current.event.workID \in WorkID
                        /\ current.event.type \in {"perform", "stale"}
  BY <1>t, CoordinatorAssumption DEF TypeOK, Current
<1> DEFINE Kept(w) == Live(cache'[w]) =>
                        /\ Live(cache[w])
                        /\ cache'[w].checkBlockNumber = cache[w].checkBlockNumber
                        /\ cache'[w].transmitType = cache[w].transmitType
<1>k. ASSUME \A w \in WorkID : Kept(w), UNCHANGED current
      PROVE  ReadIsPerformed' /\ StaysFiltered
  <2>1. StaysFiltered BY <1>k, <1>t, Filtered DEF StaysFiltered
  <2>2. ReadIsPerformed' BY <1>k, <1>c DEF ReadIsPerformed, Performed
  <2> QED BY <2>1, <2>2
<1>1. CASE Tick
  <2>1. ASSUME NEW w \in WorkID PROVE Kept(w)
    <3>1. cache[w] \in {None} \cup Item /\ cache'[w] = Older(cache[w])
      BY <1>1, <1>t DEF Tick, TypeOK
    <3> QED BY <3>1, OlderItem DEF Live
  <2> QED BY <2>1, <1>1, <1>k DEF Tick
<1>2. CASE ClearDelete
  <2>1. ASSUME NEW w \in WorkID PROVE Kept(w)
    BY <1>2 DEF ClearDelete, Live
  <2> QED BY <2>1, <1>2, <1>k DEF ClearDelete
<1>3. CASE AcceptSet
  <2>1. ocr.workID \in WorkID /\ ocr.checkBlock \in CheckBlock /\ current' = current
    BY <1>3, <1>t DEF AcceptSet, TypeOK, Report
  <2> DEFINE v == Record(ocr.checkBlock, TRUE, "none", 0)
  <2>2. v.isTransmissionPending /\ v.transmitType = "none"
    BY DEF Record
  <2> HIDE DEF v
  <2>3. cache'[ocr.workID] = v /\ \A w \in WorkID : w # ocr.workID => cache'[w] = cache[w]
    BY <1>3, <1>t, <2>1 DEF AcceptSet, TypeOK, v
  <2>4. StaysFiltered
    BY <1>t, <2>2, <2>3, Filtered DEF StaysFiltered
  <2>5. ReadIsPerformed'
    BY <1>c, <2>1, <2>2, <2>3 DEF ReadIsPerformed, Performed
  <2> QED BY <2>4, <2>5
<1>4. ASSUME NEW e \in events, EventGet(e) PROVE ReadIsPerformed' /\ StaysFiltered
  <2>1. cache' = cache /\ current = None
    BY <1>4 DEF EventGet
  <2>2. current' = None \/ /\ current'.event = e
                           /\ current'.read = cache[e.workID].checkBlockNumber
    BY <1>4 DEF EventGet
  <2>3. StaysFiltered
    BY <1>t, <2>1, Filtered DEF StaysFiltered
  <2>4. ReadIsPerformed'
    BY <2>1, <2>2 DEF ReadIsPerformed, Performed
  <2> QED BY <2>3, <2>4
<1>5. CASE EventSet
  <2>1. PICK e : e = current.event
    OBVIOUS
  <2>2. /\ e \in Event /\ e.workID \in WorkID /\ e.type \in {"perform", "stale"}
        /\ WasConfirmed(e) /\ current # None /\ current' = None
    BY <1>5, <1>c, <2>1 DEF EventSet, IInv, Justified
  <2> DEFINE v == Record(e.checkBlock, FALSE, e.type, e.transmitBlock)
  <2>3. v.transmitType = e.type
    BY DEF Record
  <2> HIDE DEF v
  <2>4. CASE cache' = cache
    <3>1. StaysFiltered
      BY <1>t, <2>4, Filtered DEF StaysFiltered
    <3> QED BY <2>2, <3>1 DEF ReadIsPerformed
  <2>5. CASE cache' # cache
    <3>1. e.checkBlock >= current.read /\ cache' = [cache EXCEPT ![e.workID] = v]
      BY <1>5, <2>1, <2>5 DEF EventSet, v
    <3>2. cache'[e.workID] = v /\ \A w \in WorkID : w # e.workID => cache'[w] = cache[w]
      BY <1>t, <2>2, <3>1 DEF TypeOK
    <3>3. ASSUME NEW w \in LogTriggered, Performed(w), Live(cache'[w])
          PROVE  \/ ~FilterProposals(w)' /\ \A b \in CheckBlock : ~ShouldProcess(w, b)'
                 \/ \E d \in Event : /\ d.workID = w /\ d.type = "stale"
                                     /\ chain[d] \in {"confirmed", "old"}
                                     /\ d.checkBlock >= cache[w].checkBlockNumber
      <4>1. CASE w # e.workID \/ e.type = "perform"
        BY <1>t, <2>3, <3>2, <3>3, <4>1, Filtered DEF Performed
      <4>2. CASE w = e.workID /\ e.type = "stale"
        BY <2>1, <2>2, <3>1, <3>3, <4>2 DEF ReadIsPerformed, WasConfirmed
      <4> QED BY <2>2, <4>1, <4>2
    <3>4. StaysFiltered
      BY <3>3 DEF StaysFiltered, Performed
    <3> QED BY <2>2, <3>4 DEF ReadIsPerformed
  <2> QED BY <2>4, <2>5
<1>6. CASE Restart
  <2>1. current' = None /\ \A w \in WorkID : ~Live(cache'[w])
    BY <1>6 DEF Restart, Live
  <2> QED BY <1>t, <2>1 DEF ReadIsPerformed, StaysFiltered
<1>7. CASE UNCHANGED <<cache, current>>
  BY <1>7, <1>k
<1>8. CASE \/ ClearScan \/ FetchEvents \/ (\E r \in Report : AcceptGet(r))
           \/ (\E e \in Event : ChainStep(e)) \/ UNCHANGED vars
  BY <1>7, <1>8 DEF ClearScan, FetchEvents, AcceptGet, ChainStep, vars
<1> QED BY <1>1, <1>2, <1>3, <1>4, <1>5, <1>6, <1>8 DEF Next

\* Once the perform event of a log is recorded, the log is filtered out while the
\* record lives, unless a stale event of the same or a later report is confirmed,
\* under every interleaving of the four goroutines.
THEOREM PerformedLogsAreFiltered == Spec => PerformedLogFiltered
<1>1. Init => IInv /\ ReadIsPerformed
  BY InitIInv DEF Init, ReadIsPerformed
<1>2. IInv /\ ReadIsPerformed /\ [Next]_vars => IInv' /\ ReadIsPerformed' /\ StaysFiltered
  BY NextIInv, NextFiltered
<1> QED BY <1>1, <1>2, PTL DEF Spec, PerformedLogFiltered, StaysFiltered

-----------------------------------------------------------------------------
(* The report coordinator of the OCR2 plugin.                              *)

\* A blocker's transmit block is above its check block.
Ahead(v) == v.CheckBlockNumber < v.TransmitBlockNumber

BlockType ==
  /\ idBlocks \in [UpkeepID -> {Nil} \cup IdBlock]
  /\ \A i \in UpkeepID : idBlocks[i] # Nil => Ahead(idBlocks[i].val)
  /\ update \in [Goroutine -> {Nil} \cup Call]
  /\ \A g \in Goroutine : update[g] # Nil => Ahead(update[g].val)
  /\ accepting \in Seq(Key)
  /\ locked \subseteq Key

\* An accepted key has a record of its check block or a higher one.
LockedBelow ==
  \A k \in locked : /\ LiveBlock(idBlocks[k.id])
                    /\ k.id \notin raced => k.block <= idBlocks[k.id].val.CheckBlockNumber

\* What updateIdBlock decided on the record it read is still right when it comes
\* to write, but for a lost update or an expired record.
StillUpdates ==
  \A g \in Goroutine : update[g] # Nil /\ update[g].read =>
    LET i == update[g].id
    IN i \notin raced /\ LiveBlock(idBlocks[i])
         => shouldUpdate(idBlocks[i].val, update[g].val)

BlockInv == BlockType /\ LockedBelow /\ StillUpdates

\* What every step other than those of updateIdBlock does: records age and go,
\* and a goroutine may begin an update.
Fades ==
  \A i \in UpkeepID : LiveBlock(idBlocks'[i]) =>
    LiveBlock(idBlocks[i]) /\ idBlocks'[i].val = idBlocks[i].val
Begins ==
  \A g \in Goroutine : update'[g] = update[g] \/ (update[g] = Nil /\ ~update'[g].read)

\* The body of IdBlocksMoveUp.
MovesUp ==
  \A i \in UpkeepID \ raced : LiveBlock(idBlocks[i]) /\ LiveBlock(idBlocks'[i]) =>
    \/ idBlocks'[i].val = idBlocks[i].val
    \/ idBlocks'[i].val.CheckBlockNumber > idBlocks[i].val.CheckBlockNumber
    \/ /\ idBlocks'[i].val.CheckBlockNumber = idBlocks[i].val.CheckBlockNumber
       /\ idBlocks'[i].val.TransmitBlockNumber # Indefinite
       /\ idBlocks[i].val.TransmitBlockNumber \in
            {Indefinite} \cup 0..idBlocks'[i].val.TransmitBlockNumber

-----------------------------------------------------------------------------
LEMMA BlockInit == CoordinatorInit => BlockInv
BY DEF CoordinatorInit, BlockInv, BlockType, LockedBelow, StillUpdates

\* The record of an upkeep that was raced stays raced while it lives.
LEMMA RacedStays ==
  ASSUME History
  PROVE  \A i \in UpkeepID : LiveBlock(idBlocks'[i]) /\ i \notin raced' => i \notin raced
BY DEF History

LEMMA QuietStep ==
  ASSUME BlockInv, History, BlockType', Fades, Begins
  PROVE  BlockInv' /\ MovesUp
<1>1. ~Ends("ocr")
  <2>1. "ocr" \in Goroutine
    BY DEF Goroutine
  <2> QED BY <2>1 DEF Ends, Begins
<1>2. LockedBelow'
  <2> SUFFICES ASSUME NEW k \in locked'
               PROVE  /\ LiveBlock(idBlocks'[k.id])
                      /\ k.id \notin raced' => k.block <= idBlocks'[k.id].val.CheckBlockNumber
    BY DEF LockedBelow
  <2>1. k \in Key /\ k.id \in UpkeepID /\ LiveBlock(idBlocks'[k.id]) /\ k \in locked
    BY <1>1 DEF History, Key
  <2> QED BY <2>1, RacedStays DEF Fades, BlockInv, LockedBelow
<1>3. StillUpdates'
  <2> SUFFICES ASSUME NEW g \in Goroutine, update'[g] # Nil, update'[g].read,
                      update'[g].id \notin raced', LiveBlock(idBlocks'[update'[g].id])
               PROVE  shouldUpdate(idBlocks'[update'[g].id].val, update'[g].val)
    BY DEF StillUpdates
  <2>1. update'[g] = update[g] /\ update[g].id \in UpkeepID
    BY DEF Begins, BlockInv, BlockType, Call
  <2>2. update[g].id \notin raced
    BY <2>1, RacedStays
  <2> QED BY <2>1, <2>2 DEF Fades, BlockInv, StillUpdates
<1>4. MovesUp
  BY DEF MovesUp, Fades
<1> QED BY <1>2, <1>3, <1>4 DEF BlockInv

-----------------------------------------------------------------------------
(* The steps of updateIdBlock.                                             *)

LEMMA UpdateGetStep ==
  ASSUME BlockInv, History, NEW g \in Goroutine, UpdateGet(g)
  PROVE  BlockInv' /\ MovesUp
<1> DEFINE c == update[g]
           r == idBlocks[c.id]
<1>1. c \in Call /\ c.id \in UpkeepID /\ c.val \in BlockerVal /\ Ahead(c.val) /\ ~c.read
  BY DEF BlockInv, BlockType, UpdateGet, Call
<1>2. idBlocks' = idBlocks /\ accepting' = accepting /\ locked' \subseteq Key
  BY DEF UpdateGet, History
<1>3. CASE LiveBlock(r) => shouldUpdate(r.val, c.val)
  <2>1. update' = [update EXCEPT ![g].read = TRUE]
    BY <1>3 DEF UpdateGet
  <2>2. PICK d \in Call : /\ update' = [update EXCEPT ![g] = d]
                          /\ d.id = c.id /\ d.val = c.val /\ d # Nil
    <3>1. [c EXCEPT !.read = TRUE] \in Call
      BY <1>1 DEF Call
    <3> QED BY <1>1, <2>1, <3>1, V2CoordinatorAssumption DEF Call
  <2>3. BlockType'
    BY <1>1, <1>2, <2>2 DEF BlockInv, BlockType
  <2>4. ~Ends("ocr")
    BY <2>2 DEF Ends, BlockInv, BlockType, Goroutine
  <2>5. LockedBelow'
    <3> SUFFICES ASSUME NEW k \in locked'
                 PROVE  /\ LiveBlock(idBlocks'[k.id])
                        /\ k.id \notin raced' => k.block <= idBlocks'[k.id].val.CheckBlockNumber
      BY DEF LockedBelow
    <3>1. k \in Key /\ k.id \in UpkeepID /\ LiveBlock(idBlocks'[k.id]) /\ k \in locked
      BY <2>4 DEF History, Key
    <3> QED BY <1>2, <3>1, RacedStays DEF BlockInv, LockedBelow
  <2>6. StillUpdates'
    <3> SUFFICES ASSUME NEW h \in Goroutine, update'[h] # Nil, update'[h].read,
                        update'[h].id \notin raced', LiveBlock(idBlocks'[update'[h].id])
                 PROVE  shouldUpdate(idBlocks'[update'[h].id].val, update'[h].val)
      BY DEF StillUpdates
    <3>1. CASE h = g
      BY <1>1, <1>2, <1>3, <2>2, <3>1 DEF BlockInv, BlockType
    <3>2. CASE h # g
      <4>1. update'[h] = update[h] /\ update[h].id \in UpkeepID
        BY <2>2, <3>2 DEF BlockInv, BlockType, Call
      <4> QED BY <1>2, <4>1, RacedStays DEF BlockInv, StillUpdates
    <3> QED BY <3>1, <3>2
  <2>7. MovesUp
    BY <1>2 DEF MovesUp
  <2> QED BY <2>3, <2>5, <2>6, <2>7 DEF BlockInv
<1>4. CASE ~(LiveBlock(r) => shouldUpdate(r.val, c.val))
  <2>1. update' = [update EXCEPT ![g] = Nil]
    BY <1>4 DEF UpdateGet
  <2>2. BlockType'
    BY <1>2, <2>1 DEF BlockInv, BlockType
  <2>3. LockedBelow'
    <3> SUFFICES ASSUME NEW k \in locked'
                 PROVE  /\ LiveBlock(idBlocks'[k.id])
                        /\ k.id \notin raced' => k.block <= idBlocks'[k.id].val.CheckBlockNumber
      BY DEF LockedBelow
    <3>1. k \in Key /\ k.id \in UpkeepID /\ k.block \in Nat /\ LiveBlock(idBlocks'[k.id])
      BY V2CoordinatorAssumption DEF History, Key
    <3>2. CASE k \in locked
      BY <1>2, <3>1, <3>2, RacedStays DEF BlockInv, LockedBelow
    <3>3. CASE k \notin locked
      <4>1. Ends("ocr") /\ update["ocr"].id = k.id /\ update["ocr"].val.CheckBlockNumber = k.block
        BY <3>3 DEF History
      <4>2. g = "ocr"
        BY <2>1, <4>1 DEF Ends, BlockInv, BlockType, Goroutine
      <4>3. ~(c.val.CheckBlockNumber > r.val.CheckBlockNumber)
        BY <1>4 DEF shouldUpdate
      <4>4. r \in IdBlock /\ r.val.CheckBlockNumber \in Nat
        BY <1>1, <1>4, V2CoordinatorAssumption
        DEF LiveBlock, BlockInv, BlockType, IdBlock, BlockerVal
      <4> QED BY <1>2, <3>1, <4>1, <4>2, <4>3, <4>4
    <3> QED BY <3>2, <3>3
  <2>4. StillUpdates'
    <3> SUFFICES ASSUME NEW h \in Goroutine, update'[h] # Nil, update'[h].read,
                        update'[h].id \notin raced', LiveBlock(idBlocks'[update'[h].id])
                 PROVE  shouldUpdate(idBlocks'[update'[h].id].val, update'[h].val)
      BY DEF StillUpdates
    <3>1. update'[h] = update[h] /\ update[h].id \in UpkeepID
      BY <2>1 DEF BlockInv, BlockType, Call
    <3> QED BY <1>2, <3>1, RacedStays DEF BlockInv, StillUpdates
  <2>5. MovesUp
    BY <1>2 DEF MovesUp
  <2> QED BY <2>2, <2>3, <2>4, <2>5 DEF BlockInv
<1> QED BY <1>3, <1>4

\* What shouldUpdate lets through is above the record it replaces.
LEMMA UpdateIsUp ==
  ASSUME NEW b \in BlockerVal, NEW v \in BlockerVal, shouldUpdate(b, v), v # b
  PROVE  \/ v.CheckBlockNumber > b.CheckBlockNumber
         \/ /\ v.CheckBlockNumber = b.CheckBlockNumber
            /\ v.TransmitBlockNumber # Indefinite
            /\ b.TransmitBlockNumber \in {Indefinite} \cup 0..v.TransmitBlockNumber
<1>1. b.TransmitBlockNumber \in Nat /\ v.TransmitBlockNumber \in Nat
  BY DEF BlockerVal
<1>2. v.CheckBlockNumber = b.CheckBlockNumber
        => v.TransmitBlockNumber # b.TransmitBlockNumber
  BY DEF BlockerVal
<1> QED BY <1>1, <1>2 DEF shouldUpdate

LEMMA UpdateSetStep ==
  ASSUME BlockInv, History, NEW g \in Goroutine, UpdateSet(g)
  PROVE  BlockInv' /\ MovesUp
<1> DEFINE c == update[g]
           r == idBlocks[c.id]
<1>1. c \in Call /\ c.id \in UpkeepID /\ c.val \in BlockerVal /\ Ahead(c.val) /\ c.read
  BY DEF BlockInv, BlockType, UpdateSet, Call
<1>2. PICK d \in IdBlock : /\ idBlocks' = [idBlocks EXCEPT ![c.id] = d]
                           /\ d.val = c.val /\ d.age = 0 /\ d # Nil
  <2>1. [val |-> c.val, age |-> 0] \in IdBlock
    BY <1>1, V2CoordinatorAssumption DEF IdBlock
  <2> QED BY <2>1, V2CoordinatorAssumption DEF UpdateSet
<1>3. update' = [update EXCEPT ![g] = Nil] /\ accepting' = accepting /\ locked' \subseteq Key
  BY DEF UpdateSet, History
<1>4. idBlocks'[c.id] = d /\ LiveBlock(d)
  BY <1>1, <1>2, V2CoordinatorAssumption DEF LiveBlock, BlockInv, BlockType
<1>5. BlockType'
  BY <1>1, <1>2, <1>3 DEF BlockInv, BlockType
<1>6. c.id \notin raced /\ LiveBlock(r) => shouldUpdate(r.val, c.val)
  BY <1>1 DEF BlockInv, StillUpdates, UpdateSet
<1>7. c.val.CheckBlockNumber \in Nat /\ c.val.TransmitBlockNumber \in Nat
  BY <1>1, V2CoordinatorAssumption DEF BlockerVal
<1>8. LiveBlock(r) => /\ r.val \in BlockerVal
                      /\ r.val.CheckBlockNumber \in Nat /\ r.val.TransmitBlockNumber \in Nat
  BY <1>1, V2CoordinatorAssumption DEF LiveBlock, BlockInv, BlockType, IdBlock, BlockerVal
<1>9. LockedBelow'
  <2> SUFFICES ASSUME NEW k \in locked'
               PROVE  /\ LiveBlock(idBlocks'[k.id])
                      /\ k.id \notin raced' => k.block <= idBlocks'[k.id].val.CheckBlockNumber
    BY DEF LockedBelow
  <2>1. k \in Key /\ k.id \in UpkeepID /\ k.block \in Nat /\ LiveBlock(idBlocks'[k.id])
    BY V2CoordinatorAssumption DEF History, Key
  <2>2. CASE k \in locked /\ k.id = c.id
    <3>1. LiveBlock(r) /\ (k.id \notin raced => k.block <= r.val.CheckBlockNumber)
      BY <2>2 DEF BlockInv, LockedBelow
    <3>2. c.id \notin raced => shouldUpdate(r.val, c.val)
      BY <1>6, <2>2, <3>1
    <3>3. shouldUpdate(r.val, c.val) => r.val.CheckBlockNumber <= c.val.CheckBlockNumber
      BY <1>7, <1>8, <3>1 DEF shouldUpdate
    <3>4. k.id \notin raced' => k.id \notin raced
      BY <2>1, RacedStays
    <3>5. k.id \notin raced => k.block <= c.val.CheckBlockNumber
      BY <1>7, <1>8, <2>1, <2>2, <3>1, <3>2, <3>3
    <3> QED BY <1>2, <1>4, <2>1, <2>2, <3>4, <3>5
  <2>3. CASE k \in locked /\ k.id # c.id
    <3>1. idBlocks'[k.id] = idBlocks[k.id]
      BY <1>1, <1>2, <2>1, <2>3 DEF BlockInv, BlockType
    <3> QED BY <2>1, <2>3, <3>1, RacedStays DEF BlockInv, LockedBelow
  <2>4. CASE k \notin locked
    <3>1. Ends("ocr") /\ update["ocr"].id = k.id /\ update["ocr"].val.CheckBlockNumber = k.block
      BY <2>4 DEF History
    <3>2. g = "ocr"
      BY <1>3, <3>1 DEF Ends, BlockInv, BlockType, Goroutine
    <3> QED BY <1>2, <1>4, <2>1, <3>1, <3>2
  <2> QED BY <2>2, <2>3, <2>4
<1>10. StillUpdates'
  <2> SUFFICES ASSUME NEW h \in Goroutine, update'[h] # Nil, update'[h].read,
                      update'[h].id \notin raced', LiveBlock(idBlocks'[update'[h].id])
               PROVE  shouldUpdate(idBlocks'[update'[h].id].val, update'[h].val)
    BY DEF StillUpdates
  <2>1. h # g /\ update'[h] = update[h] /\ update[h].id \in UpkeepID
    BY <1>3 DEF BlockInv, BlockType, Call
  <2>2. CASE update[h].id = c.id
    <3>1. Ends(g)
      BY <1>1, <1>3, V2CoordinatorAssumption DEF Ends, BlockInv, BlockType
    <3>2. Overtakes(g, h)
      BY <1>1, <2>1, <2>2, <3>1 DEF Overtakes
    <3>3. c.id \in raced'
      BY <1>1, <1>4, <3>2 DEF History
    <3> QED BY <2>1, <2>2, <3>3
  <2>3. CASE update[h].id # c.id
    <3>1. idBlocks'[update[h].id] = idBlocks[update[h].id]
      BY <1>1, <1>2, <2>1, <2>3 DEF BlockInv, BlockType
    <3> QED BY <2>1, <3>1, RacedStays DEF BlockInv, StillUpdates
  <2> QED BY <2>2, <2>3
<1>11. MovesUp
  <2> SUFFICES ASSUME NEW i \in UpkeepID \ raced,
                      LiveBlock(idBlocks[i]), LiveBlock(idBlocks'[i]),
                      idBlocks'[i].val # idBlocks[i].val
               PROVE  \/ idBlocks'[i].val.CheckBlockNumber > idBlocks[i].val.CheckBlockNumber
                      \/ /\ idBlocks'[i].val.CheckBlockNumber = idBlocks[i].val.CheckBlockNumber
                         /\ idBlocks'[i].val.TransmitBlockNumber # Indefinite
                         /\ idBlocks[i].val.TransmitBlockNumber \in
                              {Indefinite} \cup 0..idBlocks'[i].val.TransmitBlockNumber
    BY DEF MovesUp
  <2>1. i = c.id
    BY <1>1, <1>2 DEF BlockInv, BlockType
  <2>2. idBlocks'[i].val = c.val /\ shouldUpdate(r.val, c.val)
    BY <1>2, <1>4, <1>6, <2>1
  <2> QED BY <1>1, <1>8, <2>1, <2>2, UpdateIsUp
<1> QED BY <1>5, <1>9, <1>10, <1>11 DEF BlockInv

-----------------------------------------------------------------------------
(* The other steps.                                                        *)

\* Ageing a record changes nothing but its age, and brings none back to life.
LEMMA OlderBlock ==
  ASSUME NEW r \in {Nil} \cup IdBlock
  PROVE  LET o == Aged(r, LockoutWindow)
         IN  /\ o \in {Nil} \cup IdBlock
             /\ o # Nil => r # Nil /\ o.val = r.val
             /\ LiveBlock(o) => LiveBlock(r)
<1> DEFINE o == Aged(r, LockoutWindow)
<1>1. CASE r = Nil \/ r.age > LockoutWindow
  BY <1>1 DEF Aged
<1>2. CASE ~(r = Nil \/ r.age > LockoutWindow)
  <2>1. r \in IdBlock /\ r.age \in 0..LockoutWindow /\ r.age + 1 \in 0..(LockoutWindow + 1)
    BY <1>2, V2CoordinatorAssumption DEF IdBlock
  <2>2. o = [r EXCEPT !.age = r.age + 1]
    BY <1>2 DEF Aged
  <2>3. o \in IdBlock /\ o.val = r.val
    BY <2>1, <2>2 DEF IdBlock
  <2>4. LiveBlock(r)
    BY <1>2, <2>1, V2CoordinatorAssumption DEF LiveBlock
  <2> QED BY <1>2, <2>3, <2>4
<1> QED BY <1>1, <1>2

\* What a goroutine begins an update with.
LEMMA BeginsUpdate ==
  ASSUME BlockInv, NEW g \in Goroutine, update[g] = Nil, NEW id \in UpkeepID,
         NEW v \in BlockerVal, Ahead(v), Updating(g, id, v)
  PROVE  /\ update' \in [Goroutine -> {Nil} \cup Call]
         /\ \A h \in Goroutine : update'[h] # Nil => Ahead(update'[h].val)
         /\ Begins
<1>1. PICK c \in Call : update' = [update EXCEPT ![g] = c] /\ c.val = v /\ ~c.read
  <2>1. [id |-> id, val |-> v, read |-> FALSE] \in Call
    BY DEF Call
  <2> QED BY <2>1 DEF Updating
<1> QED BY <1>1 DEF BlockInv, BlockType, Begins

\* A step that leaves the updates alone.
LEMMA NoUpdate ==
  ASSUME BlockInv, UNCHANGED update
  PROVE  /\ update' \in [Goroutine -> {Nil} \cup Call]
         /\ \A h \in Goroutine : update'[h] # Nil => Ahead(update'[h].val)
         /\ Begins
BY DEF BlockInv, BlockType, Begins

LEMMA NoFade ==
  ASSUME UNCHANGED idBlocks
  PROVE  Fades
BY DEF Fades

LEMMA AcceptBlocker ==
  ASSUME NEW k \in Key
  PROVE  LET v == Blocker(k.block, Indefinite)
         IN  k.id \in UpkeepID /\ v \in BlockerVal /\ Ahead(v)
<1>1. /\ k.id \in UpkeepID /\ k.block \in KeyBlock /\ k.block \in Nat
      /\ Indefinite \in Nat /\ k.block + 1 < Indefinite
  BY V2CoordinatorAssumption DEF Key
<1> QED BY <1>1 DEF Blocker, BlockerVal, Ahead

LEMMA AcceptStep ==
  ASSUME BlockInv, History, ShouldAcceptFinalizedReport
  PROVE  BlockInv' /\ MovesUp
<1>1. PICK r \in IF accepting = <<>> THEN FinalReport ELSE {accepting} :
         Accept(Head(r)) /\ accepting' = Tail(r)
  BY DEF ShouldAcceptFinalizedReport
<1>2. r \in Seq(Key) /\ r # <<>>
  BY V2CoordinatorAssumption DEF BlockInv, BlockType
<1>3. Head(r) \in Key /\ Tail(r) \in Seq(Key)
  BY <1>2
<1> DEFINE k == Head(r)
           v == Blocker(k.block, Indefinite)
<1>4. k.id \in UpkeepID /\ v \in BlockerVal /\ Ahead(v)
  BY <1>3, AcceptBlocker
<1>5. update["ocr"] = Nil /\ "ocr" \in Goroutine
      /\ idBlocks' = idBlocks /\ locked' \subseteq Key
  BY DEF ShouldAcceptFinalizedReport, Goroutine, History
<1>6. UNCHANGED update \/ Updating("ocr", k.id, v)
  BY <1>1 DEF Accept
<1> HIDE DEF k, v
<1>7. /\ update' \in [Goroutine -> {Nil} \cup Call]
      /\ \A h \in Goroutine : update'[h] # Nil => Ahead(update'[h].val)
      /\ Begins
  BY <1>4, <1>5, <1>6, NoUpdate, BeginsUpdate
<1>8. BlockType'
  BY <1>1, <1>3, <1>5, <1>7 DEF BlockInv, BlockType
<1> QED BY <1>5, <1>7, <1>8, NoFade, QuietStep

LEMMA checkLogStep ==
  ASSUME BlockInv, History, NEW l \in Log, checkLog(l)
  PROVE  BlockInv' /\ MovesUp
<1> DEFINE k == l.key
           v == blockerOf(l)
<1>1. /\ k.id \in UpkeepID /\ k.block \in Nat /\ k.block \in KeyBlock
      /\ l.transmitBlock \in Nat /\ k.block < l.transmitBlock
  BY V2CoordinatorAssumption DEF Key
<1>2. v \in BlockerVal /\ Ahead(v)
  BY <1>1 DEF blockerOf, Blocker, BlockerVal, Ahead
<1>3. /\ update["poll"] = Nil /\ "poll" \in Goroutine
      /\ idBlocks' = idBlocks /\ accepting' = accepting /\ locked' \subseteq Key
  BY DEF checkLog, Goroutine, History
<1>4. UNCHANGED update \/ Updating("poll", k.id, v)
  BY DEF checkLog
<1> HIDE DEF k, v
<1>5. /\ update' \in [Goroutine -> {Nil} \cup Call]
      /\ \A h \in Goroutine : update'[h] # Nil => Ahead(update'[h].val)
      /\ Begins
  BY <1>1, <1>2, <1>3, <1>4, NoUpdate, BeginsUpdate
<1>6. BlockType'
  BY <1>3, <1>5 DEF BlockInv, BlockType
<1> QED BY <1>3, <1>5, <1>6, NoFade, QuietStep

LEMMA TimeStep ==
  ASSUME BlockInv, History, TimePasses
  PROVE  BlockInv' /\ MovesUp
<1>1. /\ UNCHANGED <<accepting, update>> /\ locked' \subseteq Key
      /\ idBlocks' = [i \in UpkeepID |-> Aged(idBlocks[i], LockoutWindow)]
  BY DEF TimePasses, History
<1>2. \A i \in UpkeepID : LET o == idBlocks'[i]
                          IN  /\ o \in {Nil} \cup IdBlock
                              /\ o # Nil => idBlocks[i] # Nil /\ o.val = idBlocks[i].val
                              /\ LiveBlock(o) => LiveBlock(idBlocks[i])
  BY <1>1, OlderBlock DEF BlockInv, BlockType
<1>3. BlockType'
  BY <1>1, <1>2 DEF BlockInv, BlockType
<1>4. Fades
  BY <1>2 DEF Fades, LiveBlock
<1> QED BY <1>1, <1>3, <1>4, NoUpdate, QuietStep

LEMMA ClearStep ==
  ASSUME BlockInv, History, ClearExpiredDelete
  PROVE  BlockInv' /\ MovesUp
<1>1. UNCHANGED <<accepting, update>> /\ locked' \subseteq Key
  BY DEF ClearExpiredDelete, History
<1>2. \/ UNCHANGED idBlocks
      \/ idBlocks' = [i \in UpkeepID |-> IF i \in collected.ids THEN Nil ELSE idBlocks[i]]
  BY DEF ClearExpiredDelete
<1>3. BlockType'
  BY <1>1, <1>2 DEF BlockInv, BlockType
<1>4. Fades
  BY <1>2 DEF Fades, LiveBlock
<1> QED BY <1>1, <1>3, <1>4, NoUpdate, QuietStep

LEMMA BlockNext ==
  ASSUME BlockInv, [CoordinatorNext]_coordinatorVars
  PROVE  BlockInv' /\ MovesUp
<1>1. CASE CoordinatorNext
  <2>1. History /\ CoordinatorStep /\ locked' \subseteq Key
    BY <1>1 DEF CoordinatorNext, History
  <2>2. CASE UNCHANGED <<idBlocks, accepting, update>>
    BY <2>1, <2>2, NoFade, NoUpdate, QuietStep DEF BlockInv, BlockType
  <2>3. CASE \/ PerformLogs \/ StaleReportLogs \/ ClearExpiredScan
             \/ \E l \in Log : RegistryStep(l)
    BY <2>2, <2>3 DEF PerformLogs, StaleReportLogs, ClearExpiredScan, RegistryStep
  <2> QED
    BY <2>1, <2>3, AcceptStep, UpdateGetStep, UpdateSetStep, checkLogStep, TimeStep, ClearStep
    DEF CoordinatorStep
<1>2. CASE UNCHANGED coordinatorVars
  BY <1>2 DEF coordinatorVars, BlockInv, BlockType, LockedBelow, StillUpdates, MovesUp
<1> QED BY <1>1, <1>2

\* A key that Accept took is filtered by IsPending as long as the record of its
\* upkeep lives and no update of it was lost.
THEOREM AlwaysAcceptedIsPending ==
  CoordinatorSpec => []AcceptedIsPending
<1>1. BlockInv => AcceptedIsPending
  <2> SUFFICES ASSUME BlockInv, NEW k \in locked, k.id \notin raced PROVE IsPending(k)
    BY DEF AcceptedIsPending
  <2> DEFINE r == idBlocks[k.id]
  <2>1. LiveBlock(r) /\ k.block <= r.val.CheckBlockNumber
    BY DEF BlockInv, LockedBelow
  <2>2. k.id \in UpkeepID /\ k.block \in Nat
    BY V2CoordinatorAssumption DEF BlockInv, BlockType, Key
  <2>3. /\ r.val.CheckBlockNumber \in Nat /\ r.val.TransmitBlockNumber \in Nat
        /\ r.val.CheckBlockNumber < r.val.TransmitBlockNumber
    BY <2>1, <2>2, V2CoordinatorAssumption
    DEF BlockInv, BlockType, Ahead, LiveBlock, IdBlock, BlockerVal
  <2> QED BY <2>1, <2>2, <2>3 DEF IsPending
<1> QED BY <1>1, BlockInit, BlockNext, PTL
   DEF CoordinatorSpec, coordinatorVars, coordinatorVars

\* updateIdBlock only moves the record of an upkeep up, as shouldUpdate orders
\* them, unless an update of it was lost.
THEOREM AlwaysMoveUp ==
  CoordinatorSpec => IdBlocksMoveUp
<1>1. BlockInv /\ [CoordinatorNext]_coordinatorVars => [MovesUp]_coordinatorVars
  BY BlockNext
<1> QED BY <1>1, BlockInit, BlockNext, PTL
   DEF CoordinatorSpec, coordinatorVars, coordinatorVars, IdBlocksMoveUp, MovesUp
=============================================================================
