---------------------------- MODULE V2Coordinator ----------------------------
(***************************************************************************)
(* The report coordinator of the OCR2 plugin                               *)
(* (pkg/v2/coordinator/coordinator.go) with the two handlers of            *)
(* pkg/v2/ocr.go that drive it, ShouldAcceptFinalizedReport and            *)
(* ShouldTransmitAcceptedReport.  Two goroutines write its caches: the one *)
(* libocr calls the plugin on, and the poll of the perform and stale       *)
(* report logs, once a second; the collectors of the two caches delete.    *)
(*                                                                         *)
(* updateIdBlock reads the record of an upkeep and writes it under two     *)
(* separate locks, so either goroutine can write between the two halves of *)
(* the other's update.  activeKeys is read and written in one step: a key  *)
(* that is there is written by the poll alone, one that is not by Accept.  *)
(***************************************************************************)
EXTENDS Integers, Sequences, FiniteSets

CONSTANTS
  UpkeepID,
  KeyBlock,       \* block keys of reports
  Indefinite,     \* IndefiniteBlockingKey, above every block
  FinalReport,    \* finalized reports: sequences of keys
  Log,            \* logs of the registry: type, key, transmitBlock
  LockoutWindow,  \* time to live of an id's record
  ActiveWindow,   \* time to live of an active key, one hour
  Nil

Key == [block : KeyBlock, id : UpkeepID]
Goroutine == {"ocr", "poll"}
BlockerVal == [CheckBlockNumber : KeyBlock, TransmitBlockNumber : Nat]
IdBlock == [val : BlockerVal, age : 0..(LockoutWindow + 1)]
Call == [id : UpkeepID, val : BlockerVal, read : BOOLEAN]

ASSUME V2CoordinatorAssumption ==
  /\ KeyBlock \subseteq Nat /\ Indefinite \in Nat
  /\ \A b \in KeyBlock : b + 1 < Indefinite
  /\ \A r \in FinalReport : r \in Seq(Key) /\ r # <<>>
  /\ \A l \in Log : /\ l.type \in {"perform", "stale"} /\ l.key \in Key
                    /\ l.transmitBlock \in Nat /\ l.key.block < l.transmitBlock
                    /\ l.transmitBlock < Indefinite
  /\ LockoutWindow \in Nat /\ ActiveWindow \in Nat
  /\ Nil \notin IdBlock \cup Call

VARIABLES
  idBlocks,    \* per upkeep: Nil, or its blocker and the age of the record
  activeKeys,  \* per key: Nil, or whether it is confirmed and the age of that
  accepting,   \* keys ShouldAcceptFinalizedReport has still to accept
  poll,        \* checkLogs: the loop it is in and the logs still to look at
  update,      \* per goroutine: Nil, or the updateIdBlock call it is in
  collected,   \* what the collectors have found expired in each cache
  logged,      \* logs the provider returns with minConfs confirmations or more
  locked,      \* history: keys accepted since the record of their upkeep is there
  raced        \* history: upkeeps for which one update was written inside another

coordinatorVars ==
  <<idBlocks, activeKeys, accepting, poll, update, collected, logged, locked, raced>>

CoordinatorInit ==
  /\ idBlocks = [i \in UpkeepID |-> Nil]
  /\ activeKeys = [k \in Key |-> Nil]
  /\ accepting = <<>>
  /\ poll = [loop |-> "stale", logs |-> {}]
  /\ update = [g \in Goroutine |-> Nil]
  /\ collected = [ids |-> {}, keys |-> {}]
  /\ logged = {}
  /\ locked = {}
  /\ raced = {}

-----------------------------------------------------------------------------
(* The records and what is read from them.                                 *)

LiveBlock(r) == r # Nil /\ r.age <= LockoutWindow
LiveKey(r) == r # Nil /\ r.age <= ActiveWindow

\* IsPending: an upkeep with a record is filtered up to its transmit block.
IsPending(k) ==
  LiveBlock(idBlocks[k.id]) /\ k.block <= idBlocks[k.id].val.TransmitBlockNumber

\* A key nobody knows counts as confirmed.
IsTransmissionConfirmed(k) ==
  ~LiveKey(activeKeys[k]) \/ activeKeys[k].confirmed

\* A report is transmitted as a whole while one of its keys is not confirmed.
ShouldTransmitAcceptedReport(r) ==
  \E n \in 1..Len(r) : ~IsTransmissionConfirmed(r[n])

\* Mutant: the indefinite block is compared like any other.
shouldUpdateByNumber(b, val) ==
  \/ val.CheckBlockNumber > b.CheckBlockNumber
  \/ /\ val.CheckBlockNumber = b.CheckBlockNumber
     /\ val.TransmitBlockNumber > b.TransmitBlockNumber

\* Mutant: the check block of the record is not looked at.
shouldUpdateAnyCheck(b, val) ==
  b.TransmitBlockNumber = Indefinite \/ val.TransmitBlockNumber > b.TransmitBlockNumber

\* A higher check block wins; on the same one the indefinite block is the lowest
\* transmit block.
shouldUpdate(b, val) ==
  \/ val.CheckBlockNumber > b.CheckBlockNumber
  \/ /\ val.CheckBlockNumber = b.CheckBlockNumber
     /\ \/ b.TransmitBlockNumber = Indefinite
        \/ /\ val.TransmitBlockNumber # Indefinite
           /\ val.TransmitBlockNumber > b.TransmitBlockNumber

-----------------------------------------------------------------------------
(* updateIdBlock, called by both goroutines.                               *)

Blocker(check, transmit) ==
  [CheckBlockNumber |-> check, TransmitBlockNumber |-> transmit]

\* The call begins in the step that decides on it.
Updating(g, id, val) ==
  update' = [update EXCEPT ![g] = [id |-> id, val |-> val, read |-> FALSE]]

UpdateGet(g) ==
  /\ update[g] # Nil /\ ~update[g].read
  /\ LET r == idBlocks[update[g].id]
     IN update' = IF LiveBlock(r) => shouldUpdate(r.val, update[g].val)
                  THEN [update EXCEPT ![g].read = TRUE]
                  ELSE [update EXCEPT ![g] = Nil]
  /\ UNCHANGED <<idBlocks, activeKeys, accepting, poll, collected, logged>>

UpdateSet(g) ==
  /\ update[g] # Nil /\ update[g].read
  /\ idBlocks' = [idBlocks EXCEPT ![update[g].id] = [val |-> update[g].val, age |-> 0]]
  /\ update' = [update EXCEPT ![g] = Nil]
  /\ UNCHANGED <<activeKeys, accepting, poll, collected, logged>>

-----------------------------------------------------------------------------
(* The plugin.                                                             *)

\* Mutant: an active key is accepted again.
AcceptAgain(k) ==
  /\ activeKeys' = [activeKeys EXCEPT ![k] = [confirmed |-> FALSE, age |-> 0]]
  /\ Updating("ocr", k.id, Blocker(k.block, Indefinite))

\* Accept leaves a key that is already active alone.
Accept(k) ==
  IF LiveKey(activeKeys[k])
  THEN UNCHANGED <<activeKeys, update>>
  ELSE /\ activeKeys' = [activeKeys EXCEPT ![k] = [confirmed |-> FALSE, age |-> 0]]
       /\ Updating("ocr", k.id, Blocker(k.block, Indefinite))

\* The loop over the keys of a report, from the call of the handler on.
ShouldAcceptFinalizedReport ==
  /\ update["ocr"] = Nil
  /\ \E r \in IF accepting = <<>> THEN FinalReport ELSE {accepting} :
       Accept(Head(r)) /\ accepting' = Tail(r)
  /\ UNCHANGED <<idBlocks, poll, collected, logged>>

-----------------------------------------------------------------------------
(* checkLogs.                                                              *)

\* Logs of a type, less those the loop skips for their few confirmations.
Confirmed(type) == {l \in logged : l.type = type}

\* A call of checkLogs.  If the provider fails for the perform logs it returns,
\* which changes nothing.
PerformLogs ==
  /\ poll = [loop |-> "stale", logs |-> {}] /\ update["poll"] = Nil
  /\ poll' = [loop |-> "perform", logs |-> Confirmed("perform")]
  /\ UNCHANGED <<idBlocks, activeKeys, accepting, update, collected, logged>>

\* If the provider fails for the stale report logs, their loop has nothing to do.
StaleReportLogs ==
  /\ poll = [loop |-> "perform", logs |-> {}] /\ update["poll"] = Nil
  /\ \E logs \in {Confirmed("stale"), {}} : poll' = [loop |-> "stale", logs |-> logs]
  /\ UNCHANGED <<idBlocks, activeKeys, accepting, update, collected, logged>>

\* The transmit block of a stale report is taken to be the next one.
blockerOf(l) ==
  Blocker(l.key.block, IF l.type = "perform" THEN l.transmitBlock ELSE l.key.block + 1)

\* One turn of either loop: the log confirms an active key; for a confirmed one
\* it can only move the transmit block of the same check block.
checkLog(l) ==
  /\ l \in poll.logs /\ update["poll"] = Nil
  /\ poll' = [poll EXCEPT !.logs = @ \ {l}]
  /\ LET k == l.key
         r == idBlocks[k.id]
     IN \/ /\ LiveKey(activeKeys[k]) /\ ~activeKeys[k].confirmed
           /\ activeKeys' = [activeKeys EXCEPT ![k] = [confirmed |-> TRUE, age |-> 0]]
           /\ Updating("poll", k.id, blockerOf(l))
        \/ /\ LiveKey(activeKeys[k]) /\ activeKeys[k].confirmed
           /\ IF LiveBlock(r) /\ r.val.CheckBlockNumber = k.block /\ r.val # blockerOf(l)
              THEN Updating("poll", k.id, blockerOf(l))
              ELSE UNCHANGED update
           /\ UNCHANGED activeKeys
        \/ ~LiveKey(activeKeys[k]) /\ UNCHANGED <<activeKeys, update>>
  /\ UNCHANGED <<idBlocks, accepting, collected, logged>>

-----------------------------------------------------------------------------
(* The caches, the chain and the process.                                  *)

\* An expired record has its last age, window + 1.
Aged(r, window) ==
  IF r = Nil \/ r.age > window THEN r ELSE [r EXCEPT !.age = @ + 1]

TimePasses ==
  /\ idBlocks' = [i \in UpkeepID |-> Aged(idBlocks[i], LockoutWindow)]
  /\ activeKeys' = [k \in Key |-> Aged(activeKeys[k], ActiveWindow)]
  /\ UNCHANGED <<accepting, poll, update, collected, logged>>

\* ClearExpired, under the read lock ...
ClearExpiredScan ==
  /\ \/ /\ collected.ids = {}
        /\ collected' = [collected EXCEPT !.ids =
             {i \in UpkeepID : idBlocks[i] # Nil /\ ~LiveBlock(idBlocks[i])}]
     \/ /\ collected.keys = {}
        /\ collected' = [collected EXCEPT !.keys =
             {k \in Key : activeKeys[k] # Nil /\ ~LiveKey(activeKeys[k])}]
  /\ UNCHANGED <<idBlocks, activeKeys, accepting, poll, update, logged>>

\* ... and under the write lock, whatever was stored under the key since.
ClearExpiredDelete ==
  /\ collected.ids # {} \/ collected.keys # {}
  /\ \/ /\ idBlocks' = [i \in UpkeepID |-> IF i \in collected.ids THEN Nil ELSE idBlocks[i]]
        /\ collected' = [collected EXCEPT !.ids = {}]
        /\ UNCHANGED activeKeys
     \/ /\ activeKeys' = [k \in Key |-> IF k \in collected.keys THEN Nil ELSE activeKeys[k]]
        /\ collected' = [collected EXCEPT !.keys = {}]
        /\ UNCHANGED idBlocks
  /\ UNCHANGED <<accepting, poll, update, logged>>

\* A log gains its confirmations, or is reorged away or leaves the lookback.
RegistryStep(l) ==
  /\ logged' = IF l \in logged THEN logged \ {l} ELSE logged \cup {l}
  /\ UNCHANGED <<idBlocks, activeKeys, accepting, poll, update, collected>>

CoordinatorStep ==
  \/ ShouldAcceptFinalizedReport
  \/ \E g \in Goroutine : UpdateGet(g) \/ UpdateSet(g)
  \/ PerformLogs \/ StaleReportLogs
  \/ \E l \in Log : checkLog(l)
  \/ TimePasses
  \/ ClearExpiredScan \/ ClearExpiredDelete
  \/ \E l \in Log : RegistryStep(l)

\* The history of the records that live: Accept has ended its update, whether it
\* wrote or found a record it leaves alone; or one goroutine has written while the
\* other is between its read and its write.
Ends(g) == update[g] # Nil /\ update'[g] = Nil
Overtakes(g, h) ==
  Ends(g) /\ update[g].read /\ h # g /\ update[h] # Nil /\ update[h].read
    /\ update[h].id = update[g].id
History ==
  /\ locked' = {k \in Key : /\ LiveBlock(idBlocks'[k.id])
                            /\ \/ k \in locked
                               \/ /\ Ends("ocr") /\ update["ocr"].id = k.id
                                  /\ update["ocr"].val.CheckBlockNumber = k.block}
  /\ raced' = {i \in UpkeepID : /\ LiveBlock(idBlocks'[i])
                                /\ \/ i \in raced
                                   \/ \E g, h \in Goroutine : Overtakes(g, h) /\ update[g].id = i}

CoordinatorNext == CoordinatorStep /\ History

CoordinatorSpec == CoordinatorInit /\ [][CoordinatorNext]_coordinatorVars

\* Time passes and a goroutine inside updateIdBlock gets to run.
CoordinatorFairness ==
  /\ WF_coordinatorVars(TimePasses /\ History)
  /\ \A g \in Goroutine : WF_coordinatorVars((UpdateGet(g) \/ UpdateSet(g)) /\ History)

-----------------------------------------------------------------------------
(* Properties.                                                             *)

\* "idBlock should only be updated if checkBlockNumber is set higher or
\* checkBlockNumber is the same and transmitBlockNumber is higher (with a special
\* case for IndefiniteBlockingKey being considered lowest)"
\* (pkg/v2/coordinator/coordinator.go): as long as the record of an upkeep lives it
\* only moves up, however Accept and the logs of reorged, stale and performed
\* reports interleave.  The exception is the lost update: one goroutine wrote
\* between the read and the write of the other.
IdBlocksMoveUp ==
  [][\A i \in UpkeepID \ raced : LiveBlock(idBlocks[i]) /\ LiveBlock(idBlocks'[i]) =>
       \/ idBlocks'[i].val = idBlocks[i].val
       \/ idBlocks'[i].val.CheckBlockNumber > idBlocks[i].val.CheckBlockNumber
       \/ /\ idBlocks'[i].val.CheckBlockNumber = idBlocks[i].val.CheckBlockNumber
          /\ idBlocks'[i].val.TransmitBlockNumber # Indefinite
          /\ idBlocks[i].val.TransmitBlockNumber \in
               {Indefinite} \cup 0..idBlocks'[i].val.TransmitBlockNumber]_coordinatorVars

\* "When an id is accepted using the Accept function, the upkeep id should be
\* indicated as pending in the IsPending function" (the same file): a key that was
\* accepted stays filtered, before and after its log, as long as the record of the
\* upkeep lives, so no report carries it twice in that time; but for a lost update.
AcceptedIsPending == \A k \in locked : k.id \notin raced => IsPending(k)

Blocked(i) == LiveBlock(idBlocks[i]) /\ idBlocks[i].val.TransmitBlockNumber = Indefinite

\* An upkeep whose transmission is lost, so that no log ever comes, is not blocked
\* for good: the lockout window ends, although the same report may be finalized and
\* accepted again and again.  Accept refreshes the record only once the key has
\* left activeKeys, which the collector must not bring about early: it deletes
\* what it found expired, even if Accept has stored it anew in the meantime.
NeverBlockedForever ==
  [](\A k \in collected.keys : ~LiveKey(activeKeys[k]))
    => \A i \in UpkeepID : Blocked(i) ~> ~Blocked(i)

=============================================================================
