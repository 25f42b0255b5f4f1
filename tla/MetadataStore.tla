---------------------------- MODULE MetadataStore ----------------------------
(***************************************************************************)
(* The proposals kept by pkg/v3/stores/metadata_store.go, and those who    *)
(* use them: the two proposal flows of pkg/v3/flows, which add eligible    *)
(* work that is not proposed yet, and the OCR plugin, whose hooks put      *)
(* proposals into observations and remove the ones an outcome surfaced.    *)
(* The log and the conditional proposals are kept in ordered maps of their *)
(* own, each under its own lock.                                           *)
(*                                                                         *)
(* A view walks the slice that Keys() returned while it deletes expired    *)
(* keys from that very slice, so the walk is modelled index by index over  *)
(* the array the two share; the map's lock is held throughout, but time    *)
(* passes and each record's expiry is tested when the walk gets to it.     *)
(***************************************************************************)
EXTENDS Integers, Sequences, SequencesExt

CONSTANTS
  WorkID,         \* work IDs, as numbers: sort.Strings orders them
  LogWork,        \* the works of log-triggered upkeeps; the others are conditional
  Expiry,         \* the age at which a record is not yet expired
  ProposalLimit,  \* proposals of a type in one observation
  SampleLimit,    \* upkeeps the sampler takes on a tick
  None

Age == 0..(Expiry + 1)
UpkeepType == {"log", "conditional"}
typeGetter(w) == IF w \in LogWork THEN "log" ELSE "conditional"
WorkOf(t) == {w \in WorkID : typeGetter(w) = t}

ASSUME MetadataStoreAssumption ==
  /\ WorkID \subseteq Nat /\ LogWork \subseteq WorkID
  /\ {Expiry, ProposalLimit, SampleLimit} \subseteq Nat /\ None \notin Age

VARIABLES
  keys,     \* per type: orderedMap.keys
  values,   \* orderedMap.values: None, or the age of the record
  view,     \* per type, the walk of a view: whose, the shared array, its index, the result
  flow,     \* per type: work its proposal flow has filtered and is about to add
  obs       \* per type: the work IDs of the last observation's proposals

vars == <<keys, values, view, flow, obs>>

Unlocked(t) == view[t] = None

Init ==
  /\ keys = [t \in UpkeepType |-> <<>>]
  /\ values = [w \in WorkID |-> None]
  /\ view = [t \in UpkeepType |-> None]
  /\ flow = [t \in UpkeepType |-> {}]
  /\ obs = [t \in UpkeepType |-> <<>>]

-----------------------------------------------------------------------------
(* The ordered maps.                                                       *)

\* A record that is not there is the zero record, created in the year 1.
Expired(w) == values[w] = None \/ values[w] > Expiry

Add(t, w) ==
  /\ keys' = IF values[w] = None THEN [keys EXCEPT ![t] = Append(@, w)] ELSE keys
  /\ values' = [values EXCEPT ![w] = 0]

\* Mutant: Delete leaves the key behind when it is the last one.
WithoutButLast(s, w) == IF s # <<>> /\ Last(s) = w THEN s ELSE RemoveFirst(s, w)

\* The slice without the first occurrence of a key.
Without(s, w) == RemoveFirst(s, w)

Delete(t, w) ==
  /\ keys' = [keys EXCEPT ![t] = Without(@, w)]
  /\ values' = [values EXCEPT ![w] = None]

\* Keys() sorts in place.
Sorted(s) ==
  {t \in [1..Len(s) -> Range(s)] : \A i, j \in 1..Len(s) : i < j => t[i] < t[j]}

addLogRecoveryProposal(w) == Unlocked("log") /\ Add("log", w)
addConditionalProposal(w) == Unlocked("conditional") /\ Add("conditional", w)

removeLogRecoveryProposal(w) == Unlocked("log") /\ Delete("log", w)
removeConditionalProposal(w) == Unlocked("conditional") /\ Delete("conditional", w)

\* A view takes the lock of its type and starts the walk over the sorted keys.
View(t, caller) ==
  /\ Unlocked(t)
  /\ \E s \in Sorted(keys[t]) :
       /\ keys' = [keys EXCEPT ![t] = s]
       /\ view' = [view EXCEPT ![t] =
                     [caller |-> caller, array |-> s, index |-> 1, result |-> <<>>]]
  /\ UNCHANGED values

viewLogRecoveryProposal(caller) == View("log", caller)
viewConditionalProposal(caller) == View("conditional", caller)

\* The store's methods find the map by the type of the upkeep.
AddProposals(w) ==
  CASE typeGetter(w) = "log" -> addLogRecoveryProposal(w)
    [] typeGetter(w) = "conditional" -> addConditionalProposal(w)

RemoveProposals(w) ==
  CASE typeGetter(w) = "log" -> removeLogRecoveryProposal(w)
    [] typeGetter(w) = "conditional" -> removeConditionalProposal(w)

ViewProposals(t, caller) ==
  CASE t = "log" -> viewLogRecoveryProposal(caller)
    [] t = "conditional" -> viewConditionalProposal(caller)

\* Mutant: a record is dropped as soon as it has its last age.
ViewNextEarly(t) ==
  /\ view[t] # None /\ view[t].index <= Len(view[t].array)
  /\ LET w == view[t].array[view[t].index]
     IN IF values[w] = None \/ values[w] >= Expiry
        THEN /\ Delete(t, w)
             /\ view' = [view EXCEPT ![t].index = @ + 1, ![t].array =
                           keys'[t] \o SubSeq(@, Len(keys'[t]) + 1, Len(@))]
        ELSE /\ view' = [view EXCEPT ![t].index = @ + 1, ![t].result = Append(@, w)]
             /\ UNCHANGED <<keys, values>>
  /\ UNCHANGED <<flow, obs>>

\* One turn of its loop: keys is a prefix of the array it walks.
ViewNext(t) ==
  /\ view[t] # None /\ view[t].index <= Len(view[t].array)
  /\ LET w == view[t].array[view[t].index]
     IN IF Expired(w)
        THEN /\ Delete(t, w)
             /\ view' = [view EXCEPT ![t].index = @ + 1, ![t].array =
                           keys'[t] \o SubSeq(@, Len(keys'[t]) + 1, Len(@))]
        ELSE /\ view' = [view EXCEPT ![t].index = @ + 1, ![t].result = Append(@, w)]
             /\ UNCHANGED <<keys, values>>
  /\ UNCHANGED <<flow, obs>>

Viewed(t, caller) ==
  view[t] # None /\ view[t].caller = caller /\ view[t].index > Len(view[t].array)

-----------------------------------------------------------------------------
(* The plugin's hooks.                                                     *)

\* The observation hook: what the coordinator keeps, shuffled, up to the limit.
AddToObservation(t, kept) ==
  /\ Viewed(t, "plugin")
  /\ LET proposals == SelectSeq(view[t].result, LAMBDA w : w \in kept)
     IN \E chosen \in SUBSET (1..Len(proposals)) :
          /\ Cardinality(chosen) = IF Len(proposals) > ProposalLimit
                                   THEN ProposalLimit ELSE Len(proposals)
          /\ obs' = [obs EXCEPT ![t] = [i \in 1..Cardinality(chosen) |->
                                          proposals[SetToSortSeq(chosen, <)[i]]]]
  /\ view' = [view EXCEPT ![t] = None]
  /\ UNCHANGED <<keys, values, flow>>

AddLogProposalsHook ==
  \/ ViewProposals("log", "plugin") /\ UNCHANGED <<flow, obs>>
  \/ \E kept \in SUBSET WorkOf("log") : AddToObservation("log", kept)

AddConditionalProposalsHook ==
  \/ ViewProposals("conditional", "plugin") /\ UNCHANGED <<flow, obs>>
  \/ \E kept \in SUBSET WorkOf("conditional") : AddToObservation("conditional", kept)

\* A surfaced proposal of an outcome is removed.
RemoveFromMetadata(w) == RemoveProposals(w) /\ UNCHANGED <<view, flow, obs>>

-----------------------------------------------------------------------------
(* The proposal flows, named by the type of their upkeeps.                 *)

\* The filter of a flow: payloads whose work is proposed already are left out.  Both
\* flows have the filter of the log proposals.
ProposalFilterer(f, payloads) ==
  /\ Viewed("log", f)
  /\ flow' = [flow EXCEPT ![f] = {w \in payloads : w \notin Range(view["log"].result)}]
  /\ view' = [view EXCEPT !["log"] = None]
  /\ UNCHANGED <<keys, values, obs>>

\* The postprocessor adds a result of the pipeline if it is eligible.
PostProcess(f, w, eligible) ==
  /\ w \in flow[f]
  /\ IF eligible THEN AddProposals(w) ELSE UNCHANGED <<keys, values>>
  /\ flow' = [flow EXCEPT ![f] = @ \ {w}]
  /\ UNCHANGED <<view, obs>>

Filter(f) == flow[f] = {} /\ ViewProposals("log", f) /\ UNCHANGED <<flow, obs>>

\* The recoverer's proposals, whatever they are.
RecoveryProposalFlow ==
  \/ Filter("log")
  \/ \E payloads \in SUBSET WorkOf("log") : ProposalFilterer("log", payloads)
  \/ \E w \in WorkID, eligible \in BOOLEAN : PostProcess("log", w, eligible)

\* The sampler takes some of the active conditional upkeeps.
Sampled == {ws \in SUBSET WorkOf("conditional") : Cardinality(ws) <= SampleLimit}

SampleProposalFlow ==
  \/ Filter("conditional")
  \/ \E payloads \in Sampled : ProposalFilterer("conditional", payloads)
  \/ \E w \in WorkID, eligible \in BOOLEAN : PostProcess("conditional", w, eligible)

Tick ==
  /\ values' = [w \in WorkID |-> IF values[w] \in 0..Expiry THEN values[w] + 1 ELSE values[w]]
  /\ UNCHANGED <<keys, view, flow, obs>>

Next ==
  \/ \E t \in UpkeepType : ViewNext(t)
  \/ AddLogProposalsHook \/ AddConditionalProposalsHook
  \/ \E w \in WorkID : RemoveFromMetadata(w)
  \/ RecoveryProposalFlow \/ SampleProposalFlow
  \/ Tick

Spec == Init /\ [][Next]_vars

-----------------------------------------------------------------------------
(* Properties.                                                             *)

\* The two halves of the ordered maps agree: every stored work has its key once, in
\* the map of its type, and there is no key without a record, although the views
\* delete from the slice they walk, and between the steps of a walk as well.
KeysMatchValues ==
  \A t \in UpkeepType :
    /\ \A i, j \in 1..Len(keys[t]) : keys[t][i] = keys[t][j] => i = j
    /\ Range(keys[t]) = {w \in WorkOf(t) : values[w] # None}

\* A view never loses a proposal that is not expired: what it skips or visits
\* twice because of its own deletions stays stored.
OnlyExpiredDropped ==
  [][\A t \in UpkeepType : ViewNext(t) =>
       \A w \in WorkID : ~Expired(w) => values'[w] = values[w]]_vars

\* "proposals cannot have duplicate workIDs" (pkg/v3/observation.go): the
\* observation a node builds passes the check its peers make of it.
ObservationValid ==
  \A t \in UpkeepType : \A i, j \in 1..Len(obs[t]) : obs[t][i] = obs[t][j] => i = j

=============================================================================
