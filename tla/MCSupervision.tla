---------------------------- MODULE MCSupervision ----------------------------
(* The two generations of supervised services, one per behaviour.            *)
(* OCR3: two services, in the order of the plugin's list, so that Close      *)
(* meets them in different states, and panics enough for a restart.          *)
(* OCR2: the polling observer with two upkeeps, of which one cannot be       *)
(* split, two heads, which come back, and one that panics before another     *)
(* succeeds.                                                                 *)
EXTENDS Recoverer

MCKinds == {<<"closer", "results">>, <<"metadata", "runner">>}

CONSTANTS UpkeepID, BlockKey, Unsplit, MaxAborted

VARIABLES
  version,
  stager, task, supervisor, taskStopped, started, closed, aborted, leaked

observerVars == <<stager, task, supervisor, taskStopped, started, closed, aborted, leaked>>
all == <<version, vars, observerVars>>

V2 == INSTANCE V2Observer WITH stopped <- taskStopped

ASSUME V2ObserverAssumption == V2!ConstantsOK

MCInit ==
  /\ version \in {"OCR2", "OCR3"} /\ Init /\ V2!ObserverInit
  /\ kind = <<"closer", "results">> => ~close.failing
  /\ version = "OCR2" => kind = <<"closer", "results">>

MCNext ==
  /\ UNCHANGED version
  /\ \/ version = "OCR3" /\ Next /\ UNCHANGED observerVars
     \/ version = "OCR2" /\ V2!ObserverNext /\ UNCHANGED vars

OCR3(step) == version = "OCR3" /\ step /\ UNCHANGED <<version, observerVars>>
OCR2(step) == version = "OCR2" /\ step /\ UNCHANGED <<version, vars>>

\* The fairness of the two modules, each for the behaviours it is about.
MCFairness ==
  /\ WF_all(OCR3(Closing))
  /\ \A s \in Service : /\ WF_all(OCR3(Watcher(s)))
                        /\ \A i \in Instance : WF_all(OCR3(Lifecycle(s, i)))
  /\ WF_all(OCR2(V2!TaskStep)) /\ WF_all(OCR2(V2!coolDown)) /\ WF_all(OCR2(V2!serviceStart))
  /\ SF_all(OCR2(V2!serviceStop)) /\ SF_all(OCR2(V2!CtxDone))

MCSpec == MCInit /\ [][MCNext]_all /\ MCFairness

ObservedTogether == V2!ObservedTogether
CloseEndsObserver == V2!CloseEndsObserver
RecoversFromPanic == V2!RecoversFromPanic
=============================================================================
