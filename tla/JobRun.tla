-------------------------------- MODULE JobRun --------------------------------
(***************************************************************************)
(* What a call of RunJobs (pkg/util/worker.go) promises: the result of     *)
(* each job it handed over reaches the result function before it returns.  *)
(* A call may hand over fewer jobs than it was given.                      *)
(***************************************************************************)
CONSTANT Job

VARIABLES submitted, handled, returned

avars == <<submitted, handled, returned>>

Init == submitted = {} /\ handled = {} /\ returned = FALSE

Submit(j) ==
  /\ ~returned /\ j \notin submitted
  /\ submitted' = submitted \cup {j}
  /\ UNCHANGED <<handled, returned>>

Handle(j) ==
  /\ ~returned /\ j \in submitted \ handled
  /\ handled' = handled \cup {j}
  /\ UNCHANGED <<submitted, returned>>

Return ==
  /\ ~returned /\ handled = submitted
  /\ returned' = TRUE
  /\ UNCHANGED <<submitted, handled>>

Next == Return \/ \E j \in Job : Submit(j) \/ Handle(j)

Spec == Init /\ [][Next]_avars
=============================================================================
