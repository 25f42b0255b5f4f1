-------------------------- MODULE SupervisionProofs --------------------------
(***************************************************************************)
(* The supervised services of the two generations.  No service of the OCR3 *)
(* plugin ever runs twice at a time, for any number of services of any     *)
(* kinds and any number of panics, and the one that runs is within the     *)
(* reach of Close.  What the polling observer of the OCR2 plugin returns   *)
(* was found at the head it is returned with, for any upkeeps and heads.   *)
(***************************************************************************)
EXTENDS MCSupervision, TLAPS, WellFoundedInduction

PC == {"none", "starting", "running", "nil", "error", "panic", "done"}

InstanceType == [pc : PC, cancelled : BOOLEAN]

\* An instance whose end the watcher has not been told of.
Live(s, i) == instance[s][i].pc \in {"starting", "running", "nil", "error", "panic"}

\* The end by panic of the last instance, on its way to the next start.
Panicked(s) == stopped[s] = <<"panic">> \/ watcher[s] = "cooldown"

\* The inductive invariant, for a service: instances are started in order and one at a
\* time, only when the one before has reported its panic, and since one of them does not
\* panic there is another one to start then.
IInv(s) ==
  /\ \A i, k \in Instance : i < k /\ instance[s][i].pc = "none" => instance[s][k].pc = "none"
  /\ \A i, k \in Instance : Live(s, i) /\ k > i => instance[s][k].pc = "none"
  /\ \A i \in Instance : Live(s, i) => ~Panicked(s) /\ watcher[s] # "new"
  /\ watcher[s] = "new" => ~Panicked(s) /\ \A i \in Instance : instance[s][i].pc = "none"
  /\ stopped[s] = <<"panic">> => watcher[s] # "cooldown"
  /\ Panicked(s) => instance[s][MaxPanics + 1].pc = "none"
  /\ \A i \in Instance : instance[s][i].pc = "panic" => i <= MaxPanics
  /\ \A i \in Instance : Runs(s, i) => closer[s] = i \/ instance[s][i].cancelled \/ token[s]

Inv == TypeOK /\ \A s \in Service : IInv(s)

\* At most one instance is live, so at most one runs.
LEMMA OneLive ==
  ASSUME NEW s \in Service, IInv(s), NEW i \in Instance, NEW k \in Instance,
         Live(s, i), Live(s, k)
  PROVE  i = k
PROOF
  <1>1. i \in Nat /\ k \in Nat
    BY RecovererAssumption DEF Instance
  <1>2. ~(k > i) /\ ~(i > k)
    BY DEF IInv, Live
  <1> QED
    BY <1>1, <1>2

\* The instance that a start takes: there is one, and all before it were started.
LEMMA NextInstance ==
  ASSUME NEW s \in Service, NEW m \in Instance, instance[s][m].pc = "none"
  PROVE  \E i \in Instance : /\ instance[s][i].pc = "none"
                             /\ \A k \in 1..i - 1 : instance[s][k].pc # "none"
PROOF
  <1> DEFINE T == {i \in Instance : instance[s][i].pc = "none"}
  <1>1. T \subseteq Nat /\ T # {}
    BY RecovererAssumption DEF Instance
  <1>2. PICK i \in T : \A k \in T : ~(<<k, i>> \in OpToRel(<, Nat))
    BY <1>1, NatLessThanWellFounded, WFMin
  <1>3. \A k \in T : ~(k < i)
    BY <1>1, <1>2 DEF OpToRel
  <1> QED
    BY <1>3, RecovererAssumption DEF Instance

\* One instance moves on, or is cancelled.
WithPC(old, s, i, x) == [old EXCEPT ![s][i].pc = x]
WithCancelled(old, s, i, c) == [old EXCEPT ![s][i].cancelled = c]

\* What an update of one instance leaves as it was.
LEMMA SetPC ==
  ASSUME NEW old \in [Service -> [Instance -> InstanceType]],
         NEW s \in Service, NEW i \in Instance, NEW x \in PC
  PROVE  /\ WithPC(old, s, i, x) \in [Service -> [Instance -> InstanceType]]
         /\ WithPC(old, s, i, x)[s][i].pc = x
         /\ WithPC(old, s, i, x)[s][i].cancelled = old[s][i].cancelled
         /\ \A k \in Instance \ {i} : WithPC(old, s, i, x)[s][k] = old[s][k]
         /\ \A t \in Service \ {s} : WithPC(old, s, i, x)[t] = old[t]
  BY DEF InstanceType, WithPC

\* The same of a cancellation.
LEMMA SetCancelled ==
  ASSUME NEW old \in [Service -> [Instance -> InstanceType]],
         NEW s \in Service, NEW i \in Instance, NEW c \in BOOLEAN
  PROVE  /\ WithCancelled(old, s, i, c) \in [Service -> [Instance -> InstanceType]]
         /\ WithCancelled(old, s, i, c)[s][i].cancelled = c
         /\ WithCancelled(old, s, i, c)[s][i].pc = old[s][i].pc
         /\ \A k \in Instance \ {i} : WithCancelled(old, s, i, c)[s][k] = old[s][k]
         /\ \A t \in Service \ {s} : WithCancelled(old, s, i, c)[t] = old[t]
  BY DEF InstanceType, WithCancelled

\* A service that a step does not touch.
LEMMA Untouched ==
  ASSUME NEW t \in Service, IInv(t), instance'[t] = instance[t], watcher'[t] = watcher[t],
         stopped'[t] = stopped[t], closer'[t] = closer[t], token'[t] = token[t]
  PROVE  IInv(t)'
  BY DEF IInv, Live, Panicked, Runs

\* The start of an instance, when there is one left and none is live.
LEMMA SpawnKeeps ==
  ASSUME NEW s \in Service, Inv, NEW m \in Instance, instance[s][m].pc = "none",
         \A i \in Instance : ~Live(s, i),
         instance' = Spawned(s),
         watcher' \in [Service -> {"new", "boot", "select", "cooldown", "off"}],
         watcher'[s] \in {"boot", "select"}, \A t \in Service \ {s} : watcher'[t] = watcher[t],
         stopped[s] # <<"panic">>, UNCHANGED <<stopped, closer, token>>
  PROVE  /\ instance' \in [Service -> [Instance -> InstanceType]]
         /\ \A t \in Service : IInv(t)'
PROOF
  <1> DEFINE First(i) == /\ instance[s][i].pc = "none"
                         /\ \A k \in 1..i - 1 : instance[s][k].pc # "none"
             i == CHOOSE i \in Instance : First(i)
  <1>1. i \in Instance /\ First(i)
    BY NextInstance
  <1>2. instance' = WithPC(instance, s, i, "starting")
    BY DEF Spawned, WithPC
  <1> HIDE DEF i
  <1>3. instance \in [Service -> [Instance -> InstanceType]]
    BY DEF Inv, TypeOK, InstanceType, PC
  <1>4. /\ instance' \in [Service -> [Instance -> InstanceType]]
        /\ instance'[s][i].pc = "starting"
        /\ \A k \in Instance \ {i} : instance'[s][k] = instance[s][k]
        /\ \A t \in Service \ {s} : instance'[t] = instance[t]
    <2>1. "starting" \in PC
      BY DEF PC
    <2> QED
      BY <1>1, <1>2, <1>3, <2>1, SetPC
  <1>5. IInv(s)
    BY DEF Inv
  <1>6. \A k \in Instance : (k < i => instance[s][k].pc # "none") /\ (k > i => instance[s][k].pc = "none")
    <2>1. \A k \in Instance : k \in Nat /\ k >= 1
      BY RecovererAssumption DEF Instance
    <2>2. \A k \in Instance : k < i => k \in 1..i - 1
      BY <1>1, <2>1
    <2> QED
      BY <1>1, <1>5, <2>2 DEF IInv
  <1>7. ~Panicked(s)' /\ watcher'[s] # "new" /\ watcher'[s] # "cooldown"
    BY DEF Panicked
  <1>8. \A j, k \in Instance : j < k /\ instance'[s][j].pc = "none" => instance'[s][k].pc = "none"
    <2>1. \A j \in Instance : j \in Nat
      BY RecovererAssumption DEF Instance
    <2> QED
      BY <1>1, <1>4, <1>5, <1>6, <2>1 DEF IInv
  <1>9. \A j, k \in Instance : Live(s, j)' /\ k > j => instance'[s][k].pc = "none"
    <2>1. \A j \in Instance : Live(s, j)' => j = i
      BY <1>4 DEF Live
    <2>2. \A j \in Instance : j \in Nat
      BY RecovererAssumption DEF Instance
    <2> QED
      BY <1>1, <1>4, <1>6, <2>1, <2>2
  <1>10. \A j \in Instance : instance'[s][j].pc = "panic" => j <= MaxPanics
    BY <1>4, <1>5 DEF IInv
  <1>11. \A j \in Instance : Runs(s, j)' => closer'[s] = j \/ instance'[s][j].cancelled \/ token'[s]
    BY <1>4, <1>5 DEF IInv, Runs
  <1>12. IInv(s)'
    BY <1>7, <1>8, <1>9, <1>10, <1>11 DEF IInv, Panicked
  <1>13. \A t \in Service \ {s} : IInv(t)'
    BY <1>4, Untouched DEF Inv
  <1> QED
    BY <1>4, <1>12, <1>13

\* A live instance moves on: the order of the instances is kept.
LEMMA MoveOn ==
  ASSUME NEW s \in Service, NEW i \in Instance, Inv, Live(s, i),
         NEW x \in PC \ {"none"}, instance' = WithPC(instance, s, i, x)
  PROVE  /\ instance' \in [Service -> [Instance -> InstanceType]]
         /\ instance'[s][i].pc = x /\ instance'[s][i].cancelled = instance[s][i].cancelled
         /\ \A k \in Instance \ {i} : /\ instance'[s][k] = instance[s][k]
                                      /\ ~Live(s, k) /\ ~Live(s, k)'
         /\ \A t \in Service \ {s} : instance'[t] = instance[t]
         /\ \A j, k \in Instance : j < k /\ instance'[s][j].pc = "none" => instance'[s][k].pc = "none"
         /\ \A j, k \in Instance : Live(s, j)' /\ k > j => instance'[s][k].pc = "none"
PROOF
  <1>1. instance \in [Service -> [Instance -> InstanceType]]
    BY DEF Inv, TypeOK, InstanceType, PC
  <1>2. /\ instance' \in [Service -> [Instance -> InstanceType]]
        /\ instance'[s][i].pc = x /\ instance'[s][i].cancelled = instance[s][i].cancelled
        /\ \A k \in Instance \ {i} : instance'[s][k] = instance[s][k]
        /\ \A t \in Service \ {s} : instance'[t] = instance[t]
    BY <1>1, SetPC
  <1>3. IInv(s) /\ instance[s][i].pc # "none"
    BY DEF Inv, Live
  <1>4. \A k \in Instance \ {i} : ~Live(s, k)
    BY <1>3, OneLive
  <1>5. \A k \in Instance \ {i} : ~Live(s, k)'
    BY <1>2, <1>4 DEF Live
  <1>6. \A j \in Instance : j \in Nat
    BY RecovererAssumption DEF Instance
  <1>7. \A j, k \in Instance : j < k /\ instance'[s][j].pc = "none" => instance'[s][k].pc = "none"
    BY <1>2, <1>3, <1>6 DEF IInv
  <1>8. \A j, k \in Instance : Live(s, j)' /\ k > j => instance'[s][k].pc = "none"
    <2>1. \A j \in Instance : Live(s, j)' => j = i
      BY <1>5
    <2>2. \A k \in Instance : k > i => instance[s][k].pc = "none"
      BY <1>3 DEF IInv
    <2> QED
      BY <1>2, <1>6, <2>1, <2>2
  <1> QED
    BY <1>2, <1>4, <1>5, <1>7, <1>8

\* ServiceStart.
LEMMA ServiceStartKeeps ==
  ASSUME NEW s \in Service, NEW i \in Instance, Inv, ServiceStart(s, i)
  PROVE  Inv'
PROOF
  <1>1. PICK x \in {"running", "error"} :
          /\ instance' = WithPC(instance, s, i, x)
          /\ \/ closer' = [closer EXCEPT ![s] = i]
             \/ closer' = closer /\ x = "error"
    BY DEF ServiceStart, resultStoreStart, Store, Starts, WithPC
  <1>2. Live(s, i) /\ x \in PC \ {"none"}
    BY DEF ServiceStart, Live, PC
  <1>3. /\ instance' \in [Service -> [Instance -> InstanceType]]
        /\ instance'[s][i].pc = x /\ instance'[s][i].cancelled = instance[s][i].cancelled
        /\ \A k \in Instance \ {i} : /\ instance'[s][k] = instance[s][k]
                                     /\ ~Live(s, k) /\ ~Live(s, k)'
        /\ \A t \in Service \ {s} : instance'[t] = instance[t]
        /\ \A j, k \in Instance : j < k /\ instance'[s][j].pc = "none" => instance'[s][k].pc = "none"
        /\ \A j, k \in Instance : Live(s, j)' /\ k > j => instance'[s][k].pc = "none"
    BY <1>1, <1>2, MoveOn
  <1>4. IInv(s) /\ UNCHANGED <<watcher, stopped, token>>
    BY DEF Inv, ServiceStart
  <1>5. closer' \in [Service -> Instance \cup {None}]
        /\ \A t \in Service \ {s} : closer'[t] = closer[t]
    BY <1>1 DEF Inv, TypeOK
  <1>6. TypeOK'
    BY <1>3, <1>5 DEF Inv, TypeOK, ServiceStart, InstanceType, PC
  <1>7. ~Panicked(s)' /\ watcher'[s] # "new"
    BY <1>2, <1>4 DEF IInv, Panicked
  <1>8. \A j \in Instance : instance'[s][j].pc = "panic" => j <= MaxPanics
    BY <1>3, <1>4 DEF IInv
  <1>9. \A j \in Instance : Runs(s, j)' => closer'[s] = j \/ instance'[s][j].cancelled \/ token'[s]
    <2>1. \A j \in Instance : Runs(s, j)' => j = i /\ x = "running"
      BY <1>3 DEF Runs, Live
    <2>2. x = "running" => closer'[s] = i
      BY <1>1 DEF Inv, TypeOK
    <2> QED
      BY <2>1, <2>2
  <1>10. IInv(s)'
    BY <1>3, <1>7, <1>8, <1>9 DEF IInv, Panicked
  <1>11. \A t \in Service \ {s} : IInv(t)'
    BY <1>3, <1>4, <1>5, Untouched DEF Inv
  <1> QED
    BY <1>6, <1>10, <1>11 DEF Inv

\* The end of an instance: its panic or its return.
LEMMA EndKeeps ==
  ASSUME NEW s \in Service, NEW i \in Instance, Inv,
         Panic(s, i) \/ ServiceReturns(s, i) \/ ServiceStops(s, i)
  PROVE  Inv'
PROOF
  <1>1. PICK x \in {"panic", "nil"} :
          /\ instance' = WithPC(instance, s, i, x)
          /\ x = "panic" => i <= MaxPanics
    BY DEF Panic, ServiceReturns, ServiceStops, WithPC
  <1>2. Live(s, i) /\ x \in PC \ {"none"}
    BY DEF Panic, ServiceReturns, ServiceStops, Live, PC
  <1>3. /\ instance' \in [Service -> [Instance -> InstanceType]]
        /\ instance'[s][i].pc = x /\ instance'[s][i].cancelled = instance[s][i].cancelled
        /\ \A k \in Instance \ {i} : /\ instance'[s][k] = instance[s][k]
                                     /\ ~Live(s, k) /\ ~Live(s, k)'
        /\ \A t \in Service \ {s} : instance'[t] = instance[t]
        /\ \A j, k \in Instance : j < k /\ instance'[s][j].pc = "none" => instance'[s][k].pc = "none"
        /\ \A j, k \in Instance : Live(s, j)' /\ k > j => instance'[s][k].pc = "none"
    BY <1>1, <1>2, MoveOn
  <1>4. IInv(s) /\ UNCHANGED <<watcher, stopped, closer>>
    BY DEF Inv, Panic, ServiceReturns, ServiceStops
  <1>5. token' \in [Service -> BOOLEAN] /\ \A t \in Service \ {s} : token'[t] = token[t]
    BY DEF Inv, TypeOK, Panic, ServiceReturns, ServiceStops
  <1>6. TypeOK'
    BY <1>3, <1>4, <1>5 DEF Inv, TypeOK, Panic, ServiceReturns, ServiceStops, InstanceType, PC
  <1>7. ~Panicked(s)' /\ watcher'[s] # "new"
    BY <1>2, <1>4 DEF IInv, Panicked
  <1>8. \A j \in Instance : instance'[s][j].pc = "panic" => j <= MaxPanics
    <2>1. x = "panic" => i <= MaxPanics
      BY <1>1
    <2>2. \A j \in Instance \ {i} : instance'[s][j].pc = "panic" => j <= MaxPanics
      BY <1>3, <1>4 DEF IInv
    <2> QED
      BY <1>3, <2>1, <2>2
  <1>9. \A j \in Instance : ~Runs(s, j)'
    BY <1>3 DEF Runs, Live
  <1>10. IInv(s)'
    BY <1>3, <1>7, <1>8, <1>9 DEF IInv, Panicked
  <1>11. \A t \in Service \ {s} : IInv(t)'
    BY <1>3, <1>4, <1>5, Untouched DEF Inv
  <1> QED
    BY <1>6, <1>10, <1>11 DEF Inv

\* Report: the end of an instance is told to the watcher.  After a panic there is another
\* instance to start, for this one is not the last.
LEMMA ReportKeeps ==
  ASSUME NEW s \in Service, NEW i \in Instance, Inv, Report(s, i)
  PROVE  Inv'
PROOF
  <1>1. instance' = WithPC(instance, s, i, "done")
    BY DEF Report, WithPC
  <1>2. Live(s, i) /\ "done" \in PC \ {"none"}
    BY DEF Report, Live, PC
  <1>3. /\ instance' \in [Service -> [Instance -> InstanceType]]
        /\ instance'[s][i].pc = "done" /\ instance'[s][i].cancelled = instance[s][i].cancelled
        /\ \A k \in Instance \ {i} : /\ instance'[s][k] = instance[s][k]
                                     /\ ~Live(s, k) /\ ~Live(s, k)'
        /\ \A t \in Service \ {s} : instance'[t] = instance[t]
        /\ \A j, k \in Instance : j < k /\ instance'[s][j].pc = "none" => instance'[s][k].pc = "none"
        /\ \A j, k \in Instance : Live(s, j)' /\ k > j => instance'[s][k].pc = "none"
    BY <1>1, <1>2, MoveOn
  <1>4. IInv(s) /\ UNCHANGED <<watcher, closer, token>>
    BY DEF Inv, Report
  <1>5. /\ stopped' \in [Service -> {<<>>, <<"nil">>, <<"error">>, <<"panic">>, <<"cancelled">>}]
        /\ stopped'[s] = <<instance[s][i].pc>>
        /\ \A t \in Service \ {s} : stopped'[t] = stopped[t]
    <2>1. <<instance[s][i].pc>> \in {<<"nil">>, <<"error">>, <<"panic">>}
      BY DEF Report
    <2> DEFINE m == <<instance[s][i].pc>>
    <2>2. stopped' = [stopped EXCEPT ![s] = m]
      BY DEF Report
    <2> HIDE DEF m
    <2>3. m \in {<<>>, <<"nil">>, <<"error">>, <<"panic">>, <<"cancelled">>}
      BY <2>1 DEF m
    <2>4. stopped' \in [Service -> {<<>>, <<"nil">>, <<"error">>, <<"panic">>, <<"cancelled">>}]
          /\ stopped'[s] = m /\ \A t \in Service \ {s} : stopped'[t] = stopped[t]
      BY <2>2, <2>3 DEF Inv, TypeOK
    <2> QED
      BY <2>4 DEF m
  <1>6. TypeOK'
    BY <1>3, <1>4, <1>5 DEF Inv, TypeOK, Report, InstanceType, PC
  <1>7. watcher'[s] # "new" /\ watcher'[s] # "cooldown"
    BY <1>2, <1>4 DEF IInv, Panicked
  <1>8. Panicked(s)' => instance'[s][MaxPanics + 1].pc = "none"
    <2> SUFFICES ASSUME Panicked(s)'
                 PROVE  instance'[s][MaxPanics + 1].pc = "none"
      OBVIOUS
    <2>1. instance[s][i].pc = "panic"
      BY <1>5, <1>7 DEF Panicked
    <2>2. i <= MaxPanics /\ i \in Nat /\ MaxPanics + 1 \in Instance /\ MaxPanics \in Nat
      BY <1>4, <2>1, RecovererAssumption DEF IInv, Instance
    <2>3. MaxPanics + 1 > i /\ MaxPanics + 1 # i
      BY <2>2
    <2>4. instance[s][MaxPanics + 1].pc = "none"
      BY <1>2, <1>4, <2>2, <2>3 DEF IInv
    <2> QED
      BY <1>3, <2>2, <2>3, <2>4
  <1>9. \A j \in Instance : ~Live(s, j)' /\ ~Runs(s, j)'
    BY <1>3 DEF Runs, Live
  <1>10. \A j \in Instance : instance'[s][j].pc = "panic" => j <= MaxPanics
    BY <1>3, <1>4 DEF IInv
  <1>11. IInv(s)'
    BY <1>3, <1>7, <1>8, <1>9, <1>10 DEF IInv
  <1>12. \A t \in Service \ {s} : IInv(t)'
    BY <1>3, <1>4, <1>5, Untouched DEF Inv
  <1> QED
    BY <1>6, <1>11, <1>12 DEF Inv

\* Start and Restart: the watcher starts an instance, when none is live.
LEMMA StartKeeps ==
  ASSUME NEW s \in Service, Inv, Start(s) \/ Restart(s)
  PROVE  Inv'
PROOF
  <1>1. IInv(s) /\ MaxPanics + 1 \in Instance /\ UNCHANGED <<stopped, closer, token>>
    BY RecovererAssumption DEF Inv, Start, Restart, Instance
  <1>2. watcher[s] \in {"new", "cooldown"} /\ instance' = Spawned(s)
    BY DEF Start, Restart
  <1>3. instance[s][MaxPanics + 1].pc = "none" /\ \A i \in Instance : ~Live(s, i)
    BY <1>1, <1>2 DEF IInv, Panicked
  <1>4. stopped[s] # <<"panic">>
    BY <1>1, <1>2 DEF IInv, Panicked
  <1>5. /\ watcher' \in [Service -> {"new", "boot", "select", "cooldown", "off"}]
        /\ watcher'[s] \in {"boot", "select"}
        /\ \A t \in Service \ {s} : watcher'[t] = watcher[t]
    BY DEF Inv, TypeOK, Start, Restart
  <1>6. /\ instance' \in [Service -> [Instance -> InstanceType]]
        /\ \A t \in Service : IInv(t)'
    BY <1>1, <1>2, <1>3, <1>4, <1>5, SpawnKeeps
  <1>7. TypeOK'
    BY <1>1, <1>5, <1>6 DEF Inv, TypeOK, Start, Restart, InstanceType, PC
  <1> QED
    BY <1>6, <1>7 DEF Inv

\* Booted, Message: the watcher's own state.  A panic it hears of becomes its pause.
LEMMA WatcherKeeps ==
  ASSUME NEW s \in Service, Inv, Booted(s) \/ Message(s)
  PROVE  Inv'
PROOF
  <1>1. IInv(s) /\ UNCHANGED <<instance, closer, token>>
    BY DEF Inv, Booted, Message
  <1>2. /\ watcher[s] \in {"boot", "select"}
        /\ stopped'[s] = <<"panic">> => stopped[s] = <<"panic">> /\ watcher'[s] = "select"
        /\ watcher'[s] = "cooldown" => stopped[s] = <<"panic">>
        /\ watcher' \in [Service -> {"new", "boot", "select", "cooldown", "off"}]
        /\ watcher'[s] # "new"
        /\ stopped' \in [Service -> {<<>>, <<"nil">>, <<"error">>, <<"panic">>, <<"cancelled">>}]
        /\ running' \in [Service -> BOOLEAN]
        /\ \A t \in Service \ {s} : watcher'[t] = watcher[t] /\ stopped'[t] = stopped[t]
    <2>1. CASE Booted(s)
      BY <2>1 DEF Booted, Inv, TypeOK
    <2>2. CASE Message(s)
      <3> DEFINE m == Head(stopped[s])
                 w == CASE m = "panic" -> "cooldown" [] m = "cancelled" -> "off" [] OTHER -> "select"
      <3>1. /\ watcher' = [watcher EXCEPT ![s] = w] /\ stopped' = [stopped EXCEPT ![s] = <<>>]
            /\ running' = [running EXCEPT ![s] = m # "cancelled"]
        BY <2>2 DEF Message
      <3>2. w \in {"cooldown", "off", "select"} /\ (w = "cooldown" => stopped[s] = <<"panic">>)
        BY <2>2 DEF Message, Inv, TypeOK
      <3>3. running' \in [Service -> BOOLEAN]
        BY <3>1 DEF Inv, TypeOK
      <3> HIDE DEF w
      <3> QED
        BY <2>2, <3>1, <3>2, <3>3 DEF Message, Inv, TypeOK
    <2> QED
      BY <2>1, <2>2
  <1>3. TypeOK'
    BY <1>1, <1>2 DEF Inv, TypeOK, Booted, Message
  <1>4. Panicked(s)' => Panicked(s)
    BY <1>2 DEF Panicked
  <1>5. IInv(s)'
    <2>1. \A i \in Instance : /\ Live(s, i)' = Live(s, i) /\ Runs(s, i)' = Runs(s, i)
      BY <1>1 DEF Live, Runs
    <2> QED
      BY <1>1, <1>2, <1>4, <2>1 DEF IInv
  <1>6. \A t \in Service \ {s} : IInv(t)'
    BY <1>1, <1>2, Untouched DEF Inv
  <1> QED
    BY <1>3, <1>5, <1>6 DEF Inv

\* What closing a service does to its instance: nothing, or the instance is cancelled,
\* or the token is put.
LEMMA CloseEffect ==
  ASSUME NEW s \in Service, Inv, UNCHANGED <<watcher, stopped>>,
         \/ Cancel(s) \/ metadataStoreClose(s) \/ RunnerClose(s) \/ resultStoreClose(s)
         \/ UNCHANGED <<closer, token, instance>>
  PROVE  /\ closer' \in [Service -> Instance \cup {None}]
         /\ token' \in [Service -> BOOLEAN]
         /\ instance' \in [Service -> [Instance -> InstanceType]]
         /\ \A t \in Service : IInv(t)'
PROOF
  <1>1. instance \in [Service -> [Instance -> InstanceType]]
    BY DEF Inv, TypeOK, InstanceType, PC
  <1>2. IInv(s)
    BY DEF Inv
  <1>3. CASE UNCHANGED <<closer, token, instance>>
    BY <1>1, <1>3, Untouched DEF Inv, TypeOK
  <1>4. CASE /\ token[s] = FALSE /\ token' = [token EXCEPT ![s] = TRUE] /\ UNCHANGED instance
             /\ closer' \in {closer, [closer EXCEPT ![s] = None]}
    <2>1. closer' \in [Service -> Instance \cup {None}] /\ token' \in [Service -> BOOLEAN]
      BY <1>4 DEF Inv, TypeOK
    <2>2. token'[s] /\ \A t \in Service \ {s} : token'[t] = token[t] /\ closer'[t] = closer[t]
      BY <1>4 DEF Inv, TypeOK
    <2>3. \A i \in Instance : /\ Live(s, i)' = Live(s, i) /\ Runs(s, i)' = Runs(s, i)
      BY <1>4 DEF Live, Runs
    <2>4. Panicked(s)' = Panicked(s)
      BY DEF Panicked
    <2>5. IInv(s)'
      BY <1>2, <1>4, <2>2, <2>3, <2>4 DEF IInv
    <2>6. \A t \in Service \ {s} : IInv(t)'
      BY <1>4, <2>2, Untouched DEF Inv
    <2> QED
      BY <1>1, <1>4, <2>1, <2>5, <2>6
  <1>5. CASE /\ closer[s] # None /\ closer' = [closer EXCEPT ![s] = None] /\ UNCHANGED token
             /\ instance' = WithCancelled(instance, s, closer[s], TRUE)
    <2> DEFINE c == closer[s]
    <2>1. c \in Instance
      BY <1>5 DEF Inv, TypeOK
    <2>2. /\ instance' \in [Service -> [Instance -> InstanceType]]
          /\ instance'[s][c].cancelled = TRUE /\ instance'[s][c].pc = instance[s][c].pc
          /\ \A k \in Instance \ {c} : instance'[s][k] = instance[s][k]
          /\ \A t \in Service \ {s} : instance'[t] = instance[t]
      <3>1. PICK x \in BOOLEAN : x = TRUE
        OBVIOUS
      <3>2. instance' = WithCancelled(instance, s, c, x)
        BY <1>5, <3>1
      <3>3. /\ instance' \in [Service -> [Instance -> InstanceType]]
            /\ instance'[s][c].cancelled = x /\ instance'[s][c].pc = instance[s][c].pc
            /\ \A k \in Instance \ {c} : instance'[s][k] = instance[s][k]
            /\ \A t \in Service \ {s} : instance'[t] = instance[t]
        BY <1>1, <2>1, <3>2, SetCancelled
      <3> QED
        BY <3>1, <3>3
    <2>3. closer' \in [Service -> Instance \cup {None}] /\ token' \in [Service -> BOOLEAN]
      BY <1>5 DEF Inv, TypeOK
    <2>4. \A i \in Instance : instance'[s][i].pc = instance[s][i].pc
      BY <2>2
    <2>5. \A i \in Instance : /\ Live(s, i)' = Live(s, i) /\ Runs(s, i)' = Runs(s, i)
      BY <2>4 DEF Live, Runs
    <2>6. Panicked(s)' = Panicked(s)
      BY DEF Panicked
    <2>7. MaxPanics + 1 \in Instance
      BY RecovererAssumption DEF Instance
    <2>8. \A i \in Instance : Runs(s, i)' => closer'[s] = i \/ instance'[s][i].cancelled \/ token'[s]
      <3> SUFFICES ASSUME NEW i \in Instance, Runs(s, i)
                   PROVE  instance'[s][i].cancelled \/ token'[s]
        BY <2>5
      <3>1. closer[s] = i \/ instance[s][i].cancelled \/ token[s]
        BY <1>2 DEF IInv
      <3> QED
        BY <1>5, <2>2, <3>1
    <2>9. IInv(s)'
      BY <1>2, <2>4, <2>5, <2>6, <2>7, <2>8 DEF IInv
    <2>10. \A t \in Service \ {s} : IInv(t)'
      <3>1. \A t \in Service \ {s} : closer'[t] = closer[t] /\ token'[t] = token[t]
        BY <1>5 DEF Inv, TypeOK
      <3> QED
        BY <2>2, <3>1, Untouched DEF Inv
    <2> QED
      BY <2>2, <2>3, <2>9, <2>10
  <1> QED
    BY <1>3, <1>4, <1>5 DEF Cancel, metadataStoreClose, RunnerClose, resultStoreClose, PutToken,
       NotRunning, WithCancelled, Inv, TypeOK

\* The plugin's Close goes on to the watcher of a service, or to the next service.
CloseType == [at : 0..Services + 1, step : {"service", "watcher"}, failing : BOOLEAN]

LEMMA SetClose ==
  ASSUME NEW c \in CloseType, NEW n \in 0..Services + 1, NEW x \in {"service", "watcher"}
  PROVE  /\ [c EXCEPT !.at = n] \in CloseType /\ [c EXCEPT !.step = x] \in CloseType
         /\ [c EXCEPT !.at = n, !.step = x] \in CloseType
  BY DEF CloseType

\* Close, CloseService, CloseWatcher: the plugin's Close.
LEMMA CloseKeeps ==
  ASSUME Inv, Close \/ Closing
  PROVE  Inv'
PROOF
  <1>1. CASE Close
    <2>1. UNCHANGED <<watcher, stopped, closer, token, instance>>
      BY <1>1 DEF Close
    <2>2. \A t \in Service : IInv(t)'
      BY <2>1, Untouched DEF Inv
    <2>3. TypeOK'
      BY <1>1, RecovererAssumption DEF Inv, TypeOK, Close
    <2> QED
      BY <2>2, <2>3 DEF Inv
  <1>2. CASE CloseService
    <2>1. close.at \in Service /\ UNCHANGED <<kind, running, watcher, stopped>>
      BY <1>2 DEF CloseService
    <2>2. \/ Cancel(close.at) \/ metadataStoreClose(close.at)
          \/ RunnerClose(close.at) \/ resultStoreClose(close.at)
          \/ UNCHANGED <<closer, token, instance>>
      <3>1. kind[close.at] \in {"closer", "metadata", "runner", "results"}
        BY <2>1, RecovererAssumption DEF Inv, TypeOK
      <3> QED
        BY <1>2, <3>1 DEF CloseService
    <2>3. /\ closer' \in [Service -> Instance \cup {None}]
          /\ token' \in [Service -> BOOLEAN]
          /\ instance' \in [Service -> [Instance -> InstanceType]]
          /\ \A t \in Service : IInv(t)'
      BY <2>1, <2>2, CloseEffect
    <2>4. close' \in CloseType
      <3>1. close.at + 1 \in 0..Services + 1 /\ close \in CloseType
        BY <2>1, RecovererAssumption DEF Inv, TypeOK, Service, CloseType
      <3>2. \/ close' = [close EXCEPT !.step = "watcher"]
            \/ close' = [close EXCEPT !.at = close.at + 1]
        BY <1>2 DEF CloseService
      <3> QED
        BY <3>1, <3>2, SetClose
    <2>5. TypeOK'
      BY <2>1, <2>3, <2>4 DEF Inv, TypeOK, InstanceType, PC, CloseType
    <2> QED
      BY <2>3, <2>5 DEF Inv
  <1>3. CASE CloseWatcher
    <2>0. PICK s \in Service : s = close.at
      BY <1>3 DEF CloseWatcher
    <2> DEFINE m == IF stopped[s] = <<>> THEN <<"cancelled">> ELSE stopped[s]
    <2>1. UNCHANGED <<kind, running, watcher, closer, token, instance>>
      BY <1>3 DEF CloseWatcher
    <2>2. stopped' = [stopped EXCEPT ![s] = m]
      BY <1>3, <2>0 DEF CloseWatcher
    <2>3. m \in {<<>>, <<"nil">>, <<"error">>, <<"panic">>, <<"cancelled">>}
          /\ (m = <<"panic">> => stopped[s] = <<"panic">>)
      BY <2>1 DEF Inv, TypeOK
    <2> HIDE DEF m
    <2>4. /\ stopped' \in [Service -> {<<>>, <<"nil">>, <<"error">>, <<"panic">>, <<"cancelled">>}]
          /\ stopped'[s] = m /\ \A t \in Service \ {s} : stopped'[t] = stopped[t]
      BY <2>1, <2>2, <2>3 DEF Inv, TypeOK
    <2>5. close' \in CloseType
      <3>1. s + 1 \in 0..Services + 1 /\ close \in CloseType
        BY RecovererAssumption DEF Inv, TypeOK, Service, CloseType
      <3>2. close' = [close EXCEPT !.at = s + 1, !.step = "service"]
        BY <1>3, <2>0 DEF CloseWatcher
      <3> QED
        BY <3>1, <3>2, SetClose
    <2>6. TypeOK'
      BY <2>1, <2>4, <2>5 DEF Inv, TypeOK, CloseType
    <2>7. Panicked(s)' => Panicked(s)
      BY <2>1, <2>3, <2>4 DEF Panicked
    <2>8. \A i \in Instance : Live(s, i)' = Live(s, i) /\ Runs(s, i)' = Runs(s, i)
      BY <2>1 DEF Live, Runs
    <2>9. stopped'[s] = <<"panic">> => stopped[s] = <<"panic">>
      BY <2>3, <2>4
    <2>10. IInv(s)'
      BY <2>1, <2>7, <2>8, <2>9 DEF IInv, Inv
    <2>11. \A t \in Service \ {s} : IInv(t)'
      BY <2>1, <2>4, Untouched DEF Inv
    <2> QED
      BY <2>6, <2>10, <2>11 DEF Inv
  <1> QED
    BY <1>1, <1>2, <1>3 DEF Closing

\* The invariant holds from the start.
LEMMA InitInv == Init => Inv
PROOF
  <1> SUFFICES ASSUME Init PROVE Inv
    OBVIOUS
  <1>1. TypeOK
    BY RecovererAssumption DEF Init, TypeOK
  <1>2. \A s \in Service : \A i \in Instance : instance[s][i].pc = "none"
    BY DEF Init
  <1>3. \A s \in Service : watcher[s] = "new" /\ stopped[s] = <<>>
    BY DEF Init
  <1>4. \A s \in Service : ~Panicked(s) /\ \A i \in Instance : ~Live(s, i) /\ ~Runs(s, i)
    BY <1>2, <1>3 DEF Panicked, Live, Runs
  <1>5. \A s \in Service : IInv(s)
    BY <1>2, <1>3, <1>4 DEF IInv
  <1> QED
    BY <1>1, <1>5 DEF Inv

\* Every step keeps it.
LEMMA NextInv == Inv /\ [Next]_vars => Inv'
PROOF
  <1> SUFFICES ASSUME Inv, [Next]_vars PROVE Inv'
    OBVIOUS
  <1>1. ASSUME NEW s \in Service, Watcher(s) PROVE Inv'
    BY <1>1, StartKeeps, WatcherKeeps DEF Watcher
  <1>2. ASSUME NEW s \in Service, NEW i \in Instance, Lifecycle(s, i) \/ Panic(s, i) PROVE Inv'
    BY <1>2, ServiceStartKeeps, EndKeeps, ReportKeeps DEF Lifecycle
  <1>3. CASE UNCHANGED vars
    <2>1. UNCHANGED <<watcher, stopped, closer, token, instance>>
      BY <1>3 DEF vars
    <2>2. \A t \in Service : IInv(t)'
      BY <2>1, Untouched DEF Inv
    <2>3. TypeOK'
      BY <1>3 DEF Inv, TypeOK, vars
    <2> QED
      BY <2>2, <2>3 DEF Inv
  <1> QED
    BY <1>1, <1>2, <1>3, CloseKeeps DEF Next

\* So it is an invariant.
LEMMA AlwaysInv == Spec => []Inv
  BY InitInv, NextInv, PTL DEF Spec

\* The recoverer's state stays of its type (pkg/v3/service/recoverable.go).
THEOREM RecovererType == Spec => []TypeOK
PROOF
  <1>1. Inv => TypeOK
    BY DEF Inv
  <1> QED
    BY <1>1, AlwaysInv, PTL

\* However often services panic and whenever the plugin is closed, a service has at most
\* one running instance, and Close can still stop the one that runs: its cancel function
\* is the stored one, or it is cancelled, or the token it stops at is there.
THEOREM OneInstanceRuns == Spec => []OneInstance
PROOF
  <1>1. Inv => OneInstance
    <2> SUFFICES ASSUME Inv, NEW s \in Service, NEW i \in Instance, Runs(s, i)
                 PROVE  /\ \A k \in Instance \ {i} : ~Runs(s, k)
                        /\ closer[s] = i \/ instance[s][i].cancelled \/ token[s]
      BY DEF OneInstance
    <2>1. IInv(s)
      BY DEF Inv
    <2>2. \A k \in Instance : Runs(s, k) => Live(s, k)
      BY DEF Runs, Live
    <2>3. \A k \in Instance \ {i} : ~Runs(s, k)
      BY <2>1, <2>2, OneLive
    <2> QED
      BY <2>1, <2>3 DEF IInv
  <1> QED
    BY <1>1, AlwaysInv, PTL

-----------------------------------------------------------------------------
(* The polling observer.                                                   *)

Identifier == [id : UpkeepID \cup {None}, head : BlockKey]
Stager == [currentBlock : BlockKey \cup {None}, currentIDs : SUBSET Identifier,
           nextBlock : BlockKey \cup {None}, nextIDs : SUBSET Identifier]
Task == [pc : {"none", "idle", "check", "stage"}, head : BlockKey \cup {None},
         ids : SUBSET UpkeepID]

Staging == task.pc \in {"check", "stage"}

\* What the stager holds: the current identifiers are of the current head or of one
\* that leaked into it; the next ones are of heads that panicked and, while a head is
\* staged, of that head, which is the one prepared.
StagerInv ==
  /\ \A x \in stager.currentIDs : x.head = stager.currentBlock \/ x.head \in leaked
  /\ \A x \in stager.nextIDs : x.head \in aborted \/ (task.pc = "stage" /\ x.head = task.head)
  /\ Staging => stager.nextBlock = task.head /\ task.head \in BlockKey

\* There is one task at most, and none while its end is not dealt with, so that the
\* supervisor never starts Do over a head that is being staged.
TaskInv ==
  /\ task \in Task
  /\ ~Staging => task = V2!NoTask \/ task = V2!Idle
  /\ ~started => task = V2!NoTask /\ supervisor = "off" /\ taskStopped = "none"
  /\ taskStopped # "none" \/ supervisor = "cooling" => task = V2!NoTask
  /\ supervisor = "cooling" => taskStopped = "none"
  /\ stager \in Stager

ObserverInv == StagerInv /\ TaskInv

LEMMA Tasks ==
  /\ V2!NoTask \in Task /\ V2!NoTask.pc = "none" /\ V2!NoTask.head = None
  /\ V2!Idle \in Task /\ V2!Idle.pc = "idle" /\ V2!Idle.head = None
  /\ \A pc \in {"check", "stage"}, head \in BlockKey, ids \in SUBSET UpkeepID :
       LET t == V2!At(pc, head, ids)
       IN  t \in Task /\ t.pc = pc /\ t.head = head
BY DEF V2!NoTask, V2!Idle, V2!At, Task

LEMMA ObserverInitInv == V2!ObserverInit => ObserverInv
BY Tasks DEF V2!ObserverInit, ObserverInv, StagerInv, TaskInv, Staging, Stager

\* A step that leaves the stager and the task alone.
LEMMA StagerStays ==
  ASSUME ObserverInv, UNCHANGED <<stager, task, aborted, leaked>>
  PROVE  StagerInv' /\ task' \in Task /\ (~Staging' => task' = V2!NoTask \/ task' = V2!Idle)
         /\ stager' \in Stager
BY DEF ObserverInv, StagerInv, TaskInv, Staging

LEMMA ObserverNextInv ==
  ASSUME ObserverInv, [V2!ObserverNext]_V2!observerVars
  PROVE  ObserverInv'
<1>a. StagerInv /\ TaskInv
  BY DEF ObserverInv
<1>1. ASSUME NEW block \in BlockKey, NEW sample \in SUBSET UpkeepID, V2!prepareBlock(block, sample)
      PROVE  ObserverInv'
  <2>1. stager' = [currentBlock |-> stager.currentBlock, currentIDs |-> stager.currentIDs,
                   nextBlock |-> block, nextIDs |-> stager.nextIDs]
    BY <1>1, <1>a DEF V2!prepareBlock, V2!Prepared, TaskInv, Stager
  <2>2. stager' \in Stager
    BY <1>a, <2>1 DEF TaskInv, Stager
  <2>3. /\ task.pc = "idle" /\ task # V2!NoTask
        /\ task' \in Task /\ task'.pc = "check" /\ task'.head = block
        /\ UNCHANGED <<supervisor, taskStopped, started, aborted, leaked>>
    BY <1>1, Tasks DEF V2!prepareBlock
  <2>4. StagerInv'
    BY <1>a, <2>1, <2>3 DEF StagerInv, Staging
  <2>5. TaskInv'
    BY <1>a, <2>2, <2>3 DEF TaskInv, Staging
  <2> QED BY <2>4, <2>5 DEF ObserverInv
<1>2. CASE V2!CheckUpkeep
  <2>1. /\ task.pc = "check" /\ task # V2!NoTask
        /\ UNCHANGED <<stager, supervisor, taskStopped, started, aborted, leaked>>
    BY <1>2, Tasks DEF V2!CheckUpkeep
  <2>2. \/ task' = V2!Idle
        \/ task' \in Task /\ task'.pc = "stage" /\ task'.head = task.head
    <3>1. task.head \in BlockKey /\ task.ids \in SUBSET UpkeepID
      BY <1>a, <2>1 DEF StagerInv, TaskInv, Staging, Task
    <3> QED BY <1>2, <3>1, Tasks DEF V2!CheckUpkeep
  <2>3. StagerInv'
    BY <1>a, <2>1, <2>2, Tasks DEF StagerInv, Staging
  <2>4. TaskInv'
    BY <1>a, <2>1, <2>2, Tasks DEF TaskInv, Staging
  <2> QED BY <2>3, <2>4 DEF ObserverInv
<1>3. ASSUME NEW id \in UpkeepID, V2!prepareIdentifier(id) PROVE ObserverInv'
  <2> DEFINE x == [id |-> IF id \in Unsplit THEN None ELSE id, head |-> task.head]
  <2>1. /\ task.pc = "stage" /\ task # V2!NoTask
        /\ UNCHANGED <<supervisor, taskStopped, started, aborted, leaked>>
    BY <1>3, Tasks DEF V2!prepareIdentifier
  <2>2. x \in Identifier /\ x.head = task.head
    BY <1>a, <2>1 DEF StagerInv, Staging, Identifier
  <2>3. stager' = [stager EXCEPT !.nextIDs = @ \cup {x}]
    BY <1>3 DEF V2!prepareIdentifier, V2!Staged
  <2> HIDE DEF x
  <2>4. stager' = [currentBlock |-> stager.currentBlock, currentIDs |-> stager.currentIDs,
                   nextBlock |-> stager.nextBlock, nextIDs |-> stager.nextIDs \cup {x}]
    BY <1>a, <2>3 DEF TaskInv, Stager
  <2>5. stager' \in Stager
    BY <1>a, <2>2, <2>4 DEF TaskInv, Stager
  <2>6. task' \in Task /\ task'.pc = "stage" /\ task'.head = task.head
    <3>1. task' = [task EXCEPT !.ids = @ \ {id}]
      BY <1>3 DEF V2!prepareIdentifier
    <3> QED BY <1>a, <2>1, <3>1 DEF TaskInv, Task
  <2>7. StagerInv'
    BY <1>a, <2>1, <2>2, <2>4, <2>6 DEF StagerInv, Staging
  <2>8. TaskInv'
    BY <1>a, <2>1, <2>5, <2>6 DEF TaskInv, Staging
  <2> QED BY <2>7, <2>8 DEF ObserverInv
<1>4. CASE V2!advance
  <2>1. stager' = [currentBlock |-> stager.nextBlock, currentIDs |-> stager.nextIDs,
                   nextBlock |-> stager.nextBlock, nextIDs |-> {}]
    BY <1>4, <1>a DEF V2!advance, V2!Advanced, TaskInv, Stager
  <2>2. stager' \in Stager
    BY <1>a, <2>1 DEF TaskInv, Stager
  <2>3. /\ task.pc = "stage" /\ task # V2!NoTask /\ task' = V2!Idle
        /\ leaked' = aborted /\ UNCHANGED <<supervisor, taskStopped, started>>
    BY <1>4, Tasks DEF V2!advance
  <2>4. StagerInv'
    BY <1>a, <2>1, <2>3, Tasks DEF StagerInv, Staging
  <2>5. TaskInv'
    BY <1>a, <2>2, <2>3, Tasks DEF TaskInv, Staging
  <2> QED BY <2>4, <2>5 DEF ObserverInv
<1>5. CASE V2!CtxDone
  <2>1. /\ task = V2!Idle /\ task' = V2!NoTask /\ taskStopped' = "ended"
        /\ UNCHANGED <<stager, supervisor, started, aborted, leaked>>
    BY <1>5 DEF V2!CtxDone
  <2>2. StagerInv'
    BY <1>a, <2>1, Tasks DEF StagerInv, Staging
  <2>3. TaskInv'
    BY <1>a, <2>1, Tasks DEF TaskInv, Staging
  <2> QED BY <2>2, <2>3 DEF ObserverInv
<1>6. CASE V2!Panic
  <2>1. /\ task # V2!NoTask /\ task' = V2!NoTask /\ taskStopped' = "panic"
        /\ aborted' = IF task.head = None THEN aborted ELSE aborted \cup {task.head}
        /\ UNCHANGED <<stager, supervisor, started, leaked>>
    BY <1>6 DEF V2!Panic
  <2>2. Staging => task.head # None
    BY <1>a, V2ObserverAssumption DEF StagerInv, V2!ConstantsOK
  <2>3. StagerInv'
    BY <1>a, <2>1, <2>2, Tasks DEF StagerInv, Staging
  <2>4. TaskInv'
    BY <1>a, <2>1, Tasks DEF TaskInv, Staging
  <2> QED BY <2>3, <2>4 DEF ObserverInv
<1>7. CASE V2!serviceStart \/ V2!serviceStop \/ V2!Close
  <2>1. UNCHANGED <<stager, task, aborted, leaked>>
    BY <1>7 DEF V2!serviceStart, V2!serviceStop, V2!Close
  <2>2. TaskInv'
    BY <1>7, <1>a, <2>1, StagerStays
    DEF V2!serviceStart, V2!serviceStop, V2!Close, TaskInv
  <2> QED BY <2>1, <2>2, StagerStays DEF ObserverInv
<1>8. CASE V2!coolDown \/ V2!Start
  <2>1. /\ task = V2!NoTask /\ taskStopped = "none" /\ task' = V2!Idle
        /\ supervisor' = "watching" /\ started'
        /\ UNCHANGED <<stager, taskStopped, aborted, leaked>>
    BY <1>8, <1>a, Tasks DEF V2!coolDown, V2!Start, V2!run, V2!RecoverableStart, TaskInv
  <2>2. StagerInv'
    BY <1>a, <2>1, Tasks DEF StagerInv, Staging
  <2>3. TaskInv'
    BY <1>a, <2>1, Tasks DEF TaskInv, Staging
  <2> QED BY <2>2, <2>3 DEF ObserverInv
<1>9. CASE UNCHANGED V2!observerVars
  BY <1>9 DEF V2!observerVars, ObserverInv, StagerInv, TaskInv, Staging
<1> QED BY <1>1, <1>2, <1>3, <1>4, <1>5, <1>6, <1>7, <1>8, <1>9 DEF V2!ObserverNext, V2!TaskStep

\* Whatever Observe returns, it was found eligible at the head it is returned with or
\* at one that panicked before that, however heads, failures, panics, restarts and the
\* close of the observer follow each other.
THEOREM AlwaysObservedTogether == V2!ObserverSpec => []ObservedTogether
<1>1. ObserverInv => ObservedTogether
  BY DEF ObserverInv, StagerInv, ObservedTogether, V2!ObservedTogether, V2!Observe
<1> QED BY <1>1, ObserverInitInv, ObserverNextInv, PTL DEF V2!ObserverSpec
=============================================================================
