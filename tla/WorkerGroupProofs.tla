-------------------------- MODULE WorkerGroupProofs --------------------------
(***************************************************************************)
(* A call of RunJobs (pkg/util/worker.go) implements JobRun, and its wait  *)
(* group counts the items under way, for every number of calls, jobs and   *)
(* workers.                                                                *)
(*                                                                         *)
(* The invariant follows an item through the group: it is in one place at  *)
(* a time (the input channel, the queue, a worker, the results of its run, *)
(* the reader's hand), it was submitted and its result not handled.  So    *)
(* each result is handled once, and a wait group at zero means that all    *)
(* are.                                                                    *)
(***************************************************************************)
EXTENDS WorkerGroup, FiniteSetTheorems, TLAPS

\* What is used of cardinalities.
Counting ==
  /\ \A n \in Int : IsFiniteSet(1..n)
  /\ \A S : IsFiniteSet(S) =>
       /\ Cardinality(S) \in Nat /\ (Cardinality(S) = 0 <=> S = {})
       /\ \A T \in SUBSET S : IsFiniteSet(T)
       /\ \A x : /\ x \notin S => Cardinality(S \cup {x}) = Cardinality(S) + 1
                 /\ x \in S => Cardinality(S \ {x}) = Cardinality(S) - 1

\* The cardinality of a finite set, of one more and of one less.
LEMMA CountingHolds == Counting
PROOF
  <1>1. \A n \in Int : IsFiniteSet(1..n)
    BY FS_Interval
  <1>2. ASSUME NEW S, IsFiniteSet(S)
        PROVE  /\ Cardinality(S) \in Nat /\ (Cardinality(S) = 0 <=> S = {})
               /\ \A T \in SUBSET S : IsFiniteSet(T)
    BY <1>2, FS_CardinalityType, FS_EmptySet, FS_Subset
  <1>3. ASSUME NEW S, IsFiniteSet(S), NEW x
        PROVE  /\ x \notin S => Cardinality(S \cup {x}) = Cardinality(S) + 1
               /\ x \in S => Cardinality(S \ {x}) = Cardinality(S) - 1
    BY <1>3, FS_AddElement, FS_RemoveElement
  <1> QED
    BY <1>1, <1>2, <1>3 DEF Counting

Has(s, x) == \E k \in 1..Len(s) : s[k] = x
Distinct(s) == \A k, l \in 1..Len(s) : s[k] = s[l] => k = l

\* Adding to the queue.
LEMMA AppendOne ==
  ASSUME NEW s \in Seq(Item), NEW x \in Item
  PROVE  /\ Append(s, x) \in Seq(Item)
         /\ \A y : Has(Append(s, x), y) <=> Has(s, y) \/ y = x
         /\ Distinct(s) /\ ~Has(s, x) => Distinct(Append(s, x))
PROOF
  <1>1. /\ Append(s, x) \in Seq(Item) /\ Len(Append(s, x)) = Len(s) + 1 /\ Len(s) \in Nat
        /\ \A k \in 1..Len(s) : Append(s, x)[k] = s[k]
        /\ Append(s, x)[Len(s) + 1] = x
    OBVIOUS
  <1> DEFINE t == Append(s, x)
  <1> HIDE DEF t
  <1>2. \A y : Has(t, y) <=> Has(s, y) \/ y = x
    BY <1>1 DEF Has, t
  <1>3. ASSUME Distinct(s), ~Has(s, x) PROVE Distinct(t)
    BY <1>1, <1>3 DEF Has, Distinct, t
  <1> QED
    BY <1>1, <1>2, <1>3 DEF t

\* Taking the head of a sequence.
LEMMA TakeHead ==
  ASSUME NEW s \in Seq(Item), s # <<>>
  PROVE  /\ Tail(s) \in Seq(Item) /\ Head(s) \in Item
         /\ \A y : Has(s, y) <=> Has(Tail(s), y) \/ y = Head(s)
         /\ Distinct(s) => Distinct(Tail(s)) /\ ~Has(Tail(s), Head(s))
PROOF
  <1>1. /\ Tail(s) \in Seq(Item) /\ Len(s) \in Nat /\ Len(s) >= 1 /\ Len(Tail(s)) = Len(s) - 1
        /\ \A k \in 1..Len(s) - 1 : Tail(s)[k] = s[k + 1]
        /\ Head(s) = s[1] /\ Head(s) \in Item
    OBVIOUS
  <1> DEFINE t == Tail(s)
             h == Head(s)
  <1> HIDE DEF t, h
  <1>2. ASSUME NEW y PROVE Has(s, y) <=> Has(t, y) \/ y = h
    <2>1. ASSUME NEW k \in 1..Len(s), s[k] = y PROVE Has(t, y) \/ y = h
      <3>1. CASE k = 1
        BY <1>1, <2>1, <3>1 DEF h
      <3>2. CASE k # 1
        <4>1. k - 1 \in 1..Len(t) /\ t[k - 1] = y
          BY <1>1, <2>1, <3>2 DEF t
        <4> QED
          BY <4>1 DEF Has
      <3> QED
        BY <3>1, <3>2
    <2>2. ASSUME NEW k \in 1..Len(t), t[k] = y PROVE Has(s, y)
      <3>1. k + 1 \in 1..Len(s) /\ s[k + 1] = y
        BY <1>1, <2>2 DEF t
      <3> QED
        BY <3>1 DEF Has
    <2>3. Has(s, h)
      BY <1>1 DEF Has, h
    <2> QED
      BY <2>1, <2>2, <2>3 DEF Has
  <1>3. ASSUME Distinct(s) PROVE Distinct(t) /\ ~Has(t, h)
    <2>1. \A k \in 1..Len(t) : k + 1 \in 1..Len(s) /\ t[k] = s[k + 1] /\ k + 1 # 1
      BY <1>1 DEF t
    <2>2. 1 \in 1..Len(s) /\ h = s[1]
      BY <1>1 DEF h
    <2>3. ~Has(t, h)
      BY <1>3, <2>1, <2>2 DEF Has, Distinct
    <2>4. Distinct(t)
      BY <1>3, <2>1 DEF Distinct
    <2> QED
      BY <2>3, <2>4
  <1> QED
    BY <1>1, <1>2, <1>3 DEF t, h

\* A new result comes first.
LEMMA PutFirst ==
  ASSUME NEW s \in Seq(Item), NEW x \in Item
  PROVE  /\ <<x>> \o s \in Seq(Item)
         /\ \A y : Has(<<x>> \o s, y) <=> Has(s, y) \/ y = x
         /\ Distinct(s) /\ ~Has(s, x) => Distinct(<<x>> \o s)
PROOF
  <1>1. /\ <<x>> \o s \in Seq(Item) /\ Len(<<x>> \o s) = Len(s) + 1 /\ Len(s) \in Nat
        /\ \A k \in 1..Len(s) + 1 : (<<x>> \o s)[k] = IF k = 1 THEN x ELSE s[k - 1]
    OBVIOUS
  <1> DEFINE t == <<x>> \o s
  <1> HIDE DEF t
  <1>2. t # <<>> /\ t \in Seq(Item) /\ Len(t) = Len(s) + 1 /\ t[1] = x
    BY <1>1 DEF t
  <1>3. \A k \in 1..Len(s) : k + 1 \in 1..Len(t) /\ t[k + 1] = s[k]
    BY <1>1 DEF t
  <1>4. \A k \in 1..Len(t) : k = 1 \/ (k - 1 \in 1..Len(s) /\ t[k] = s[k - 1])
    BY <1>1 DEF t
  <1>5. \A y : Has(t, y) <=> Has(s, y) \/ y = x
    <2>1. \A y : Has(t, y) => Has(s, y) \/ y = x
      BY <1>2, <1>4 DEF Has
    <2>2. \A y : Has(s, y) => Has(t, y)
      BY <1>3 DEF Has
    <2>3. Has(t, x)
      BY <1>1, <1>2 DEF Has
    <2> QED
      BY <2>1, <2>2, <2>3
  <1>6. ASSUME Distinct(s), ~Has(s, x) PROVE Distinct(t)
    BY <1>1, <1>2, <1>4, <1>6 DEF Has, Distinct
  <1> QED
    BY <1>1, <1>5, <1>6 DEF t

\* The order of the results is turned.
LEMMA Reversed ==
  ASSUME NEW s \in Seq(Item)
  PROVE  /\ OldestFirst(s) \in Seq(Item)
         /\ \A y : Has(OldestFirst(s), y) <=> Has(s, y)
         /\ Distinct(s) => Distinct(OldestFirst(s))
PROOF
  <1>1. /\ OldestFirst(s) \in Seq(Item) /\ Len(OldestFirst(s)) = Len(s) /\ Len(s) \in Nat
        /\ \A k \in 1..Len(s) : OldestFirst(s)[k] = s[(Len(s) - k) + 1]
    BY DEF OldestFirst
  <1>2. \A k \in 1..Len(s) : /\ (Len(s) - k) + 1 \in 1..Len(s)
                             /\ (Len(s) - ((Len(s) - k) + 1)) + 1 = k
    BY <1>1
  <1> DEFINE t == OldestFirst(s)
  <1> HIDE DEF t
  <1>3. \A y : Has(t, y) <=> Has(s, y)
    <2>1. \A k \in 1..Len(s) : t[(Len(s) - k) + 1] = s[k]
      BY <1>1, <1>2 DEF t
    <2> QED
      BY Zenon, <1>1, <1>2, <2>1 DEF Has, t
  <1>4. ASSUME Distinct(s) PROVE Distinct(t)
    <2> SUFFICES ASSUME NEW k \in 1..Len(s), NEW l \in 1..Len(s), t[k] = t[l]
                 PROVE  k = l
      BY <1>1 DEF Distinct, t
    <2>1. (Len(s) - k) + 1 = (Len(s) - l) + 1
      BY Zenon, <1>1, <1>2, <1>4 DEF Distinct, t
    <2> QED
      BY <1>1, <2>1
  <1> QED
    BY <1>1, <1>3, <1>4 DEF t

-----------------------------------------------------------------------------
(* The inductive invariant.                                                *)

CallerType == [pc : {"next", "send", "wait", "close", "done"}, next : Nat, wait : Nat,
               ended : BOOLEAN]
ReaderType == [pc : {"notify", "select", "results", "handle", "done"},
               todo : Seq(Item), handled : SUBSET Nat]

\* The results of a run that no reader has taken.
Stored(g) == IF resultData[g] = None THEN <<>> ELSE resultData[g]

\* The job was submitted and its result not handled.
Open(x) == x[2] \in Submitted(x[1]) \ reader[x[1]].handled

\* An item is in one place at most, and open while it is in one.
ItemInv(x) ==
  /\ Has(input, x) => /\ Open(x) /\ ~Has(queue, x) /\ x \notin running
                      /\ ~Has(Stored(x[1]), x) /\ ~Has(reader[x[1]].todo, x)
  /\ Has(queue, x) => /\ Open(x) /\ x \notin running
                      /\ ~Has(Stored(x[1]), x) /\ ~Has(reader[x[1]].todo, x)
  /\ x \in running => Open(x) /\ ~Has(Stored(x[1]), x) /\ ~Has(reader[x[1]].todo, x)
  /\ Has(Stored(x[1]), x) => Open(x) /\ ~Has(reader[x[1]].todo, x)
  /\ Has(reader[x[1]].todo, x) => Open(x)

\* No place holds an item twice, and results are kept with their run.
PlaceInv ==
  /\ Len(input) <= 1 /\ Distinct(queue)
  /\ \A g \in Group : /\ Distinct(Stored(g)) /\ Distinct(reader[g].todo)
                      /\ \A x \in Item : Has(Stored(g), x) \/ Has(reader[g].todo, x) => x[1] = g

Sending(g) == IF caller[g].pc = "send" THEN 1 ELSE 0
Unhandled(g) == Submitted(g) \ reader[g].handled

\* The wait group counts the jobs submitted and not handled, and the one being sent.
RunInv(g) ==
  /\ caller[g].next >= 1 /\ caller[g].next <= Jobs[g] + 1
  /\ caller[g].pc = "send" => caller[g].next <= Jobs[g]
  /\ reader[g].handled \subseteq Submitted(g)
  /\ caller[g].wait = Cardinality(Unhandled(g)) + Sending(g)
  /\ caller[g].pc \in {"close", "done"} => Unhandled(g) = {}
  /\ reader[g].pc # "handle" => reader[g].todo = <<>>

Inv ==
  /\ TypeOK /\ PlaceInv
  /\ \A x \in Item : ItemInv(x)
  /\ \A g \in Group : RunInv(g)

\* The jobs submitted and not handled are finitely many.
LEMMA UnhandledFinite ==
  ASSUME TypeOK, NEW g \in Group
  PROVE  IsFiniteSet(Unhandled(g)) /\ Cardinality(Unhandled(g)) \in Nat
PROOF
  <1>1. 1..(caller[g].next - 1) \in SUBSET Int /\ caller[g].next - 1 \in Int
    BY DEF TypeOK
  <1>2. IsFiniteSet(Submitted(g))
    BY <1>1, CountingHolds DEF Submitted, Counting
  <1>3. IsFiniteSet(Unhandled(g))
    BY <1>2, CountingHolds DEF Unhandled, Counting
  <1> QED
    BY <1>3, CountingHolds DEF Counting

\* What holds of the items in a state holds in one with the same places.
LEMMA PlacesSame ==
  ASSUME PlaceInv, \A x \in Item : ItemInv(x), UNCHANGED <<input, queue, running>>,
         \A g \in Group : /\ Stored(g)' = Stored(g) /\ reader'[g].todo = reader[g].todo
                          /\ reader'[g].handled = reader[g].handled
                          /\ caller'[g].next = caller[g].next
  PROVE  PlaceInv' /\ \A x \in Item : ItemInv(x)'
PROOF
  <1>1. PlaceInv'
    BY DEF PlaceInv
  <1>2. ASSUME NEW x \in Item PROVE ItemInv(x)'
    <2>1. x[1] \in Group
      BY DEF Item
    <2>2. Open(x)' <=> Open(x)
      BY <2>1 DEF Open, Submitted
    <2> QED
      BY <2>1, <2>2 DEF ItemInv
  <1> QED
    BY <1>1, <1>2

\* And so for a run.
LEMMA RunSame ==
  ASSUME NEW g \in Group, RunInv(g), reader'[g] = reader[g],
         caller'[g].pc = caller[g].pc, caller'[g].next = caller[g].next,
         caller'[g].wait = caller[g].wait
  PROVE  RunInv(g)'
  BY DEF RunInv, Submitted, Unhandled, Sending

-----------------------------------------------------------------------------
(* The caller.                                                             *)

\* The context of a call ends.
WithEnded(old, g, c) == [old EXCEPT ![g].ended = c]

LEMMA SetEnded ==
  ASSUME NEW old \in [Group -> CallerType], NEW g \in Group, NEW c \in BOOLEAN
  PROVE  /\ WithEnded(old, g, c) \in [Group -> CallerType]
         /\ \A h \in Group : /\ WithEnded(old, g, c)[h].pc = old[h].pc
                             /\ WithEnded(old, g, c)[h].next = old[h].next
                             /\ WithEnded(old, g, c)[h].wait = old[h].wait
  BY DEF CallerType, WithEnded

\* The caller goes on, and changes one of its counters.
WithWait(old, g, p, w) == [old EXCEPT ![g].pc = p, ![g].wait = w]
WithNext(old, g, p, n) == [old EXCEPT ![g].pc = p, ![g].next = n]

LEMMA SetCaller ==
  ASSUME NEW old \in [Group -> CallerType], NEW g \in Group, NEW n \in Nat,
         NEW p \in {"next", "send", "wait", "close", "done"}
  PROVE  /\ WithWait(old, g, p, n) \in [Group -> CallerType]
         /\ WithNext(old, g, p, n) \in [Group -> CallerType]
         /\ \A h \in Group \ {g} : /\ WithWait(old, g, p, n)[h] = old[h]
                                   /\ WithNext(old, g, p, n)[h] = old[h]
         /\ WithWait(old, g, p, n)[g].pc = p /\ WithNext(old, g, p, n)[g].pc = p
         /\ WithWait(old, g, p, n)[g].wait = n /\ WithWait(old, g, p, n)[g].next = old[g].next
         /\ WithNext(old, g, p, n)[g].next = n /\ WithNext(old, g, p, n)[g].wait = old[g].wait
  BY Zenon DEF CallerType, WithWait, WithNext

\* Cancel.
LEMMA CancelKeeps == ASSUME Inv, NEW g \in Group, Cancel(g) PROVE Inv'
PROOF
  <1>1. PICK c \in BOOLEAN : c = TRUE
    BY Zenon
  <1>2. caller' = WithEnded(caller, g, c) /\ UNCHANGED <<reader, input, queue, running, resultData>>
    BY <1>1 DEF Cancel, WithEnded, loops
  <1>3. /\ caller' \in [Group -> CallerType]
        /\ \A h \in Group : /\ caller'[h].pc = caller[h].pc /\ caller'[h].next = caller[h].next
                            /\ caller'[h].wait = caller[h].wait
    <2>1. caller \in [Group -> CallerType]
      BY DEF Inv, TypeOK, CallerType
    <2> QED
      BY <1>2, <2>1, SetEnded
  <1>4. TypeOK'
    BY <1>2, <1>3 DEF Inv, TypeOK, CallerType
  <1>5. \A h \in Group : Stored(h)' = Stored(h)
    BY <1>2 DEF Stored
  <1>6. PlaceInv' /\ \A x \in Item : ItemInv(x)'
    BY <1>2, <1>3, <1>5, PlacesSame DEF Inv
  <1>7. \A h \in Group : RunInv(h)'
    BY <1>2, <1>3, RunSame DEF Inv
  <1> QED
    BY <1>4, <1>6, <1>7 DEF Inv

\* NextJob: the wait group counts the job before it is sent.
LEMMA NextJobKeeps == ASSUME Inv, NEW g \in Group, NextJob(g) PROVE Inv'
PROOF
  <1>1. /\ UNCHANGED <<reader, input, queue, running>> /\ caller[g].pc = "next" /\ RunInv(g) /\ TypeOK
    BY DEF NextJob, loops, Inv
  <1>2. /\ caller' \in [Group -> CallerType]
        /\ \A h \in Group \ {g} : caller'[h] = caller[h]
        /\ caller'[g].next = caller[g].next
        /\ \/ caller'[g].pc = "wait" /\ caller'[g].wait = caller[g].wait
           \/ /\ caller'[g].pc = "send" /\ caller'[g].wait = caller[g].wait + 1
              /\ caller[g].next <= Jobs[g]
    <2>1. CASE caller' = [caller EXCEPT ![g].pc = "wait"]
      BY Zenon, <2>1 DEF Inv, TypeOK, CallerType
    <2>2. CASE /\ caller' = [caller EXCEPT ![g].pc = "send", ![g].wait = @ + 1]
               /\ ~(caller[g].next > Jobs[g])
      <3>1. caller[g].next \in Nat /\ Jobs[g] \in Nat
        BY <1>1, WorkerGroupAssumption DEF TypeOK
      <3>2. caller[g].next <= Jobs[g]
        BY <2>2, <3>1
      <3>3. caller \in [Group -> CallerType] /\ caller[g].wait + 1 \in Nat
        BY <1>1 DEF TypeOK, CallerType
      <3>4. PICK n \in Nat : n = caller[g].wait + 1
        BY <3>3
      <3>5. caller' = WithWait(caller, g, "send", n)
        BY <2>2, <3>4 DEF WithWait
      <3>6. /\ caller' \in [Group -> CallerType] /\ \A h \in Group \ {g} : caller'[h] = caller[h]
            /\ caller'[g].next = caller[g].next /\ caller'[g].pc = "send" /\ caller'[g].wait = n
        BY <3>3, <3>5, SetCaller
      <3> QED
        BY <3>2, <3>4, <3>6
    <2> QED
      BY <2>1, <2>2 DEF NextJob
  <1>3. /\ resultData' \in [Group -> Seq(Item) \cup {None}]
        /\ \A h \in Group : Stored(h)' = Stored(h)
    <2>1. CASE UNCHANGED resultData
      BY <2>1, <1>1 DEF TypeOK, Stored
    <2>2. CASE resultData' = [resultData EXCEPT ![g] = IF @ = None THEN <<>> ELSE @]
      <3>1. <<>> \in Seq(Item)
        OBVIOUS
      <3> QED
        BY <1>1, <2>2, <3>1 DEF TypeOK, Stored
    <2> QED
      BY <2>1, <2>2 DEF NextJob
  <1>4. TypeOK'
    BY <1>1, <1>2, <1>3 DEF TypeOK, CallerType
  <1>5. PlaceInv' /\ \A x \in Item : ItemInv(x)'
    BY <1>1, <1>2, <1>3, PlacesSame DEF Inv
  <1>6. RunInv(g)'
    <2>1. Cardinality(Unhandled(g)) \in Nat /\ Unhandled(g)' = Unhandled(g) /\ Submitted(g)' = Submitted(g)
      BY Zenon, <1>1, <1>2, UnhandledFinite DEF Unhandled, Submitted
    <2> QED
      BY <1>1, <1>2, <2>1 DEF RunInv, Sending
  <1>7. \A h \in Group \ {g} : RunInv(h)'
    BY <1>1, <1>2, RunSame DEF Inv
  <1> QED
    BY <1>4, <1>5, <1>6, <1>7 DEF Inv

\* SendFails, CloseEnd: the caller gives up a job, or returns.
LEMMA CallerStops == ASSUME Inv, NEW g \in Group, SendFails(g) \/ CloseEnd(g) PROVE Inv'
PROOF
  <1>1. /\ UNCHANGED <<reader, input, queue, running, resultData>> /\ RunInv(g) /\ TypeOK
    BY DEF SendFails, CloseEnd, loops, Inv
  <1>2. Cardinality(Unhandled(g)) \in Nat
    BY <1>1, UnhandledFinite
  <1>3. /\ caller' \in [Group -> CallerType]
        /\ \A h \in Group \ {g} : caller'[h] = caller[h]
        /\ caller'[g].next = caller[g].next
        /\ \/ /\ caller[g].pc = "send" /\ caller'[g].pc = "wait"
              /\ caller'[g].wait = caller[g].wait - 1
           \/ /\ caller[g].pc = "close" /\ caller'[g].pc = "done"
              /\ caller'[g].wait = caller[g].wait
    <2>1. CASE SendFails(g)
      <3>1. caller[g].wait - 1 \in Nat
        BY <1>1, <1>2, <2>1 DEF SendFails, RunInv, Sending
      <3>2. caller' = WithWait(caller, g, "wait", caller[g].wait - 1) /\ caller[g].pc = "send"
        BY <2>1 DEF SendFails, WithWait
      <3>3. caller \in [Group -> CallerType]
        BY <1>1 DEF TypeOK, CallerType
      <3> QED
        BY <3>1, <3>2, <3>3, SetCaller
    <2>2. CASE CloseEnd(g)
      <3>1. caller \in [Group -> CallerType] /\ caller[g].pc = "close"
        BY <1>1, <2>2 DEF TypeOK, CallerType, CloseEnd
      <3>2. PICK n \in Nat : n = caller[g].wait
        BY <3>1 DEF CallerType
      <3>3. caller' = [caller EXCEPT ![g].pc = "done"]
        BY <2>2 DEF CloseEnd
      <3>4. caller' = WithWait(caller, g, "done", n)
        BY <3>1, <3>2, <3>3 DEF WithWait, CallerType
      <3> QED
        BY <3>1, <3>2, <3>4, SetCaller
    <2> QED
      BY <2>1, <2>2
  <1>4. TypeOK'
    BY <1>1, <1>3 DEF TypeOK, CallerType
  <1>5. \A h \in Group : Stored(h)' = Stored(h)
    BY <1>1 DEF Stored
  <1>6. PlaceInv' /\ \A x \in Item : ItemInv(x)'
    BY <1>1, <1>3, <1>5, PlacesSame DEF Inv
  <1>7. RunInv(g)'
    <2>1. Unhandled(g)' = Unhandled(g) /\ Submitted(g)' = Submitted(g)
      BY <1>1, <1>3 DEF Unhandled, Submitted
    <2> QED
      BY <1>1, <1>2, <1>3, <2>1 DEF RunInv, Sending
  <1>8. \A h \in Group \ {g} : RunInv(h)'
    BY <1>1, <1>3, RunSame DEF Inv
  <1> QED
    BY <1>4, <1>6, <1>7, <1>8 DEF Inv

\* Two items with the same run and job are the same.
LEMMA ItemEqual ==
  ASSUME NEW x \in Item, NEW y \in Item, x[1] = y[1], x[2] = y[2]
  PROVE  x = y
  BY DEF Item

\* Send: the item is a new one.
LEMMA SendKeeps == ASSUME Inv, NEW g \in Group, Send(g) PROVE Inv'
PROOF
  <1> DEFINE n == caller[g].next
  <1>0. PICK x \in Item : x = <<g, n>>
    BY Zenon DEF Inv, TypeOK, Item
  <1>1. /\ UNCHANGED <<reader, queue, running, resultData>> /\ RunInv(g) /\ TypeOK
        /\ caller[g].pc = "send" /\ input = <<>> /\ input' = <<x>> /\ n \in Nat /\ n >= 1
    BY <1>0 DEF Send, loops, Inv, TypeOK, RunInv
  <1>2. /\ caller' \in [Group -> CallerType]
        /\ \A h \in Group \ {g} : caller'[h] = caller[h]
        /\ caller'[g].next = n + 1 /\ caller'[g].pc = "next" /\ caller'[g].wait = caller[g].wait
    <2>1. caller' = WithNext(caller, g, "next", n + 1) /\ n + 1 \in Nat
      BY <1>1 DEF Send, WithNext
    <2>2. caller \in [Group -> CallerType]
      BY <1>1 DEF TypeOK, CallerType
    <2> QED
      BY <2>1, <2>2, SetCaller
  <1>3. /\ input' \in Seq(Item) /\ Len(input') = 1 /\ \A y : Has(input', y) <=> y = x
    BY <1>1 DEF Has
  <1>4. TypeOK'
    BY <1>1, <1>2, <1>3 DEF TypeOK, CallerType
  <1>5. \A h \in Group : Stored(h)' = Stored(h)
    BY <1>1 DEF Stored
  <1>6. PlaceInv'
    BY <1>1, <1>3, <1>5 DEF Inv, PlaceInv
  <1>7. /\ Submitted(g)' = Submitted(g) \cup {n} /\ n \notin Submitted(g)
        /\ \A h \in Group \ {g} : Submitted(h)' = Submitted(h)
    BY <1>1, <1>2 DEF Submitted
  <1> HIDE DEF n
  <1>8. n \notin reader[g].handled
    BY <1>1, <1>7 DEF RunInv
  <1>9. ASSUME NEW y \in Item PROVE ItemInv(y)'
    <2>1. y[1] \in Group /\ ItemInv(y)
      BY DEF Inv, Item
    <2>2. Open(y) => Open(y)'
      BY <1>1, <1>7, <2>1 DEF Open
    <2>3. CASE y = x
      <3>1. y[1] = g /\ y[2] = n
        BY <1>0, <2>3
      <3>2. ~Open(y) /\ Open(y)'
        BY <1>1, <1>7, <1>8, <3>1 DEF Open
      <3> QED
        BY <1>1, <1>5, <2>1, <3>2 DEF ItemInv
    <2>4. CASE y # x
      BY <1>1, <1>3, <1>5, <2>1, <2>2, <2>4 DEF ItemInv
    <2> QED
      BY <2>3, <2>4
  <1>10. RunInv(g)'
    <2>1. Unhandled(g)' = Unhandled(g) \cup {n} /\ n \notin Unhandled(g)
      BY <1>1, <1>7, <1>8 DEF Unhandled
    <2>2. IsFiniteSet(Unhandled(g)) /\ Cardinality(Unhandled(g)) \in Nat
      BY <1>1, UnhandledFinite
    <2>3. Cardinality(Unhandled(g)') = Cardinality(Unhandled(g)) + 1
      BY <2>1, <2>2, CountingHolds DEF Counting
    <2>4. n + 1 >= 1 /\ n + 1 <= Jobs[g] + 1
      <3>1. Jobs[g] \in Nat /\ n <= Jobs[g]
        BY <1>1, WorkerGroupAssumption DEF RunInv, n
      <3> QED
        BY <1>1, <3>1
    <2>5. reader'[g].handled \subseteq Submitted(g)'
      BY <1>1, <1>7 DEF RunInv
    <2> QED
      BY <1>1, <1>2, <2>2, <2>3, <2>4, <2>5 DEF RunInv, Sending
  <1>11. \A h \in Group \ {g} : RunInv(h)'
    BY <1>1, <1>2, RunSame DEF Inv
  <1> QED
    BY <1>4, <1>6, <1>9, <1>10, <1>11 DEF Inv

\* RemoveGroup: the wait group is at zero, so every result was handled.
LEMMA RemoveGroupKeeps == ASSUME Inv, NEW g \in Group, RemoveGroup(g) PROVE Inv'
PROOF
  <1>1. /\ UNCHANGED <<reader, input, queue, running>> /\ RunInv(g) /\ TypeOK
        /\ caller[g].pc = "wait" /\ caller[g].wait = 0
        /\ resultData' = [resultData EXCEPT ![g] = None]
    BY DEF RemoveGroup, loops, Inv
  <1>2. /\ caller' \in [Group -> CallerType]
        /\ \A h \in Group \ {g} : caller'[h] = caller[h]
        /\ caller'[g].next = caller[g].next /\ caller'[g].pc = "close"
        /\ caller'[g].wait = caller[g].wait
    <2>1. caller \in [Group -> CallerType]
      BY <1>1 DEF TypeOK, CallerType
    <2>2. caller' = [caller EXCEPT ![g].pc = "close"]
      BY DEF RemoveGroup
    <2> QED
      BY <2>1, <2>2 DEF CallerType
  <1>3. /\ resultData' \in [Group -> Seq(Item) \cup {None}] /\ Stored(g)' = <<>>
        /\ \A h \in Group \ {g} : Stored(h)' = Stored(h)
    BY <1>1 DEF TypeOK, Stored
  <1>4. TypeOK'
    BY <1>1, <1>2, <1>3 DEF TypeOK, CallerType
  <1>5. \A y : ~Has(<<>>, y)
    BY DEF Has
  <1>6. PlaceInv'
    <2>1. Distinct(<<>>)
      BY DEF Distinct
    <2> QED
      BY <1>1, <1>3, <1>5, <2>1 DEF Inv, PlaceInv
  <1>7. ASSUME NEW y \in Item PROVE ItemInv(y)'
    <2>1. y[1] \in Group /\ ItemInv(y)
      BY DEF Inv, Item
    <2>2. Open(y)' <=> Open(y)
      BY <1>1, <1>2, <2>1 DEF Open, Submitted
    <2>3. Has(Stored(y[1])', y) => Has(Stored(y[1]), y)
      BY <1>3, <1>5, <2>1
    <2> QED
      BY <1>1, <2>1, <2>2, <2>3 DEF ItemInv
  <1>8. RunInv(g)'
    <2>1. Unhandled(g)' = Unhandled(g) /\ Submitted(g)' = Submitted(g)
      BY <1>1, <1>2 DEF Unhandled, Submitted
    <2>2. IsFiniteSet(Unhandled(g)) /\ Cardinality(Unhandled(g)) = 0
      BY <1>1, UnhandledFinite DEF RunInv, Sending
    <2>3. Unhandled(g) = {}
      BY <2>2, CountingHolds DEF Counting
    <2> QED
      BY <1>1, <1>2, <2>1, <2>3 DEF RunInv, Sending
  <1>9. \A h \in Group \ {g} : RunInv(h)'
    BY <1>1, <1>2, RunSame DEF Inv
  <1> QED
    BY <1>4, <1>6, <1>7, <1>8, <1>9 DEF Inv

-----------------------------------------------------------------------------
(* The results reader.                                                     *)

\* The reader goes on; it takes results in hand; it handles one.
WithPC(old, g, p) == [old EXCEPT ![g].pc = p]
WithTodo(old, g, p, t) == [old EXCEPT ![g].pc = p, ![g].todo = t]
WithHandled(old, g, t, d) == [old EXCEPT ![g].todo = t, ![g].handled = d]
WithCount(old, g, w) == [old EXCEPT ![g].wait = w]

\* What these updates of a reader change, and what they leave.
LEMMA SetPC ==
  ASSUME NEW old \in [Group -> ReaderType], NEW g \in Group,
         NEW p \in {"notify", "select", "results", "handle", "done"}
  PROVE  /\ WithPC(old, g, p) \in [Group -> ReaderType]
         /\ \A h \in Group \ {g} : WithPC(old, g, p)[h] = old[h]
         /\ WithPC(old, g, p)[g].pc = p
         /\ WithPC(old, g, p)[g].todo = old[g].todo
         /\ WithPC(old, g, p)[g].handled = old[g].handled
PROOF
  <1> DEFINE S == Seq(Item)
             R == [pc : {"notify", "select", "results", "handle", "done"},
                   todo : S, handled : SUBSET Nat]
  <1>1. R = ReaderType
    BY DEF ReaderType
  <1> HIDE DEF S
  <1>2. old \in [Group -> R]
    BY Zenon, <1>1
  <1>3. /\ WithPC(old, g, p) \in [Group -> R]
        /\ \A h \in Group \ {g} : WithPC(old, g, p)[h] = old[h]
        /\ WithPC(old, g, p)[g].pc = p
        /\ WithPC(old, g, p)[g].todo = old[g].todo
        /\ WithPC(old, g, p)[g].handled = old[g].handled
    BY <1>2 DEF WithPC
  <1> QED
    BY <1>1, <1>3

\* Results are taken in hand.
LEMMA SetTodo ==
  ASSUME NEW old \in [Group -> ReaderType], NEW g \in Group,
         NEW p \in {"notify", "select", "results", "handle", "done"},
         NEW t \in Seq(Item)
  PROVE  /\ WithTodo(old, g, p, t) \in [Group -> ReaderType]
         /\ \A h \in Group \ {g} : WithTodo(old, g, p, t)[h] = old[h]
         /\ WithTodo(old, g, p, t)[g].pc = p
         /\ WithTodo(old, g, p, t)[g].todo = t
         /\ WithTodo(old, g, p, t)[g].handled = old[g].handled
PROOF
  <1> DEFINE S == Seq(Item)
             R == [pc : {"notify", "select", "results", "handle", "done"},
                   todo : S, handled : SUBSET Nat]
  <1>1. R = ReaderType
    BY DEF ReaderType
  <1> HIDE DEF S
  <1>2. old \in [Group -> R]
    BY Zenon, <1>1
  <1>3. /\ WithTodo(old, g, p, t) \in [Group -> R]
        /\ \A h \in Group \ {g} : WithTodo(old, g, p, t)[h] = old[h]
        /\ WithTodo(old, g, p, t)[g].pc = p
        /\ WithTodo(old, g, p, t)[g].todo = t
        /\ WithTodo(old, g, p, t)[g].handled = old[g].handled
    BY Zenon, <1>2 DEF WithTodo, S
  <1> QED
    BY <1>1, <1>3

\* A result is handled.
LEMMA SetHandled ==
  ASSUME NEW old \in [Group -> ReaderType], NEW g \in Group,
         NEW t \in Seq(Item), NEW d \in SUBSET Nat
  PROVE  /\ WithHandled(old, g, t, d) \in [Group -> ReaderType]
         /\ \A h \in Group \ {g} : WithHandled(old, g, t, d)[h] = old[h]
         /\ WithHandled(old, g, t, d)[g].pc = old[g].pc
         /\ WithHandled(old, g, t, d)[g].todo = t
         /\ WithHandled(old, g, t, d)[g].handled = d
PROOF
  <1> DEFINE S == Seq(Item)
             R == [pc : {"notify", "select", "results", "handle", "done"},
                   todo : S, handled : SUBSET Nat]
  <1>1. R = ReaderType
    BY DEF ReaderType
  <1> HIDE DEF S
  <1>2. old \in [Group -> R]
    BY Zenon, <1>1
  <1>3. /\ WithHandled(old, g, t, d) \in [Group -> R]
        /\ \A h \in Group \ {g} : WithHandled(old, g, t, d)[h] = old[h]
        /\ WithHandled(old, g, t, d)[g].pc = old[g].pc
        /\ WithHandled(old, g, t, d)[g].todo = t
        /\ WithHandled(old, g, t, d)[g].handled = d
    BY Zenon, <1>2 DEF WithHandled, S
  <1> QED
    BY <1>1, <1>3

\* The wait group counts down.
LEMMA SetCount ==
  ASSUME NEW old \in [Group -> CallerType], NEW g \in Group, NEW w \in Nat
  PROVE  /\ WithCount(old, g, w) \in [Group -> CallerType]
         /\ \A h \in Group \ {g} : WithCount(old, g, w)[h] = old[h]
         /\ WithCount(old, g, w)[g].wait = w /\ WithCount(old, g, w)[g].pc = old[g].pc
         /\ WithCount(old, g, w)[g].next = old[g].next
  BY DEF CallerType, WithCount

\* The reader's steps that take and handle nothing.
LEMMA ReaderMoves ==
  ASSUME Inv, NEW g \in Group, NEW p \in {"notify", "select", "results", "done"},
         reader' = WithPC(reader, g, p), reader[g].todo = <<>>,
         UNCHANGED <<caller, input, queue, running, resultData>>
  PROVE  Inv'
PROOF
  <1>1. /\ reader' \in [Group -> ReaderType]
        /\ \A h \in Group \ {g} : reader'[h] = reader[h]
        /\ reader'[g].todo = reader[g].todo /\ reader'[g].handled = reader[g].handled
    <2>1. reader \in [Group -> ReaderType]
      BY DEF Inv, TypeOK, ReaderType
    <2> QED
      BY <2>1, SetPC
  <1>2. TypeOK'
    BY <1>1 DEF Inv, TypeOK, ReaderType
  <1>3. \A h \in Group : Stored(h)' = Stored(h)
    BY DEF Stored
  <1>4. PlaceInv' /\ \A x \in Item : ItemInv(x)'
    BY <1>1, <1>3, PlacesSame DEF Inv
  <1>5. RunInv(g)'
    BY Zenon, <1>1 DEF Inv, RunInv, Submitted, Unhandled, Sending
  <1>6. \A h \in Group \ {g} : RunInv(h)'
    BY <1>1, RunSame DEF Inv
  <1> QED
    BY <1>2, <1>4, <1>5, <1>6 DEF Inv

\* NotifyResult, Notified, ReaderEnds, and HandleResult after the last result.
LEMMA ReaderWaits ==
  ASSUME Inv, NEW g \in Group,
         \/ NotifyResult(g) \/ Notified(g) \/ ReaderEnds(g)
         \/ HandleResult(g) /\ reader[g].todo = <<>>
  PROVE  Inv'
PROOF
  <1>1. UNCHANGED <<caller, input, queue, running, resultData>>
    BY DEF NotifyResult, Notified, ReaderEnds, HandleResult, loops
  <1>2. PICK p \in {"notify", "select", "results", "done"} : reader' = WithPC(reader, g, p)
    BY DEF NotifyResult, Notified, ReaderEnds, HandleResult, WithPC
  <1>3. reader[g].todo = <<>>
    BY DEF NotifyResult, Notified, ReaderEnds, Inv, RunInv
  <1> QED
    BY <1>1, <1>2, <1>3, ReaderMoves

\* Results: the results of the run go into the reader's hand, which is empty.
LEMMA ResultsKeep == ASSUME Inv, NEW g \in Group, Results(g) PROVE Inv'
PROOF
  <1> DEFINE t == OldestFirst(Stored(g))
  <1>1. /\ UNCHANGED <<caller, input, queue, running>> /\ RunInv(g) /\ TypeOK /\ PlaceInv
        /\ reader[g].todo = <<>> /\ resultData' = [resultData EXCEPT ![g] = <<>>]
    BY DEF Results, loops, Inv, RunInv
  <1>2. Stored(g) \in Seq(Item) /\ <<>> \in Seq(Item)
    BY <1>1 DEF TypeOK, Stored
  <1>3. reader' = WithTodo(reader, g, "handle", t)
    <2>1. OldestFirst(<<>>) = <<>>
      BY DEF OldestFirst
    <2> QED
      BY Zenon, <2>1 DEF Results, Stored, WithTodo
  <1>4. /\ t \in Seq(Item) /\ Distinct(t) /\ \A y : Has(t, y) <=> Has(Stored(g), y)
    BY <1>1, <1>2, Reversed DEF PlaceInv
  <1> HIDE DEF t
  <1>5. /\ reader' \in [Group -> ReaderType]
        /\ \A h \in Group \ {g} : reader'[h] = reader[h]
        /\ reader'[g].pc = "handle" /\ reader'[g].todo = t
        /\ reader'[g].handled = reader[g].handled
    <2>1. reader \in [Group -> ReaderType]
      BY <1>1 DEF TypeOK, ReaderType
    <2> QED
      BY <1>3, <1>4, <2>1, SetTodo
  <1>6. /\ resultData' \in [Group -> Seq(Item) \cup {None}] /\ Stored(g)' = <<>>
        /\ \A h \in Group \ {g} : Stored(h)' = Stored(h)
    BY <1>1, <1>2 DEF TypeOK, Stored
  <1>7. TypeOK'
    BY <1>1, <1>5, <1>6 DEF TypeOK, ReaderType
  <1>8. (\A y : ~Has(<<>>, y)) /\ Distinct(<<>>)
    BY DEF Has, Distinct
  <1>9. PlaceInv'
    BY <1>1, <1>4, <1>5, <1>6, <1>8 DEF PlaceInv
  <1>10. ASSUME NEW y \in Item PROVE ItemInv(y)'
    <2>1. y[1] \in Group /\ ItemInv(y)
      BY DEF Inv, Item
    <2>2. Open(y)' <=> Open(y)
      BY <1>1, <1>5, <2>1 DEF Open, Submitted
    <2>3. CASE y[1] # g
      BY <1>1, <1>5, <1>6, <2>1, <2>2, <2>3 DEF ItemInv
    <2>4. CASE y[1] = g
      <3>1. ~Has(Stored(g)', y) /\ (Has(reader'[g].todo, y) <=> Has(Stored(g), y))
        BY <1>4, <1>5, <1>6, <1>8
      <3> QED
        BY <1>1, <2>1, <2>2, <2>4, <3>1 DEF ItemInv
    <2> QED
      BY <2>3, <2>4
  <1>11. RunInv(g)'
    BY <1>1, <1>5 DEF RunInv, Submitted, Unhandled, Sending
  <1>12. \A h \in Group \ {g} : RunInv(h)'
    BY <1>1, <1>5, RunSame DEF Inv
  <1> QED
    BY <1>7, <1>9, <1>10, <1>11, <1>12 DEF Inv

\* HandleResult: the result is of an open item, that is nowhere afterwards.
LEMMA HandleKeeps ==
  ASSUME Inv, NEW g \in Group, HandleResult(g), reader[g].todo # <<>>
  PROVE  Inv'
PROOF
  <1> DEFINE t == Tail(reader[g].todo)
             x == Head(reader[g].todo)
             j == x[2]
             d == reader[g].handled \cup {j}
  <1>1. /\ UNCHANGED <<input, queue, running, resultData>> /\ RunInv(g) /\ TypeOK /\ PlaceInv
        /\ reader[g].todo \in Seq(Item)
    BY DEF HandleResult, loops, Inv, TypeOK
  <1>2. /\ t \in Seq(Item) /\ x \in Item /\ Distinct(t) /\ ~Has(t, x)
        /\ \A y : Has(reader[g].todo, y) <=> Has(t, y) \/ y = x
    BY <1>1, TakeHead DEF PlaceInv
  <1>3. reader' = WithHandled(reader, g, t, d) /\ caller' = WithCount(caller, g, caller[g].wait - 1)
    BY DEF HandleResult, WithHandled, WithCount
  <1> HIDE DEF t, x
  <1>4. x[1] = g /\ j \in Submitted(g) \ reader[g].handled /\ j \in Nat
    <2>1. x[1] = g
      BY <1>1, <1>2 DEF PlaceInv
    <2>2. Open(x)
      BY <1>2, <2>1 DEF Inv, ItemInv
    <2>3. x[2] \in Nat
      BY <1>2 DEF Item
    <2> QED
      BY <2>1, <2>2, <2>3 DEF Open
  <1>5. j \in Unhandled(g) /\ IsFiniteSet(Unhandled(g)) /\ Cardinality(Unhandled(g)) \in Nat
    BY <1>1, <1>4, UnhandledFinite DEF Unhandled
  <1>6. /\ Cardinality(Unhandled(g) \ {j}) = Cardinality(Unhandled(g)) - 1
        /\ Cardinality(Unhandled(g) \ {j}) \in Nat
    <2>1. IsFiniteSet(Unhandled(g) \ {j})
      BY <1>5, CountingHolds DEF Counting
    <2> QED
      BY <1>5, <2>1, CountingHolds DEF Counting
  <1>7. caller[g].wait - 1 \in Nat
    BY <1>1, <1>5, <1>6 DEF RunInv, Sending
  <1> HIDE DEF j
  <1>8. d \in SUBSET Nat
    BY <1>1, <1>4 DEF TypeOK
  <1> HIDE DEF d
  <1>9. /\ reader' \in [Group -> ReaderType]
        /\ \A h \in Group \ {g} : reader'[h] = reader[h]
        /\ reader'[g].pc = reader[g].pc /\ reader'[g].todo = t /\ reader'[g].handled = d
    <2>1. reader \in [Group -> ReaderType]
      BY <1>1 DEF TypeOK, ReaderType
    <2> QED
      BY <1>2, <1>3, <1>8, <2>1, SetHandled
  <1>10. /\ caller' \in [Group -> CallerType]
         /\ \A h \in Group \ {g} : caller'[h] = caller[h]
         /\ caller'[g].wait = caller[g].wait - 1 /\ caller'[g].pc = caller[g].pc
         /\ caller'[g].next = caller[g].next
    <2>1. caller \in [Group -> CallerType]
      BY <1>1 DEF TypeOK, CallerType
    <2> QED
      BY <1>3, <1>7, <2>1, SetCount
  <1>11. TypeOK'
    BY <1>1, <1>9, <1>10 DEF TypeOK, ReaderType, CallerType
  <1>12. \A h \in Group : Stored(h)' = Stored(h) /\ Submitted(h)' = Submitted(h)
    BY <1>1, <1>10 DEF Stored, Submitted
  <1>13. PlaceInv'
    BY <1>1, <1>2, <1>9, <1>12 DEF PlaceInv
  <1>14. ASSUME NEW y \in Item PROVE ItemInv(y)'
    <2>1. y[1] \in Group /\ ItemInv(y)
      BY DEF Inv, Item
    <2>2. CASE y = x
      <3>1. /\ ~Has(input, y) /\ ~Has(queue, y) /\ y \notin running /\ ~Has(Stored(y[1]), y)
            /\ ~Has(reader'[y[1]].todo, y)
        BY <1>2, <1>4, <1>9, <2>1, <2>2 DEF ItemInv
      <3> QED
        BY Zenon, <1>1, <1>12, <2>1, <3>1 DEF ItemInv
    <2>3. CASE y # x
      <3>1. Open(y) => Open(y)'
        <4>1. CASE y[1] = g
          <5>1. y[2] # j
            BY <1>2, <1>4, <2>3, <4>1, ItemEqual DEF j
          <5> QED
            BY <1>9, <1>12, <4>1, <5>1 DEF Open, d
        <4>2. CASE y[1] # g
          BY <1>9, <1>12, <2>1, <4>2 DEF Open
        <4> QED
          BY <4>1, <4>2
      <3>2. Has(reader'[y[1]].todo, y) => Has(reader[y[1]].todo, y)
        BY <1>2, <1>9, <2>1
      <3> QED
        BY Zenon, <1>1, <1>12, <2>1, <3>1, <3>2 DEF ItemInv
    <2> QED
      BY <2>2, <2>3
  <1>15. RunInv(g)'
    <2>1. Unhandled(g)' = Unhandled(g) \ {j}
      BY <1>9, <1>12 DEF Unhandled, d
    <2>2. reader[g].pc = "handle"
      BY DEF HandleResult
    <2>3. reader'[g].handled \subseteq Submitted(g)'
      BY <1>1, <1>4, <1>9, <1>12 DEF RunInv, d
    <2>4. caller'[g].wait = Cardinality(Unhandled(g)') + Sending(g)'
      BY <1>1, <1>5, <1>6, <1>10, <2>1 DEF RunInv, Sending
    <2>5. caller'[g].pc \in {"close", "done"} => Unhandled(g)' = {}
      BY <1>1, <1>10, <2>1 DEF RunInv
    <2>6. /\ caller'[g].next >= 1 /\ caller'[g].next <= Jobs[g] + 1
          /\ caller'[g].pc = "send" => caller'[g].next <= Jobs[g]
          /\ reader'[g].pc = "handle"
      BY <1>1, <1>9, <1>10, <2>2 DEF RunInv
    <2> QED
      BY <2>3, <2>4, <2>5, <2>6 DEF RunInv
  <1>16. \A h \in Group \ {g} : RunInv(h)'
    BY <1>9, <1>10, RunSame DEF Inv
  <1> QED
    BY <1>11, <1>13, <1>14, <1>15, <1>16 DEF Inv

-----------------------------------------------------------------------------
(* The loops and the workers.                                              *)

\* NotifyInput, Process, QueueEmpty and the steps of Stop move no item.
LEMMA NothingMoves ==
  ASSUME Inv, UNCHANGED <<caller, reader, input, queue, running, resultData>>
  PROVE  Inv'
PROOF
  <1>1. TypeOK'
    BY DEF Inv, TypeOK
  <1>2. \A h \in Group : Stored(h)' = Stored(h)
    BY DEF Stored
  <1>3. PlaceInv' /\ \A x \in Item : ItemInv(x)'
    BY <1>2, PlacesSame DEF Inv
  <1>4. \A h \in Group : RunInv(h)'
    BY RunSame DEF Inv
  <1> QED
    BY <1>1, <1>3, <1>4 DEF Inv

\* QueueInput: from the input channel to the queue.
LEMMA QueueInputKeeps == ASSUME Inv, QueueInput PROVE Inv'
PROOF
  <1> DEFINE x == Head(input)
  <1>1. /\ UNCHANGED <<caller, reader, running, resultData>> /\ TypeOK /\ PlaceInv
        /\ input # <<>> /\ input' = <<>> /\ queue' = Append(queue, x)
    BY DEF QueueInput, runs, Inv
  <1>2. x \in Item /\ Has(input, x)
    BY <1>1, TakeHead DEF TypeOK
  <1> HIDE DEF x
  <1>3. ~Has(queue, x)
    BY <1>2 DEF Inv, ItemInv
  <1>4. /\ queue' \in Seq(Item) /\ Distinct(queue') /\ \A y : Has(queue', y) <=> Has(queue, y) \/ y = x
    BY <1>1, <1>2, <1>3, AppendOne DEF TypeOK, PlaceInv
  <1>5. input' \in Seq(Item) /\ Len(input') <= 1 /\ \A y : ~Has(input', y)
    BY <1>1 DEF Has
  <1>6. TypeOK'
    BY <1>1, <1>4, <1>5 DEF TypeOK
  <1>7. \A h \in Group : Stored(h)' = Stored(h) /\ Submitted(h)' = Submitted(h)
    BY <1>1 DEF Stored, Submitted
  <1>8. PlaceInv'
    BY <1>1, <1>4, <1>5, <1>7 DEF PlaceInv
  <1>9. ASSUME NEW y \in Item PROVE ItemInv(y)'
    <2>1. y[1] \in Group /\ ItemInv(y)
      BY DEF Inv, Item
    <2>2. Open(y)' <=> Open(y)
      BY <1>1, <1>7, <2>1 DEF Open
    <2> QED
      BY <1>1, <1>2, <1>4, <1>5, <1>7, <2>1, <2>2 DEF ItemInv
  <1>10. \A h \in Group : RunInv(h)'
    BY <1>1, RunSame DEF Inv
  <1> QED
    BY <1>6, <1>8, <1>9, <1>10 DEF Inv

\* DoJob: from the queue to a worker.
LEMMA DoJobKeeps == ASSUME Inv, DoJob PROVE Inv'
PROOF
  <1> DEFINE x == Head(queue)
  <1>1. /\ UNCHANGED <<caller, reader, input, resultData>> /\ TypeOK /\ PlaceInv
        /\ queue # <<>> /\ queue' = Tail(queue) /\ running' = running \cup {x}
    BY DEF DoJob, runs, Inv
  <1>2. /\ queue' \in Seq(Item) /\ x \in Item /\ Distinct(queue') /\ ~Has(queue', x)
        /\ \A y : Has(queue, y) <=> Has(queue', y) \/ y = x
    BY <1>1, TakeHead DEF TypeOK, PlaceInv
  <1> HIDE DEF x
  <1>3. TypeOK'
    BY <1>1, <1>2 DEF TypeOK
  <1>4. \A h \in Group : Stored(h)' = Stored(h) /\ Submitted(h)' = Submitted(h)
    BY <1>1 DEF Stored, Submitted
  <1>5. PlaceInv'
    BY <1>1, <1>2, <1>4 DEF PlaceInv
  <1>6. ASSUME NEW y \in Item PROVE ItemInv(y)'
    <2>1. y[1] \in Group /\ ItemInv(y)
      BY DEF Inv, Item
    <2>2. Open(y)' <=> Open(y)
      BY <1>1, <1>4, <2>1 DEF Open
    <2>3. y \in running' <=> y \in running \/ y = x
      BY <1>1
    <2> QED
      BY Zenon, <1>1, <1>2, <1>4, <2>1, <2>2, <2>3 DEF ItemInv
  <1>7. \A h \in Group : RunInv(h)'
    BY <1>1, RunSame DEF Inv
  <1> QED
    BY <1>3, <1>5, <1>6, <1>7 DEF Inv

\* StoreResult: from a worker to the results of the run.
LEMMA StoreResultKeeps == ASSUME Inv, NEW x \in running, StoreResult(x) PROVE Inv'
PROOF
  <1>0. x \in Item /\ TypeOK /\ PlaceInv
    BY DEF Inv, TypeOK
  <1>1. PICK g \in Group : g = x[1]
    BY <1>0 DEF Item
  <1>2. /\ UNCHANGED <<caller, reader, input, queue>> /\ running' = running \ {x}
        /\ resultData' = [resultData EXCEPT ![g] = <<x>> \o Stored(g)]
    BY <1>1 DEF StoreResult, Stored
  <1>3. Stored(g) \in Seq(Item) /\ Distinct(Stored(g)) /\ ~Has(Stored(g), x)
    <2>1. Stored(g) \in Seq(Item)
      BY <1>0 DEF TypeOK, Stored
    <2>2. Distinct(Stored(g))
      BY <1>0 DEF PlaceInv
    <2>3. ~Has(Stored(g), x)
      BY <1>0, <1>1 DEF Inv, ItemInv
    <2> QED
      BY <2>1, <2>2, <2>3
  <1> DEFINE t == <<x>> \o Stored(g)
  <1>4. t \in Seq(Item) /\ Distinct(t) /\ \A y : Has(t, y) <=> Has(Stored(g), y) \/ y = x
    BY <1>0, <1>3, PutFirst
  <1> HIDE DEF t
  <1>5. resultData' = [resultData EXCEPT ![g] = t]
    BY <1>2 DEF t
  <1>6. /\ resultData' \in [Group -> Seq(Item) \cup {None}]
        /\ \A h \in Group \ {g} : Stored(h)' = Stored(h)
    BY <1>0, <1>4, <1>5 DEF TypeOK, Stored
  <1>7. Stored(g)' \in {t, <<>>}
    BY <1>0, <1>5 DEF TypeOK, Stored
  <1>8. /\ Distinct(Stored(g)') /\ \A y : Has(Stored(g)', y) => Has(Stored(g), y) \/ y = x
    <2>1. (\A y : ~Has(<<>>, y)) /\ Distinct(<<>>)
      BY DEF Has, Distinct
    <2> QED
      BY <1>4, <1>7, <2>1
  <1>9. TypeOK'
    BY <1>0, <1>2, <1>6 DEF TypeOK
  <1>10. PlaceInv'
    BY <1>0, <1>1, <1>2, <1>6, <1>8 DEF PlaceInv
  <1>11. ASSUME NEW y \in Item PROVE ItemInv(y)'
    <2>1. y[1] \in Group /\ ItemInv(y)
      BY DEF Inv, Item
    <2>2. Open(y)' <=> Open(y)
      BY <1>2, <2>1 DEF Open, Submitted
    <2>3. CASE y = x
      <3>1. y \in running /\ y \notin running'
        BY <1>2, <2>3
      <3>2. Open(y) /\ ~Has(input, y) /\ ~Has(queue, y) /\ ~Has(reader[y[1]].todo, y)
        BY <2>1, <3>1 DEF ItemInv
      <3> QED
        BY <1>2, <2>2, <3>1, <3>2 DEF ItemInv
    <2>4. CASE y # x
      <3>1. Has(Stored(y[1])', y) => Has(Stored(y[1]), y)
        BY <1>6, <1>8, <2>1, <2>4
      <3>2. y \in running' <=> y \in running
        BY <1>2, <2>4
      <3> QED
        BY Zenon, <1>2, <2>1, <2>2, <3>1, <3>2 DEF ItemInv
    <2> QED
      BY <2>3, <2>4
  <1>12. \A h \in Group : RunInv(h)'
    BY <1>2, RunSame DEF Inv
  <1> QED
    BY <1>9, <1>10, <1>11, <1>12 DEF Inv

-----------------------------------------------------------------------------
(* The invariant.                                                          *)

\* It holds from the start.
LEMMA InitInv == Init => Inv
PROOF
  <1> SUFFICES ASSUME Init PROVE Inv
    OBVIOUS
  <1>1. TypeOK
    <2> DEFINE S == Seq(Item)
    <2>1. <<>> \in S
      OBVIOUS
    <2> HIDE DEF S
    <2>2. caller \in [Group -> CallerType]
      BY DEF Init, CallerType
    <2>3. reader \in [Group -> [pc : {"notify", "select", "results", "handle", "done"},
                               todo : S, handled : SUBSET Nat]]
      BY <2>1 DEF Init
    <2>4. input \in S /\ queue \in S /\ running \subseteq Item /\ resultData \in [Group -> S \cup {None}]
      BY <2>1 DEF Init
    <2> QED
      BY <2>2, <2>3, <2>4 DEF TypeOK, CallerType, S
  <1>2. /\ input = <<>> /\ queue = <<>> /\ running = {}
        /\ \A g \in Group : /\ Stored(g) = <<>> /\ reader[g].todo = <<>> /\ reader[g].handled = {}
                            /\ caller[g].pc = "next" /\ caller[g].next = 1 /\ caller[g].wait = 0
    BY DEF Init, Stored
  <1>3. (\A y : ~Has(<<>>, y)) /\ Distinct(<<>>) /\ Len(<<>>) <= 1
    BY DEF Has, Distinct
  <1>4. PlaceInv
    BY <1>2, <1>3 DEF PlaceInv
  <1>5. ASSUME NEW x \in Item PROVE ItemInv(x)
    <2>1. x[1] \in Group
      BY DEF Item
    <2> QED
      BY <1>2, <1>3, <2>1 DEF ItemInv
  <1>6. ASSUME NEW g \in Group PROVE RunInv(g)
    <2>1. Submitted(g) = {} /\ Unhandled(g) = {}
      BY <1>2 DEF Submitted, Unhandled
    <2>2. Cardinality({}) = 0
      <3>1. IsFiniteSet(1..0) /\ 1..0 = {}
        BY CountingHolds DEF Counting
      <3> QED
        BY <3>1, CountingHolds DEF Counting
    <2>3. 1 <= Jobs[g] + 1
      BY WorkerGroupAssumption
    <2> QED
      BY <1>2, <2>1, <2>2, <2>3 DEF RunInv, Sending
  <1> QED
    BY <1>1, <1>4, <1>5, <1>6 DEF Inv

\* Every step keeps it.
LEMMA NextInv == Inv /\ [Next]_vars => Inv'
PROOF
  <1> SUFFICES ASSUME Inv, [Next]_vars PROVE Inv'
    OBVIOUS
  <1>1. ASSUME NEW g \in Group, Cancel(g) \/ Caller(g) PROVE Inv'
    BY <1>1, CancelKeeps, NextJobKeeps, SendKeeps, CallerStops, RemoveGroupKeeps DEF Caller
  <1>2. ASSUME NEW g \in Group, Reader(g) PROVE Inv'
    BY <1>2, ReaderWaits, ResultsKeep, HandleKeeps DEF Reader
  <1>3. CASE NotifyInput \/ Process \/ QueueEmpty \/ Stopping \/ UNCHANGED vars
    <2>1. UNCHANGED <<caller, reader, input, queue, running, resultData>>
      BY <1>3 DEF NotifyInput, Process, QueueEmpty, Stopping, Stop, StopInputs, StopProcessing,
         vars, runs, loops
    <2> QED
      BY <2>1, NothingMoves
  <1> QED
    BY <1>1, <1>2, <1>3, QueueInputKeeps, DoJobKeeps, StoreResultKeeps
    DEF Next, Work, Queuing, Processing

-----------------------------------------------------------------------------
(* The refinement.                                                         *)

Returned(g) == caller[g].pc \in {"close", "done"}

\* A step that is none of JobRun's.
LEMMA Stutters ==
  ASSUME NEW g \in Group, caller'[g].next = caller[g].next,
         reader'[g].handled = reader[g].handled, Returned(g)' <=> Returned(g)
  PROVE  [Run(g)!Next]_(Run(g)!avars)
  BY DEF Run!avars, Submitted, Returned

\* Jobs submitted are jobs of the run.
LEMMA SubmittedJobs == ASSUME TypeOK, NEW g \in Group, RunInv(g) PROVE Submitted(g) \subseteq 1..Jobs[g]
PROOF
  <1>1. Jobs[g] \in Nat /\ caller[g].next \in Nat
    BY WorkerGroupAssumption DEF TypeOK
  <1> QED
    BY <1>1 DEF RunInv, Submitted

\* Send is Submit.
LEMMA SendSubmits ==
  ASSUME Inv, NEW g \in Group, Send(g)
  PROVE  \A h \in Group : [Run(h)!Next]_(Run(h)!avars)
PROOF
  <1> DEFINE n == caller[g].next
  <1>1. n \in Nat /\ n >= 1 /\ n <= Jobs[g] /\ Jobs[g] \in Nat /\ reader' = reader
        /\ caller[g].pc = "send"
    BY WorkerGroupAssumption DEF Inv, TypeOK, RunInv, Send
  <1>2. /\ \A h \in Group \ {g} : caller'[h] = caller[h]
        /\ caller'[g].next = n + 1 /\ caller'[g].pc = "next"
    <2>1. caller' = WithNext(caller, g, "next", n + 1) /\ n + 1 \in Nat
      BY <1>1 DEF Send, WithNext
    <2>2. caller \in [Group -> CallerType]
      BY DEF Inv, TypeOK, CallerType
    <2> QED
      BY <2>1, <2>2, SetCaller
  <1>3. \A h \in Group \ {g} : [Run(h)!Next]_(Run(h)!avars)
    BY <1>1, <1>2, Stutters DEF Returned
  <1>4. n \in 1..Jobs[g] /\ n \notin Submitted(g) /\ Submitted(g)' = Submitted(g) \cup {n}
    BY <1>1, <1>2 DEF Submitted
  <1>5. Run(g)!Submit(n)
    BY <1>1, <1>2, <1>4 DEF Run!Submit
  <1>6. Run(g)!Next
    BY <1>4, <1>5 DEF Run!Next
  <1> QED
    BY <1>3, <1>6

\* HandleResult is Handle: the result is one that was not handled, of a call that has
\* not returned.
LEMMA HandleHandles ==
  ASSUME Inv, NEW g \in Group, HandleResult(g), reader[g].todo # <<>>
  PROVE  \A h \in Group : [Run(h)!Next]_(Run(h)!avars)
PROOF
  <1> DEFINE t == Tail(reader[g].todo)
             x == Head(reader[g].todo)
             j == x[2]
             d == reader[g].handled \cup {j}
  <1>1. RunInv(g) /\ TypeOK /\ PlaceInv /\ reader[g].todo \in Seq(Item)
    BY DEF Inv, TypeOK
  <1>2. t \in Seq(Item) /\ x \in Item /\ Has(reader[g].todo, x)
    BY <1>1, TakeHead
  <1>3. reader' = WithHandled(reader, g, t, d) /\ caller' = WithCount(caller, g, caller[g].wait - 1)
    BY DEF HandleResult, WithHandled, WithCount
  <1> HIDE DEF t, x
  <1>4. j \in Submitted(g) \ reader[g].handled /\ j \in Nat
    <2>1. x[1] = g
      BY <1>1, <1>2 DEF PlaceInv
    <2>2. Open(x)
      BY <1>2, <2>1 DEF Inv, ItemInv
    <2>3. x[2] \in Nat
      BY <1>2 DEF Item
    <2> QED
      BY <2>1, <2>2, <2>3 DEF Open
  <1>5. /\ \A h \in Group \ {g} : reader'[h] = reader[h]
        /\ reader'[g].handled = reader[g].handled \cup {j}
    <2>1. reader \in [Group -> ReaderType] /\ reader[g].handled \in SUBSET Nat
      BY <1>1 DEF TypeOK, ReaderType
    <2>2. d \in SUBSET Nat
      BY <1>4, <2>1
    <2> HIDE DEF d
    <2>3. (\A h \in Group \ {g} : reader'[h] = reader[h]) /\ reader'[g].handled = d
      <3>1. reader' = WithHandled(reader, g, t, d)
        BY <1>3
      <3>2. reader \in [Group -> ReaderType] /\ t \in Seq(Item)
        BY <1>2, <2>1
      <3>3. /\ \A h \in Group \ {g} : WithHandled(reader, g, t, d)[h] = reader[h]
            /\ WithHandled(reader, g, t, d)[g].handled = d
        <4>1. PICK old \in [Group -> ReaderType] : old = reader
          BY <3>2
        <4>2. PICK tl \in Seq(Item) : tl = t
          BY <3>2
        <4>3. PICK dn \in SUBSET Nat : dn = d
          BY <2>2
        <4>4. /\ \A h \in Group \ {g} : WithHandled(old, g, tl, dn)[h] = old[h]
              /\ WithHandled(old, g, tl, dn)[g].handled = dn
          BY SetHandled
        <4> QED
          BY Zenon, <4>1, <4>2, <4>3, <4>4
      <3> QED
        BY Zenon, <3>1, <3>3
    <2> QED
      BY <2>3 DEF d
  <1> HIDE DEF j
  <1>6. \A h \in Group : caller'[h].pc = caller[h].pc /\ caller'[h].next = caller[h].next
    <2>1. caller \in [Group -> CallerType]
      BY <1>1 DEF TypeOK, CallerType
    <2> QED
      BY <1>3, <2>1 DEF WithCount, CallerType
  <1>7. \A h \in Group \ {g} : [Run(h)!Next]_(Run(h)!avars)
    BY <1>5, <1>6, Stutters DEF Returned
  <1>8. Submitted(g)' = Submitted(g) /\ ~Returned(g) /\ ~Returned(g)'
    BY <1>1, <1>4, <1>6 DEF Submitted, RunInv, Unhandled, Returned
  <1>9. j \in 1..Jobs[g]
    BY <1>1, <1>4, SubmittedJobs
  <1>10. Run(g)!Handle(j)
    BY <1>4, <1>5, <1>8 DEF Run!Handle, Returned
  <1>11. Run(g)!Next
    BY <1>9, <1>10 DEF Run!Next
  <1> QED
    BY <1>7, <1>11

\* RemoveGroup is Return: all results were handled.
LEMMA RemoveGroupReturns ==
  ASSUME Inv, NEW g \in Group, RemoveGroup(g)
  PROVE  \A h \in Group : [Run(h)!Next]_(Run(h)!avars)
PROOF
  <1>1. /\ RunInv(g) /\ TypeOK /\ caller[g].pc = "wait" /\ caller[g].wait = 0 /\ reader' = reader
        /\ caller' = [caller EXCEPT ![g].pc = "close"]
    BY DEF RemoveGroup, Inv
  <1>2. /\ \A h \in Group \ {g} : caller'[h] = caller[h]
        /\ caller'[g].next = caller[g].next /\ caller'[g].pc = "close"
    BY <1>1 DEF TypeOK
  <1>3. IsFiniteSet(Unhandled(g)) /\ Cardinality(Unhandled(g)) = 0
    BY <1>1, UnhandledFinite DEF RunInv, Sending
  <1>4. reader[g].handled = Submitted(g)
    <2>1. Unhandled(g) = {}
      BY <1>3, CountingHolds DEF Counting
    <2> QED
      BY <1>1, <2>1 DEF RunInv, Unhandled
  <1>5. Run(g)!Return
    BY <1>1, <1>2, <1>4 DEF Run!Return, Submitted
  <1>6. \A h \in Group \ {g} : [Run(h)!Next]_(Run(h)!avars)
    BY <1>1, <1>2, Stutters DEF Returned
  <1> QED
    BY <1>5, <1>6 DEF Run!Next

\* Every step is one of JobRun's, or none, for every run.
LEMMA NextRefines ==
  Inv /\ [Next]_vars => \A g \in Group : [Run(g)!Next]_(Run(g)!avars)
PROOF
  <1> SUFFICES ASSUME Inv, [Next]_vars PROVE \A g \in Group : [Run(g)!Next]_(Run(g)!avars)
    OBVIOUS
  <1>1. ASSUME NEW g \in Group, Cancel(g) \/ NextJob(g) \/ SendFails(g) \/ CloseEnd(g)
        PROVE  \A h \in Group : [Run(h)!Next]_(Run(h)!avars)
    <2>1. reader' = reader
      BY <1>1 DEF Cancel, NextJob, SendFails, CloseEnd
    <2>2. \A h \in Group : caller'[h].next = caller[h].next /\ (Returned(h)' <=> Returned(h))
      <3>1. caller \in [Group -> CallerType]
        BY DEF Inv, TypeOK, CallerType
      <3>2. CASE Cancel(g)
        BY <3>1, <3>2 DEF Cancel, Returned, CallerType
      <3>3. CASE NextJob(g)
        <4>1. /\ caller[g].pc = "next"
              /\ \/ caller' = [caller EXCEPT ![g].pc = "wait"]
                 \/ caller' = [caller EXCEPT ![g].pc = "send", ![g].wait = @ + 1]
          BY <3>3 DEF NextJob
        <4> QED
          BY <3>1, <4>1 DEF Returned, CallerType
      <3>4. CASE SendFails(g)
        BY <3>1, <3>4 DEF SendFails, Returned, CallerType
      <3>5. CASE CloseEnd(g)
        BY <3>1, <3>5 DEF CloseEnd, Returned, CallerType
      <3> QED
        BY <1>1, <3>2, <3>3, <3>4, <3>5
    <2> QED
      BY <2>1, <2>2, Stutters
  <1>2. ASSUME NEW g \in Group, Caller(g) PROVE \A h \in Group : [Run(h)!Next]_(Run(h)!avars)
    BY <1>1, <1>2, SendSubmits, RemoveGroupReturns DEF Caller
  <1>3. ASSUME NEW g \in Group,
               \/ NotifyResult(g) \/ Notified(g) \/ ReaderEnds(g) \/ Results(g)
               \/ HandleResult(g) /\ reader[g].todo = <<>>
        PROVE  \A h \in Group : [Run(h)!Next]_(Run(h)!avars)
    <2>1. caller' = caller
      BY <1>3 DEF NotifyResult, Notified, ReaderEnds, Results, HandleResult
    <2>2. \A h \in Group : reader'[h].handled = reader[h].handled
      <3>1. reader \in [Group -> ReaderType]
        BY DEF Inv, TypeOK, ReaderType
      <3>2. CASE Results(g)
        BY <3>1, <3>2 DEF Results, ReaderType
      <3>3. CASE ~Results(g)
        <4>1. PICK p \in {"notify", "select", "results", "handle", "done"} :
                reader' = WithPC(reader, g, p)
          BY <1>3, <3>3 DEF NotifyResult, Notified, ReaderEnds, HandleResult, WithPC
        <4>2. reader'[g].handled = reader[g].handled
          BY <3>1, <4>1, SetPC
        <4>3. \A h \in Group \ {g} : reader'[h] = reader[h]
          BY <3>1, <4>1, SetPC
        <4> QED
          BY <4>2, <4>3
      <3> QED
        BY <3>2, <3>3
    <2> QED
      BY <2>1, <2>2, Stutters DEF Returned
  <1>4. ASSUME NEW g \in Group, Reader(g) PROVE \A h \in Group : [Run(h)!Next]_(Run(h)!avars)
    BY <1>3, <1>4, HandleHandles DEF Reader
  <1>5. ASSUME UNCHANGED <<caller, reader>>
        PROVE  \A h \in Group : [Run(h)!Next]_(Run(h)!avars)
    BY <1>5, Stutters DEF Returned
  <1>6. CASE Queuing \/ Processing \/ Stopping \/ UNCHANGED vars
    <2>1. UNCHANGED <<caller, reader>>
      BY <1>6 DEF Queuing, Processing, Stopping, QueueInput, NotifyInput, Process, DoJob, QueueEmpty,
         Stop, StopInputs, StopProcessing, vars, runs
    <2> QED
      BY <1>5, <2>1
  <1>7. ASSUME NEW x \in running, StoreResult(x)
        PROVE  \A h \in Group : [Run(h)!Next]_(Run(h)!avars)
    BY <1>5, <1>7 DEF StoreResult
  <1> QED
    BY <1>1, <1>2, <1>4, <1>6, <1>7 DEF Next, Work

\* So it is an invariant.
LEMMA AlwaysInv == Spec => []Inv
PROOF
  <1>1. Init => Inv
    BY InitInv
  <1>2. Inv /\ [Next]_vars => Inv'
    BY NextInv
  <1> QED
    BY <1>1, <1>2, PTL DEF Spec

\* The counters and the sequences of the group stay in their types: in particular no wait
\* group goes below zero, which panics.
THEOREM WorkerGroupType == Spec => []TypeOK
PROOF
  <1>1. Inv => TypeOK
    BY DEF Inv
  <1> QED
    BY <1>1, AlwaysInv, PTL

\* For every number of calls, jobs and workers, and whenever contexts end or the group is
\* stopped: RunJobs handles the result of each job it handed over exactly once, and
\* returns only after the last (pkg/util/worker.go, RunJobs).
THEOREM RunJobsRefines == Spec => ImplementsJobRun
PROOF
  <1>1. Init => \A g \in Group : Run(g)!Init
    <2> SUFFICES ASSUME Init, NEW g \in Group PROVE Run(g)!Init
      OBVIOUS
    <2>1. /\ caller[g].next = 1 /\ caller[g].pc = "next" /\ reader[g].handled = {}
      BY DEF Init
    <2>2. Submitted(g) = {}
      BY <2>1 DEF Submitted
    <2> QED
      BY <2>1, <2>2 DEF Run!Init
  <1>2. Inv /\ [Next]_vars => [\A g \in Group : [Run(g)!Next]_(Run(g)!avars)]_vars
    BY NextRefines
  <1> QED
    BY <1>1, <1>2, AlwaysInv, PTL DEF Spec, ImplementsJobRun

-----------------------------------------------------------------------------
(* The wait group.                                                         *)

RunningOf(g) == {item \in running : item[1] = g}

\* The items of a run under way, place by place.
Places(g) ==
  Of(g, input) + Of(g, queue) + Cardinality(RunningOf(g)) + Len(Stored(g)) + Len(reader[g].todo)

\* WaitCounts is inductive with this, given Inv: a step that moves an item takes it from
\* one place and puts it in one other.
Counts(g) == IsFiniteSet(RunningOf(g)) /\ caller[g].wait = Places(g) + Sending(g)

\* One, if the item is of the run.
Adds(g, x) == IF x[1] = g THEN 1 ELSE 0

\* The items of a run in a sequence, in an empty one, in one with an item more and in
\* one without its head.
LEMMA OfNat == ASSUME NEW g, NEW s \in Seq(Item) PROVE Of(g, s) \in Nat
PROOF
  <1>1. IsFiniteSet(1..Len(s))
    BY CountingHolds DEF Counting
  <1> QED
    BY <1>1, CountingHolds DEF Counting, Of

LEMMA OfEmpty == ASSUME NEW g, NEW s \in Seq(Item), Len(s) = 0 PROVE Of(g, s) = 0
PROOF
  <1>1. {k \in 1..Len(s) : s[k][1] = g} = {} /\ IsFiniteSet(1..0) /\ {} \in SUBSET (1..0)
    BY CountingHolds DEF Counting
  <1> QED
    BY <1>1, CountingHolds DEF Counting, Of

LEMMA OfAppend ==
  ASSUME NEW g, NEW s \in Seq(Item), NEW x \in Item
  PROVE  Of(g, Append(s, x)) = Of(g, s) + Adds(g, x)
PROOF
  <1> DEFINE t == Append(s, x)
             I == {k \in 1..Len(s) : s[k][1] = g}
             J == {k \in 1..Len(t) : t[k][1] = g}
  <1>1. /\ Len(s) \in Nat /\ Len(t) = Len(s) + 1 /\ t[Len(s) + 1] = x
        /\ \A k \in 1..Len(s) : t[k] = s[k]
    OBVIOUS
  <1>2. IsFiniteSet(I) /\ Cardinality(I) \in Nat /\ Len(s) + 1 \notin I
    <2>1. IsFiniteSet(1..Len(s)) /\ I \in SUBSET (1..Len(s))
      BY <1>1, CountingHolds DEF Counting
    <2>2. Len(s) + 1 \notin I
      BY <1>1
    <2> HIDE DEF I
    <2>3. IsFiniteSet(I)
      BY Zenon, <2>1, CountingHolds DEF Counting
    <2> QED
      BY <2>2, <2>3, CountingHolds DEF Counting
  <1> HIDE DEF t
  <1>3. J = IF x[1] = g THEN I \cup {Len(s) + 1} ELSE I
    BY <1>1
  <1> HIDE DEF I, J
  <1>4. Cardinality(J) = Cardinality(I) + Adds(g, x)
    <2>1. Cardinality(I \cup {Len(s) + 1}) = Cardinality(I) + 1
      BY Zenon, <1>2, CountingHolds DEF Counting
    <2> QED
      BY <1>2, <1>3, <2>1 DEF Adds
  <1> QED
    BY Zenon, <1>4 DEF Of, I, J, t

LEMMA OfTail ==
  ASSUME NEW g, NEW s \in Seq(Item), s # <<>>
  PROVE  Of(g, s) = Of(g, Tail(s)) + Adds(g, Head(s))
PROOF
  <1> DEFINE t == Tail(s)
             x == Head(s)
             I == {k \in 1..Len(s) : s[k][1] = g}
             J == {k \in 1..Len(t) : t[k][1] = g}
             f == [k \in J |-> k + 1]
  <1>1. /\ Len(s) \in Nat /\ Len(s) >= 1 /\ Len(t) = Len(s) - 1 /\ x = s[1]
        /\ \A k \in 1..Len(t) : t[k] = s[k + 1]
    OBVIOUS
  <1> HIDE DEF t, x
  <1>2. IsFiniteSet(J) /\ Cardinality(J) \in Nat /\ IsFiniteSet(I \ {1})
    <2>1. IsFiniteSet(1..Len(t)) /\ J \in SUBSET (1..Len(t))
      BY <1>1, CountingHolds DEF Counting
    <2>2. IsFiniteSet(1..Len(s)) /\ I \ {1} \in SUBSET (1..Len(s))
      BY <1>1, CountingHolds DEF Counting
    <2> QED
      BY Zenon, <2>1, <2>2, CountingHolds DEF Counting
  <1>3. Cardinality(I \ {1}) = Cardinality(J)
    <2>1. \A k \in J : k \in Nat /\ k + 1 \in I \ {1}
      BY <1>1
    <2>2. ASSUME NEW k \in I \ {1} PROVE \E l \in J : l + 1 = k
      <3>1. k - 1 \in J /\ (k - 1) + 1 = k
        BY <1>1
      <3> QED
        BY <3>1
    <2> HIDE DEF I, J
    <2>3. f \in Bijection(J, I \ {1})
      BY <2>1, <2>2 DEF Bijection, Injection, Surjection, IsInjective
    <2> QED
      BY <1>2, <2>3, FS_Bijection, Zenon DEF ExistsBijection
  <1>4. 1 \in I <=> x[1] = g
    BY <1>1
  <1> HIDE DEF I, J
  <1>5. Cardinality(I) = Cardinality(J) + Adds(g, x)
    <2>1. CASE x[1] = g
      <3>1. (I \ {1}) \cup {1} = I /\ 1 \notin I \ {1}
        BY <1>4, <2>1
      <3>2. Cardinality((I \ {1}) \cup {1}) = Cardinality(I \ {1}) + 1
        BY Zenon, <1>2, <3>1, CountingHolds DEF Counting
      <3> QED
        BY Zenon, <1>3, <2>1, <3>1, <3>2 DEF Adds
    <2>2. CASE x[1] # g
      <3>1. I \ {1} = I
        BY <1>4, <2>2
      <3>2. Cardinality(I) = Cardinality(J)
        BY <1>3, <3>1, Zenon
      <3> QED
        BY <1>2, <2>2, <3>2 DEF Adds
    <2> QED
      BY <2>1, <2>2
  <1> QED
    BY Zenon, <1>5 DEF Of, I, J, t, x

\* The lengths of a sequence without its head and with one more.
LEMMA Lengths ==
  ASSUME NEW s \in Seq(Item), NEW x \in Item
  PROVE  /\ s # <<>> => /\ Tail(s) \in Seq(Item) /\ Len(s) \in Nat /\ Len(s) >= 1
                        /\ Len(Tail(s)) = Len(s) - 1
         /\ <<x>> \o s \in Seq(Item) /\ Len(<<x>> \o s) = Len(s) + 1
PROOF
  OBVIOUS

\* What a step leaves of the places of a run.
LEMMA PlacesKept ==
  ASSUME NEW h \in Group, Counts(h), UNCHANGED <<input, queue, running>>,
         Stored(h)' = Stored(h), reader'[h].todo = reader[h].todo
  PROVE  RunningOf(h)' = RunningOf(h) /\ Places(h)' = Places(h)
PROOF
  BY DEF RunningOf, Places

\* The number of items in a place is a number.
LEMMA PlacesNat ==
  ASSUME TypeOK, NEW h \in Group, Counts(h)
  PROVE  /\ Of(h, input) \in Nat /\ Of(h, queue) \in Nat /\ Cardinality(RunningOf(h)) \in Nat
         /\ Len(Stored(h)) \in Nat /\ Len(reader[h].todo) \in Nat /\ Stored(h) \in Seq(Item)
         /\ caller[h].wait \in Nat
PROOF
  <1>1. input \in Seq(Item) /\ queue \in Seq(Item) /\ reader[h].todo \in Seq(Item)
    BY DEF TypeOK
  <1>2. Stored(h) \in Seq(Item)
    BY DEF TypeOK, Stored
  <1>3. Cardinality(RunningOf(h)) \in Nat
    BY CountingHolds DEF Counting, Counts
  <1>4. Of(h, input) \in Nat /\ Of(h, queue) \in Nat
    BY <1>1, OfNat
  <1>5. caller[h].wait \in Nat
    BY DEF TypeOK
  <1> QED
    BY <1>1, <1>2, <1>3, <1>4, <1>5

\* A sum of five numbers is at least each of them.
LEMMA SumBound ==
  ASSUME NEW a \in Nat, NEW b \in Nat, NEW c \in Nat, NEW d \in Nat, NEW e \in Nat
  PROVE  a + b + c + d + e \in Nat /\ d <= a + b + c + d + e
PROOF
  OBVIOUS

LEMMA PlacesAdd ==
  ASSUME TypeOK, NEW h \in Group, Counts(h)
  PROVE  Places(h) \in Nat /\ Len(Stored(h)) <= Places(h)
PROOF
  <1>1. /\ Of(h, input) \in Nat /\ Of(h, queue) \in Nat /\ Cardinality(RunningOf(h)) \in Nat
        /\ Len(Stored(h)) \in Nat /\ Len(reader[h].todo) \in Nat
    BY PlacesNat
  <1> QED
    BY Zenon, <1>1, SumBound DEF Places

\* A step that moves no item, and counts as it starts or gives up a Do.
LEMMA CallerCounts ==
  ASSUME TypeOK, NEW h \in Group, Counts(h), UNCHANGED <<input, queue, running>>,
         Stored(h)' = Stored(h), reader'[h].todo = reader[h].todo,
         caller'[h].wait - Sending(h)' = caller[h].wait - Sending(h),
         caller'[h].wait \in Nat
  PROVE  Counts(h)'
PROOF
  <1>1. RunningOf(h)' = RunningOf(h) /\ Places(h)' = Places(h)
    BY PlacesKept
  <1>2. Places(h) \in Nat
    BY PlacesAdd
  <1>3. Sending(h) \in {0, 1} /\ Sending(h)' \in {0, 1} /\ caller[h].wait \in Nat
    BY DEF Sending, TypeOK
  <1>4. caller'[h].wait = Places(h) + Sending(h)'
    BY <1>2, <1>3 DEF Counts
  <1> QED
    BY <1>1, <1>4 DEF Counts

\* Cancel, and the steps of the caller that hand over no item.
LEMMA QuietCallerCounts ==
  ASSUME Inv, TypeOK', NEW h \in Group, Counts(h), NEW g \in Group,
         Cancel(g) \/ NextJob(g) \/ SendFails(g) \/ CloseEnd(g)
  PROVE  Counts(h)'
PROOF
  <1>1. UNCHANGED <<reader, input, queue, running>> /\ TypeOK /\ caller'[h].wait \in Nat
    BY DEF Cancel, NextJob, SendFails, CloseEnd, loops, Inv, TypeOK
  <1>2. Stored(h)' = Stored(h)
    <2>1. \/ resultData' = resultData
          \/ resultData' = [resultData EXCEPT ![g] = IF @ = None THEN <<>> ELSE @]
      BY DEF Cancel, NextJob, SendFails, CloseEnd
    <2> QED
      BY <1>1, <2>1 DEF Stored, TypeOK
  <1>3. caller'[h].wait - Sending(h)' = caller[h].wait - Sending(h)
    <2>1. caller \in [Group -> CallerType]
      BY <1>1 DEF TypeOK, CallerType
    <2>2. CASE caller' = [caller EXCEPT ![g].ended = TRUE]
      BY <2>1, <2>2 DEF CallerType, Sending
    <2>3. CASE caller' = [caller EXCEPT ![g].pc = "wait"] /\ caller[g].pc = "next"
      BY <2>1, <2>3 DEF CallerType, Sending
    <2>4. CASE caller' = [caller EXCEPT ![g].pc = "send", ![g].wait = @ + 1] /\ caller[g].pc = "next"
      BY <2>1, <2>4 DEF CallerType, Sending
    <2>5. CASE caller' = [caller EXCEPT ![g].pc = "wait", ![g].wait = @ - 1] /\ caller[g].pc = "send"
      BY <2>1, <2>5 DEF CallerType, Sending
    <2>6. CASE caller' = [caller EXCEPT ![g].pc = "done"] /\ caller[g].pc = "close"
      BY <2>1, <2>6 DEF CallerType, Sending
    <2> QED
      BY <2>2, <2>3, <2>4, <2>5, <2>6 DEF Cancel, NextJob, SendFails, CloseEnd
  <1> QED
    BY <1>1, <1>2, <1>3, CallerCounts

\* The steps of the reader that take no result, and those of the loops that move no item.
LEMMA QuietLoopCounts ==
  ASSUME Inv, NEW h \in Group, Counts(h),
         UNCHANGED <<caller, input, queue, running, resultData>>,
         reader'[h].todo = reader[h].todo
  PROVE  Counts(h)'
PROOF
  <1>1. Stored(h)' = Stored(h) /\ Sending(h)' = Sending(h)
    BY DEF Stored, Sending
  <1>2. caller[h].wait \in Nat /\ TypeOK
    BY DEF Inv, TypeOK
  <1> QED
    BY <1>1, <1>2, CallerCounts

\* Send: into the input channel, and no longer the one being sent.
LEMMA SendCounts ==
  ASSUME Inv, NEW h \in Group, Counts(h), NEW g \in Group, Send(g)
  PROVE  Counts(h)'
PROOF
  <1>1. PICK x \in Item : x = <<g, caller[g].next>>
    BY Zenon DEF Inv, TypeOK, Item
  <1>2. /\ UNCHANGED <<reader, queue, running, resultData>> /\ TypeOK
        /\ caller[g].pc = "send" /\ input = <<>> /\ input' = Append(<<>>, x)
        /\ caller' = [caller EXCEPT ![g].pc = "next", ![g].next = @ + 1]
    BY <1>1 DEF Send, loops, Inv
  <1>3. Of(h, input') = Of(h, input) + Adds(h, x)
    <2>1. input \in Seq(Item) /\ input' = Append(input, x)
      BY <1>2 DEF TypeOK
    <2> QED
      BY <2>1, OfAppend, Zenon
  <1>4. caller'[h].wait = caller[h].wait /\ Sending(h) = Sending(h)' + Adds(h, x)
    <2>1. caller \in [Group -> CallerType] /\ x[1] = g
      BY <1>1, <1>2 DEF TypeOK, CallerType
    <2> QED
      BY <1>2, <2>1 DEF CallerType, Sending, Adds
  <1>5. RunningOf(h)' = RunningOf(h) /\ Stored(h)' = Stored(h)
    BY <1>2 DEF RunningOf, Stored
  <1>6. Places(h)' = Places(h) + Adds(h, x)
    <2>1. /\ Of(h, input) \in Nat /\ Of(h, queue) \in Nat /\ Cardinality(RunningOf(h)) \in Nat
          /\ Len(Stored(h)) \in Nat /\ Len(reader[h].todo) \in Nat /\ Adds(h, x) \in Nat
      BY <1>2, PlacesNat DEF Adds
    <2>2. Places(h)' = Of(h, input') + Of(h, queue) + Cardinality(RunningOf(h))
                       + Len(Stored(h)) + Len(reader[h].todo)
      BY <1>2, <1>5 DEF Places
    <2>3. Places(h) = Of(h, input) + Of(h, queue) + Cardinality(RunningOf(h))
                      + Len(Stored(h)) + Len(reader[h].todo)
      BY DEF Places
    <2>4. PICK a \in Nat, b \in Nat, c \in Nat, d \in Nat, e \in Nat, y \in Nat :
             /\ a = Of(h, input) /\ b = Of(h, queue) /\ c = Cardinality(RunningOf(h))
             /\ d = Len(Stored(h)) /\ e = Len(reader[h].todo) /\ y = Adds(h, x)
      BY Zenon, <2>1
    <2>5. (a + y) + b + c + d + e = (a + b + c + d + e) + y
      OBVIOUS
    <2> QED
      BY Zenon, <1>3, <2>2, <2>3, <2>4, <2>5
  <1>7. Places(h) \in Nat
    BY <1>2, PlacesAdd
  <1> QED
    BY <1>4, <1>5, <1>6, <1>7 DEF Counts, Sending, Adds

\* RemoveGroup: the wait group is at zero, so there is no result to forget.
LEMMA RemoveGroupCounts ==
  ASSUME Inv, NEW h \in Group, Counts(h), NEW g \in Group, RemoveGroup(g)
  PROVE  Counts(h)'
PROOF
  <1>1. /\ UNCHANGED <<reader, input, queue, running>> /\ TypeOK
        /\ caller[g].pc = "wait" /\ caller[g].wait = 0
        /\ resultData' = [resultData EXCEPT ![g] = None]
        /\ caller' = [caller EXCEPT ![g].pc = "close"]
    BY DEF RemoveGroup, loops, Inv
  <1>2. caller'[h].wait = caller[h].wait /\ Sending(h)' = Sending(h)
    <2>1. caller \in [Group -> CallerType]
      BY <1>1 DEF TypeOK, CallerType
    <2> QED
      BY <1>1, <2>1 DEF CallerType, Sending
  <1>3. Len(Stored(h)') = Len(Stored(h))
    <2>1. CASE h = g
      <3>1. Len(Stored(h)) = 0
        <4>1. Places(h) + Sending(h) = 0 /\ Sending(h) = 0
          BY <1>1, <2>1 DEF Counts, Sending
        <4>2. Places(h) \in Nat /\ Len(Stored(h)) \in Nat /\ Len(Stored(h)) <= Places(h)
          BY <1>1, PlacesNat, PlacesAdd
        <4> QED
          BY <4>1, <4>2
      <3>2. Stored(h)' = <<>>
        BY <1>1, <2>1 DEF Stored, TypeOK
      <3> QED
        BY <3>1, <3>2
    <2>2. CASE h # g
      BY <1>1, <2>2 DEF Stored, TypeOK
    <2> QED
      BY <2>1, <2>2
  <1>4. RunningOf(h)' = RunningOf(h)
    BY <1>1 DEF RunningOf
  <1>5. Places(h)' = Places(h)
    BY <1>1, <1>3, <1>4 DEF Places
  <1> QED
    BY <1>2, <1>4, <1>5 DEF Counts

\* Results: from the map of results to the reader's hand, which is empty.
LEMMA ResultsCount ==
  ASSUME Inv, NEW h \in Group, Counts(h), NEW g \in Group, Results(g)
  PROVE  Counts(h)'
PROOF
  <1> DEFINE t == OldestFirst(Stored(g))
  <1>1. /\ UNCHANGED <<caller, input, queue, running>> /\ TypeOK
        /\ reader[g].todo = <<>> /\ resultData' = [resultData EXCEPT ![g] = <<>>]
    BY DEF Results, loops, Inv, RunInv
  <1>2. reader' = WithTodo(reader, g, "handle", t)
    <2>1. OldestFirst(<<>>) = <<>>
      BY DEF OldestFirst
    <2> QED
      BY Zenon, <2>1 DEF Results, Stored, WithTodo
  <1>3. Stored(g) \in Seq(Item)
    BY <1>1 DEF TypeOK, Stored
  <1>4. t \in Seq(Item) /\ Len(t) = Len(Stored(g))
    BY <1>3 DEF OldestFirst
  <1> HIDE DEF t
  <1>5. reader'[g].todo = t /\ \A k \in Group \ {g} : reader'[k] = reader[k]
    <2>1. reader \in [Group -> ReaderType]
      BY <1>1 DEF TypeOK, ReaderType
    <2> QED
      BY <1>2, <1>4, <2>1, SetTodo
  <1>6. Stored(g)' = <<>> /\ \A k \in Group \ {g} : Stored(k)' = Stored(k)
    BY <1>1 DEF TypeOK, Stored
  <1>7. Len(Stored(h)') + Len(reader'[h].todo) = Len(Stored(h)) + Len(reader[h].todo)
    <2>1. CASE h = g
      BY <1>1, <1>4, <1>5, <1>6, <2>1, <1>3
    <2>2. CASE h # g
      BY <1>5, <1>6, <2>2
    <2> QED
      BY <2>1, <2>2
  <1>8. RunningOf(h)' = RunningOf(h) /\ Sending(h)' = Sending(h)
    BY <1>1 DEF RunningOf, Sending
  <1>9. Len(Stored(h)') \in Nat /\ Len(reader'[h].todo) \in Nat
    <2>1. CASE h = g
      BY <1>4, <1>5, <1>6, <2>1
    <2>2. CASE h # g
      BY <1>1, <1>5, <1>6, <2>2, PlacesNat
    <2> QED
      BY <2>1, <2>2
  <1>10. Places(h)' = Places(h)
    <2>1. Of(h, input) \in Nat /\ Of(h, queue) \in Nat /\ Cardinality(RunningOf(h)) \in Nat
      BY <1>1, PlacesNat
    <2>2. Len(Stored(h)) \in Nat /\ Len(reader[h].todo) \in Nat
      BY <1>1, PlacesNat
    <2>3. Places(h)' = Of(h, input) + Of(h, queue) + Cardinality(RunningOf(h))
                       + Len(Stored(h)') + Len(reader'[h].todo)
      BY <1>1, <1>8 DEF Places
    <2>4. Places(h) = Of(h, input) + Of(h, queue) + Cardinality(RunningOf(h))
                      + Len(Stored(h)) + Len(reader[h].todo)
      BY DEF Places
    <2>5. PICK n \in Nat : n = Of(h, input) + Of(h, queue) + Cardinality(RunningOf(h))
      BY <2>1
    <2>6. PICK p \in Nat, q \in Nat : p = Len(Stored(h)') /\ q = Len(reader'[h].todo)
      BY <1>9
    <2>7. PICK d \in Nat, e \in Nat : d = Len(Stored(h)) /\ e = Len(reader[h].todo)
      BY <2>2
    <2>8. Places(h)' = n + p + q /\ Places(h) = n + d + e /\ p + q = d + e
      BY <1>7, <2>3, <2>4, <2>5, <2>6, <2>7, Zenon
    <2> QED
      BY <2>8
  <1> QED
    BY <1>1, <1>8, <1>10 DEF Counts

\* HandleResult: out of the reader's hand, and off the wait group.
LEMMA HandleCounts ==
  ASSUME Inv, NEW h \in Group, Counts(h), NEW g \in Group, HandleResult(g),
         reader[g].todo # <<>>
  PROVE  Counts(h)'
PROOF
  <1> DEFINE t == Tail(reader[g].todo)
             d == reader[g].handled \cup {Head(reader[g].todo)[2]}
  <1>1. UNCHANGED <<input, queue, running, resultData>> /\ TypeOK
    BY DEF HandleResult, loops, Inv
  <1>2. /\ reader[g].todo \in Seq(Item) /\ Len(reader[g].todo) \in Nat
        /\ t \in Seq(Item) /\ Len(t) = Len(reader[g].todo) - 1 /\ Len(t) \in Nat
        /\ Head(reader[g].todo) \in Item
    BY <1>1 DEF TypeOK
  <1>3. d \in SUBSET Nat
    <2>1. reader[g].handled \in SUBSET Nat /\ Head(reader[g].todo)[2] \in Nat
      BY <1>1, <1>2 DEF TypeOK, Item
    <2> HIDE DEF t
    <2> QED
      BY Zenon, <2>1
  <1>4. /\ reader' = WithHandled(reader, g, t, d)
        /\ caller' = [caller EXCEPT ![g].wait = @ - 1]
    BY Zenon DEF HandleResult, WithHandled
  <1> HIDE DEF t, d
  <1>5. reader'[g].todo = t /\ \A k \in Group \ {g} : reader'[k] = reader[k]
    <2>1. reader \in [Group -> ReaderType]
      BY <1>1 DEF TypeOK, ReaderType
    <2> QED
      BY <1>2, <1>3, <1>4, <2>1, SetHandled
  <1>6. /\ Sending(h)' = Sending(h)
        /\ caller'[h].wait = IF h = g THEN caller[h].wait - 1 ELSE caller[h].wait
    <2>1. caller \in [Group -> CallerType]
      BY <1>1 DEF TypeOK, CallerType
    <2> QED
      BY <1>4, <2>1 DEF CallerType, Sending
  <1>7. Len(reader'[h].todo) = IF h = g THEN Len(reader[h].todo) - 1 ELSE Len(reader[h].todo)
    BY <1>2, <1>5
  <1>8. RunningOf(h)' = RunningOf(h) /\ Stored(h)' = Stored(h)
    BY <1>1 DEF RunningOf, Stored
  <1>9. /\ Of(h, input) \in Nat /\ Of(h, queue) \in Nat /\ Cardinality(RunningOf(h)) \in Nat
        /\ Len(Stored(h)) \in Nat /\ Len(reader[h].todo) \in Nat /\ Sending(h) \in Nat
    BY <1>1, PlacesNat DEF Sending
  <1>10. Places(h)' = Of(h, input) + Of(h, queue) + Cardinality(RunningOf(h))
                      + Len(Stored(h)) + Len(reader'[h].todo)
    BY <1>1, <1>8 DEF Places
  <1>11. caller[h].wait = Of(h, input) + Of(h, queue) + Cardinality(RunningOf(h))
                          + Len(Stored(h)) + Len(reader[h].todo) + Sending(h)
    BY DEF Counts, Places
  <1>12. caller'[h].wait = Places(h)' + Sending(h)'
    <2>1. PICK n \in Nat : n = Of(h, input) + Of(h, queue) + Cardinality(RunningOf(h)) + Len(Stored(h))
      BY <1>9
    <2>2. PICK p \in Nat : p = Len(reader[h].todo)
      BY <1>9
    <2>3. Places(h)' = n + Len(reader'[h].todo) /\ caller[h].wait = n + p + Sending(h)
      BY Zenon, <1>10, <1>11, <2>1, <2>2
    <2>4. PICK q \in Nat : q = Sending(h)
      BY <1>9
    <2>5. CASE h = g
      <3>1. /\ caller'[h].wait = (n + p + q) - 1 /\ Places(h)' = n + (p - 1)
            /\ Sending(h)' = q
        BY Zenon, <1>6, <1>7, <2>2, <2>3, <2>4, <2>5
      <3> QED
        BY <3>1
    <2>6. CASE h # g
      <3>1. /\ caller'[h].wait = n + p + q /\ Places(h)' = n + p
            /\ Sending(h)' = q
        BY Zenon, <1>6, <1>7, <2>2, <2>3, <2>4, <2>6
      <3> QED
        BY <3>1
    <2> QED
      BY <2>5, <2>6
  <1> QED
    BY <1>8, <1>12 DEF Counts

\* QueueInput: from the input channel, that it empties, to the queue.
LEMMA QueueInputCounts ==
  ASSUME Inv, NEW h \in Group, Counts(h), QueueInput
  PROVE  Counts(h)'
PROOF
  <1>1. /\ UNCHANGED <<caller, reader, running, resultData>> /\ TypeOK /\ PlaceInv
        /\ input # <<>> /\ input' = <<>> /\ queue' = Append(queue, Head(input))
    BY DEF QueueInput, runs, Inv
  <1>2. PICK x \in Item : x = Head(input)
    BY <1>1, TakeHead DEF TypeOK
  <1>3. Of(h, queue') = Of(h, queue) + Adds(h, x)
    <2>1. queue \in Seq(Item) /\ queue' = Append(queue, x)
      BY <1>1, <1>2 DEF TypeOK
    <2> QED
      BY <2>1, OfAppend, Zenon
  <1>4. Of(h, input) = Adds(h, x) /\ Of(h, input') = 0
    <2>1. input \in Seq(Item) /\ Tail(input) \in Seq(Item) /\ Len(Tail(input)) = 0
      <3>1. input \in Seq(Item) /\ input # <<>> /\ Len(input) <= 1
        BY <1>1 DEF TypeOK, PlaceInv
      <3>2. Tail(input) \in Seq(Item) /\ Len(input) \in Nat /\ Len(input) >= 1
            /\ Len(Tail(input)) = Len(input) - 1
        BY <3>1, Lengths, Zenon
      <3> QED
        BY <3>1, <3>2
    <2>2. Of(h, input) = Of(h, Tail(input)) + Adds(h, x)
      BY <1>1, <1>2, <2>1, OfTail, Zenon
    <2>3. Of(h, Tail(input)) = 0
      BY <2>1, OfEmpty, Zenon
    <2>4. input' \in Seq(Item) /\ Len(input') = 0
      BY <1>1
    <2>5. Of(h, input') = 0
      BY <2>4, OfEmpty, Zenon
    <2> QED
      BY <2>2, <2>3, <2>5 DEF Adds
  <1>5. RunningOf(h)' = RunningOf(h) /\ Stored(h)' = Stored(h) /\ Sending(h)' = Sending(h)
    BY <1>1 DEF RunningOf, Stored, Sending
  <1>6. /\ Of(h, input) \in Nat /\ Of(h, queue) \in Nat /\ Cardinality(RunningOf(h)) \in Nat
        /\ Len(Stored(h)) \in Nat /\ Len(reader[h].todo) \in Nat /\ Adds(h, x) \in Nat
    BY <1>1, PlacesNat DEF Adds
  <1>7. Places(h)' = Of(h, input') + Of(h, queue') + Cardinality(RunningOf(h))
                     + Len(Stored(h)) + Len(reader[h].todo)
    BY <1>1, <1>5 DEF Places
  <1>8. Places(h)' = Places(h)
    <2>1. Places(h) = Of(h, input) + Of(h, queue) + Cardinality(RunningOf(h))
                      + Len(Stored(h)) + Len(reader[h].todo)
      BY DEF Places
    <2> QED
      BY <1>3, <1>4, <1>6, <1>7, <2>1
  <1> QED
    BY <1>1, <1>5, <1>8 DEF Counts

\* DoJob: from the queue to a worker.
LEMMA DoJobCounts ==
  ASSUME Inv, NEW h \in Group, Counts(h), DoJob
  PROVE  Counts(h)'
PROOF
  <1>1. /\ UNCHANGED <<caller, reader, input, resultData>> /\ TypeOK /\ PlaceInv
        /\ queue # <<>> /\ queue' = Tail(queue) /\ running' = running \cup {Head(queue)}
    BY DEF DoJob, runs, Inv
  <1>2. PICK x \in Item : x = Head(queue) /\ Has(queue, x)
    BY <1>1, TakeHead DEF TypeOK
  <1>3. Of(h, queue) = Of(h, queue') + Adds(h, x) /\ Of(h, queue') \in Nat
    <2>1. queue \in Seq(Item) /\ queue' \in Seq(Item)
      BY <1>1 DEF TypeOK
    <2> QED
      BY <1>1, <1>2, <2>1, OfTail, OfNat, Zenon
  <1>4. x \notin running
    BY <1>2 DEF Inv, ItemInv
  <1>5. /\ IsFiniteSet(RunningOf(h)')
        /\ Cardinality(RunningOf(h)') = Cardinality(RunningOf(h)) + Adds(h, x)
    <2>1. x \notin RunningOf(h) /\ IsFiniteSet(RunningOf(h)) /\ Cardinality(RunningOf(h)) \in Nat
      BY <1>1, <1>4, PlacesNat DEF RunningOf, Counts
    <2>2. CASE x[1] = h
      <3>1. RunningOf(h)' = RunningOf(h) \cup {x}
        BY <1>1, <1>2, <2>2 DEF RunningOf
      <3>2. IsFiniteSet(RunningOf(h) \cup {x})
        BY <2>1, FS_AddElement
      <3>3. Cardinality(RunningOf(h) \cup {x}) = Cardinality(RunningOf(h)) + 1
        BY <2>1, CountingHolds DEF Counting
      <3> QED
        BY <2>2, <3>1, <3>2, <3>3 DEF Adds
    <2>3. CASE x[1] # h
      <3>1. RunningOf(h)' = RunningOf(h)
        BY <1>1, <1>2, <2>3 DEF RunningOf
      <3> QED
        BY <2>1, <2>3, <3>1 DEF Adds
    <2> QED
      BY <2>2, <2>3
  <1>6. Stored(h)' = Stored(h) /\ Sending(h)' = Sending(h)
    BY <1>1 DEF Stored, Sending
  <1>7. /\ Of(h, input) \in Nat /\ Of(h, queue) \in Nat /\ Cardinality(RunningOf(h)) \in Nat
        /\ Len(Stored(h)) \in Nat /\ Len(reader[h].todo) \in Nat /\ Adds(h, x) \in Nat
    BY <1>1, PlacesNat DEF Adds
  <1>8. Places(h)' = Of(h, input) + Of(h, queue') + Cardinality(RunningOf(h)')
                     + Len(Stored(h)) + Len(reader[h].todo)
    BY <1>1, <1>6 DEF Places
  <1>9. Places(h)' = Places(h)
    <2>1. Places(h) = Of(h, input) + Of(h, queue) + Cardinality(RunningOf(h))
                      + Len(Stored(h)) + Len(reader[h].todo)
      BY DEF Places
    <2> QED
      BY <1>3, <1>5, <1>7, <1>8, <2>1
  <1> QED
    BY <1>1, <1>5, <1>6, <1>9 DEF Counts

\* StoreResult: from a worker to the results of the run.
LEMMA StoreResultCounts ==
  ASSUME Inv, NEW h \in Group, Counts(h), NEW x \in running, StoreResult(x)
  PROVE  Counts(h)'
PROOF
  <1>0. x \in Item /\ TypeOK
    BY DEF Inv, TypeOK
  <1>1. PICK g \in Group : g = x[1]
    BY <1>0 DEF Item
  <1>2. /\ UNCHANGED <<caller, reader, input, queue>> /\ running' = running \ {x}
        /\ resultData' = [resultData EXCEPT ![g] = <<x>> \o Stored(g)]
    BY <1>1 DEF StoreResult, Stored
  <1>3. Len(Stored(h)') = Len(Stored(h)) + Adds(h, x)
    <2>1. Stored(g) \in Seq(Item) /\ resultData \in [Group -> Seq(Item) \cup {None}]
      BY <1>0 DEF TypeOK, Stored
    <2>2. PICK t \in Seq(Item) : t = <<x>> \o Stored(g) /\ Len(t) = Len(Stored(g)) + 1
      BY <1>0, <2>1, Lengths, Zenon
    <2>3. t # None
      BY WorkerGroupAssumption
    <2>4. CASE h = g
      <3>1. Stored(h)' = t
        BY <1>2, <2>1, <2>2, <2>3, <2>4 DEF Stored
      <3> QED
        BY <1>1, <2>2, <2>4, <3>1 DEF Adds
    <2>5. CASE h # g
      <3>1. Stored(h)' = Stored(h)
        BY <1>2, <2>1, <2>5 DEF Stored
      <3>2. Len(Stored(h)) \in Nat
        BY <1>0, PlacesNat
      <3> QED
        BY <1>1, <2>5, <3>1, <3>2 DEF Adds
    <2> QED
      BY <2>4, <2>5
  <1>4. /\ IsFiniteSet(RunningOf(h)') /\ Cardinality(RunningOf(h)') \in Nat
        /\ Cardinality(RunningOf(h)) = Cardinality(RunningOf(h)') + Adds(h, x)
    <2>1. IsFiniteSet(RunningOf(h)) /\ Cardinality(RunningOf(h)) \in Nat
      BY <1>0, PlacesNat DEF Counts
    <2>2. CASE x[1] = h
      <3>1. RunningOf(h)' = RunningOf(h) \ {x} /\ x \in RunningOf(h)
        BY <1>2, <2>2 DEF RunningOf
      <3>2. /\ IsFiniteSet(RunningOf(h) \ {x})
            /\ Cardinality(RunningOf(h) \ {x}) = Cardinality(RunningOf(h)) - 1
        BY <2>1, <3>1, CountingHolds DEF Counting
      <3>3. Cardinality(RunningOf(h) \ {x}) \in Nat
        BY <3>2, CountingHolds DEF Counting
      <3> QED
        BY <2>1, <2>2, <3>1, <3>2, <3>3 DEF Adds
    <2>3. CASE x[1] # h
      <3>1. RunningOf(h)' = RunningOf(h)
        BY <1>2, <2>3 DEF RunningOf
      <3> QED
        BY <2>1, <2>3, <3>1 DEF Adds
    <2> QED
      BY <2>2, <2>3
  <1>5. Sending(h)' = Sending(h)
    BY <1>2 DEF Sending
  <1>6. /\ Of(h, input) \in Nat /\ Of(h, queue) \in Nat /\ Cardinality(RunningOf(h)) \in Nat
        /\ Len(Stored(h)) \in Nat /\ Len(reader[h].todo) \in Nat /\ Adds(h, x) \in Nat
    BY <1>0, PlacesNat DEF Adds
  <1>7. Places(h)' = Of(h, input) + Of(h, queue) + Cardinality(RunningOf(h)')
                     + Len(Stored(h)') + Len(reader[h].todo)
    BY <1>2 DEF Places
  <1>8. Places(h)' = Places(h)
    <2>1. Places(h) = Of(h, input) + Of(h, queue) + Cardinality(RunningOf(h))
                      + Len(Stored(h)) + Len(reader[h].todo)
      BY DEF Places
    <2> QED
      BY <1>3, <1>4, <1>6, <1>7, <2>1
  <1> QED
    BY <1>2, <1>4, <1>5, <1>8 DEF Counts

\* It holds from the start, and every step keeps it.
LEMMA InitCounts == Init => \A h \in Group : Counts(h)
PROOF
  <1> SUFFICES ASSUME Init, NEW h \in Group PROVE Counts(h)
    OBVIOUS
  <1>1. /\ input = <<>> /\ queue = <<>> /\ RunningOf(h) = {} /\ Stored(h) = <<>>
        /\ reader[h].todo = <<>> /\ caller[h].wait = 0 /\ Sending(h) = 0
    BY DEF Init, RunningOf, Stored, Sending
  <1>2. Of(h, <<>>) = 0 /\ Len(<<>>) = 0
    <2>1. <<>> \in Seq(Item) /\ Len(<<>>) = 0
      OBVIOUS
    <2> QED
      BY <2>1, OfEmpty, Zenon
  <1>3. IsFiniteSet({}) /\ Cardinality({}) = 0
    BY FS_EmptySet
  <1> QED
    BY <1>1, <1>2, <1>3 DEF Counts, Places

LEMMA NextCounts ==
  ASSUME Inv, TypeOK', [Next]_vars, NEW h \in Group, Counts(h)
  PROVE  Counts(h)'
PROOF
  <1>1. ASSUME NEW g \in Group, Cancel(g) \/ Caller(g) PROVE Counts(h)'
    BY <1>1, QuietCallerCounts, SendCounts, RemoveGroupCounts DEF Caller
  <1>2. ASSUME NEW g \in Group, Reader(g) PROVE Counts(h)'
    <2>1. CASE \/ NotifyResult(g) \/ Notified(g) \/ ReaderEnds(g)
               \/ HandleResult(g) /\ reader[g].todo = <<>>
      <3>1. UNCHANGED <<caller, input, queue, running, resultData>>
        BY <2>1 DEF NotifyResult, Notified, ReaderEnds, HandleResult, loops
      <3>2. PICK p \in {"notify", "select", "results", "done"} : reader' = WithPC(reader, g, p)
        BY <2>1 DEF NotifyResult, Notified, ReaderEnds, HandleResult, WithPC
      <3>3. reader'[h].todo = reader[h].todo
        <4>1. reader \in [Group -> ReaderType]
          BY DEF Inv, TypeOK, ReaderType
        <4>2. /\ \A k \in Group \ {g} : WithPC(reader, g, p)[k] = reader[k]
              /\ WithPC(reader, g, p)[g].todo = reader[g].todo
          BY <4>1, SetPC
        <4>3. CASE h = g
          BY <3>2, <4>2, <4>3
        <4>4. CASE h # g
          BY <3>2, <4>2, <4>4
        <4> QED
          BY <4>3, <4>4
      <3> QED
        BY <3>1, <3>3, QuietLoopCounts
    <2> QED
      BY <1>2, <2>1, ResultsCount, HandleCounts DEF Reader
  <1>3. CASE NotifyInput \/ Process \/ QueueEmpty \/ Stopping \/ UNCHANGED vars
    <2>1. UNCHANGED <<caller, reader, input, queue, running, resultData>>
      BY <1>3 DEF NotifyInput, Process, QueueEmpty, Stopping, Stop, StopInputs, StopProcessing,
         vars, runs, loops
    <2> QED
      BY <2>1, QuietLoopCounts
  <1> QED
    BY <1>1, <1>2, <1>3, QueueInputCounts, DoJobCounts, StoreResultCounts
    DEF Next, Work, Queuing, Processing

\* For every number of calls, jobs and workers: the wait group of RunJobs
\* (pkg/util/worker.go) counts the items between Do and the result function, wherever the
\* loops, the workers and the reader have them, so that Wait never returns too early.
THEOREM WaitGroupCounts == Spec => []WaitCounts
PROOF
  <1> DEFINE C == \A h \in Group : Counts(h)
  <1>1. Inv /\ C /\ [Next]_vars => Inv' /\ C'
    <2> SUFFICES ASSUME Inv, C, [Next]_vars PROVE Inv' /\ C'
      OBVIOUS
    <2>1. Inv' /\ TypeOK'
      BY NextInv DEF Inv
    <2> QED
      BY <2>1, NextCounts
  <1>2. Inv /\ C => WaitCounts
    <2> SUFFICES ASSUME Inv, C, NEW g \in Group
                 PROVE  caller[g].wait = Outstanding(g) + (IF caller[g].pc = "send" THEN 1 ELSE 0)
      BY DEF WaitCounts
    <2>1. Len(Stored(g)) = IF resultData[g] = None THEN 0 ELSE Len(resultData[g])
      BY DEF Stored
    <2>2. Outstanding(g) = Places(g)
      BY <2>1 DEF Outstanding, Places, RunningOf
    <2> QED
      BY <2>2 DEF Counts, Sending
  <1>3. Init => Inv /\ C
    BY InitInv, InitCounts
  <1> HIDE DEF C
  <1> QED
    BY <1>1, <1>2, <1>3, PTL DEF Spec
=============================================================================
