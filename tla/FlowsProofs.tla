----------------------------- MODULE FlowsProofs -----------------------------
(***************************************************************************)
(* Proofs about the check pipeline (module Flows), for every set of works  *)
(* and blocks, any number of overlapping ticks, every batch size and any   *)
(* number of payloads in a tick:                                           *)
(*                                                                         *)
(*  - parallelCheck (pkg/v3/runner/runner.go) keeps each payload of a tick *)
(*    in exactly one place until the tick ends, and                        *)
(*  - the result store (pkg/v3/stores/result_store.go) replaces a result   *)
(*    only by one on a newer block.                                        *)
(*                                                                         *)
(* Both follow from FlowInv.  Its part about a tick, TickOK, is about the  *)
(* tick's record alone, so that each step is a lemma on records, and the   *)
(* other ticks come in at one place (MovesKeeps).  The second property     *)
(* needs the first: what the retry queue holds, and with it the blocks of  *)
(* later results, is typed only because results never outnumber payloads.  *)
(***************************************************************************)
EXTENDS Flows, FiniteSetTheorems, WellFoundedInduction, TLAPS

(* Folds over a sequence, by the choice of a least counterexample.         *)

\* A set of naturals has a least element.
LEMMA LeastNat ==
  ASSUME NEW T, T \subseteq Nat, T # {}
  PROVE  \E n \in T : \A m \in T : n <= m
<1>1. PICK n \in T : \A m \in T : ~(<<m, n>> \in OpToRel(<, Nat))
  BY WFMin, NatLessThanWellFounded
<1>2. \A m \in T : ~(m < n)
  BY <1>1 DEF OpToRel
<1> QED BY <1>2

\* f gives, per index up to n, what the step of a fold makes of a member of X; g
\* is the sequence of what the steps make of base.
Steps(f, n, X) == f \in [1..n -> [X -> X]]
Folds(g, base, f, n, X) ==
  g \in [0..n -> X] /\ g[0] = base /\ \A i \in 1..n : g[i] = f[i][g[i - 1]]
FoldsIn(g, base, f, n, X) ==
  g[0] = base /\ \A i \in 1..n : g[i - 1] \in X => g[i] = f[i][g[i - 1]]

\* The recursion of a fold is well founded.
LEMMA FoldsExist ==
  ASSUME NEW n \in Nat, NEW X, NEW base \in X, NEW f, Steps(f, n, X)
  PROVE  \E g : Folds(g, base, f, n, X)
<1> DEFINE T == {m \in Nat : m <= n /\ ~\E g : Folds(g, base, f, m, X)}
<1>1. T = {}
  <2> SUFFICES ASSUME T # {} PROVE FALSE
    OBVIOUS
  <2>0. T \subseteq Nat
    OBVIOUS
  <2> HIDE DEF T
  <2>1. PICK m \in T : \A k \in T : m <= k
    BY <2>0, LeastNat
  <2>2. m \in Nat /\ m <= n /\ ~\E g : Folds(g, base, f, m, X)
    BY <2>1 DEF T
  <2>3. CASE m = 0
    <3>1. Folds([i \in 0..0 |-> base], base, f, 0, X)
      BY DEF Folds
    <3> QED BY <2>2, <2>3, <3>1
  <2>4. CASE m # 0
    <3>1. m - 1 \in Nat /\ m - 1 <= n /\ ~(m <= m - 1)
      BY <2>2, <2>4
    <3>2. PICK g : Folds(g, base, f, m - 1, X)
      BY <2>1, <3>1 DEF T
    <3>3. PICK x : x = f[m][g[m - 1]]
      OBVIOUS
    <3>4. x \in X
      BY <2>2, <3>1, <3>2, <3>3 DEF Steps, Folds
    <3>5. PICK h : h = [i \in 0..m |-> IF i = m THEN x ELSE g[i]]
      OBVIOUS
    <3>6. h \in [0..m -> X]
      BY <2>2, <3>1, <3>2, <3>4, <3>5 DEF Folds
    <3>7. h[0] = base
      BY <2>2, <2>4, <3>2, <3>5 DEF Folds
    <3>8. \A i \in 1..m : h[i] = f[i][h[i - 1]]
      BY <2>2, <3>1, <3>2, <3>3, <3>5 DEF Folds
    <3>9. Folds(h, base, f, m, X)
      BY <3>6, <3>7, <3>8 DEF Folds
    <3> QED BY <2>2, <3>9
  <2> QED BY <2>3, <2>4
<1>2. n \notin T
  BY <1>1
<1> QED BY <1>2

\* A fold stays in X if its steps do.
LEMMA FoldsStay ==
  ASSUME NEW n \in Nat, NEW X, NEW base \in X, NEW f, Steps(f, n, X), NEW g,
         FoldsIn(g, base, f, n, X)
  PROVE  g[n] \in X
<1> DEFINE T == {m \in Nat : m <= n /\ g[m] \notin X}
<1>1. T = {}
  <2> SUFFICES ASSUME T # {} PROVE FALSE
    OBVIOUS
  <2>0. T \subseteq Nat
    OBVIOUS
  <2> HIDE DEF T
  <2>1. PICK m \in T : \A k \in T : m <= k
    BY <2>0, LeastNat
  <2>2. m \in Nat /\ m <= n /\ g[m] \notin X
    BY <2>1 DEF T
  <2>3. m # 0
    BY <2>2 DEF FoldsIn
  <2>4. m - 1 \in Nat /\ m - 1 <= n /\ ~(m <= m - 1) /\ m \in 1..n
    BY <2>2, <2>3
  <2>5. g[m - 1] \in X
    BY <2>1, <2>4 DEF T
  <2>6. g[m] \in X
    BY <2>4, <2>5 DEF FoldsIn, Steps
  <2> QED BY <2>2, <2>6
<1>2. n \notin T
  BY <1>1
<1> QED BY <1>2

-----------------------------------------------------------------------------
(* resultStore.Add.                                                        *)

Stores == [WorkID -> Stored \cup {None}]

\* Nothing is lost, and what is replaced is replaced by something newer.
NoOlder(st, new) ==
  \A w \in WorkID : st[w] # None =>
    /\ new[w] # None
    /\ \/ new[w].block > st[w].block
       \/ new[w] = st[w]

\* The recursion of AddAll.
Adding(g, st, rs, i) == IF i = 0 THEN st ELSE Added(g[i - 1], rs[i])
AddsOf(st, rs) == CHOOSE g : g = [i \in 0..Len(rs) |-> Adding(g, st, rs, i)]

LEMMA AddIsFold ==
  ASSUME NEW st, NEW rs
  PROVE  AddAll(st, rs) = AddsOf(st, rs)[Len(rs)]
BY DEF AddAll, Adding, AddsOf

\* One result added.
LEMMA AddedNoOlder ==
  ASSUME NEW st \in Stores, NEW y \in Stores, NoOlder(st, y), NEW r \in Result
  PROVE  Added(y, r) \in Stores /\ NoOlder(st, Added(y, r))
<1>1. CASE r.state # "eligible" \/ (y[r.workID] # None /\ y[r.workID].block >= r.block)
  BY <1>1 DEF Added
<1>2. CASE ~(r.state # "eligible" \/ (y[r.workID] # None /\ y[r.workID].block >= r.block))
  <2>1. PICK n : n = [block |-> r.block, age |-> 0]
    OBVIOUS
  <2>2. Added(y, r) = [y EXCEPT ![r.workID] = n]
    BY <1>2, <2>1 DEF Added
  <2>3. n \in Stored /\ n.block = r.block /\ n # None /\ r.workID \in WorkID /\ r.block \in Nat
    <3>1. r.block \in Block /\ r.workID \in WorkID /\ r.block \in Nat
      BY FlowsAssumption DEF Result
    <3>2. 0 \in 0..(StoreTTL + 1)
      BY FlowsAssumption
    <3>3. n \in Stored
      BY <2>1, <3>1, <3>2 DEF Stored
    <3> QED BY <2>1, <3>1, <3>3, FlowsAssumption
  <2>4. Added(y, r) \in Stores
    BY <2>2, <2>3 DEF Stores
  <2>5. y[r.workID] = None \/ (y[r.workID] \in Stored /\ ~(y[r.workID].block >= r.block))
    BY <1>2, <2>3 DEF Stores
  <2>6. \A w \in WorkID : st[w] # None => st[w].block \in Nat /\ y[w].block \in Nat
    BY FlowsAssumption DEF Stores, Stored, NoOlder
  <2>7. \A w \in WorkID : Added(y, r)[w] = IF w = r.workID THEN n ELSE y[w]
    BY <2>2 DEF Stores
  <2> QED BY <2>3, <2>4, <2>5, <2>6, <2>7 DEF NoOlder
<1> QED BY <1>1, <1>2

\* All the results of a tick added.
LEMMA AddsNoOlder ==
  ASSUME NEW st \in Stores, NEW rs \in Seq(Result)
  PROVE  AddAll(st, rs) \in Stores /\ NoOlder(st, AddAll(st, rs))
<1> DEFINE n == Len(rs)
           X == {y \in Stores : NoOlder(st, y)}
           f == [i \in 1..n |-> [y \in X |-> Added(y, rs[i])]]
<1>1. n \in Nat /\ \A i \in 1..n : rs[i] \in Result
  OBVIOUS
<1>2. st \in X
  BY DEF NoOlder
<1>3. \A i \in 1..n : \A y \in X : Added(y, rs[i]) \in X
  BY <1>1, AddedNoOlder
<1> HIDE DEF X
<1>4. Steps(f, n, X)
  BY <1>3 DEF Steps
<1>5. \A i \in 1..n : \A y \in X : f[i][y] = Added(y, rs[i])
  OBVIOUS
<1> HIDE DEF f, n
<1>6. \A i \in 0..n : i = 0 \/ (i \in 1..n /\ i - 1 \in 0..n)
  BY <1>1
<1>7. PICK h : Folds(h, st, f, n, X)
  BY <1>1, <1>2, <1>4, FoldsExist, Zenon
<1>8. \A i \in 0..n : h[i] = Adding(h, st, rs, i)
  BY <1>5, <1>6, <1>7 DEF Folds, Adding
<1>9. h = [i \in 0..n |-> Adding(h, st, rs, i)]
  BY <1>7, <1>8 DEF Folds
<1>10. PICK g : g = AddsOf(st, rs)
  OBVIOUS
<1>11. g = [i \in 0..n |-> Adding(g, st, rs, i)]
  BY <1>9, <1>10 DEF AddsOf, n
<1>12. FoldsIn(g, st, f, n, X)
  <2>1. g[0] = st
    BY <1>1, <1>11 DEF Adding
  <2>2. \A i \in 1..n : g[i] = Added(g[i - 1], rs[i])
    BY <1>1, <1>11 DEF Adding
  <2> QED BY <1>5, <2>1, <2>2 DEF FoldsIn
<1>13. g[n] \in X
  BY <1>1, <1>2, <1>4, <1>12, FoldsStay, Zenon
<1>14. AddAll(st, rs) \in X
  BY <1>10, <1>13, AddIsFold, Zenon DEF n
<1> QED BY <1>14 DEF X

-----------------------------------------------------------------------------
(* Where the payloads are: sequences and the works in them.                *)

\* A result appended to others.
LEMMA AppendWorks ==
  ASSUME NEW S, NEW s \in Seq(S), NEW x \in S
  PROVE  /\ Append(s, x) \in Seq(S) /\ WorksOf(Append(s, x)) = WorksOf(s) \cup {x.workID}
         /\ Once(s) /\ x.workID \notin WorksOf(s) => Once(Append(s, x))
<1>1. PICK n : n = Len(s) /\ n \in Nat
  OBVIOUS
<1>2. PICK r : r = Append(s, x)
  OBVIOUS
<1>3. /\ r \in Seq(S) /\ Len(r) = n + 1 /\ r[n + 1] = x
      /\ \A i \in 1..n : r[i] = s[i]
  BY <1>1, <1>2
<1>4. WorksOf(r) = WorksOf(s) \cup {x.workID}
  BY <1>1, <1>3 DEF WorksOf
<1>5. ASSUME Once(s), x.workID \notin WorksOf(s) PROVE Once(r)
  <2>1. \A i \in 1..n : r[i].workID # r[n + 1].workID
    BY <1>1, <1>3, <1>5 DEF WorksOf
  <2> QED BY <1>1, <1>3, <1>5, <2>1 DEF Once
<1> QED BY <1>2, <1>3, <1>4, <1>5

\* The first element of a sequence taken off: the elements, the works, the jobs.
LEMMA HeadTail ==
  ASSUME NEW S, NEW s \in Seq(S), s # <<>>
  PROVE  /\ Head(s) \in S /\ Tail(s) \in Seq(S) /\ Head(s) = s[1]
         /\ Len(s) \in Nat \ {0} /\ Len(Tail(s)) = Len(s) - 1
         /\ \A i \in 1..(Len(s) - 1) : Tail(s)[i] = s[i + 1]
         /\ DOMAIN s = 1..Len(s) /\ DOMAIN Tail(s) = 1..(Len(s) - 1)
OBVIOUS

LEMMA TailWorks ==
  ASSUME NEW S, NEW s \in Seq(S), s # <<>>
  PROVE  /\ Head(s) \in S /\ Tail(s) \in Seq(S)
         /\ WorksOf(s) = WorksOf(Tail(s)) \cup {Head(s).workID}
         /\ Once(s) => Once(Tail(s)) /\ Head(s).workID \notin WorksOf(Tail(s))
<1>1. PICK n : n = Len(s) /\ n \in Nat \ {0}
  BY HeadTail
<1>2. PICK r : r = Tail(s)
  OBVIOUS
<1>3. /\ Head(s) \in S /\ r \in Seq(S) /\ Head(s) = s[1] /\ Len(r) = n - 1
      /\ \A i \in 1..(n - 1) : r[i] = s[i + 1]
  BY <1>1, <1>2, HeadTail
<1>4. \A i \in 1..n : i = 1 \/ (i - 1 \in 1..(n - 1) /\ s[i] = r[i - 1])
  BY <1>1, <1>3
<1>5. WorksOf(s) = WorksOf(r) \cup {s[1].workID}
  <2>1. WorksOf(r) \subseteq WorksOf(s)
    BY <1>1, <1>3 DEF WorksOf
  <2>2. WorksOf(s) \subseteq WorksOf(r) \cup {s[1].workID}
    BY <1>1, <1>3, <1>4 DEF WorksOf
  <2>3. s[1].workID \in WorksOf(s)
    BY <1>1 DEF WorksOf
  <2> QED BY <2>1, <2>2, <2>3
<1>6. ASSUME Once(s) PROVE Once(r) /\ s[1].workID \notin WorksOf(r)
  BY <1>1, <1>3, <1>6 DEF Once, WorksOf
<1> QED BY <1>2, <1>3, <1>5, <1>6

LEMMA TailJobs ==
  ASSUME NEW S, NEW s \in Seq(S), s # <<>>
  PROVE  /\ Head(s) \in S /\ Tail(s) \in Seq(S) /\ Range(s) = Range(Tail(s)) \cup {Head(s)}
         /\ IsInjective(s) => IsInjective(Tail(s)) /\ Head(s) \notin Range(Tail(s))
<1>1. PICK n : n = Len(s) /\ n \in Nat \ {0}
  BY HeadTail
<1>2. PICK r : r = Tail(s)
  OBVIOUS
<1>3. /\ Head(s) \in S /\ r \in Seq(S) /\ Head(s) = s[1] /\ DOMAIN s = 1..n
      /\ DOMAIN r = 1..(n - 1) /\ \A i \in 1..(n - 1) : r[i] = s[i + 1]
  BY <1>1, <1>2, HeadTail
<1>4. \A i \in 1..n : i = 1 \/ (i - 1 \in 1..(n - 1) /\ s[i] = r[i - 1])
  BY <1>1, <1>3
<1>5. Range(s) = Range(r) \cup {s[1]}
  <2>1. Range(r) \subseteq Range(s)
    <3>1. \A i \in 1..(n - 1) : i + 1 \in 1..n
      BY <1>1
    <3> QED BY <1>3, <3>1 DEF Range
  <2>2. Range(s) \subseteq Range(r) \cup {s[1]}
    BY <1>1, <1>3, <1>4 DEF Range
  <2>3. s[1] \in Range(s)
    BY <1>1, <1>3 DEF Range
  <2> QED BY <2>1, <2>2, <2>3
<1>6. ASSUME IsInjective(s) PROVE IsInjective(r) /\ s[1] \notin Range(r)
  <2>1. \A i \in 1..(n - 1) : i + 1 \in 1..n /\ i + 1 # 1 /\ 1 \in 1..n
    BY <1>1
  <2>2. s[1] \notin Range(r)
    BY <1>3, <1>6, <2>1 DEF IsInjective, Range
  <2>3. ASSUME NEW i \in 1..(n - 1), NEW j \in 1..(n - 1), r[i] = r[j] PROVE i = j
    <3>1. s[i + 1] = s[j + 1]
      BY <1>3, <2>3
    <3>2. i + 1 = j + 1
      BY <1>3, <1>6, <2>1, <3>1 DEF IsInjective
    <3> QED BY <3>2
  <2> QED BY <1>3, <2>2, <2>3 DEF IsInjective
<1> QED BY <1>2, <1>3, <1>5, <1>6

\* The bounds of the k-th batch.
From(k, size) == (k - 1) * size + 1
To(k, size, n) == IF k * size < n THEN k * size ELSE n

\* The bounds util.Unflatten cuts at: every index is within those of one batch.
LEMMA Batches ==
  ASSUME NEW n \in Nat, NEW size \in Nat \ {0},
         NEW count, count = (n + size - 1) \div size
  PROVE  /\ count \in Nat
         /\ \A k \in 1..count : From(k, size) \in 1..n /\ To(k, size, n) \in From(k, size)..n
         /\ \A k, j \in 1..count : k < j => To(k, size, n) < From(j, size)
         /\ \A i \in 1..n : \E k \in 1..count : i \in From(k, size)..To(k, size, n)
<1>1. count \in Nat /\ count * size <= n + size - 1 /\ n + size - 1 < count * size + size
  BY SMTT(20)
<1>2. ASSUME NEW k \in 1..count
      PROVE  From(k, size) \in 1..n /\ To(k, size, n) \in From(k, size)..n
  <2>1. k * size <= count * size /\ (k - 1) * size = k * size - size
        /\ k * size \in Nat /\ (k - 1) * size \in Nat
    BY <1>1, SMTT(20)
  <2> QED BY <1>1, <2>1 DEF From, To
<1>3. ASSUME NEW k \in 1..count, NEW j \in 1..count, k < j
      PROVE  To(k, size, n) < From(j, size)
  <2>1. k * size <= (j - 1) * size /\ k * size \in Nat /\ (j - 1) * size \in Nat
    BY <1>1, <1>3, SMTT(20)
  <2> QED BY <2>1 DEF From, To
<1>4. ASSUME NEW i \in 1..n
      PROVE  \E k \in 1..count : i \in From(k, size)..To(k, size, n)
  <2>1. PICK q : q = (i - 1) \div size
    OBVIOUS
  <2>2. q \in Nat /\ q * size <= i - 1 /\ i - 1 < q * size + size
    BY <2>1, SMTT(20)
  <2>3. q < count
    BY <1>1, <2>2, SMTT(20)
  <2>4. q * size \in Nat /\ (q + 1) * size = q * size + size
    BY <2>2, SMTT(20)
  <2>5. q + 1 \in 1..count /\ (q + 1) - 1 = q
    BY <1>1, <2>2, <2>3
  <2>6. From(q + 1, size) <= i /\ i <= To(q + 1, size, n) /\ From(q + 1, size) \in Int
        /\ To(q + 1, size, n) \in Int
    BY <2>2, <2>4, <2>5 DEF From, To
  <2> QED BY <2>5, <2>6
<1> QED BY <1>1, <1>2, <1>3, <1>4

\* A segment of a sequence, and the works in it.
LEMMA SubSeqIs ==
  ASSUME NEW S, NEW s \in Seq(S), NEW a \in 1..Len(s), NEW b \in a..Len(s)
  PROVE  /\ SubSeq(s, a, b) \in Seq(S) /\ Len(SubSeq(s, a, b)) = b - a + 1
         /\ \A i \in 1..(b - a + 1) : SubSeq(s, a, b)[i] = s[a + i - 1]
OBVIOUS

LEMMA SubSeqWorks ==
  ASSUME NEW S, NEW s \in Seq(S), NEW a \in 1..Len(s), NEW b \in a..Len(s)
  PROVE  /\ SubSeq(s, a, b) \in Seq(S)
         /\ WorksOf(SubSeq(s, a, b)) = {s[i].workID : i \in a..b}
         /\ Once(s) => Once(SubSeq(s, a, b))
<1>1. PICK r : r = SubSeq(s, a, b)
  OBVIOUS
<1>2. PICK n : n = Len(s) /\ n \in Nat /\ a \in 1..n /\ b \in a..n
  OBVIOUS
<1>3. /\ r \in Seq(S) /\ Len(r) = b - a + 1
      /\ \A i \in 1..(b - a + 1) : r[i] = s[a + i - 1]
  BY <1>1, SubSeqIs
<1>4. \A i \in a..b : i - a + 1 \in 1..(b - a + 1) /\ s[i] = r[i - a + 1]
  BY <1>2, <1>3
<1>7. \A i \in 1..(b - a + 1) : a + i - 1 \in a..b /\ a + i - 1 \in 1..n
  BY <1>2
<1>5. WorksOf(r) = {s[i].workID : i \in a..b}
  <2>1. WorksOf(r) \subseteq {s[i].workID : i \in a..b}
    BY <1>2, <1>3, <1>7 DEF WorksOf
  <2>2. {s[i].workID : i \in a..b} \subseteq WorksOf(r)
    BY <1>2, <1>3, <1>4 DEF WorksOf
  <2> QED BY <2>1, <2>2
<1>6. ASSUME Once(s) PROVE Once(r)
  <2>1. ASSUME NEW i \in 1..(b - a + 1), NEW j \in 1..(b - a + 1), r[i].workID = r[j].workID
        PROVE  i = j
    <3>1. s[a + i - 1].workID = s[a + j - 1].workID
      BY <1>3, <2>1
    <3>2. a + i - 1 = a + j - 1
      BY <1>2, <1>6, <1>7, <3>1 DEF Once
    <3> QED BY <1>2, <3>2
  <2> QED BY <1>3, <2>1 DEF Once
<1> QED BY <1>1, <1>3, <1>5, <1>6

\* The jobs u hold the works of s, each in one job.
Jobs(s, u) ==
  /\ \A w : w \in WorksOf(s) <=> \E job \in Range(u) : w \in WorksOf(job)
  /\ \A job \in Range(u) : Once(job) /\ \A other \in Range(u) \ {job} : Apart(job, other)
  /\ IsInjective(u)

\* util.Unflatten loses and repeats nothing.
LEMMA UnflattenSplits ==
  ASSUME NEW S, NEW s \in Seq(S), Once(s), NEW size \in Nat \ {0}
  PROVE  Unflatten(s, size) \in Seq(Seq(S)) /\ Jobs(s, Unflatten(s, size))
<1>1. PICK n : n = Len(s) /\ n \in Nat
  OBVIOUS
<1>2. PICK count : count = (n + size - 1) \div size
  OBVIOUS
<1>3. PICK u : u = Unflatten(s, size)
  OBVIOUS
<1>4. /\ count \in Nat
      /\ \A k \in 1..count : From(k, size) \in 1..n /\ To(k, size, n) \in From(k, size)..n
      /\ \A k, j \in 1..count : k < j => To(k, size, n) < From(j, size)
      /\ \A i \in 1..n : \E k \in 1..count : i \in From(k, size)..To(k, size, n)
  BY <1>1, <1>2, Batches
<1>5. PICK A, B : /\ A = [k \in 1..count |-> From(k, size)]
                  /\ B = [k \in 1..count |-> To(k, size, n)]
  OBVIOUS
<1>a. /\ \A k \in 1..count : A[k] \in 1..n /\ B[k] \in A[k]..n
      /\ \A k, j \in 1..count : k < j => B[k] < A[j]
      /\ \A i \in 1..n : \E k \in 1..count : i \in A[k]..B[k]
  BY <1>4, <1>5
<1>b. u = [k \in 1..count |-> SubSeq(s, A[k], B[k])]
  BY <1>1, <1>2, <1>3, <1>5 DEF Unflatten, From, To
<1>6. ASSUME NEW k \in 1..count
      PROVE  /\ u[k] \in Seq(S) /\ Once(u[k])
             /\ \A w : w \in WorksOf(u[k]) <=> \E i \in A[k]..B[k] : w = s[i].workID
  <2>1. PICK a, b : a = A[k] /\ b = B[k] /\ a \in 1..Len(s) /\ b \in a..Len(s)
    BY <1>1, <1>a
  <2>2. u[k] = SubSeq(s, a, b)
    BY <1>b, <2>1
  <2>3. u[k] \in Seq(S) /\ Once(u[k]) /\ WorksOf(u[k]) = {s[i].workID : i \in a..b}
    BY <2>1, <2>2, SubSeqWorks
  <2> QED BY <2>1, <2>3
<1>7. u \in Seq(Seq(S)) /\ DOMAIN u = 1..count
  BY <1>4, <1>b, <1>6
<1>c. \A k \in 1..count : \A i \in A[k]..B[k] : i \in 1..n
  BY <1>1, <1>a
<1>8. ASSUME NEW k \in 1..count, NEW j \in 1..count, k # j PROVE Apart(u[k], u[j])
  <2>1. \A a \in A[k]..B[k], b \in A[j]..B[j] : a # b
    <3>1. k < j \/ j < k
      BY <1>4, <1>8
    <3>2. A[k] \in Int /\ B[k] \in Int /\ A[j] \in Int /\ B[j] \in Int
      BY <1>1, <1>a
    <3>3. B[k] < A[j] \/ B[j] < A[k]
      BY <1>a, <3>1
    <3> QED BY <3>2, <3>3
  <2>2. \A a \in A[k]..B[k], b \in A[j]..B[j] : s[a].workID # s[b].workID
    BY <1>1, <1>c, <2>1 DEF Once
  <2>3. ASSUME NEW w, w \in WorksOf(u[k]), w \in WorksOf(u[j]) PROVE FALSE
    <3>1. PICK a \in A[k]..B[k] : w = s[a].workID
      BY <1>6, <2>3
    <3>2. PICK b \in A[j]..B[j] : w = s[b].workID
      BY <1>6, <2>3
    <3> QED BY <2>2, <3>1, <3>2
  <2> QED BY <2>3 DEF Apart
<1>9. ASSUME NEW k \in 1..count PROVE WorksOf(u[k]) # {}
  <2>1. A[k] \in A[k]..B[k]
    BY <1>1, <1>a
  <2> QED BY <1>6, <2>1
<1>10. IsInjective(u)
  <2>1. ASSUME NEW k \in 1..count, NEW j \in 1..count, u[k] = u[j] PROVE k = j
    BY <1>8, <1>9, <2>1 DEF Apart
  <2> QED BY <1>7, <2>1 DEF IsInjective
<1>11. \A w : w \in WorksOf(s) <=> \E k \in 1..count : w \in WorksOf(u[k])
  <2>1. \A w : w \in WorksOf(s) <=> \E i \in 1..n : w = s[i].workID
    BY <1>1 DEF WorksOf
  <2>2. ASSUME NEW w, w \in WorksOf(s) PROVE \E k \in 1..count : w \in WorksOf(u[k])
    <3>1. PICK i \in 1..n : w = s[i].workID
      BY <2>1, <2>2
    <3>2. PICK k \in 1..count : i \in A[k]..B[k]
      BY <1>a
    <3>3. w \in WorksOf(u[k])
      BY <1>6, <3>1, <3>2
    <3> QED BY <3>3
  <2>3. ASSUME NEW w, NEW k \in 1..count, w \in WorksOf(u[k]) PROVE w \in WorksOf(s)
    <3>1. PICK i \in A[k]..B[k] : w = s[i].workID
      BY <1>6, <2>3
    <3> QED BY <1>c, <2>1, <3>1
  <2> QED BY <2>2, <2>3
<1>12. \A job : job \in Range(u) <=> \E k \in 1..count : job = u[k]
  BY <1>7 DEF Range
<1>13. Jobs(s, u)
  BY <1>6, <1>8, <1>10, <1>11, <1>12 DEF Jobs
<1> QED BY <1>3, <1>7, <1>13

LEMMA Upto ==
  ASSUME NEW n \in Nat
  PROVE  IsFiniteSet(1..n) /\ Cardinality(1..n) = n
BY FS_Interval

\* f lists the members of I, each once.
Lists(f, c, I) ==
  /\ c \in Nat /\ f \in [1..c -> I] /\ \A i, j \in 1..c : f[i] = f[j] => i = j
  /\ \A x \in I : \E i \in 1..c : f[i] = x

LEMMA IncreasingLists ==
  ASSUME NEW n \in Nat, NEW I \in SUBSET (1..n), NEW f \in Increasing(I)
  PROVE  \E c : Lists(f, c, I)
<1>1. IsFiniteSet(1..n)
  BY Upto
<1>2. IsFiniteSet(I)
  BY <1>1, FS_Subset
<1>3. PICK c : c = Cardinality(I) /\ c \in Nat
  BY <1>2, FS_CardinalityType
<1>4. f \in [1..c -> I] /\ \A i, j \in 1..c : i < j => f[i] < f[j]
  BY <1>3 DEF Increasing
<1>5. ASSUME NEW i \in 1..c, NEW j \in 1..c, f[i] = f[j] PROVE i = j
  <2>1. f[i] \in I /\ f[j] \in I
    BY <1>4
  <2>2. \A x \in I : x \in Nat
    OBVIOUS
  <2>3. f[i] \in Nat /\ f[j] \in Nat
    BY <2>1, <2>2
  <2> QED BY <1>3, <1>4, <1>5, <2>3
<1>6. f \in Injection(1..c, I)
  BY <1>4, <1>5 DEF Injection, IsInjective
<1>7. Cardinality(1..c) = c
  BY <1>3, Upto
<1>8. f \in Surjection(1..c, I)
  BY <1>2, <1>3, <1>6, <1>7, FS_Injection
<1>9. Lists(f, c, I)
  BY <1>3, <1>4, <1>5, <1>8 DEF Surjection, Lists
<1> QED BY <1>9

\* A sequence without repetition is no longer than one that has all its works.
LEMMA NoLonger ==
  ASSUME NEW S, NEW r \in Seq(S), NEW R, NEW s \in Seq(R), Once(r), WorksOf(r) \subseteq WorksOf(s)
  PROVE  Len(r) <= Len(s)
<1>1. PICK n : n = Len(r) /\ n \in Nat
  OBVIOUS
<1>2. PICK m : m = Len(s) /\ m \in Nat
  OBVIOUS
<1> DEFINE f == [i \in 1..n |-> CHOOSE j \in 1..m : s[j].workID = r[i].workID]
<1>3. \A i \in 1..n : \E j \in 1..m : s[j].workID = r[i].workID
  BY <1>1, <1>2 DEF WorksOf
<1>4. \A i \in 1..n : f[i] \in 1..m /\ s[f[i]].workID = r[i].workID
  BY <1>3
<1>5. f \in [1..n -> 1..m]
  BY <1>4
<1> HIDE DEF f
<1>6. f \in Injection(1..n, 1..m)
  <2>1. ASSUME NEW i \in 1..n, NEW j \in 1..n, f[i] = f[j] PROVE i = j
    <3>1. r[i].workID = r[j].workID
      BY <1>4, <2>1
    <3> QED BY <1>1, <3>1 DEF Once
  <2> QED BY <1>5, <2>1 DEF Injection, IsInjective
<1>7. IsFiniteSet(1..m) /\ Cardinality(1..m) = m /\ Cardinality(1..n) = n
  BY <1>1, <1>2, Upto
<1> QED BY <1>1, <1>2, <1>6, <1>7, FS_Injection

-----------------------------------------------------------------------------
(* A tick in progress, and its first step.                                 *)

Job == Seq(Payload)
TickRec ==
  [pc : {"check", "run", "store", "retry"}, value : Seq(Payload), todo : Seq(Job),
   running : SUBSET Job, lost : SUBSET Job, ok : BOOLEAN, failures : Nat,
   inbox : Seq(Result), set : BOOLEAN, results : Seq(Result)]

Empty(t) == /\ t.todo = <<>> /\ t.running = {} /\ t.lost = {}
            /\ t.inbox = <<>> /\ t.results = <<>>

\* A tick in progress.
TickOK(t) ==
  /\ t \in TickRec /\ Once(t.value) /\ (t.set => t.inbox # <<>>)
  /\ t.pc = "check" => Empty(t)
  /\ t.pc # "check" => InOnePlace(t)

\* r has, in the order f, the works of v at the indices I.
Along(r, f, v, S) ==
  /\ r = [k \in DOMAIN f |-> r[k]]
  /\ \A k \in DOMAIN f : r[k] \in S /\ r[k].workID = v[f[k]].workID
Holds(r, v, I) == \A w : w \in WorksOf(r) <=> \E i \in I : w = v[i].workID

\* What the cache answers, and what it does not, are parts of the tick's payloads.
LEMMA Listed ==
  ASSUME NEW v \in Seq(Payload), Once(v), NEW I, I \subseteq 1..Len(v), NEW f \in Increasing(I),
         NEW S, NEW r, Along(r, f, v, S)
  PROVE  r \in Seq(S) /\ Once(r) /\ Holds(r, v, I)
<1> USE DEF Along
<1>1. PICK n : n = Len(v) /\ n \in Nat /\ I \in SUBSET (1..n)
  OBVIOUS
<1>a. PICK c : Lists(f, c, I)
  BY <1>1, IncreasingLists, Zenon
<1>2. /\ c \in Nat /\ f \in [1..c -> I] /\ \A i, j \in 1..c : f[i] = f[j] => i = j
      /\ \A x \in I : \E i \in 1..c : f[i] = x
  BY <1>a DEF Lists
<1>3. DOMAIN f = 1..c /\ \A k \in 1..c : f[k] \in I /\ f[k] \in 1..n
  BY <1>1, <1>2
<1>4. r \in Seq(S) /\ Len(r) = c
  BY <1>2, <1>3
<1>5. \A k \in 1..c : r[k].workID = v[f[k]].workID
  BY <1>3
<1>6. Once(r)
  <2> SUFFICES ASSUME NEW i \in 1..c, NEW j \in 1..c, r[i].workID = r[j].workID PROVE i = j
    BY <1>4 DEF Once
  <2>1. v[f[i]].workID = v[f[j]].workID
    BY <1>5
  <2>2. f[i] = f[j]
    BY <1>1, <1>3, <2>1 DEF Once
  <2> QED BY <1>2, <2>2
<1>7. \A w : w \in WorksOf(r) <=> \E k \in 1..c : w = r[k].workID
  BY <1>4 DEF WorksOf
<1>8. ASSUME NEW w, w \in WorksOf(r) PROVE \E i \in I : w = v[i].workID
  BY <1>3, <1>5, <1>7, <1>8
<1>9. ASSUME NEW i \in I PROVE v[i].workID \in WorksOf(r)
  <2>1. PICK k \in 1..c : f[k] = i
    BY <1>2
  <2> QED BY <1>5, <1>7, <2>1
<1> QED BY <1>4, <1>6, <1>8, <1>9 DEF Holds

Caches == {c \in [WorkID -> Result \cup {None}] : \A w \in WorkID : c[w] # None => c[w].workID = w}

Checked(t, c, hit, miss) ==
  [t EXCEPT !.pc = "run",
            !.results = [k \in DOMAIN hit |-> c[t.value[hit[k]].workID]],
            !.todo = Unflatten([k \in DOMAIN miss |-> t.value[miss[k]]], WorkerBatchLimit)]

\* The cache lookup and the split into jobs put each payload in one place.
LEMMA CheckTick ==
  ASSUME NEW t, TickOK(t), t.pc = "check", NEW c \in Caches,
         NEW hits \in SUBSET (1..Len(t.value)), \A i \in hits : c[t.value[i].workID] # None,
         NEW hit \in Increasing(hits), NEW miss \in Increasing((1..Len(t.value)) \ hits)
  PROVE  TickOK(Checked(t, c, hit, miss))
<1>1. PICK v : v = t.value /\ v \in Seq(Payload) /\ Once(v)
  BY DEF TickOK, TickRec
<1>2. PICK res : res = [k \in DOMAIN hit |-> c[v[hit[k]].workID]]
  OBVIOUS
<1>3. PICK m : m = [k \in DOMAIN miss |-> v[miss[k]]]
  OBVIOUS
<1>4. PICK u : u = Unflatten(m, WorkerBatchLimit)
  OBVIOUS
<1>5. \A i \in 1..Len(v) : v[i] \in Payload /\ v[i].workID \in WorkID
  <2>1. \A i \in 1..Len(v) : v[i] \in Payload
    BY <1>1
  <2> QED BY <2>1 DEF Payload
<1>6. res \in Seq(Result) /\ Once(res) /\ Holds(res, v, hits)
  <2>1. ASSUME NEW k \in DOMAIN hit PROVE hit[k] \in hits
    BY DEF Increasing
  <2>2. ASSUME NEW k \in DOMAIN hit PROVE res[k] \in Result /\ res[k].workID = v[hit[k]].workID
    <3>1. hit[k] \in 1..Len(v) /\ c[v[hit[k]].workID] # None
      BY <1>1, <2>1
    <3> QED BY <1>2, <1>5, <3>1 DEF Caches
  <2>3. res = [k \in DOMAIN hit |-> res[k]]
    BY <1>2
  <2>4. Along(res, hit, v, Result)
    BY <2>2, <2>3 DEF Along
  <2>5. hits \subseteq 1..Len(v)
    BY <1>1
  <2> QED BY <1>1, <2>4, <2>5, Listed, Zenon
<1>7. m \in Seq(Payload) /\ Once(m) /\ Holds(m, v, (1..Len(v)) \ hits)
  <2>1. ASSUME NEW k \in DOMAIN miss PROVE miss[k] \in 1..Len(v)
    BY <1>1 DEF Increasing
  <2>2. \A k \in DOMAIN miss : m[k] \in Payload /\ m[k].workID = v[miss[k]].workID
    BY <1>3, <1>5, <2>1
  <2>3. m = [k \in DOMAIN miss |-> m[k]]
    BY <1>3
  <2>4. (1..Len(v)) \ hits \subseteq 1..Len(v) /\ miss \in Increasing((1..Len(v)) \ hits)
    BY <1>1
  <2>5. Along(m, miss, v, Payload)
    BY <2>2, <2>3 DEF Along
  <2> QED BY <1>1, <2>4, <2>5, Listed, Zenon
<1>8. u \in Seq(Job) /\ Jobs(m, u)
  BY <1>4, <1>7, UnflattenSplits, FlowsAssumption DEF Job
<1>9. PICK t2 : t2 = [t EXCEPT !.pc = "run", !.results = res, !.todo = u]
  OBVIOUS
<1>10. t2 \in TickRec
  BY <1>6, <1>8, <1>9 DEF TickOK, TickRec
<1>11. /\ t2.pc = "run" /\ t2.results = res /\ t2.todo = u /\ t2.value = v
       /\ t2.running = {} /\ t2.lost = {} /\ t2.inbox = <<>> /\ t2.set = t.set
  BY <1>1, <1>9 DEF TickOK, TickRec, Empty
<1>12. WorksOf(<<>>) = {} /\ Once(<<>>)
  BY DEF WorksOf, Once
<1>13. \A w : w \in WorksOf(v) <=> \E i \in 1..Len(v) : w = v[i].workID
  BY DEF WorksOf
<1>14. \A w : w \in WorksOf(v) <=> w \in WorksOf(res) \/ w \in WorksOf(m)
  BY <1>1, <1>6, <1>7, <1>13 DEF Holds
<1>15. \A w : ~(w \in WorksOf(res) /\ w \in WorksOf(m))
  <2> SUFFICES ASSUME NEW w, w \in WorksOf(res), w \in WorksOf(m) PROVE FALSE
    OBVIOUS
  <2>1. PICK i \in hits : w = v[i].workID
    BY <1>6 DEF Holds
  <2>2. PICK j \in (1..Len(v)) \ hits : w = v[j].workID
    BY <1>7 DEF Holds
  <2> QED BY <1>1, <2>1, <2>2 DEF Once
<1>16. InOnePlace(t2)
  <2>1. PICK jobs : jobs = Range(u)
    OBVIOUS
  <2>2. Range(t2.todo) \cup t2.running \cup t2.lost = jobs
    BY <1>11, <2>1
  <2>3. /\ \A w : w \in WorksOf(m) <=> \E job \in jobs : w \in WorksOf(job)
        /\ \A job \in jobs : Once(job) /\ \A other \in jobs \ {job} : Apart(job, other)
        /\ IsInjective(u)
    BY <1>8, <2>1 DEF Jobs
  <2>4. \A w : w \in WorksOf(v) <=> w \in WorksOf(res) \/ \E job \in jobs : w \in WorksOf(job)
    BY <1>14, <2>3
  <2>5. \A job \in jobs : Apart(job, res) /\ Apart(job, <<>>)
    BY <1>12, <1>15, <2>3 DEF Apart
  <2>6. Apart(res, <<>>)
    BY <1>12 DEF Apart
  <2> QED BY <1>6, <1>11, <1>12, <2>2, <2>3, <2>4, <2>5, <2>6 DEF InOnePlace
<1>17. TickOK(t2)
  BY <1>1, <1>10, <1>11, <1>16 DEF TickOK, Empty
<1> QED BY <1>1, <1>2, <1>3, <1>4, <1>9, <1>17 DEF Checked

-----------------------------------------------------------------------------
(* The steps of a tick, on its record.                                     *)

\* InOnePlace in two parts: which works the jobs have, and where the jobs are.
Placed(v, r, b, jobs) ==
  /\ \A w \in WorkID : w \in WorksOf(v) <=> \/ w \in WorksOf(r) \cup WorksOf(b)
                                            \/ \E job \in jobs : w \in WorksOf(job)
  /\ Once(r) /\ Once(b) /\ Apart(r, b)
  /\ \A job \in jobs : /\ Once(job) /\ Apart(job, r) /\ Apart(job, b)
                       /\ \A other \in jobs \ {job} : Apart(job, other)

JobsOf(t) == Range(t.todo) \cup t.running \cup t.lost

JobsOnce(t) == /\ IsInjective(t.todo) /\ t.running \cap t.lost = {}
               /\ Range(t.todo) \cap (t.running \cup t.lost) = {}

LEMMA PlacesOf ==
  ASSUME NEW t
  PROVE  InOnePlace(t) <=> Placed(t.value, t.results, t.inbox, JobsOf(t)) /\ JobsOnce(t)
BY DEF InOnePlace, Placed, JobsOf, JobsOnce

\* A job goes to the workers; the others are dropped at the time limit; a job
\* fails; a job succeeds; one of its results is handled.
LEMMA DoTick ==
  ASSUME NEW t, TickOK(t), t.pc = "run", t.todo # <<>>
  PROVE  TickOK([t EXCEPT !.todo = Tail(@), !.running = @ \cup {Head(t.todo)}])
<1>1. PICK u : u = [t EXCEPT !.todo = Tail(@), !.running = @ \cup {Head(t.todo)}]
  OBVIOUS
<1>2. t.todo \in Seq(Job) /\ InOnePlace(t)
  BY DEF TickOK, TickRec
<1>3. PICK h, r : h = Head(t.todo) /\ r = Tail(t.todo)
  OBVIOUS
<1>4. /\ h \in Job /\ r \in Seq(Job) /\ Range(t.todo) = Range(r) \cup {h}
      /\ IsInjective(r) /\ h \notin Range(r)
  BY <1>2, <1>3, TailJobs DEF InOnePlace
<1>5. u = [t EXCEPT !.todo = r, !.running = @ \cup {h}]
  BY <1>1, <1>3
<1>6. u \in TickRec
  BY <1>4, <1>5 DEF TickOK, TickRec
<1>7. /\ u.todo = r /\ u.running = t.running \cup {h} /\ u.lost = t.lost /\ u.value = t.value
      /\ u.results = t.results /\ u.inbox = t.inbox /\ u.pc = "run" /\ u.set = t.set
  BY <1>5 DEF TickOK, TickRec
<1>8. JobsOf(u) = JobsOf(t)
  BY <1>4, <1>7 DEF JobsOf
<1>9. JobsOnce(u)
  BY <1>2, <1>4, <1>7 DEF JobsOnce, InOnePlace
<1>10. InOnePlace(u)
  BY <1>2, <1>7, <1>8, <1>9, PlacesOf
<1> QED BY <1>1, <1>6, <1>7, <1>10 DEF TickOK

LEMMA DoFailsTick ==
  ASSUME NEW t, TickOK(t), t.pc = "run"
  PROVE  TickOK([t EXCEPT !.todo = <<>>, !.lost = @ \cup Range(t.todo)])
<1>1. PICK R : R = Range(t.todo)
  OBVIOUS
<1>2. PICK u : u = [t EXCEPT !.todo = <<>>, !.lost = @ \cup R]
  OBVIOUS
<1>3. t.todo \in Seq(Job) /\ InOnePlace(t)
  BY DEF TickOK, TickRec
<1>4. R \subseteq Job
  BY <1>1, <1>3 DEF Range
<1>5. u \in TickRec
  <2>0. t.lost \in SUBSET Job
    BY DEF TickOK, TickRec
  <2>1. PICK lost : lost = t.lost \cup R /\ lost \in SUBSET Job
    BY <1>4, <2>0
  <2>2. u = [t EXCEPT !.todo = <<>>, !.lost = lost] /\ <<>> \in Seq(Job)
    BY <1>2, <2>1
  <2> QED BY <2>1, <2>2 DEF TickOK, TickRec
<1>6. /\ u.todo = <<>> /\ u.running = t.running /\ u.lost = t.lost \cup R /\ u.value = t.value
      /\ u.results = t.results /\ u.inbox = t.inbox /\ u.pc = "run" /\ u.set = t.set
  BY <1>2 DEF TickOK, TickRec
<1>7. Range(<<>>) = {} /\ IsInjective(<<>>)
  BY DEF Range, IsInjective
<1>8. JobsOf(u) = JobsOf(t)
  BY <1>1, <1>6, <1>7 DEF JobsOf
<1>9. JobsOnce(u)
  BY <1>1, <1>3, <1>6, <1>7 DEF JobsOnce, InOnePlace
<1>10. InOnePlace(u)
  BY <1>3, <1>6, <1>8, <1>9, PlacesOf
<1> QED BY <1>1, <1>2, <1>5, <1>6, <1>10 DEF TickOK

LEMMA JobFailsTick ==
  ASSUME NEW t, TickOK(t), t.pc = "run", NEW job \in t.running
  PROVE  TickOK([t EXCEPT !.running = @ \ {job}, !.lost = @ \cup {job}, !.failures = @ + 1])
<1>1. PICK u : u = [t EXCEPT !.running = @ \ {job}, !.lost = @ \cup {job}, !.failures = @ + 1]
  OBVIOUS
<1>2. InOnePlace(t) /\ job \in Job
  BY DEF TickOK, TickRec
<1>3. u \in TickRec
  <2>a. t.lost \in SUBSET Job /\ t.running \in SUBSET Job /\ t.failures \in Nat
    BY DEF TickOK, TickRec
  <2>b. PICK lost : lost = t.lost \cup {job} /\ lost \in SUBSET Job
    BY <1>2, <2>a
  <2>c. PICK running : running = t.running \ {job} /\ running \in SUBSET Job
    BY <2>a
  <2>d. PICK failures : failures = t.failures + 1 /\ failures \in Nat
    BY <2>a
  <2>1. /\ lost = t.lost \cup {job} /\ lost \in SUBSET Job
        /\ running = t.running \ {job} /\ running \in SUBSET Job
        /\ failures = t.failures + 1 /\ failures \in Nat
    BY <2>b, <2>c, <2>d
  <2>2. u = [t EXCEPT !.running = running, !.lost = lost, !.failures = failures]
    BY <1>1, <2>1
  <2> QED BY <2>1, <2>2 DEF TickOK, TickRec
<1>4. /\ u.todo = t.todo /\ u.running = t.running \ {job} /\ u.lost = t.lost \cup {job}
      /\ u.value = t.value /\ u.results = t.results /\ u.inbox = t.inbox /\ u.pc = "run"
      /\ u.set = t.set
  BY <1>1 DEF TickOK, TickRec
<1>5. JobsOf(u) = JobsOf(t)
  BY <1>4 DEF JobsOf
<1>6. JobsOnce(u)
  BY <1>2, <1>4 DEF JobsOnce, InOnePlace
<1>7. InOnePlace(u)
  BY <1>2, <1>4, <1>5, <1>6, PlacesOf
<1> QED BY <1>1, <1>3, <1>4, <1>7 DEF TickOK

ResultsOf(job, states) ==
  [i \in 1..Len(job) |-> [workID |-> job[i].workID, block |-> job[i].block, state |-> states[i]]]

LEMMA JobDoneTick ==
  ASSUME NEW t, TickOK(t), t.pc = "run", t.inbox = <<>>, NEW job \in t.running,
         NEW states \in [1..Len(job) -> State]
  PROVE  TickOK([t EXCEPT !.running = @ \ {job}, !.ok = TRUE, !.inbox = ResultsOf(job, states)])
<1>1. PICK b : b = ResultsOf(job, states)
  OBVIOUS
<1>2. PICK u : u = [t EXCEPT !.running = @ \ {job}, !.ok = TRUE, !.inbox = b]
  OBVIOUS
<1>3. InOnePlace(t) /\ job \in Seq(Payload)
  BY DEF TickOK, TickRec, Job
<1>4. PICK n : n = Len(job) /\ n \in Nat
  BY <1>3
<1>5. ASSUME NEW i \in 1..n PROVE b[i] \in Result /\ b[i].workID = job[i].workID
  <2>1. job[i] \in Payload
    BY <1>3, <1>4
  <2>2. job[i].workID \in WorkID /\ job[i].block \in Block /\ states[i] \in State
    BY <1>4, <2>1 DEF Payload
  <2>3. b[i] = [workID |-> job[i].workID, block |-> job[i].block, state |-> states[i]]
    BY <1>1, <1>4 DEF ResultsOf
  <2> QED BY <2>2, <2>3 DEF Result
<1>6. b \in Seq(Result) /\ Len(b) = n
  <2>1. b = [i \in 1..n |-> b[i]]
    BY <1>1, <1>4 DEF ResultsOf
  <2> QED BY <1>4, <1>5, <2>1
<1>7. WorksOf(b) = WorksOf(job) /\ (Once(job) => Once(b))
  BY <1>4, <1>5, <1>6 DEF WorksOf, Once
<1>8. u \in TickRec
  BY <1>2, <1>6 DEF TickOK, TickRec
<1>9. /\ u.todo = t.todo /\ u.running = t.running \ {job} /\ u.lost = t.lost
      /\ u.value = t.value /\ u.results = t.results /\ u.inbox = b /\ u.pc = "run"
      /\ u.set = t.set /\ u.set = FALSE
  BY <1>2 DEF TickOK, TickRec
<1>10. job \in JobsOf(t) /\ JobsOf(u) = JobsOf(t) \ {job}
  BY <1>3, <1>9 DEF JobsOf, InOnePlace
<1>11. JobsOnce(u)
  BY <1>3, <1>9 DEF JobsOnce, InOnePlace
<1>12. WorksOf(<<>>) = {}
  BY DEF WorksOf
<1>13. PICK J : J = JobsOf(t)
  OBVIOUS
<1>14. Placed(t.value, t.results, <<>>, J)
  BY <1>3, <1>13, PlacesOf
<1>15. Placed(t.value, t.results, b, J \ {job})
  <2>1. \A w \in WorkID : w \in WorksOf(t.value) <=>
                            \/ w \in WorksOf(t.results) \cup WorksOf(b)
                            \/ \E o \in J \ {job} : w \in WorksOf(o)
    BY <1>7, <1>10, <1>12, <1>13, <1>14 DEF Placed
  <2>2. Once(t.results) /\ Once(b) /\ Apart(t.results, b)
    BY <1>7, <1>10, <1>13, <1>14 DEF Placed, Apart
  <2>3. \A o \in J \ {job} : Apart(o, b)
    BY <1>7, <1>10, <1>13, <1>14 DEF Placed, Apart
  <2>4. \A o \in J \ {job} : Once(o) /\ Apart(o, t.results) /\ \A x \in (J \ {job}) \ {o} : Apart(o, x)
    BY <1>14 DEF Placed
  <2> QED BY <2>1, <2>2, <2>3, <2>4 DEF Placed
<1>16. InOnePlace(u)
  BY <1>9, <1>10, <1>11, <1>13, <1>15, PlacesOf
<1>17. TickOK(u)
  BY <1>8, <1>9, <1>16 DEF TickOK
<1> QED BY <1>1, <1>2, <1>17

LEMMA MoveTick ==
  ASSUME NEW t, TickOK(t), t.pc = "run", t.inbox # <<>>
  PROVE  TickOK([t EXCEPT !.set = FALSE, !.inbox = Tail(@),
                          !.results = Append(@, Head(t.inbox))])
<1>1. PICK x, b : x = Head(t.inbox) /\ b = Tail(t.inbox)
  OBVIOUS
<1>2. PICK r : r = Append(t.results, x)
  OBVIOUS
<1>3. PICK u : u = [t EXCEPT !.set = FALSE, !.inbox = b, !.results = r]
  OBVIOUS
<1>4. t.inbox \in Seq(Result) /\ t.results \in Seq(Result) /\ InOnePlace(t)
  BY DEF TickOK, TickRec
<1>5. PICK J : J = JobsOf(t)
  OBVIOUS
<1>6. Placed(t.value, t.results, t.inbox, J) /\ JobsOnce(t)
  BY <1>4, <1>5, PlacesOf
<1>7. /\ x \in Result /\ b \in Seq(Result) /\ WorksOf(t.inbox) = WorksOf(b) \cup {x.workID}
      /\ Once(b) /\ x.workID \notin WorksOf(b)
  BY <1>1, <1>4, <1>6, TailWorks DEF Placed
<1>8. x.workID \notin WorksOf(t.results)
  BY <1>6, <1>7 DEF Placed, Apart
<1>9. r \in Seq(Result) /\ WorksOf(r) = WorksOf(t.results) \cup {x.workID} /\ Once(r)
  BY <1>2, <1>4, <1>6, <1>7, <1>8, AppendWorks DEF Placed
<1>10. Placed(t.value, r, b, J)
  <2>1. \A w \in WorkID : w \in WorksOf(t.value) <=> \/ w \in WorksOf(r) \cup WorksOf(b)
                                                     \/ \E job \in J : w \in WorksOf(job)
    BY <1>6, <1>7, <1>9 DEF Placed
  <2>2. Apart(r, b)
    BY <1>6, <1>7, <1>9 DEF Placed, Apart
  <2>3. \A job \in J : Apart(job, r) /\ Apart(job, b)
    BY <1>6, <1>7, <1>9 DEF Placed, Apart
  <2> QED BY <1>6, <1>7, <1>9, <2>1, <2>2, <2>3 DEF Placed
<1>11. u \in TickRec
  BY <1>3, <1>7, <1>9 DEF TickOK, TickRec
<1>12. /\ u.todo = t.todo /\ u.running = t.running /\ u.lost = t.lost /\ u.value = t.value
       /\ u.results = r /\ u.inbox = b /\ u.pc = "run" /\ u.set = FALSE
  BY <1>3 DEF TickOK, TickRec
<1>13. InOnePlace(u)
  BY <1>5, <1>6, <1>10, <1>12, PlacesOf DEF JobsOf, JobsOnce
<1>14. TickOK(u)
  BY <1>11, <1>12, <1>13 DEF TickOK
<1> QED BY <1>1, <1>2, <1>3, <1>14

\* Steps that move no payload.
LEMMA SetTick ==
  ASSUME NEW t, TickOK(t), t.pc = "run", t.inbox # <<>>
  PROVE  TickOK([t EXCEPT !.set = TRUE])
<1>1. PICK u : u = [t EXCEPT !.set = TRUE]
  OBVIOUS
<1>2. u \in TickRec
  BY <1>1 DEF TickOK, TickRec
<1>3. /\ u.todo = t.todo /\ u.running = t.running /\ u.lost = t.lost /\ u.value = t.value
      /\ u.results = t.results /\ u.inbox = t.inbox /\ u.pc = "run"
  BY <1>1 DEF TickOK, TickRec
<1>4. InOnePlace(u)
  BY <1>3 DEF TickOK, InOnePlace
<1> QED BY <1>1, <1>2, <1>3, <1>4 DEF TickOK

LEMMA PcTick ==
  ASSUME NEW t, TickOK(t), t.pc # "check", NEW pc \in {"store", "retry"}
  PROVE  TickOK([t EXCEPT !.pc = pc])
<1>1. PICK u : u = [t EXCEPT !.pc = pc]
  OBVIOUS
<1>2. u \in TickRec
  BY <1>1 DEF TickOK, TickRec
<1>3. /\ u.todo = t.todo /\ u.running = t.running /\ u.lost = t.lost /\ u.value = t.value
      /\ u.results = t.results /\ u.inbox = t.inbox /\ u.pc = pc /\ u.set = t.set
  BY <1>1 DEF TickOK, TickRec
<1>4. InOnePlace(u)
  BY <1>3 DEF TickOK, InOnePlace
<1> QED BY <1>1, <1>2, <1>3, <1>4 DEF TickOK

-----------------------------------------------------------------------------
(* The retry queue.                                                        *)

Record == [block : Block, pending : BOOLEAN, created : Nat, updated : Nat, interval : RetryInterval]
Queues == [WorkID -> Record \cup {None}]

\* The recursion of EnqueueAll.
PutOne(q, i, value, interval) ==
  IF i \in DOMAIN interval THEN Enqueued(q, value[i], interval[i]) ELSE q
Putting(g, q, value, interval, i) == IF i = 0 THEN q ELSE PutOne(g[i - 1], i, value, interval)
PutsOf(q, value, interval, n) ==
  CHOOSE g : g = [i \in 0..n |-> Putting(g, q, value, interval, i)]

LEMMA PutIsFold ==
  ASSUME NEW q, NEW value, NEW interval, NEW n
  PROVE  EnqueueAll(q, value, interval, n) = PutsOf(q, value, interval, n)[n]
BY DEF EnqueueAll, Putting, PutOne, PutsOf

\* One payload enqueued.
LEMMA EnqueuedQueue ==
  ASSUME NEW q \in Queues, NEW x \in Payload, NEW d \in RetryInterval
  PROVE  Enqueued(q, x, d) \in Queues
<1>1. PICK old : old = q[x.workID]
  OBVIOUS
<1>2. PICK r : r = [block |-> IF old # None /\ x.block <= old.block THEN old.block ELSE x.block,
                    pending |-> FALSE, created |-> IF old = None THEN 0 ELSE old.created,
                    updated |-> 0, interval |-> d]
  OBVIOUS
<1>3. x.workID \in WorkID /\ x.block \in Block
  BY DEF Payload
<1>4. old = None \/ (old.block \in Block /\ old.created \in Nat)
  BY <1>1, <1>3 DEF Queues, Record
<1>5. r \in Record
  BY <1>2, <1>3, <1>4 DEF Record
<1>6. Enqueued(q, x, d) = [q EXCEPT ![x.workID] = r]
  BY <1>1, <1>2 DEF Enqueued
<1> QED BY <1>3, <1>5, <1>6 DEF Queues

\* The payloads of the retryable results enqueued.
LEMMA PutsQueue ==
  ASSUME NEW q \in Queues, NEW n \in Nat, NEW value, NEW interval,
         \A i \in DOMAIN interval : value[i] \in Payload /\ interval[i] \in RetryInterval
  PROVE  EnqueueAll(q, value, interval, n) \in Queues
<1> DEFINE f == [i \in 1..n |-> [y \in Queues |-> PutOne(y, i, value, interval)]]
<1>1. \A i \in 1..n : \A y \in Queues : PutOne(y, i, value, interval) \in Queues
  BY EnqueuedQueue DEF PutOne
<1>2. Steps(f, n, Queues)
  BY <1>1 DEF Steps
<1>3. \A i \in 1..n : \A y \in Queues : f[i][y] = PutOne(y, i, value, interval)
  OBVIOUS
<1> HIDE DEF f
<1>4. \A i \in 0..n : i = 0 \/ (i \in 1..n /\ i - 1 \in 0..n)
  OBVIOUS
<1>5. PICK h : Folds(h, q, f, n, Queues)
  BY <1>2, FoldsExist, Zenon
<1>6. \A i \in 0..n : h[i] = Putting(h, q, value, interval, i)
  BY <1>3, <1>4, <1>5 DEF Folds, Putting
<1>7. h = [i \in 0..n |-> Putting(h, q, value, interval, i)]
  BY <1>5, <1>6 DEF Folds
<1>8. PICK g : g = PutsOf(q, value, interval, n)
  OBVIOUS
<1>9. g = [i \in 0..n |-> Putting(g, q, value, interval, i)]
  BY <1>7, <1>8 DEF PutsOf
<1>10. FoldsIn(g, q, f, n, Queues)
  <2>1. g[0] = q
    BY <1>9 DEF Putting
  <2>2. \A i \in 1..n : g[i] = PutOne(g[i - 1], i, value, interval)
    BY <1>9 DEF Putting
  <2> QED BY <1>3, <2>1, <2>2 DEF FoldsIn
<1>11. g[n] \in Queues
  BY <1>2, <1>10, FoldsStay, Zenon
<1> QED BY <1>8, <1>11, PutIsFold, Zenon

-----------------------------------------------------------------------------
(* The steps.                                                              *)

\* The inductive invariant.
FlowInv ==
  /\ queue \in Queues /\ store \in Stores /\ cache \in Caches
  /\ proc = [p \in Proc |-> proc[p]]
  /\ \A p \in Proc : proc[p] = None \/ TickOK(proc[p])

\* One tick takes a step, the others do not.
Moves(p, u) ==
  /\ proc' = [q \in Proc |-> proc'[q]] /\ proc'[p] = u
  /\ \A q \in Proc \ {p} : proc'[q] = proc[q]

\* A step of one tick leaves the others as they are.
LEMMA MovesKeeps ==
  ASSUME FlowInv, NEW p \in Proc, NEW u, Moves(p, u), u = None \/ TickOK(u),
         queue' \in Queues, store' \in Stores, cache' \in Caches
  PROVE  FlowInv'
<1>1. \A q \in Proc : proc'[q] = None \/ TickOK(proc'[q])
  BY DEF FlowInv, Moves
<1> QED BY <1>1 DEF FlowInv, Moves

\* A tick starts with payloads of distinct works, one per work in the log flow's
\* batch and in the retry queue.
LEMMA OrdersOnce ==
  ASSUME NEW S, S \subseteq Payload, \A x, y \in S : x.workID = y.workID => x = y,
         NEW s \in Orders(S)
  PROVE  s \in Seq(Payload) /\ Once(s)
<1>1. PICK c : c = Cardinality(S)
  OBVIOUS
<1>2. s \in [1..c -> S] /\ IsInjective(s) /\ \A x \in S : \E i \in 1..c : s[i] = x
  BY <1>1 DEF Orders, Bijection, Injection, Surjection
<1>3. c \in Nat
  <2> DEFINE f == [x \in S |-> x.workID]
  <2>1. \A x \in S : x.workID \in WorkID
    BY DEF Payload
  <2>2. f \in Injection(S, WorkID)
    BY <2>1 DEF Injection, IsInjective
  <2> HIDE DEF f
  <2>3. IsFiniteSet(S)
    BY <2>2, FlowsAssumption, FS_Injection
  <2> QED BY <1>1, <2>3, FS_CardinalityType
<1>4. s \in Seq(Payload) /\ Len(s) = c
  BY <1>2, <1>3
<1>5. \A i \in 1..c : s[i] \in S
  BY <1>2
<1> QED BY <1>2, <1>4, <1>5 DEF Once, IsInjective

Started(value) ==
  [pc |-> "check", value |-> value, todo |-> <<>>, running |-> {}, lost |-> {},
   ok |-> FALSE, failures |-> 0, inbox |-> <<>>, set |-> FALSE, results |-> <<>>]

LEMMA StartedTick ==
  ASSUME NEW value \in Seq(Payload), Once(value)
  PROVE  TickOK(Started(value))
<1>1. Started(value) \in TickRec
  BY DEF Started, TickRec
<1> QED BY <1>1 DEF Started, TickOK, Empty

LEMMA LogTickKeeps ==
  ASSUME FlowInv, NEW p \in Proc, LogTick(p)
  PROVE  FlowInv'
<1>1. PICK works \in SUBSET WorkID, b \in Block :
        \E s \in Orders([workID : works, block : {b}]) : Begin(p, s)
  BY DEF LogTick
<1>2. PICK s \in Orders([workID : works, block : {b}]) : Begin(p, s)
  BY <1>1
<1>3. s \in Seq(Payload) /\ Once(s)
  <2>1. PICK S : S = [workID : works, block : {b}]
    OBVIOUS
  <2>2. S \subseteq Payload /\ \A x, y \in S : x.workID = y.workID => x = y
    BY <2>1 DEF Payload
  <2> QED BY <1>2, <2>1, <2>2, OrdersOnce
<1>4. Moves(p, Started(s))
  BY <1>2 DEF Begin, Moves, Started, FlowInv
<1>5. TickOK(Started(s))
  BY <1>3, StartedTick
<1>6. queue' \in Queues /\ store' \in Stores /\ cache' \in Caches
  BY DEF LogTick, FlowInv
<1> QED BY <1>4, <1>5, <1>6, MovesKeeps

LEMMA RetryTickKeeps ==
  ASSUME FlowInv, NEW p \in Proc, RetryTick(p)
  PROVE  FlowInv'
<1>1. PICK batch \in SUBSET WorkID, gone \in SUBSET WorkID :
        /\ Dequeue(batch, gone)
        /\ \E kept \in SUBSET batch :
             \E s \in Orders({[workID |-> w, block |-> queue[w].block] : w \in kept}) : Begin(p, s)
  BY DEF RetryTick
<1>2. PICK kept \in SUBSET batch :
        \E s \in Orders({[workID |-> w, block |-> queue[w].block] : w \in kept}) : Begin(p, s)
  BY <1>1
<1>3. PICK s \in Orders({[workID |-> w, block |-> queue[w].block] : w \in kept}) : Begin(p, s)
  BY <1>2
<1>4. \A w \in batch : w \in WorkID /\ queue[w] \in Record
  BY <1>1 DEF Dequeue, Due, FlowInv, Queues
<1>5. s \in Seq(Payload) /\ Once(s)
  <2>1. PICK S : S = {[workID |-> w, block |-> queue[w].block] : w \in kept}
    OBVIOUS
  <2>2. \A w \in kept : w \in WorkID /\ queue[w].block \in Block
    BY <1>2, <1>4 DEF Record
  <2>3. S \subseteq Payload /\ \A x, y \in S : x.workID = y.workID => x = y
    BY <2>1, <2>2 DEF Payload
  <2> QED BY <1>3, <2>1, <2>3, OrdersOnce
<1>6. Moves(p, Started(s))
  BY <1>3 DEF Begin, Moves, Started, FlowInv
<1>7. TickOK(Started(s))
  BY <1>5, StartedTick
<1>8. queue' \in Queues
  <2>1. ASSUME NEW r \in Record PROVE [r EXCEPT !.pending = TRUE] \in Record
    BY DEF Record
  <2>2. queue' = [w \in WorkID |-> IF w \in gone THEN None
                                   ELSE IF w \in batch THEN [queue[w] EXCEPT !.pending = TRUE]
                                   ELSE queue[w]]
    BY <1>1 DEF Dequeue
  <2>3. \A w \in batch : [queue[w] EXCEPT !.pending = TRUE] \in Record
    BY <1>4, <2>1
  <2> QED BY <2>2, <2>3 DEF FlowInv, Queues
<1>9. store' \in Stores /\ cache' \in Caches
  BY DEF RetryTick, FlowInv
<1> QED BY <1>6, <1>7, <1>8, <1>9, MovesKeeps

LEMMA CheckKeeps ==
  ASSUME FlowInv, NEW p \in Proc, Check(p)
  PROVE  FlowInv'
<1>1. PICK t : t = proc[p] /\ TickOK(t) /\ t.pc = "check"
  BY DEF Check, FlowInv
<1>2. PICK c \in Caches : c = cache
  BY DEF FlowInv
<1>3. PICK hits : hits = Hits(t.value)
  OBVIOUS
<1>4. PICK hit \in Increasing(Hits(proc[p].value)),
           miss \in Increasing((1..Len(proc[p].value)) \ Hits(proc[p].value)) :
        proc' = [proc EXCEPT
            ![p].pc = "run",
            ![p].results = [k \in DOMAIN hit |-> cache[proc[p].value[hit[k]].workID]],
            ![p].todo = Unflatten([k \in DOMAIN miss |-> proc[p].value[miss[k]]],
                                  WorkerBatchLimit)]
  BY DEF Check
<1>5. hit \in Increasing(hits) /\ miss \in Increasing((1..Len(t.value)) \ hits)
  BY <1>1, <1>3, <1>4, Zenon
<1>6. PICK res, todo : /\ res = [k \in DOMAIN hit |-> c[t.value[hit[k]].workID]]
                       /\ todo = Unflatten([k \in DOMAIN miss |-> t.value[miss[k]]], WorkerBatchLimit)
  OBVIOUS
<1>7. proc' = [proc EXCEPT ![p].pc = "run", ![p].results = res, ![p].todo = todo]
  BY <1>1, <1>2, <1>4, <1>6
<1>8. PICK u : u = Checked(t, c, hit, miss)
  OBVIOUS
<1>9. hits \in SUBSET (1..Len(t.value)) /\ \A i \in hits : c[t.value[i].workID] # None
  BY <1>2, <1>3 DEF Hit, Hits
<1>10. TickOK(u)
  BY <1>1, <1>2, <1>5, <1>8, <1>9, CheckTick, Zenon
<1>12. u = [t EXCEPT !.pc = "run", !.results = res, !.todo = todo]
  BY <1>6, <1>8 DEF Checked
<1>13. Moves(p, u)
  BY <1>1, <1>7, <1>12 DEF Moves, FlowInv
<1>11. queue' \in Queues /\ store' \in Stores /\ cache' \in Caches
  BY DEF Check, FlowInv
<1> QED BY <1>10, <1>11, <1>13, MovesKeeps

LEMMA DoKeeps ==
  ASSUME FlowInv, NEW p \in Proc, Do(p)
  PROVE  FlowInv'
<1>1. PICK t : t = proc[p] /\ TickOK(t) /\ t.pc = "run" /\ t.todo # <<>>
  BY DEF Do, Running, FlowInv
<1>2. PICK u : u = [t EXCEPT !.todo = Tail(@), !.running = @ \cup {Head(t.todo)}]
  OBVIOUS
<1>3. TickOK(u)
  BY <1>1, <1>2, DoTick
<1>4. Moves(p, u)
  BY <1>1, <1>2 DEF Do, Moves, FlowInv, TickOK, TickRec
<1>5. queue' \in Queues /\ store' \in Stores /\ cache' \in Caches
  BY DEF Do, FlowInv
<1> QED BY <1>3, <1>4, <1>5, MovesKeeps

LEMMA DoFailsKeeps ==
  ASSUME FlowInv, NEW p \in Proc, DoFails(p)
  PROVE  FlowInv'
<1>1. PICK t : t = proc[p] /\ TickOK(t) /\ t.pc = "run"
  BY DEF DoFails, Running, FlowInv
<1>2. PICK u : u = [t EXCEPT !.todo = <<>>, !.lost = @ \cup Range(t.todo)]
  OBVIOUS
<1>3. TickOK(u)
  BY <1>1, <1>2, DoFailsTick
<1>4. Moves(p, u)
  BY <1>1, <1>2 DEF DoFails, Moves, FlowInv, TickOK, TickRec
<1>5. queue' \in Queues /\ store' \in Stores /\ cache' \in Caches
  BY DEF DoFails, FlowInv
<1> QED BY <1>3, <1>4, <1>5, MovesKeeps

LEMMA JobDoneKeeps ==
  ASSUME FlowInv, NEW p \in Proc, JobDone(p)
  PROVE  FlowInv'
<1>1. PICK t : t = proc[p] /\ TickOK(t) /\ t.pc = "run" /\ t.inbox = <<>>
  BY DEF JobDone, Running, FlowInv
<1>a. PICK job \in t.running : \E states \in [1..Len(job) -> State] :
        proc' = [proc EXCEPT ![p].running = @ \ {job}, ![p].ok = TRUE,
                             ![p].inbox = ResultsOf(job, states)]
  BY <1>1 DEF JobDone, ResultsOf
<1>2. PICK states \in [1..Len(job) -> State] :
        proc' = [proc EXCEPT ![p].running = @ \ {job}, ![p].ok = TRUE,
                             ![p].inbox = ResultsOf(job, states)]
  BY <1>a
<1>3. PICK u : u = [t EXCEPT !.running = @ \ {job}, !.ok = TRUE, !.inbox = ResultsOf(job, states)]
  OBVIOUS
<1>4. TickOK(u)
  BY <1>1, <1>a, <1>2, <1>3, JobDoneTick
<1>5. Moves(p, u)
  BY <1>1, <1>2, <1>3 DEF Moves, FlowInv, TickOK, TickRec
<1>6. queue' \in Queues /\ store' \in Stores /\ cache' \in Caches
  BY DEF JobDone, FlowInv
<1> QED BY <1>4, <1>5, <1>6, MovesKeeps

LEMMA JobFailsKeeps ==
  ASSUME FlowInv, NEW p \in Proc, JobFails(p)
  PROVE  FlowInv'
<1>1. PICK t : t = proc[p] /\ TickOK(t) /\ t.pc = "run"
  BY DEF JobFails, Running, FlowInv
<1>2. PICK job \in t.running :
        proc' = [proc EXCEPT ![p].running = @ \ {job}, ![p].lost = @ \cup {job},
                             ![p].failures = @ + 1]
  BY <1>1 DEF JobFails
<1>3. PICK u : u = [t EXCEPT !.running = @ \ {job}, !.lost = @ \cup {job}, !.failures = @ + 1]
  OBVIOUS
<1>4. TickOK(u)
  BY <1>1, <1>2, <1>3, JobFailsTick
<1>5. Moves(p, u)
  BY <1>1, <1>2, <1>3 DEF Moves, FlowInv, TickOK, TickRec
<1>6. queue' \in Queues /\ store' \in Stores /\ cache' \in Caches
  BY DEF JobFails, FlowInv
<1> QED BY <1>4, <1>5, <1>6, MovesKeeps

Moved(t) == [t EXCEPT !.set = FALSE, !.inbox = Tail(@), !.results = Append(@, Head(t.inbox))]

LEMMA CacheGetKeeps ==
  ASSUME FlowInv, NEW p \in Proc, CacheGet(p)
  PROVE  FlowInv'
<1>1. PICK t : t = proc[p] /\ TickOK(t) /\ t.pc = "run" /\ t.inbox # <<>> /\ ~t.set
  BY DEF CacheGet, Running, FlowInv
<1>2. queue' \in Queues /\ store' \in Stores /\ cache' \in Caches
  BY DEF CacheGet, FlowInv
<1>3. CASE proc' = [proc EXCEPT ![p].set = TRUE]
  <2>1. PICK u : u = [t EXCEPT !.set = TRUE]
    OBVIOUS
  <2>2. TickOK(u)
    BY <1>1, <2>1, SetTick
  <2>3. Moves(p, u)
    BY <1>1, <1>3, <2>1 DEF Moves, FlowInv
  <2> QED BY <1>2, <2>2, <2>3, MovesKeeps
<1>4. CASE proc' = [proc EXCEPT ![p].inbox = Tail(@), ![p].results = Append(@, Head(proc[p].inbox))]
  <2>1. PICK u : u = Moved(t)
    OBVIOUS
  <2>2. TickOK(u)
    BY <1>1, <2>1, MoveTick DEF Moved
  <2>3. PICK v : v = [t EXCEPT !.inbox = Tail(@), !.results = Append(@, Head(t.inbox))]
    OBVIOUS
  <2>4. v = u
    BY <1>1, <2>1, <2>3 DEF Moved, TickOK, TickRec
  <2>5. Moves(p, v)
    BY <1>1, <1>4, <2>3 DEF Moves, FlowInv, TickOK, TickRec
  <2> QED BY <1>2, <2>2, <2>4, <2>5, MovesKeeps
<1> QED BY <1>3, <1>4 DEF CacheGet

LEMMA CacheSetKeeps ==
  ASSUME FlowInv, NEW p \in Proc, CacheSet(p)
  PROVE  FlowInv'
<1>1. PICK t : t = proc[p] /\ TickOK(t) /\ t.pc = "run" /\ t.inbox # <<>>
  BY DEF CacheSet, Running, FlowInv, TickOK
<1>2. PICK r : r = Head(t.inbox)
  OBVIOUS
<1>3. r \in Result /\ r.workID \in WorkID
  <2>1. t.inbox \in Seq(Result)
    BY <1>1 DEF TickOK, TickRec
  <2>2. r \in Result
    BY <1>1, <1>2, <2>1, HeadTail
  <2> QED BY <2>2 DEF Result
<1>4. /\ cache' = [cache EXCEPT ![r.workID] = r]
      /\ proc' = [proc EXCEPT ![p].set = FALSE, ![p].inbox = Tail(@), ![p].results = Append(@, r)]
  BY <1>1, <1>2 DEF CacheSet
<1>5. cache' \in Caches
  BY <1>3, <1>4 DEF FlowInv, Caches
<1>6. PICK u : u = Moved(t)
  OBVIOUS
<1>7. TickOK(u)
  BY <1>1, <1>6, MoveTick DEF Moved
<1>8. Moves(p, u)
  BY <1>1, <1>2, <1>4, <1>6 DEF Moved, Moves, FlowInv, TickOK, TickRec
<1>9. queue' \in Queues /\ store' \in Stores
  BY DEF CacheSet, FlowInv
<1> QED BY <1>5, <1>7, <1>8, <1>9, MovesKeeps

LEMMA CheckDoneKeeps ==
  ASSUME FlowInv, NEW p \in Proc, CheckDone(p)
  PROVE  FlowInv'
<1>1. PICK t : t = proc[p] /\ TickOK(t) /\ t.pc = "run"
  BY DEF CheckDone, Running, FlowInv
<1>2. queue' \in Queues /\ store' \in Stores /\ cache' \in Caches
  BY DEF CheckDone, FlowInv
<1>3. CASE proc' = [proc EXCEPT ![p] = None]
  <2>1. Moves(p, None)
    BY <1>3 DEF Moves, FlowInv
  <2> QED BY <1>2, <2>1, MovesKeeps
<1>4. CASE proc' = [proc EXCEPT ![p].pc = "store"]
  <2>1. PICK u : u = [t EXCEPT !.pc = "store"]
    OBVIOUS
  <2>2. TickOK(u)
    BY <1>1, <2>1, PcTick
  <2>3. Moves(p, u)
    BY <1>1, <1>4, <2>1 DEF Moves, FlowInv
  <2> QED BY <1>2, <2>2, <2>3, MovesKeeps
<1> QED BY <1>3, <1>4 DEF CheckDone

LEMMA StoreEligibleKeeps ==
  ASSUME FlowInv, NEW p \in Proc, StoreEligible(p)
  PROVE  FlowInv' /\ NoOlder(store, store')
<1>1. PICK t : t = proc[p] /\ TickOK(t) /\ t.pc = "store"
  BY DEF StoreEligible, FlowInv
<1>2. PICK st \in Stores : st = store
  BY DEF FlowInv
<1>3. PICK rs : rs = t.results
  OBVIOUS
<1>4. rs \in Seq(Result)
  BY <1>1, <1>3 DEF TickOK, TickRec
<1>5. store' = AddAll(st, rs)
  BY <1>1, <1>2, <1>3, Zenon DEF StoreEligible
<1>6. store' \in Stores /\ NoOlder(st, store')
  BY <1>2, <1>4, <1>5, AddsNoOlder, Zenon
<1>7. PICK u : u = [t EXCEPT !.pc = "retry"]
  OBVIOUS
<1>8. TickOK(u)
  BY <1>1, <1>7, PcTick
<1>9. Moves(p, u)
  BY <1>1, <1>7 DEF StoreEligible, Moves, FlowInv
<1>10. queue' \in Queues /\ cache' \in Caches
  BY DEF StoreEligible, FlowInv
<1> QED BY <1>2, <1>6, <1>8, <1>9, <1>10, MovesKeeps

\* The results of a tick are no more than its payloads.
LEMMA ResultsFit ==
  ASSUME NEW t, TickOK(t), t.pc # "check"
  PROVE  Len(t.results) <= Len(t.value)
<1>1. t.results \in Seq(Result) /\ t.value \in Seq(Payload) /\ Once(t.results) /\ InOnePlace(t)
  BY DEF TickOK, TickRec, InOnePlace
<1>2. WorksOf(t.results) \subseteq WorkID
  <2>1. \A i \in 1..Len(t.results) : t.results[i] \in Result
    BY <1>1
  <2>2. \A i \in 1..Len(t.results) : t.results[i].workID \in WorkID
    BY <2>1 DEF Result
  <2> QED BY <2>2 DEF WorksOf
<1>3. WorksOf(t.results) \subseteq WorksOf(t.value)
  BY <1>1, <1>2 DEF InOnePlace
<1> QED BY <1>1, <1>3, NoLonger

LEMMA EnqueueRetryableKeeps ==
  ASSUME FlowInv, NEW p \in Proc, EnqueueRetryable(p)
  PROVE  FlowInv'
<1>1. PICK t : t = proc[p] /\ TickOK(t) /\ t.pc = "retry"
  BY DEF EnqueueRetryable, FlowInv
<1>2. PICK q \in Queues : q = queue
  BY DEF FlowInv
<1>3. PICK interval \in [Retryable(p) -> RetryInterval] :
        queue' = EnqueueAll(queue, proc[p].value, interval, Len(proc[p].results))
  BY DEF EnqueueRetryable
<1>4. PICK value, n : value = t.value /\ n = Len(t.results)
  OBVIOUS
<1>5. t.results \in Seq(Result) /\ value \in Seq(Payload) /\ n \in Nat
  BY <1>1, <1>4 DEF TickOK, TickRec
<1>6. \A i \in DOMAIN interval : value[i] \in Payload /\ interval[i] \in RetryInterval
  <2>1. Len(t.results) <= Len(t.value)
    BY <1>1, ResultsFit
  <2>2. \A i \in DOMAIN interval : i \in 1..Len(value)
    BY <1>1, <1>3, <1>4, <1>5, <2>1 DEF Retryable
  <2>3. \A i \in 1..Len(value) : value[i] \in Payload
    BY <1>5
  <2>4. \A i \in DOMAIN interval : interval[i] \in RetryInterval
    BY <1>3
  <2> QED BY <2>2, <2>3, <2>4
<1>7. queue' = EnqueueAll(q, value, interval, n)
  BY <1>1, <1>2, <1>3, <1>4
<1>11. queue' \in Queues
  BY <1>2, <1>5, <1>6, <1>7, PutsQueue, Zenon
<1>12. Moves(p, None)
  BY DEF EnqueueRetryable, Moves, FlowInv
<1>13. store' \in Stores /\ cache' \in Caches
  BY DEF EnqueueRetryable, FlowInv
<1> QED BY <1>11, <1>12, <1>13, MovesKeeps

\* Steps outside the ticks.
LEMMA RemoveKeeps ==
  ASSUME FlowInv, RemoveFromStaging
  PROVE  FlowInv'
<1>1. store' \in Stores
  BY DEF RemoveFromStaging, FlowInv, Stores
<1> QED BY <1>1 DEF RemoveFromStaging, FlowInv

LEMMA GcKeeps ==
  ASSUME FlowInv, Gc
  PROVE  FlowInv'
<1>1. store' \in Stores
  BY DEF Gc, FlowInv, Stores
<1> QED BY <1>1 DEF Gc, FlowInv

LEMMA CacheExpireKeeps ==
  ASSUME FlowInv, CacheExpire
  PROVE  FlowInv'
<1>1. cache' \in Caches
  BY DEF CacheExpire, FlowInv, Caches
<1> QED BY <1>1 DEF CacheExpire, FlowInv

LEMMA TickKeeps ==
  ASSUME FlowInv, Tick
  PROVE  FlowInv'
<1>1. ASSUME NEW r \in Record
      PROVE  [r EXCEPT !.created = Older(@, Expiration), !.updated = Older(@, r.interval)] \in Record
  <2>1. PICK c, d : c = Older(r.created, Expiration) /\ d = Older(r.updated, r.interval)
    OBVIOUS
  <2>2. c \in Nat /\ d \in Nat
    BY <2>1 DEF Record, Older
  <2>3. [r EXCEPT !.created = c, !.updated = d] \in Record
    BY <2>2 DEF Record
  <2> QED BY <2>1, <2>3 DEF Record
<1>2. queue' \in Queues
  <2>1. \A w \in WorkID : queue[w] # None => queue[w] \in Record
    BY DEF FlowInv, Queues
  <2>2. \A w \in WorkID : queue[w] # None =>
          [queue[w] EXCEPT !.created = Older(@, Expiration),
                           !.updated = Older(@, queue[w].interval)] \in Record
    BY <1>1, <2>1
  <2> QED BY <2>2 DEF Tick, Queues
<1>3. ASSUME NEW r \in Stored PROVE [r EXCEPT !.age = Older(@, StoreTTL)] \in Stored
  <2>1. PICK a : a = Older(r.age, StoreTTL)
    OBVIOUS
  <2>2. a \in 0..(StoreTTL + 1)
    BY <2>1, FlowsAssumption DEF Stored, Older
  <2>3. [r EXCEPT !.age = a] \in Stored
    BY <2>2 DEF Stored
  <2> QED BY <2>1, <2>3
<1>4. store' \in Stores
  <2>1. \A w \in WorkID : store[w] # None => store[w] \in Stored
    BY DEF FlowInv, Stores
  <2>2. \A w \in WorkID : store[w] # None => [store[w] EXCEPT !.age = Older(@, StoreTTL)] \in Stored
    BY <1>3, <2>1
  <2> QED BY <2>2 DEF Tick, Stores
<1> QED BY <1>2, <1>4 DEF Tick, FlowInv

LEMMA InitFlows == Init => FlowInv
BY DEF Init, FlowInv, Queues, Stores, Caches

LEMMA NextFlows == FlowInv /\ [Next]_vars => FlowInv'
<1> SUFFICES ASSUME FlowInv, [Next]_vars PROVE FlowInv'
  OBVIOUS
<1>1. CASE UNCHANGED vars
  BY <1>1 DEF vars, FlowInv
<1>2. ASSUME NEW p \in Proc, LogTick(p) \/ RetryTick(p) \/ Step(p) PROVE FlowInv'
  <2>1. CASE LogTick(p)
    BY <2>1, LogTickKeeps
  <2>2. CASE RetryTick(p)
    BY <2>2, RetryTickKeeps
  <2>3. CASE Step(p)
    BY <2>3, CheckKeeps, DoKeeps, DoFailsKeeps, JobDoneKeeps, JobFailsKeeps, CacheGetKeeps,
       CacheSetKeeps, CheckDoneKeeps, StoreEligibleKeeps, EnqueueRetryableKeeps DEF Step
  <2> QED BY <1>2, <2>1, <2>2, <2>3
<1>3. CASE RemoveFromStaging \/ Gc \/ CacheExpire \/ Tick
  BY <1>3, RemoveKeeps, GcKeeps, CacheExpireKeeps, TickKeeps
<1> QED BY <1>1, <1>2, <1>3 DEF Next

LEMMA AlwaysFlows == Spec => []FlowInv
BY InitFlows, NextFlows, PTL DEF Spec

\* parallelCheck loses and repeats no payload, however its batches and those of
\* other ticks interleave, fail or run into the time limit: from the cache lookup
\* on, each payload is a result, in the batch being aggregated, in a batch to come,
\* at the workers or in one that failed, and in only one of them; so there are
\* never more results than payloads.
THEOREM AlwaysPartition == Spec => []PayloadsPartition
<1>1. FlowInv => PayloadsPartition
  <2> SUFFICES ASSUME FlowInv, NEW p \in Proc, proc[p] # None, proc[p].pc # "check"
               PROVE  InOnePlace(proc[p]) /\ Len(proc[p].results) <= Len(proc[p].value)
    BY DEF PayloadsPartition
  <2>1. PICK t : t = proc[p] /\ TickOK(t) /\ t.pc # "check"
    BY DEF FlowInv
  <2>2. InOnePlace(t) /\ Len(t.results) <= Len(t.value)
    BY <2>1, ResultsFit DEF TickOK
  <2> QED BY <2>1, <2>2
<1> QED BY <1>1, AlwaysFlows, PTL

\* What one step may do to the result store.
Newer(st, new) ==
  \A w \in WorkID : st[w] # None /\ new[w] # None =>
    \/ new[w].block > st[w].block
    \/ new[w].block = st[w].block /\ new[w].age >= st[w].age

LEMMA NextNewer == FlowInv /\ [Next]_vars => Newer(store, store')
<1> SUFFICES ASSUME FlowInv, [Next]_vars PROVE Newer(store, store')
  OBVIOUS
<1>1. \A w \in WorkID : store[w] # None => store[w] \in Stored /\ store[w].age \in Nat
  BY DEF FlowInv, Stores, Stored
<1>2. CASE UNCHANGED store
  BY <1>1, <1>2 DEF Newer
<1>3. ASSUME NEW p \in Proc, StoreEligible(p) PROVE Newer(store, store')
  <2>1. NoOlder(store, store')
    BY <1>3, StoreEligibleKeeps
  <2> QED BY <1>1, <2>1 DEF Newer, NoOlder
<1>4. CASE RemoveFromStaging
  BY <1>1, <1>4 DEF RemoveFromStaging, Newer, FlowInv, Stores
<1>5. CASE Gc
  BY <1>1, <1>5 DEF Gc, Newer
<1>6. CASE Tick
  <2>1. ASSUME NEW w \in WorkID, store[w] # None
        PROVE  store'[w].block = store[w].block /\ store'[w].age >= store[w].age
    <3>1. PICK r \in Stored : r = store[w] /\ r.age \in Nat
      BY <1>1, <2>1
    <3>2. store'[w] = [r EXCEPT !.age = Older(@, StoreTTL)]
      BY <1>6, <2>1, <3>1 DEF Tick
    <3>3. store'[w].block = r.block /\ store'[w].age = Older(r.age, StoreTTL)
      BY <3>1, <3>2 DEF Stored
    <3>4. Older(r.age, StoreTTL) >= r.age
      BY <3>1 DEF Older
    <3> QED BY <3>1, <3>3, <3>4
  <2> QED BY <2>1 DEF Newer
<1>7. ASSUME NEW p \in Proc, LogTick(p) \/ RetryTick(p) \/ Step(p) PROVE Newer(store, store')
  <2>1. StoreEligible(p) \/ UNCHANGED store
    BY <1>7 DEF LogTick, RetryTick, Step, Check, Do, DoFails, JobDone, JobFails, CacheGet,
                CacheSet, CheckDone, EnqueueRetryable
  <2> QED BY <1>2, <1>3, <2>1
<1>8. UNCHANGED vars \/ CacheExpire => UNCHANGED store
  BY DEF vars, CacheExpire
<1> QED BY <1>2, <1>4, <1>5, <1>6, <1>7, <1>8 DEF Next

\* resultStore.Add never goes back: whatever ticks overlap and however late one of
\* them ends, a stored result is replaced only by one on a newer block.
THEOREM AlwaysOnlyNewer == Spec => StoreOnlyNewer
<1>1. FlowInv /\ [Next]_vars =>
        [\A w \in WorkID : store[w] # None /\ store'[w] # None =>
           \/ store'[w].block > store[w].block
           \/ store'[w].block = store[w].block /\ store'[w].age >= store[w].age]_vars
  BY NextNewer DEF Newer
<1> QED BY <1>1, AlwaysFlows, PTL DEF Spec, StoreOnlyNewer
=============================================================================
