------------------------ MODULE MetadataStoreProofs ------------------------
(* Proofs about MetadataStore, for every set of works, every expiry and      *)
(* every pair of limits.  The walk of a view may have deleted from the array *)
(* it is in, and the flows and the hooks may come between any two of its     *)
(* steps: the invariant therefore says nothing of what a walk has seen, only *)
(* that it visits works of its map's type.                                   *)
EXTENDS MetadataStore, FiniteSetTheorems, TLAPS

\* A slice has no key twice; the keys it has.
Distinct(s) == \A i, j \in 1..Len(s) : s[i] = s[j] => i = j
Elements(s) == {s[i] : i \in 1..Len(s)}

\* The walk of a view over the map of type t.
Walk(t) ==
  [caller : {"plugin"} \cup UpkeepType, array : Seq(WorkOf(t)),
   index : Nat \ {0}, result : Seq(WorkOf(t))]

\* The inductive invariant: the keys of a map are those of its records, each once, and
\* a walk is over works of its map's type, so that what it deletes is of that map.
MapsInv ==
  /\ keys \in [UpkeepType -> Seq(WorkID)]
  /\ values \in [WorkID -> Age \cup {None}]
  /\ view = [t \in UpkeepType |-> view[t]]
  /\ \A t \in UpkeepType :
       /\ view[t] # None => view[t] \in Walk(t)
       /\ Distinct(keys[t])
       /\ Elements(keys[t]) = {w \in WorkOf(t) : values[w] # None}

-----------------------------------------------------------------------------
(* The slice of keys.                                                      *)

LEMMA RangeIsElements ==
  ASSUME NEW S, NEW s \in Seq(S)
  PROVE  Range(s) = Elements(s) /\ Elements(s) \subseteq S
PROOF
  BY DEF Range, Elements

\* Add appends a key that is not there.
LEMMA AppendDistinct ==
  ASSUME NEW S, NEW s \in Seq(S), Distinct(s), NEW w \in S, w \notin Elements(s)
  PROVE  /\ Append(s, w) \in Seq(S) /\ Distinct(Append(s, w))
         /\ Elements(Append(s, w)) = Elements(s) \cup {w}
PROOF
  <1> DEFINE a == Append(s, w)
  <1>1. /\ a \in Seq(S) /\ Len(a) = Len(s) + 1 /\ a[Len(s) + 1] = w
        /\ \A i \in 1..Len(s) : a[i] = s[i]
    OBVIOUS
  <1> HIDE DEF a
  <1>2. Distinct(a)
    BY <1>1 DEF Distinct, Elements
  <1>3. Elements(a) = Elements(s) \cup {w}
    BY <1>1 DEF Elements
  <1> QED
    BY <1>1, <1>2, <1>3 DEF a

\* r is p followed by q; p is s up to its m-th element, and q what follows; r is s less
\* its m-th element.
Joins(r, p, q) ==
  /\ Len(r) = Len(p) + Len(q) /\ \A i \in 1..Len(p) : r[i] = p[i]
  /\ \A i \in 1..Len(q) : r[Len(p) + i] = q[i]
Before(p, s, m) == Len(p) = m - 1 /\ \A i \in 1..Len(p) : p[i] = s[i]
After(q, s, m) == Len(q) = Len(s) - m /\ \A i \in 1..Len(q) : q[i] = s[m + i]
Lacks(r, s, m) ==
  /\ Len(r) = Len(s) - 1 /\ \A i \in 1..(m - 1) : r[i] = s[i]
  /\ \A i \in m..(Len(s) - 1) : r[i] = s[i + 1]

\* What concatenation and SubSeq give, in those terms.
LEMMA ConcatJoins ==
  ASSUME NEW S, NEW p \in Seq(S), NEW q \in Seq(S)
  PROVE  p \o q \in Seq(S) /\ Joins(p \o q, p, q)
PROOF
  BY DEF Joins

LEMMA SubSeqParts ==
  ASSUME NEW S, NEW s \in Seq(S), NEW m \in 1..Len(s)
  PROVE  /\ SubSeq(s, 1, m - 1) \in Seq(S) /\ Before(SubSeq(s, 1, m - 1), s, m)
         /\ SubSeq(s, m + 1, Len(s)) \in Seq(S) /\ After(SubSeq(s, m + 1, Len(s)), s, m)
PROOF
  BY DEF Before, After

LEMMA JoinLacks ==
  ASSUME NEW S, NEW s \in Seq(S), NEW m \in 1..Len(s), NEW p \in Seq(S), NEW q \in Seq(S),
         NEW r \in Seq(S), Before(p, s, m), After(q, s, m), Joins(r, p, q)
  PROVE  Lacks(r, s, m)
PROOF
  <1>0. Len(p) = m - 1 /\ Len(q) = Len(s) - m
    BY DEF Before, After
  <1>1. ASSUME NEW i \in m..(Len(s) - 1) PROVE r[i] = s[i + 1]
    <2>1. PICK j \in Int : j = i - (m - 1)
      OBVIOUS
    <2>2. j \in 1..Len(q) /\ m + j = i + 1 /\ i = Len(p) + j
      BY <2>1, <1>0
    <2> QED
      BY <2>2 DEF After, Joins
  <1>2. Len(r) = Len(s) - 1 /\ \A i \in 1..(m - 1) : r[i] = s[i]
    BY DEF Before, After, Joins
  <1> QED
    BY <1>1, <1>2 DEF Lacks

\* Delete's append(keys[:i], keys[i+1:]...).
LEMMA Removed ==
  ASSUME NEW S, NEW s \in Seq(S), NEW m \in 1..Len(s), NEW r,
         r = SubSeq(s, 1, m - 1) \o SubSeq(s, m + 1, Len(s))
  PROVE  r \in Seq(S) /\ Lacks(r, s, m)
PROOF
  <1> DEFINE p == SubSeq(s, 1, m - 1)
             q == SubSeq(s, m + 1, Len(s))
  <1>1. p \in Seq(S) /\ q \in Seq(S) /\ Before(p, s, m) /\ After(q, s, m)
    BY SubSeqParts, Zenon
  <1>2. r = p \o q
    OBVIOUS
  <1> HIDE DEF p, q
  <1>3. r \in Seq(S) /\ Joins(r, p, q)
    BY <1>1, <1>2, ConcatJoins, Zenon
  <1> QED
    BY <1>1, <1>3, JoinLacks, Zenon

\* Delete takes its key out of a slice that has it once, and nothing else.
LEMMA WithoutOne ==
  ASSUME NEW S, NEW s \in Seq(S), Distinct(s), NEW w
  PROVE  /\ Without(s, w) \in Seq(S) /\ Distinct(Without(s, w))
         /\ Elements(Without(s, w)) = Elements(s) \ {w}
PROOF
  <1>1. CASE ~ \E i \in 1..Len(s) : s[i] = w
    BY <1>1 DEF Elements, Without, RemoveFirst
  <1>2. CASE \E i \in 1..Len(s) : s[i] = w
    <2>1. PICK m \in 1..Len(s) : s[m] = w
      BY <1>2
    <2>2. {i \in 1..Len(s) : s[i] = w} = {m}
      BY <2>1 DEF Distinct
    <2>3. Min({m}) = m
      BY <2>1 DEF Min
    <2> DEFINE r == SubSeq(s, 1, m - 1) \o SubSeq(s, m + 1, Len(s))
    <2>4. Without(s, w) = r
      BY <1>2, <2>2, <2>3 DEF Without, RemoveFirst, SelectInSeq,
        RemoveAt
    <2>5. /\ r \in Seq(S) /\ Len(r) = Len(s) - 1
          /\ \A i \in 1..(m - 1) : r[i] = s[i]
          /\ \A i \in m..(Len(s) - 1) : r[i] = s[i + 1]
      <3>1. r \in Seq(S) /\ Lacks(r, s, m)
        BY Removed, Zenon
      <3> HIDE DEF r
      <3> QED
        BY <3>1 DEF Lacks
    <2> HIDE DEF r
    <2>6. Distinct(r)
      BY <2>5 DEF Distinct
    <2>7. Elements(r) \subseteq Elements(s) \ {w}
      BY <2>1, <2>5 DEF Elements, Distinct
    <2>8. ASSUME NEW i \in 1..Len(s), s[i] # w PROVE \E j \in 1..Len(r) : r[j] = s[i]
      <3>1. CASE i < m
        BY <3>1, <2>5
      <3>2. CASE i > m
        <4>1. i - 1 \in m..(Len(s) - 1) /\ i - 1 \in 1..Len(r) /\ (i - 1) + 1 = i
          BY <3>2, <2>5
        <4> QED
          BY <4>1, <2>5
      <3> QED
        BY <3>1, <3>2, <2>1, <2>8
    <2>9. Elements(s) \ {w} \subseteq Elements(r)
      BY <2>8 DEF Elements
    <2> QED
      BY <2>4, <2>5, <2>6, <2>7, <2>9
  <1> QED
    BY <1>1, <1>2

\* Keys sorts: the strictly increasing slice has the same keys.
LEMMA SortedSame ==
  ASSUME NEW S, S \subseteq Nat, NEW s \in Seq(S), Distinct(s), NEW r \in Sorted(s)
  PROVE  r \in Seq(S) /\ Distinct(r) /\ Elements(r) = Elements(s)
PROOF
  <1> DEFINE n == Len(s)
             E == Elements(s)
  <1>1. /\ n \in Nat /\ E \subseteq S /\ s \in [1..n -> E] /\ r \in [1..n -> E]
        /\ \A i, j \in 1..n : i < j => r[i] < r[j]
    <2>1. Range(s) = E /\ E \subseteq S
      BY RangeIsElements
    <2>2. n \in Nat /\ s \in [1..n -> E]
      BY <2>1 DEF Elements
    <2>3. r \in [1..n -> Range(s)] /\ \A i, j \in 1..n : i < j => r[i] < r[j]
      BY DEF Sorted
    <2> QED
      BY <2>1, <2>2, <2>3
  <1>2. r \in Seq(S) /\ Len(r) = n
    BY <1>1
  <1>3. ASSUME NEW i \in 1..n, NEW j \in 1..n, r[i] = r[j] PROVE i = j
    <2>1. r[i] \in Nat /\ r[j] \in Nat
      BY <1>1
    <2> QED
      BY <1>1, <1>3, <2>1
  <1>4. IsFiniteSet(1..n)
    BY <1>1, FS_Interval
  <1>5. s \in Surjection(1..n, E) /\ s \in Injection(1..n, E)
    BY <1>1 DEF Surjection, Injection, IsInjective, Elements, Distinct
  <1>6. IsFiniteSet(E) /\ Cardinality(1..n) = Cardinality(E)
    BY <1>4, <1>5, FS_Surjection
  <1>7. r \in Injection(1..n, E)
    BY <1>1, <1>3 DEF Injection, IsInjective
  <1>8. r \in Surjection(1..n, E)
    BY <1>6, <1>7, FS_Injection
  <1>9. Elements(r) = E
    BY <1>1, <1>2, <1>8 DEF Surjection, Elements
  <1> QED
    BY <1>2, <1>3, <1>9 DEF Distinct

-----------------------------------------------------------------------------
(* The steps on a map.                                                     *)

\* orderedMap.Add: a new key is appended, a known one keeps its place.
LEMMA AddKeepsMaps ==
  ASSUME MapsInv, NEW t \in UpkeepType, NEW w \in WorkOf(t), Add(t, w), UNCHANGED view
  PROVE  MapsInv'
PROOF
  <1>1. /\ w \in WorkID /\ 0 \in Age /\ 0 # None /\ keys[t] \in Seq(WorkID)
    BY MetadataStoreAssumption DEF MapsInv, WorkOf, Age
  <1>2. /\ values' \in [WorkID -> Age \cup {None}]
        /\ values'[w] # None /\ \A x \in WorkID \ {w} : values'[x] = values[x]
    BY <1>1 DEF MapsInv, Add
  <1>3. \A u \in UpkeepType \ {t} : w \notin WorkOf(u)
    BY DEF WorkOf
  <1>4. CASE values[w] # None
    <2>1. UNCHANGED <<keys, view>>
      BY <1>4 DEF Add
    <2>2. \A u \in UpkeepType : {x \in WorkOf(u) : values'[x] # None} = {x \in WorkOf(u) : values[x] # None}
      BY <1>2, <1>4 DEF WorkOf
    <2> QED
      BY <1>2, <2>1, <2>2 DEF MapsInv
  <1>5. CASE values[w] = None
    <2>1. keys' = [keys EXCEPT ![t] = Append(@, w)]
      BY <1>5 DEF Add
    <2>2. w \notin Elements(keys[t])
      BY <1>5 DEF MapsInv
    <2>3. /\ Append(keys[t], w) \in Seq(WorkID) /\ Distinct(Append(keys[t], w))
          /\ Elements(Append(keys[t], w)) = Elements(keys[t]) \cup {w}
      BY <1>1, <2>2, AppendDistinct DEF MapsInv
    <2>4. /\ keys' \in [UpkeepType -> Seq(WorkID)]
          /\ keys'[t] = Append(keys[t], w) /\ \A u \in UpkeepType \ {t} : keys'[u] = keys[u]
      BY <2>1, <2>3 DEF MapsInv
    <2>5. ASSUME NEW u \in UpkeepType
          PROVE  Distinct(keys'[u]) /\ Elements(keys'[u]) = {x \in WorkOf(u) : values'[x] # None}
      <3>1. CASE u = t
        <4>1. {x \in WorkOf(t) : values'[x] # None} = {x \in WorkOf(t) : values[x] # None} \cup {w}
          BY <1>2 DEF WorkOf
        <4> QED
          BY <3>1, <4>1, <2>3, <2>4 DEF MapsInv
      <3>2. CASE u # t
        <4>1. {x \in WorkOf(u) : values'[x] # None} = {x \in WorkOf(u) : values[x] # None}
          BY <3>2, <1>2, <1>3 DEF WorkOf
        <4> QED
          BY <3>2, <4>1, <2>4 DEF MapsInv
      <3> QED
        BY <3>1, <3>2
    <2> QED
      BY <1>2, <2>4, <2>5 DEF MapsInv
  <1> QED
    BY <1>4, <1>5

\* orderedMap.Delete, by a flow or by a view in the middle of its walk.
LEMMA DeleteKeepsMaps ==
  ASSUME MapsInv, NEW t \in UpkeepType, NEW w \in WorkOf(t), Delete(t, w)
  PROVE  /\ keys' \in [UpkeepType -> Seq(WorkID)]
         /\ values' \in [WorkID -> Age \cup {None}]
         /\ \A u \in UpkeepType :
              /\ Distinct(keys'[u])
              /\ Elements(keys'[u]) = {x \in WorkOf(u) : values'[x] # None}
PROOF
  <1>1. w \in WorkID /\ keys[t] \in Seq(WorkID) /\ Distinct(keys[t])
    BY DEF MapsInv, WorkOf
  <1>2. /\ values' \in [WorkID -> Age \cup {None}]
        /\ values'[w] = None /\ \A x \in WorkID \ {w} : values'[x] = values[x]
    BY <1>1 DEF MapsInv, Delete
  <1>3. \A u \in UpkeepType \ {t} : w \notin WorkOf(u)
    BY DEF WorkOf
  <1>4. /\ Without(keys[t], w) \in Seq(WorkID) /\ Distinct(Without(keys[t], w))
        /\ Elements(Without(keys[t], w)) = Elements(keys[t]) \ {w}
    BY <1>1, WithoutOne
  <1>5. /\ keys' \in [UpkeepType -> Seq(WorkID)]
        /\ keys'[t] = Without(keys[t], w) /\ \A u \in UpkeepType \ {t} : keys'[u] = keys[u]
    BY <1>4 DEF MapsInv, Delete
  <1>6. ASSUME NEW u \in UpkeepType
        PROVE  Distinct(keys'[u]) /\ Elements(keys'[u]) = {x \in WorkOf(u) : values'[x] # None}
    <2>1. CASE u = t
      <3>1. {x \in WorkOf(t) : values'[x] # None} = {x \in WorkOf(t) : values[x] # None} \ {w}
        BY <1>2 DEF WorkOf
      <3> QED
        BY <2>1, <3>1, <1>4, <1>5 DEF MapsInv
    <2>2. CASE u # t
      <3>1. {x \in WorkOf(u) : values'[x] # None} = {x \in WorkOf(u) : values[x] # None}
        BY <2>2, <1>2, <1>3 DEF WorkOf
      <3> QED
        BY <2>2, <3>1, <1>5 DEF MapsInv
    <2> QED
      BY <2>1, <2>2
  <1> QED
    BY <1>2, <1>5, <1>6

\* A view begins: Keys sorts the slice in place and the walk shares its array.
LEMMA ViewKeepsMaps ==
  ASSUME MapsInv, NEW t \in UpkeepType,
         NEW caller \in {"plugin"} \cup UpkeepType, View(t, caller)
  PROVE  MapsInv'
PROOF
  <1>1. PICK s \in Sorted(keys[t]) :
          /\ keys' = [keys EXCEPT ![t] = s]
          /\ view' = [view EXCEPT ![t] =
                        [caller |-> caller, array |-> s, index |-> 1, result |-> <<>>]]
          /\ values' = values
    BY DEF View
  <1>2. /\ keys[t] \in Seq(WorkOf(t)) /\ Distinct(keys[t]) /\ WorkOf(t) \subseteq Nat
        /\ WorkOf(t) \subseteq WorkID
    <2>1. keys[t] \in Seq(WorkID) /\ Elements(keys[t]) \subseteq WorkOf(t)
      BY DEF MapsInv
    <2>2. keys[t] \in Seq(WorkOf(t))
      BY <2>1 DEF Elements
    <2> QED
      BY <2>2, MetadataStoreAssumption DEF MapsInv, WorkOf
  <1>3. s \in Seq(WorkOf(t)) /\ Distinct(s) /\ Elements(s) = Elements(keys[t])
    BY <1>2, SortedSame
  <1>4. s \in Seq(WorkID)
    BY <1>2, <1>3
  <1>5. /\ keys' \in [UpkeepType -> Seq(WorkID)]
        /\ keys'[t] = s /\ \A u \in UpkeepType \ {t} : keys'[u] = keys[u]
    BY <1>1, <1>4 DEF MapsInv
  <1>6. view' = [u \in UpkeepType |-> view'[u]]
    BY <1>1 DEF MapsInv
  <1>7. \A u \in UpkeepType \ {t} : view'[u] = view[u]
    BY <1>1 DEF MapsInv
  <1>8. view'[t] \in Walk(t)
    <2>1. view'[t] = [caller |-> caller, array |-> s, index |-> 1, result |-> <<>>]
      BY <1>1 DEF MapsInv
    <2>2. <<>> \in Seq(WorkOf(t))
      OBVIOUS
    <2> QED
      BY <2>1, <2>2, <1>3 DEF Walk
  <1>9. ASSUME NEW u \in UpkeepType
        PROVE  /\ view'[u] # None => view'[u] \in Walk(u)
               /\ Distinct(keys'[u])
               /\ Elements(keys'[u]) = {x \in WorkOf(u) : values'[x] # None}
    <2>1. CASE u = t
      BY <2>1, <1>1, <1>3, <1>5, <1>8 DEF MapsInv
    <2>2. CASE u # t
      BY <2>2, <1>1, <1>5, <1>7 DEF MapsInv
    <2> QED
      BY <2>1, <2>2
  <1> QED
    BY <1>1, <1>5, <1>6, <1>9 DEF MapsInv

\* A walk goes on.
LEMMA WalkOn ==
  ASSUME NEW t, NEW v \in Walk(t), NEW n \in Nat \ {0}, NEW s \in Seq(WorkOf(t))
  PROVE  /\ [v EXCEPT !.index = n, !.array = s] \in Walk(t)
         /\ [v EXCEPT !.index = n, !.result = s] \in Walk(t)
PROOF
  <1>1. [v EXCEPT !.index = n, !.array = s] \in Walk(t)
    BY DEF Walk
  <1>2. [v EXCEPT !.index = n, !.result = s] \in Walk(t)
    BY DEF Walk
  <1> QED
    BY <1>1, <1>2

\* One step of a walk: an expired record is deleted, another one is taken.
LEMMA ViewNextKeepsMaps ==
  ASSUME MapsInv, NEW t \in UpkeepType, ViewNext(t)
  PROVE  MapsInv'
PROOF
  <1> DEFINE v == view[t]
             w == v.array[v.index]
             W == WorkOf(t)
  <1>1. /\ view[t] # None /\ v \in Walk(t) /\ v.index <= Len(v.array)
    BY DEF ViewNext, MapsInv
  <1>2. /\ v.array \in Seq(W) /\ v.index \in Nat \ {0} /\ v.result \in Seq(W)
        /\ v.caller \in {"plugin"} \cup UpkeepType /\ w \in W
    BY <1>1 DEF Walk
  <1>b. PICK now \in Walk(t) : now = v
    BY <1>1
  <1>a. PICK n \in Nat \ {0} : n = v.index + 1
    BY <1>2
  <1>3. CASE Expired(w)
    <2>1. /\ Delete(t, w)
          /\ view' = [view EXCEPT ![t].index = @ + 1, ![t].array =
                          keys'[t] \o SubSeq(@, Len(keys'[t]) + 1, Len(@))]
      BY <1>3 DEF ViewNext
    <2>2. /\ keys' \in [UpkeepType -> Seq(WorkID)]
          /\ values' \in [WorkID -> Age \cup {None}]
          /\ \A u \in UpkeepType :
               /\ Distinct(keys'[u])
               /\ Elements(keys'[u]) = {x \in WorkOf(u) : values'[x] # None}
      BY <1>2, <2>1, DeleteKeepsMaps
    <2>3. keys'[t] \in Seq(W)
      <3>1. keys'[t] \in Seq(WorkID) /\ Elements(keys'[t]) \subseteq W
        BY <2>2
      <3> QED
        BY <3>1 DEF Elements
    <2>4. SubSeq(v.array, Len(keys'[t]) + 1, Len(v.array)) \in Seq(W)
      BY <1>2, <2>3
    <2>5. PICK a \in Seq(W) : a = keys'[t] \o SubSeq(v.array, Len(keys'[t]) + 1, Len(v.array))
      <3>1. keys'[t] \o SubSeq(v.array, Len(keys'[t]) + 1, Len(v.array)) \in Seq(W)
        BY <2>3, <2>4
      <3> QED
        BY <3>1
    <2>6. view' = [u \in UpkeepType |-> view'[u]] /\ \A u \in UpkeepType \ {t} : view'[u] = view[u]
      BY <2>1 DEF MapsInv
    <2>7. view'[t] \in Walk(t)
      <3>1. view'[t] = [now EXCEPT !.index = n, !.array = a]
        BY <1>a, <1>b, <2>1, <2>5 DEF MapsInv
      <3> HIDE DEF v, W
      <3>2. [now EXCEPT !.index = n, !.array = a] \in Walk(t)
        BY <1>b, <1>a, <2>5, WalkOn, Zenon DEF W
      <3> QED
        BY <3>1, <3>2, Zenon
    <2> QED
      BY <2>2, <2>6, <2>7 DEF MapsInv
  <1>4. CASE ~Expired(w)
    <2>1. /\ view' = [view EXCEPT ![t].index = @ + 1, ![t].result = Append(@, w)]
          /\ UNCHANGED <<keys, values>>
      BY <1>4 DEF ViewNext
    <2>2. view' = [u \in UpkeepType |-> view'[u]] /\ \A u \in UpkeepType \ {t} : view'[u] = view[u]
      BY <2>1 DEF MapsInv
    <2>3. view'[t] \in Walk(t)
      <3>0. Append(v.result, w) \in Seq(W)
        BY <1>2
      <3>1. PICK r \in Seq(W) : r = Append(v.result, w)
        BY <3>0
      <3>2. view'[t] = [now EXCEPT !.index = n, !.result = r]
        BY <1>a, <1>b, <2>1, <3>1 DEF MapsInv
      <3> HIDE DEF v, w, W
      <3>3. [now EXCEPT !.index = n, !.result = r] \in Walk(t)
        BY <1>b, <1>a, <3>1, WalkOn, Zenon DEF W
      <3> QED
        BY <3>2, <3>3, Zenon
    <2> QED
      BY <2>1, <2>2, <2>3 DEF MapsInv
  <1> QED
    BY <1>3, <1>4

\* A view returns and unlocks the map.
LEMMA UnlockKeepsMaps ==
  ASSUME MapsInv, NEW t \in UpkeepType, view' = [view EXCEPT ![t] = None],
         UNCHANGED <<keys, values>>
  PROVE  MapsInv'
PROOF
  <1>1. /\ view' = [u \in UpkeepType |-> view'[u]] /\ view'[t] = None
        /\ \A u \in UpkeepType \ {t} : view'[u] = view[u]
    BY DEF MapsInv
  <1> QED
    BY <1>1 DEF MapsInv

-----------------------------------------------------------------------------
(* The invariant.                                                          *)

LEMMA InitMaps == Init => MapsInv
PROOF
  <1> SUFFICES ASSUME Init PROVE MapsInv
    OBVIOUS
  <1>1. keys \in [UpkeepType -> Seq(WorkID)] /\ \A t \in UpkeepType : keys[t] = <<>>
    BY DEF Init
  <1>2. values \in [WorkID -> Age \cup {None}] /\ \A w \in WorkID : values[w] = None
    BY DEF Init
  <1>3. view = [t \in UpkeepType |-> view[t]] /\ \A t \in UpkeepType : view[t] = None
    BY DEF Init
  <1>4. \A t \in UpkeepType : Distinct(keys[t]) /\ Elements(keys[t]) = {}
    BY <1>1 DEF Distinct, Elements
  <1>5. \A t \in UpkeepType : {w \in WorkOf(t) : values[w] # None} = {}
    BY <1>2 DEF WorkOf
  <1> QED
    BY <1>1, <1>2, <1>3, <1>4, <1>5 DEF MapsInv

LEMMA NextKeepsMaps == MapsInv /\ [Next]_vars => MapsInv'
PROOF
  <1> SUFFICES ASSUME MapsInv, [Next]_vars PROVE MapsInv'
    OBVIOUS
  <1>1. ASSUME NEW t \in UpkeepType, NEW caller \in {"plugin"} \cup UpkeepType,
               ViewProposals(t, caller)
        PROVE  MapsInv'
    BY <1>1, ViewKeepsMaps
      DEF ViewProposals, viewLogRecoveryProposal, viewConditionalProposal, UpkeepType
  <1>2. ASSUME NEW w \in WorkID
        PROVE  typeGetter(w) \in UpkeepType /\ w \in WorkOf(typeGetter(w))
    BY DEF typeGetter, UpkeepType, WorkOf
  <1>3. CASE \E t \in UpkeepType : ViewNext(t)
    BY <1>3, ViewNextKeepsMaps
  <1>4. ASSUME NEW t \in UpkeepType, NEW kept, AddToObservation(t, kept) PROVE MapsInv'
    BY <1>4, UnlockKeepsMaps DEF AddToObservation
  <1>5. CASE AddLogProposalsHook
    BY <1>5, <1>1, <1>4 DEF AddLogProposalsHook, UpkeepType
  <1>6. CASE AddConditionalProposalsHook
    BY <1>6, <1>1, <1>4 DEF AddConditionalProposalsHook, UpkeepType
  <1>7. ASSUME NEW w \in WorkID, RemoveFromMetadata(w) PROVE MapsInv'
    <2>1. PICK t \in UpkeepType : t = typeGetter(w)
      BY <1>2
    <2>2. w \in WorkOf(t) /\ Delete(t, w) /\ UNCHANGED view
      BY <1>2, <1>7, <2>1 DEF RemoveFromMetadata, RemoveProposals, removeLogRecoveryProposal,
        removeConditionalProposal, UpkeepType
    <2> QED
      BY <2>2, DeleteKeepsMaps DEF MapsInv
  <1>8. ASSUME NEW f \in UpkeepType, NEW w \in WorkID, NEW eligible \in BOOLEAN,
               PostProcess(f, w, eligible)
        PROVE  MapsInv'
    <2>1. CASE eligible
      <3>1. PICK t \in UpkeepType : t = typeGetter(w)
        BY <1>2
      <3>2. w \in WorkOf(t) /\ Add(t, w) /\ UNCHANGED view
        BY <1>2, <1>8, <2>1, <3>1 DEF PostProcess, AddProposals, addLogRecoveryProposal,
          addConditionalProposal, UpkeepType
      <3> QED
        BY <3>2, AddKeepsMaps
    <2>2. CASE ~eligible
      BY <1>8, <2>2 DEF PostProcess, MapsInv
    <2> QED
      BY <2>1, <2>2
  <1>9. ASSUME NEW f, NEW payloads, ProposalFilterer(f, payloads) PROVE MapsInv'
    BY <1>9, UnlockKeepsMaps DEF ProposalFilterer, UpkeepType
  <1>10. ASSUME NEW f \in UpkeepType, Filter(f) PROVE MapsInv'
    BY <1>10, <1>1 DEF Filter, UpkeepType
  <1>11. CASE RecoveryProposalFlow
    BY <1>11, <1>8, <1>9, <1>10 DEF RecoveryProposalFlow, UpkeepType
  <1>12. CASE SampleProposalFlow
    BY <1>12, <1>8, <1>9, <1>10 DEF SampleProposalFlow, UpkeepType
  <1>13. CASE Tick
    <2>1. \A x \in 0..Expiry : x + 1 \in Age /\ x + 1 # None
      BY MetadataStoreAssumption DEF Age
    <2>2. /\ values' \in [WorkID -> Age \cup {None}]
          /\ \A w \in WorkID : values'[w] # None <=> values[w] # None
      BY <1>13, <2>1, MetadataStoreAssumption DEF Tick, MapsInv, Age
    <2>3. \A t \in UpkeepType : {w \in WorkOf(t) : values'[w] # None} = {w \in WorkOf(t) : values[w] # None}
      BY <2>2 DEF WorkOf
    <2> QED
      BY <1>13, <2>2, <2>3 DEF Tick, MapsInv
  <1>14. CASE UNCHANGED vars
    BY <1>14 DEF vars, MapsInv
  <1> QED
    BY <1>3, <1>5, <1>6, <1>7, <1>11, <1>12, <1>13, <1>14 DEF Next

LEMMA AlwaysMaps == Spec => []MapsInv
PROOF
  BY InitMaps, NextKeepsMaps, PTL DEF Spec

\* The keys and the values of the ordered maps (pkg/v3/stores/metadata_store.go) agree
\* at every point, also between two steps of a view that deletes what has expired.
THEOREM AlwaysKeysMatchValues == Spec => []KeysMatchValues
PROOF
  <1>1. MapsInv => KeysMatchValues
    <2> SUFFICES ASSUME MapsInv, NEW t \in UpkeepType
                 PROVE  /\ \A i, j \in 1..Len(keys[t]) : keys[t][i] = keys[t][j] => i = j
                        /\ Range(keys[t]) = {w \in WorkOf(t) : values[w] # None}
      BY DEF KeysMatchValues
    <2>1. PICK s \in Seq(WorkID) : s = keys[t]
      BY DEF MapsInv
    <2>2. Range(s) = Elements(s)
      BY RangeIsElements
    <2> QED
      BY <2>1, <2>2 DEF MapsInv, Distinct
  <1> QED
    BY <1>1, AlwaysMaps, PTL

\* viewLogRecoveryProposal and viewConditionalProposal delete expired proposals only.
THEOREM AlwaysOnlyExpiredDropped == Spec => OnlyExpiredDropped
PROOF
  <1>1. MapsInv /\ [Next]_vars =>
          [\A t \in UpkeepType : ViewNext(t) =>
             \A w \in WorkID : ~Expired(w) => values'[w] = values[w]]_vars
    <2> SUFFICES ASSUME MapsInv, NEW t \in UpkeepType, ViewNext(t), NEW w \in WorkID, ~Expired(w)
                 PROVE  values'[w] = values[w]
      OBVIOUS
    <2>1. PICK x : x = view[t].array[view[t].index]
      OBVIOUS
    <2>2. CASE Expired(x)
      <3>1. Delete(t, x) /\ x # w
        BY <2>1, <2>2 DEF ViewNext
      <3> QED
        BY <3>1 DEF Delete, MapsInv
    <2>3. CASE ~Expired(x)
      BY <2>1, <2>3 DEF ViewNext
    <2> QED
      BY <2>2, <2>3
  <1> QED
    BY <1>1, AlwaysMaps, PTL DEF Spec, OnlyExpiredDropped
=============================================================================
