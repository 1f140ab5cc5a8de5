----------------------------- MODULE ReportProofs -----------------------------
(***************************************************************************)
(* Proofs about the report and the export: that the merge sort of glib     *)
(* sorts what the compare functions order, and loses nothing where their   *)
(* order is no order; so that the reports and the export list the gathered *)
(* events in the order they promise; that sorting its lists does not undo  *)
(* what the master has gathered; and that xml.c writes the text of the     *)
(* tree of the report.                                                     *)
(***************************************************************************)
EXTENDS Report, GatherProofs

-------------------------------------------------------------------------------
(* Naturals: what follows by induction is proved from the least counterexample.  *)

LEMMA LeastNumber ==
  ASSUME NEW S, S \subseteq Nat, S # {}
  PROVE  \E m \in S : \A k \in S : m <= k
<1>1. PICK R : R = OpToRel(<, Nat)
  OBVIOUS
<1>2. IsWellFoundedOn(R, Nat)
  BY <1>1, NatLessThanWellFounded
<1>3. PICK m \in S : \A k \in S : ~(<< k, m >> \in R)
  BY <1>2, WFMin
<1>4. \A j, k \in Nat : << j, k >> \in R <=> j < k
  BY <1>1 DEF OpToRel
<1>5. \A k \in S : ~(k < m)
  BY <1>3, <1>4
<1>. QED BY <1>5

-------------------------------------------------------------------------------
(* The order of the events.                                                      *)

\* What is sorted: the events of the master, or copies with their names.
Sortable == Events \cup NamedEvents

\* Where the order looks at the names they differ by no more than one.
Comparable(full, X) ==
  /\ X \subseteq Sortable
  /\ full => \A e, f \in X : e.name \in Int /\ e.name - f.name \in -1 .. 1

LEMMA OrderOfEvents ==
  ASSUME NEW full \in BOOLEAN, NEW X, Comparable(full, X), NEW e \in X, NEW f \in X
  PROVE  /\ NotAfter(full, e, f) /\ Key(e) # Key(f) => Less(full, e, f)
         /\ ~NotAfter(full, e, f) => Less(full, f, e)
<1>1. /\ e.proc \in Int /\ e.id \in Int /\ f.proc \in Int /\ f.id \in Int
      /\ Key(e) # Key(f) => e.proc # f.proc \/ e.id # f.id
  BY SizeAssumption DEF Comparable, Sortable, Events, NamedEvents, Ranks, Key
<1>2. CASE full = FALSE
  BY <1>1, <1>2 DEF NotAfter, Compare, Less, Earlier
<1>3. CASE full = TRUE
  <2>1. e.name \in Int /\ f.name \in Int /\ e.name - f.name \in -1 .. 1
    BY <1>3 DEF Comparable
  <2>2. PICK d \in Int : d = e.name - f.name
    BY <2>1
  <2>3. CompareFull(e, f) = IF d \in {-1, 1} THEN d ELSE Compare(e, f)
    BY <2>2 DEF CompareFull, strcmp
  <2>4. /\ d \in {-1, 0, 1}
        /\ d = 0 <=> e.name = f.name
        /\ d = -1 => e.name < f.name
        /\ d = 1 => f.name < e.name
    BY <2>1, <2>2
  <2>5. d = 0 => /\ NotAfter(full, e, f) /\ Key(e) # Key(f) => Less(full, e, f)
                 /\ ~NotAfter(full, e, f) => Less(full, f, e)
    BY <1>1, <1>3, <2>3, <2>4 DEF NotAfter, Compare, Less, EarlierByName, Earlier
  <2>. QED BY <1>3, <2>3, <2>4, <2>5 DEF NotAfter, Less, EarlierByName
<1>. QED BY <1>2, <1>3

LEMMA OrderIsTransitive ==
  ASSUME NEW full \in BOOLEAN, NEW X, Comparable(full, X), NEW e \in X, NEW f \in X, NEW g \in X,
         Less(full, e, f), Less(full, f, g)
  PROVE  Less(full, e, g)
<1>1. /\ e.proc \in Int /\ e.id \in Int /\ f.proc \in Int /\ f.id \in Int
      /\ g.proc \in Int /\ g.id \in Int
  BY SizeAssumption DEF Comparable, Sortable, Events, NamedEvents, Ranks
<1>2. CASE full = FALSE
  BY <1>1, <1>2 DEF Less, Earlier
<1>3. CASE full = TRUE
  <2>1. e.name \in Int /\ f.name \in Int /\ g.name \in Int
    BY <1>3 DEF Comparable
  <2>. QED BY <1>1, <1>3, <2>1 DEF Less, EarlierByName, Earlier
<1>. QED BY <1>2, <1>3

-------------------------------------------------------------------------------
(* Merging.                                                                      *)

LEMMA MergeSteps ==
  ASSUME NEW s, NEW t, Len(s) \in Nat, Len(t) \in Nat, NEW full
  PROVE  \E f : /\ Merge(s, t, full) = f[Len(s) + Len(t)].list
                /\ f[0] = Nothing
                /\ \A k \in 1 .. Len(s) + Len(t) : f[k] = TakeOne(s, t, full, k, f[k - 1])
<1>. DEFINE IsMerge(n, f) ==
              f = [k \in 0 .. n |-> IF k = 0 THEN Nothing ELSE TakeOne(s, t, full, k, f[k - 1])]
            D == {n \in Nat : ~\E f : IsMerge(n, f)}
            N == Len(s) + Len(t)
<1>1. D = {}
  <2>1. SUFFICES ASSUME D # {} PROVE FALSE
    <3>. HIDE DEF D
    <3>. QED OBVIOUS
  <2>2. PICK n \in D : \A k \in D : n <= k
    <3>1. D \subseteq Nat
      OBVIOUS
    <3>. HIDE DEF D
    <3>. QED BY <2>1, <3>1, LeastNumber
  <2>3. n \in Nat /\ ~\E f : IsMerge(n, f)
    <3>. HIDE DEF IsMerge
    <3>. QED OBVIOUS
  <2>4. n # 0
    <3>1. [k \in 0 .. 0 |-> Nothing] =
            [k \in 0 .. 0 |-> IF k = 0 THEN Nothing
                              ELSE TakeOne(s, t, full, k, [i \in 0 .. 0 |-> Nothing][k - 1])]
      OBVIOUS
    <3>2. IsMerge(0, [k \in 0 .. 0 |-> Nothing])
      BY <3>1
    <3>. HIDE DEF IsMerge
    <3>. QED BY <2>3, <3>2
  <2>5. n - 1 \in Nat /\ n - 1 \notin D
    <3>. HIDE DEF D
    <3>1. n - 1 \in Nat /\ ~(n <= n - 1)
      BY <2>3, <2>4
    <3>. QED BY <2>2, <3>1
  <2>6. PICK f : IsMerge(n - 1, f)
    <3>. HIDE DEF IsMerge
    <3>. QED BY <2>5
  <2>. DEFINE g == [k \in 0 .. n |-> IF k = 0 THEN Nothing ELSE TakeOne(s, t, full, k, f[k - 1])]
  <2>7. \A k \in 0 .. n - 1 : g[k] = f[k]
    <3>1. \A k \in 0 .. n - 1 : f[k] = IF k = 0 THEN Nothing ELSE TakeOne(s, t, full, k, f[k - 1])
      BY <2>6
    <3>2. \A k \in 0 .. n - 1 : k \in 0 .. n
      BY <2>3
    <3>. QED BY <3>1, <3>2
  <2>8. g = [k \in 0 .. n |-> IF k = 0 THEN Nothing ELSE TakeOne(s, t, full, k, g[k - 1])]
    <3>1. \A k \in 0 .. n : g[k] = IF k = 0 THEN Nothing ELSE TakeOne(s, t, full, k, f[k - 1])
      OBVIOUS
    <3>2. g = [k \in 0 .. n |-> g[k]]
      OBVIOUS
    <3>3. \A k \in 0 .. n : k # 0 => k - 1 \in 0 .. n - 1
      BY <2>3
    <3>. HIDE DEF g
    <3>4. \A k \in 0 .. n : g[k] = IF k = 0 THEN Nothing ELSE TakeOne(s, t, full, k, g[k - 1])
      BY <2>7, <3>1, <3>3
    <3>. QED BY <3>2, <3>4
  <2>9. IsMerge(n, g)
    <3>. HIDE DEF g
    <3>. QED BY <2>8
  <2>. HIDE DEF IsMerge, g
  <2>. QED BY <2>3, <2>9
<1>. DEFINE merged == CHOOSE f : IsMerge(N, f)
<1>2. IsMerge(N, merged)
  <2>1. N \in Nat
    OBVIOUS
  <2>2. \E f : IsMerge(N, f)
    <3>. HIDE DEF IsMerge, N
    <3>. QED BY <1>1, <2>1
  <2>. HIDE DEF IsMerge, N
  <2>. QED BY <2>2
<1>3. Merge(s, t, full) = merged[N].list
  BY DEF Merge
<1>4. \A k \in 0 .. N : merged[k] = IF k = 0 THEN Nothing ELSE TakeOne(s, t, full, k, merged[k - 1])
  <2>. HIDE DEF merged, N
  <2>. QED BY <1>2
<1>5. 0 \in 0 .. N /\ \A k \in 1 .. N : k \in 0 .. N /\ k # 0
  OBVIOUS
<1>6. merged[0] = Nothing /\ \A k \in 1 .. N : merged[k] = TakeOne(s, t, full, k, merged[k - 1])
  <2>. HIDE DEF merged, N, IsMerge
  <2>. QED BY <1>4, <1>5
<1>. HIDE DEF merged, IsMerge
<1>. QED BY <1>3, <1>6

\* What has been taken when i elements of s and j of t are in the list l.
Holds(s, t, i, j, l) ==
  /\ i \in 0 .. Len(s) /\ j \in 0 .. Len(t)
  /\ Len(l) = i + j
  /\ \A a \in 1 .. i + j : (\E b \in 1 .. i : l[a] = s[b]) \/ (\E b \in 1 .. j : l[a] = t[b])
  /\ \A b \in 1 .. i : \E a \in 1 .. i + j : l[a] = s[b]
  /\ \A b \in 1 .. j : \E a \in 1 .. i + j : l[a] = t[b]

LEMMA HoldsBothWays ==
  ASSUME NEW s, NEW t, Len(s) \in Nat, Len(t) \in Nat, NEW i, NEW j, NEW l, Holds(s, t, i, j, l)
  PROVE  Holds(t, s, j, i, l)
<1>1. i \in Nat /\ j \in Nat /\ i + j = j + i
  BY DEF Holds
<1>. QED BY <1>1 DEF Holds

\* The next element comes from s.
LEMMA HoldsOneMore ==
  ASSUME NEW X, NEW s \in Seq(X), NEW t \in Seq(X), NEW l \in Seq(X), NEW i, NEW j,
         Holds(s, t, i, j, l), i < Len(s), NEW e, e = s[i + 1], NEW m, m = Append(l, e)
  PROVE  m \in Seq(X) /\ Holds(s, t, i + 1, j, m)
<1>1. /\ i \in Nat /\ j \in Nat /\ i + 1 \in 0 .. Len(s) /\ j \in 0 .. Len(t) /\ Len(l) = i + j
      /\ i + j \in Nat /\ (i + 1) + j = (i + j) + 1
  BY DEF Holds
<1>2. e \in X
  BY <1>1
<1>3. /\ m \in Seq(X) /\ Len(m) = (i + j) + 1
      /\ \A a \in 1 .. i + j : m[a] = l[a]
      /\ m[(i + j) + 1] = e
  BY <1>1, <1>2, AppendProperties
<1>4. \A a \in 1 .. (i + 1) + j : a \in 1 .. i + j \/ a = (i + j) + 1
  BY <1>1
<1>5. ASSUME NEW a \in 1 .. (i + 1) + j
      PROVE  (\E b \in 1 .. i + 1 : m[a] = s[b]) \/ (\E b \in 1 .. j : m[a] = t[b])
  <2>1. CASE a \in 1 .. i + j
    <3>1. (\E b \in 1 .. i : m[a] = s[b]) \/ (\E b \in 1 .. j : m[a] = t[b])
      <4>1. (\E b \in 1 .. i : l[a] = s[b]) \/ (\E b \in 1 .. j : l[a] = t[b])
        BY <2>1 DEF Holds
      <4>. QED BY <1>3, <2>1, <4>1
    <3>2. \A b \in 1 .. i : b \in 1 .. i + 1
      BY <1>1
    <3>. QED BY <3>1, <3>2
  <2>2. CASE a = (i + j) + 1
    <3>1. i + 1 \in 1 .. i + 1
      BY <1>1
    <3>. QED BY <1>3, <2>2, <3>1
  <2>. QED BY <1>4, <2>1, <2>2
<1>6. \A a \in 1 .. i + j : a \in 1 .. (i + 1) + j
  BY <1>1
<1>7. ASSUME NEW b \in 1 .. i + 1
       PROVE  \E a \in 1 .. (i + 1) + j : m[a] = s[b]
  <2>1. CASE b \in 1 .. i
    <3>1. PICK a \in 1 .. i + j : l[a] = s[b]
      BY <2>1 DEF Holds
    <3>. QED BY <1>3, <1>6, <3>1
  <2>2. CASE b = i + 1
    <3>1. (i + j) + 1 \in 1 .. (i + 1) + j
      BY <1>1
    <3>. QED BY <1>3, <2>2, <3>1
  <2>3. b \in 1 .. i \/ b = i + 1
    BY <1>1
  <2>. QED BY <2>1, <2>2, <2>3
<1>8. ASSUME NEW b \in 1 .. j
       PROVE  \E a \in 1 .. (i + 1) + j : m[a] = t[b]
  <2>1. PICK a \in 1 .. i + j : l[a] = t[b]
    BY DEF Holds
  <2>. QED BY <1>3, <1>6, <2>1
<1>9. Len(m) = (i + 1) + j
  BY <1>1, <1>3
<1>. QED BY <1>1, <1>3, <1>5, <1>7, <1>8, <1>9 DEF Holds

\* What has been taken precedes what remains.
InOrder(full, i, j, l) == \A a, b \in 1 .. i + j : a < b => Less(full, l[a], l[b])
InFront(s, full, i, j, l) ==
  \A a \in 1 .. i + j : \A b \in i + 1 .. Len(s) : Less(full, l[a], s[b])
Merging(s, t, full, i, j, l) ==
  /\ Holds(s, t, i, j, l)
  /\ InOrder(full, i, j, l)
  /\ InFront(s, full, i, j, l) /\ InFront(t, full, j, i, l)

LEMMA MergingBothWays ==
  ASSUME NEW s, NEW t, Len(s) \in Nat, Len(t) \in Nat, NEW full, NEW i, NEW j, NEW l,
         Merging(s, t, full, i, j, l)
  PROVE  Merging(t, s, full, j, i, l)
<1>1. i \in Nat /\ j \in Nat /\ i + j = j + i
  BY DEF Merging, Holds
<1>2. Holds(t, s, j, i, l)
  BY HoldsBothWays DEF Merging
<1>. QED BY <1>1, <1>2 DEF Merging, InOrder, InFront

\* The next element comes from s, and precedes all that remain.
LEMMA MergingGoesOn ==
  ASSUME NEW X, NEW s \in Seq(X), NEW t \in Seq(X), NEW l \in Seq(X), NEW full, NEW i, NEW j,
         Merging(s, t, full, i, j, l), i < Len(s),
         NEW e, e = s[i + 1],
         \A b \in i + 2 .. Len(s) : Less(full, e, s[b]),
         \A b \in j + 1 .. Len(t) : Less(full, e, t[b]),
         NEW m, m = Append(l, e)
  PROVE  m \in Seq(X) /\ Merging(s, t, full, i + 1, j, m)
<1>1. /\ i \in Nat /\ j \in Nat /\ i + 1 \in 0 .. Len(s) /\ j \in 0 .. Len(t) /\ Len(l) = i + j
      /\ i + j \in Nat /\ (i + 1) + j = (i + j) + 1
  BY DEF Merging, Holds
<1>2. e \in X
  BY <1>1
<1>3. /\ m \in Seq(X) /\ Len(m) = (i + j) + 1
      /\ \A a \in 1 .. i + j : m[a] = l[a]
      /\ m[(i + j) + 1] = e
  BY <1>1, <1>2, AppendProperties
<1>4. \A a \in 1 .. (i + 1) + j : a \in 1 .. i + j \/ a = (i + j) + 1
  BY <1>1
<1>5. \A a \in 1 .. i + j : Less(full, l[a], e)
  <2>1. i + 1 \in i + 1 .. Len(s)
    BY <1>1
  <2>. QED BY <2>1 DEF Merging, InFront
<1>6. InOrder(full, i + 1, j, m)
  <2>1. ASSUME NEW a \in 1 .. (i + 1) + j, NEW b \in 1 .. (i + 1) + j, a < b
        PROVE  Less(full, m[a], m[b])
    <3>1. a \in 1 .. i + j
      BY <1>1, <2>1
    <3>2. CASE b \in 1 .. i + j
      BY <1>3, <2>1, <3>1, <3>2 DEF Merging, InOrder
    <3>3. CASE b = (i + j) + 1
      BY <1>3, <1>5, <3>1, <3>3
    <3>. QED BY <1>4, <3>2, <3>3
  <2>. QED BY <2>1 DEF InOrder
<1>7. InFront(s, full, i + 1, j, m)
  <2>1. ASSUME NEW a \in 1 .. (i + 1) + j, NEW b \in (i + 1) + 1 .. Len(s)
        PROVE  Less(full, m[a], s[b])
    <3>1. b \in i + 1 .. Len(s) /\ b \in i + 2 .. Len(s)
      BY <1>1
    <3>2. CASE a \in 1 .. i + j
      BY <1>3, <3>1, <3>2 DEF Merging, InFront
    <3>3. CASE a = (i + j) + 1
      BY <1>3, <3>1, <3>3
    <3>. QED BY <1>4, <3>2, <3>3
  <2>. QED BY <2>1 DEF InFront
<1>8. InFront(t, full, j, i + 1, m)
  <2>1. ASSUME NEW a \in 1 .. j + (i + 1), NEW b \in j + 1 .. Len(t)
        PROVE  Less(full, m[a], t[b])
    <3>1. a \in 1 .. (i + 1) + j /\ (a \in 1 .. i + j => a \in 1 .. j + i)
      BY <1>1
    <3>2. CASE a \in 1 .. i + j
      BY <1>3, <3>1, <3>2 DEF Merging, InFront
    <3>3. CASE a = (i + j) + 1
      BY <1>3, <3>3
    <3>. QED BY <1>4, <3>1, <3>2, <3>3
  <2>. QED BY <2>1 DEF InFront
<1>9. Holds(s, t, i + 1, j, m)
  BY HoldsOneMore DEF Merging
<1>. QED BY <1>3, <1>6, <1>7, <1>8, <1>9 DEF Merging

\* No event is in both lists.
Disjoint(s, t) == \A i \in 1 .. Len(s) : \A j \in 1 .. Len(t) : Key(s[i]) # Key(t[j])

LEMMA MergeStep ==
  ASSUME NEW full \in BOOLEAN, NEW X, Comparable(full, X), NEW s \in Seq(X), NEW t \in Seq(X),
         Sorted(s, full), Sorted(t, full), Disjoint(s, t), NEW k \in 1 .. Len(s) + Len(t),
         NEW taken, taken.list \in Seq(X),
         Merging(s, t, full, taken.first, k - 1 - taken.first, taken.list),
         NEW more, more = TakeOne(s, t, full, k, taken)
  PROVE  more.list \in Seq(X) /\ Merging(s, t, full, more.first, k - more.first, more.list)
<1>1. PICK i : i = taken.first
  OBVIOUS
<1>2. PICK l : l = taken.list
  OBVIOUS
<1>3. PICK j : j = k - 1 - i
  OBVIOUS
<1>4. /\ l \in Seq(X) /\ Merging(s, t, full, i, j, l)
      /\ i \in 0 .. Len(s) /\ j \in 0 .. Len(t) /\ i + j = k - 1
  BY <1>1, <1>2, <1>3 DEF Merging, Holds
<1>5. /\ Len(s) \in Nat /\ Len(t) \in Nat
      /\ DOMAIN s = 1 .. Len(s) /\ DOMAIN t = 1 .. Len(t)
      /\ \A b \in 1 .. Len(s) : s[b] \in X
      /\ \A b \in 1 .. Len(t) : t[b] \in X
  OBVIOUS
<1>6. /\ i < Len(s) => /\ i + 1 \in 1 .. Len(s)
                       /\ \A b \in i + 2 .. Len(s) : Less(full, s[i + 1], s[b])
      /\ j < Len(t) => /\ j + 1 \in 1 .. Len(t)
                       /\ \A b \in j + 2 .. Len(t) : Less(full, t[j + 1], t[b])
  <2>1. i < Len(s) => /\ i + 1 \in 1 .. Len(s)
                      /\ \A b \in i + 2 .. Len(s) : b \in 1 .. Len(s) /\ i + 1 < b
    BY <1>4, <1>5
  <2>2. j < Len(t) => /\ j + 1 \in 1 .. Len(t)
                      /\ \A b \in j + 2 .. Len(t) : b \in 1 .. Len(t) /\ j + 1 < b
    BY <1>4, <1>5
  <2>. QED BY <1>5, <2>1, <2>2 DEF Sorted
<1>7. CASE i < Len(s) /\ (j = Len(t) \/ NotAfter(full, s[i + 1], t[j + 1]))
  <2>1. PICK e : e = s[i + 1]
    OBVIOUS
  <2>2. PICK m : m = Append(l, e)
    OBVIOUS
  <2>3. more.first = i + 1 /\ more.list = m
    BY <1>1, <1>2, <1>3, <1>7, <2>1, <2>2 DEF TakeOne
  <2>4. ASSUME NEW b \in j + 1 .. Len(t)
        PROVE  Less(full, e, t[b])
    <3>1. /\ j < Len(t) /\ j + 1 \in 1 .. Len(t) /\ i + 1 \in 1 .. Len(s)
          /\ b \in 1 .. Len(t) /\ (b = j + 1 \/ b \in j + 2 .. Len(t))
      <4>1. i < Len(s)
        BY <1>7
      <4>. QED BY <1>4, <1>5, <4>1
    <3>2. NotAfter(full, e, t[j + 1]) /\ Key(e) # Key(t[j + 1])
      BY <1>4, <1>7, <2>1, <3>1 DEF Disjoint
    <3>3. Less(full, e, t[j + 1])
      BY <1>5, <2>1, <3>1, <3>2, OrderOfEvents
    <3>4. b \in j + 2 .. Len(t) => Less(full, t[j + 1], t[b])
      BY <1>6, <3>1
    <3>. QED BY <1>5, <2>1, <3>1, <3>3, <3>4, OrderIsTransitive
  <2>5. m \in Seq(X) /\ Merging(s, t, full, i + 1, j, m)
    BY <1>4, <1>6, <1>7, <2>1, <2>2, <2>4, MergingGoesOn
  <2>6. k - (i + 1) = j
    BY <1>4
  <2>. QED BY <2>3, <2>5, <2>6
<1>8. CASE ~(i < Len(s) /\ (j = Len(t) \/ NotAfter(full, s[i + 1], t[j + 1])))
  <2>1. PICK e : e = t[j + 1]
    OBVIOUS
  <2>2. PICK m : m = Append(l, e)
    OBVIOUS
  <2>3. more.first = i /\ more.list = m
    BY <1>1, <1>2, <1>3, <1>8, <2>1, <2>2 DEF TakeOne
  <2>4. j < Len(t)
    <3>1. i + j < Len(s) + Len(t) /\ i \in Int /\ j \in Int /\ i <= Len(s) /\ j <= Len(t)
      BY <1>4, <1>5
    <3>2. i < Len(s) => j # Len(t)
      BY <1>8
    <3>3. Len(s) \in Nat /\ Len(t) \in Nat
      BY <1>5
    <3>. QED BY ONLY <3>1, <3>2, <3>3
  <2>5. i < Len(s) => ~NotAfter(full, s[i + 1], e)
    BY <1>8, <2>1
  <2>6. ASSUME NEW b \in i + 1 .. Len(s)
        PROVE  Less(full, e, s[b])
    <3>1. /\ i < Len(s) /\ i + 1 \in 1 .. Len(s) /\ j + 1 \in 1 .. Len(t)
          /\ b \in 1 .. Len(s) /\ (b = i + 1 \/ b \in i + 2 .. Len(s))
      BY <1>4, <1>5, <2>4
    <3>2. ~NotAfter(full, s[i + 1], e)
      BY <2>5, <3>1
    <3>3. Less(full, e, s[i + 1])
      BY <1>5, <2>1, <3>1, <3>2, OrderOfEvents
    <3>4. b \in i + 2 .. Len(s) => Less(full, s[i + 1], s[b])
      BY <1>6, <3>1
    <3>. QED BY <1>5, <2>1, <3>1, <3>3, <3>4, OrderIsTransitive
  <2>7. Merging(t, s, full, j, i, l)
    BY <1>4, <1>5, MergingBothWays
  <2>8. m \in Seq(X) /\ Merging(t, s, full, j + 1, i, m)
    BY <1>4, <1>6, <2>1, <2>2, <2>4, <2>6, <2>7, MergingGoesOn
  <2>9. Merging(s, t, full, i, j + 1, m)
    BY <1>5, <2>8, MergingBothWays
  <2>10. k - i = j + 1
    BY <1>4
  <2>. QED BY <2>3, <2>8, <2>9, <2>10
<1>. QED BY <1>7, <1>8

\* The elements of a list.
Elements(s) == {s[i] : i \in 1 .. Len(s)}

\* In whatever order the elements come, none is lost and none is added.
LEMMA HoldsStep ==
  ASSUME NEW full, NEW X, NEW s \in Seq(X), NEW t \in Seq(X), NEW k \in 1 .. Len(s) + Len(t),
         NEW taken, taken.list \in Seq(X), Holds(s, t, taken.first, k - 1 - taken.first, taken.list),
         NEW more, more = TakeOne(s, t, full, k, taken)
  PROVE  more.list \in Seq(X) /\ Holds(s, t, more.first, k - more.first, more.list)
<1>1. PICK i : i = taken.first
  OBVIOUS
<1>2. PICK l : l = taken.list
  OBVIOUS
<1>3. PICK j : j = k - 1 - i
  OBVIOUS
<1>4. /\ l \in Seq(X) /\ Holds(s, t, i, j, l)
      /\ i \in 0 .. Len(s) /\ j \in 0 .. Len(t) /\ i + j = k - 1
  BY <1>1, <1>2, <1>3 DEF Holds
<1>5. Len(s) \in Nat /\ Len(t) \in Nat
  OBVIOUS
<1>6. CASE i < Len(s) /\ (j = Len(t) \/ NotAfter(full, s[i + 1], t[j + 1]))
  <2>1. PICK m : m = Append(l, s[i + 1])
    OBVIOUS
  <2>2. more.first = i + 1 /\ more.list = m
    BY <1>1, <1>2, <1>3, <1>6, <2>1 DEF TakeOne
  <2>3. m \in Seq(X) /\ Holds(s, t, i + 1, j, m)
    BY <1>4, <1>6, <2>1, HoldsOneMore
  <2>4. k - (i + 1) = j
    BY <1>4
  <2>. QED BY <2>2, <2>3, <2>4
<1>7. CASE ~(i < Len(s) /\ (j = Len(t) \/ NotAfter(full, s[i + 1], t[j + 1])))
  <2>1. PICK m : m = Append(l, t[j + 1])
    OBVIOUS
  <2>2. more.first = i /\ more.list = m
    BY <1>1, <1>2, <1>3, <1>7, <2>1 DEF TakeOne
  <2>3. j < Len(t)
    <3>1. i + j < Len(s) + Len(t) /\ i \in Int /\ j \in Int /\ i <= Len(s) /\ j <= Len(t)
      BY <1>4, <1>5
    <3>2. i < Len(s) => j # Len(t)
      BY <1>7
    <3>. QED BY <1>5, <3>1, <3>2
  <2>4. Holds(t, s, j, i, l)
    BY <1>4, <1>5, HoldsBothWays
  <2>5. m \in Seq(X) /\ Holds(t, s, j + 1, i, m)
    BY <1>4, <2>1, <2>3, <2>4, HoldsOneMore
  <2>6. Holds(s, t, i, j + 1, m)
    BY <1>5, <2>5, HoldsBothWays
  <2>7. k - i = j + 1
    BY <1>4
  <2>. QED BY <2>2, <2>5, <2>6, <2>7
<1>. QED BY <1>6, <1>7

Joins(m, s, t) == Len(m) = Len(s) + Len(t) /\ Elements(m) = Elements(s) \cup Elements(t)

LEMMA MergeHolds ==
  ASSUME NEW full, NEW X, NEW s \in Seq(X), NEW t \in Seq(X),
         NEW m, m = Merge(s, t, full)
  PROVE  m \in Seq(X) /\ Joins(m, s, t)
<1>. DEFINE N == Len(s) + Len(t)
<1>1. Len(s) \in Nat /\ Len(t) \in Nat /\ N \in Nat
  OBVIOUS
<1>2. PICK f : /\ Merge(s, t, full) = f[N].list
               /\ f[0] = Nothing
               /\ \A k \in 1 .. N : f[k] = TakeOne(s, t, full, k, f[k - 1])
  BY <1>1, MergeSteps
<1>. DEFINE Good(k) == f[k].list \in Seq(X) /\ Holds(s, t, f[k].first, k - f[k].first, f[k].list)
            D == {k \in 0 .. N : ~Good(k)}
<1>3. D = {}
  <2>1. SUFFICES ASSUME D # {} PROVE FALSE
    <3>. HIDE DEF D
    <3>. QED OBVIOUS
  <2>2. PICK k \in D : \A n \in D : k <= n
    <3>1. D \subseteq Nat
      BY <1>1
    <3>. HIDE DEF D
    <3>. QED BY <2>1, <3>1, LeastNumber
  <2>3. k \in 0 .. N /\ ~Good(k)
    <3>. HIDE DEF Good, N
    <3>. QED OBVIOUS
  <2>4. Good(0)
    <3>1. f[0].first = 0 /\ f[0].list = << >> /\ << >> \in Seq(X)
      BY <1>2 DEF Nothing
    <3>2. Holds(s, t, 0, 0 - 0, << >>)
      BY <1>1 DEF Holds
    <3>. QED BY <3>1, <3>2
  <2>5. k # 0
    <3>. HIDE DEF Good
    <3>. QED BY <2>3, <2>4
  <2>6. k \in 1 .. N /\ k - 1 \in 0 .. N /\ ~(k <= k - 1)
    BY <1>1, <2>3, <2>5
  <2>7. Good(k - 1)
    <3>1. k - 1 \notin D
      <4>. HIDE DEF D
      <4>. QED BY <2>2, <2>6
    <3>. HIDE DEF Good, N
    <3>. QED BY <2>6, <3>1
  <2>8. PICK taken : taken = f[k - 1]
    OBVIOUS
  <2>9. PICK more : more = f[k]
    OBVIOUS
  <2>10. more = TakeOne(s, t, full, k, taken)
    BY <1>2, <2>6, <2>8, <2>9
  <2>11. taken.list \in Seq(X) /\ Holds(s, t, taken.first, k - 1 - taken.first, taken.list)
    BY <2>7, <2>8
  <2>12. more.list \in Seq(X) /\ Holds(s, t, more.first, k - more.first, more.list)
    BY <2>6, <2>10, <2>11, HoldsStep
  <2>. QED BY <2>3, <2>9, <2>12
<1>4. Good(N)
  <2>1. N \in 0 .. N
    BY <1>1
  <2>. HIDE DEF Good, N
  <2>. QED BY <1>3, <2>1
<1>5. PICK i : i = f[N].first
  OBVIOUS
<1>6. m \in Seq(X) /\ Holds(s, t, i, N - i, m)
  BY <1>2, <1>4, <1>5
<1>7. i = Len(s) /\ N - i = Len(t) /\ Len(m) = N
  <2>1. i \in 0 .. Len(s) /\ N - i \in 0 .. Len(t) /\ Len(m) = i + (N - i)
    BY <1>6 DEF Holds
  <2>. QED BY <1>1, <2>1
<1>8. Holds(s, t, Len(s), Len(t), m)
  BY <1>6, <1>7
<1>9. Elements(m) = Elements(s) \cup Elements(t)
  <2>1. Len(m) = Len(s) + Len(t)
    BY <1>7
  <2>2. ASSUME NEW e \in Elements(m) PROVE e \in Elements(s) \cup Elements(t)
    <3>1. PICK a \in 1 .. Len(s) + Len(t) : e = m[a]
      BY <2>1 DEF Elements
    <3>2. (\E b \in 1 .. Len(s) : e = s[b]) \/ (\E b \in 1 .. Len(t) : e = t[b])
      BY <1>8, <3>1 DEF Holds
    <3>. QED BY <3>2 DEF Elements
  <2>3. ASSUME NEW e \in Elements(s) PROVE e \in Elements(m)
    BY <1>8, <2>1 DEF Holds, Elements
  <2>4. ASSUME NEW e \in Elements(t) PROVE e \in Elements(m)
    BY <1>8, <2>1 DEF Holds, Elements
  <2>. QED BY <2>2, <2>3, <2>4
<1>. QED BY <1>6, <1>7, <1>9 DEF Joins

LEMMA MergeSorts ==
  ASSUME NEW full \in BOOLEAN, NEW X, Comparable(full, X), NEW s \in Seq(X), NEW t \in Seq(X),
         Sorted(s, full), Sorted(t, full), Disjoint(s, t)
  PROVE  Sorted(Merge(s, t, full), full)
<1>. DEFINE N == Len(s) + Len(t)
<1>1. Len(s) \in Nat /\ Len(t) \in Nat /\ N \in Nat
  OBVIOUS
<1>2. PICK f : /\ Merge(s, t, full) = f[N].list
               /\ f[0] = Nothing
               /\ \A k \in 1 .. N : f[k] = TakeOne(s, t, full, k, f[k - 1])
  BY <1>1, MergeSteps
<1>. DEFINE Good(k) == f[k].list \in Seq(X) /\ Merging(s, t, full, f[k].first, k - f[k].first, f[k].list)
            D == {k \in 0 .. N : ~Good(k)}
<1>3. D = {}
  <2>1. SUFFICES ASSUME D # {} PROVE FALSE
    <3>. HIDE DEF D
    <3>. QED OBVIOUS
  <2>2. PICK k \in D : \A n \in D : k <= n
    <3>1. D \subseteq Nat
      BY <1>1
    <3>. HIDE DEF D
    <3>. QED BY <2>1, <3>1, LeastNumber
  <2>3. k \in 0 .. N /\ ~Good(k)
    <3>. HIDE DEF Good, N
    <3>. QED OBVIOUS
  <2>4. Good(0)
    <3>1. f[0].first = 0 /\ f[0].list = << >> /\ << >> \in Seq(X)
      BY <1>2 DEF Nothing
    <3>2. Merging(s, t, full, 0, 0 - 0, << >>)
      BY <1>1 DEF Merging, Holds, InOrder, InFront
    <3>. QED BY <3>1, <3>2
  <2>5. k # 0
    <3>. HIDE DEF Good
    <3>. QED BY <2>3, <2>4
  <2>6. k \in 1 .. N /\ k - 1 \in 0 .. N /\ ~(k <= k - 1)
    BY <1>1, <2>3, <2>5
  <2>7. Good(k - 1)
    <3>1. k - 1 \notin D
      <4>. HIDE DEF D
      <4>. QED BY <2>2, <2>6
    <3>. HIDE DEF Good, N
    <3>. QED BY <2>6, <3>1
  <2>8. PICK taken : taken = f[k - 1]
    OBVIOUS
  <2>9. PICK more : more = f[k]
    OBVIOUS
  <2>10. more = TakeOne(s, t, full, k, taken)
    BY <1>2, <2>6, <2>8, <2>9
  <2>11. taken.list \in Seq(X) /\ Merging(s, t, full, taken.first, k - 1 - taken.first, taken.list)
    BY <2>7, <2>8
  <2>12. more.list \in Seq(X) /\ Merging(s, t, full, more.first, k - more.first, more.list)
    BY <2>6, <2>10, <2>11, MergeStep
  <2>. QED BY <2>3, <2>9, <2>12
<1>4. Good(N)
  <2>1. N \in 0 .. N
    BY <1>1
  <2>. HIDE DEF Good, N
  <2>. QED BY <1>3, <2>1
<1>5. PICK m : m = Merge(s, t, full)
  OBVIOUS
<1>6. PICK i : i = f[N].first
  OBVIOUS
<1>7. m \in Seq(X) /\ Merging(s, t, full, i, N - i, m)
  BY <1>2, <1>4, <1>5, <1>6
<1>8. i = Len(s) /\ N - i = Len(t) /\ Len(m) = N
  <2>1. i \in 0 .. Len(s) /\ N - i \in 0 .. Len(t) /\ Len(m) = i + (N - i)
    BY <1>7 DEF Merging, Holds
  <2>. QED BY <1>1, <2>1
<1>9. Merging(s, t, full, Len(s), Len(t), m)
  BY <1>7, <1>8
<1>10. DOMAIN m = 1 .. Len(s) + Len(t)
  BY <1>7, <1>8
<1>11. Sorted(m, full)
  BY <1>9, <1>10 DEF Merging, InOrder, Sorted
<1>. QED BY <1>5, <1>11

-------------------------------------------------------------------------------
(* Sorting.                                                                      *)

\* What the sorting function does with a list, given what it does with the halves.
Half(u) == Len(u) \div 2
FirstHalf(u) == SubSeq(u, 1, Half(u))
SecondHalf(u) == SubSeq(u, Half(u) + 1, Len(u))
SortOnce(f, u, full) == IF Len(u) <= 1 THEN u ELSE Merge(f[FirstHalf(u)], f[SecondHalf(u)], full)

LEMMA Halves ==
  ASSUME NEW X, NEW u \in Seq(X), Len(u) > 1
  PROVE  /\ Half(u) \in 1 .. Len(u) - 1
         /\ FirstHalf(u) \in Seq(X) /\ Len(FirstHalf(u)) = Half(u)
         /\ \A i \in 1 .. Half(u) : FirstHalf(u)[i] = u[i]
         /\ SecondHalf(u) \in Seq(X) /\ Len(SecondHalf(u)) = Len(u) - Half(u)
         /\ \A i \in 1 .. Len(u) - Half(u) : SecondHalf(u)[i] = u[Half(u) + i]
<1>1. PICK h : h = Half(u)
  OBVIOUS
<1>2. Len(u) \in Nat /\ h \in 1 .. Len(u) - 1
  BY <1>1 DEF Half
<1>3. /\ \A i \in 1 .. h : u[i] \in X
      /\ \A i \in h + 1 .. Len(u) : u[i] \in X
  BY <1>2
<1>4. /\ FirstHalf(u) \in Seq(X) /\ Len(FirstHalf(u)) = h
      /\ \A i \in 1 .. h : FirstHalf(u)[i] = u[i]
  <2>1. PICK v : v = SubSeq(u, 1, h)
    OBVIOUS
  <2>2. /\ v \in Seq(X) /\ Len(v) = IF 1 <= h THEN h - 1 + 1 ELSE 0
        /\ \A i \in 1 .. h - 1 + 1 : v[i] = u[1 + i - 1]
    BY <1>2, <1>3, <2>1, SubSeqProperties
  <2>3. v \in Seq(X) /\ Len(v) = h /\ \A i \in 1 .. h : v[i] = u[i]
    BY <1>2, <2>2
  <2>. QED BY <1>1, <2>1, <2>3 DEF FirstHalf
<1>5. /\ SecondHalf(u) \in Seq(X) /\ Len(SecondHalf(u)) = Len(u) - h
      /\ \A i \in 1 .. Len(u) - h : SecondHalf(u)[i] = u[h + i]
  <2>1. PICK v : v = SubSeq(u, h + 1, Len(u))
    OBVIOUS
  <2>2. PICK low \in Int : low = h + 1
    BY <1>2
  <2>3. /\ v \in Seq(X) /\ Len(v) = IF low <= Len(u) THEN Len(u) - low + 1 ELSE 0
        /\ \A i \in 1 .. Len(u) - low + 1 : v[i] = u[low + i - 1]
    BY <1>2, <1>3, <2>1, <2>2, SubSeqProperties
  <2>4. v \in Seq(X) /\ Len(v) = Len(u) - h /\ \A i \in 1 .. Len(u) - h : v[i] = u[h + i]
    BY <1>2, <2>2, <2>3
  <2>. QED BY <1>1, <2>1, <2>4 DEF SecondHalf
<1>. QED BY <1>1, <1>2, <1>4, <1>5

LEMMA HalvesHold ==
  ASSUME NEW X, NEW u \in Seq(X), Len(u) > 1
  PROVE  Elements(u) = Elements(FirstHalf(u)) \cup Elements(SecondHalf(u))
<1>1. PICK s1 : s1 = FirstHalf(u)
  OBVIOUS
<1>2. PICK s2 : s2 = SecondHalf(u)
  OBVIOUS
<1>3. PICK h : h = Half(u)
  OBVIOUS
<1>4. /\ h \in 1 .. Len(u) - 1
      /\ s1 \in Seq(X) /\ Len(s1) = h
      /\ \A i \in 1 .. h : s1[i] = u[i]
      /\ s2 \in Seq(X) /\ Len(s2) = Len(u) - h
      /\ \A i \in 1 .. Len(u) - h : s2[i] = u[h + i]
  BY <1>1, <1>2, <1>3, Halves
<1>5. /\ \A i \in 1 .. h : i \in 1 .. Len(u)
      /\ \A i \in 1 .. Len(u) - h : h + i \in 1 .. Len(u)
  BY <1>4
<1>6. ASSUME NEW e \in Elements(u)
      PROVE  e \in Elements(s1) \cup Elements(s2)
  <2>1. PICK i \in 1 .. Len(u) : e = u[i]
    BY DEF Elements
  <2>2. CASE i \in 1 .. h
    BY <1>4, <2>1, <2>2 DEF Elements
  <2>3. CASE ~(i \in 1 .. h)
    <3>1. i - h \in 1 .. Len(u) - h /\ h + (i - h) = i
      BY <1>4, <2>3
    <3>2. e = s2[i - h] /\ i - h \in 1 .. Len(s2)
      BY <1>4, <2>1, <3>1
    <3>. QED BY <3>2 DEF Elements
  <2>. QED BY <2>2, <2>3
<1>7. ASSUME NEW e \in Elements(s1)
      PROVE  e \in Elements(u)
  BY <1>4, <1>5 DEF Elements
<1>8. ASSUME NEW e \in Elements(s2)
      PROVE  e \in Elements(u)
  BY <1>4, <1>5 DEF Elements
<1>9. Elements(u) = Elements(s1) \cup Elements(s2)
  BY <1>6, <1>7, <1>8
<1>. QED BY <1>1, <1>2, <1>9

\* A function that sorts lists of up to n elements.
SortsUpto(f, n, full) == \A u \in Seq(Sortable) : Len(u) <= n => f[u] = SortOnce(f, u, full)

LEMMA SortUnique ==
  ASSUME NEW full, NEW m \in Nat, NEW n \in Nat, NEW f, NEW g,
         SortsUpto(f, m, full), SortsUpto(g, n, full)
  PROVE  \A u \in Seq(Sortable) : Len(u) <= m /\ Len(u) <= n => f[u] = g[u]
<1>. DEFINE Wrong(k) == \E u \in Seq(Sortable) : Len(u) = k /\ k <= m /\ k <= n /\ f[u] # g[u]
            D == {k \in Nat : Wrong(k)}
<1>1. D = {}
  <2>1. SUFFICES ASSUME D # {} PROVE FALSE
    <3>. HIDE DEF D
    <3>. QED OBVIOUS
  <2>2. PICK k \in D : \A i \in D : k <= i
    <3>1. D \subseteq Nat
      OBVIOUS
    <3>. HIDE DEF D
    <3>. QED BY <2>1, <3>1, LeastNumber
  <2>3. k \in Nat /\ Wrong(k)
    <3>. HIDE DEF Wrong
    <3>. QED OBVIOUS
  <2>4. PICK u \in Seq(Sortable) : Len(u) = k /\ k <= m /\ k <= n /\ f[u] # g[u]
    BY <2>3
  <2>5. ASSUME NEW v \in Seq(Sortable), Len(v) < k
        PROVE  f[v] = g[v]
    <3>1. Len(v) \in Nat /\ Len(v) <= m /\ Len(v) <= n /\ ~(k <= Len(v))
      BY <2>3, <2>4, <2>5
    <3>2. Len(v) \notin D
      <4>. HIDE DEF D
      <4>. QED BY <2>2, <3>1
    <3>3. ~Wrong(Len(v))
      <4>. HIDE DEF Wrong
      <4>. QED BY <3>1, <3>2
    <3>. QED BY <3>1, <3>3
  <2>6. f[u] = SortOnce(f, u, full) /\ g[u] = SortOnce(g, u, full)
    BY <2>4 DEF SortsUpto
  <2>7. CASE Len(u) <= 1
    BY <2>4, <2>6, <2>7 DEF SortOnce
  <2>8. CASE ~(Len(u) <= 1)
    <3>1. /\ FirstHalf(u) \in Seq(Sortable) /\ Len(FirstHalf(u)) < k
          /\ SecondHalf(u) \in Seq(Sortable) /\ Len(SecondHalf(u)) < k
      <4>1. Len(u) > 1 /\ Len(u) \in Nat
        BY <2>8
      <4>. QED BY <2>4, <4>1, Halves
    <3>2. f[FirstHalf(u)] = g[FirstHalf(u)] /\ f[SecondHalf(u)] = g[SecondHalf(u)]
      BY <2>5, <3>1
    <3>. QED BY <2>4, <2>6, <2>8, <3>2 DEF SortOnce
  <2>. QED BY <2>7, <2>8
<1>2. ASSUME NEW u \in Seq(Sortable), Len(u) <= m, Len(u) <= n
      PROVE  f[u] = g[u]
  <2>1. Len(u) \in Nat
    OBVIOUS
  <2>2. ~Wrong(Len(u))
    <3>. HIDE DEF Wrong
    <3>. QED BY <1>1, <2>1
  <2>. QED BY <1>2, <2>2
<1>. QED BY <1>2

LEMMA SortExists ==
  ASSUME NEW full, NEW n \in Nat
  PROVE  \E f : SortsUpto(f, n, full)
<1>. DEFINE D == {k \in Nat : ~\E f : SortsUpto(f, k, full)}
<1>1. D = {}
  <2>1. SUFFICES ASSUME D # {} PROVE FALSE
    <3>. HIDE DEF D
    <3>. QED OBVIOUS
  <2>2. PICK k \in D : \A i \in D : k <= i
    <3>1. D \subseteq Nat
      OBVIOUS
    <3>. HIDE DEF D
    <3>. QED BY <2>1, <3>1, LeastNumber
  <2>3. k \in Nat /\ ~\E f : SortsUpto(f, k, full)
    OBVIOUS
  <2>4. PICK f : \A u \in Seq(Sortable) : Len(u) < k => f[u] = SortOnce(f, u, full)
    <3>1. CASE k = 0
      <4>1. \A u \in Seq(Sortable) : ~(Len(u) < k)
        BY <3>1
      <4>. QED BY <4>1
    <3>2. CASE k # 0
      <4>1. k - 1 \in Nat /\ ~(k <= k - 1)
        BY <2>3, <3>2
      <4>2. k - 1 \notin D
        <5>. HIDE DEF D
        <5>. QED BY <2>2, <4>1
      <4>3. PICK f : SortsUpto(f, k - 1, full)
        BY <4>1, <4>2
      <4>4. \A u \in Seq(Sortable) : Len(u) < k => Len(u) <= k - 1
        BY <2>3
      <4>. QED BY <4>3, <4>4 DEF SortsUpto
    <3>. QED BY <3>1, <3>2
  <2>. DEFINE g == [u \in Seq(Sortable) |-> SortOnce(f, u, full)]
  <2>5. \A u \in Seq(Sortable) : g[u] = SortOnce(f, u, full)
    OBVIOUS
  <2>. HIDE DEF g, D
  <2>6. ASSUME NEW u \in Seq(Sortable), Len(u) <= k
        PROVE  g[u] = SortOnce(g, u, full)
    <3>1. CASE Len(u) <= 1
      BY <2>5, <3>1 DEF SortOnce
    <3>2. CASE ~(Len(u) <= 1)
      <4>1. Len(u) > 1 /\ Len(u) \in Nat
        BY <3>2
      <4>2. /\ FirstHalf(u) \in Seq(Sortable) /\ Len(FirstHalf(u)) < k
            /\ SecondHalf(u) \in Seq(Sortable) /\ Len(SecondHalf(u)) < k
        BY <2>3, <2>6, <4>1, Halves
      <4>3. g[FirstHalf(u)] = f[FirstHalf(u)] /\ g[SecondHalf(u)] = f[SecondHalf(u)]
        BY <2>4, <2>5, <4>2
      <4>4. SortOnce(f, u, full) = SortOnce(g, u, full)
        BY <4>3 DEF SortOnce
      <4>. QED BY <2>5, <4>4
    <3>. QED BY <3>1, <3>2
  <2>7. SortsUpto(g, k, full)
    BY <2>6 DEF SortsUpto
  <2>. QED BY <2>3, <2>7
<1>. QED BY <1>1

\* The sorting function is what its recursion says.
LEMMA SortListOf ==
  ASSUME NEW full
  PROVE  \E f : /\ \A u \in Seq(Sortable) : f[u] = SortOnce(f, u, full)
                /\ \A u \in Seq(Sortable) : SortList(u, full) = f[u]
<1>. DEFINE F == [n \in Nat |-> CHOOSE f : SortsUpto(f, n, full)]
            g == [u \in Seq(Sortable) |-> F[Len(u)][u]]
            IsSort(f) == f = [u \in Seq(Sortable) |-> SortOnce(f, u, full)]
            sorted == CHOOSE f : IsSort(f)
<1>1. \A n \in Nat : SortsUpto(F[n], n, full)
  BY SortExists
<1>2. \A u \in Seq(Sortable) : g[u] = F[Len(u)][u] /\ Len(u) \in Nat
  OBVIOUS
<1>3. g = [u \in Seq(Sortable) |-> g[u]]
  OBVIOUS
<1>. HIDE DEF F, g
<1>4. ASSUME NEW u \in Seq(Sortable)
      PROVE  g[u] = SortOnce(g, u, full)
  <2>1. F[Len(u)][u] = SortOnce(F[Len(u)], u, full)
    BY <1>1, <1>2 DEF SortsUpto
  <2>2. CASE Len(u) <= 1
    BY <1>2, <2>1, <2>2 DEF SortOnce
  <2>3. CASE ~(Len(u) <= 1)
    <3>1. Len(u) > 1 /\ Len(u) \in Nat
      BY <2>3
    <3>2. /\ FirstHalf(u) \in Seq(Sortable) /\ Len(FirstHalf(u)) < Len(u)
          /\ SecondHalf(u) \in Seq(Sortable) /\ Len(SecondHalf(u)) < Len(u)
      BY <3>1, Halves
    <3>3. ASSUME NEW v \in Seq(Sortable), Len(v) < Len(u)
          PROVE  F[Len(u)][v] = g[v]
      <4>1. Len(v) \in Nat /\ Len(v) <= Len(v) /\ Len(v) <= Len(u)
        BY <3>1, <3>3
      <4>2. F[Len(u)][v] = F[Len(v)][v]
        <5>1. SortsUpto(F[Len(u)], Len(u), full) /\ SortsUpto(F[Len(v)], Len(v), full)
          BY <1>1, <3>1, <4>1
        <5>2. PICK f1 : f1 = F[Len(u)]
          OBVIOUS
        <5>3. PICK f2 : f2 = F[Len(v)]
          OBVIOUS
        <5>4. SortsUpto(f1, Len(u), full) /\ SortsUpto(f2, Len(v), full)
          BY <5>1, <5>2, <5>3
        <5>5. f1[v] = f2[v]
          BY <3>1, <4>1, <5>4, SortUnique
        <5>. QED BY <5>2, <5>3, <5>5
      <4>. QED BY <1>2, <4>2
    <3>4. SortOnce(F[Len(u)], u, full) = SortOnce(g, u, full)
      BY <3>2, <3>3 DEF SortOnce
    <3>. QED BY <1>2, <2>1, <3>4
  <2>. QED BY <2>2, <2>3
<1>5. IsSort(g)
  BY <1>3, <1>4
<1>6. IsSort(sorted)
  <2>. HIDE DEF IsSort
  <2>. QED BY <1>5
<1>7. \A u \in Seq(Sortable) : sorted[u] = SortOnce(sorted, u, full)
  <2>. HIDE DEF sorted
  <2>. QED BY <1>6
<1>8. \A u \in Seq(Sortable) : SortList(u, full) = sorted[u]
  BY DEF SortList, SortOnce, FirstHalf, SecondHalf, Half, Sortable
<1>. HIDE DEF sorted
<1>. QED BY <1>7, <1>8

\* No event is there twice.
Distinct(s) == \A i, j \in 1 .. Len(s) : Key(s[i]) = Key(s[j]) => i = j

LEMMA SortedIsDistinct ==
  ASSUME NEW s \in Seq(Events), Sorted(s, FALSE)
  PROVE  Distinct(s)
<1>1. ASSUME NEW e \in Events, NEW f \in Events, Earlier(e, f)
      PROVE  Key(e) # Key(f)
  <2>1. e.proc \in Int /\ e.id \in Int
    BY SizeAssumption DEF Events, Ranks
  <2>. QED BY <1>1, <2>1 DEF Earlier, Key
<1>2. ASSUME NEW i \in 1 .. Len(s), NEW j \in 1 .. Len(s), Key(s[i]) = Key(s[j])
      PROVE  i = j
  <2>1. s[i] \in Events /\ s[j] \in Events /\ i \in DOMAIN s /\ j \in DOMAIN s /\ i \in Int /\ j \in Int
    OBVIOUS
  <2>2. ~(i < j)
    <3>1. i < j => Earlier(s[i], s[j])
      BY <2>1 DEF Sorted, Less
    <3>. QED BY <1>1, <1>2, <2>1, <3>1
  <2>3. ~(j < i)
    <3>1. j < i => Earlier(s[j], s[i])
      BY <2>1 DEF Sorted, Less
    <3>. QED BY <1>1, <1>2, <2>1, <3>1
  <2>. QED BY <2>1, <2>2, <2>3
<1>. QED BY <1>2 DEF Distinct

LEMMA SortSorts ==
  ASSUME NEW full \in BOOLEAN, NEW X, Comparable(full, X), NEW s \in Seq(X), Distinct(s)
  PROVE  /\ SortList(s, full) \in Seq(X)
         /\ Sorted(SortList(s, full), full)
         /\ Elements(SortList(s, full)) = Elements(s)
<1>1. PICK f : /\ \A u \in Seq(Sortable) : f[u] = SortOnce(f, u, full)
               /\ \A u \in Seq(Sortable) : SortList(u, full) = f[u]
  BY SortListOf
<1>2. \A u \in Seq(X) : u \in Seq(Sortable)
  <2>1. X \subseteq Sortable
    BY DEF Comparable
  <2>. QED BY <2>1
<1>. DEFINE Good(u) == f[u] \in Seq(X) /\ Sorted(f[u], full) /\ Elements(f[u]) = Elements(u)
            Wrong(n) == \E u \in Seq(X) : Len(u) = n /\ Distinct(u) /\ ~Good(u)
            D == {n \in Nat : Wrong(n)}
<1>3. D = {}
  <2>1. SUFFICES ASSUME D # {} PROVE FALSE
    <3>. HIDE DEF D
    <3>. QED OBVIOUS
  <2>2. PICK n \in D : \A k \in D : n <= k
    <3>1. D \subseteq Nat
      OBVIOUS
    <3>. HIDE DEF D
    <3>. QED BY <2>1, <3>1, LeastNumber
  <2>3. n \in Nat /\ Wrong(n)
    <3>. HIDE DEF Wrong
    <3>. QED OBVIOUS
  <2>. HIDE DEF Good
  <2>4. PICK u \in Seq(X) : Len(u) = n /\ Distinct(u) /\ ~Good(u)
    BY <2>3
  <2>5. ASSUME NEW v \in Seq(X), Len(v) < n, Distinct(v)
        PROVE  Good(v)
    <3>1. Len(v) \in Nat /\ ~(n <= Len(v))
      BY <2>3, <2>5
    <3>2. Len(v) \notin D
      <4>. HIDE DEF D
      <4>. QED BY <2>2, <3>1
    <3>3. ~Wrong(Len(v))
      <4>. HIDE DEF Wrong
      <4>. QED BY <3>1, <3>2
    <3>. QED BY <2>5, <3>3
  <2>6. f[u] = SortOnce(f, u, full)
    BY <1>1, <1>2
  <2>7. CASE Len(u) <= 1
    <3>1. f[u] = u
      BY <2>6, <2>7 DEF SortOnce
    <3>2. \A i, j \in DOMAIN u : ~(i < j)
      BY <2>7
    <3>3. Sorted(u, full)
      BY <3>2 DEF Sorted
    <3>. QED BY <2>4, <3>1, <3>3 DEF Good
  <2>8. CASE ~(Len(u) <= 1)
    <3>1. PICK s1 : s1 = FirstHalf(u)
      OBVIOUS
    <3>2. PICK s2 : s2 = SecondHalf(u)
      OBVIOUS
    <3>3. PICK h : h = Half(u)
      OBVIOUS
    <3>4. Len(u) > 1 /\ Len(u) \in Nat
      BY <2>8
    <3>5. /\ h \in 1 .. Len(u) - 1
          /\ s1 \in Seq(X) /\ Len(s1) = h
          /\ \A i \in 1 .. h : s1[i] = u[i]
          /\ s2 \in Seq(X) /\ Len(s2) = Len(u) - h
          /\ \A i \in 1 .. Len(u) - h : s2[i] = u[h + i]
      BY <3>1, <3>2, <3>3, <3>4, Halves
    <3>6. \A i \in 1 .. h : i \in 1 .. Len(u)
      BY <3>4, <3>5
    <3>7. \A i \in 1 .. Len(u) - h : h + i \in 1 .. Len(u) /\ ~(h + i \in 1 .. h)
      BY <3>4, <3>5
    <3>8. Distinct(s1)
      BY <2>4, <3>5, <3>6 DEF Distinct
    <3>9. Distinct(s2)
      <4>1. ASSUME NEW i \in 1 .. Len(s2), NEW j \in 1 .. Len(s2), Key(s2[i]) = Key(s2[j])
            PROVE  i = j
        <5>1. h + i = h + j
          BY <2>4, <3>5, <3>7, <4>1 DEF Distinct
        <5>. QED BY <3>5, <5>1
      <4>. QED BY <4>1 DEF Distinct
    <3>10. Len(s1) < n /\ Len(s2) < n
      BY <2>4, <3>4, <3>5
    <3>11. Good(s1) /\ Good(s2)
      BY <2>5, <3>5, <3>8, <3>9, <3>10
    <3>12. PICK t1 : t1 = f[s1]
      OBVIOUS
    <3>13. PICK t2 : t2 = f[s2]
      OBVIOUS
    <3>14. /\ t1 \in Seq(X) /\ Sorted(t1, full) /\ Elements(t1) = Elements(s1)
           /\ t2 \in Seq(X) /\ Sorted(t2, full) /\ Elements(t2) = Elements(s2)
      BY <3>11, <3>12, <3>13 DEF Good
    <3>15. Disjoint(t1, t2)
      <4>1. ASSUME NEW i \in 1 .. Len(t1), NEW j \in 1 .. Len(t2)
            PROVE  Key(t1[i]) # Key(t2[j])
        <5>1. t1[i] \in Elements(s1) /\ t2[j] \in Elements(s2)
          BY <3>14 DEF Elements
        <5>2. PICK a \in 1 .. h : t1[i] = u[a]
          BY <3>5, <5>1 DEF Elements
        <5>3. PICK b \in 1 .. Len(u) - h : t2[j] = u[h + b]
          BY <3>5, <5>1 DEF Elements
        <5>4. a \in 1 .. Len(u) /\ h + b \in 1 .. Len(u) /\ a # h + b
          BY <3>6, <3>7
        <5>. QED BY <2>4, <5>2, <5>3, <5>4 DEF Distinct
      <4>. QED BY <4>1 DEF Disjoint
    <3>16. PICK m : m = Merge(t1, t2, full)
      OBVIOUS
    <3>17. m \in Seq(X) /\ Sorted(m, full) /\ Elements(m) = Elements(s1) \cup Elements(s2)
      <4>1. Sorted(m, full)
        BY <3>14, <3>15, <3>16, MergeSorts
      <4>2. t1 \in Seq(X) /\ t2 \in Seq(X)
        BY <3>14
      <4>3. m \in Seq(X) /\ Elements(m) = Elements(t1) \cup Elements(t2)
        <5>1. m \in Seq(X) /\ Joins(m, t1, t2)
          BY <3>16, <4>2, MergeHolds
        <5>. QED BY <5>1 DEF Joins
      <4>. QED BY <3>14, <4>1, <4>3
    <3>18. Elements(u) = Elements(s1) \cup Elements(s2)
      BY <3>1, <3>2, <3>4, HalvesHold
    <3>19. f[u] = m
      BY <2>6, <2>8, <3>1, <3>2, <3>12, <3>13, <3>16 DEF SortOnce
    <3>. QED BY <2>4, <3>17, <3>18, <3>19 DEF Good
  <2>. QED BY <2>7, <2>8
<1>4. Good(s)
  <2>1. Len(s) \in Nat
    OBVIOUS
  <2>2. ~Wrong(Len(s))
    <3>. HIDE DEF Wrong
    <3>. QED BY <1>3, <2>1
  <2>. HIDE DEF Good
  <2>. QED BY <2>2
<1>5. SortList(s, full) = f[s]
  BY <1>1, <1>2
<1>. QED BY <1>4, <1>5

\* A sorted list has what the list had, even where the order is none.
LEMMA SortKeeps ==
  ASSUME NEW full, NEW X, X \subseteq Sortable, NEW s \in Seq(X)
  PROVE  /\ SortList(s, full) \in Seq(X) /\ Len(SortList(s, full)) = Len(s)
         /\ Elements(SortList(s, full)) = Elements(s)
<1>1. PICK f : /\ \A u \in Seq(Sortable) : f[u] = SortOnce(f, u, full)
               /\ \A u \in Seq(Sortable) : SortList(u, full) = f[u]
  BY SortListOf
<1>2. \A u \in Seq(X) : u \in Seq(Sortable)
  OBVIOUS
<1>. DEFINE Good(u) == f[u] \in Seq(X) /\ Len(f[u]) = Len(u) /\ Elements(f[u]) = Elements(u)
            Wrong(n) == \E u \in Seq(X) : Len(u) = n /\ ~Good(u)
            D == {n \in Nat : Wrong(n)}
<1>3. D = {}
  <2>1. SUFFICES ASSUME D # {} PROVE FALSE
    <3>. HIDE DEF D
    <3>. QED OBVIOUS
  <2>2. PICK n \in D : \A k \in D : n <= k
    <3>1. D \subseteq Nat
      OBVIOUS
    <3>. HIDE DEF D
    <3>. QED BY <2>1, <3>1, LeastNumber
  <2>3. n \in Nat /\ Wrong(n)
    <3>. HIDE DEF Wrong
    <3>. QED OBVIOUS
  <2>. HIDE DEF Good
  <2>4. PICK u \in Seq(X) : Len(u) = n /\ ~Good(u)
    BY <2>3
  <2>5. ASSUME NEW v \in Seq(X), Len(v) < n
        PROVE  Good(v)
    <3>1. Len(v) \in Nat /\ ~(n <= Len(v))
      BY <2>3, <2>5
    <3>2. Len(v) \notin D
      <4>. HIDE DEF D
      <4>. QED BY <2>2, <3>1
    <3>3. ~Wrong(Len(v))
      <4>. HIDE DEF Wrong
      <4>. QED BY <3>1, <3>2
    <3>. QED BY <2>5, <3>3
  <2>6. f[u] = SortOnce(f, u, full)
    BY <1>1, <1>2
  <2>7. CASE Len(u) <= 1
    BY <2>4, <2>6, <2>7 DEF SortOnce, Good
  <2>8. CASE ~(Len(u) <= 1)
    <3>1. PICK s1 : s1 = FirstHalf(u)
      OBVIOUS
    <3>2. PICK s2 : s2 = SecondHalf(u)
      OBVIOUS
    <3>3. Len(u) > 1 /\ Len(u) \in Nat
      BY <2>8
    <3>4. /\ s1 \in Seq(X) /\ Len(s1) < n /\ s2 \in Seq(X) /\ Len(s2) < n
          /\ Len(s1) + Len(s2) = Len(u)
      BY <2>4, <3>1, <3>2, <3>3, Halves
    <3>5. Good(s1) /\ Good(s2)
      BY <2>5, <3>4
    <3>6. PICK t1 : t1 = f[s1]
      OBVIOUS
    <3>7. PICK t2 : t2 = f[s2]
      OBVIOUS
    <3>8. /\ t1 \in Seq(X) /\ Len(t1) = Len(s1) /\ Elements(t1) = Elements(s1)
          /\ t2 \in Seq(X) /\ Len(t2) = Len(s2) /\ Elements(t2) = Elements(s2)
      BY <3>5, <3>6, <3>7 DEF Good
    <3>9. PICK m : m = Merge(t1, t2, full)
      OBVIOUS
    <3>10. m \in Seq(X) /\ Len(m) = Len(u) /\ Elements(m) = Elements(s1) \cup Elements(s2)
      <4>1. t1 \in Seq(X) /\ t2 \in Seq(X)
        BY <3>8
      <4>2. /\ m \in Seq(X) /\ Len(m) = Len(t1) + Len(t2)
            /\ Elements(m) = Elements(t1) \cup Elements(t2)
        <5>1. m \in Seq(X) /\ Joins(m, t1, t2)
          BY <3>9, <4>1, MergeHolds
        <5>. QED BY <5>1 DEF Joins
      <4>. QED BY <3>4, <3>8, <4>2
    <3>11. Elements(u) = Elements(s1) \cup Elements(s2)
      BY <3>1, <3>2, <3>3, HalvesHold
    <3>12. f[u] = m
      BY <2>6, <2>8, <3>1, <3>2, <3>6, <3>7, <3>9 DEF SortOnce
    <3>. QED BY <2>4, <3>10, <3>11, <3>12 DEF Good
  <2>. QED BY <2>7, <2>8
<1>4. Good(s)
  <2>1. Len(s) \in Nat
    OBVIOUS
  <2>2. ~Wrong(Len(s))
    <3>. HIDE DEF Wrong
    <3>. QED BY <1>3, <2>1
  <2>. HIDE DEF Good
  <2>. QED BY <2>2
<1>5. SortList(s, full) = f[s]
  BY <1>1, <1>2
<1>. QED BY <1>4, <1>5

-------------------------------------------------------------------------------
(* The invariant: that of the gather functions, which sorting keeps, as the        *)
(* sorted list holds the same events; every event has a name; and the lists that  *)
(* were printed are sorted.                                                        *)

HasName(e) == \A names \in Namings : e.id \in DOMAIN names
NamedInv ==
  \A r \in Ranks : \A p \in EventPhases : \A i \in 1 .. Count(r, p) : HasName(list[r][p][i])

StepInv ==
  /\ step \in {"gather", "time", "coretime", "export", "end"}
  /\ step # "gather" => phase[MASTER] = DONE /\ naming \in Namings
  /\ step # "end" => doc = NoDoc

SortedInv ==
  /\ step = "coretime" => Sorted(list[MASTER][1], FALSE)
  /\ step \in {"export", "end"} =>
       options.silent \/ (Sorted(list[MASTER][1], FALSE) /\ Sorted(list[MASTER][2], FALSE))

RInv == IInv /\ NamedInv /\ StepInv /\ SortedInv

LEMMA InitRInv == RInit => RInv
<1> SUFFICES ASSUME RInit PROVE RInv
  OBVIOUS
<1>1. IInv
  BY InitInv DEF RInit
<1>2. PICK load \in Loads : list = [r \in Ranks |-> [p \in EventPhases |-> Made(r, load[r][p])]]
  BY DEF RInit, Init
<1>3. ASSUME NEW r \in Ranks, NEW p \in EventPhases, NEW i \in 1 .. Count(r, p)
      PROVE  HasName(list[r][p][i])
  <2>1. PICK ids \in Seq(Nat) : /\ ids = load[r][p]
                                /\ \A k \in 1 .. Len(ids) : ids[k] \in 0 .. Len(ids) - 1
    BY LeftLists
  <2>2. list[r][p] = Made(r, ids)
    BY <1>2, <2>1
  <2>3. i \in 1 .. Len(ids) /\ list[r][p][i].id = ids[i]
    BY <2>2, MadeList DEF Count
  <2>4. list[r][p][i].id \in 0 .. Len(ids) - 1
    BY <2>1, <2>3
  <2>5. \A names \in Namings : 0 .. Len(ids) - 1 \subseteq DOMAIN names
    BY <2>1, NamedAssumption
  <2>. QED BY <2>4, <2>5 DEF HasName
<1>4. step = "gather" /\ doc = NoDoc
  BY DEF RInit
<1>. QED BY <1>1, <1>3, <1>4 DEF RInv, NamedInv, StepInv, SortedInv

\* The gather functions, and the senders that return while the master reports.
LEMMA GatherNames ==
  ASSUME IInv, NamedInv, Next
  PROVE  NamedInv'
<1>1. \A r \in Senders : list'[r] = list[r]
  BY SendersKept DEF IInv
<1>2. CASE ~RecvEvent
  <2>1. list' = list
    BY <1>2, TakenOnlyByEvent
  <2>. QED BY <2>1 DEF NamedInv, Count, HasName
<1>3. CASE RecvEvent
  <2>1. PICK p \in EventPhases : p = phase[MASTER]
    BY <1>3, NextEvent
  <2>2. /\ from \in Senders /\ got + 1 \in 1 .. Count(from, p) /\ list[from][p][got + 1] \in Events
        /\ \E e \in Received(p, list[from][p][got + 1]) : list' = [list EXCEPT ![MASTER][p] = << e >> \o @]
    BY <1>3, <2>1, NextEvent
  <2>3. PICK e \in Received(p, list[from][p][got + 1]) : list' = [list EXCEPT ![MASTER][p] = << e >> \o @]
    BY <2>2
  <2>4. e \in Events /\ Key(e) = Key(list[from][p][got + 1])
    BY <2>2, EventsReceived
  <2>5. HasName(e)
    <3>1. HasName(list[from][p][got + 1])
      BY <2>2, RankTypes DEF NamedInv
    <3>2. e.id = list[from][p][got + 1].id
      BY <2>4 DEF Key
    <3>. QED BY <3>1, <3>2 DEF HasName
  <2>6. /\ \A k \in EventPhases \ {p} : list'[MASTER][k] = list[MASTER][k]
        /\ Count(MASTER, p)' = Count(MASTER, p) + 1
        /\ list'[MASTER][p][1] = e
        /\ \A i \in 1 .. Count(MASTER, p) : list'[MASTER][p][i + 1] = list[MASTER][p][i]
    BY <2>3, <2>4, ListGrows
  <2>7. ASSUME NEW r \in Ranks, NEW q \in EventPhases, list'[r][q] = list[r][q],
               NEW i \in 1 .. Count(r, q)'
        PROVE  HasName(list[r][q][i])'
    BY <2>7 DEF NamedInv, Count, HasName
  <2>8. ASSUME NEW i \in 1 .. Count(MASTER, p)'
        PROVE  HasName(list[MASTER][p][i])'
    <3>1. Count(MASTER, p) \in Nat
      BY RankTypes, Counts DEF IInv
    <3>2. CASE i = 1
      BY <2>5, <2>6, <3>2 DEF HasName
    <3>3. CASE i # 1
      <4>1. i - 1 \in 1 .. Count(MASTER, p) /\ (i - 1) + 1 = i
        BY <2>6, <3>1, <3>3
      <4>2. list'[MASTER][p][i] = list[MASTER][p][i - 1]
        BY <2>6, <4>1
      <4>. QED BY <4>1, <4>2, RankTypes DEF NamedInv, HasName
    <3>. QED BY <3>2, <3>3
  <2>9. \A r \in Ranks : r = MASTER \/ r \in Senders
    BY DEF Senders
  <2>. QED BY <1>1, <2>6, <2>7, <2>8, <2>9 DEF NamedInv
<1>. QED BY <1>2, <1>3

\* Once the master has returned, its lists stand.
LEMMA ListsStand ==
  ASSUME RInv, GatherStep, step # "gather"
  PROVE  list' = list /\ phase'[MASTER] = phase[MASTER]
<1>1. phase[MASTER] = DONE
  BY DEF RInv, StepInv
<1>2. ~MasterStep
  BY <1>1 DEF MasterStep, RecvNum, RecvEvent, NextSender, RecvSucceed, RecvFail, MasterReturns,
              EventPhases, STATS, DONE
<1>3. PICK r \in Senders : SenderStep(r)
  BY <1>2 DEF GatherStep
<1>. QED BY <1>3, RankTypes DEF RInv, IInv, TypeOK, SenderStep, SendNum, SendEvent, SendStats,
                                SenderReturns, Send

LEMMA GatherOn ==
  ASSUME RInv, GatherStep
  PROVE  RInv'
<1>1. Next /\ UNCHANGED << options, naming, step, doc >>
  BY DEF GatherStep, Next
<1>2. IInv' /\ NamedInv'
  BY <1>1, NextInv, GatherNames DEF RInv
<1>3. CASE step = "gather"
  BY <1>1, <1>2, <1>3 DEF RInv, StepInv, SortedInv
<1>4. CASE step # "gather"
  <2>1. list' = list /\ phase'[MASTER] = phase[MASTER]
    BY <1>4, ListsStand
  <2>2. StepInv'
    BY <1>1, <1>4, <2>1 DEF RInv, StepInv
  <2>3. SortedInv'
    BY <1>1, <2>1 DEF RInv, SortedInv, Sorted, Less, Earlier
  <2>. QED BY <1>2, <2>2, <2>3 DEF RInv
<1>. QED BY <1>3, <1>4

\* A list of the master is exchanged for one with the same events.
LEMMA ListSorted ==
  ASSUME IInv, NamedInv, NEW p \in EventPhases, NEW m \in Seq(Events), Distinct(m),
         Elements(m) = Elements(list[MASTER][p]),
         list' = [list EXCEPT ![MASTER][p] = m],
         UNCHANGED << capacity, stats, phase, next, chan, masterVars >>
  PROVE  /\ IInv' /\ NamedInv'
         /\ list'[MASTER][p] = m /\ \A q \in EventPhases \ {p} : list'[MASTER][q] = list[MASTER][q]
<1>. USE DEF IInv
<1>1. MASTER \in Ranks /\ list \in [Ranks -> [EventPhases -> Seq(Events)]]
  BY RankTypes DEF TypeOK
<1>2. /\ list'[MASTER][p] = m
      /\ \A q \in EventPhases \ {p} : list'[MASTER][q] = list[MASTER][q]
      /\ \A r \in Senders : list'[r] = list[r]
      /\ list' \in [Ranks -> [EventPhases -> Seq(Events)]]
  BY <1>1 DEF Senders
<1>3. /\ capacity' = capacity /\ stats' = stats /\ phase' = phase /\ next' = next /\ chan' = chan
      /\ from' = from /\ num' = num /\ got' = got /\ sSucceed' = sSucceed
  BY DEF masterVars
<1>4. TypeOK'
  BY <1>2, <1>3 DEF TypeOK
<1>5. \A r \in Senders : /\ \A q : Count(r, q)' = Count(r, q)
                         /\ \A q : Before(r, q)' = Before(r, q)
                         /\ \A k : Message(r, k)' = Message(r, k)
  BY <1>2, <1>3, StreamFrame
<1>6. LoopInv'
  <2>1. num # None => from \in Senders
    BY MasterTypes DEF LoopInv
  <2>2. sSucceed # None => from \in Senders
    BY MasterTypes DEF LoopInv
  <2>. QED BY <1>3, <1>5, <2>1, <2>2 DEF LoopInv
<1>7. MadeInv'
  BY <1>2, <1>5 DEF MadeInv
<1>8. ChanInv'
  BY <1>3, <1>5 DEF ChanInv, SentBy, TakenOf
<1>9. \A r \in Senders : \A q \in EventPhases : Taken(r, q)' = Taken(r, q)
  BY <1>2, <1>3 DEF Taken
<1>10. /\ Count(MASTER, p)' = Len(m)
       /\ Elements(m) = {list[MASTER][p][i] : i \in 1 .. Count(MASTER, p)}
  BY <1>2 DEF Count, Elements
<1>11. /\ \A i \in 1 .. Len(m) : \E k \in 1 .. Count(MASTER, p) : m[i] = list[MASTER][p][k]
       /\ \A k \in 1 .. Count(MASTER, p) : \E i \in 1 .. Len(m) : m[i] = list[MASTER][p][k]
  BY <1>10 DEF Elements
<1>12. ASSUME NEW q \in EventPhases
       PROVE  NoneTwice(q)' /\ \A r \in Senders : NoneInvented(r, q)' /\ NoneLost(r, q)'
  <2>1. NoneTwice(q) /\ \A r \in Senders : NoneInvented(r, q) /\ NoneLost(r, q)
    BY DEF HaveInv
  <2>2. CASE q # p
    <3>1. list'[MASTER][q] = list[MASTER][q] /\ Count(MASTER, q)' = Count(MASTER, q)
      BY <1>2, <2>2 DEF Count
    <3>2. NoneTwice(q)'
      BY <2>1, <3>1 DEF NoneTwice, Key
    <3>3. ASSUME NEW r \in Senders
          PROVE  NoneInvented(r, q)' /\ NoneLost(r, q)'
      <4>1. /\ list'[r][q] = list[r][q] /\ Taken(r, q)' = Taken(r, q) /\ Count(r, q)' = Count(r, q)
            /\ NoneInvented(r, q) /\ NoneLost(r, q)
        BY <1>2, <1>5, <1>9, <2>1
      <4>2. NoneInvented(r, q)'
        BY <3>1, <4>1 DEF NoneInvented
      <4>3. NoneLost(r, q)'
        BY <3>1, <4>1 DEF NoneLost, Key
      <4>. QED BY <4>2, <4>3
    <3>. QED BY <3>2, <3>3
  <2>3. CASE q = p
    <3>1. NoneTwice(p)'
      BY <1>2, <1>10 DEF NoneTwice, Distinct, Key
    <3>2. ASSUME NEW r \in Senders
          PROVE  NoneInvented(r, p)'
      <4>1. ASSUME NEW i \in 1 .. Len(m), m[i].proc = r
            PROVE  \E j \in 1 .. Taken(r, p) : j <= Count(r, p) /\ list[r][p][j].id = m[i].id
        <5>1. PICK k \in 1 .. Count(MASTER, p) : m[i] = list[MASTER][p][k]
          BY <1>11
        <5>. QED BY <2>1, <2>3, <4>1, <5>1 DEF NoneInvented
      <4>. QED BY <1>2, <1>5, <1>9, <1>10, <4>1 DEF NoneInvented
    <3>3. ASSUME NEW r \in Senders
          PROVE  NoneLost(r, p)'
      <4>1. ASSUME NEW j \in 1 .. Taken(r, p)
            PROVE  \E i \in 1 .. Len(m) : Key(m[i]) = Key(list[r][p][j])
        <5>1. PICK k \in 1 .. Count(MASTER, p) : Key(list[MASTER][p][k]) = Key(list[r][p][j])
          BY <2>1, <2>3 DEF NoneLost
        <5>2. PICK i \in 1 .. Len(m) : m[i] = list[MASTER][p][k]
          BY <1>11
        <5>. QED BY <5>1, <5>2
      <4>2. \A j \in 1 .. Taken(r, p)' : \E i \in 1 .. Count(MASTER, p)' : Key(m[i]) = Key(list'[r][p][j])
        BY <1>2, <1>9, <1>10, <4>1
      <4>3. \A j \in 1 .. Taken(r, p)' : \E i \in 1 .. Count(MASTER, p)' :
              Key(list'[MASTER][p][i]) = Key(list'[r][p][j])
        BY <1>2, <4>2
      <4>. QED BY <4>3 DEF NoneLost, Key
    <3>. QED BY <2>3, <3>1, <3>2, <3>3
  <2>. QED BY <2>2, <2>3
<1>13. HaveInv'
  BY <1>12 DEF HaveInv
<1>14. NamedInv'
  <2>1. ASSUME NEW r \in Ranks, NEW q \in EventPhases, list'[r][q] = list[r][q],
               NEW i \in 1 .. Count(r, q)'
        PROVE  HasName(list[r][q][i])'
    BY <2>1 DEF NamedInv, Count, HasName
  <2>2. ASSUME NEW i \in 1 .. Count(MASTER, p)'
        PROVE  HasName(list[MASTER][p][i])'
    <3>1. PICK k \in 1 .. Count(MASTER, p) : m[i] = list[MASTER][p][k]
      BY <1>10, <1>11
    <3>2. HasName(list[MASTER][p][k])
      BY <1>1 DEF NamedInv
    <3>. QED BY <1>2, <3>1, <3>2 DEF HasName
  <2>3. \A r \in Ranks : r = MASTER \/ r \in Senders
    BY DEF Senders
  <2>. QED BY <1>2, <2>1, <2>2, <2>3 DEF NamedInv
<1>. QED BY <1>2, <1>4, <1>6, <1>7, <1>8, <1>13, <1>14

LEMMA SortForKeeps ==
  ASSUME RInv, NEW p \in EventPhases, SortFor(p)
  PROVE  /\ IInv' /\ NamedInv' /\ phase' = phase
         /\ Sorted(list'[MASTER][p], FALSE)
         /\ Elements(list'[MASTER][p]) = Elements(list[MASTER][p])
         /\ \A q \in EventPhases \ {p} : list'[MASTER][q] = list[MASTER][q]
<1>1. PICK s : s = list[MASTER][p]
  OBVIOUS
<1>2. PICK m : m = SortList(s, FALSE)
  OBVIOUS
<1>3. IInv /\ NamedInv
  BY DEF RInv
<1>4. s \in Seq(Events) /\ Len(s) = Count(MASTER, p)
  BY <1>1, <1>3, RankTypes, Counts DEF IInv, Count
<1>5. Distinct(s)
  BY <1>1, <1>3, <1>4 DEF IInv, HaveInv, NoneTwice, Distinct
<1>6. Comparable(FALSE, Events)
  BY DEF Comparable, Sortable
<1>7. m \in Seq(Events) /\ Sorted(m, FALSE) /\ Elements(m) = Elements(s)
  BY <1>2, <1>4, <1>5, <1>6, SortSorts
<1>8. Distinct(m)
  BY <1>7, SortedIsDistinct
<1>9. list \in [Ranks -> [EventPhases -> Seq(Events)]] /\ MASTER \in Ranks
  BY <1>3, RankTypes DEF IInv, TypeOK
<1>10. list' = [list EXCEPT ![MASTER][p] = SortList(@, FALSE)]
  BY DEF SortFor
<1>11. list' = [list EXCEPT ![MASTER][p] = m]
  BY <1>1, <1>2, <1>9, <1>10
<1>12. UNCHANGED << capacity, stats, phase, next, chan, masterVars >>
  BY DEF SortFor
<1>13. /\ IInv' /\ NamedInv'
       /\ list'[MASTER][p] = m /\ \A q \in EventPhases \ {p} : list'[MASTER][q] = list[MASTER][q]
  BY <1>1, <1>3, <1>7, <1>8, <1>11, <1>12, ListSorted
<1>. QED BY <1>1, <1>7, <1>12, <1>13

LEMMA ReportKeeps ==
  ASSUME RInv, iiTimeReport \/ iiCoreTimeReport
  PROVE  RInv'
<1>1. CASE iiTimeReport
  <2>1. step = "time" /\ step' = "coretime" /\ SortFor(1) /\ 1 \in EventPhases
    BY <1>1 DEF iiTimeReport, EventPhases
  <2>2. IInv' /\ NamedInv' /\ phase' = phase /\ Sorted(list'[MASTER][1], FALSE)
    BY <2>1, SortForKeeps
  <2>3. naming' = naming /\ doc' = doc
    BY <2>1 DEF SortFor
  <2>4. StepInv'
    BY <2>1, <2>2, <2>3 DEF RInv, StepInv
  <2>5. SortedInv'
    BY <2>1, <2>2 DEF SortedInv, Sorted, Less, Earlier
  <2>. QED BY <2>2, <2>4, <2>5 DEF RInv
<1>2. CASE iiCoreTimeReport
  <2>1. step = "coretime" /\ step' = "export" /\ SortFor(2) /\ 2 \in EventPhases /\ 1 \in EventPhases \ {2}
    BY <1>2 DEF iiCoreTimeReport, EventPhases
  <2>2. /\ IInv' /\ NamedInv' /\ phase' = phase
        /\ Sorted(list'[MASTER][2], FALSE) /\ list'[MASTER][1] = list[MASTER][1]
    BY <2>1, SortForKeeps
  <2>3. naming' = naming /\ doc' = doc
    BY <2>1 DEF SortFor
  <2>4. StepInv'
    BY <2>1, <2>2, <2>3 DEF RInv, StepInv
  <2>5. Sorted(list[MASTER][1], FALSE)
    BY <2>1 DEF RInv, SortedInv
  <2>6. SortedInv'
    BY <2>1, <2>2, <2>5 DEF SortedInv, Sorted, Less, Earlier
  <2>. QED BY <2>2, <2>4, <2>6 DEF RInv
<1>. QED BY <1>1, <1>2

LEMMA QuietKeeps ==
  ASSUME IInv, NamedInv, UNCHANGED vars
  PROVE  IInv' /\ NamedInv' /\ list' = list /\ phase' = phase
<1>1. IInv'
  BY NextInv
<1>2. list' = list /\ phase' = phase
  BY DEF vars
<1>. QED BY <1>1, <1>2 DEF NamedInv, Count, HasName

LEMMA NextRInv == RInv /\ [RNext]_rvars => RInv'
<1> SUFFICES ASSUME RInv, [RNext]_rvars PROVE RInv'
  OBVIOUS
<1>1. CASE GatherStep
  BY <1>1, GatherOn
<1>2. CASE iiTimeReport \/ iiCoreTimeReport
  BY <1>2, ReportKeeps
<1>3. CASE Look
  <2>1. /\ step = "gather" /\ phase[MASTER] = DONE /\ naming' \in Namings
        /\ step' = IF options'.silent THEN "export" ELSE "time"
        /\ UNCHANGED vars /\ doc' = doc
    BY <1>3 DEF Look
  <2>2. IInv' /\ NamedInv' /\ list' = list /\ phase' = phase
    BY <2>1, QuietKeeps DEF RInv
  <2>3. doc = NoDoc
    BY <2>1 DEF RInv, StepInv
  <2>4. StepInv'
    BY <2>1, <2>2, <2>3 DEF StepInv
  <2>5. SortedInv'
    BY <2>1 DEF SortedInv
  <2>. QED BY <2>2, <2>4, <2>5 DEF RInv
<1>4. CASE export_xml
  <2>1. step = "export" /\ step' = "end" /\ UNCHANGED << vars, options, naming >>
    BY <1>4 DEF export_xml
  <2>2. IInv' /\ NamedInv' /\ list' = list /\ phase' = phase
    BY <2>1, QuietKeeps DEF RInv
  <2>3. StepInv'
    BY <2>1, <2>2 DEF RInv, StepInv
  <2>4. SortedInv'
    BY <2>1, <2>2 DEF RInv, SortedInv, Sorted, Less, Earlier
  <2>. QED BY <2>2, <2>3, <2>4 DEF RInv
<1>5. CASE RTerminated \/ UNCHANGED rvars
  <2>1. UNCHANGED << vars, options, naming, step, doc >>
    BY <1>5 DEF RTerminated, rvars
  <2>2. IInv' /\ NamedInv' /\ list' = list /\ phase' = phase
    BY <2>1, QuietKeeps DEF RInv
  <2>3. StepInv'
    BY <2>1, <2>2 DEF RInv, StepInv
  <2>4. SortedInv'
    BY <2>1, <2>2 DEF RInv, SortedInv, Sorted, Less, Earlier
  <2>. QED BY <2>2, <2>3, <2>4 DEF RInv
<1>. QED BY <1>1, <1>2, <1>3, <1>4, <1>5 DEF RNext, ReportStep

LEMMA ReportInductive == RSpec => []RInv
BY InitRInv, NextRInv, PTL DEF RSpec

\* The master's copies have the events' own names, which are numbers.
LEMMA Copies ==
  ASSUME RInv, step # "gather", NEW p \in EventPhases
  PROVE  /\ Copied(p) \in Seq({e \in NamedEvents : e.id \in DOMAIN naming /\ e.name = naming[e.id]})
         /\ Distinct(Copied(p))
<1>1. PICK s : s = list[MASTER][p]
  OBVIOUS
<1>2. s \in Seq(Events) /\ Len(s) = Count(MASTER, p)
  BY <1>1, RankTypes, Counts DEF RInv, IInv, Count
<1>3. naming \in Namings
  BY DEF RInv, StepInv
<1>4. PICK c : c = Copied(p)
  OBVIOUS
<1>5. DOMAIN s = 1 .. Len(s) /\ Len(s) \in Nat /\ \A i \in 1 .. Len(s) : s[i] \in Events
  BY <1>2
<1>6. c = [i \in 1 .. Len(s) |-> Named(s[i])]
  BY <1>1, <1>4, <1>5 DEF Copied
<1>7. PICK X : X = {e \in NamedEvents : e.id \in DOMAIN naming /\ e.name = naming[e.id]}
  OBVIOUS
<1>8. ASSUME NEW i \in 1 .. Len(s)
      PROVE  Named(s[i]) \in X /\ Key(Named(s[i])) = Key(s[i])
  <2>1. s[i] \in Events /\ s[i].id \in DOMAIN naming
    <3>1. HasName(s[i])
      BY <1>1, <1>2, RankTypes DEF RInv, NamedInv
    <3>. QED BY <1>3, <1>5, <3>1 DEF HasName
  <2>2. naming[s[i].id] \in Int
    BY <1>3, <2>1, NamingsAssumption
  <2>3. Named(s[i]) \in NamedEvents
    BY <2>1, <2>2 DEF Named, NamedEvents, Events
  <2>. QED BY <1>7, <2>1, <2>2, <2>3 DEF Named, Key
<1>9. c \in Seq(X)
  BY <1>5, <1>6, <1>8
<1>10. Len(c) = Len(s)
  BY <1>5, <1>6
<1>11. Distinct(c)
  <2>1. Distinct(s)
    BY <1>1, <1>2 DEF RInv, IInv, HaveInv, NoneTwice, Distinct
  <2>. QED BY <1>6, <1>8, <1>10, <2>1 DEF Distinct
<1>. QED BY <1>4, <1>7, <1>9, <1>11

LEMMA ExportSorts ==
  ASSUME RInv, step # "gather", NEW p \in EventPhases,
         \A i, j \in DOMAIN naming : naming[i] - naming[j] \in -1 .. 1
  PROVE  Sorted(Exported(p), TRUE)
<1>1. PICK X : X = {e \in NamedEvents : e.id \in DOMAIN naming /\ e.name = naming[e.id]}
  OBVIOUS
<1>2. PICK c : c = Copied(p)
  OBVIOUS
<1>3. c \in Seq(X) /\ Distinct(c)
  BY <1>1, <1>2, Copies
<1>4. Comparable(TRUE, X)
  <2>1. \A e, f \in X : e.name \in Int /\ e.name - f.name \in -1 .. 1
    <3>1. \A e \in X : e.id \in DOMAIN naming /\ e.name = naming[e.id] /\ e.name \in Int
      BY <1>1 DEF NamedEvents
    <3>. QED BY <3>1
  <2>. QED BY <1>1, <2>1 DEF Comparable, Sortable
<1>5. Sorted(SortList(c, TRUE), TRUE)
  BY <1>3, <1>4, SortSorts
<1>. QED BY <1>2, <1>5 DEF Exported

\* The reports and the export list their events in the order they promise (interpreter.c:1251,
\* 1287, timing.c:205), for any number of ranks and events and in whatever order they were
\* gathered: merge sort is right about the orders of the compare functions where they are orders.
THEOREM ReportsInOrder == RSpec => []ReportOrdered
<1>1. RInv => ReportOrdered
  <2> SUFFICES ASSUME RInv, NEW p \in EventPhases
               PROVE  /\ ~options.silent
                           /\ step \in (IF p = 1 THEN {"coretime", "export", "end"} ELSE {"export", "end"})
                           => Sorted(list[MASTER][p], FALSE)
                      /\ doc # NoDoc /\ (\A i, j \in DOMAIN naming : naming[i] - naming[j] \in -1 .. 1)
                           => Sorted(Exported(p), TRUE)
    BY DEF ReportOrdered
  <2>1. ASSUME ~options.silent,
               step \in (IF p = 1 THEN {"coretime", "export", "end"} ELSE {"export", "end"})
        PROVE  Sorted(list[MASTER][p], FALSE)
    <3>1. CASE p = 1
      BY <2>1, <3>1 DEF RInv, SortedInv
    <3>2. CASE p = 2
      BY <2>1, <3>2 DEF RInv, SortedInv
    <3>. QED BY <3>1, <3>2 DEF EventPhases
  <2>2. ASSUME doc # NoDoc, \A i, j \in DOMAIN naming : naming[i] - naming[j] \in -1 .. 1
        PROVE  Sorted(Exported(p), TRUE)
    <3>1. step = "end"
      BY <2>2 DEF RInv, StepInv
    <3>. QED BY <2>2, <3>1, ExportSorts
  <2>. QED BY <2>1, <2>2
<1>. QED BY <1>1, ReportInductive, PTL

-------------------------------------------------------------------------------
(* What the gather functions promise holds in the whole program.                 *)

\* Sorting a list shows nothing to Collection: the master has the same events.
LEMMA SortShowsNothing ==
  ASSUME RInv, NEW p \in EventPhases, SortFor(p)
  PROVE  UNCHANGED Abstract!cvars
<1>1. /\ Elements(list'[MASTER][p]) = Elements(list[MASTER][p])
      /\ \A q \in EventPhases \ {p} : list'[MASTER][q] = list[MASTER][q]
      /\ IInv' /\ IInv
  BY SortForKeeps DEF RInv
<1>2. /\ \A r \in Senders : list'[r] = list[r]
      /\ phase' = phase /\ from' = from /\ got' = got /\ stats' = stats
  <2>1. list' = [list EXCEPT ![MASTER][p] = SortList(@, FALSE)] /\ UNCHANGED masterVars
        /\ phase' = phase /\ stats' = stats
    BY DEF SortFor
  <2>. QED BY <1>1, <2>1 DEF masterVars, IInv, TypeOK, Senders
<1>3. ASSUME NEW q \in EventPhases PROVE Has(q)' = Has(q)
  <2>1. CASE q # p
    BY <1>1, <2>1 DEF Has, Key
  <2>2. CASE q = p
    <3>1. /\ DOMAIN list[MASTER][p] = 1 .. Len(list[MASTER][p])
          /\ DOMAIN list'[MASTER][p] = 1 .. Len(list'[MASTER][p])
      BY <1>1, RankTypes DEF IInv, TypeOK
    <3>2. Has(p) = {Key(e) : e \in Elements(list[MASTER][p])}
      BY <3>1 DEF Has, Elements
    <3>3. Has(p)' = {Key(e) : e \in Elements(list'[MASTER][p])}
      BY <3>1 DEF Has, Elements, Key
    <3>. QED BY <1>1, <2>2, <3>2, <3>3
  <2>. QED BY <2>1, <2>2
<1>4. \A r \in Senders : \A q \in EventPhases : Rest(r, q)' = Rest(r, q)
  <2>1. \A r \in Senders : \A q \in EventPhases : Taken(r, q)' = Taken(r, q)
    BY <1>2 DEF Taken
  <2>. QED BY <1>2, <2>1, RestFrame
<1>5. \A r \in Senders : Counted(r)' <=> Counted(r)
  BY <1>2 DEF Counted
<1>. QED BY <1>2, <1>3, <1>4, <1>5 DEF Abstract!cvars

\* The gather functions implement Collection also while the master sorts and prints its
\* lists, and while it exports copies of them, before the last sender has returned
\* (main.c:137-230, 543-552).
THEOREM ReportCollects == RSpec => Collects
<1>1. RInv /\ [RNext]_rvars => [Abstract!Give]_(Abstract!cvars)
  <2> SUFFICES ASSUME RInv, [RNext]_rvars PROVE [Abstract!Give]_(Abstract!cvars)
    OBVIOUS
  <2>1. CASE iiTimeReport \/ iiCoreTimeReport
    <3>1. PICK p \in EventPhases : SortFor(p)
      BY <2>1 DEF iiTimeReport, iiCoreTimeReport, EventPhases
    <3>. QED BY <3>1, SortShowsNothing
  <2>2. CASE GatherStep \/ Look \/ export_xml \/ RTerminated \/ UNCHANGED rvars
    <3>1. [Next]_vars
      BY <2>2 DEF GatherStep, Look, export_xml, RTerminated, rvars, Next
    <3>. QED BY <3>1, StepGives DEF RInv
  <2>. QED BY <2>1, <2>2 DEF RNext, ReportStep
<1>. QED BY <1>1, ReportInductive, PTL DEF RSpec, Collects, Abstract!Spec

\* Nor does the report undo what was gathered: the lists of the master still have every event
\* once, no message is left, and all variables keep their ranges.
THEOREM ReportKeepsGathered == RSpec => [](TypeOK /\ GatheredOnce /\ NothingLeft)
<1>1. RInv => TypeOK /\ GatheredOnce /\ NothingLeft
  BY AllGathered, NothingIsLeft DEF RInv, IInv
<1>. QED BY <1>1, ReportInductive, PTL

-------------------------------------------------------------------------------
(* The document: what the functions of xml.c append, and what is open meanwhile. *)

\* The words of the document; the other parts of its tokens are numbers.
Words ==
  {"<", ">", "/>", "</", "Report", "EventList", "Event", "Walltime", "Throughput", "Calltime",
   "Requests", "type", "rank", "id", "name", "figures", "timeevents", "coretimeevents",
   "short", "long", "garbled"}
One(a) == << a >>
Pair(a, b) == << a, b >>
Tokens == {One(a) : a \in Words} \cup {Pair(a, b) : a \in Words, b \in Words \cup Int}

LEMMA WordTypes ==
  /\ "<" \in Words /\ ">" \in Words /\ "/>" \in Words /\ "</" \in Words
  /\ "Report" \in Words /\ "EventList" \in Words /\ "Event" \in Words
  /\ "Walltime" \in Words /\ "Throughput" \in Words /\ "Calltime" \in Words /\ "Requests" \in Words
  /\ "type" \in Words /\ "rank" \in Words /\ "id" \in Words /\ "name" \in Words /\ "figures" \in Words
  /\ "timeevents" \in Words /\ "coretimeevents" \in Words
  /\ {"short", "long", "garbled"} \subseteq Words
BY DEF Words

LEMMA TokenTypes ==
  ASSUME NEW a \in Words
  PROVE  One(a) \in Tokens /\ \A b \in Words \cup Int : Pair(a, b) \in Tokens
BY DEF Tokens

\* A text is a sequence of tokens.
Texts == Seq(Tokens)
Add(s, token) == Append(s, token)
Cat(s, t) == s \o t

LEMMA TextTypes ==
  ASSUME NEW s \in Texts
  PROVE  /\ \A token \in Tokens : Add(s, token) \in Texts /\ Add(s, token) = Cat(s, One(token))
         /\ \A t \in Texts : Cat(s, t) \in Texts
         /\ \A t, u \in Texts : Cat(Cat(s, t), u) = Cat(s, Cat(t, u))
<1>1. \A token \in Tokens : Append(s, token) \in Seq(Tokens) /\ Append(s, token) = s \o << token >>
  BY AppendProperties, AppendIsConcat DEF Texts
<1>2. \A t \in Seq(Tokens) : s \o t \in Seq(Tokens)
  BY ConcatProperties DEF Texts
<1>3. \A t, u \in Seq(Tokens) : (s \o t) \o u = s \o (t \o u)
  BY ConcatAssociative DEF Texts
<1>. QED BY <1>1, <1>2, <1>3 DEF Texts, Add, Cat, One

LEMMA ShortTexts ==
  << >> \in Texts /\ \A token \in Tokens : One(token) \in Texts
BY DEF Texts, One

LEMMA FiveParts ==
  ASSUME NEW B \in Texts, NEW open \in Texts, NEW one \in Texts, NEW all \in Texts, NEW last \in Texts
  PROVE  Cat(Cat(Cat(Cat(B, open), one), all), last) = Cat(B, Cat(open, Cat(Cat(one, all), last)))
BY TextTypes

\* Open elements; those within one of that name; a document.
Opened(name, c) == [name |-> name, hasContent |-> c]
Opens == [name : Words, hasContent : BOOLEAN]
Stacks == Seq(Opens)
Inside(name, c, S) == << Opened(name, c) >> \o S
Begun(name, S) == Inside(name, FALSE, S)
Filled(name, S) == Inside(name, TRUE, S)
Doc(B, S) == [buffer |-> B, stack |-> S]

\* No tag is open: the document is empty or the innermost element has content.
Within(S) == S = << >> \/ \E name \in Words : \E R \in Stacks : S = Filled(name, R)

LEMMA Innermost ==
  ASSUME NEW S \in Stacks, NEW name \in Words, NEW c \in BOOLEAN, NEW R, R = Inside(name, c, S)
  PROVE  R \in Stacks /\ R # << >> /\ Head(R) = Opened(name, c) /\ Tail(R) = S
<1>. DEFINE e == Opened(name, c)
<1>1. e \in Opens
  BY DEF Opens, Opened
<1>. HIDE DEF e
<1>2. /\ R \in Seq(Opens) /\ Len(R) = Len(S) + 1 /\ R[1] = e
      /\ \A i \in 1 .. Len(S) : R[i + 1] = S[i]
  <2>1. R = << e >> \o S
    BY DEF Inside, e
  <2>. QED BY <1>1, <2>1, PutFirst DEF Stacks
<1>3. Len(S) \in Nat
  BY DEF Stacks
<1>4. R # << >>
  BY <1>2, <1>3
<1>5. Head(R) = e
  BY <1>2, <1>4
<1>6. /\ Tail(R) \in Seq(Opens) /\ Len(Tail(R)) = Len(R) - 1
      /\ \A i \in 1 .. Len(Tail(R)) : Tail(R)[i] = R[i + 1]
  BY <1>2, <1>4, HeadTailProperties
<1>7. Tail(R) = S
  BY <1>2, <1>3, <1>6, SeqEqual DEF Stacks
<1>. QED BY <1>2, <1>4, <1>5, <1>7 DEF e, Stacks

LEMMA PutInDoc ==
  ASSUME NEW B, NEW S, NEW token
  PROVE  Put(Doc(B, S), token) = Doc(Add(B, token), S)
BY DEF Put, Doc, Add

LEMMA StackChanged ==
  ASSUME NEW B, NEW S, NEW R
  PROVE  [Doc(B, S) EXCEPT !.stack = R] = Doc(B, R)
BY DEF Doc

LEMMA ContentSet ==
  ASSUME NEW name, NEW v, NEW c, NEW e, e = Opened(name, v)
  PROVE  [e EXCEPT !.hasContent = c] = Opened(name, c)
BY DEF Opened

LEMMA TagEnds ==
  ASSUME NEW B, NEW S \in Stacks, NEW name \in Words
  PROVE  CloseTag(Doc(B, Begun(name, S)))
           = Doc(Add(B, One(">")), Filled(name, S))
<1>1. PICK R : R = Begun(name, S)
  OBVIOUS
<1>2. PICK d : d = Doc(B, R)
  OBVIOUS
<1>3. R # << >> /\ Head(R) = Opened(name, FALSE) /\ Tail(R) = S
  BY <1>1, Innermost DEF Begun
<1>4. d.stack = R /\ d.buffer = B
  BY <1>2 DEF Doc
<1>5. Head(R).hasContent = FALSE
  BY <1>3 DEF Opened
<1>6. CloseTag(d) = [Put(d, One(">")) EXCEPT !.stack = << [Head(@) EXCEPT !.hasContent = TRUE] >> \o Tail(@)]
  BY <1>3, <1>4, <1>5 DEF CloseTag, One
<1>7. PICK g : g = Put(d, One(">"))
  OBVIOUS
<1>8. g = Doc(Add(B, One(">")), R)
  BY <1>2, <1>7, PutInDoc
<1>9. g.stack = R
  BY <1>8 DEF Doc
<1>10. [Head(R) EXCEPT !.hasContent = TRUE] = Opened(name, TRUE)
  <2>1. PICK e : e = Head(R)
    OBVIOUS
  <2>2. e = Opened(name, FALSE)
    BY <1>3, <2>1
  <2>3. [e EXCEPT !.hasContent = TRUE] = Opened(name, TRUE)
    BY <2>2, ContentSet, Zenon
  <2>. QED BY <2>1, <2>3
<1>11. PICK Q : Q = Filled(name, S)
  OBVIOUS
<1>12. << Opened(name, TRUE) >> \o S = Q
  BY <1>11 DEF Inside, Filled
<1>13. CloseTag(d) = [g EXCEPT !.stack = << [Head(g.stack) EXCEPT !.hasContent = TRUE] >> \o Tail(g.stack)]
  BY <1>6, <1>7
<1>14. CloseTag(d) = [g EXCEPT !.stack = Q]
  BY <1>3, <1>9, <1>10, <1>12, <1>13
<1>. QED BY <1>1, <1>2, <1>8, <1>11, <1>14, StackChanged

LEMMA TagEnded ==
  ASSUME NEW B, NEW S, Within(S)
  PROVE  CloseTag(Doc(B, S)) = Doc(B, S)
<1>1. PICK d : d = Doc(B, S)
  OBVIOUS
<1>2. d.stack = S
  BY <1>1 DEF Doc
<1>3. CASE S = << >>
  BY <1>1, <1>2, <1>3 DEF CloseTag
<1>4. CASE S # << >>
  <2>1. PICK name \in Words : \E R \in Stacks : S = Filled(name, R)
    BY <1>4 DEF Within
  <2>2. PICK R \in Stacks : S = Filled(name, R)
    BY <2>1
  <2>3. Head(S) = Opened(name, TRUE)
    BY <2>2, Innermost DEF Filled
  <2>4. Head(S).hasContent = TRUE
    BY <2>3 DEF Opened
  <2>. QED BY <1>1, <1>2, <2>4 DEF CloseTag
<1>. QED BY <1>3, <1>4

\* An element begins, gets its attributes and ends.
LEMMA ElementStarts ==
  ASSUME NEW d, NEW B, NEW S, NEW name, CloseTag(d) = Doc(B, S)
  PROVE  StartElement(d, name) = Doc(Add(B, Pair("<", name)), Begun(name, S))
<1>1. PICK g : g = Put(CloseTag(d), Pair("<", name))
  OBVIOUS
<1>2. PICK C : C = Add(B, Pair("<", name))
  OBVIOUS
<1>3. g = Doc(C, S)
  BY <1>1, <1>2, PutInDoc
<1>4. g.stack = S
  BY <1>3 DEF Doc
<1>5. PICK Q : Q = Begun(name, S)
  OBVIOUS
<1>6. StartElement(d, name) = [g EXCEPT !.stack = << Opened(name, FALSE) >> \o g.stack]
  BY <1>1 DEF StartElement, Opened, Pair
<1>7. StartElement(d, name) = [g EXCEPT !.stack = Q]
  BY <1>4, <1>5, <1>6 DEF Inside, Begun
<1>8. StartElement(d, name) = Doc(C, Q)
  BY <1>3, <1>7, StackChanged
<1>. QED BY <1>2, <1>5, <1>8

LEMMA AttributeAdded ==
  ASSUME NEW B, NEW S \in Stacks, NEW name \in Words, NEW d, d = Doc(B, Begun(name, S)),
         NEW key, NEW value
  PROVE  AddAttribute(d, key, value) = Doc(Add(B, Pair(key, value)), Begun(name, S))
<1>1. PICK R : R = Begun(name, S)
  OBVIOUS
<1>2. R # << >> /\ Head(R) = Opened(name, FALSE)
  BY <1>1, Innermost DEF Begun
<1>3. d.stack = R /\ d = Doc(B, R)
  BY <1>1 DEF Doc
<1>4. Head(R).hasContent = FALSE
  BY <1>2 DEF Opened
<1>5. AddAttribute(d, key, value) = Put(d, Pair(key, value))
  BY <1>2, <1>3, <1>4 DEF AddAttribute, Pair
<1>. QED BY <1>1, <1>3, <1>5, PutInDoc

LEMMA ElementEnds ==
  ASSUME NEW B, NEW S \in Stacks, NEW name \in Words, NEW c \in BOOLEAN,
         NEW d, d = Doc(B, Inside(name, c, S))
  PROVE  EndElement(d) = Doc(Add(B, IF c THEN Pair("</", name) ELSE One("/>")), S)
<1>1. PICK R : R = Inside(name, c, S)
  OBVIOUS
<1>2. d = Doc(B, R)
  BY <1>1
<1>3. R # << >> /\ Head(R) = Opened(name, c) /\ Tail(R) = S
  BY <1>1, Innermost
<1>4. d.stack = R
  BY <1>2 DEF Doc
<1>5. PICK token : token = IF Head(R).hasContent THEN << "</", Head(R).name >> ELSE << "/>" >>
  OBVIOUS
<1>6. EndElement(d) = [Put(d, token) EXCEPT !.stack = Tail(@)]
  BY <1>3, <1>4, <1>5 DEF EndElement
<1>7. PICK g : g = Put(d, token)
  OBVIOUS
<1>8. g = Doc(Add(B, token), R)
  BY <1>2, <1>7, PutInDoc
<1>9. g.stack = R
  BY <1>8 DEF Doc
<1>10. EndElement(d) = [g EXCEPT !.stack = S]
  BY <1>3, <1>6, <1>7, <1>9
<1>11. token = IF c THEN Pair("</", name) ELSE One("/>")
  BY <1>3, <1>5 DEF Opened, Pair, One
<1>. QED BY <1>8, <1>10, <1>11, StackChanged

-------------------------------------------------------------------------------
(* Texts of children, one after the other.                                       *)

LEMMA Flattened ==
  ASSUME NEW texts, Len(texts) \in Nat \ {0}
  PROVE  \E f : /\ FlattenSeq(texts) = f[Len(texts)]
                /\ f[1] = texts[1]
                /\ \A k \in 2 .. Len(texts) : f[k] = Cat(f[k - 1], texts[k])
<1>. DEFINE IsFlat(n, f) ==
              f = [k \in 1 .. n |-> IF k = 1 THEN texts[k] ELSE Cat(f[k - 1], texts[k])]
            D == {n \in Nat : ~\E f : IsFlat(n, f)}
            N == Len(texts)
<1>1. D = {}
  <2>1. SUFFICES ASSUME D # {} PROVE FALSE
    <3>. HIDE DEF D
    <3>. QED OBVIOUS
  <2>2. PICK n \in D : \A k \in D : n <= k
    <3>1. D \subseteq Nat
      OBVIOUS
    <3>. HIDE DEF D
    <3>. QED BY <2>1, <3>1, LeastNumber
  <2>3. n \in Nat /\ ~\E f : IsFlat(n, f)
    <3>. HIDE DEF IsFlat
    <3>. QED OBVIOUS
  <2>4. n # 0
    <3>1. \A k \in 1 .. 0 : FALSE
      OBVIOUS
    <3>2. [k \in 1 .. 0 |-> texts[k]] =
            [k \in 1 .. 0 |-> IF k = 1 THEN texts[k]
                              ELSE Cat([i \in 1 .. 0 |-> texts[i]][k - 1], texts[k])]
      BY <3>1
    <3>3. IsFlat(0, [k \in 1 .. 0 |-> texts[k]])
      BY <3>2
    <3>. HIDE DEF IsFlat
    <3>. QED BY <2>3, <3>3
  <2>5. n - 1 \in Nat /\ n - 1 \notin D
    <3>. HIDE DEF D
    <3>1. n - 1 \in Nat /\ ~(n <= n - 1)
      BY <2>3, <2>4
    <3>. QED BY <2>2, <3>1
  <2>6. PICK f : IsFlat(n - 1, f)
    <3>. HIDE DEF IsFlat
    <3>. QED BY <2>5
  <2>. DEFINE g == [k \in 1 .. n |-> IF k = 1 THEN texts[k] ELSE Cat(f[k - 1], texts[k])]
  <2>7. \A k \in 1 .. n - 1 : g[k] = f[k]
    <3>1. \A k \in 1 .. n - 1 : f[k] = IF k = 1 THEN texts[k] ELSE Cat(f[k - 1], texts[k])
      BY <2>6
    <3>2. \A k \in 1 .. n - 1 : k \in 1 .. n
      BY <2>3
    <3>. QED BY <3>1, <3>2
  <2>8. g = [k \in 1 .. n |-> IF k = 1 THEN texts[k] ELSE Cat(g[k - 1], texts[k])]
    <3>1. \A k \in 1 .. n : g[k] = IF k = 1 THEN texts[k] ELSE Cat(f[k - 1], texts[k])
      OBVIOUS
    <3>2. g = [k \in 1 .. n |-> g[k]]
      OBVIOUS
    <3>3. \A k \in 1 .. n : k # 1 => k - 1 \in 1 .. n - 1
      BY <2>3
    <3>. HIDE DEF g
    <3>4. \A k \in 1 .. n : g[k] = IF k = 1 THEN texts[k] ELSE Cat(g[k - 1], texts[k])
      BY <2>7, <3>1, <3>3
    <3>. QED BY <3>2, <3>4
  <2>9. IsFlat(n, g)
    <3>. HIDE DEF g
    <3>. QED BY <2>8
  <2>. HIDE DEF IsFlat, g
  <2>. QED BY <2>3, <2>9
<1>. DEFINE flatten == CHOOSE f : IsFlat(N, f)
<1>2. IsFlat(N, flatten)
  <2>1. N \in Nat
    OBVIOUS
  <2>2. \E f : IsFlat(N, f)
    <3>. HIDE DEF IsFlat, N
    <3>. QED BY <1>1, <2>1
  <2>. HIDE DEF IsFlat, N
  <2>. QED BY <2>2
<1>3. FlattenSeq(texts) = flatten[N]
  BY DEF FlattenSeq, Cat
<1>4. \A k \in 1 .. N : flatten[k] = IF k = 1 THEN texts[k] ELSE Cat(flatten[k - 1], texts[k])
  <2>. HIDE DEF flatten, N
  <2>. QED BY <1>2
<1>5. 1 \in 1 .. N /\ \A k \in 2 .. N : k \in 1 .. N /\ k # 1
  OBVIOUS
<1>6. flatten[1] = texts[1] /\ \A k \in 2 .. N : flatten[k] = Cat(flatten[k - 1], texts[k])
  <2>. HIDE DEF flatten, N, IsFlat
  <2>. QED BY <1>4, <1>5
<1>. HIDE DEF flatten, IsFlat
<1>. QED BY <1>3, <1>6

\* A document after each of the children of an open element.
Adds(w, texts, S) ==
  \A k \in 1 .. Len(texts) : \A B \in Texts :
    CloseTag(w[k - 1]) = Doc(B, S) => w[k] = Doc(Cat(B, texts[k]), S)

LEMMA Children ==
  ASSUME NEW B \in Texts, NEW S, Within(S), NEW texts \in Seq(Texts), Len(texts) # 0,
         NEW w, CloseTag(w[0]) = Doc(B, S), Adds(w, texts, S)
  PROVE  FlattenSeq(texts) \in Texts /\ w[Len(texts)] = Doc(Cat(B, FlattenSeq(texts)), S)
<1>. DEFINE N == Len(texts)
<1>1. N \in Nat /\ N # 0 /\ \A k \in 1 .. N : texts[k] \in Texts
  OBVIOUS
<1>2. PICK f : /\ FlattenSeq(texts) = f[N]
               /\ f[1] = texts[1]
               /\ \A k \in 2 .. N : f[k] = Cat(f[k - 1], texts[k])
  BY <1>1, Flattened
<1>. DEFINE Good(k) == f[k] \in Texts /\ w[k] = Doc(Cat(B, f[k]), S)
            D == {k \in 1 .. N : ~Good(k)}
<1>3. D = {}
  <2>1. SUFFICES ASSUME D # {} PROVE FALSE
    <3>. HIDE DEF D
    <3>. QED OBVIOUS
  <2>2. PICK k \in D : \A n \in D : k <= n
    <3>1. D \subseteq Nat
      BY <1>1
    <3>. HIDE DEF D
    <3>. QED BY <2>1, <3>1, LeastNumber
  <2>3. k \in 1 .. N /\ ~Good(k)
    <3>. HIDE DEF Good, N
    <3>. QED OBVIOUS
  <2>4. k # 1
    <3>1. 1 \in 1 .. N /\ 1 - 1 = 0
      BY <1>1
    <3>2. CloseTag(w[1 - 1]) = Doc(B, S) => w[1] = Doc(Cat(B, texts[1]), S)
      BY <3>1 DEF Adds
    <3>3. Good(1)
      BY <1>1, <1>2, <3>1, <3>2
    <3>. HIDE DEF Good
    <3>. QED BY <2>3, <3>3
  <2>5. k \in 2 .. N /\ k - 1 \in 1 .. N /\ ~(k <= k - 1)
    BY <1>1, <2>3, <2>4
  <2>6. Good(k - 1)
    <3>1. k - 1 \notin D
      <4>. HIDE DEF D
      <4>. QED BY <2>2, <2>5
    <3>. HIDE DEF Good, N
    <3>. QED BY <2>5, <3>1
  <2>7. PICK t \in Texts : t = f[k - 1] /\ w[k - 1] = Doc(Cat(B, t), S)
    BY <2>6
  <2>8. PICK u \in Texts : u = texts[k]
    BY <1>1, <2>3
  <2>9. CloseTag(w[k - 1]) = Doc(Cat(B, t), S)
    BY <2>7, TagEnded
  <2>10. Cat(B, t) \in Texts /\ Cat(t, u) \in Texts /\ Cat(Cat(B, t), u) = Cat(B, Cat(t, u))
    BY TextTypes
  <2>11. w[k] = Doc(Cat(Cat(B, t), u), S)
    BY <2>3, <2>8, <2>9, <2>10 DEF Adds
  <2>12. f[k] = Cat(t, u)
    BY <1>2, <2>5, <2>7, <2>8
  <2>13. Good(k)
    BY <2>10, <2>11, <2>12
  <2>. HIDE DEF Good
  <2>. QED BY <2>3, <2>13
<1>4. Good(N)
  <2>1. N \in 1 .. N
    BY <1>1
  <2>. HIDE DEF Good, N
  <2>. QED BY <1>3, <2>1
<1>. QED BY <1>2, <1>4

\* An element is written as its text: its start with its attributes, the children, and its end.
LEMMA ElementText ==
  ASSUME NEW B \in Texts, NEW S \in Stacks, NEW name \in Words,
         NEW attributes \in Texts, NEW texts \in Seq(Texts),
         NEW w, w[0] = Doc(Cat(Add(B, Pair("<", name)), attributes), Begun(name, S)),
         Adds(w, texts, Filled(name, S)),
         NEW text, text = Text(name, attributes, texts)
  PROVE  text \in Texts /\ EndElement(w[Len(texts)]) = Doc(Cat(B, text), S)
<1>1. PICK start \in Tokens : start = Pair("<", name)
  BY WordTypes, TokenTypes
<1>2. PICK begin \in Texts : begin = One(start)
  BY ShortTexts
<1>3. PICK open \in Texts : open = Cat(begin, attributes)
  BY TextTypes
<1>4. PICK C \in Texts : C = Cat(B, open)
  BY TextTypes
<1>5. w[0] = Doc(C, Begun(name, S))
  <2>1. Cat(Add(B, start), attributes) = Cat(Cat(B, begin), attributes)
    BY <1>2, TextTypes
  <2>2. Cat(Cat(B, begin), attributes) = Cat(B, Cat(begin, attributes))
    BY TextTypes
  <2>. QED BY <1>1, <1>3, <1>4, <2>1, <2>2
<1>6. CASE texts = << >>
  <2>1. Len(texts) = 0
    BY <1>6
  <2>2. PICK end \in Tokens : end = One("/>")
    BY WordTypes, TokenTypes
  <2>3. PICK last \in Texts : last = One(end)
    BY ShortTexts
  <2>4. EndElement(w[0]) = Doc(Add(C, end), S)
    BY <1>5, <2>2, ElementEnds DEF Begun
  <2>5. Add(C, end) = Cat(C, last)
    BY <2>3, TextTypes
  <2>6. Cat(C, last) = Cat(B, Cat(open, last)) /\ Cat(open, last) \in Texts
    BY <1>4, TextTypes
  <2>7. text = Cat(open, last)
    BY <1>1, <1>2, <1>3, <1>6, <2>2, <2>3 DEF Text, Cat, One, Pair
  <2>. QED BY <2>1, <2>4, <2>5, <2>6, <2>7
<1>7. CASE texts # << >>
  <2>1. Len(texts) # 0 /\ Len(texts) \in Nat
    BY <1>7
  <2>2. PICK R : R = Filled(name, S)
    OBVIOUS
  <2>3. Within(R)
    BY <2>2 DEF Within
  <2>4. PICK more \in Tokens : more = One(">")
    BY WordTypes, TokenTypes
  <2>5. PICK one \in Texts : one = One(more)
    BY ShortTexts
  <2>6. PICK E \in Texts : E = Cat(C, one)
    BY TextTypes
  <2>7. Add(C, more) = E
    BY <2>5, <2>6, TextTypes
  <2>8. CloseTag(w[0]) = Doc(E, R)
    BY <1>5, <2>2, <2>4, <2>7, TagEnds
  <2>9. PICK all : all = FlattenSeq(texts)
    OBVIOUS
  <2>10. all \in Texts /\ w[Len(texts)] = Doc(Cat(E, all), R)
    BY <2>1, <2>2, <2>3, <2>8, <2>9, Children
  <2>11. PICK end \in Tokens : end = Pair("</", name)
    BY WordTypes, TokenTypes
  <2>12. PICK last \in Texts : last = One(end)
    BY ShortTexts
  <2>13. PICK F \in Texts : F = Cat(E, all)
    BY <2>10, TextTypes
  <2>14. EndElement(w[Len(texts)]) = Doc(Add(F, end), S)
    BY <2>2, <2>10, <2>11, <2>13, ElementEnds DEF Filled
  <2>15. Add(F, end) = Cat(F, last)
    BY <2>12, TextTypes
  <2>16. PICK rest \in Texts : rest = Cat(Cat(one, all), last)
    <3>1. Cat(one, all) \in Texts
      BY <2>10, TextTypes
    <3>. QED BY <3>1, TextTypes
  <2>17. Cat(F, last) = Cat(B, Cat(open, rest))
    <3>1. Cat(Cat(Cat(Cat(B, open), one), all), last) = Cat(B, Cat(open, Cat(Cat(one, all), last)))
      BY <2>10, FiveParts
    <3>. QED BY <1>4, <2>6, <2>13, <2>16, <3>1
  <2>18. text = Cat(open, rest)
    BY <1>1, <1>2, <1>3, <1>7, <2>4, <2>5, <2>9, <2>11, <2>12, <2>16 DEF Text, Cat, One, Pair
  <2>19. Cat(open, rest) \in Texts
    BY TextTypes
  <2>. QED BY <2>14, <2>15, <2>17, <2>18, <2>19
<1>. QED BY <1>6, <1>7

-------------------------------------------------------------------------------
(* The elements of the report.                                                   *)

FigureText(name, e) == Text(name, One(Pair("figures", e.label)), << >>)

LEMMA FiguresWritten ==
  ASSUME NEW B \in Texts, NEW S \in Stacks, NEW d, CloseTag(d) = Doc(B, S),
         NEW name \in Words, NEW e, e.label \in Words
  PROVE  FigureText(name, e) \in Texts /\ Figures(d, name, e) = Doc(Cat(B, FigureText(name, e)), S)
<1>1. PICK start \in Tokens : start = Pair("<", name)
  BY WordTypes, TokenTypes
<1>2. PICK token \in Tokens : token = Pair("figures", e.label)
  BY WordTypes, TokenTypes
<1>3. PICK attributes \in Texts : attributes = One(token)
  BY ShortTexts
<1>4. PICK C \in Texts : C = Add(B, start)
  BY TextTypes
<1>5. PICK d1 : d1 = StartElement(d, name)
  OBVIOUS
<1>6. d1 = Doc(C, Begun(name, S))
  <2>1. StartElement(d, name) = Doc(Add(B, Pair("<", name)), Begun(name, S))
    BY ElementStarts
  <2>. QED BY <1>1, <1>4, <1>5, <2>1
<1>7. PICK d2 : d2 = AddAttribute(d1, "figures", e.label)
  OBVIOUS
<1>8. d2 = Doc(Add(C, token), Begun(name, S))
  <2>1. AddAttribute(d1, "figures", e.label) = Doc(Add(C, Pair("figures", e.label)), Begun(name, S))
    BY <1>6, AttributeAdded
  <2>. QED BY <1>2, <1>7, <2>1
<1>9. Add(C, token) = Cat(C, attributes)
  BY <1>3, TextTypes
<1>10. PICK w : w[0] = d2
  <2>1. [k \in {0} |-> d2][0] = d2
    OBVIOUS
  <2>. QED BY <2>1
<1>11. PICK texts \in Seq(Texts) : texts = << >>
  <2>1. << >> \in Seq(Texts)
    OBVIOUS
  <2>. QED BY <2>1
<1>12. Len(texts) = 0
  BY <1>11
<1>13. Adds(w, texts, Filled(name, S))
  <2>1. \A k \in 1 .. Len(texts) : FALSE
    BY <1>12
  <2>. QED BY <2>1 DEF Adds
<1>14. w[0] = Doc(Cat(Add(B, Pair("<", name)), attributes), Begun(name, S))
  BY <1>1, <1>4, <1>8, <1>9, <1>10
<1>15. PICK text : text = Text(name, attributes, texts)
  OBVIOUS
<1>16. text \in Texts /\ EndElement(w[Len(texts)]) = Doc(Cat(B, text), S)
  BY <1>13, <1>14, <1>15, ElementText
<1>17. text = FigureText(name, e)
  BY <1>2, <1>3, <1>11, <1>15 DEF FigureText
<1>18. Figures(d, name, e) = EndElement(w[Len(texts)])
  BY <1>5, <1>7, <1>10, <1>12 DEF Figures
<1>. QED BY <1>16, <1>17, <1>18

FigureTexts(p, e) == [i \in DOMAIN FigureNames(p) |-> FigureText(FigureNames(p)[i], e)]

\* A document after each of the figures of an event.
FiguresOf(d, p, e) ==
  [k \in 0 .. 3 |->
     CASE k = 0 -> d
       [] k = 1 -> IF p = 1 THEN Figures(d, "Walltime", e) ELSE Figures(d, "Throughput", e)
       [] k = 2 -> Figures(Figures(d, "Throughput", e), "Calltime", e)
       [] k = 3 -> Figures(Figures(Figures(d, "Throughput", e), "Calltime", e), "Requests", e)]

LEMMA FiguresInTurn ==
  ASSUME NEW p \in EventPhases, NEW d, NEW e, e.label \in Words, NEW S \in Stacks
  PROVE  /\ FigureTexts(p, e) \in Seq(Texts)
         /\ FiguresOf(d, p, e)[0] = d
         /\ FiguresOf(d, p, e)[Len(FigureTexts(p, e))] = ExportFigures(d, p, e)
         /\ Adds(FiguresOf(d, p, e), FigureTexts(p, e), S)
<1>1. \A name \in Words : FigureText(name, e) \in Texts
  <2>1. << >> \in Texts /\ << >> \in Stacks /\ Within(<< >>)
    BY ShortTexts DEF Within, Stacks
  <2>2. CloseTag(Doc(<< >>, << >>)) = Doc(<< >>, << >>)
    BY <2>1, TagEnded
  <2>. QED BY <2>1, <2>2, FiguresWritten
<1>2. ASSUME NEW c, NEW name \in Words, NEW B \in Texts, CloseTag(c) = Doc(B, S)
      PROVE  Figures(c, name, e) = Doc(Cat(B, FigureText(name, e)), S)
  BY <1>2, FiguresWritten
<1>3. PICK w : w = FiguresOf(d, p, e)
  OBVIOUS
<1>4. PICK texts : texts = FigureTexts(p, e)
  OBVIOUS
<1>5. CASE p = 1
  <2>1. FigureNames(p) = << "Walltime" >> /\ ExportFigures(d, p, e) = Figures(d, "Walltime", e)
    BY <1>5 DEF FigureNames, ExportFigures, Phases
  <2>2. PICK t \in Texts : t = FigureText("Walltime", e)
    BY <1>1, WordTypes
  <2>3. texts = << t >>
    BY <1>4, <2>1, <2>2 DEF FigureTexts
  <2>4. w[0] = d /\ w[1] = Figures(d, "Walltime", e)
    BY <1>3, <1>5 DEF FiguresOf
  <2>5. ASSUME NEW k \in 1 .. Len(texts), NEW B \in Texts, CloseTag(w[k - 1]) = Doc(B, S)
        PROVE  w[k] = Doc(Cat(B, texts[k]), S)
    <3>1. k = 1 /\ texts[k] = t /\ w[k - 1] = d
      BY <2>3, <2>4
    <3>. QED BY <1>2, <2>2, <2>4, <2>5, <3>1, WordTypes
  <2>6. Adds(w, texts, S)
    BY <2>5 DEF Adds
  <2>7. texts \in Seq(Texts) /\ Len(texts) = 1
    BY <2>3
  <2>. QED BY <1>3, <1>4, <2>1, <2>4, <2>6, <2>7
<1>6. CASE p = 2
  <2>1. PICK d1 : d1 = Figures(d, "Throughput", e)
    OBVIOUS
  <2>2. PICK d2 : d2 = Figures(d1, "Calltime", e)
    OBVIOUS
  <2>3. PICK d3 : d3 = Figures(d2, "Requests", e)
    OBVIOUS
  <2>4. /\ FigureNames(p) = << "Throughput", "Calltime", "Requests" >>
        /\ ExportFigures(d, p, e) = d3
    BY <1>6, <2>1, <2>2, <2>3 DEF FigureNames, ExportFigures, Phases
  <2>5. PICK t1 \in Texts : t1 = FigureText("Throughput", e)
    BY <1>1, WordTypes
  <2>6. PICK t2 \in Texts : t2 = FigureText("Calltime", e)
    BY <1>1, WordTypes
  <2>7. PICK t3 \in Texts : t3 = FigureText("Requests", e)
    BY <1>1, WordTypes
  <2>8. texts = << t1, t2, t3 >>
    BY <1>4, <2>4, <2>5, <2>6, <2>7 DEF FigureTexts
  <2>9. w[0] = d /\ w[1] = d1 /\ w[2] = d2 /\ w[3] = d3
    BY <1>3, <1>6, <2>1, <2>2, <2>3 DEF FiguresOf
  <2>10. /\ \A B \in Texts : CloseTag(d) = Doc(B, S) => d1 = Doc(Cat(B, t1), S)
         /\ \A B \in Texts : CloseTag(d1) = Doc(B, S) => d2 = Doc(Cat(B, t2), S)
         /\ \A B \in Texts : CloseTag(d2) = Doc(B, S) => d3 = Doc(Cat(B, t3), S)
    BY <1>2, <2>1, <2>2, <2>3, <2>5, <2>6, <2>7, WordTypes
  <2>11. ASSUME NEW k \in 1 .. Len(texts), NEW B \in Texts, CloseTag(w[k - 1]) = Doc(B, S)
         PROVE  w[k] = Doc(Cat(B, texts[k]), S)
    <3>1. \/ k = 1 /\ texts[k] = t1 /\ w[k - 1] = d /\ w[k] = d1
          \/ k = 2 /\ texts[k] = t2 /\ w[k - 1] = d1 /\ w[k] = d2
          \/ k = 3 /\ texts[k] = t3 /\ w[k - 1] = d2 /\ w[k] = d3
      BY <2>8, <2>9
    <3>. QED BY <2>10, <2>11, <3>1
  <2>12. Adds(w, texts, S)
    BY <2>11 DEF Adds
  <2>13. texts \in Seq(Texts) /\ Len(texts) = 3
    BY <2>8
  <2>. QED BY <1>3, <1>4, <2>4, <2>9, <2>12, <2>13
<1>. QED BY <1>5, <1>6 DEF EventPhases

LEMMA EventWritten ==
  ASSUME NEW B \in Texts, NEW S \in Stacks, NEW d, CloseTag(d) = Doc(B, S),
         NEW p \in EventPhases, NEW e \in NamedEvents
  PROVE  EventText(p, e) \in Texts /\ ExportEvent(d, p, e) = Doc(Cat(B, EventText(p, e)), S)
<1>1. e.proc \in Int /\ e.id \in Int /\ e.name \in Int /\ e.label \in Words
  BY SizeAssumption, WordTypes DEF NamedEvents, Ranks
<1>2. PICK start \in Tokens : start = Pair("<", "Event")
  <2>1. Pair("<", "Event") \in Tokens
    BY WordTypes, TokenTypes
  <2>. QED BY <2>1
<1>3. PICK rank \in Tokens : rank = Pair("rank", e.proc)
  <2>1. Pair("rank", e.proc) \in Tokens
    BY <1>1, WordTypes, TokenTypes
  <2>. QED BY <2>1
<1>4. PICK id \in Tokens : id = Pair("id", e.id)
  <2>1. Pair("id", e.id) \in Tokens
    BY <1>1, WordTypes, TokenTypes
  <2>. QED BY <2>1
<1>5. PICK name \in Tokens : name = Pair("name", e.name)
  <2>1. Pair("name", e.name) \in Tokens
    BY <1>1, WordTypes, TokenTypes
  <2>. QED BY <2>1
<1>6. PICK C \in Texts : C = Add(B, start)
  <2>1. Add(B, start) \in Texts
    BY TextTypes
  <2>. QED BY <2>1
<1>7. PICK d0 : d0 = StartElement(d, "Event")
  OBVIOUS
<1>8. PICK d1 : d1 = AddAttribute(d0, "rank", e.proc)
  OBVIOUS
<1>9. PICK d2 : d2 = AddAttribute(d1, "id", e.id)
  OBVIOUS
<1>10. PICK tag : tag = AddAttribute(d2, "name", e.name)
  OBVIOUS
<1>11. tag = Doc(Add(Add(Add(C, rank), id), name), Begun("Event", S))
  <2>1. d0 = Doc(C, Begun("Event", S))
    BY <1>2, <1>6, <1>7, ElementStarts
  <2>2. d1 = Doc(Add(C, rank), Begun("Event", S))
    BY <1>3, <1>8, <2>1, WordTypes, AttributeAdded
  <2>3. d2 = Doc(Add(Add(C, rank), id), Begun("Event", S))
    BY <1>4, <1>9, <2>2, WordTypes, AttributeAdded
  <2>. QED BY <1>5, <1>10, <2>3, WordTypes, AttributeAdded
<1>12. PICK attributes \in Texts : attributes = << rank, id, name >>
  <2>1. << rank, id, name >> \in Texts
    BY DEF Texts
  <2>. QED BY <2>1
<1>13. Add(Add(Add(C, rank), id), name) = Cat(C, attributes)
  BY <1>12 DEF Add, Cat, Texts
<1>14. PICK w : w = FiguresOf(tag, p, e)
  OBVIOUS
<1>15. PICK texts : texts = FigureTexts(p, e)
  OBVIOUS
<1>16. PICK R \in Stacks : R = Filled("Event", S)
  <2>1. Filled("Event", S) \in Stacks
    BY WordTypes, Innermost DEF Filled
  <2>. QED BY <2>1
<1>17. /\ texts \in Seq(Texts) /\ w[0] = tag
       /\ w[Len(texts)] = ExportFigures(tag, p, e) /\ Adds(w, texts, R)
  BY <1>1, <1>14, <1>15, FiguresInTurn
<1>18. w[0] = Doc(Cat(Add(B, start), attributes), Begun("Event", S))
  BY <1>6, <1>11, <1>13, <1>17
<1>19. PICK text : text = Text("Event", attributes, texts)
  OBVIOUS
<1>20. text \in Texts /\ EndElement(w[Len(texts)]) = Doc(Cat(B, text), S)
  BY <1>2, <1>16, <1>17, <1>18, <1>19, WordTypes, ElementText
<1>21. ExportEvent(d, p, e) = EndElement(w[Len(texts)])
  BY <1>7, <1>8, <1>9, <1>10, <1>17 DEF ExportEvent
<1>22. EventText(p, e) = text
  BY <1>3, <1>4, <1>5, <1>12, <1>15, <1>19 DEF EventText, FigureTexts, FigureText, One, Pair
<1>. QED BY <1>20, <1>21, <1>22

LEMMA EventsInTurn ==
  ASSUME NEW d, NEW p, NEW events, Len(events) \in Nat
  PROVE  \E f : /\ ExportList(d, p, events) = EndElement(f[Len(events)])
                /\ f[0] = AddAttribute(StartElement(d, "EventList"), "type", Phases[p])
                /\ \A k \in 1 .. Len(events) : f[k] = ExportEvent(f[k - 1], p, events[k])
<1>. DEFINE N == Len(events)
            start == AddAttribute(StartElement(d, "EventList"), "type", Phases[p])
            IsList(n, f) ==
              f = [k \in 0 .. n |-> IF k = 0 THEN start ELSE ExportEvent(f[k - 1], p, events[k])]
            D == {n \in Nat : ~\E f : IsList(n, f)}
<1>1. ExportList(d, p, events) =
        LET written == CHOOSE f : IsList(N, f) IN EndElement(written[N])
  BY DEF ExportList
<1>. HIDE DEF start
<1>2. D = {}
  <2>1. SUFFICES ASSUME D # {} PROVE FALSE
    <3>. HIDE DEF D
    <3>. QED OBVIOUS
  <2>2. PICK n \in D : \A k \in D : n <= k
    <3>1. D \subseteq Nat
      OBVIOUS
    <3>. HIDE DEF D
    <3>. QED BY <2>1, <3>1, LeastNumber
  <2>3. n \in Nat /\ ~\E f : IsList(n, f)
    <3>. HIDE DEF IsList
    <3>. QED OBVIOUS
  <2>4. n # 0
    <3>1. [k \in 0 .. 0 |-> start] =
            [k \in 0 .. 0 |-> IF k = 0 THEN start
                              ELSE ExportEvent([i \in 0 .. 0 |-> start][k - 1], p, events[k])]
      OBVIOUS
    <3>2. IsList(0, [k \in 0 .. 0 |-> start])
      BY <3>1
    <3>. HIDE DEF IsList
    <3>. QED BY <2>3, <3>2
  <2>5. n - 1 \in Nat /\ n - 1 \notin D
    <3>. HIDE DEF D
    <3>1. n - 1 \in Nat /\ ~(n <= n - 1)
      BY <2>3, <2>4
    <3>. QED BY <2>2, <3>1
  <2>6. PICK f : IsList(n - 1, f)
    <3>. HIDE DEF IsList
    <3>. QED BY <2>5
  <2>. DEFINE g == [k \in 0 .. n |-> IF k = 0 THEN start ELSE ExportEvent(f[k - 1], p, events[k])]
  <2>7. \A k \in 0 .. n - 1 : g[k] = f[k]
    <3>1. \A k \in 0 .. n - 1 : f[k] = IF k = 0 THEN start ELSE ExportEvent(f[k - 1], p, events[k])
      BY <2>6
    <3>2. \A k \in 0 .. n - 1 : k \in 0 .. n
      BY <2>3
    <3>. QED BY <3>1, <3>2
  <2>8. g = [k \in 0 .. n |-> IF k = 0 THEN start ELSE ExportEvent(g[k - 1], p, events[k])]
    <3>1. \A k \in 0 .. n : g[k] = IF k = 0 THEN start ELSE ExportEvent(f[k - 1], p, events[k])
      OBVIOUS
    <3>2. g = [k \in 0 .. n |-> g[k]]
      OBVIOUS
    <3>3. \A k \in 0 .. n : k # 0 => k - 1 \in 0 .. n - 1
      BY <2>3
    <3>. HIDE DEF g
    <3>4. \A k \in 0 .. n : g[k] = IF k = 0 THEN start ELSE ExportEvent(g[k - 1], p, events[k])
      BY <2>7, <3>1, <3>3
    <3>. QED BY <3>2, <3>4
  <2>9. IsList(n, g)
    <3>. HIDE DEF g
    <3>. QED BY <2>8
  <2>. HIDE DEF IsList, g
  <2>. QED BY <2>3, <2>9
<1>. DEFINE written == CHOOSE f : IsList(N, f)
<1>3. IsList(N, written)
  <2>1. N \in Nat
    OBVIOUS
  <2>2. \E f : IsList(N, f)
    <3>. HIDE DEF IsList, N
    <3>. QED BY <1>2, <2>1
  <2>. HIDE DEF IsList, N
  <2>. QED BY <2>2
<1>4. ExportList(d, p, events) = EndElement(written[N])
  <2>. HIDE DEF IsList, N
  <2>. QED BY <1>1
<1>5. \A k \in 0 .. N : written[k] = IF k = 0 THEN start ELSE ExportEvent(written[k - 1], p, events[k])
  <2>. HIDE DEF written, N
  <2>. QED BY <1>3
<1>6. 0 \in 0 .. N /\ \A k \in 1 .. N : k \in 0 .. N /\ k # 0
  OBVIOUS
<1>7. written[0] = start /\ \A k \in 1 .. N : written[k] = ExportEvent(written[k - 1], p, events[k])
  <2>. HIDE DEF written, N, IsList
  <2>. QED BY <1>5, <1>6
<1>. HIDE DEF written, IsList
<1>. QED BY <1>4, <1>7 DEF start

LEMMA ListWritten ==
  ASSUME NEW B \in Texts, NEW S \in Stacks, NEW d, CloseTag(d) = Doc(B, S),
         NEW p \in EventPhases, NEW events \in Seq(NamedEvents)
  PROVE  ListText(p, events) \in Texts /\ ExportList(d, p, events) = Doc(Cat(B, ListText(p, events)), S)
<1>1. PICK kind \in Words : kind = Phases[p]
  <2>1. Phases[p] = "timeevents" \/ Phases[p] = "coretimeevents"
    BY DEF Phases, EventPhases
  <2>. QED BY <2>1, WordTypes
<1>2. PICK type \in Tokens : type = Pair("type", kind)
  BY WordTypes, TokenTypes
<1>3. PICK attributes \in Texts : attributes = One(type)
  BY ShortTexts
<1>4. PICK C \in Texts : C = Add(B, Pair("<", "EventList"))
  <2>1. Pair("<", "EventList") \in Tokens
    BY WordTypes, TokenTypes
  <2>. QED BY <2>1, TextTypes
<1>5. PICK w : /\ ExportList(d, p, events) = EndElement(w[Len(events)])
               /\ w[0] = AddAttribute(StartElement(d, "EventList"), "type", kind)
               /\ \A k \in 1 .. Len(events) : w[k] = ExportEvent(w[k - 1], p, events[k])
  <2>1. Len(events) \in Nat
    OBVIOUS
  <2>. QED BY <1>1, <2>1, EventsInTurn
<1>6. w[0] = Doc(Cat(C, attributes), Begun("EventList", S))
  <2>1. PICK d1 : d1 = StartElement(d, "EventList")
    OBVIOUS
  <2>2. d1 = Doc(C, Begun("EventList", S))
    BY <1>4, <2>1, ElementStarts
  <2>3. AddAttribute(d1, "type", kind) = Doc(Add(C, type), Begun("EventList", S))
    BY <1>2, <2>2, WordTypes, AttributeAdded
  <2>4. Add(C, type) = Cat(C, attributes)
    BY <1>3, TextTypes
  <2>. QED BY <1>5, <2>1, <2>3, <2>4
<1>7. PICK R \in Stacks : R = Filled("EventList", S)
  <2>1. Filled("EventList", S) \in Stacks
    BY WordTypes, Innermost DEF Filled
  <2>. QED BY <2>1
<1>8. ASSUME NEW A \in Texts, NEW c, NEW e \in NamedEvents, CloseTag(c) = Doc(A, R)
      PROVE  EventText(p, e) \in Texts /\ ExportEvent(c, p, e) = Doc(Cat(A, EventText(p, e)), R)
  BY <1>8, EventWritten
<1>9. PICK texts : texts = [i \in DOMAIN events |-> EventText(p, events[i])]
  OBVIOUS
<1>10. /\ DOMAIN events = 1 .. Len(events) /\ Len(events) \in Nat
       /\ \A k \in 1 .. Len(events) : events[k] \in NamedEvents
  OBVIOUS
<1>11. \A e \in NamedEvents : EventText(p, e) \in Texts
  <2>1. << >> \in Texts /\ << >> \in Stacks /\ Within(<< >>)
    BY ShortTexts DEF Within, Stacks
  <2>2. CloseTag(Doc(<< >>, << >>)) = Doc(<< >>, << >>)
    BY <2>1, TagEnded
  <2>. QED BY <2>1, <2>2, EventWritten
<1>12. texts \in Seq(Texts) /\ Len(texts) = Len(events)
  <2>. HIDE DEF Texts
  <2>. QED BY <1>9, <1>10, <1>11
<1>13. Adds(w, texts, R)
  <2>1. ASSUME NEW k \in 1 .. Len(texts), NEW A \in Texts, CloseTag(w[k - 1]) = Doc(A, R)
        PROVE  w[k] = Doc(Cat(A, texts[k]), R)
    <3>1. PICK e \in NamedEvents : e = events[k]
      BY <1>10, <1>12
    <3>2. w[k] = ExportEvent(w[k - 1], p, e)
      BY <1>5, <1>12, <3>1
    <3>3. texts[k] = EventText(p, e)
      BY <1>9, <1>10, <1>12, <3>1
    <3>. QED BY <1>8, <2>1, <3>2, <3>3
  <2>. QED BY <2>1 DEF Adds
<1>14. w[0] = Doc(Cat(Add(B, Pair("<", "EventList")), attributes), Begun("EventList", S))
  BY <1>4, <1>6
<1>15. PICK text : text = Text("EventList", attributes, texts)
  OBVIOUS
<1>16. text \in Texts /\ EndElement(w[Len(texts)]) = Doc(Cat(B, text), S)
  BY <1>7, <1>12, <1>13, <1>14, <1>15, WordTypes, ElementText
<1>17. text = ListText(p, events)
  BY <1>1, <1>2, <1>3, <1>9, <1>15 DEF ListText, One, Pair
<1>. QED BY <1>5, <1>12, <1>16, <1>17

LEMMA ReportWritten ==
  ASSUME NEW coretimes \in Seq(NamedEvents), NEW times \in Seq(NamedEvents)
  PROVE  EndElement(ExportList(ExportList(StartElement(NoDoc, "Report"), 2, coretimes), 1, times))
           = Doc(Text("Report", << >>, << ListText(2, coretimes), ListText(1, times) >>), << >>)
<1>1. PICK B \in Texts : B = << >>
  BY ShortTexts
<1>2. PICK S \in Stacks : S = << >>
  <2>1. << >> \in Stacks
    BY DEF Stacks
  <2>. QED BY <2>1
<1>3. CloseTag(NoDoc) = Doc(B, S)
  <2>1. Within(S)
    BY <1>2 DEF Within
  <2>2. NoDoc = Doc(B, S)
    BY <1>1, <1>2 DEF NoDoc, Doc
  <2>. QED BY <2>1, <2>2, TagEnded
<1>4. PICK C \in Texts : C = Add(B, Pair("<", "Report"))
  <2>1. Pair("<", "Report") \in Tokens
    BY WordTypes, TokenTypes
  <2>. QED BY <2>1, TextTypes
<1>5. PICK d0 : d0 = StartElement(NoDoc, "Report")
  OBVIOUS
<1>6. PICK d1 : d1 = ExportList(d0, 2, coretimes)
  OBVIOUS
<1>7. PICK d2 : d2 = ExportList(d1, 1, times)
  OBVIOUS
<1>8. d0 = Doc(C, Begun("Report", S))
  BY <1>3, <1>4, <1>5, ElementStarts
<1>9. PICK R \in Stacks : R = Filled("Report", S)
  <2>1. Filled("Report", S) \in Stacks
    BY WordTypes, Innermost DEF Filled
  <2>. QED BY <2>1
<1>10. ASSUME NEW p \in EventPhases, NEW events \in Seq(NamedEvents), NEW A \in Texts, NEW d,
              CloseTag(d) = Doc(A, R)
       PROVE  ListText(p, events) \in Texts /\ ExportList(d, p, events) = Doc(Cat(A, ListText(p, events)), R)
  BY <1>10, ListWritten
<1>11. \A p \in EventPhases : \A events \in Seq(NamedEvents) : ListText(p, events) \in Texts
  <2>1. << >> \in Texts /\ << >> \in Stacks /\ Within(<< >>)
    BY ShortTexts DEF Within, Stacks
  <2>2. CloseTag(Doc(<< >>, << >>)) = Doc(<< >>, << >>)
    BY <2>1, TagEnded
  <2>. QED BY <2>1, <2>2, ListWritten
<1>12. 1 \in EventPhases /\ 2 \in EventPhases
  BY DEF EventPhases
<1>13. PICK t1 \in Texts : t1 = ListText(2, coretimes)
  BY <1>11, <1>12
<1>14. PICK t2 \in Texts : t2 = ListText(1, times)
  BY <1>11, <1>12
<1>15. PICK texts \in Seq(Texts) : texts = << t1, t2 >>
  <2>. HIDE DEF Texts
  <2>1. << t1, t2 >> \in Seq(Texts)
    OBVIOUS
  <2>. QED BY <2>1
<1>16. Len(texts) = 2 /\ texts[1] = t1 /\ texts[2] = t2
  BY <1>15
<1>17. PICK w : w[0] = d0 /\ w[1] = d1 /\ w[2] = d2
  <2>1. PICK w : w = [k \in 0 .. 2 |-> IF k = 0 THEN d0 ELSE IF k = 1 THEN d1 ELSE d2]
    OBVIOUS
  <2>2. w[0] = d0 /\ w[1] = d1 /\ w[2] = d2
    BY <2>1
  <2>. QED BY <2>2
<1>18. /\ \A A \in Texts : CloseTag(d0) = Doc(A, R) => d1 = Doc(Cat(A, t1), R)
       /\ \A A \in Texts : CloseTag(d1) = Doc(A, R) => d2 = Doc(Cat(A, t2), R)
  BY <1>6, <1>7, <1>10, <1>12, <1>13, <1>14
<1>19. Adds(w, texts, R)
  <2>1. ASSUME NEW k \in 1 .. Len(texts), NEW A \in Texts, CloseTag(w[k - 1]) = Doc(A, R)
        PROVE  w[k] = Doc(Cat(A, texts[k]), R)
    <3>1. \/ k = 1 /\ texts[k] = t1 /\ w[k - 1] = d0 /\ w[k] = d1
          \/ k = 2 /\ texts[k] = t2 /\ w[k - 1] = d1 /\ w[k] = d2
      BY <1>16, <1>17
    <3>. QED BY <1>18, <2>1, <3>1
  <2>. QED BY <2>1 DEF Adds
<1>20. w[0] = Doc(Cat(Add(B, Pair("<", "Report")), << >>), Begun("Report", S))
  <2>1. Cat(C, << >>) = C
    BY DEF Cat, Texts
  <2>. QED BY <1>4, <1>8, <1>17, <2>1
<1>21. PICK text : text = Text("Report", << >>, texts)
  OBVIOUS
<1>22. text \in Texts /\ EndElement(w[Len(texts)]) = Doc(Cat(B, text), S)
  BY <1>9, <1>19, <1>20, <1>21, ShortTexts, WordTypes, ElementText
<1>23. Cat(B, text) = text
  BY <1>1, <1>22 DEF Cat, Texts
<1>24. EndElement(d2) = Doc(text, << >>)
  BY <1>2, <1>16, <1>17, <1>22, <1>23
<1>. QED BY <1>5, <1>6, <1>7, <1>13, <1>14, <1>15, <1>21, <1>24

-------------------------------------------------------------------------------
(* What is sorted is the same bag: nothing is lost and nothing comes twice.      *)

LEMMA BagOfDifferent ==
  ASSUME NEW X, NEW s \in Seq(X), \A i, j \in 1 .. Len(s) : s[i] = s[j] => i = j
  PROVE  ToBag(s) = [x \in Elements(s) |-> 1]
<1>1. DOMAIN s = 1 .. Len(s)
  OBVIOUS
<1>2. Range(s) = Elements(s)
  BY <1>1 DEF Range, Elements
<1>3. ASSUME NEW x \in Elements(s)
      PROVE  Cardinality({i \in DOMAIN s : s[i] = x}) = 1
  <2>1. PICK i \in 1 .. Len(s) : s[i] = x
    BY DEF Elements
  <2>2. {k \in DOMAIN s : s[k] = x} = {i}
    BY <1>1, <2>1
  <2>. QED BY <2>2, FS_Singleton
<1>. QED BY <1>2, <1>3 DEF ToBag

LEMMA StillDifferent ==
  ASSUME NEW X, NEW s \in Seq(X), NEW t \in Seq(X), Len(t) = Len(s), Elements(t) = Elements(s),
         \A i, j \in 1 .. Len(s) : s[i] = s[j] => i = j
  PROVE  \A i, j \in 1 .. Len(t) : t[i] = t[j] => i = j
<1>1. PICK S : S = 1 .. Len(s)
  OBVIOUS
<1>2. PICK T : T = Elements(s)
  OBVIOUS
<1>3. IsFiniteSet(S)
  <2>1. Len(s) \in Nat
    OBVIOUS
  <2>. QED BY <1>1, <2>1, FS_Interval
<1>4. s \in [S -> T] /\ t \in [S -> T]
  <2>1. \A i \in S : s[i] \in T /\ t[i] \in T
    BY <1>1, <1>2 DEF Elements
  <2>2. s \in [S -> X] /\ t \in [S -> X]
    BY <1>1
  <2>. QED BY <2>1, <2>2
<1>5. s \in Surjection(S, T)
  BY <1>1, <1>2, <1>4 DEF Surjection, Elements
<1>6. t \in Surjection(S, T)
  BY <1>1, <1>2, <1>4 DEF Surjection, Elements
<1>7. s \in Injection(S, T)
  BY <1>1, <1>4 DEF Injection, IsInjective
<1>8. Cardinality(T) = Cardinality(S)
  BY <1>3, <1>5, <1>7, FS_Surjection
<1>9. t \in Injection(S, T)
  BY <1>3, <1>6, <1>8, FS_Surjection
<1>. QED BY <1>1, <1>9 DEF Injection, IsInjective

LEMMA SortPermutes ==
  ASSUME NEW full, NEW X, X \subseteq Sortable, NEW s \in Seq(X), Distinct(s)
  PROVE  ToBag(SortList(s, full)) = ToBag(s)
<1>1. PICK m : m = SortList(s, full)
  OBVIOUS
<1>2. m \in Seq(X) /\ Len(m) = Len(s) /\ Elements(m) = Elements(s)
  BY <1>1, SortKeeps
<1>3. \A i, j \in 1 .. Len(s) : s[i] = s[j] => i = j
  BY DEF Distinct
<1>4. \A i, j \in 1 .. Len(m) : m[i] = m[j] => i = j
  BY <1>2, <1>3, StillDifferent
<1>5. ToBag(s) = [x \in Elements(s) |-> 1]
  BY <1>3, BagOfDifferent
<1>6. ToBag(m) = [x \in Elements(m) |-> 1]
  BY <1>2, <1>4, BagOfDifferent
<1>. QED BY <1>1, <1>2, <1>5, <1>6

-------------------------------------------------------------------------------
(* The exported document.                                                        *)

LEMMA ExportedEvents ==
  ASSUME RInv, step # "gather", NEW p \in EventPhases
  PROVE  Exported(p) \in Seq(NamedEvents) /\ ToBag(Exported(p)) = ToBag(Copied(p))
<1>1. PICK X : X = {e \in NamedEvents : e.id \in DOMAIN naming /\ e.name = naming[e.id]}
  OBVIOUS
<1>2. PICK c : c = Copied(p)
  OBVIOUS
<1>3. c \in Seq(X) /\ Distinct(c)
  BY <1>1, <1>2, Copies
<1>4. X \subseteq Sortable /\ X \subseteq NamedEvents
  BY <1>1 DEF Sortable
<1>5. PICK m : m = SortList(c, TRUE)
  OBVIOUS
<1>6. m \in Seq(X)
  BY <1>3, <1>4, <1>5, SortKeeps
<1>7. m \in Seq(NamedEvents)
  BY <1>4, <1>6
<1>8. ToBag(m) = ToBag(c)
  BY <1>3, <1>4, <1>5, SortPermutes
<1>. QED BY <1>2, <1>5, <1>7, <1>8 DEF Exported

ReportText == Text("Report", << >>, << ListText(2, Exported(2)), ListText(1, Exported(1)) >>)
DocInv == doc # NoDoc => step = "end" /\ doc = Doc(ReportText, << >>)

\* The document stands while the lists do.
LEMMA DocStands ==
  ASSUME RInv, DocInv, doc' = doc, step' = step \/ doc = NoDoc,
         doc # NoDoc => list' = list /\ naming' = naming
  PROVE  DocInv'
<1>1. CASE doc = NoDoc
  BY <1>1 DEF DocInv
<1>2. CASE doc # NoDoc
  <2>1. list' = list /\ naming' = naming /\ doc = Doc(ReportText, << >>) /\ step = "end" /\ step' = step
    BY <1>2 DEF DocInv
  <2>2. \A p : Copied(p)' = Copied(p)
    BY <2>1 DEF Copied, Named
  <2>3. \A p : Exported(p)' = Exported(p)
    BY <2>2 DEF Exported
  <2>4. ReportText' = ReportText
    BY <2>3 DEF ReportText
  <2>. QED BY <2>1, <2>4 DEF DocInv
<1>. QED BY <1>1, <1>2

LEMMA DocWritten ==
  ASSUME RInv, DocInv, export_xml
  PROVE  DocInv'
<1>1. step = "export" /\ step' = "end" /\ list' = list /\ naming' = naming
  BY DEF export_xml, vars
<1>2. doc = NoDoc
  BY <1>1 DEF RInv, StepInv
<1>3. CASE doc' = doc
  BY <1>2, <1>3 DEF DocInv
<1>4. CASE doc' # doc
  <2>1. doc' = EndElement(ExportList(ExportList(StartElement(NoDoc, "Report"), 2, Exported(2)),
                                   1, Exported(1)))
    BY <1>4 DEF export_xml
  <2>2. PICK coretimes : coretimes = Exported(2)
    OBVIOUS
  <2>3. PICK times : times = Exported(1)
    OBVIOUS
  <2>4. coretimes \in Seq(NamedEvents) /\ times \in Seq(NamedEvents)
    BY <1>1, <2>2, <2>3, ExportedEvents DEF EventPhases
  <2>5. doc' = Doc(Text("Report", << >>, << ListText(2, coretimes), ListText(1, times) >>), << >>)
    BY <2>1, <2>2, <2>3, <2>4, ReportWritten
  <2>6. \A p : Copied(p)' = Copied(p)
    BY <1>1 DEF Copied, Named
  <2>7. Exported(2)' = coretimes /\ Exported(1)' = times
    BY <2>2, <2>3, <2>6 DEF Exported
  <2>8. ReportText' = Text("Report", << >>, << ListText(2, coretimes), ListText(1, times) >>)
    BY <2>7 DEF ReportText
  <2>. QED BY <1>1, <2>5, <2>8 DEF DocInv
<1>. QED BY <1>3, <1>4

LEMMA NextDocInv == RInv /\ DocInv /\ [RNext]_rvars => DocInv'
<1> SUFFICES ASSUME RInv, DocInv, [RNext]_rvars PROVE DocInv'
  OBVIOUS
<1>1. CASE GatherStep
  <2>1. UNCHANGED << options, naming, step, doc >>
    BY <1>1 DEF GatherStep
  <2>2. doc # NoDoc => list' = list
    BY <1>1, ListsStand DEF DocInv
  <2>. QED BY <2>1, <2>2, DocStands
<1>2. CASE Look \/ iiTimeReport \/ iiCoreTimeReport
  <2>1. doc' = doc /\ step # "end"
    BY <1>2 DEF Look, iiTimeReport, iiCoreTimeReport, SortFor
  <2>2. doc = NoDoc
    BY <2>1 DEF DocInv
  <2>. QED BY <2>1, <2>2, DocStands
<1>3. CASE export_xml
  BY <1>3, DocWritten
<1>4. CASE RTerminated \/ UNCHANGED rvars
  <2>1. UNCHANGED << vars, options, naming, step, doc >>
    BY <1>4 DEF RTerminated, rvars
  <2>2. list' = list
    BY <2>1 DEF vars
  <2>. QED BY <2>1, <2>2, DocStands
<1>. QED BY <1>1, <1>2, <1>3, <1>4 DEF RNext, ReportStep

\* The exported document is the text of one tree with an element for every event the master
\* has gathered, each in the list of its kind and with its own figures, for any number of
\* ranks, events and names, and the sorted copies are a permutation of the events even where
\* the names make the order no order (main.c:323-421, xml.c:70-127).
THEOREM ExportsReadBack == RSpec => []ExportReadsBack
<1>1. RInit => DocInv
  BY DEF RInit, DocInv
<1>2. RInv /\ DocInv => ExportReadsBack
  <2> SUFFICES ASSUME RInv, DocInv, doc # NoDoc
               PROVE  /\ doc.stack = << >>
                      /\ doc.buffer = ReportText
                      /\ \A p \in EventPhases : ToBag(Exported(p)) = ToBag(Copied(p))
    BY DEF ExportReadsBack, ReportText
  <2>1. step # "gather"
    BY DEF DocInv
  <2>2. doc.stack = << >> /\ doc.buffer = ReportText
    BY DEF DocInv, Doc
  <2>. QED BY <2>1, <2>2, ExportedEvents
<1>. QED BY <1>1, <1>2, NextDocInv, ReportInductive, PTL DEF RSpec
===============================================================================
