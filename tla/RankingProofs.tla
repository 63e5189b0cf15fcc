---------------------------- MODULE RankingProofs ----------------------------
(***************************************************************************)
(* Theorems about Ranking, for any users, products, windows and limits.    *)
(*                                                                         *)
(* Every list is the top of a finite set in a strict order.  A list is     *)
(* then known by two facts: who is in it, those with fewer than the limit  *)
(* before them, and who is ahead of p in it, those before p.  How lists    *)
(* change is a matter of how the sets before a product change.             *)
(***************************************************************************)
EXTENDS Ranking, FiniteSetTheorems, TLAPS

\* before orders its domain, a finite set, strictly.
Ordered(before) ==
    /\ IsFiniteSet(DOMAIN before)
    /\ \A x \in DOMAIN before : before[x] \subseteq DOMAIN before /\ x \notin before[x]
    /\ \A x, y \in DOMAIN before : x # y => x \in before[y] \/ y \in before[x]
    /\ \A x, y \in DOMAIN before : y \in before[x] => before[y] \subseteq before[x]

----------------------------------------------------------------------------
\* Who has more before him comes later, and no two have as many.
LEMMA RanksDiffer ==
    ASSUME NEW before, Ordered(before)
    PROVE  /\ \A x \in DOMAIN before : /\ IsFiniteSet(before[x])
                                       /\ Cardinality(before[x]) \in 0 .. Cardinality(DOMAIN before) - 1
           /\ \A x, y \in DOMAIN before :
                 y \in before[x] <=> Cardinality(before[y]) < Cardinality(before[x])
           /\ \A x, y \in DOMAIN before : Cardinality(before[x]) = Cardinality(before[y]) => x = y
<1>1. ASSUME NEW x \in DOMAIN before
      PROVE  /\ IsFiniteSet(before[x])
             /\ Cardinality(before[x]) \in 0 .. Cardinality(DOMAIN before) - 1
  <2>1. IsFiniteSet(before[x]) /\ Cardinality(before[x]) <= Cardinality(DOMAIN before)
    BY FS_Subset DEF Ordered
  <2>2. Cardinality(before[x]) # Cardinality(DOMAIN before)
    BY FS_Subset DEF Ordered
  <2>3. Cardinality(before[x]) \in Nat /\ Cardinality(DOMAIN before) \in Nat
    BY <2>1, FS_CardinalityType DEF Ordered
  <2>. QED
    BY <2>1, <2>2, <2>3
<1>2. ASSUME NEW x \in DOMAIN before, NEW y \in DOMAIN before, y \in before[x]
      PROVE  Cardinality(before[y]) < Cardinality(before[x])
  <2>1. before[y] \subseteq before[x] /\ before[y] # before[x]
    BY <1>2 DEF Ordered
  <2>2. /\ Cardinality(before[y]) <= Cardinality(before[x])
        /\ Cardinality(before[y]) # Cardinality(before[x])
    BY <1>1, <2>1, FS_Subset
  <2>. QED
    BY <1>1, <2>2
<1>3. ASSUME NEW x \in DOMAIN before, NEW y \in DOMAIN before, y \notin before[x], x # y
      PROVE  Cardinality(before[x]) < Cardinality(before[y])
  BY <1>2, <1>3 DEF Ordered
<1>4. ASSUME NEW x \in DOMAIN before, NEW y \in DOMAIN before
      PROVE  /\ y \in before[x] <=> Cardinality(before[y]) < Cardinality(before[x])
             /\ Cardinality(before[x]) = Cardinality(before[y]) => x = y
  <2>1. Cardinality(before[x]) \in Nat /\ Cardinality(before[y]) \in Nat
    BY <1>1
  <2>2. CASE y \in before[x]
    BY <2>1, <2>2, <1>2
  <2>3. CASE y \notin before[x] /\ x # y
    BY <2>1, <2>3, <1>3
  <2>4. CASE x = y
    BY <2>1, <2>4 DEF Ordered
  <2>. QED
    BY <2>2, <2>3, <2>4
<1>. QED
  BY <1>1, <1>4

\* The list of an ordered set: the place of x is the number of those before it.
LEMMA ListPlaces ==
    ASSUME NEW before, Ordered(before)
    PROVE  /\ Cardinality(DOMAIN before) \in Nat
           /\ ListOf(before) \in [1 .. Cardinality(DOMAIN before) -> DOMAIN before]
           /\ \A k \in 1 .. Cardinality(DOMAIN before) :
                 Cardinality(before[ListOf(before)[k]]) = k - 1
           /\ \A x \in DOMAIN before : ListOf(before)[Cardinality(before[x]) + 1] = x
<1> DEFINE S == DOMAIN before
           n == Cardinality(S)
           place == [x \in S |-> Cardinality(before[x]) + 1]
<1>1. IsFiniteSet(S) /\ n \in Nat
  BY FS_CardinalityType DEF Ordered
<1>2. place \in [S -> 1 .. n]
  BY <1>1, RanksDiffer
<1>3. \A x, y \in S : place[x] = place[y] => x = y
  BY <1>1, RanksDiffer
<1>4. place \in Injection(S, 1 .. n)
  BY <1>2, <1>3 DEF Injection, IsInjective
<1>5. IsFiniteSet(1 .. n) /\ Cardinality(1 .. n) = n
  <2>1. Cardinality(1 .. n) = IF 1 > n THEN 0 ELSE n - 1 + 1
    BY <1>1, FS_Interval
  <2>. QED
    BY <1>1, <2>1, FS_Interval
<1>6. place \in Surjection(S, 1 .. n)
  BY <1>4, <1>5, FS_Injection
<1>7. \A k \in 1 .. n : \E x \in S : Cardinality(before[x]) = k - 1
  <2>1. ASSUME NEW k \in 1 .. n
        PROVE  \E x \in S : Cardinality(before[x]) = k - 1
    <3>1. PICK x \in S : place[x] = k
      BY <1>6 DEF Surjection
    <3>. QED
      BY <1>1, <3>1, RanksDiffer
  <2>. QED
    BY <2>1
<1>8. ASSUME NEW k \in 1 .. n
      PROVE  ListOf(before)[k] \in S /\ Cardinality(before[ListOf(before)[k]]) = k - 1
  BY <1>7 DEF ListOf
<1>9. ASSUME NEW x \in S
      PROVE  ListOf(before)[Cardinality(before[x]) + 1] = x
  <2>1. Cardinality(before[x]) + 1 \in 1 .. n
    BY <1>1, RanksDiffer
  <2>2. PICK k : k = Cardinality(before[x]) + 1
    OBVIOUS
  <2>3. Cardinality(before[ListOf(before)[k]]) = Cardinality(before[x]) /\ ListOf(before)[k] \in S
    BY <2>1, <2>2, <1>8, RanksDiffer
  <2>. QED
    BY <2>2, <2>3, RanksDiffer
<1>10. ListOf(before) \in [1 .. n -> S]
  BY <1>8 DEF ListOf
<1>. QED
  BY <1>1, <1>8, <1>9, <1>10

\* Cut off at m, it holds those with fewer than m before them, in that order.
LEMMA TopOfList ==
    ASSUME NEW s, NEW n \in Nat, NEW S, s \in [1 .. n -> S], NEW m \in Nat
    PROVE  /\ TakeTop(s, m) \in Seq(S) /\ Len(TakeTop(s, m)) <= m
           /\ DOMAIN TakeTop(s, m) = {k \in 1 .. n : k <= m}
           /\ \A k \in DOMAIN TakeTop(s, m) : TakeTop(s, m)[k] = s[k]
<1>1. s \in Seq(S) /\ Len(s) = n
  OBVIOUS
<1>2. PICK l : l = IF n <= m THEN n ELSE m
  OBVIOUS
<1>3. TakeTop(s, m) = SubSeq(s, 1, l) /\ l \in 0 .. n
  BY <1>1, <1>2 DEF TakeTop
<1>4. SubSeq(s, 1, l) = [i \in 1 .. l |-> s[i]]
  BY <1>1, <1>3
<1>5. TakeTop(s, m) = [i \in 1 .. l |-> s[i]]
  BY <1>3, <1>4
<1>6. 1 .. l = {k \in 1 .. n : k <= m}
  BY <1>2
<1>7. TakeTop(s, m) \in Seq(S) /\ Len(TakeTop(s, m)) = l
  BY <1>5, <1>3
<1>. QED
  BY <1>2, <1>5, <1>6, <1>7

LEMMA RankedList ==
    ASSUME NEW before, Ordered(before), NEW m \in Nat
    PROVE  /\ TakeTop(ListOf(before), m) \in Seq(DOMAIN before)
           /\ Len(TakeTop(ListOf(before), m)) <= m
           /\ IsInjective(TakeTop(ListOf(before), m))
           /\ Range(TakeTop(ListOf(before), m)) = {x \in DOMAIN before : Cardinality(before[x]) < m}
           /\ \A x \in Range(TakeTop(ListOf(before), m)) :
                 Ahead(TakeTop(ListOf(before), m), x) = before[x]
           /\ \A i, j \in DOMAIN TakeTop(ListOf(before), m) :
                 i < j => TakeTop(ListOf(before), m)[i] \in before[TakeTop(ListOf(before), m)[j]]
<1>1. PICK s : s = ListOf(before)
  OBVIOUS
<1>2. PICK n : n = Cardinality(DOMAIN before)
  OBVIOUS
<1>3. /\ n \in Nat /\ s \in [1 .. n -> DOMAIN before]
      /\ \A k \in 1 .. n : Cardinality(before[s[k]]) = k - 1
      /\ \A x \in DOMAIN before : s[Cardinality(before[x]) + 1] = x
  BY <1>1, <1>2, ListPlaces
<1>4. PICK l : l = TakeTop(s, m)
  OBVIOUS
<1>5. /\ l \in Seq(DOMAIN before) /\ Len(l) <= m
      /\ DOMAIN l = {k \in 1 .. n : k <= m}
      /\ \A k \in DOMAIN l : l[k] = s[k]
  <2>1. PICK S : S = DOMAIN before
    OBVIOUS
  <2>2. s \in [1 .. n -> S]
    BY <1>3, <2>1
  <2>3. n \in Nat
    BY <1>3
  <2>4. /\ TakeTop(s, m) \in Seq(S) /\ Len(TakeTop(s, m)) <= m
        /\ DOMAIN TakeTop(s, m) = {k \in 1 .. n : k <= m}
        /\ \A k \in DOMAIN TakeTop(s, m) : TakeTop(s, m)[k] = s[k]
    BY <2>2, <2>3, TopOfList, ZenonT(30)
  <2>. QED
    BY <1>4, <2>1, <2>4
<1>6. \A k \in DOMAIN l : l[k] \in DOMAIN before /\ Cardinality(before[l[k]]) = k - 1 /\ k \in 1 .. n
  BY <1>3, <1>5
<1>7. \A x \in DOMAIN before : Cardinality(before[x]) \in 0 .. n - 1
  BY <1>2, RanksDiffer
<1>8. IsInjective(l)
  BY <1>3, <1>6 DEF IsInjective
<1>9. \A x \in DOMAIN before : Cardinality(before[x]) < m =>
          Cardinality(before[x]) + 1 \in DOMAIN l /\ l[Cardinality(before[x]) + 1] = x
  BY <1>3, <1>5, <1>7
<1>10. Range(l) = {x \in DOMAIN before : Cardinality(before[x]) < m}
  <2>1. \A x \in Range(l) : x \in DOMAIN before /\ Cardinality(before[x]) < m
    BY <1>3, <1>5, <1>6 DEF Range
  <2>2. \A x \in DOMAIN before : Cardinality(before[x]) < m => x \in Range(l)
    BY <1>9 DEF Range
  <2>. QED
    BY <2>1, <2>2
<1>11. \A i, j \in DOMAIN l : i < j <=> l[i] \in before[l[j]]
  BY <1>3, <1>6, RanksDiffer
<1>12. \A x \in Range(l) : Ahead(l, x) = before[x]
  <2>1. ASSUME NEW j \in DOMAIN l
        PROVE  Ahead(l, l[j]) = before[l[j]]
    <3>1. \A y \in Ahead(l, l[j]) : y \in before[l[j]]
      BY <1>11 DEF Ahead
    <3>2. ASSUME NEW y \in before[l[j]]
          PROVE  y \in Ahead(l, l[j])
      <4>1. y \in DOMAIN before /\ l[j] \in DOMAIN before
        BY <1>6 DEF Ordered
      <4>2. Cardinality(before[y]) < Cardinality(before[l[j]])
        BY <4>1, <3>2, RanksDiffer
      <4>3. Cardinality(before[y]) < m
        BY <4>1, <4>2, <1>3, <1>5, <1>6, <1>7
      <4>4. Cardinality(before[y]) + 1 < j
        BY <4>1, <4>2, <1>3, <1>6, <1>7
      <4>. QED
        BY <4>1, <4>3, <4>4, <1>9 DEF Ahead
    <3>. QED
      BY <3>1, <3>2
  <2>. QED
    BY <2>1 DEF Range
<1>. QED
  BY <1>1, <1>4, <1>5, <1>8, <1>10, <1>11, <1>12

\* A product with no new rival before it keeps or betters its place.
LEMMA FewerBeforeLifts ==
    ASSUME NEW old, Ordered(old), NEW new, Ordered(new), NEW m \in Nat, NEW p,
           p \in DOMAIN old => p \in DOMAIN new /\ new[p] \subseteq old[p]
    PROVE  Lifts(TakeTop(ListOf(old), m), TakeTop(ListOf(new), m), p)
<1>1. SUFFICES ASSUME p \in Range(TakeTop(ListOf(old), m))
               PROVE  /\ p \in Range(TakeTop(ListOf(new), m))
                      /\ Ahead(TakeTop(ListOf(new), m), p) \subseteq Ahead(TakeTop(ListOf(old), m), p)
  BY DEF Lifts
<1>2. p \in DOMAIN old /\ Cardinality(old[p]) < m
  BY <1>1, RankedList
<1>3. Cardinality(new[p]) <= Cardinality(old[p])
  BY <1>2, RanksDiffer, FS_Subset
<1>4. Cardinality(new[p]) < m
  BY <1>2, <1>3, RanksDiffer, FS_CardinalityType
<1>5. p \in Range(TakeTop(ListOf(new), m))
  BY <1>2, <1>4, RankedList
<1>. QED
  BY <1>1, <1>2, <1>5, RankedList

\* A product that keeps all its rivals does not come into the list.
LEMMA MoreBeforeKeepsOut ==
    ASSUME NEW old, Ordered(old), NEW new, Ordered(new), NEW m \in Nat, NEW p,
           p \in DOMAIN new => p \in DOMAIN old /\ old[p] \subseteq new[p],
           p \in Range(TakeTop(ListOf(new), m))
    PROVE  p \in Range(TakeTop(ListOf(old), m))
<1>1. p \in DOMAIN new /\ Cardinality(new[p]) < m
  BY RankedList
<1>2. Cardinality(old[p]) <= Cardinality(new[p])
  BY <1>1, RanksDiffer, FS_Subset
<1>3. Cardinality(old[p]) < m
  BY <1>1, <1>2, RanksDiffer, FS_CardinalityType
<1>. QED
  BY <1>1, <1>3, RankedList

----------------------------------------------------------------------------
\* The order of ByScore.
Better(score) ==
    [p \in DOMAIN score |-> {q \in DOMAIN score : \/ score[q] > score[p]
                                                 \/ (score[q] = score[p] /\ q < p)}]

\* It is an order, by which the list that ByScore returns is known.
LEMMA ScoreOrders ==
    ASSUME NEW score, IsFiniteSet(DOMAIN score), DOMAIN score \subseteq Int,
           \A p \in DOMAIN score : score[p] \in Int
    PROVE  /\ Ordered(Better(score)) /\ ByScore(score) = ListOf(Better(score))
           /\ DOMAIN Better(score) = DOMAIN score
<1>1. PICK S : S = DOMAIN score
  OBVIOUS
<1>2. /\ DOMAIN Better(score) = S
      /\ \A p \in S : Better(score)[p] = {q \in S : \/ score[q] > score[p]
                                                   \/ (score[q] = score[p] /\ q < p)}
  BY <1>1 DEF Better
<1>3. \A p \in S : p \in Int /\ score[p] \in Int
  BY <1>1
<1>4. \A p \in S : Better(score)[p] \subseteq S /\ p \notin Better(score)[p]
  BY <1>2, <1>3
<1>5. \A p, q \in S : p # q => p \in Better(score)[q] \/ q \in Better(score)[p]
  BY <1>2, <1>3
<1>6. ASSUME NEW p \in S, NEW q \in S, q \in Better(score)[p], NEW x \in Better(score)[q]
      PROVE  x \in Better(score)[p]
  BY <1>2, <1>3, <1>6
<1>7. ByScore(score) = ListOf(Better(score))
  BY DEF ByScore, Better
<1>. QED
  BY <1>1, <1>2, <1>4, <1>5, <1>6, <1>7 DEF Ordered

----------------------------------------------------------------------------
\* A table: rows in the order of their days, none of a day to come.
Table(t) ==
    /\ t.actions \in Seq(Row) /\ t.today \in Nat
    /\ \A i, j \in DOMAIN t.actions : i < j => t.actions[i].created_at <= t.actions[j].created_at
    /\ \A i \in DOMAIN t.actions : t.actions[i].created_at <= t.today

RowsOf(t, u) == {i \in Window(t, HistoryDays) : t.actions[i].user_id = u}

\* The rows of a table and of a window are rows, and finitely many.
LEMMA RowsOfTable ==
    ASSUME NEW t, Table(t)
    PROVE  /\ Len(t.actions) \in Nat /\ DOMAIN t.actions = 1 .. Len(t.actions)
           /\ \A i \in DOMAIN t.actions : /\ t.actions[i] \in Row
                                         /\ t.actions[i].created_at \in Int
<1>1. PICK a \in Seq(Row) : a = t.actions
  BY DEF Table
<1>2. Len(a) \in Nat /\ DOMAIN a = 1 .. Len(a) /\ \A i \in DOMAIN a : a[i] \in Row
  OBVIOUS
<1>3. \A r \in Row : r.created_at \in Int
  BY DEF Row
<1>. QED
  BY <1>1, <1>2, <1>3

LEMMA WindowRows ==
    ASSUME NEW t, Table(t), NEW days
    PROVE  /\ Window(t, days) \subseteq 1 .. Len(t.actions) /\ Len(t.actions) \in Nat
           /\ DOMAIN t.actions = 1 .. Len(t.actions)
           /\ IsFiniteSet(Window(t, days))
           /\ \A i \in Window(t, days) : /\ t.actions[i] \in Row
                                         /\ Pid(t, i) \in Nat /\ TypeRank(t, i) \in Nat
<1>1. /\ Window(t, days) \subseteq 1 .. Len(t.actions) /\ Len(t.actions) \in Nat
      /\ DOMAIN t.actions = 1 .. Len(t.actions)
  BY DEF Table, Window
<1>2. IsFiniteSet(Window(t, days))
  <2>1. IsFiniteSet(1 .. Len(t.actions))
    BY <1>1, FS_Interval
  <2>. QED
    BY <1>1, <2>1, FS_Subset
<1>3. \A i \in Window(t, days) : t.actions[i] \in Row
  BY <1>1 DEF Table
<1>4. \A i \in Window(t, days) : Pid(t, i) \in Nat
  BY RankingAssumption DEF Window, Pid
<1>5. \A i \in Window(t, days) : TypeRank(t, i) \in Nat
  BY DEF Window, TypeRank, HistoryRank
<1>. QED
  BY <1>1, <1>2, <1>3, <1>4, <1>5

\* The order of a user's latest rows in kRecentProductIds.
HistoryOrder(t, u) == [i \in Latest(t, u) |-> Preferred(t, u, i)]

LEMMA HistoryOrders ==
    ASSUME NEW t, Table(t), NEW u
    PROVE  /\ Ordered(HistoryOrder(t, u)) /\ DOMAIN HistoryOrder(t, u) = Latest(t, u)
           /\ \A i \in Latest(t, u) : HistoryOrder(t, u)[i] = Preferred(t, u, i)
           /\ \A i, j \in Latest(t, u) : Pid(t, i) = Pid(t, j) => i = j
           /\ Latest(t, u) \subseteq Window(t, HistoryDays)
<1>1. Latest(t, u) \subseteq Window(t, HistoryDays)
  BY DEF Latest
<1>2. \A i \in Latest(t, u) : i \in Nat /\ TypeRank(t, i) \in Nat
  BY <1>1, WindowRows
<1>3. IsFiniteSet(Latest(t, u))
  BY <1>1, WindowRows, FS_Subset
<1>4. /\ DOMAIN HistoryOrder(t, u) = Latest(t, u)
      /\ \A i \in Latest(t, u) : HistoryOrder(t, u)[i] = Preferred(t, u, i)
  BY DEF HistoryOrder
<1>5. \A i, j \in Latest(t, u) : Pid(t, i) = Pid(t, j) => i = j
  <2>1. \A i, j \in Latest(t, u) : Pid(t, i) = Pid(t, j) => j <= i /\ i <= j
    BY DEF Latest
  <2>. QED
    BY <1>2, <2>1
<1>6. \A i \in Latest(t, u) : Preferred(t, u, i) \subseteq Latest(t, u) /\ i \notin Preferred(t, u, i)
  BY <1>2 DEF Preferred
<1>7. \A i, j \in Latest(t, u) : i # j => i \in Preferred(t, u, j) \/ j \in Preferred(t, u, i)
  BY <1>2 DEF Preferred
<1>8. ASSUME NEW i \in Latest(t, u), NEW j \in Latest(t, u), j \in Preferred(t, u, i),
             NEW k \in Preferred(t, u, j)
      PROVE  k \in Preferred(t, u, i)
  BY <1>2, <1>8 DEF Preferred
<1>. QED
  BY <1>1, <1>3, <1>4, <1>5, <1>6, <1>7, <1>8 DEF Ordered

\* The order of the rows as one of the products they are about.
ProductOrder(t, u) ==
    [p \in {Pid(t, i) : i \in Latest(t, u)} |->
        {Pid(t, j) : j \in Preferred(t, u, CHOOSE i \in Latest(t, u) : Pid(t, i) = p)}]

LEMMA HistoryList ==
    ASSUME NEW t, Table(t), NEW u
    PROVE  /\ Ordered(ProductOrder(t, u)) /\ DOMAIN ProductOrder(t, u) \subseteq Nat
           /\ DOMAIN ProductOrder(t, u) = {Pid(t, i) : i \in Latest(t, u)}
           /\ \A i \in Latest(t, u) :
                 ProductOrder(t, u)[Pid(t, i)] = {Pid(t, j) : j \in Preferred(t, u, i)}
           /\ RecentProductIds(t, u) = TakeTop(ListOf(ProductOrder(t, u)), ListLimit)
<1>1. PICK s, n, L, b, R : /\ s = ListOf(HistoryOrder(t, u)) /\ n = Cardinality(L)
                           /\ L = Latest(t, u) /\ b = ProductOrder(t, u)
                           /\ R = [i \in L |-> Preferred(t, u, i)]
  OBVIOUS
<1>2. R = HistoryOrder(t, u) /\ Ordered(R) /\ DOMAIN R = L
  BY <1>1, HistoryOrders DEF HistoryOrder
<1>3. /\ n \in Nat /\ s \in [1 .. n -> L]
      /\ \A k \in 1 .. n : Cardinality(R[s[k]]) = k - 1
  BY <1>1, <1>2, ListPlaces
<1>4. \A i \in L : Pid(t, i) \in Nat
  BY <1>1, HistoryOrders, WindowRows
<1>5. \A i, j \in L : Pid(t, i) = Pid(t, j) => i = j
  BY <1>1, HistoryOrders
<1>6. DOMAIN b = {Pid(t, i) : i \in L}
  BY <1>1 DEF ProductOrder
<1>7. ASSUME NEW i \in L
      PROVE  b[Pid(t, i)] = {Pid(t, j) : j \in R[i]}
  <2>1. PICK c : c = CHOOSE x \in L : Pid(t, x) = Pid(t, i)
    OBVIOUS
  <2>2. c \in L /\ Pid(t, c) = Pid(t, i)
    BY <2>1
  <2>3. c = i
    BY <1>5, <2>2
  <2>4. b[Pid(t, i)] = {Pid(t, j) : j \in Preferred(t, u, c)}
    BY <1>1, <2>1 DEF ProductOrder
  <2>. QED
    BY <1>1, <2>3, <2>4
<1>8. \A i, j \in L : Pid(t, j) \in b[Pid(t, i)] <=> j \in R[i]
  BY <1>2, <1>5, <1>7 DEF Ordered
<1>9. ASSUME NEW S \in SUBSET L
      PROVE  /\ IsFiniteSet({Pid(t, i) : i \in S})
             /\ Cardinality({Pid(t, i) : i \in S}) = Cardinality(S)
  <2>1. PICK f : f = [i \in S |-> Pid(t, i)]
    OBVIOUS
  <2>2. PICK T : T = {Pid(t, i) : i \in S}
    OBVIOUS
  <2>3. f \in Surjection(S, T) /\ f \in Injection(S, T)
    BY <1>5, <2>1, <2>2 DEF Surjection, Injection, IsInjective
  <2>4. IsFiniteSet(S)
    BY <1>2, FS_Subset DEF Ordered
  <2>. QED
    BY <2>2, <2>3, <2>4, FS_Surjection
<1>10. Ordered(b)
  <2>1. IsFiniteSet(DOMAIN b)
    BY <1>6, <1>9
  <2>2. \A x \in DOMAIN b : \E i \in L : x = Pid(t, i)
    BY <1>6
  <2>3. \A i \in L : b[Pid(t, i)] \subseteq DOMAIN b
    BY <1>2, <1>6, <1>7 DEF Ordered
  <2>4. \A i \in L : Pid(t, i) \notin b[Pid(t, i)]
    BY <1>2, <1>8 DEF Ordered
  <2>5. \A i, j \in L : i # j => Pid(t, i) \in b[Pid(t, j)] \/ Pid(t, j) \in b[Pid(t, i)]
    BY <1>2, <1>8 DEF Ordered
  <2>6. \A i, j \in L : j \in R[i] => b[Pid(t, j)] \subseteq b[Pid(t, i)]
    BY <1>2, <1>7 DEF Ordered
  <2>7. \A x \in DOMAIN b : b[x] \subseteq DOMAIN b /\ x \notin b[x]
    BY <2>2, <2>3, <2>4
  <2>8. \A x, y \in DOMAIN b : x # y => x \in b[y] \/ y \in b[x]
    BY <2>2, <2>5
  <2>9. \A x, y \in DOMAIN b : y \in b[x] => b[y] \subseteq b[x]
    BY <1>8, <2>2, <2>6
  <2>. QED
    BY <2>1, <2>7, <2>8, <2>9 DEF Ordered
<1>11. ListOf(b) = [k \in DOMAIN s |-> Pid(t, s[k])]
  <2>1. Cardinality(DOMAIN b) = n
    BY <1>1, <1>6, <1>9
  <2>2. ASSUME NEW k \in 1 .. n
        PROVE  ListOf(b)[k] = Pid(t, s[k])
    <3>1. s[k] \in L /\ R[s[k]] \in SUBSET L /\ Cardinality(R[s[k]]) = k - 1
      BY <1>2, <1>3 DEF Ordered
    <3>2. Cardinality(b[Pid(t, s[k])]) = k - 1
      BY <1>7, <1>9, <3>1
    <3>3. Pid(t, s[k]) \in DOMAIN b
      BY <1>6, <3>1
    <3>4. ListOf(b)[Cardinality(b[Pid(t, s[k])]) + 1] = Pid(t, s[k])
      BY <1>10, <3>3, ListPlaces
    <3>. QED
      BY <1>3, <3>2, <3>4
  <2>3. ListOf(b) = [k \in 1 .. n |-> ListOf(b)[k]]
    BY <2>1 DEF ListOf
  <2>. QED
    BY <1>3, <2>2, <2>3
<1>12. RecentProductIds(t, u) = TakeTop(ListOf(b), ListLimit)
  BY <1>1, <1>2, <1>11 DEF RecentProductIds, Listed
<1>13. \A i \in L : b[Pid(t, i)] = {Pid(t, j) : j \in Preferred(t, u, i)}
  BY <1>1, <1>7
<1>14. DOMAIN b \subseteq Nat
  BY <1>4, <1>6
<1>. QED
  BY <1>1, <1>6, <1>10, <1>12, <1>13, <1>14

----------------------------------------------------------------------------
\* The values of a function on a finite set are finitely many.
LEMMA FiniteRange ==
    ASSUME NEW f, IsFiniteSet(DOMAIN f), f = [x \in DOMAIN f |-> f[x]]
    PROVE  IsFiniteSet(Range(f))
<1>1. f \in Surjection(DOMAIN f, Range(f))
  BY DEF Surjection, Range
<1>. QED
  BY <1>1, FS_Surjection

\* What is popular, and how much.
Dealt(t)         == {Pid(t, i) : i \in Window(t, PopularDays)}
RowsAbout(t, p)  == {i \in Window(t, PopularDays) : Pid(t, i) = p}
PopularScores(t) == [p \in Dealt(t) |-> Popularity(t, RowsAbout(t, p))]

\* Those of some rows that are of type a.
Kinds(t, rows, a) == {i \in rows : t.actions[i].action_type = a}

\* More rows make a product more popular.
LEMMA PopularityGrows ==
    ASSUME NEW t, NEW t2, NEW R, NEW R2, IsFiniteSet(R2), R \subseteq R2,
           \A i \in R : t2.actions[i].action_type = t.actions[i].action_type
    PROVE  /\ Popularity(t, R) \in Nat /\ Popularity(t2, R2) \in Nat
           /\ Popularity(t, R) <= Popularity(t2, R2)
<1>1. ASSUME NEW a
      PROVE  /\ Cardinality(Kinds(t, R, a)) \in Nat /\ Cardinality(Kinds(t2, R2, a)) \in Nat
             /\ Cardinality(Kinds(t, R, a)) <= Cardinality(Kinds(t2, R2, a))
  <2>1. Kinds(t2, R2, a) \subseteq R2 /\ Kinds(t, R, a) \subseteq Kinds(t2, R2, a)
    BY DEF Kinds
  <2>2. IsFiniteSet(Kinds(t2, R2, a))
    BY <2>1, FS_Subset
  <2>3. /\ IsFiniteSet(Kinds(t, R, a))
        /\ Cardinality(Kinds(t, R, a)) <= Cardinality(Kinds(t2, R2, a))
    BY <2>1, <2>2, FS_Subset
  <2>. QED
    BY <2>2, <2>3, FS_CardinalityType
<1>2. ASSUME NEW x, NEW rows
      PROVE  Popularity(x, rows) = 3 * Cardinality(Kinds(x, rows, "save"))
                                 + 3 * Cardinality(Kinds(x, rows, "purchase"))
                                 + 2 * Cardinality(Kinds(x, rows, "like"))
                                 + 2 * Cardinality(Kinds(x, rows, "cart_add"))
                                 + 1 * Cardinality(Kinds(x, rows, "view"))
  BY DEF Popularity, PopularWeight, Kinds
<1>3. ASSUME NEW c1 \in Nat, NEW c2 \in Nat, NEW c3 \in Nat, NEW c4 \in Nat, NEW c5 \in Nat,
             NEW d1 \in Nat, NEW d2 \in Nat, NEW d3 \in Nat, NEW d4 \in Nat, NEW d5 \in Nat,
             c1 <= d1, c2 <= d2, c3 <= d3, c4 <= d4, c5 <= d5
      PROVE  /\ 3*c1 + 3*c2 + 2*c3 + 2*c4 + 1*c5 \in Nat
             /\ 3*c1 + 3*c2 + 2*c3 + 2*c4 + 1*c5 <= 3*d1 + 3*d2 + 2*d3 + 2*d4 + 1*d5
  <2>1. \A c, d \in Nat : c <= d => /\ 1*c \in Nat /\ 1*d \in Nat /\ 1*c <= 1*d
                                    /\ 2*c \in Nat /\ 2*d \in Nat /\ 2*c <= 2*d
                                    /\ 3*c \in Nat /\ 3*d \in Nat /\ 3*c <= 3*d
    OBVIOUS
  <2>2. \A v1, v2, v3, v4, v5, w1, w2, w3, w4, w5 \in Nat :
          v1 <= w1 /\ v2 <= w2 /\ v3 <= w3 /\ v4 <= w4 /\ v5 <= w5
            => v1 + v2 + v3 + v4 + v5 \in Nat /\ v1 + v2 + v3 + v4 + v5 <= w1 + w2 + w3 + w4 + w5
    OBVIOUS
  <2>3. /\ 3*c1 \in Nat /\ 3*c2 \in Nat /\ 2*c3 \in Nat /\ 2*c4 \in Nat /\ 1*c5 \in Nat
        /\ 3*d1 \in Nat /\ 3*d2 \in Nat /\ 2*d3 \in Nat /\ 2*d4 \in Nat /\ 1*d5 \in Nat
        /\ 3*c1 <= 3*d1 /\ 3*c2 <= 3*d2 /\ 2*c3 <= 2*d3 /\ 2*c4 <= 2*d4 /\ 1*c5 <= 1*d5
    BY <1>3, <2>1
  <2>. QED
    BY <2>2, <2>3
<1>4. Popularity(t, R) \in Nat /\ Popularity(t, R) <= Popularity(t2, R2)
  BY <1>1, <1>2, <1>3
<1>5. Popularity(t2, R2) \in Nat
  BY <1>1, <1>2, <1>3
<1>. QED
  BY <1>4, <1>5

\* The popular list is the top of an order of the products dealt with.
LEMMA PopularOrder ==
    ASSUME NEW t, Table(t), NEW limit
    PROVE  /\ Ordered(Better(PopularScores(t)))
           /\ DOMAIN Better(PopularScores(t)) = Dealt(t) /\ Dealt(t) \subseteq Nat
           /\ \A p \in Dealt(t) : PopularScores(t)[p] = Popularity(t, RowsAbout(t, p))
           /\ \A p : Popularity(t, RowsAbout(t, p)) \in Nat
           /\ PopularProductIds(t, limit) = TakeTop(ListOf(Better(PopularScores(t))), limit)
<1>1. PICK f : f = [i \in Window(t, PopularDays) |-> Pid(t, i)]
  OBVIOUS
<1>2. Dealt(t) = Range(f) /\ IsFiniteSet(DOMAIN f)
  BY <1>1, WindowRows DEF Dealt, Range
<1>3. IsFiniteSet(Dealt(t))
  BY <1>1, <1>2, FiniteRange
<1>4. Dealt(t) \subseteq Nat
  BY WindowRows DEF Dealt
<1>5. ASSUME NEW p
      PROVE  Popularity(t, RowsAbout(t, p)) \in Nat
  <2>1. RowsAbout(t, p) \subseteq Window(t, PopularDays) /\ IsFiniteSet(Window(t, PopularDays))
    BY WindowRows DEF RowsAbout
  <2>2. IsFiniteSet(RowsAbout(t, p))
    BY <2>1, FS_Subset
  <2>. QED
    BY <2>2, PopularityGrows
<1>6. /\ DOMAIN PopularScores(t) = Dealt(t)
      /\ \A p \in Dealt(t) : PopularScores(t)[p] = Popularity(t, RowsAbout(t, p))
  BY DEF PopularScores
<1>7. /\ Ordered(Better(PopularScores(t))) /\ DOMAIN Better(PopularScores(t)) = Dealt(t)
      /\ ByScore(PopularScores(t)) = ListOf(Better(PopularScores(t)))
  <2>1. \A p \in Dealt(t) : PopularScores(t)[p] \in Int /\ p \in Int
    BY <1>4, <1>5, <1>6
  <2>. QED
    BY <1>3, <1>6, <2>1, ScoreOrders
<1>8. PopularProductIds(t, limit) = TakeTop(ByScore(PopularScores(t)), limit)
  BY DEF PopularProductIds, PopularScores, Dealt, RowsAbout
<1>. QED
  BY <1>4, <1>5, <1>6, <1>7, <1>8

\* Neighbours are in the order of their ids.
IdOrder(anchor) == [p \in Neighbors(anchor) |-> {q \in Neighbors(anchor) : q < p}]

LEMMA NeighborOrders ==
    ASSUME NEW anchor
    PROVE  Ordered(IdOrder(anchor)) /\ DOMAIN IdOrder(anchor) \subseteq Nat
<1>1. Neighbors(anchor) \subseteq DOMAIN Category
  BY DEF Neighbors
<1>2. Neighbors(anchor) \subseteq Nat /\ IsFiniteSet(Neighbors(anchor))
  BY <1>1, RankingAssumption, FS_Subset
<1>3. PICK N : N = Neighbors(anchor)
  OBVIOUS
<1>4. /\ DOMAIN IdOrder(anchor) = N
      /\ \A p \in N : IdOrder(anchor)[p] = {q \in N : q < p}
  BY <1>3 DEF IdOrder
<1>. QED
  BY <1>2, <1>3, <1>4 DEF Ordered

----------------------------------------------------------------------------
SourceNames == {"history", "popular", "gpt_ranked", "similar"}

\* What is merged: four lists without repetitions.
Lists(s) == s \in [SourceNames -> Seq(Nat)] /\ \A k \in SourceNames : IsInjective(s[k])

\* Each of the four queries returns such a list, and so FetchSources four of them.
LEMMA PopularList ==
    ASSUME NEW t, Table(t), NEW limit \in Nat
    PROVE  PopularProductIds(t, limit) \in Seq(Nat) /\ IsInjective(PopularProductIds(t, limit))
<1>1. PICK b : b = Better(PopularScores(t))
  OBVIOUS
<1>2. Ordered(b) /\ DOMAIN b \subseteq Nat /\ PopularProductIds(t, limit) = TakeTop(ListOf(b), limit)
  BY <1>1, PopularOrder
<1>3. TakeTop(ListOf(b), limit) \in Seq(DOMAIN b) /\ IsInjective(TakeTop(ListOf(b), limit))
  BY <1>2, RankedList
<1>. QED
  BY <1>2, <1>3

LEMMA SimilarList ==
    ASSUME NEW t, Table(t), NEW anchor
    PROVE  Similar(t, anchor) \in Seq(Nat) /\ IsInjective(Similar(t, anchor))
<1>1. SimilarLimit \in Nat
  BY RankingAssumption
<1>2. PICK c : c = CatalogNeighborProductIds(anchor, SimilarLimit)
  OBVIOUS
<1>3. c \in Seq(Nat) /\ IsInjective(c)
  <2>1. c = TakeTop(ListOf(IdOrder(anchor)), SimilarLimit)
    BY <1>2 DEF CatalogNeighborProductIds, IdOrder
  <2>2. c \in Seq(DOMAIN IdOrder(anchor)) /\ IsInjective(c)
    BY <1>1, <2>1, NeighborOrders, RankedList
  <2>. QED
    BY <2>2, NeighborOrders
<1>4. <<>> \in Seq(Nat) /\ IsInjective(<<>>)
  BY DEF IsInjective
<1>5. Similar(t, anchor) = IF anchor = 0 THEN <<>>
                           ELSE IF c = <<>> THEN PopularProductIds(t, SimilarLimit) ELSE c
  BY <1>2 DEF Similar
<1>. QED
  BY <1>1, <1>3, <1>4, <1>5, PopularList

LEMMA GptList == /\ TakeTop(GptRanked, StoredLimit) \in Seq(Nat)
                 /\ IsInjective(TakeTop(GptRanked, StoredLimit))
<1>1. GptRanked \in [1 .. Len(GptRanked) -> Nat] /\ Len(GptRanked) \in Nat /\ IsInjective(GptRanked)
  BY RankingAssumption
<1>2. StoredLimit \in Nat
  BY RankingAssumption
<1>3. PICK l : l = TakeTop(GptRanked, StoredLimit)
  OBVIOUS
<1>4. /\ l \in Seq(Nat) /\ DOMAIN l \subseteq 1 .. Len(GptRanked)
      /\ \A k \in DOMAIN l : l[k] = GptRanked[k]
  <2>1. PICK m, n, g : /\ m = StoredLimit /\ n = Len(GptRanked) /\ g = GptRanked
                        /\ m \in Nat /\ n \in Nat
    BY <1>1, <1>2
  <2>2. n \in Nat /\ m \in Nat /\ g \in [1 .. n -> Nat]
    BY <1>1, <2>1
  <2>3. /\ TakeTop(g, m) \in Seq(Nat) /\ Len(TakeTop(g, m)) <= m
        /\ DOMAIN TakeTop(g, m) = {k \in 1 .. n : k <= m}
        /\ \A k \in DOMAIN TakeTop(g, m) : TakeTop(g, m)[k] = g[k]
    BY <2>2, TopOfList, ZenonT(30)
  <2>. QED
    BY <1>3, <2>1, <2>3
<1>. QED
  BY <1>1, <1>3, <1>4 DEF IsInjective

LEMMA FetchedLists ==
    ASSUME NEW t, Table(t), NEW u
    PROVE  Lists(FetchSources(t, u))
<1>1. PICK s : s = FetchSources(t, u)
  OBVIOUS
<1>2. /\ DOMAIN s = SourceNames /\ s = [k \in SourceNames |-> s[k]]
      /\ s.history = RecentProductIds(t, u)
      /\ s.popular = PopularProductIds(t, ListLimit)
      /\ s.gpt_ranked = TakeTop(GptRanked, StoredLimit)
      /\ s.similar = Similar(t, AnchorOf(s))
  BY <1>1 DEF FetchSources, SourceNames, AnchorOf
<1>3. s.history \in Seq(Nat) /\ IsInjective(s.history)
  <2>1. PICK b : b = ProductOrder(t, u)
    OBVIOUS
  <2>2. Ordered(b) /\ DOMAIN b \subseteq Nat /\ s.history = TakeTop(ListOf(b), ListLimit)
    BY <1>2, <2>1, HistoryList
  <2>3. ListLimit \in Nat
    BY RankingAssumption
  <2>4. TakeTop(ListOf(b), ListLimit) \in Seq(DOMAIN b) /\ IsInjective(TakeTop(ListOf(b), ListLimit))
    BY <2>2, <2>3, RankedList
  <2>. QED
    BY <2>2, <2>4
<1>4. s.popular \in Seq(Nat) /\ IsInjective(s.popular)
  BY <1>2, PopularList, RankingAssumption
<1>5. s.gpt_ranked \in Seq(Nat) /\ IsInjective(s.gpt_ranked)
  BY <1>2, GptList
<1>6. s.similar \in Seq(Nat) /\ IsInjective(s.similar)
  BY <1>2, SimilarList
<1>. QED
  BY <1>1, <1>2, <1>3, <1>4, <1>5, <1>6 DEF Lists, SourceNames

\* A list without repetitions adds its weight once or not at all.
LEMMA NamedOnce ==
    ASSUME NEW s, Lists(s), NEW k \in SourceNames, NEW p
    PROVE  Times(s, k, p) = IF p \in Range(s[k]) THEN 1 ELSE 0
<1>1. CASE p \in Range(s[k])
  <2>1. PICK n \in DOMAIN s[k] : s[k][n] = p
    BY <1>1 DEF Range
  <2>2. {m \in DOMAIN s[k] : s[k][m] = p} = {n}
    BY <2>1 DEF Lists, IsInjective
  <2>. QED
    BY <1>1, <2>2, FS_Singleton DEF Times
<1>2. CASE p \notin Range(s[k])
  <2>1. {m \in DOMAIN s[k] : s[k][m] = p} = {}
    BY <1>2 DEF Range
  <2>. QED
    BY <1>2, <2>1, FS_EmptySet DEF Times
<1>. QED
  BY <1>1, <1>2

\* The part of a product's score that source k with weight w gives.
Part(s, k, p) == IF p \in Range(s[k]) THEN SourceWeight[k] ELSE 0

LEMMA ScoreParts ==
    ASSUME NEW s, Lists(s), NEW p
    PROVE  Score(s, p) = Part(s, "history", p) + Part(s, "popular", p)
                           + Part(s, "gpt_ranked", p) + Part(s, "similar", p)
<1>1. ASSUME NEW k \in SourceNames
      PROVE  SourceWeight[k] * Times(s, k, p) = Part(s, k, p)
  <2>1. SourceWeight[k] \in Nat
    BY DEF SourceWeight, SourceNames
  <2>2. \A w \in Nat : w * 1 = w /\ w * 0 = 0
    OBVIOUS
  <2>. QED
    BY <2>1, <2>2, NamedOnce DEF Part
<1>2. /\ SourceWeight.history * Times(s, "history", p) = Part(s, "history", p)
      /\ SourceWeight.popular * Times(s, "popular", p) = Part(s, "popular", p)
      /\ SourceWeight.gpt_ranked * Times(s, "gpt_ranked", p) = Part(s, "gpt_ranked", p)
      /\ SourceWeight.similar * Times(s, "similar", p) = Part(s, "similar", p)
  BY <1>1 DEF SourceNames
<1>. QED
  BY <1>2 DEF Score

\* What the four lists name, and the totals that unordered_map collects.
Named(s)  == UNION {Range(s[k]) : k \in DOMAIN s}
Totals(s) == [p \in Named(s) |-> Score(s, p)]

LEMMA MergeOrder ==
    ASSUME NEW s, Lists(s)
    PROVE  /\ Ordered(Better(Totals(s))) /\ FanOutMerge(s) = ListOf(Better(Totals(s)))
           /\ DOMAIN Better(Totals(s)) = Named(s) /\ Named(s) \subseteq Nat
           /\ \A p \in Named(s) : Totals(s)[p] = Score(s, p)
           /\ \A p : Score(s, p) \in Nat
<1>1. ASSUME NEW k \in SourceNames
      PROVE  IsFiniteSet(Range(s[k])) /\ Range(s[k]) \subseteq Nat
  <2>1. PICK l \in Seq(Nat) : l = s[k]
    BY DEF Lists
  <2>2. /\ Len(l) \in Nat /\ DOMAIN l = 1 .. Len(l) /\ l = [i \in DOMAIN l |-> l[i]]
        /\ \A i \in DOMAIN l : l[i] \in Nat
    OBVIOUS
  <2>3. IsFiniteSet(DOMAIN l)
    <3>1. PICK n \in Int : n = Len(l)
      BY <2>2
    <3>2. IsFiniteSet(1 .. n)
      BY FS_Interval
    <3>. QED
      BY <2>2, <3>1, <3>2
  <2>4. IsFiniteSet(Range(l))
    BY <2>2, <2>3, FiniteRange
  <2>. QED
    BY <2>1, <2>2, <2>4 DEF Range
<1>2. Named(s) = (Range(s["history"]) \cup Range(s["popular"]))
                   \cup (Range(s["gpt_ranked"]) \cup Range(s["similar"]))
  BY DEF Named, Lists, SourceNames
<1>3. IsFiniteSet(Named(s))
  <2>1. /\ IsFiniteSet(Range(s["history"])) /\ IsFiniteSet(Range(s["popular"]))
        /\ IsFiniteSet(Range(s["gpt_ranked"])) /\ IsFiniteSet(Range(s["similar"]))
    BY <1>1 DEF SourceNames
  <2>2. /\ IsFiniteSet(Range(s["history"]) \cup Range(s["popular"]))
        /\ IsFiniteSet(Range(s["gpt_ranked"]) \cup Range(s["similar"]))
    BY <2>1, FS_Union
  <2>. QED
    BY <1>2, <2>2, FS_Union
<1>4. Named(s) \subseteq Nat
  BY <1>1, <1>2 DEF SourceNames
<1>5. ASSUME NEW p
      PROVE  Score(s, p) \in Nat
  <2>1. \A k \in SourceNames : Part(s, k, p) \in Nat
    BY DEF Part, SourceWeight, SourceNames
  <2>2. /\ Part(s, "history", p) \in Nat /\ Part(s, "popular", p) \in Nat
        /\ Part(s, "gpt_ranked", p) \in Nat /\ Part(s, "similar", p) \in Nat
    BY <2>1 DEF SourceNames
  <2>. QED
    BY <2>2, ScoreParts
<1>6. DOMAIN Totals(s) = Named(s) /\ \A p \in Named(s) : Totals(s)[p] = Score(s, p)
  BY DEF Totals
<1>7. FanOutMerge(s) = ByScore(Totals(s))
  BY DEF FanOutMerge, Totals, Named
<1>8. \A p \in Named(s) : Totals(s)[p] \in Int /\ p \in Int
  BY <1>4, <1>5, <1>6
<1>. QED
  BY <1>3, <1>4, <1>5, <1>6, <1>7, <1>8, ScoreOrders

\* FanOutMerge sorts: it returns the products that some source names, each once,
\* the higher score first and of equal scores the smaller id.
THEOREM MergeSorts ==
    ASSUME NEW s, Lists(s), NEW l, l = FanOutMerge(s)
    PROVE  /\ l \in Seq(Nat) /\ IsInjective(l) /\ Range(l) = Named(s)
           /\ \A i, j \in DOMAIN l : i < j =>
                 \/ Score(s, l[i]) > Score(s, l[j])
                 \/ Score(s, l[i]) = Score(s, l[j]) /\ l[i] < l[j]
<1>1. PICK b, f : b = Better(f) /\ f = Totals(s)
  OBVIOUS
<1>2. /\ Ordered(b) /\ l = ListOf(b) /\ DOMAIN b = Named(s) /\ Named(s) \subseteq Nat
      /\ \A p \in Named(s) : f[p] = Score(s, p)
  BY <1>1, MergeOrder
<1>3. PICK n : n = Cardinality(DOMAIN b)
  OBVIOUS
<1>4. /\ n \in Nat /\ l \in [1 .. n -> DOMAIN b]
      /\ \A k \in 1 .. n : Cardinality(b[l[k]]) = k - 1
      /\ \A x \in DOMAIN b : l[Cardinality(b[x]) + 1] = x
  BY <1>2, <1>3, ListPlaces
<1>5. \A x \in DOMAIN b : Cardinality(b[x]) + 1 \in 1 .. n
  BY <1>2, <1>3, <1>4, RanksDiffer
<1>6. l \in Seq(Nat) /\ IsInjective(l) /\ Range(l) = Named(s)
  <2>1. l \in [1 .. n -> Nat]
    BY <1>2, <1>4
  <2>2. IsInjective(l)
    BY <1>4 DEF IsInjective
  <2>3. Range(l) \subseteq DOMAIN b
    BY <1>4 DEF Range
  <2>4. ASSUME NEW x \in DOMAIN b
        PROVE  x \in Range(l)
    <3>1. PICK k \in 1 .. n : k = Cardinality(b[x]) + 1
      BY <1>5
    <3>2. l[k] = x /\ k \in DOMAIN l
      BY <1>4, <3>1
    <3>. QED
      BY <3>2 DEF Range
  <2>. QED
    <3>1. Range(l) = Named(s)
      BY <1>2, <2>3, <2>4
    <3>2. l \in Seq(Nat)
      BY <1>4, <2>1
    <3>. QED
      BY <2>2, <3>1, <3>2
<1>7. ASSUME NEW i \in DOMAIN l, NEW j \in DOMAIN l, i < j
      PROVE  \/ Score(s, l[i]) > Score(s, l[j])
             \/ Score(s, l[i]) = Score(s, l[j]) /\ l[i] < l[j]
  <2>1. l[i] \in DOMAIN b /\ l[j] \in DOMAIN b /\ Cardinality(b[l[i]]) < Cardinality(b[l[j]])
    BY <1>4, <1>7
  <2>2. l[i] \in b[l[j]]
    BY <1>2, <2>1, RanksDiffer
  <2>3. f[l[i]] > f[l[j]] \/ (f[l[i]] = f[l[j]] /\ l[i] < l[j])
    BY <1>1, <2>1, <2>2 DEF Better
  <2>. QED
    BY <1>2, <2>1, <2>3
<1>. QED
  BY <1>6, <1>7
----------------------------------------------------------------------------
\* The lists and the feed are those of the table.
RankInv ==
    /\ db \in [actions : Seq(Row), today : 0 .. MaxDay] /\ Table(db)
    /\ sources = [u \in Users |-> FetchSources(db, u)]
    /\ feed = [u \in Users |-> TakeTop(FanOutMerge(sources[u]), StoredLimit)]

\* An empty table is a table.
LEMMA InitRankInv == Init => RankInv
<1>1. SUFFICES ASSUME Init PROVE RankInv
  OBVIOUS
<1>2. /\ db.actions = <<>> /\ db.today = 0
      /\ db \in [actions : Seq(Row), today : 0 .. MaxDay]
  BY <1>1, RankingAssumption DEF Init
<1>3. Table(db)
  BY <1>2 DEF Table
<1>. QED
  BY <1>1, <1>2, <1>3 DEF Init, RankInv

\* A step adds a row of today, or ends the day.
Adds(t, t2, row) ==
    /\ row \in Row /\ row.created_at = t.today
    /\ t2.actions = Append(t.actions, row) /\ t2.today = t.today

LEMMA StepsOfTable ==
    ASSUME RankInv, Next
    PROVE  /\ RankInv'
           /\ \/ \E row : Adds(db, db', row)
              \/ db'.actions = db.actions /\ db'.today = db.today + 1
<1>1. ASSUME NEW u \in Users, NEW t \in Types, NEW x \in Texts, Act(u, t, x)
      PROVE  RankInv' /\ \E row : Adds(db, db', row)
  <2>1. PICK row : row = [user_id |-> u, action_type |-> t, product_id |-> x, created_at |-> db.today]
    OBVIOUS
  <2>2. db \in [actions : Seq(Row), today : 0 .. MaxDay]
    BY DEF RankInv
  <2>3. row \in Row /\ row.created_at = db.today
    BY <2>1, <2>2 DEF Row
  <2>4. /\ db'.actions = Append(db.actions, row) /\ db'.today = db.today
        /\ db' = [db EXCEPT !.actions = Append(@, row)]
    BY <1>1, <2>1, <2>2 DEF Act
  <2>5. db' \in [actions : Seq(Row), today : 0 .. MaxDay]
    BY <2>2, <2>3, <2>4
  <2>6. Table(db')
    <3>1. PICK a \in Seq(Row) : a = db.actions
      BY <2>2
    <3>2. PICK a2 \in Seq(Row) : a2 = db'.actions
      BY <2>5
    <3>3. /\ DOMAIN a = 1 .. Len(a) /\ DOMAIN a2 = 1 .. Len(a) + 1 /\ Len(a) \in Nat
          /\ \A i \in 1 .. Len(a) : a2[i] = a[i]
          /\ a2[Len(a) + 1] = row
      BY <2>3, <2>4, <3>1, <3>2
    <3>4. \A i \in 1 .. Len(a) : a[i].created_at <= db.today /\ a[i].created_at \in Int
      BY <3>1, <3>3, RowsOfTable DEF RankInv, Table
    <3>5. \A i, j \in 1 .. Len(a) : i < j => a[i].created_at <= a[j].created_at
      BY <3>1, <3>3 DEF RankInv, Table
    <3>6. db.today \in Nat
      BY DEF RankInv, Table
    <3>7. \A i \in 1 .. Len(a) + 1 : i \in 1 .. Len(a) \/ i = Len(a) + 1
      BY <3>3
    <3>8. \A i, j \in DOMAIN a2 : i < j => a2[i].created_at <= a2[j].created_at
      BY <2>3, <3>3, <3>4, <3>5, <3>7
    <3>9. \A i \in DOMAIN a2 : a2[i].created_at <= db.today
      BY <2>3, <3>3, <3>4, <3>6, <3>7
    <3>. QED
      BY <2>4, <3>2, <3>6, <3>8, <3>9 DEF Table
  <2>7. RankInv'
    BY <1>1, <2>5, <2>6 DEF RankInv, Act, Rank
  <2>. QED
    BY <2>3, <2>4, <2>7 DEF Adds
<1>2. ASSUME NextDay
      PROVE  RankInv' /\ db'.actions = db.actions /\ db'.today = db.today + 1
  <2>1. db \in [actions : Seq(Row), today : 0 .. MaxDay] /\ db.today < MaxDay
    BY <1>2 DEF RankInv, NextDay
  <2>2. db'.actions = db.actions /\ db'.today = db.today + 1 /\ db' = [db EXCEPT !.today = @ + 1]
    BY <1>2, <2>1 DEF NextDay
  <2>3. db' \in [actions : Seq(Row), today : 0 .. MaxDay]
    <3>1. MaxDay \in Nat
      BY RankingAssumption
    <3>. QED
      BY <2>1, <2>2, <3>1
  <2>4. \A i \in DOMAIN db.actions : db.actions[i].created_at \in Int
    BY RowsOfTable DEF RankInv
  <2>5. Table(db')
    BY <2>1, <2>2, <2>4 DEF RankInv, Table
  <2>. QED
    BY <1>2, <2>2, <2>3, <2>5 DEF RankInv, NextDay, Rank
<1>. QED
  BY <1>1, <1>2 DEF Next

\* At every time lists and feeds are those of the table then.
THEOREM RankInvariant == Spec => []RankInv
<1>1. RankInv /\ [Next]_vars => RankInv'
  <2>1. ASSUME RankInv, UNCHANGED vars PROVE RankInv'
    BY <2>1 DEF RankInv, vars, Table
  <2>. QED
    BY <2>1, StepsOfTable
<1>. QED
  BY <1>1, InitRankInv, PTL DEF Spec

LEMMA LimitsAreNat == StoredLimit \in Nat /\ ListLimit \in Nat /\ SimilarLimit \in Nat
  BY RankingAssumption

\* The feed of a user as the top of an order.
LEMMA FeedOf ==
    ASSUME RankInv, NEW u \in Users
    PROVE  /\ Table(db) /\ sources[u] = FetchSources(db, u) /\ Lists(sources[u])
           /\ feed[u] = TakeTop(ListOf(Better(Totals(sources[u]))), StoredLimit)
           /\ Ordered(Better(Totals(sources[u])))
<1>1. /\ Table(db) /\ sources[u] = FetchSources(db, u)
      /\ feed[u] = TakeTop(FanOutMerge(sources[u]), StoredLimit)
  BY DEF RankInv
<1>2. Lists(sources[u])
  BY <1>1, FetchedLists
<1>. QED
  BY <1>1, <1>2, MergeOrder

\* Every reachable state is well-typed: no list that a GET merges, and no feed,
\* names a product twice, whatever texts the products go by.
THEOREM TypeCorrect == Spec => []TypeOK
<1>1. RankInv => TypeOK
  <2>1. SUFFICES ASSUME RankInv PROVE TypeOK
    OBVIOUS
  <2>2. db \in [actions : Seq(Row), today : 0 .. MaxDay]
    BY <2>1 DEF RankInv
  <2>3. ASSUME NEW u \in Users
        PROVE  /\ \A k \in DOMAIN sources[u] : IsInjective(sources[u][k])
               /\ IsInjective(feed[u]) /\ Len(feed[u]) <= StoredLimit
    <3>1. \A k \in DOMAIN sources[u] : IsInjective(sources[u][k])
      BY <2>1, FeedOf DEF Lists
    <3>2. PICK b : b = Better(Totals(sources[u]))
      OBVIOUS
    <3>3. Ordered(b) /\ feed[u] = TakeTop(ListOf(b), StoredLimit)
      BY <2>1, <3>2, FeedOf
    <3>4. /\ IsInjective(TakeTop(ListOf(b), StoredLimit))
          /\ Len(TakeTop(ListOf(b), StoredLimit)) <= StoredLimit
      BY <3>3, LimitsAreNat, RankedList
    <3>. QED
      BY <3>1, <3>3, <3>4
  <2>. QED
    BY <2>2, <2>3 DEF TypeOK
<1>. QED
  BY <1>1, RankInvariant, PTL
----------------------------------------------------------------------------
\* With these weights the score of a product tells how many sources name it.
Tally(n) == CASE n = 0 -> {0} [] n = 1 -> 2 .. 4 [] n = 2 -> 5 .. 7 [] n = 3 -> 8 .. 10 [] n = 4 -> {12}

\* The size of a set of sources, one by one.
LEMMA CountOfNames ==
    ASSUME NEW N, N \subseteq SourceNames
    PROVE  Cardinality(N) = (IF "history" \in N THEN 1 ELSE 0) + (IF "popular" \in N THEN 1 ELSE 0)
                              + (IF "gpt_ranked" \in N THEN 1 ELSE 0) + (IF "similar" \in N THEN 1 ELSE 0)
<1>1. ASSUME NEW S, IsFiniteSet(S), NEW x, x \notin S, NEW T,
             T = IF x \in N THEN S \cup {x} ELSE S
      PROVE  IsFiniteSet(T) /\ Cardinality(T) = Cardinality(S) + (IF x \in N THEN 1 ELSE 0)
  <2>1. Cardinality(S) \in Nat
    BY <1>1, FS_CardinalityType
  <2>2. CASE x \in N
    BY <1>1, <2>1, <2>2, FS_AddElement
  <2>3. CASE x \notin N
    BY <1>1, <2>1, <2>3
  <2>. QED
    BY <2>2, <2>3
<1>2. PICK N1, N2, N3 : /\ N1 = N \cap {"history"} /\ N2 = N \cap {"history", "popular"}
                        /\ N3 = N \cap {"history", "popular", "gpt_ranked"}
  OBVIOUS
<1>3. /\ "history" \notin {} /\ N1 = IF "history" \in N THEN {} \cup {"history"} ELSE {}
      /\ "popular" \notin N1 /\ N2 = IF "popular" \in N THEN N1 \cup {"popular"} ELSE N1
      /\ "gpt_ranked" \notin N2 /\ N3 = IF "gpt_ranked" \in N THEN N2 \cup {"gpt_ranked"} ELSE N2
      /\ "similar" \notin N3 /\ N = IF "similar" \in N THEN N3 \cup {"similar"} ELSE N3
  BY <1>2 DEF SourceNames
<1>4. IsFiniteSet({}) /\ Cardinality({}) = 0
  BY FS_EmptySet
<1>5. IsFiniteSet(N1) /\ Cardinality(N1) = 0 + (IF "history" \in N THEN 1 ELSE 0)
  BY <1>1, <1>3, <1>4
<1>6. IsFiniteSet(N2) /\ Cardinality(N2) = Cardinality(N1) + (IF "popular" \in N THEN 1 ELSE 0)
  BY <1>1, <1>3, <1>5
<1>7. IsFiniteSet(N3) /\ Cardinality(N3) = Cardinality(N2) + (IF "gpt_ranked" \in N THEN 1 ELSE 0)
  BY <1>1, <1>3, <1>6
<1>8. Cardinality(N) = Cardinality(N3) + (IF "similar" \in N THEN 1 ELSE 0)
  BY <1>1, <1>3, <1>7
<1>. QED
  BY <1>5, <1>6, <1>7, <1>8

LEMMA ScoreTells ==
    ASSUME NEW s, Lists(s), NEW p
    PROVE  Cardinality(Names(s, p)) \in 0 .. 4 /\ Score(s, p) \in Tally(Cardinality(Names(s, p)))
<1>1. PICK N : N = Names(s, p)
  OBVIOUS
<1>2. N \subseteq SourceNames /\ \A k \in SourceNames : k \in N <=> p \in Range(s[k])
  BY <1>1 DEF Names, Lists
<1>3. Score(s, p) = (IF "history" \in N THEN 3 ELSE 0) + (IF "popular" \in N THEN 2 ELSE 0)
                      + (IF "gpt_ranked" \in N THEN 4 ELSE 0) + (IF "similar" \in N THEN 3 ELSE 0)
  BY <1>2, ScoreParts DEF Part, SourceWeight, SourceNames
<1>4. Cardinality(N) = (IF "history" \in N THEN 1 ELSE 0) + (IF "popular" \in N THEN 1 ELSE 0)
                         + (IF "gpt_ranked" \in N THEN 1 ELSE 0) + (IF "similar" \in N THEN 1 ELSE 0)
  BY <1>2, CountOfNames
<1>. QED
  BY <1>1, <1>3, <1>4 DEF Tally

\* Agreement counts more than weight: in any user's feed a product that more of
\* the four sources name is ahead of one that fewer name.
THEOREM AgreementFirst == Spec => []MoreSourcesFirst
<1>1. RankInv => MoreSourcesFirst
  <2>1. SUFFICES ASSUME RankInv, NEW u \in Users,
                        NEW i \in DOMAIN feed[u], NEW j \in DOMAIN feed[u], i < j
                 PROVE  Cardinality(Names(sources[u], feed[u][i]))
                          >= Cardinality(Names(sources[u], feed[u][j]))
    BY DEF MoreSourcesFirst
  <2>2. PICK s : s = sources[u]
    OBVIOUS
  <2>3. PICK b : b = Better(Totals(s))
    OBVIOUS
  <2>4. PICK p, q : p = feed[u][i] /\ q = feed[u][j]
    OBVIOUS
  <2>5. Lists(s) /\ Ordered(b) /\ feed[u] = TakeTop(ListOf(b), StoredLimit)
    BY <2>1, <2>2, <2>3, FeedOf
  <2>6. p \in b[q] /\ q \in Range(feed[u])
    BY <2>1, <2>4, <2>5, LimitsAreNat, RankedList DEF Range
  <2>7. q \in DOMAIN b
    BY <2>5, <2>6, LimitsAreNat, RankedList
  <2>8. Score(s, p) >= Score(s, q)
    <3>1. /\ DOMAIN b = Named(s) /\ \A x \in Named(s) : Totals(s)[x] = Score(s, x)
          /\ Score(s, p) \in Nat /\ Score(s, q) \in Nat
      BY <2>3, <2>5, MergeOrder
    <3>2. DOMAIN Totals(s) = Named(s)
      BY DEF Totals
    <3>3. p \in Named(s) /\ Totals(s)[p] >= Totals(s)[q]
      BY <2>3, <2>6, <2>7, <3>1, <3>2 DEF Better
    <3>. QED
      BY <2>7, <3>1, <3>3
  <2>9. PICK m \in 0 .. 4, n \in 0 .. 4 :
          /\ m = Cardinality(Names(s, p)) /\ n = Cardinality(Names(s, q))
          /\ Score(s, p) \in Tally(m) /\ Score(s, q) \in Tally(n)
    BY <2>5, ScoreTells
  <2>10. m >= n
    BY <2>8, <2>9 DEF Tally
  <2>. QED
    BY <2>2, <2>4, <2>9, <2>10
<1>. QED
  BY <1>1, RankInvariant, PTL
----------------------------------------------------------------------------
\* What a new row does.  The queries look at it if it has a product and a type
\* that they know.
Counts(row) == row.product_id \in DOMAIN Cast /\ row.action_type \in DOMAIN HistoryRank

\* A window gains the new row and nothing else.
LEMMA AddedRow ==
    ASSUME NEW t, Table(t), NEW t2, NEW row, Adds(t, t2, row), NEW days \in Nat,
           NEW n, n = Len(t.actions) + 1
    PROVE  /\ Window(t2, days) = Window(t, days) \cup (IF Counts(row) THEN {n} ELSE {})
           /\ n \in Nat /\ \A i \in Window(t, days) : i \in Nat /\ i < n
           /\ t2.actions[n] = row
           /\ \A i \in Window(t, days) : t2.actions[i] = t.actions[i]
<1>1. PICK a \in Seq(Row) : a = t.actions
  BY DEF Table
<1>2. PICK a2 : a2 = t2.actions
  OBVIOUS
<1>3. Len(a) \in Nat /\ DOMAIN a = 1 .. Len(a) /\ n = Len(a) + 1
  BY <1>1
<1>4. /\ DOMAIN a2 = 1 .. n /\ a2[n] = row /\ \A i \in 1 .. Len(a) : a2[i] = a[i]
  BY <1>1, <1>2, <1>3 DEF Adds
<1>5. /\ t2.today = t.today /\ t.today \in Nat
      /\ row.created_at = t.today
  BY DEF Adds, Table
<1>6. \A i \in 1 .. n : i \in 1 .. Len(a) \/ i = n
  BY <1>3
<1>7. \A i \in 1 .. Len(a) : i \in Window(t2, days) <=> i \in Window(t, days)
  BY <1>1, <1>2, <1>3, <1>4, <1>5 DEF Window
<1>8. n \in Window(t2, days) <=> Counts(row)
  BY <1>2, <1>3, <1>4, <1>5 DEF Window, Counts
<1>9. Window(t, days) \subseteq 1 .. Len(a) /\ Window(t2, days) \subseteq 1 .. n
  BY <1>1, <1>2, <1>3, <1>4 DEF Window
<1>10. Window(t2, days) = Window(t, days) \cup (IF Counts(row) THEN {n} ELSE {})
  <2>1. \A i \in Window(t2, days) : i \in Window(t, days) \/ (Counts(row) /\ i = n)
    BY <1>6, <1>7, <1>8, <1>9
  <2>2. \A i \in Window(t, days) : i \in Window(t2, days)
    BY <1>7, <1>9
  <2>. QED
    BY <1>8, <2>1, <2>2
<1>. QED
  BY <1>1, <1>2, <1>3, <1>4, <1>9, <1>10

\* Of its user's latest rows it replaces the one on its product.
LEMMA LatestAfter ==
    ASSUME NEW t, Table(t), NEW t2, NEW row, Adds(t, t2, row), NEW u,
           NEW n, n = Len(t.actions) + 1, NEW p, p = Cast[row.product_id]
    PROVE  /\ n \in Nat /\ \A i \in Latest(t, u) : i \in Nat /\ i < n
           /\ \A i \in Latest(t, u) : /\ Pid(t2, i) = Pid(t, i) /\ TypeRank(t2, i) = TypeRank(t, i)
                                      /\ TypeRank(t, i) \in Nat
           /\ Pid(t2, n) = p /\ TypeRank(t2, n) = HistoryRank[row.action_type]
           /\ Counts(row) => HistoryRank[row.action_type] \in Nat
           /\ IF Counts(row) /\ row.user_id = u
              THEN Latest(t2, u) = {i \in Latest(t, u) : Pid(t, i) # p} \cup {n}
              ELSE Latest(t2, u) = Latest(t, u)
<1>1. HistoryDays \in Nat
  BY RankingAssumption
<1>2. PICK W, W2 : W = Window(t, HistoryDays) /\ W2 = Window(t2, HistoryDays)
  OBVIOUS
<1>3. /\ W2 = W \cup (IF Counts(row) THEN {n} ELSE {})
      /\ n \in Nat /\ \A i \in W : i \in Nat /\ i < n
      /\ t2.actions[n] = row
      /\ \A i \in W : t2.actions[i] = t.actions[i]
  BY <1>1, <1>2, AddedRow
<1>4. \A i \in W : Pid(t2, i) = Pid(t, i) /\ TypeRank(t2, i) = TypeRank(t, i) /\ TypeRank(t, i) \in Nat
  <2>1. \A i \in W : Pid(t2, i) = Pid(t, i) /\ TypeRank(t2, i) = TypeRank(t, i)
    BY <1>3 DEF Pid, TypeRank
  <2>. QED
    BY <1>2, <2>1, WindowRows
<1>5. Pid(t2, n) = p /\ TypeRank(t2, n) = HistoryRank[row.action_type]
  BY <1>3 DEF Pid, TypeRank
<1>6. Counts(row) => HistoryRank[row.action_type] \in Nat
  BY DEF Counts, HistoryRank
<1>7. PICK R, R2 : /\ R = {i \in W : t.actions[i].user_id = u}
                   /\ R2 = {i \in W2 : t2.actions[i].user_id = u}
  OBVIOUS
<1>8. /\ Latest(t, u) = {i \in R : \A j \in R : Pid(t, j) = Pid(t, i) => j <= i}
      /\ Latest(t2, u) = {i \in R2 : \A j \in R2 : Pid(t2, j) = Pid(t2, i) => j <= i}
  BY <1>2, <1>7 DEF Latest
<1>9. R2 = IF Counts(row) /\ row.user_id = u THEN R \cup {n} ELSE R
  BY <1>3, <1>7
<1>10. R \subseteq W /\ Latest(t, u) \subseteq R
  BY <1>7, <1>8
<1>11. CASE Counts(row) /\ row.user_id = u
  <2>1. ASSUME NEW i \in Latest(t2, u), i # n
        PROVE  i \in Latest(t, u) /\ Pid(t, i) # p
    <3>1. i \in R /\ i \in W /\ i < n /\ i \in Nat
      BY <2>1, <1>3, <1>8, <1>9, <1>10, <1>11
    <3>2. \A j \in R : Pid(t, j) = Pid(t, i) => j <= i
      BY <3>1, <1>4, <1>8, <1>9, <1>10, <1>11
    <3>3. Pid(t2, i) # p
      BY <3>1, <1>3, <1>5, <1>8, <1>9, <1>11
    <3>. QED
      BY <3>1, <3>2, <3>3, <1>4, <1>8
  <2>2. ASSUME NEW i \in Latest(t, u), Pid(t, i) # p
        PROVE  i \in Latest(t2, u)
    <3>1. i \in R2 /\ Pid(t2, i) # p
      BY <2>2, <1>4, <1>9, <1>10, <1>11
    <3>2. \A j \in R2 : Pid(t2, j) = Pid(t2, i) => j <= i
      BY <2>2, <3>1, <1>4, <1>5, <1>8, <1>9, <1>10, <1>11
    <3>. QED
      BY <3>1, <3>2, <1>8
  <2>3. n \in Latest(t2, u)
    <3>1. \A j \in R2 : j <= n
      BY <1>3, <1>9, <1>10, <1>11
    <3>. QED
      BY <3>1, <1>8, <1>9, <1>11
  <2>4. Latest(t2, u) = {i \in Latest(t, u) : Pid(t, i) # p} \cup {n}
    BY <2>1, <2>2, <2>3
  <2>. QED
    BY <1>3, <1>4, <1>5, <1>6, <1>10, <1>11, <2>4
<1>12. CASE ~(Counts(row) /\ row.user_id = u)
  <2>1. Latest(t2, u) = Latest(t, u)
    BY <1>4, <1>8, <1>9, <1>10, <1>12
  <2>. QED
    BY <1>3, <1>4, <1>5, <1>6, <1>10, <1>12, <2>1
<1>. QED
  BY <1>11, <1>12

\* No other product comes in, and p does not go out.
Toward(old, new, p) ==
    /\ p \in Range(old) => p \in Range(new)
    /\ \A q \in Range(new) : q # p => q \in Range(old)

\* A list does so if no other product loses a rival.
LEMMA OrderToward ==
    ASSUME NEW old, Ordered(old), NEW new, Ordered(new), NEW m \in Nat, NEW p,
           p \in DOMAIN old => p \in DOMAIN new /\ new[p] \subseteq old[p],
           \A q \in DOMAIN new : q # p => q \in DOMAIN old /\ old[q] \subseteq new[q]
    PROVE  Toward(TakeTop(ListOf(old), m), TakeTop(ListOf(new), m), p)
<1>1. Lifts(TakeTop(ListOf(old), m), TakeTop(ListOf(new), m), p)
  BY FewerBeforeLifts
<1>2. ASSUME NEW q \in Range(TakeTop(ListOf(new), m)), q # p
      PROVE  q \in Range(TakeTop(ListOf(old), m))
  <2>1. q \in DOMAIN new
    BY RankedList
  <2>2. q \in DOMAIN old /\ old[q] \subseteq new[q]
    BY <1>2, <2>1
  <2>. QED
    BY <2>2, MoreBeforeKeepsOut
<1>. QED
  BY <1>1, <1>2 DEF Toward, Lifts

\* The new row is one of the user's that the queries look at.
Moves(row, u) == Counts(row) /\ row.user_id = u

\* In the history of its user it moves its own product, upwards if it ranks no
\* lower than the user's latest on it; other histories stay.
LEMMA HistoryAfter ==
    ASSUME NEW t, Table(t), NEW t2, Table(t2), NEW row, Adds(t, t2, row), NEW u,
           NEW p, p = Cast[row.product_id],
           NEW b, b = ProductOrder(t, u), NEW b2, b2 = ProductOrder(t2, u)
    PROVE  /\ \A q \in DOMAIN b2 : q # p \/ ~Moves(row, u) =>
                 q \in DOMAIN b /\ b2[q] \ (IF Moves(row, u) THEN {p} ELSE {}) \subseteq b[q]
           /\ (Moves(row, u) => \A i \in Latest(t, u) :
                          Pid(t, i) = p => HistoryRank[row.action_type] >= TypeRank(t, i))
              => /\ p \in DOMAIN b => p \in DOMAIN b2 /\ b2[p] \subseteq b[p]
                 /\ \A q \in DOMAIN b2 : q # p => b[q] \subseteq b2[q]
<1>1. PICK n, L, L2 : n = Len(t.actions) + 1 /\ L = Latest(t, u) /\ L2 = Latest(t2, u)
  OBVIOUS
<1>2. /\ n \in Nat /\ \A i \in L : i \in Nat /\ i < n
      /\ \A i \in L : /\ Pid(t2, i) = Pid(t, i) /\ TypeRank(t2, i) = TypeRank(t, i)
                      /\ TypeRank(t, i) \in Nat
      /\ Pid(t2, n) = p /\ TypeRank(t2, n) = HistoryRank[row.action_type]
      /\ Moves(row, u) => TypeRank(t2, n) \in Nat
      /\ L2 = IF Moves(row, u) THEN {i \in L : Pid(t, i) # p} \cup {n} ELSE L
  <2>1. /\ n \in Nat /\ \A i \in Latest(t, u) : i \in Nat /\ i < n
        /\ \A i \in Latest(t, u) : /\ Pid(t2, i) = Pid(t, i) /\ TypeRank(t2, i) = TypeRank(t, i)
                                   /\ TypeRank(t, i) \in Nat
        /\ Pid(t2, n) = p /\ TypeRank(t2, n) = HistoryRank[row.action_type]
        /\ Counts(row) => HistoryRank[row.action_type] \in Nat
        /\ IF Counts(row) /\ row.user_id = u
           THEN Latest(t2, u) = {i \in Latest(t, u) : Pid(t, i) # p} \cup {n}
           ELSE Latest(t2, u) = Latest(t, u)
    BY <1>1, LatestAfter
  <2>. QED
    BY <1>1, <2>1 DEF Moves
<1>3. /\ DOMAIN b = {Pid(t, i) : i \in L} /\ DOMAIN b2 = {Pid(t2, i) : i \in L2}
      /\ \A i \in L : b[Pid(t, i)] = {Pid(t, j) : j \in Preferred(t, u, i)}
      /\ \A i \in L2 : b2[Pid(t2, i)] = {Pid(t2, j) : j \in Preferred(t2, u, i)}
  BY <1>1, HistoryList
<1>4. /\ \A i \in L : Preferred(t, u, i) =
            {j \in L : TypeRank(t, j) > TypeRank(t, i) \/ (TypeRank(t, j) = TypeRank(t, i) /\ j > i)}
      /\ \A i \in L2 : Preferred(t2, u, i) =
            {j \in L2 : TypeRank(t2, j) > TypeRank(t2, i) \/ (TypeRank(t2, j) = TypeRank(t2, i) /\ j > i)}
  BY <1>1 DEF Preferred
<1>5. \A i \in L2 : i \in L \/ (Moves(row, u) /\ i = n)
  BY <1>2
<1>6. ASSUME NEW q \in DOMAIN b2, q # p \/ ~Moves(row, u)
      PROVE  /\ q \in DOMAIN b /\ b2[q] \ (IF Moves(row, u) THEN {p} ELSE {}) \subseteq b[q]
             /\ \E i \in L \cap L2 : q = Pid(t, i) /\ q = Pid(t2, i)
  <2>1. PICK i \in L2 : q = Pid(t2, i)
    BY <1>3
  <2>2. i \in L /\ q = Pid(t, i)
    BY <1>2, <1>5, <1>6, <2>1
  <2>3. ASSUME NEW x \in b2[q], x \notin (IF Moves(row, u) THEN {p} ELSE {})
        PROVE  x \in b[q]
    <3>1. PICK j \in Preferred(t2, u, i) : x = Pid(t2, j)
      BY <1>3, <2>1, <2>3
    <3>2. j \in L2
      BY <1>4, <2>1, <3>1
    <3>3. j \in L
      BY <1>2, <1>5, <2>3, <3>1, <3>2
    <3>4. j \in Preferred(t, u, i) /\ x = Pid(t, j)
      BY <1>2, <1>4, <2>1, <2>2, <3>1, <3>3
    <3>. QED
      BY <1>3, <2>2, <3>4
  <2>. QED
    BY <1>3, <2>1, <2>2, <2>3
<1>7. ASSUME Moves(row, u) => \A i \in L : Pid(t, i) = p => TypeRank(t2, n) >= TypeRank(t, i)
      PROVE  /\ p \in DOMAIN b => p \in DOMAIN b2 /\ b2[p] \subseteq b[p]
             /\ \A q \in DOMAIN b2 : q # p => b[q] \subseteq b2[q]
  <2>1. ASSUME p \in DOMAIN b, Moves(row, u)
        PROVE  p \in DOMAIN b2 /\ b2[p] \subseteq b[p]
    <3>1. PICK i \in L : p = Pid(t, i)
      BY <1>3, <2>1
    <3>2. n \in L2 /\ p = Pid(t2, n)
      BY <1>2, <2>1
    <3>3. ASSUME NEW x \in b2[p]
          PROVE  x \in b[p]
      <4>1. PICK j \in Preferred(t2, u, n) : x = Pid(t2, j)
        BY <1>3, <3>2, <3>3
      <4>2. /\ j \in L2
            /\ TypeRank(t2, j) > TypeRank(t2, n) \/ (TypeRank(t2, j) = TypeRank(t2, n) /\ j > n)
        BY <1>4, <3>2, <4>1
      <4>3. j \in L
        BY <1>2, <1>5, <2>1, <4>2
      <4>4. TypeRank(t2, n) >= TypeRank(t, i)
        BY <1>7, <2>1, <3>1
      <4>5. j \in Preferred(t, u, i)
        BY <1>2, <1>4, <2>1, <3>1, <4>2, <4>3, <4>4
      <4>. QED
        BY <1>2, <1>3, <3>1, <4>1, <4>3, <4>5
    <3>. QED
      BY <1>3, <3>2, <3>3
  <2>2. ASSUME p \in DOMAIN b, ~Moves(row, u)
        PROVE  p \in DOMAIN b2 /\ b2[p] \subseteq b[p]
    <3>1. p \in DOMAIN b2
      BY <1>2, <1>3, <2>2
    <3>. QED
      BY <1>6, <2>2, <3>1
  <2>3. ASSUME NEW q \in DOMAIN b2, q # p, NEW x \in b[q]
        PROVE  x \in b2[q]
    <3>1. PICK i \in L \cap L2 : q = Pid(t, i) /\ q = Pid(t2, i)
      BY <1>6, <2>3
    <3>0. i \in L /\ b[q] = {Pid(t, j) : j \in Preferred(t, u, i)}
      BY <1>3, <3>1
    <3>2. PICK j \in Preferred(t, u, i) : x = Pid(t, j)
      BY <2>3, <3>0
    <3>3. j \in L /\ (TypeRank(t, j) > TypeRank(t, i) \/ (TypeRank(t, j) = TypeRank(t, i) /\ j > i))
      BY <1>4, <3>1, <3>2
    <3>4. CASE j \in L2
      <4>1. j \in Preferred(t2, u, i)
        BY <1>2, <1>4, <3>1, <3>3, <3>4
      <4>. QED
        BY <1>2, <1>3, <3>1, <3>2, <3>3, <4>1
    <3>5. CASE j \notin L2
      <4>1. Moves(row, u) /\ Pid(t, j) = p /\ n \in L2
        BY <1>2, <3>3, <3>5
      <4>2. TypeRank(t2, n) >= TypeRank(t, j)
        BY <1>7, <3>3, <4>1
      <4>3. n \in Preferred(t2, u, i)
        BY <1>2, <1>4, <3>1, <3>3, <4>1, <4>2
      <4>. QED
        BY <1>2, <1>3, <3>1, <3>2, <4>1, <4>3
    <3>. QED
      BY <3>4, <3>5
  <2>. QED
    BY <2>1, <2>2, <2>3
<1>. QED
  BY <1>1, <1>2, <1>6, <1>7

\* A product whose score rises, while no other's does, has no new rival.
LEMMA RisingScore ==
    ASSUME NEW f, NEW g, NEW p,
           \A q \in DOMAIN f : q \in Int /\ f[q] \in Int,
           \A q \in DOMAIN g : q \in Int /\ g[q] \in Int,
           p \in DOMAIN f => p \in DOMAIN g /\ g[p] >= f[p],
           \A q \in DOMAIN g : q # p => q \in DOMAIN f /\ g[q] <= f[q]
    PROVE  p \in DOMAIN Better(f) =>
              p \in DOMAIN Better(g) /\ Better(g)[p] \subseteq Better(f)[p]
<1>1. SUFFICES ASSUME p \in DOMAIN f
               PROVE  Better(g)[p] \subseteq Better(f)[p]
  BY DEF Better
<1>2. /\ Better(f)[p] = {q \in DOMAIN f : f[q] > f[p] \/ (f[q] = f[p] /\ q < p)}
      /\ Better(g)[p] = {q \in DOMAIN g : g[q] > g[p] \/ (g[q] = g[p] /\ q < p)}
  BY <1>1 DEF Better
<1>3. ASSUME NEW q \in DOMAIN g, g[q] > g[p] \/ (g[q] = g[p] /\ q < p)
      PROVE  q \in DOMAIN f /\ (f[q] > f[p] \/ (f[q] = f[p] /\ q < p))
  <2>1. /\ p \in DOMAIN g /\ p \in Int /\ f[p] \in Int /\ g[p] \in Int /\ g[p] >= f[p]
        /\ q \in Int /\ g[q] \in Int
    BY <1>1
  <2>2. q # p
    BY <1>3, <2>1
  <2>3. q \in DOMAIN f /\ f[q] \in Int /\ g[q] <= f[q]
    BY <2>2
  <2>. QED
    BY <1>3, <2>1, <2>3
<1>. QED
  BY <1>2, <1>3

\* One whose score stays, while no other's falls, keeps its rivals.
LEMMA SteadyScore ==
    ASSUME NEW f, NEW g, NEW q \in DOMAIN f, q \in DOMAIN g, g[q] = f[q],
           \A x \in DOMAIN f : x \in Int /\ f[x] \in Int,
           \A x \in DOMAIN g : x \in Int /\ g[x] \in Int,
           \A x \in DOMAIN f : x \in DOMAIN g /\ g[x] >= f[x]
    PROVE  Better(f)[q] \subseteq Better(g)[q]
<1>1. /\ Better(f)[q] = {x \in DOMAIN f : f[x] > f[q] \/ (f[x] = f[q] /\ x < q)}
      /\ Better(g)[q] = {x \in DOMAIN g : g[x] > g[q] \/ (g[x] = g[q] /\ x < q)}
  BY DEF Better
<1>2. ASSUME NEW x \in DOMAIN f, f[x] > f[q] \/ (f[x] = f[q] /\ x < q)
      PROVE  x \in DOMAIN g /\ (g[x] > g[q] \/ (g[x] = g[q] /\ x < q))
  <2>1. /\ x \in DOMAIN g /\ x \in Int /\ f[x] \in Int /\ g[x] \in Int /\ g[x] >= f[x]
        /\ q \in Int /\ f[q] \in Int
    OBVIOUS
  <2>. QED
    BY <1>2, <2>1
<1>. QED
  BY <1>1, <1>2

\* A new row makes its own product more popular and leaves the others.
LEMMA PopularityAfter ==
    ASSUME NEW t, Table(t), NEW t2, Table(t2), NEW row, Adds(t, t2, row),
           NEW p, p = Cast[row.product_id]
    PROVE  /\ Dealt(t) \subseteq Dealt(t2) /\ Dealt(t2) \subseteq Dealt(t) \cup {p}
           /\ \A q : q # p => Popularity(t2, RowsAbout(t2, q)) = Popularity(t, RowsAbout(t, q))
           /\ Popularity(t2, RowsAbout(t2, p)) >= Popularity(t, RowsAbout(t, p))
<1>1. PICK n, W, W2 : /\ n = Len(t.actions) + 1
                      /\ W = Window(t, PopularDays) /\ W2 = Window(t2, PopularDays)
  OBVIOUS
<1>2. PopularDays \in Nat
  BY RankingAssumption
<1>3. /\ W2 = W \cup (IF Counts(row) THEN {n} ELSE {})
      /\ t2.actions[n] = row
      /\ \A i \in W : t2.actions[i] = t.actions[i]
  BY <1>1, <1>2, AddedRow
<1>4. /\ \A i \in W : Pid(t2, i) = Pid(t, i)
      /\ Pid(t2, n) = p
  BY <1>3 DEF Pid
<1>5. \A i \in W2 : i \in W \/ i = n
  BY <1>3
<1>6. W \subseteq W2
  BY <1>3
<1>7. Dealt(t) = {Pid(t, i) : i \in W} /\ Dealt(t2) = {Pid(t2, i) : i \in W2}
  BY <1>1 DEF Dealt
<1>8. Dealt(t) \subseteq Dealt(t2) /\ Dealt(t2) \subseteq Dealt(t) \cup {p}
  BY <1>4, <1>5, <1>6, <1>7
<1>9. \A q : /\ RowsAbout(t, q) = {i \in W : Pid(t, i) = q}
             /\ RowsAbout(t2, q) = {i \in W2 : Pid(t2, i) = q}
  BY <1>1 DEF RowsAbout
<1>10. ASSUME NEW q
       PROVE  /\ IsFiniteSet(RowsAbout(t2, q)) /\ RowsAbout(t, q) \subseteq RowsAbout(t2, q)
              /\ \A i \in RowsAbout(t, q) : t2.actions[i].action_type = t.actions[i].action_type
  <2>1. IsFiniteSet(W2) /\ RowsAbout(t2, q) \subseteq W2
    BY <1>1, <1>9, WindowRows
  <2>2. IsFiniteSet(RowsAbout(t2, q))
    BY <2>1, FS_Subset
  <2>3. RowsAbout(t, q) \subseteq RowsAbout(t2, q)
    BY <1>4, <1>6, <1>9
  <2>. QED
    BY <2>2, <2>3, <1>3, <1>9
<1>11. ASSUME NEW q
       PROVE  /\ Popularity(t2, RowsAbout(t2, q)) >= Popularity(t, RowsAbout(t, q))
              /\ Popularity(t2, RowsAbout(t2, q)) \in Nat /\ Popularity(t, RowsAbout(t, q)) \in Nat
  BY <1>10, PopularityGrows
<1>12. ASSUME NEW q, q # p
       PROVE  Popularity(t2, RowsAbout(t2, q)) = Popularity(t, RowsAbout(t, q))
  <2>1. RowsAbout(t2, q) \subseteq RowsAbout(t, q)
    BY <1>4, <1>5, <1>9, <1>12
  <2>2. /\ IsFiniteSet(RowsAbout(t, q)) /\ RowsAbout(t2, q) \subseteq RowsAbout(t, q)
        /\ \A i \in RowsAbout(t2, q) : t.actions[i].action_type = t2.actions[i].action_type
    BY <1>10, <2>1, FS_Subset
  <2>3. Popularity(t2, RowsAbout(t2, q)) <= Popularity(t, RowsAbout(t, q))
    BY <2>2, PopularityGrows
  <2>. QED
    BY <1>11, <2>3
<1>. QED
  BY <1>8, <1>11, <1>12

\* So its product rises in the popular list, and no other enters.
LEMMA PopularAfter ==
    ASSUME NEW t, Table(t), NEW t2, Table(t2), NEW row, Adds(t, t2, row),
           NEW p, p = Cast[row.product_id], NEW limit \in Nat
    PROVE  /\ Lifts(PopularProductIds(t, limit), PopularProductIds(t2, limit), p)
           /\ Toward(PopularProductIds(t, limit), PopularProductIds(t2, limit), p)
<1>1. PICK f, g : f = PopularScores(t) /\ g = PopularScores(t2)
  OBVIOUS
<1>2. PICK b, c : b = Better(f) /\ c = Better(g)
  OBVIOUS
<1>3. /\ Ordered(b) /\ DOMAIN b = Dealt(t) /\ Dealt(t) \subseteq Nat
      /\ \A q \in Dealt(t) : f[q] = Popularity(t, RowsAbout(t, q)) /\ f[q] \in Nat
      /\ PopularProductIds(t, limit) = TakeTop(ListOf(b), limit)
  BY <1>1, <1>2, PopularOrder
<1>4. /\ Ordered(c) /\ DOMAIN c = Dealt(t2) /\ Dealt(t2) \subseteq Nat
      /\ \A q \in Dealt(t2) : g[q] = Popularity(t2, RowsAbout(t2, q)) /\ g[q] \in Nat
      /\ PopularProductIds(t2, limit) = TakeTop(ListOf(c), limit)
  BY <1>1, <1>2, PopularOrder
<1>5. /\ Dealt(t) \subseteq Dealt(t2) /\ Dealt(t2) \subseteq Dealt(t) \cup {p}
      /\ \A q \in Dealt(t) : q # p => g[q] = f[q]
      /\ p \in Dealt(t) => g[p] >= f[p]
  BY <1>3, <1>4, PopularityAfter
<1>6. DOMAIN f = Dealt(t) /\ DOMAIN g = Dealt(t2)
  BY <1>1 DEF PopularScores
<1>7. p \in DOMAIN b => p \in DOMAIN c /\ c[p] \subseteq b[p]
  <2>1. /\ \A q \in DOMAIN f : q \in Int /\ f[q] \in Int
        /\ \A q \in DOMAIN g : q \in Int /\ g[q] \in Int
        /\ p \in DOMAIN f => p \in DOMAIN g /\ g[p] >= f[p]
        /\ \A q \in DOMAIN g : q # p => q \in DOMAIN f /\ g[q] <= f[q]
    BY <1>3, <1>4, <1>5, <1>6
  <2>. QED
    BY <1>2, <2>1, RisingScore
<1>8. ASSUME NEW q \in DOMAIN c, q # p
      PROVE  q \in DOMAIN b /\ b[q] \subseteq c[q]
  <2>1. q \in DOMAIN f /\ q \in DOMAIN g /\ g[q] = f[q]
    BY <1>4, <1>5, <1>6, <1>8
  <2>2. /\ \A x \in DOMAIN f : x \in Int /\ f[x] \in Int
        /\ \A x \in DOMAIN g : x \in Int /\ g[x] \in Int
        /\ \A x \in DOMAIN f : x \in DOMAIN g /\ g[x] >= f[x]
    BY <1>3, <1>4, <1>5, <1>6
  <2>3. b[q] \subseteq c[q]
    BY <1>2, <2>1, <2>2, SteadyScore
  <2>. QED
    BY <1>3, <1>6, <2>1, <2>3
<1>9. Lifts(TakeTop(ListOf(b), limit), TakeTop(ListOf(c), limit), p)
  BY <1>3, <1>4, <1>7, FewerBeforeLifts
<1>10. Toward(TakeTop(ListOf(b), limit), TakeTop(ListOf(c), limit), p)
  BY <1>3, <1>4, <1>7, <1>8, OrderToward
<1>. QED
  BY <1>3, <1>4, <1>9, <1>10

\* In a merge of lists each of which moves toward p, p rises.
LEMMA MergeAfter ==
    ASSUME NEW s, Lists(s), NEW s2, Lists(s2), NEW p,
           \A k \in SourceNames : Toward(s[k], s2[k], p)
    PROVE  Lifts(TakeTop(ListOf(Better(Totals(s))), StoredLimit),
                 TakeTop(ListOf(Better(Totals(s2))), StoredLimit), p)
<1>1. PICK f, g : f = Totals(s) /\ g = Totals(s2)
  OBVIOUS
<1>2. /\ Ordered(Better(f)) /\ DOMAIN f = Named(s) /\ Named(s) \subseteq Nat
      /\ \A q \in Named(s) : f[q] = Score(s, q) /\ f[q] \in Nat
  BY <1>1, MergeOrder DEF Totals
<1>3. /\ Ordered(Better(g)) /\ DOMAIN g = Named(s2) /\ Named(s2) \subseteq Nat
      /\ \A q \in Named(s2) : g[q] = Score(s2, q) /\ g[q] \in Nat
  BY <1>1, MergeOrder DEF Totals
<1>4. /\ Named(s) = UNION {Range(s[k]) : k \in SourceNames}
      /\ Named(s2) = UNION {Range(s2[k]) : k \in SourceNames}
  BY DEF Named, Lists
<1>5. /\ p \in Named(s) => p \in Named(s2)
      /\ \A q \in Named(s2) : q # p => q \in Named(s)
  BY <1>4 DEF Toward
<1>6. ASSUME NEW a, NEW b, NEW q, Lists(a), Lists(b),
             \A k \in SourceNames : q \in Range(a[k]) => q \in Range(b[k])
      PROVE  Score(a, q) <= Score(b, q)
  <2>1. \A k \in SourceNames : /\ Part(a, k, q) \in Nat /\ Part(b, k, q) \in Nat
                               /\ Part(a, k, q) <= Part(b, k, q)
    BY <1>6 DEF Part, SourceWeight, SourceNames
  <2>2. /\ Part(a, "history", q) \in Nat /\ Part(b, "history", q) \in Nat
        /\ Part(a, "history", q) <= Part(b, "history", q)
        /\ Part(a, "popular", q) \in Nat /\ Part(b, "popular", q) \in Nat
        /\ Part(a, "popular", q) <= Part(b, "popular", q)
        /\ Part(a, "gpt_ranked", q) \in Nat /\ Part(b, "gpt_ranked", q) \in Nat
        /\ Part(a, "gpt_ranked", q) <= Part(b, "gpt_ranked", q)
        /\ Part(a, "similar", q) \in Nat /\ Part(b, "similar", q) \in Nat
        /\ Part(a, "similar", q) <= Part(b, "similar", q)
    BY <2>1 DEF SourceNames
  <2>. QED
    BY <1>6, <2>2, ScoreParts
<1>7. Score(s, p) <= Score(s2, p)
  BY <1>6 DEF Toward
<1>8. \A q : q # p => Score(s2, q) <= Score(s, q)
  BY <1>6 DEF Toward
<1>9. p \in DOMAIN Better(f) => p \in DOMAIN Better(g) /\ Better(g)[p] \subseteq Better(f)[p]
  <2>1. /\ \A q \in DOMAIN f : q \in Int /\ f[q] \in Int
        /\ \A q \in DOMAIN g : q \in Int /\ g[q] \in Int
    BY <1>2, <1>3
  <2>2. p \in DOMAIN f => p \in DOMAIN g /\ g[p] >= f[p]
    BY <1>2, <1>3, <1>5, <1>7, <2>1
  <2>3. \A q \in DOMAIN g : q # p => q \in DOMAIN f /\ g[q] <= f[q]
    BY <1>2, <1>3, <1>5, <1>8
  <2>. QED
    BY <2>1, <2>2, <2>3, RisingScore
<1>. QED
  BY <1>1, <1>2, <1>3, <1>9, LimitsAreNat, FewerBeforeLifts

\* A day takes rows out of the window, of each product the older first.
LEMMA DayAfter ==
    ASSUME NEW t, Table(t), NEW t2, Table(t2),
           t2.actions = t.actions, t2.today = t.today + 1, NEW u,
           NEW b, b = ProductOrder(t, u), NEW b2, b2 = ProductOrder(t2, u)
    PROVE  \A q \in DOMAIN b2 : q \in DOMAIN b /\ b2[q] \subseteq b[q]
<1>1. PICK L, L2, R, R2 : /\ L = Latest(t, u) /\ L2 = Latest(t2, u)
                          /\ R = RowsOf(t, u) /\ R2 = RowsOf(t2, u)
  OBVIOUS
<1>2. PICK a : a = t.actions
  OBVIOUS
<1>3. /\ t.today \in Nat /\ HistoryDays \in Nat
      /\ \A i \in DOMAIN a : a[i].created_at \in Int /\ i \in Nat
      /\ \A i, j \in DOMAIN a : i < j => a[i].created_at <= a[j].created_at
  <2>1. t.today \in Nat /\ HistoryDays \in Nat
    BY RankingAssumption DEF Table
  <2>2. \A i \in DOMAIN a : a[i].created_at \in Int /\ i \in Nat
    BY <1>2, RowsOfTable
  <2>3. \A i, j \in DOMAIN a : i < j => a[i].created_at <= a[j].created_at
    BY <1>2 DEF Table
  <2>. QED
    BY <2>1, <2>2, <2>3
<1>4. /\ \A i \in R : i \in DOMAIN a
      /\ R2 \subseteq R
      /\ \A i, j \in R : i \in R2 /\ i < j => j \in R2
  <2>1. \A i \in R : i \in DOMAIN a
    BY <1>1, <1>2 DEF RowsOf, Window
  <2>2. R2 \subseteq R
    BY <1>1, <1>2, <1>3 DEF RowsOf, Window
  <2>3. \A i, j \in R : i \in R2 /\ i < j => j \in R2
    BY <1>1, <1>2, <1>3 DEF RowsOf, Window
  <2>. QED
    BY <2>1, <2>2, <2>3
<1>5. \A i : Pid(t2, i) = Pid(t, i) /\ TypeRank(t2, i) = TypeRank(t, i)
  BY DEF Pid, TypeRank
<1>6. /\ L = {i \in R : \A j \in R : Pid(t, j) = Pid(t, i) => j <= i}
      /\ L2 = {i \in R2 : \A j \in R2 : Pid(t, j) = Pid(t, i) => j <= i}
  BY <1>1, <1>5 DEF Latest, RowsOf
<1>7. L2 \subseteq L
  BY <1>3, <1>4, <1>6
<1>8. /\ DOMAIN b = {Pid(t, i) : i \in L} /\ DOMAIN b2 = {Pid(t2, i) : i \in L2}
      /\ \A i \in L : b[Pid(t, i)] = {Pid(t, j) : j \in Preferred(t, u, i)}
      /\ \A i \in L2 : b2[Pid(t2, i)] = {Pid(t2, j) : j \in Preferred(t2, u, i)}
  BY <1>1, HistoryList
<1>9. ASSUME NEW i \in L2
      PROVE  Preferred(t2, u, i) \subseteq Preferred(t, u, i)
  BY <1>1, <1>5, <1>7 DEF Preferred
<1>10. ASSUME NEW q \in DOMAIN b2
       PROVE  q \in DOMAIN b /\ b2[q] \subseteq b[q]
  <2>1. PICK i \in L2 : q = Pid(t2, i)
    BY <1>8
  <2>2. i \in L /\ q = Pid(t, i)
    BY <1>5, <1>7, <2>1
  <2>3. b[q] = {Pid(t, j) : j \in Preferred(t, u, i)} /\ b2[q] = {Pid(t2, j) : j \in Preferred(t2, u, i)}
    BY <1>8, <2>1, <2>2
  <2>. QED
    BY <1>5, <1>8, <1>9, <2>2, <2>3
<1>. QED
  BY <1>10
----------------------------------------------------------------------------
\* The same about the steps of the model.
LEMMA RankSteps ==
    ASSUME RankInv, [Next]_vars
    PROVE  /\ RankInv'
           /\ \/ \E row : Adds(db, db', row) /\ Added = row
                             /\ (Acted <=> row.product_id \in DOMAIN Cast)
              \/ ~Acted /\ db'.actions = db.actions /\ db'.today = db.today + 1
              \/ ~Acted /\ UNCHANGED vars
<1>1. CASE UNCHANGED vars
  BY <1>1 DEF RankInv, vars, Table, Acted
<1>2. CASE Next
  <2>1. RankInv'
    BY <1>2, StepsOfTable
  <2>2. ASSUME NEW row, Adds(db, db', row)
        PROVE  Added = row /\ (Acted <=> row.product_id \in DOMAIN Cast)
    <3>1. PICK a \in Seq(Row) : a = db.actions
      BY DEF RankInv, Table
    <3>2. db'.actions = Append(a, row) /\ row \in Row
      BY <2>2, <3>1 DEF Adds
    <3>3. Len(Append(a, row)) = Len(a) + 1 /\ Append(a, row)[Len(a) + 1] = row /\ Append(a, row) # a
      BY <3>1, <3>2
    <3>4. Added = row
      BY <3>2, <3>3 DEF Added, Last
    <3>. QED
      BY <3>1, <3>2, <3>3, <3>4 DEF Acted
  <2>3. ASSUME db'.actions = db.actions, db'.today = db.today + 1
        PROVE  ~Acted
    BY <2>3 DEF Acted
  <2>. QED
    BY <1>2, <2>1, <2>2, <2>3, StepsOfTable
<1>. QED
  BY <1>1, <1>2

\* Whoever acts on a product, and however little, never makes it less popular
\* than another.
THEOREM PopularityNeverSinks == Spec => PopularNeverSinks
<1>1. ASSUME RankInv, [Next]_vars, NEW u \in Users, Acted
      PROVE  Lifts(sources[u].popular, sources'[u].popular, ActedOn)
  <2>1. PICK t, t2 : t = db /\ t2 = db'
    OBVIOUS
  <2>2. PICK row : Adds(t, t2, row) /\ Added = row
    BY <1>1, <2>1, RankSteps
  <2>3. RankInv'
    BY <1>1, RankSteps
  <2>4. Table(t) /\ Table(t2)
    BY <1>1, <2>1, <2>3 DEF RankInv, Table
  <2>5. /\ sources[u].popular = PopularProductIds(t, ListLimit)
        /\ sources'[u].popular = PopularProductIds(t2, ListLimit)
    BY <1>1, <2>1, <2>3 DEF RankInv, FetchSources
  <2>. QED
    BY <2>2, <2>4, <2>5, LimitsAreNat, PopularAfter DEF ActedOn
<1>. DEFINE A == \A u \in Users : Acted => Lifts(sources[u].popular, sources'[u].popular, ActedOn)
<1>2. RankInv /\ [Next]_vars => [A]_vars
  BY <1>1
<1>. QED
  BY <1>2, RankInvariant, PTL DEF Spec, PopularNeverSinks

\* The history of a user as a list by product, before and after a step.
LEMMA HistoryOf ==
    ASSUME NEW t, Table(t), NEW u, NEW b, b = ProductOrder(t, u)
    PROVE  /\ Ordered(b) /\ FetchSources(t, u).history = TakeTop(ListOf(b), ListLimit)
           /\ \A p \in Range(FetchSources(t, u).history) :
                 p \in DOMAIN b /\ Ahead(FetchSources(t, u).history, p) = b[p]
<1>1. Ordered(b) /\ RecentProductIds(t, u) = TakeTop(ListOf(b), ListLimit)
  BY HistoryList
<1>2. FetchSources(t, u).history = RecentProductIds(t, u)
  BY DEF FetchSources
<1>3. \A p \in Range(TakeTop(ListOf(b), ListLimit)) :
          p \in DOMAIN b /\ Ahead(TakeTop(ListOf(b), ListLimit), p) = b[p]
  BY <1>1, LimitsAreNat, RankedList
<1>. QED
  BY <1>1, <1>2, <1>3

\* The order of a user's history changes by his own actions only, each moves only
\* its product, and upwards unless it ranks lower than the one before; what days
\* take from the window changes the order of nothing else.
THEOREM HistoryFollows == Spec => HistoryFollowsActions
<1> DEFINE Steady(u) == LET old == sources[u].history
                            new == sources'[u].history
                            own == IF Acts(u) THEN {ActedOn} ELSE {}
                        IN /\ \A p \in (Range(old) \cap Range(new)) \ own :
                                 Ahead(new, p) \ own \subseteq Ahead(old, p)
                           /\ Acts(u) /\ NotLower => Lifts(old, new, ActedOn)
<1>1. ASSUME RankInv, [Next]_vars, NEW u \in Users
      PROVE  Steady(u)
  <2>1. PICK t, t2, old, new : /\ t = db /\ t2 = db'
                               /\ old = sources[u].history /\ new = sources'[u].history
    OBVIOUS
  <2>2. PICK b, b2 : b = ProductOrder(t, u) /\ b2 = ProductOrder(t2, u)
    OBVIOUS
  <2>3. RankInv'
    BY <1>1, RankSteps
  <2>4. Table(t) /\ Table(t2)
    BY <1>1, <2>1, <2>3 DEF RankInv, Table
  <2>5. old = FetchSources(t, u).history /\ new = FetchSources(t2, u).history
    BY <1>1, <2>1, <2>3 DEF RankInv
  <2>6. /\ Ordered(b) /\ old = TakeTop(ListOf(b), ListLimit)
        /\ \A p \in Range(old) : p \in DOMAIN b /\ Ahead(old, p) = b[p]
    BY <2>2, <2>4, <2>5, HistoryOf
  <2>7. /\ Ordered(b2) /\ new = TakeTop(ListOf(b2), ListLimit)
        /\ \A p \in Range(new) : p \in DOMAIN b2 /\ Ahead(new, p) = b2[p]
    BY <2>2, <2>4, <2>5, HistoryOf
  <2>8. ASSUME NEW row, Adds(t, t2, row), Added = row, Acted <=> row.product_id \in DOMAIN Cast
        PROVE  Steady(u)
    <3>1. PICK p : p = Cast[row.product_id]
      OBVIOUS
    <3>2. /\ \A q \in DOMAIN b2 : q # p \/ ~Moves(row, u) =>
                q \in DOMAIN b /\ b2[q] \ (IF Moves(row, u) THEN {p} ELSE {}) \subseteq b[q]
          /\ (Moves(row, u) => \A i \in Latest(t, u) :
                         Pid(t, i) = p => HistoryRank[row.action_type] >= TypeRank(t, i))
             => (p \in DOMAIN b => p \in DOMAIN b2 /\ b2[p] \subseteq b[p])
      BY <2>2, <2>4, <2>8, <3>1, HistoryAfter
    <3>3. ActedOn = p /\ (Moves(row, u) => Acts(u)) /\ (Acts(u) => row.user_id = u)
      BY <2>8, <3>1 DEF ActedOn, Acts, Moves, Counts
    <3>4. PICK own : own = IF Acts(u) THEN {p} ELSE {}
      OBVIOUS
    <3>5. ASSUME NEW q \in (Range(old) \cap Range(new)) \ own
          PROVE  Ahead(new, q) \ own \subseteq Ahead(old, q)
      <4>1. q \in DOMAIN b2 /\ (q # p \/ ~Moves(row, u))
        BY <2>7, <3>3, <3>4
      <4>2. b2[q] \ (IF Moves(row, u) THEN {p} ELSE {}) \subseteq b[q]
        BY <3>2, <4>1
      <4>. QED
        BY <2>6, <2>7, <3>3, <3>4, <4>2
    <3>6. ASSUME Acts(u), NotLower
          PROVE  Lifts(old, new, p)
      <4>1. \A i \in Latest(t, u) : Pid(t, i) = p => HistoryRank[row.action_type] >= TypeRank(t, i)
        BY <2>1, <2>8, <3>3, <3>6 DEF NotLower
      <4>2. p \in DOMAIN b => p \in DOMAIN b2 /\ b2[p] \subseteq b[p]
        BY <3>2, <4>1
      <4>. QED
        BY <2>6, <2>7, <4>2, LimitsAreNat, FewerBeforeLifts
    <3>. QED
      BY <2>1, <3>3, <3>4, <3>5, <3>6
  <2>9. ASSUME ~Acted, db'.actions = db.actions, db'.today = db.today + 1
        PROVE  Steady(u)
    <3>1. \A q \in DOMAIN b2 : q \in DOMAIN b /\ b2[q] \subseteq b[q]
      BY <2>1, <2>2, <2>4, <2>9, DayAfter
    <3>2. \A q \in Range(old) \cap Range(new) : Ahead(new, q) \subseteq Ahead(old, q)
      BY <2>6, <2>7, <3>1
    <3>. QED
      BY <2>1, <2>9, <3>2 DEF Acts
  <2>10. ASSUME ~Acted, UNCHANGED vars
         PROVE  Steady(u)
    BY <2>10 DEF vars, Acts
  <2>. QED
    BY <1>1, <2>1, <2>8, <2>9, <2>10, RankSteps
<1>. DEFINE A == \A u \in Users : Steady(u)
<1>2. RankInv /\ [Next]_vars => [A]_vars
  BY <1>1
<1>. QED
  BY <1>2, RankInvariant, PTL DEF Spec, HistoryFollowsActions

\* The same lists about the same anchor move toward what is acted on.
LEMMA SourcesAfter ==
    ASSUME NEW t, Table(t), NEW t2, Table(t2), NEW row, Adds(t, t2, row),
           NEW p, p = Cast[row.product_id], NEW u,
           NEW s, s = FetchSources(t, u), NEW s2, s2 = FetchSources(t2, u),
           AnchorOf(s) = AnchorOf(s2),
           row.user_id = u => \A i \in Latest(t, u) :
              Pid(t, i) = p => HistoryRank[row.action_type] >= TypeRank(t, i)
    PROVE  \A k \in SourceNames : Toward(s[k], s2[k], p)
<1>1. Toward(s.history, s2.history, p)
  <2>1. PICK b, b2 : b = ProductOrder(t, u) /\ b2 = ProductOrder(t2, u)
    OBVIOUS
  <2>2. Moves(row, u) => \A i \in Latest(t, u) :
           Pid(t, i) = p => HistoryRank[row.action_type] >= TypeRank(t, i)
    BY DEF Moves
  <2>3. /\ \A q \in DOMAIN b2 : q # p \/ ~Moves(row, u) => q \in DOMAIN b
        /\ p \in DOMAIN b => p \in DOMAIN b2 /\ b2[p] \subseteq b[p]
        /\ \A q \in DOMAIN b2 : q # p => b[q] \subseteq b2[q]
    BY <2>1, <2>2, HistoryAfter
  <2>4. /\ Ordered(b) /\ s.history = TakeTop(ListOf(b), ListLimit)
        /\ Ordered(b2) /\ s2.history = TakeTop(ListOf(b2), ListLimit)
    BY <2>1, HistoryOf
  <2>. QED
    BY <2>3, <2>4, LimitsAreNat, OrderToward
<1>2. Toward(s.popular, s2.popular, p)
  BY LimitsAreNat, PopularAfter DEF FetchSources
<1>3. Toward(s.gpt_ranked, s2.gpt_ranked, p)
  BY DEF FetchSources, Toward
<1>4. Toward(s.similar, s2.similar, p)
  <2>1. PICK a : a = AnchorOf(s)
    OBVIOUS
  <2>2. s.similar = Similar(t, a) /\ s2.similar = Similar(t2, a)
    BY <2>1 DEF FetchSources, AnchorOf
  <2>3. Toward(PopularProductIds(t, SimilarLimit), PopularProductIds(t2, SimilarLimit), p)
    BY LimitsAreNat, PopularAfter
  <2>4. \A l : Toward(l, l, p)
    BY DEF Toward
  <2>. QED
    BY <2>2, <2>3, <2>4 DEF Similar
<1>. QED
  BY <1>1, <1>2, <1>3, <1>4 DEF SourceNames

\* Acting on a product never sinks it in anybody's feed, unless the similar list
\* is about another product from then on, or its actor valued it more before.
THEOREM FeedFollows == Spec => FeedFollowsActions
<1> DEFINE Risen(u) == AnchorOf(sources[u]) = AnchorOf(sources'[u])
                          => Lifts(feed[u], feed'[u], ActedOn)
<1>1. ASSUME RankInv, [Next]_vars, Acted, NotLower, NEW u \in Users,
             AnchorOf(sources[u]) = AnchorOf(sources'[u])
      PROVE  Lifts(feed[u], feed'[u], ActedOn)
  <2>1. PICK t, t2, s, s2 : t = db /\ t2 = db' /\ s = sources[u] /\ s2 = sources'[u]
    OBVIOUS
  <2>2. PICK row, p : Adds(t, t2, row) /\ Added = row /\ p = Cast[row.product_id]
    BY <1>1, <2>1, RankSteps
  <2>3. RankInv'
    BY <1>1, RankSteps
  <2>4. Table(t) /\ Table(t2)
    BY <1>1, <2>1, <2>3 DEF RankInv, Table
  <2>5. /\ s = FetchSources(t, u) /\ s2 = FetchSources(t2, u)
        /\ feed[u] = TakeTop(FanOutMerge(s), StoredLimit)
        /\ feed'[u] = TakeTop(FanOutMerge(s2), StoredLimit)
    BY <1>1, <2>1, <2>3 DEF RankInv
  <2>6. Lists(s) /\ Lists(s2)
    BY <2>4, <2>5, FetchedLists
  <2>7. AnchorOf(s) = AnchorOf(s2)
    BY <1>1, <2>1 DEF AnchorOf
  <2>8. ActedOn = p
    BY <2>2 DEF ActedOn
  <2>9. row.user_id = u => \A i \in Latest(t, u) :
           Pid(t, i) = p => HistoryRank[row.action_type] >= TypeRank(t, i)
    BY <1>1, <2>1, <2>2, <2>8 DEF NotLower
  <2>10. \A k \in SourceNames : Toward(s[k], s2[k], p)
    BY <2>2, <2>4, <2>5, <2>7, <2>9, SourcesAfter
  <2>11. Lifts(TakeTop(ListOf(Better(Totals(s))), StoredLimit),
               TakeTop(ListOf(Better(Totals(s2))), StoredLimit), p)
    BY <2>6, <2>10, MergeAfter
  <2>. QED
    BY <2>5, <2>6, <2>8, <2>11, MergeOrder
<1>. DEFINE A == Acted /\ NotLower => \A u \in Users : Risen(u)
<1>2. RankInv /\ [Next]_vars => [A]_vars
  BY <1>1
<1>. QED
  BY <1>2, RankInvariant, PTL DEF Spec, FeedFollowsActions
=============================================================================
