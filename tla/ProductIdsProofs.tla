-------------------------- MODULE ProductIdsProofs --------------------------
(***************************************************************************)
(* Theorems about ProductIds, for integers of any width, any users, values *)
(* and windows.                                                            *)
(***************************************************************************)
EXTENDS ProductIds, TLAPS

\* A row holds a text that its value was turned into.
RowsInv == \A row \in table : row.text \in JsonFieldAsString(row.value)

\* A cached list was made by IdsToJson, of numbers that were sent.
Good(raw) ==
    \A v \in raw :
        /\ v = [kind |-> "number", n |-> v.n, exact |-> TRUE]
        /\ v.n \in 0..Max64
        /\ \E row \in table : Meant(row.value) = v.n

CacheInv ==
    /\ \A raw \in popular : Good(raw)
    /\ \A list \in similar : Good(list.raw)

ProductInv == TypeOK /\ RowsInv /\ CacheInv /\ ShownWereSent /\ OnlyStringsFail

\* What the conversions of POST /action do to a value: every text is one of
\* Texts; one of digits is the number that was meant; and one of digits too long
\* for BIGINT was a string.
LEMMA FieldText ==
    ASSUME NEW v \in Json, NEW t \in JsonFieldAsString(v)
    PROVE  /\ t \in Texts
           /\ v.kind \in {"string", "number"}
           /\ v.kind = "number" => v.n \in Int
           /\ t.form = "digits" => t.n \in Nat /\ t.n = Meant(v)
           /\ t.form = "digits" /\ t.n > Max64 => v.kind = "string"
<1>. USE ProductAssumption
<1>1. CASE v.kind = "string"
  <2>1. v \in [kind : {"string"}, text : Texts]
    BY <1>1 DEF Json, Numbers
  <2>2. t = v.text
    BY <1>1 DEF JsonFieldAsString, IsInt64, IsUInt64
  <2>3. v.text \in Texts
    BY <2>1
  <2>. QED
    BY <1>1, <2>2, <2>3 DEF Texts, Meant
<1>2. CASE v.kind = "other"
  BY <1>2 DEF JsonFieldAsString, IsInt64, IsUInt64
<1>3. CASE v.kind = "number"
  <2>1. v \in Numbers
    BY <1>3 DEF Json
  <2>2. \/ v.n \in Int64 /\ t = Decimal(v.n)
        \/ v.n \in UInt64 \ Int64 /\ t = Decimal(AsInt64(v.n))
        \/ t = [form |-> "loose", n |-> v.n]
    BY <1>3, <2>1 DEF JsonFieldAsString, IsInt64, IsUInt64, TextsOfDouble, Numbers
  <2>. QED
    BY <1>3, <2>1, <2>2
    DEF Numbers, Int64, UInt64, Decimal, AsInt64, Texts, Meant
<1>. QED
  BY <1>1, <1>2, <1>3 DEF Json, Numbers

\* Whatever the queries select is a number that was sent, and one that fits unless
\* a string was too long.
LEMMA SelectedPids ==
    ASSUME TypeOK, RowsInv, NEW rows \in SUBSET table, NEW days \in Nat
    PROVE  /\ Selected(rows, days) \subseteq rows
           /\ \A row \in Selected(rows, days) :
                 /\ row.text.n \in Nat
                 /\ Meant(row.value) = row.text.n
                 /\ row.day + days >= today
                 /\ ~Castable(row) => TooLong(row)
           /\ ~Fails(Selected(rows, days)) => Pids(Selected(rows, days)) \subseteq 0..Max64
<1>. USE ProductAssumption
<1>1. ASSUME NEW row \in Selected(rows, days)
      PROVE  /\ row \in rows
             /\ row.text.n \in Nat
             /\ Meant(row.value) = row.text.n
             /\ row.day + days >= today
             /\ ~Castable(row) => TooLong(row)
  <2>1. /\ row \in rows /\ row \in Rows
        /\ row.text.form = "digits" /\ row.day + days >= today
    BY <1>1 DEF Selected, IsNumeric, TypeOK
  <2>2. row.value \in Json /\ row.text \in JsonFieldAsString(row.value)
    BY <2>1 DEF Rows, RowsInv
  <2>3. /\ row.text.n \in Nat /\ row.text.n = Meant(row.value)
        /\ row.text.n > Max64 => row.value.kind = "string"
    BY <2>1, <2>2, FieldText
  <2>. QED
    BY <2>1, <2>3 DEF Castable, TooLong, Meant
<1>2. ~Fails(Selected(rows, days)) => Pids(Selected(rows, days)) \subseteq 0..Max64
  BY <1>1 DEF Fails, Castable, Pids
<1>. QED
  BY <1>1, <1>2

\* Ids that some value was sent for, of those that fit.
Sent == {id \in 0..Max64 : \E row \in table : Meant(row.value) = id}

\* What a list is read from the cache as, and what is cached then.
LEMMA ListIsSent ==
    ASSUME TypeOK, RowsInv, NEW raws \in SUBSET SUBSET Numbers, \A raw \in raws : Good(raw)
    PROVE  /\ \A ids \in Fetched(raws) : ids \subseteq Sent
           /\ Recached(raws) \subseteq SUBSET Numbers
           /\ \A raw \in Recached(raws) : Good(raw)
           /\ Fetched(raws) = {} => Fails(PopularRows)
<1>. USE ProductAssumption
<1>1. ASSUME NEW raw \in raws, NEW ids \in JsonToIds(raw) PROVE ids \subseteq Sent
  <2>1. ids = {AsInt64(v.n) : v \in raw}
    BY <1>1 DEF JsonToIds
  <2>2. \A v \in raw : AsInt64(v.n) = v.n /\ v.n \in Sent
    BY DEF Good, AsInt64, Sent
  <2>. QED
    BY <2>1, <2>2
<1>2. \A ids \in Cached(raws) : ids \subseteq Sent
  BY <1>1 DEF Cached
<1>3. ASSUME NEW ids \in Queried PROVE ids \subseteq Sent
  <2>1. ~Fails(PopularRows) /\ ids = Pids(PopularRows)
    BY <1>3 DEF Queried
  <2>. QED
    BY <2>1, SelectedPids DEF PopularRows, Pids, Sent
<1>4. ASSUME NEW ids, ids \subseteq Sent
      PROVE  IdsToJson(ids) \subseteq Numbers /\ Good(IdsToJson(ids))
  <2>1. ASSUME NEW v \in IdsToJson(ids)
        PROVE  /\ v = [kind |-> "number", n |-> v.n, exact |-> TRUE]
               /\ v.n \in Sent /\ v \in Numbers
    <3>1. PICK id \in ids : v = [kind |-> "number", n |-> id, exact |-> TRUE]
      BY <2>1 DEF IdsToJson
    <3>2. id \in Sent /\ id \in Int
      BY <1>4 DEF Sent
    <3>. QED
      BY <3>1, <3>2 DEF Numbers
  <2>. QED
    BY <2>1 DEF Good, Sent
<1>5. \A ids \in Fetched(raws) : ids \subseteq Sent
  BY <1>2, <1>3 DEF Fetched
<1>6. \A raw \in Recached(raws) : raw \subseteq Numbers /\ Good(raw)
  BY <1>3, <1>4 DEF Recached
<1>7. Fetched(raws) = {} => Fails(PopularRows)
  BY DEF Fetched, Queried
<1>. QED
  BY <1>5, <1>6, <1>7

\* An answer of ids that were sent, or an error for a query that fails.
LEMMA AnswerOrError ==
    ASSUME ProductInv, UNCHANGED <<table, today>>, NEW u \in Users,
           \/ \E ids \in SUBSET Sent : Answer(u, ids)
           \/ Error(u) /\ (Fails(RecentRows(u)) \/ Fails(PopularRows))
    PROVE  /\ shown' \in [Users -> SUBSET (0..Max64)] /\ failed' \subseteq Users
           /\ ShownWereSent' /\ OnlyStringsFail'
<1>. USE ProductAssumption DEF ProductInv
<1>1. CASE \E ids \in SUBSET Sent : Answer(u, ids)
  BY <1>1 DEF Answer, Sent, TypeOK, ShownWereSent, OnlyStringsFail
<1>2. CASE Error(u) /\ (Fails(RecentRows(u)) \/ Fails(PopularRows))
  <2>1. \E row \in table :
            /\ TooLong(row)
            /\ \/ row.user = u /\ row.day + HistoryDays >= today
               \/ row.day + PopularDays >= today
    BY <1>2, SelectedPids DEF RecentRows, PopularRows, Fails
  <2>. QED
    BY <1>2, <2>1 DEF Error, TypeOK, ShownWereSent, OnlyStringsFail
<1>. QED
  BY <1>1, <1>2

\* A GET keeps the invariant, whichever of its ways it takes.
LEMMA RecommendKeepsInv ==
    ASSUME ProductInv, NEW u \in Users, Recommend(u)
    PROVE  ProductInv'
<1>. USE ProductAssumption DEF ProductInv
<1>. DEFINE Old == Pids(RecentRows(u))
<1>1. UNCHANGED <<table, today>>
  BY DEF Recommend
<1>2. RowsInv' /\ table' \subseteq Rows /\ today' \in Nat
  BY <1>1 DEF RowsInv, TypeOK
<1>3. \A raw : Good(raw) => Good(raw)'
  BY <1>1 DEF Good
<1>4. ASSUME \/ \E ids \in SUBSET Sent : Answer(u, ids)
             \/ Error(u) /\ (Fails(RecentRows(u)) \/ Fails(PopularRows)),
             popular' \subseteq SUBSET Numbers, \A raw \in popular' : Good(raw),
             similar' \subseteq [anchor : 1..Max64, raw : SUBSET Numbers],
             \A list \in similar' : Good(list.raw)
      PROVE  ProductInv'
  BY <1>1, <1>2, <1>3, <1>4, AnswerOrError DEF TypeOK, CacheInv
<1>5. CASE Fails(RecentRows(u)) /\ Error(u) /\ UNCHANGED <<popular, similar>>
  BY <1>4, <1>5 DEF TypeOK, CacheInv
<1>6. ASSUME ~Fails(RecentRows(u)), popular' = Recached(popular) PROVE
          /\ Old \subseteq Sent
          /\ popular' \subseteq SUBSET Numbers /\ \A raw \in popular' : Good(raw)
          /\ \A top \in Fetched(popular) : top \subseteq Sent
          /\ Fetched(popular) = {} => Fails(PopularRows)
  <2>1. Old \subseteq Sent
    BY <1>6, SelectedPids DEF RecentRows, Pids, Sent
  <2>. QED
    BY <1>6, <2>1, ListIsSent DEF TypeOK, CacheInv
<1>7. CASE /\ ~Fails(RecentRows(u)) /\ popular' = Recached(popular)
           /\ Fetched(popular) = {} /\ Error(u) /\ UNCHANGED similar
  BY <1>4, <1>6, <1>7 DEF TypeOK, CacheInv
<1>8. ASSUME ~Fails(RecentRows(u)), popular' = Recached(popular),
             NEW top \in Fetched(popular), NEW anchor \in Anchors(Old, top),
             FetchSimilar(u, anchor, Old \cup top)
      PROVE  ProductInv'
  <2>1. Old \cup top \subseteq Sent /\ anchor \in 0..Max64
    BY <1>6, <1>8 DEF Anchors, Sent
  <2>2. CASE anchor = 0 \/ anchor \in Related
    BY <1>4, <1>6, <1>8, <2>1, <2>2 DEF FetchSimilar, TypeOK, CacheInv
  <2>3. CASE ~(anchor = 0 \/ anchor \in Related)
    <3>. DEFINE raws == SimilarOf(anchor)
    <3>1. /\ raws \in SUBSET SUBSET Numbers /\ \A raw \in raws : Good(raw)
      BY DEF SimilarOf, TypeOK, CacheInv
    <3>2. /\ \A more \in Fetched(raws) : more \subseteq Sent
          /\ Recached(raws) \subseteq SUBSET Numbers /\ \A raw \in Recached(raws) : Good(raw)
          /\ Fetched(raws) = {} => Fails(PopularRows)
      BY <3>1, ListIsSent
    <3>3. similar' = {list \in similar : list.anchor # anchor}
                         \cup [anchor : {anchor}, raw : Recached(raws)]
      BY <1>8, <2>3 DEF FetchSimilar
    <3>4. /\ similar' \subseteq [anchor : 1..Max64, raw : SUBSET Numbers]
          /\ \A list \in similar' : Good(list.raw)
      <4>1. anchor \in 1..Max64
        BY <2>1, <2>3
      <4>. QED
        BY <3>2, <3>3, <4>1 DEF TypeOK, CacheInv
    <3>5. \/ \E ids \in SUBSET Sent : Answer(u, ids)
          \/ Error(u) /\ Fails(PopularRows)
      BY <1>8, <2>1, <2>3, <3>2 DEF FetchSimilar
    <3>. QED
      BY <1>4, <1>6, <1>8, <3>4, <3>5
  <2>. QED
    BY <2>2, <2>3
<1>. QED
  BY <1>5, <1>7, <1>8 DEF Recommend

\* Every step keeps the invariant.
LEMMA StepKeepsInv == ProductInv /\ [Next]_vars => ProductInv'
<1>. SUFFICES ASSUME ProductInv, [Next]_vars
              PROVE  ProductInv'
  OBVIOUS
<1>. USE ProductAssumption DEF ProductInv
<1>1. ASSUME NEW u \in Users, NEW v \in Values \cup IdsToJson(shown[u]), Post(u, v)
      PROVE  ProductInv'
  <2>1. v \in Json
    <3>1. CASE v \in Values
      BY <3>1
    <3>2. CASE v \in IdsToJson(shown[u])
      <4>1. shown[u] \subseteq 0..Max64
        BY DEF TypeOK
      <4>2. PICK id \in 0..Max64 : v = [kind |-> "number", n |-> id, exact |-> TRUE]
        BY <3>2, <4>1 DEF IdsToJson
      <4>. QED
        BY <4>2 DEF Json, Numbers
    <3>. QED
      BY <3>1, <3>2
  <2>2. PICK t \in JsonFieldAsString(v) :
            table' = table \cup {[user |-> u, value |-> v, text |-> t, day |-> today]}
    BY <1>1 DEF Post
  <2>3. UNCHANGED <<today, popular, similar, shown, failed>> /\ t \in Texts
    BY <1>1, <2>1, FieldText DEF Post
  <2>4. TypeOK'
    BY <2>1, <2>2, <2>3 DEF TypeOK, Rows
  <2>5. RowsInv'
    BY <2>2 DEF RowsInv
  <2>6. CacheInv' /\ ShownWereSent' /\ OnlyStringsFail'
    BY <2>2, <2>3 DEF CacheInv, Good, ShownWereSent, OnlyStringsFail
  <2>. QED
    BY <2>4, <2>5, <2>6
<1>2. CASE Expire
  BY <1>2 DEF Expire, TypeOK, RowsInv, CacheInv, Good, ShownWereSent, OnlyStringsFail
<1>3. CASE NextDay
  BY <1>3 DEF NextDay, TypeOK, RowsInv, CacheInv, Good, ShownWereSent, OnlyStringsFail
<1>4. CASE UNCHANGED vars
  BY <1>4 DEF vars, TypeOK, RowsInv, CacheInv, Good, ShownWereSent, OnlyStringsFail
<1>. QED
  BY <1>1, <1>2, <1>3, <1>4, RecommendKeepsInv DEF Next

LEMMA AlwaysProductInv == Spec => []ProductInv
<1>1. Init => ProductInv
  BY ProductAssumption
  DEF Init, ProductInv, TypeOK, RowsInv, CacheInv, ShownWereSent, OnlyStringsFail
<1>. QED
  BY <1>1, StepKeepsInv, PTL DEF Spec

----------------------------------------------------------------------------
\* Every reachable state is well-typed: the lists hold numbers of BIGINT.
THEOREM TypeCorrect == Spec => []TypeOK
<1>. QED
  BY AlwaysProductInv, PTL DEF ProductInv

\* An id in a list is a number that somebody sent as a product id.
THEOREM ListsHoldWhatWasSent == Spec => []ShownWereSent
<1>. QED
  BY AlwaysProductInv, PTL DEF ProductInv

\* A GET of recommendations fails only for a string with too large a number, sent
\* by the user himself or within the window of the popular list.
THEOREM FailuresNeedAString == Spec => []OnlyStringsFail
<1>. QED
  BY AlwaysProductInv, PTL DEF ProductInv

\* JsonFieldAsString, the queries, the cache and GET /product read an id alike.
THEOREM ReadersAlwaysAgree == Spec => []ReadersAgree
<1>. USE ProductAssumption
<1>1. ProductInv => ReadersAgree
  <2>. SUFFICES ASSUME ProductInv
                PROVE  ReadersAgree
    OBVIOUS
  <2>1. ASSUME NEW u \in Users, NEW id \in shown[u], NEW v \in IdsToJson({id})
        PROVE  JsonFieldAsString(v) = {[form |-> "digits", n |-> id]}
    <3>1. id \in 0..Max64 /\ v = [kind |-> "number", n |-> id, exact |-> TRUE]
      BY <2>1 DEF ProductInv, TypeOK, IdsToJson
    <3>. QED
      BY <3>1 DEF JsonFieldAsString, IsInt64, IsUInt64, Int64, Decimal
  <2>2. ASSUME NEW u \in Users, NEW id \in shown[u]
        PROVE  /\ Product(Decimal(id)).found = {id} \cap Catalog
               /\ Product(Decimal(id)).error \in {"none", "not_found"}
    <3>1. id \in 0..Max64
      BY <2>2 DEF ProductInv, TypeOK
    <3>2. Decimal(id) = [form |-> "digits", n |-> id] /\ Stoll(Decimal(id)) = {id}
      BY <3>1 DEF Decimal, Stoll, Int64
    <3>. QED
      BY <3>2 DEF Product, GetById
  <2>3. ASSUME NEW row \in table, IsNumeric(row)
        PROVE  Product(row.text).error = "invalid_id" <=> ~Castable(row)
    <3>1. row.text.n \in Nat /\ row.text.form = "digits"
      BY <2>3, FieldText DEF ProductInv, RowsInv, TypeOK, Rows, IsNumeric
    <3>2. Stoll(row.text) = {} <=> ~Castable(row)
      BY <3>1 DEF Stoll, Int64, Castable
    <3>. QED
      BY <3>1, <3>2 DEF Product
  <2>. QED
    BY <2>1, <2>2, <2>3 DEF ReadersAgree
<1>. QED
  BY <1>1, AlwaysProductInv, PTL
============================================================================
