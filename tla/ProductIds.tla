----------------------------- MODULE ProductIds -----------------------------
(***************************************************************************)
(* A product id on its way through the service: a JSON value in POST       *)
(* /action, a text in user_actions, a BIGINT in a query, a number in the   *)
(* cache and in the answer of GET /recommend, and from there back into     *)
(* POST /action or into the query string of GET /product.  Only the lists  *)
(* made from user_actions matter here, as sets, on GETs that miss the feed:*)
(* the ranking's list and the neighbours in the catalogue are left out.    *)
(***************************************************************************)
EXTENDS Integers, FiniteSets

CONSTANTS
    Users,
    Values,                    \* what clients send as product_id
    Catalog,                   \* the ids of the table products
    Related,                   \* those of them that have neighbours there
    Max64,                     \* the largest 64-bit integer
    HistoryDays, PopularDays,  \* the windows of the two queries
    MaxDay, MaxRows            \* bounds of the checked instance

Int64  == (-Max64 - 1)..Max64
UInt64 == 0..(2 * Max64 + 1)

\* A text, by what the code can make of it: only digits; a number with something
\* else around it (" 7", "-7", "7up", "7.000000"); no number at all.
Texts == [form : {"digits"}, n : Nat] \cup [form : {"loose"}, n : Int]
             \cup [form : {"word", "empty"}, n : {0}]

\* A JSON number is exact if it has neither a fraction nor an exponent.
Numbers == [kind : {"number"}, n : Int, exact : BOOLEAN]
Json    == Numbers \cup [kind : {"string"}, text : Texts] \cup [kind : {"other"}]

ASSUME ProductAssumption ==
    /\ Max64 \in Nat \ {0}
    /\ Values \subseteq Json
    /\ Catalog \subseteq Int64 /\ Related \subseteq Catalog
    /\ HistoryDays \in Nat /\ PopularDays \in Nat

VARIABLES
    table,    \* user_actions, each row with the value it was made from
    today,
    popular,  \* the list cached as rhythm:popular:global, if there is one
    similar,  \* the lists cached for an anchor that has no neighbours
    shown,    \* shown[u]: the ids of these lists in the last answer to GET /recommend of u
    failed    \* the users whose last GET /recommend of today failed

vars == <<table, today, popular, similar, shown, failed>>

Rows == [user : Users, value : Json, text : Texts, day : Nat]

TypeOK ==
    /\ table \subseteq Rows /\ today \in Nat
    /\ popular \subseteq SUBSET Numbers
    /\ similar \subseteq [anchor : 1..Max64, raw : SUBSET Numbers]
    /\ shown \in [Users -> SUBSET (0..Max64)]
    /\ failed \subseteq Users

Init ==
    /\ table = {} /\ today = 0 /\ popular = {} /\ similar = {}
    /\ shown = [u \in Users |-> {}]
    /\ failed = {}
----------------------------------------------------------------------------
\* std::to_string of a 64-bit integer.
Decimal(n) == [form |-> IF n >= 0 THEN "digits" ELSE "loose", n |-> n]

\* Mutant: the highest bit is masked, not read as a sign.
AsInt63(n) == IF n > Max64 THEN n - Max64 - 1 ELSE n
AsInt64(n) == IF n > Max64 THEN n - 2 * Max64 - 2 ELSE n

IsInt64(v)  == v.kind = "number" /\ v.exact /\ v.n \in Int64
IsUInt64(v) == v.kind = "number" /\ v.exact /\ v.n \in UInt64 \ Int64

\* std::to_string of a double, which prints a fraction.  The JSON library may
\* take a double without a fraction for an integer.
TextsOfDouble(v) ==
    {[form |-> "loose", n |-> v.n]}
        \cup {Decimal(n) : n \in {v.n} \cap (IF v.exact THEN {} ELSE Int64)}

\* Mutant: an unsigned number is printed as it is.
FieldWithoutCast(v) ==
    CASE v.kind = "string"         -> {v.text}
      [] IsInt64(v) \/ IsUInt64(v) -> {Decimal(v.n)}
      [] v.kind = "other"          -> {}
      [] OTHER                     -> TextsOfDouble(v)

\* The texts it may return; none when it throws.
JsonFieldAsString(v) ==
    CASE v.kind = "string" -> {v.text}
      [] IsInt64(v)        -> {Decimal(v.n)}
      [] IsUInt64(v)       -> {Decimal(AsInt64(v.n))}
      [] v.kind = "other"  -> {}
      [] OTHER             -> TextsOfDouble(v)

Post(u, v) ==
    \E t \in JsonFieldAsString(v) :
        /\ Cardinality(table) < MaxRows
        /\ table' = table \cup {[user |-> u, value |-> v, text |-> t, day |-> today]}
        /\ UNCHANGED <<today, popular, similar, shown, failed>>
----------------------------------------------------------------------------
\* Mutant: any text that holds a number.
HoldsNumber(row) == row.text.form \in {"digits", "loose"}

\* product_id ~ '^[0-9]+$'
IsNumeric(row) == row.text.form = "digits"

\* CAST(product_id AS BIGINT), which fails on what does not fit.
Castable(row) == row.text.n <= Max64

Selected(rows, days) == {row \in rows : IsNumeric(row) /\ row.day + days >= today}
Pids(rows)           == {row.text.n : row \in rows}

RecentRows(u) == Selected({row \in table : row.user = u}, HistoryDays)
PopularRows   == Selected(table, PopularDays)
Fails(rows)   == \E row \in rows : ~Castable(row)

IdsToJson(ids) == {[kind |-> "number", n |-> id, exact |-> TRUE] : id \in ids}

\* The list it makes, none if it returns false.
JsonToIds(raw) ==
    {{AsInt64(v.n) : v \in raw} : x \in {y \in {raw} : \A v \in y : IsInt64(v) \/ IsUInt64(v)}}

\* PopularProductIds: its list, none if the CAST fails.
Queried == IF Fails(PopularRows) THEN {} ELSE {Pids(PopularRows)}

\* A list is read from the cache or else queried, and then cached.  An unreadable
\* entry is deleted.
Cached(raws)   == UNION {JsonToIds(raw) : raw \in raws}
Fetched(raws)  == IF Cached(raws) # {} THEN Cached(raws) ELSE Queried
Recached(raws) == IF Cached(raws) # {} THEN raws ELSE {IdsToJson(ids) : ids \in Queried}

SimilarOf(anchor) == {list.raw : list \in {x \in similar : x.anchor = anchor}}

\* The front of the history, else of the popular list, else 0: as their orders
\* are left out, any id of theirs.
Anchors(history, top) ==
    IF history # {} THEN history ELSE IF top # {} THEN top ELSE {0}

Answer(u, ids) == shown' = [shown EXCEPT ![u] = ids] /\ failed' = failed \ {u}
Error(u)       == failed' = failed \cup {u} /\ UNCHANGED shown

\* The similar list, of an anchor without neighbours the popular query once more.
FetchSimilar(u, anchor, ids) ==
    IF anchor = 0 \/ anchor \in Related
    THEN Answer(u, ids) /\ UNCHANGED similar
    ELSE /\ similar' = {list \in similar : list.anchor # anchor}
                          \cup [anchor : {anchor}, raw : Recached(SimilarOf(anchor))]
         /\ \/ Fetched(SimilarOf(anchor)) = {} /\ Error(u)
            \/ \E more \in Fetched(SimilarOf(anchor)) : Answer(u, ids \cup more)

\* FetchSources: the history, the popular list, the similar list.
Recommend(u) ==
    LET history == Pids(RecentRows(u)) IN
    /\ UNCHANGED <<table, today>>
    /\ \/ Fails(RecentRows(u)) /\ Error(u) /\ UNCHANGED <<popular, similar>>
       \/ /\ ~Fails(RecentRows(u))
          /\ popular' = Recached(popular)
          /\ \/ Fetched(popular) = {} /\ Error(u) /\ UNCHANGED similar
             \/ \E top \in Fetched(popular) : \E anchor \in Anchors(history, top) :
                   FetchSimilar(u, anchor, history \cup top)

\* The TTLs of cached lists are not timed: they may be over early or late.
Expire ==
    /\ \/ popular # {} /\ popular' = {} /\ UNCHANGED similar
       \/ \E list \in similar : similar' = similar \ {list} /\ UNCHANGED popular
    /\ UNCHANGED <<table, today, shown, failed>>

NextDay ==
    /\ today < MaxDay
    /\ today' = today + 1 /\ failed' = {}
    /\ UNCHANGED <<table, popular, similar, shown>>

\* What a client was shown it may send back, as the number it is.
Next ==
    \/ \E u \in Users : \E v \in Values \cup IdsToJson(shown[u]) : Post(u, v)
    \/ \E u \in Users : Recommend(u)
    \/ Expire \/ NextDay

Spec == Init /\ [][Next]_vars
----------------------------------------------------------------------------
\* Mutant: std::stoi.
Stoi(text)  == {n \in {text.n} : text.form \in {"digits", "loose"} /\ 2 * n \in Int64}

\* std::stoll: the number it reads, none if it throws.
Stoll(text) == {n \in {text.n} : text.form \in {"digits", "loose"} /\ n \in Int64}

GetById(id) == {id} \cap Catalog

\* GET /product with this text as ?id=: the error, if any, and the product.
Product(text) ==
    LET rows == UNION {GetById(n) : n \in Stoll(text)} IN
    [error |-> CASE text.form = "empty" -> "missing_query_id"
                 [] text.form # "empty" /\ Stoll(text) = {} -> "invalid_id"
                 [] Stoll(text) # {} /\ rows = {} -> "not_found"
                 [] OTHER -> "none",
     found |-> rows]
----------------------------------------------------------------------------
\* The number a value stands for.
Meant(v) == IF v.kind = "string" THEN v.text.n ELSE v.n

\* A number in a list is one that some client sent: what does not fit, or is no
\* number, never turns into the id of another product.
ShownWereSent ==
    \A u \in Users : \A id \in shown[u] : \E row \in table : Meant(row.value) = id

\* A GET fails only if a string with a number beyond BIGINT was sent in the window
\* of its query, by the user for his history, by anyone for the popular list.  No
\* JSON number has that effect, however large, nor a text that is no number.
TooLong(row) == row.value.kind = "string" /\ row.value.text.n > Max64
OnlyStringsFail ==
    \A u \in failed : \E row \in table :
        /\ TooLong(row)
        /\ \/ row.user = u /\ row.day + HistoryDays >= today
           \/ row.day + PopularDays >= today

\* The readers of an id agree.  An id from a list is the same product when it is
\* sent back as a number, and when it is asked for; of the texts that the queries
\* read, GET /product refuses those that make them fail.
ReadersAgree ==
    /\ \A u \in Users : \A id \in shown[u] :
          /\ \A v \in IdsToJson({id}) : JsonFieldAsString(v) = {[form |-> "digits", n |-> id]}
          /\ Product(Decimal(id)).found = {id} \cap Catalog
          /\ Product(Decimal(id)).error \in {"none", "not_found"}
    /\ \A row \in table : IsNumeric(row) =>
          (Product(row.text).error = "invalid_id" <=> ~Castable(row))
============================================================================
