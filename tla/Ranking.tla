------------------------------ MODULE Ranking ------------------------------
(***************************************************************************)
(* What GET /recommend ranks: the queries of PgRhythmData over             *)
(* user_actions and products, and the merge of RecommendationService.      *)
(* The lists are those a GET makes that misses every cache and reads an    *)
(* up-to-date replica; RecommendationService has the caches, FeedCoherence *)
(* the replica.                                                            *)
(***************************************************************************)
EXTENDS Integers, SequencesExt

CONSTANTS
    Users,
    Types,         \* the action types that occur
    Texts,         \* the product ids that occur; the column is TEXT
    Cast,          \* Cast[x]: a text of digits as BIGINT, "7" like "07"
    Category,      \* Category[p]: the category of a product that has one
    GptRanked,     \* what RankProductIds returns, for any user
    HistoryDays, PopularDays,
    ListLimit,     \* of the history and the popular list
    SimilarLimit,
    StoredLimit,   \* kGptRecommendationIds: the feed as cached
    MaxActions, MaxDay \* bounds

VARIABLES
    db,       \* user_actions in the order of created_at, and now() in days
    sources,  \* sources[u]: what FetchSources returns for u over db
    feed      \* feed[u]: the feed that is cached for u then

vars == <<db, sources, feed>>

HistoryRank   == [save |-> 4, purchase |-> 4, like |-> 3, cart_add |-> 2, view |-> 1]
PopularWeight == [save |-> 3, purchase |-> 3, like |-> 2, cart_add |-> 2, view |-> 1]
SourceWeight  == [history |-> 3, popular |-> 2, gpt_ranked |-> 4, similar |-> 3]

ASSUME RankingAssumption ==
    /\ DOMAIN Cast \subseteq Texts /\ Cast \in [DOMAIN Cast -> Nat]
    /\ DOMAIN Category \subseteq Nat \ {0} /\ IsFiniteSet(DOMAIN Category)
    /\ GptRanked \in Seq(Nat) /\ IsInjective(GptRanked)
    /\ HistoryDays \in Nat /\ PopularDays \in Nat
    /\ ListLimit \in Nat \ {0} /\ SimilarLimit \in Nat \ {0} /\ StoredLimit \in Nat \ {0}
    /\ MaxActions \in Nat /\ MaxDay \in Nat

Row == [user_id : Users, action_type : Types, product_id : Texts, created_at : 0 .. MaxDay]

----------------------------------------------------------------------------
\* The rows that a query with a window of so many days looks at.
Window(t, days) ==
    {i \in DOMAIN t.actions :
        /\ t.actions[i].product_id \in DOMAIN Cast
        /\ t.actions[i].action_type \in DOMAIN HistoryRank
        /\ t.today - t.actions[i].created_at <= days}

Pid(t, i) == Cast[t.actions[i].product_id]

TakeTop(s, n) == SubSeq(s, 1, IF Len(s) <= n THEN Len(s) ELSE n)

\* The list of a set in which x comes after all of before[x].
ListOf(before) ==
    [k \in 1 .. Cardinality(DOMAIN before) |->
        CHOOSE x \in DOMAIN before : Cardinality(before[x]) = k - 1]

\* The products by score, the best first, of equals the smaller id.
ByScore(score) ==
    LET Better(p) == {q \in DOMAIN score : \/ score[q] > score[p]
                                           \/ (score[q] = score[p] /\ q < p)}
    IN ListOf([p \in DOMAIN score |-> Better(p)])

----------------------------------------------------------------------------
\* Mutant: DISTINCT ON the text.
LatestOfText(t, u) ==
    LET R == {i \in Window(t, HistoryDays) : t.actions[i].user_id = u}
    IN {i \in R : \A j \in R : t.actions[j].product_id = t.actions[i].product_id => j <= i}

\* DISTINCT ON (CAST(product_id)): the user's latest row on each product.
Latest(t, u) ==
    LET R == {i \in Window(t, HistoryDays) : t.actions[i].user_id = u}
    IN {i \in R : \A j \in R : Pid(t, j) = Pid(t, i) => j <= i}

TypeRank(t, i) == HistoryRank[t.actions[i].action_type]

\* The products of a user's rows in the order that before gives the rows.
Listed(t, before) ==
    LET s == ListOf(before) IN TakeTop([k \in DOMAIN s |-> Pid(t, s[k])], ListLimit)

\* Mutant: of two rows of a rank the older first.
HistoryOldestFirst(t, u) ==
    Listed(t, [i \in Latest(t, u) |->
                  {j \in Latest(t, u) : \/ TypeRank(t, j) > TypeRank(t, i)
                                        \/ (TypeRank(t, j) = TypeRank(t, i) /\ j < i)}])

\* The rows that kRecentProductIds puts before the user's row i.
Preferred(t, u, i) ==
    {j \in Latest(t, u) : \/ TypeRank(t, j) > TypeRank(t, i)
                          \/ (TypeRank(t, j) = TypeRank(t, i) /\ j > i)}

RecentProductIds(t, u) == Listed(t, [i \in Latest(t, u) |-> Preferred(t, u, i)])

\* Mutant: only the latest action on a product counts.
PopularityOfLatest(t, rows) == PopularWeight[t.actions[Max(rows)].action_type]

Popularity(t, rows) ==
    LET Count(a) == Cardinality({i \in rows : t.actions[i].action_type = a})
    IN PopularWeight.save * Count("save") + PopularWeight.purchase * Count("purchase")
         + PopularWeight.like * Count("like") + PopularWeight.cart_add * Count("cart_add")
         + PopularWeight.view * Count("view")

PopularProductIds(t, limit) ==
    LET W == Window(t, PopularDays)
    IN TakeTop(ByScore([p \in {Pid(t, i) : i \in W} |-> Popularity(t, {i \in W : Pid(t, i) = p})]),
               limit)

Neighbors(anchor) ==
    IF anchor \in DOMAIN Category
    THEN {p \in DOMAIN Category \ {anchor} : Category[p] = Category[anchor]}
    ELSE {}

CatalogNeighborProductIds(anchor, limit) ==
    TakeTop(ListOf([p \in Neighbors(anchor) |-> {q \in Neighbors(anchor) : q < p}]), limit)

----------------------------------------------------------------------------
\* The similar list is about the head of the history, or of the popular list; 0
\* stands for neither, and so product 0 for no anchor.
SimilarAnchor(history, popular) ==
    IF history # <<>> THEN Head(history)
    ELSE IF popular # <<>> THEN Head(popular)
    ELSE 0

Similar(t, anchor) ==
    LET neighbors == CatalogNeighborProductIds(anchor, SimilarLimit) IN
    IF anchor = 0 THEN <<>>
    ELSE IF neighbors = <<>> THEN PopularProductIds(t, SimilarLimit)
    ELSE neighbors

FetchSources(t, u) ==
    LET history == RecentProductIds(t, u)
        popular == PopularProductIds(t, ListLimit)
    IN [history    |-> history,
        popular    |-> popular,
        gpt_ranked |-> TakeTop(GptRanked, StoredLimit),
        similar    |-> Similar(t, SimilarAnchor(history, popular))]

\* Which lists name p; how often one does.
Names(s, p)     == {k \in DOMAIN s : p \in Range(s[k])}
Times(s, k, p)  == Cardinality({n \in DOMAIN s[k] : s[k][n] = p})

\* Mutant: the last list to name the product sets its score.
ScoreOfLast(s, p) ==
    CASE p \in Range(s.similar) -> SourceWeight.similar
      [] p \notin Range(s.similar) /\ p \in Range(s.gpt_ranked) -> SourceWeight.gpt_ranked
      [] Names(s, p) \subseteq {"history", "popular"} /\ p \in Range(s.popular) -> SourceWeight.popular
      [] OTHER -> SourceWeight.history

\* A list adds its weight each time it names the product.
Score(s, p) ==
    SourceWeight.history * Times(s, "history", p) + SourceWeight.popular * Times(s, "popular", p)
      + SourceWeight.gpt_ranked * Times(s, "gpt_ranked", p)
      + SourceWeight.similar * Times(s, "similar", p)

FanOutMerge(s) == ByScore([p \in UNION {Range(s[k]) : k \in DOMAIN s} |-> Score(s, p)])

----------------------------------------------------------------------------
\* What GETs that miss the caches make of the table.
Rank ==
    /\ sources' = [u \in Users |-> FetchSources(db', u)]
    /\ feed' = [u \in Users |-> TakeTop(FanOutMerge(sources'[u]), StoredLimit)]

Init ==
    /\ db = [actions |-> <<>>, today |-> 0]
    /\ sources = [u \in Users |-> FetchSources(db, u)]
    /\ feed = [u \in Users |-> TakeTop(FanOutMerge(sources[u]), StoredLimit)]

\* The worker's INSERT.
Act(u, t, x) ==
    /\ Len(db.actions) < MaxActions
    /\ db' = [db EXCEPT !.actions = Append(@, [user_id |-> u, action_type |-> t, product_id |-> x,
                                               created_at |-> db.today])]
    /\ Rank

NextDay ==
    /\ db.today < MaxDay
    /\ db' = [db EXCEPT !.today = @ + 1]
    /\ Rank

Next ==
    \/ \E u \in Users, t \in Types, x \in Texts : Act(u, t, x)
    \/ NextDay

Spec == Init /\ [][Next]_vars
----------------------------------------------------------------------------
\* No list that a GET merges names a product twice (FanOutMerge would count it
\* twice), whatever texts the product goes by.
TypeOK ==
    /\ db \in [actions : Seq(Row), today : 0 .. MaxDay]
    /\ \A u \in Users : \A k \in DOMAIN sources[u] : IsInjective(sources[u][k])
    /\ \A u \in Users : IsInjective(feed[u]) /\ Len(feed[u]) <= StoredLimit

\* The products ahead of p in a list; p keeps or betters its place.
Ahead(s, p) == {s[i] : i \in {i \in DOMAIN s : \E j \in DOMAIN s : i < j /\ s[j] = p}}
Lifts(old, new, p) ==
    p \in Range(old) => p \in Range(new) /\ Ahead(new, p) \subseteq Ahead(old, p)

\* The row that an Act adds, and what product it is about.
Added   == Last(db'.actions)
Acted   == db'.actions # db.actions /\ Added.product_id \in DOMAIN Cast
ActedOn == Cast[Added.product_id]
Acts(u) == Acted /\ Added.user_id = u

\* The action ranks no lower than its user's latest on that product.
NotLower ==
    \A i \in Latest(db, Added.user_id) :
        Pid(db, i) = ActedOn => HistoryRank[Added.action_type] >= TypeRank(db, i)

\* The order of a user's history changes by his own actions only, and each
\* moves only the product it is about, upwards unless it ranks lower than the
\* one before.  In particular what the passing of days takes from the window
\* changes the order of nothing else (kRecentProductIds).
HistoryFollowsActions ==
    [][\A u \in Users :
          LET old == sources[u].history
              new == sources'[u].history
              own == IF Acts(u) THEN {ActedOn} ELSE {}
          IN /\ \A p \in (Range(old) \cap Range(new)) \ own :
                   Ahead(new, p) \ own \subseteq Ahead(old, p)
             /\ Acts(u) /\ NotLower => Lifts(old, new, ActedOn)]_vars

\* Whoever acts on a product, and however little, never makes it less popular
\* than another (kPopularProductIds).
PopularNeverSinks ==
    [][\A u \in Users : Acted => Lifts(sources[u].popular, sources'[u].popular, ActedOn)]_vars

\* Acting on a product never sinks it in anybody's feed, unless the similar
\* list is about another product from then on, or its actor valued it more
\* before (FetchSources, FanOutMerge).
AnchorOf(s) == SimilarAnchor(s.history, s.popular)
FeedFollowsActions ==
    [][Acted /\ NotLower =>
          \A u \in Users : AnchorOf(sources[u]) = AnchorOf(sources'[u])
                           => Lifts(feed[u], feed'[u], ActedOn)]_vars

\* Agreement counts more than weight: in a feed a product that more of the four
\* sources name is ahead of one that fewer name, whichever they are.
MoreSourcesFirst ==
    \A u \in Users : \A i, j \in DOMAIN feed[u] :
        i < j => Cardinality(Names(sources[u], feed[u][i])) >= Cardinality(Names(sources[u], feed[u][j]))
============================================================================
