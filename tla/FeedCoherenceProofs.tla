------------------------ MODULE FeedCoherenceProofs ------------------------
(***************************************************************************)
(* Theorems about FeedCoherence, for any users, messages, GETs, coroutines *)
(* and any lag of the replica.                                             *)
(*                                                                         *)
(* The invariant is about one row m that is neither spoiled nor cut short. *)
(* Until its window has closed at most one GET of its user knows a history *)
(* without it; a feed without it that this GET leaves behind after the DEL *)
(* of the feed is found by nobody, since the DEL of visit_last came later  *)
(* than the GET's mark, and a GET without a last visit drops the feed.     *)
(***************************************************************************)
EXTENDS FeedCoherence, TLAPS

\* Steps before the feed is looked for, and those that make one.
Early  == {"last_seen", "drop", "mark"}
Making == {"side_get", "side_query", "side_put", "put_feed"}
Hit    == {"feed_ttl", "touch", "expire", "done"}

\* What the types say of a running GET, and the keys as functions.
KeyValues == [val : R!History \cup R!Times, expires : R!Expiry] \cup {None}
KeysShape == redis \in [Users -> [R!UserKeys -> KeyValues]] /\ shared \in [R!Shared -> KeyValues]
CallShape(x) ==
    /\ x.step \in Making => x.feed \in R!History
    /\ x.step \in {"feed_ttl", "touch", "expire"} => x.feed \in R!History
    /\ x.step = "side_put" => x.from \in R!Times
ShapeInv ==
    /\ TypeOK
    /\ body \in [Messages -> Payloads]
    /\ KeysShape
    /\ interrupted \subseteq rows
    /\ \A c \in R!Running : CallShape(call[c])

\* Each open window is one coroutine's.
WindowInv ==
    \A s \in Slots : C!Invalidating(s) =>
        /\ task[s].msg \in rows
        /\ \A t \in Slots : C!Invalidating(t) /\ task[t].msg = task[s].msg => t = s

\* The row m is in, its invalidation was not cut short and nothing spoiled it.
Clean(m) == m \in rows \ (interrupted \cup spoiled)

\* Between the first and the last of the three DELs for m.
FeedDeleted(m) ==
    \E s \in Slots : C!Invalidating(s) /\ task[s].msg = m /\ task[s].step # "feed"

\* The user's cached feed is from before m.
Stale(m) ==
    LET f == redis[C!UserOf(m)]["feed"] IN f # None /\ m \notin f.val

\* At most one GET met the window, and none began beside it.
OneMeets(m) ==
    /\ \A d \in Calls : m \in meets[d] => GetsOf(m) = {d} /\ m \in met
    /\ Open(m) => \A d \in GetsOf(m) : m \in meets[d]

\* A stale feed was put by the GET that met the window, after the DEL of the feed.
StaleIsPutLate(m) ==
    /\ FeedDeleted(m) /\ Stale(m) => m \in met
    /\ FeedDeleted(m) \/ ~Open(m) => (Stale(m) =>
         \A d \in GetsOf(m) : IF m \in meets[d] THEN call[d].step \notin Early
                                                ELSE call[d].step \in {"last_seen", "drop"})

\* When the window has closed, whoever comes finds m in the replica, or no last visit.
ClosedIsSafe(m) ==
    ~Open(m) =>
        /\ m \in replica
        /\ Stale(m) => redis[C!UserOf(m)]["visit_last"] = None
        /\ \A d \in GetsOf(m) : call[d].step \in Making /\ m \notin call[d].feed =>
               m \in meets[d] /\ redis[C!UserOf(m)]["visit_last"] = None

RowInv(m) == Clean(m) => OneMeets(m) /\ StaleIsPutLate(m) /\ ClosedIsSafe(m)

\* A row that a GET owes its user is clean and closed, and nobody knows less.
DueInv(c, m) ==
    m \in due[c] =>
        /\ c \in GetsOf(m) /\ Clean(m) /\ ~Open(m)
        /\ \A d \in Calls : m \notin meets[d]
        /\ call[c].step \in Hit => m \in call[c].feed

CoherenceInv ==
    /\ ShapeInv /\ WindowInv
    /\ \A m \in Messages : RowInv(m)
    /\ \A c \in Calls, m \in Messages : DueInv(c, m)
----------------------------------------------------------------------------
\* The names that the two components use for the same things.
LEMMA Names ==
    /\ R!Users = Users /\ C!Users = Users
    /\ R!UserKeys = {"feed", "gpt_rank", "visit_last"} /\ C!UserKeys = R!UserKeys
    /\ R!Times = {0} /\ R!History = SUBSET Messages /\ R!Expiry = Nat
    /\ R!Shared = {"popular"}
  BY DEF R!Users, C!Users, Users, R!UserKeys, C!UserKeys, R!Times, R!History, R!Expiry, R!Shared

LEMMA RunningGet ==
    ASSUME ShapeInv, NEW c \in R!Running
    PROVE  /\ c \in Calls /\ call[c] \in R!Call /\ call[c] # None
           /\ call[c].user \in Users /\ R!UserOf(c) = call[c].user
           /\ CallShape(call[c])
  BY Names DEF ShapeInv, TypeOK, R!TypeOK, R!Running, R!Call, R!UserOf

LEMMA RowUser ==
    ASSUME ShapeInv, NEW m \in Messages
    PROVE  C!UserOf(m) \in Users
  BY DEF ShapeInv, C!UserOf, Users

\* What a step of a running GET c may do, from call[c] to x.
Moves(p, x) ==
    LET feed == redis[p.user]["feed"] IN
    \/ /\ p.step = "last_seen" /\ x.step \in {"drop", "mark"}
       /\ redis[p.user]["visit_last"] = None => x.step = "drop"
    \/ p.step = "drop" /\ x.step = "mark" /\ redis'[p.user]["feed"] = None
    \/ p.step = "mark" /\ x.step = "get_feed"
    \/ p.step \in {"get_feed", "feed_ttl"} /\ x.step = "history"
    \/ p.step = "get_feed" /\ x.step = "feed_ttl" /\ feed # None /\ x.feed = feed.val
    \/ p.step \in Hit \cup {"put_feed"} /\ x.step \in Hit /\ x.feed = p.feed
    \/ p.step = "history" /\ x.step = "side_get" /\ x.feed = {m \in replica : C!UserOf(m) = p.user}
    \/ p.step \in Making /\ x.step \in Making /\ x.feed = p.feed

GetStep(c, p, x) ==
    /\ c \in R!Running /\ p = call[c]
    /\ x \in R!Call \cup {None} /\ call' = [call EXCEPT ![c] = x]
    /\ UNCHANGED <<now, body, replica>>
    /\ \A v \in Users, k \in R!UserKeys : v # p.user => redis'[v][k] = redis[v][k]
    /\ \/ redis'[p.user]["visit_last"] = redis[p.user]["visit_last"]
       \/ p.step = "mark"
    /\ \/ redis'[p.user]["feed"] \in {redis[p.user]["feed"], None}
       \/ redis[p.user]["feed"] # None /\ redis'[p.user]["feed"].val = redis[p.user]["feed"].val
       \/ /\ p.step = "put_feed" /\ x # None /\ x.step = "done"
          /\ redis'[p.user]["feed"].val = p.feed
    /\ x # None => x.user = p.user /\ Moves(p, x) /\ CallShape(x)
    /\ x = None => UNCHANGED redis

\* What a step of c does to the keys of its user.
LEMMA PutKey ==
    ASSUME ShapeInv, NEW u \in Users, NEW k \in R!UserKeys, NEW e \in R!Entry(k) \cup {None},
           redis' = [redis EXCEPT ![u][k] = e]
    PROVE  /\ redis' \in [Users -> [R!UserKeys -> KeyValues]]
           /\ \A v \in Users, j \in R!UserKeys :
                 /\ redis'[v][j] = IF v = u /\ j = k THEN e ELSE redis[v][j]
                 /\ redis'[v][j] \in R!Entry(j) \cup {None}
<1>1. e \in KeyValues /\ R!Users = Users
  BY Names DEF R!Entry, KeyValues
<1>2. redis \in [Users -> [R!UserKeys -> KeyValues]]
  BY DEF ShapeInv, KeysShape
<1>3. \A v \in Users, j \in R!UserKeys : redis[v][j] \in R!Entry(j) \cup {None}
  BY <1>1 DEF ShapeInv, TypeOK, R!TypeOK
<1>. QED
  BY <1>1, <1>2, <1>3

LEMMA CallSteps ==
    ASSUME ShapeInv, NEW c \in Calls, R!CallStep(c)
    PROVE  /\ GetStep(c, call[c], call'[c])
           /\ KeysShape'
           /\ \A v \in Users, j \in R!UserKeys : redis'[v][j] \in R!Entry(j) \cup {None}
           /\ \A k \in R!Shared : shared'[k] \in R!Entry(k) \cup {None}
           /\ visited' \in [Users -> R!Times \cup {None}]
<1>. DEFINE p == call[c]
            x == call'[c]
            u == p.user
            Store == /\ KeysShape'
                     /\ \A v \in Users, j \in R!UserKeys : redis'[v][j] \in R!Entry(j) \cup {None}
                     /\ \A k \in R!Shared : shared'[k] \in R!Entry(k) \cup {None}
                     /\ visited' \in [Users -> R!Times \cup {None}]
<1>1. c \in R!Running
  BY DEF R!CallStep, R!LastSeen, R!DropFeed, R!MarkSeen, R!GetFeed, R!CheckTtl, R!TouchFeed,
     R!ExpireFeed, R!FetchHistory, R!SideHit, R!SideMiss, R!SideQuery, R!SidePut, R!PutFeed,
     R!Answer, R!Fail, R!At
<1>2. /\ p \in R!Call /\ p # None /\ u \in Users /\ R!UserOf(c) = u /\ CallShape(p)
      /\ now \in R!Times /\ now = 0 /\ None \notin R!Times
      /\ \A v \in Users, j \in R!UserKeys : redis[v][j] \in R!Entry(j) \cup {None}
      /\ call \in [Calls -> R!Call \cup {None}]
  BY <1>1, RunningGet, Names, CoherenceAssumption DEF ShapeInv, TypeOK, R!TypeOK, R!TtlAssumption
<1>3. UNCHANGED <<now, body, replica>>
  BY DEF R!CallStep, R!LastSeen, R!DropFeed, R!MarkSeen, R!GetFeed, R!CheckTtl, R!TouchFeed, R!Extend,
     R!ExpireFeed, R!FetchHistory, R!SideHit, R!SideMiss, R!SideQuery, R!SidePut, R!PutFeed,
     R!Answer, R!Fail, R!world
<1>4. UNCHANGED <<redis, shared, visited>> => Store
  BY Names DEF ShapeInv, KeysShape, TypeOK, R!TypeOK
<1>5. CASE R!LastSeen(c)
  <2>. DEFINE e == redis[u]["visit_last"]
              seen == IF e = None THEN None ELSE e.val
  <2>1. /\ call' = [call EXCEPT ![c].prev = seen,
                        ![c].step = IF R!ShouldInvalidateFeed(seen, now) THEN "drop" ELSE "mark"]
        /\ p.step = "last_seen" /\ UNCHANGED <<redis, shared, visited>>
    BY <1>2, <1>5 DEF R!LastSeen, R!Get, R!At
  <2>2. seen \in R!Times \cup {None}
    BY <1>2, Names DEF R!Entry
  <2>3. e = None => R!ShouldInvalidateFeed(seen, now)
    BY DEF R!ShouldInvalidateFeed
  <2>4. /\ x \in R!Call /\ x.user = u /\ x.step \in {"drop", "mark"}
        /\ e = None => x.step = "drop"
        /\ call' = [call EXCEPT ![c] = x]
    BY <1>1, <1>2, <2>1, <2>2, <2>3 DEF R!Call, R!Steps
  <2>. QED
    BY <1>1, <1>2, <1>3, <1>4, <2>1, <2>4 DEF GetStep, Moves, CallShape, Making
\* A step that changes no key.
<1>6. ASSUME NEW y \in R!Call, call' = [call EXCEPT ![c] = y], UNCHANGED <<redis, shared, visited>>,
             y.user = u, CallShape(y), Moves(p, y)
      PROVE  GetStep(c, p, x) /\ Store
  <2>1. x = y /\ y # None
    BY <1>2, <1>6, CoherenceAssumption
  <2>. QED
    BY <1>1, <1>2, <1>3, <1>4, <1>6, <2>1 DEF GetStep
\* A step that sets a key of the user.
<1>7. ASSUME NEW y \in R!Call, NEW k \in R!UserKeys, NEW f \in R!Entry(k) \cup {None},
             call' = [call EXCEPT ![c] = y], redis' = [redis EXCEPT ![u][k] = f],
             UNCHANGED shared, visited' \in [Users -> R!Times \cup {None}],
             y.user = u, CallShape(y), Moves(p, y),
             k = "visit_last" => p.step = "mark",
             k = "feed" => \/ f = None
                           \/ redis[u]["feed"] # None /\ f.val = redis[u]["feed"].val
                           \/ p.step = "put_feed" /\ y.step = "done" /\ f.val = p.feed
      PROVE  GetStep(c, p, x) /\ Store
  <2>1. x = y /\ y # None
    BY <1>2, <1>7, CoherenceAssumption
  <2>2. /\ redis' \in [Users -> [R!UserKeys -> KeyValues]]
        /\ \A v \in Users, j \in R!UserKeys :
              /\ redis'[v][j] = IF v = u /\ j = k THEN f ELSE redis[v][j]
              /\ redis'[v][j] \in R!Entry(j) \cup {None}
    BY <1>2, <1>7, PutKey
  <2>3. Store
    BY <1>7, <2>2 DEF ShapeInv, KeysShape, TypeOK, R!TypeOK
  <2>4. {"feed", "visit_last"} \subseteq R!UserKeys
    BY Names
  <2>5. /\ redis'[u]["visit_last"] = redis[u]["visit_last"] \/ p.step = "mark"
        /\ \/ redis'[u]["feed"] \in {redis[u]["feed"], None}
           \/ redis[u]["feed"] # None /\ redis'[u]["feed"].val = redis[u]["feed"].val
           \/ /\ p.step = "put_feed" /\ x # None /\ x.step = "done"
              /\ redis'[u]["feed"].val = p.feed
    BY <1>2, <1>7, <2>1, <2>2, <2>4
  <2>. QED
    BY <1>1, <1>2, <1>3, <1>7, <2>1, <2>2, <2>3, <2>5 DEF GetStep
<1>8. CASE R!DropFeed(c)
  <2>. DEFINE y == [p EXCEPT !.step = "mark"]
  <2>1. /\ call' = [call EXCEPT ![c] = y] /\ p.step = "drop"
        /\ redis' = [redis EXCEPT ![u]["feed"] = None] /\ UNCHANGED <<shared, visited>>
    BY <1>2, <1>8 DEF R!DropFeed, R!At, R!Goto, R!Put
  <2>2. y \in R!Call /\ y.user = u /\ y.step = "mark" /\ CallShape(y)
    BY <1>2 DEF R!Call, R!Steps, CallShape, Making
  <2>3. "feed" \in R!UserKeys /\ None \in R!Entry("feed") \cup {None}
    BY Names
  <2>4. redis'[u]["feed"] = None
    BY <1>2, <2>1, <2>3, PutKey
  <2>5. Moves(p, y) /\ visited' \in [Users -> R!Times \cup {None}]
    BY <1>2, <2>1, <2>2, <2>4, Names DEF Moves, ShapeInv, TypeOK, R!TypeOK
  <2>. QED
    BY <1>7, <2>1, <2>2, <2>3, <2>5
<1>9. CASE R!MarkSeen(c)
  <2>. DEFINE y == [p EXCEPT !.step = "get_feed"]
              f == [val |-> now, expires |-> now + VisitTtl]
  <2>1. /\ call' = [call EXCEPT ![c] = y] /\ p.step = "mark"
        /\ redis' = [redis EXCEPT ![u]["visit_last"] = f] /\ UNCHANGED shared
        /\ visited' = [visited EXCEPT ![u] = now]
    BY <1>2, <1>9 DEF R!MarkSeen, R!At, R!Goto, R!Put, R!Live
  <2>2. y \in R!Call /\ y.user = u /\ y.step = "get_feed" /\ CallShape(y)
    BY <1>2 DEF R!Call, R!Steps, CallShape, Making
  <2>3. f \in R!Entry("visit_last") /\ "visit_last" \in R!UserKeys
    BY <1>2, Names, CoherenceAssumption DEF R!Entry, R!RecommendationAssumption
  <2>4. Moves(p, y) /\ visited' \in [Users -> R!Times \cup {None}]
    BY <1>2, <2>1, <2>2, Names DEF Moves, ShapeInv, TypeOK, R!TypeOK
  <2>. HIDE DEF f
  <2>. QED
    BY <1>7, <2>1, <2>2, <2>3, <2>4
<1>10. CASE R!GetFeed(c)
  <2>. DEFINE e == redis[u]["feed"]
  <2>1. p.step = "get_feed" /\ UNCHANGED <<redis, shared, visited>>
    BY <1>2, <1>10 DEF R!GetFeed, R!At
  <2>2. CASE e = None
    <3>. DEFINE y == [p EXCEPT !.step = "history"]
    <3>1. call' = [call EXCEPT ![c] = y]
      BY <1>2, <1>10, <2>2 DEF R!GetFeed, R!Get, R!Goto
    <3>2. y \in R!Call /\ y.user = u /\ y.step = "history" /\ CallShape(y)
      BY <1>2 DEF R!Call, R!Steps, CallShape, Making
    <3>. QED
      BY <1>6, <2>1, <3>1, <3>2 DEF Moves
  <2>3. CASE e # None
    <3>. DEFINE y == [p EXCEPT !.feed = e.val, !.step = "feed_ttl"]
    <3>1. call' = [call EXCEPT ![c] = y]
      BY <1>2, <1>10, <2>3 DEF R!GetFeed, R!Get
    <3>2. e.val \in R!History
      BY <1>2, <2>3, Names DEF R!Entry
    <3>3. y \in R!Call /\ y.user = u /\ y.step = "feed_ttl" /\ y.feed = e.val /\ CallShape(y)
      BY <1>2, <3>2 DEF R!Call, R!Steps, CallShape, Making
    <3>. QED
      BY <1>6, <2>1, <2>3, <3>1, <3>3 DEF Moves
  <2>. QED
    BY <2>2, <2>3
<1>11. CASE R!CheckTtl(c)
  <2>1. p.step = "feed_ttl" /\ UNCHANGED <<redis, shared, visited>>
    BY <1>2, <1>11 DEF R!CheckTtl, R!At
  <2>2. CASE R!Get(c, "feed") = None
    <3>. DEFINE y == [p EXCEPT !.feed = None, !.step = "history"]
    <3>1. call' = [call EXCEPT ![c] = y]
      BY <1>2, <1>11, <2>2 DEF R!CheckTtl
    <3>2. y \in R!Call /\ y.user = u /\ y.step = "history" /\ CallShape(y)
      BY <1>2 DEF R!Call, R!Steps, CallShape, Making
    <3>. QED
      BY <1>6, <2>1, <3>1, <3>2 DEF Moves
  <2>3. CASE R!Get(c, "feed") # None
    <3>. DEFINE y == [p EXCEPT !.step = "touch"]
    <3>1. call' = [call EXCEPT ![c] = y]
      BY <1>2, <1>11, <2>3 DEF R!CheckTtl
    <3>2. y \in R!Call /\ y.user = u /\ y.step = "touch" /\ y.feed = p.feed /\ CallShape(y)
      BY <1>2, <2>1 DEF R!Call, R!Steps, CallShape, Making
    <3>. QED
      BY <1>6, <2>1, <3>1, <3>2 DEF Moves, Hit
  <2>. QED
    BY <2>2, <2>3
<1>12. CASE R!TouchFeed(c)
  <2>. DEFINE e == redis[u]["feed"]
  <2>1. PICK by \in Nat : R!Extend(c, by)
    <3>1. PICK first : R!Extend(c, R!ExtendFeedTtlOnHit(R!ClassifyVisit(p.prev, first, now)))
      BY <1>12 DEF R!TouchFeed
    <3>2. R!ExtendFeedTtlOnHit(R!ClassifyVisit(p.prev, first, now)) \in Nat
      BY CoherenceAssumption DEF R!TtlAssumption, R!ExtendFeedTtlOnHit, R!ClassifyVisit
    <3>. QED
      BY <3>1, <3>2
  <2>2. p.step = "touch" /\ UNCHANGED <<redis, shared, visited>>
    BY <1>2, <1>12, <2>1 DEF R!TouchFeed, R!Extend, R!At, R!Get
  <2>3. CASE by = 0 \/ e = None
    <3>. DEFINE y == [p EXCEPT !.step = "done"]
    <3>1. call' = [call EXCEPT ![c] = y]
      BY <1>2, <2>1, <2>3 DEF R!Extend, R!Get, R!Goto
    <3>2. y \in R!Call /\ y.user = u /\ y.step = "done" /\ y.feed = p.feed /\ CallShape(y)
      BY <1>2, <2>2 DEF R!Call, R!Steps, CallShape, Making
    <3>. QED
      BY <1>6, <2>2, <3>1, <3>2 DEF Moves, Hit
  <2>4. CASE ~(by = 0 \/ e = None)
    <3>. DEFINE y == [p EXCEPT !.ttl = e.expires - now + by, !.step = "expire"]
    <3>1. call' = [call EXCEPT ![c] = y]
      BY <1>2, <2>1, <2>4 DEF R!Extend, R!Get
    <3>2. e.expires \in Nat
      BY <1>2, <2>4, Names DEF R!Entry
    <3>3. e.expires - now + by \in R!Expiry
      BY <1>2, <3>2, Names
    <3>4. y \in R!Call /\ y.user = u /\ y.step = "expire" /\ y.feed = p.feed /\ CallShape(y)
      BY <1>2, <2>2, <3>3 DEF R!Call, R!Steps, CallShape, Making
    <3>. QED
      BY <1>6, <2>2, <3>1, <3>4 DEF Moves, Hit
  <2>. QED
    BY <2>3, <2>4
<1>13. CASE R!ExpireFeed(c)
  <2>. DEFINE e == redis[u]["feed"]
              y == [p EXCEPT !.step = "done"]
  <2>1. /\ p.step = "expire" /\ UNCHANGED <<shared, visited>>
        /\ call' = [call EXCEPT ![c] = y]
    BY <1>2, <1>13 DEF R!ExpireFeed, R!At, R!Goto
  <2>2. y \in R!Call /\ y.user = u /\ y.step = "done" /\ y.feed = p.feed /\ CallShape(y)
    BY <1>2, <2>1 DEF R!Call, R!Steps, CallShape, Making
  <2>3. Moves(p, y) /\ visited' \in [Users -> R!Times \cup {None}]
    BY <1>2, <2>1, <2>2, Names DEF Moves, Hit, ShapeInv, TypeOK, R!TypeOK
  <2>4. CASE e = None
    BY <1>2, <1>6, <1>13, <2>1, <2>2, <2>3, <2>4 DEF R!ExpireFeed, R!Get
  <2>5. CASE e # None
    <3>. DEFINE f == [val |-> e.val, expires |-> now + p.ttl]
    <3>1. redis' = [redis EXCEPT ![u]["feed"] = f]
      BY <1>2, <1>13, <2>5 DEF R!ExpireFeed, R!Get, R!Put, R!Live
    <3>2. f \in R!Entry("feed") /\ f.val = e.val /\ "feed" \in R!UserKeys
      BY <1>2, <2>5, Names DEF R!Entry, R!Call
    <3>. HIDE DEF f, y
    <3>. QED
      BY <1>7, <2>1, <2>2, <2>3, <2>5, <3>1, <3>2
  <2>. QED
    BY <2>4, <2>5
<1>14. CASE R!FetchHistory(c)
  <2>. DEFINE y == [p EXCEPT !.feed = {m \in replica : body[m].user_id = u},
                             !.prev = None, !.step = "side_get"]
  <2>1. /\ p.step = "history" /\ UNCHANGED <<redis, shared, visited>>
        /\ call' = [call EXCEPT ![c] = y]
    BY <1>2, <1>14 DEF R!FetchHistory, R!At
  <2>2. /\ y \in R!Call /\ y.user = u /\ y.step = "side_get" /\ CallShape(y)
        /\ y.feed = {m \in replica : C!UserOf(m) = u}
    BY <1>2, Names DEF R!Call, R!Steps, CallShape, Making, C!UserOf, ShapeInv, TypeOK
  <2>. QED
    BY <1>6, <2>1, <2>2 DEF Moves
\* On to the next side list, and there is no similar list.
<1>15. ASSUME NEW z \in R!Call, R!NextList(c, z), z.user = u, z.feed = p.feed, p.step \in Making
       PROVE  \E y \in R!Call :
                 /\ call' = [call EXCEPT ![c] = y] /\ y.user = u /\ y.feed = p.feed
                 /\ CallShape(y) /\ Moves(p, y)
  <2>. DEFINE y1 == [z EXCEPT !.list = "gpt_rank", !.step = "side_get"]
              y2 == [z EXCEPT !.step = "put_feed"]
  <2>1. call' = [call EXCEPT ![c] = y1] \/ call' = [call EXCEPT ![c] = y2]
    BY <1>15 DEF R!NextList
  <2>2. /\ y1 \in R!Call /\ y1.user = u /\ y1.feed = p.feed /\ y1.step = "side_get"
        /\ y2 \in R!Call /\ y2.user = u /\ y2.feed = p.feed /\ y2.step = "put_feed"
    BY <1>15 DEF R!Call, R!Steps, R!Side
  <2>3. p.feed \in R!History
    BY <1>2, <1>15 DEF CallShape
  <2>4. CallShape(y1) /\ CallShape(y2) /\ Moves(p, y1) /\ Moves(p, y2)
    BY <1>15, <2>2, <2>3 DEF CallShape, Making, Moves
  <2>. HIDE DEF y1, y2
  <2>. QED
    BY <2>1, <2>2, <2>4
<1>16. CASE R!SideHit(c)
  <2>1. p.step = "side_get" /\ UNCHANGED <<redis, shared, visited>> /\ R!NextList(c, p)
    BY <1>2, <1>16 DEF R!SideHit, R!At
  <2>. QED
    BY <1>2, <1>6, <1>15, <2>1 DEF Making
<1>17. CASE R!SideMiss(c)
  <2>. DEFINE y == [p EXCEPT !.step = "side_query"]
  <2>1. /\ p.step = "side_get" /\ UNCHANGED <<redis, shared, visited>>
        /\ call' = [call EXCEPT ![c] = y]
    BY <1>2, <1>17 DEF R!SideMiss, R!At, R!Goto
  <2>2. y \in R!Call /\ y.user = u /\ y.step = "side_query" /\ y.feed = p.feed /\ CallShape(y)
    BY <1>2, <2>1 DEF R!Call, R!Steps, CallShape, Making
  <2>. QED
    BY <1>6, <2>1, <2>2 DEF Moves, Making
<1>18. CASE R!SideQuery(c)
  <2>. DEFINE y == [p EXCEPT !.from = now, !.step = "side_put"]
  <2>1. /\ p.step = "side_query" /\ UNCHANGED <<redis, shared, visited>>
        /\ call' = [call EXCEPT ![c] = y]
    BY <1>2, <1>18 DEF R!SideQuery, R!At
  <2>2. y \in R!Call /\ y.user = u /\ y.step = "side_put" /\ y.feed = p.feed /\ CallShape(y)
    BY <1>2, <2>1 DEF R!Call, R!Steps, CallShape, Making
  <2>. QED
    BY <1>6, <2>1, <2>2 DEF Moves, Making
<1>19. CASE R!SidePut(c)
  <2>. DEFINE k == p.list
              f == [val |-> p.from, expires |-> now + SideTtl[k]]
              z == [p EXCEPT !.from = None]
  <2>1. /\ p.step = "side_put" /\ UNCHANGED visited /\ R!NextList(c, z)
        /\ IF k = "gpt_rank"
           THEN redis' = [redis EXCEPT ![u][k] = f] /\ UNCHANGED shared
           ELSE shared' = [shared EXCEPT ![R!SharedKey(c)] = f] /\ UNCHANGED redis
    BY <1>2, <1>19 DEF R!SidePut, R!At, R!Put, R!Live
  <2>2. z \in R!Call /\ z.user = u /\ z.feed = p.feed
    BY <1>2 DEF R!Call
  <2>3. PICK y \in R!Call :
          /\ call' = [call EXCEPT ![c] = y] /\ y.user = u /\ y.feed = p.feed
          /\ CallShape(y) /\ Moves(p, y)
    BY <1>15, <2>1, <2>2 DEF Making
  <2>4. k \in R!Side /\ SideTtl[k] \in Nat
    BY <1>2, CoherenceAssumption DEF R!Call, R!RecommendationAssumption
  <2>5. /\ \A j : j # "feed" => f \in R!Entry(j)
        /\ f \in KeyValues
    BY <1>2, <2>1, <2>4, Names DEF R!Entry, CallShape, KeyValues
  <2>6. visited' \in [Users -> R!Times \cup {None}]
    BY <2>1, Names DEF ShapeInv, TypeOK, R!TypeOK
  <2>. HIDE DEF f, z
  <2>7. CASE k = "gpt_rank"
    BY <1>7, <2>1, <2>3, <2>5, <2>6, <2>7, Names
  <2>8. CASE k # "gpt_rank"
    <3>1. x = y /\ y # None
      BY <1>2, <2>3, CoherenceAssumption
    <3>2. Store
      BY <2>1, <2>5, <2>6, <2>8, Names DEF ShapeInv, KeysShape, TypeOK, R!TypeOK
    <3>. QED
      BY <1>1, <1>2, <1>3, <2>1, <2>3, <2>8, <3>1, <3>2 DEF GetStep
  <2>. QED
    BY <2>7, <2>8
<1>20. CASE R!PutFeed(c)
  <2>. DEFINE y == [p EXCEPT !.step = "done"]
              f == [val |-> p.feed, expires |-> now + FeedTtl]
  <2>1. /\ p.step = "put_feed" /\ UNCHANGED <<shared, visited>>
        /\ call' = [call EXCEPT ![c] = y]
        /\ redis' = [redis EXCEPT ![u]["feed"] = f]
    BY <1>2, <1>20 DEF R!PutFeed, R!At, R!Goto, R!Put, R!Live
  <2>2. y \in R!Call /\ y.user = u /\ y.step = "done" /\ y.feed = p.feed /\ CallShape(y)
    BY <1>2, <2>1 DEF R!Call, R!Steps, CallShape, Making
  <2>3. Moves(p, y) /\ visited' \in [Users -> R!Times \cup {None}]
    BY <1>2, <2>1, <2>2, Names DEF Moves, Hit, ShapeInv, TypeOK, R!TypeOK
  <2>4. p.feed \in R!History
    BY <1>2, <2>1 DEF CallShape, Making
  <2>5. f \in R!Entry("feed") /\ f.val = p.feed /\ "feed" \in R!UserKeys
    BY <1>2, <2>4, Names, CoherenceAssumption DEF R!Entry, R!RecommendationAssumption
  <2>. HIDE DEF f, y
  <2>. QED
    BY <1>7, <2>1, <2>2, <2>3, <2>5
<1>21. CASE R!Answer(c) \/ R!Fail(c)
  <2>1. /\ call' = [call EXCEPT ![c] = None] /\ UNCHANGED <<redis, shared, visited>>
    BY <1>21 DEF R!Answer, R!Fail
  <2>2. x = None
    BY <1>2, <2>1
  <2>. QED
    BY <1>1, <1>2, <1>3, <1>4, <2>1, <2>2 DEF GetStep
<1>. QED
  BY <1>5, <1>8, <1>9, <1>10, <1>11, <1>12, <1>13, <1>14, <1>16, <1>17, <1>18, <1>19, <1>20, <1>21
     DEF R!CallStep
----------------------------------------------------------------------------
\* The steps of the GETs keep the shape of the state.
LEMMA BeginKeepsShape ==
    ASSUME ShapeInv, NEW c \in Calls, NEW u \in Users, Begin(c, u)
    PROVE  ShapeInv'
<1>. DEFINE y == [user |-> u, step |-> "last_seen", started |-> now, prev |-> None,
                  feed |-> None, ttl |-> 0, list |-> "popular", anchor |-> None, from |-> None]
<1>1. /\ call' = [call EXCEPT ![c] = y]
      /\ UNCHANGED <<now, replica, body, redis, shared, visited, workerOnly>>
  BY DEF Begin, R!Start, R!world
<1>2. y \in R!Call /\ CallShape(y) /\ y # None
  <2>1. y \in R!Call
    BY Names DEF R!Call, R!Steps, R!Side, ShapeInv, TypeOK, R!TypeOK
  <2>. QED
    BY <2>1, CoherenceAssumption DEF CallShape, Making
<1>3. /\ meets' \in [Calls -> SUBSET rows] /\ due' \in [Calls -> SUBSET rows]
      /\ met' \subseteq rows /\ spoiled' \subseteq rows
  BY DEF Begin, ShapeInv, TypeOK
<1>. HIDE DEF y
<1>4. call' \in [Calls -> R!Call \cup {None}] /\ \A d \in R!Running' : CallShape(call'[d])
  <2>1. call \in [Calls -> R!Call \cup {None}]
    BY DEF ShapeInv, TypeOK, R!TypeOK
  <2>. QED
    BY <1>1, <1>2, <2>1 DEF R!Running, ShapeInv
<1>5. TypeOK'
  BY <1>1, <1>3, <1>4, Names DEF ShapeInv, TypeOK, R!TypeOK, workerOnly
<1>. QED
  BY <1>1, <1>4, <1>5 DEF ShapeInv, KeysShape, CallShape, workerOnly

LEMMA ProceedKeepsShape ==
    ASSUME ShapeInv, NEW c \in Calls, Proceed(c)
    PROVE  ShapeInv' /\ GetStep(c, call[c], call'[c])
<1>1. /\ GetStep(c, call[c], call'[c]) /\ KeysShape'
      /\ \A v \in Users, j \in R!UserKeys : redis'[v][j] \in R!Entry(j) \cup {None}
      /\ \A k \in R!Shared : shared'[k] \in R!Entry(k) \cup {None}
      /\ visited' \in [Users -> R!Times \cup {None}]
  BY CallSteps DEF Proceed
<1>2. UNCHANGED <<workerOnly, met, spoiled>>
  BY DEF Proceed
<1>3. meets' \in [Calls -> SUBSET rows] /\ due' \in [Calls -> SUBSET rows]
  BY DEF Proceed, ShapeInv, TypeOK
<1>4. call' \in [Calls -> R!Call \cup {None}] /\ \A d \in R!Running' : CallShape(call'[d])
  <2>1. call \in [Calls -> R!Call \cup {None}]
    BY DEF ShapeInv, TypeOK, R!TypeOK
  <2>. QED
    BY <1>1, <2>1 DEF GetStep, R!Running, ShapeInv
<1>5. TypeOK'
  BY <1>1, <1>2, <1>3, <1>4, Names DEF GetStep, ShapeInv, TypeOK, R!TypeOK, workerOnly
<1>. QED
  BY <1>1, <1>2, <1>4, <1>5 DEF GetStep, ShapeInv, CallShape, workerOnly
----------------------------------------------------------------------------
\* What the worker does to the windows, whatever the broker does.
SameWindow(t) ==
    /\ C!Invalidating(t)' <=> C!Invalidating(t)
    /\ C!Invalidating(t) => task'[t].msg = task[t].msg /\ task'[t].step = task[t].step

\* No window changes; a row that gets none has lost its Process call.
NoWindow ==
    /\ \A t \in Slots : SameWindow(t)
    /\ UNCHANGED redis
    /\ \/ UNCHANGED <<rows, interrupted>>
       \/ \E m \in Messages \ rows :
             rows' = rows \cup {m} /\ interrupted' = interrupted \cup {m}

\* The INSERT opens a window.
OpensWindow(s) ==
    /\ ~C!Invalidating(s) /\ C!Invalidating(s)'
    /\ task'[s].msg \in Messages \ rows /\ task'[s].step = "feed"
    /\ rows' = rows \cup {task'[s].msg}
    /\ \A t \in Slots \ {s} : SameWindow(t)
    /\ UNCHANGED <<redis, interrupted>>

\* The key k of the user of m is deleted, or not.
Deleted(m, k) == redis' = [redis EXCEPT ![C!UserOf(m)][k] = None]

\* A DEL is done.
MovesWindow(s) ==
    /\ C!Invalidating(s)
    /\ Deleted(task[s].msg, task[s].step)
    /\ IF task[s].step = "visit_last"
       THEN ~C!Invalidating(s)'
       ELSE /\ C!Invalidating(s)' /\ task'[s].msg = task[s].msg
            /\ task'[s].step = C!Successor[task[s].step]
    /\ \A t \in Slots \ {s} : SameWindow(t)
    /\ UNCHANGED <<rows, interrupted>>

\* The windows of S are cut short.
CutsWindows(S) ==
    /\ \A s \in S : C!Invalidating(s) /\ ~C!Invalidating(s)'
    /\ interrupted' = interrupted \cup {task[s].msg : s \in S}
    /\ UNCHANGED redis \/ \E s \in S : Deleted(task[s].msg, task[s].step)
    /\ \A t \in Slots \ S : SameWindow(t)
    /\ UNCHANGED rows

WindowStep ==
    \/ NoWindow
    \/ \E s \in Slots : OpensWindow(s)
    \/ \E s \in Slots : MovesWindow(s)
    \/ \E S \in SUBSET Slots : CutsWindows(S)

WorkerTypes ==
    queue \subseteq Messages /\ task \in [Slots -> C!Task \cup {None}] /\ dropped \subseteq Messages

LEMMA WorkerSteps ==
    ASSUME ShapeInv, C!Next
    PROVE  WorkerTypes' /\ UNCHANGED body /\ WindowStep
<1>. USE DEF C!Invalidating, C!Running
<1>1. WorkerTypes /\ rows \subseteq Messages /\ None \notin C!Task
  BY CoherenceAssumption DEF ShapeInv, TypeOK, WorkerTypes, C!ConsumerAssumption
<1>2. \A s \in C!Running : /\ task[s] \in C!Task /\ task[s].msg \in Messages
                           /\ task[s].live \in BOOLEAN
                           /\ task[s].step \in {"process", "ack", "feed", "gpt_rank", "visit_last"}
  BY <1>1 DEF WorkerTypes, C!Task, C!Steps, C!UserKeys
<1>3. C!Held \subseteq Messages
  BY <1>2 DEF C!Held, C!LiveSlots
\* A coroutine goes to a step that is not a DEL, or ends.
<1>4. ASSUME NEW s \in Slots, NEW x \in C!Task \cup {None}, task' = [task EXCEPT ![s] = x]
      PROVE  /\ task' \in [Slots -> C!Task \cup {None}] /\ task'[s] = x
             /\ \A t \in Slots \ {s} : SameWindow(t)
             /\ C!Invalidating(s)' <=> x # None /\ x.step \in C!UserKeys
  BY <1>1, <1>4 DEF WorkerTypes, SameWindow
<1>5. ASSUME NEW s \in C!Running, NEW k \in C!Steps, C!Goto(s, k)
      PROVE  \E x \in C!Task : /\ task' = [task EXCEPT ![s] = x]
                               /\ x.msg = task[s].msg /\ x.step = k
  <2>. DEFINE x == [task[s] EXCEPT !.step = k]
  <2>1. x \in C!Task /\ x.msg = task[s].msg /\ x.step = k
    BY <1>2, <1>5 DEF C!Task
  <2>2. task' = [task EXCEPT ![s] = x]
    BY <1>5 DEF C!Goto
  <2>. HIDE DEF x
  <2>. QED
    BY <2>1, <2>2
<1>6. ASSUME NEW s \in Slots, NEW m \in Messages, C!Deliver(s, m)
      PROVE  WorkerTypes' /\ UNCHANGED body /\ WindowStep
  <2>. DEFINE x == [msg |-> m, step |-> "process", live |-> TRUE]
  <2>1. /\ task' = [task EXCEPT ![s] = x] /\ task[s] = None /\ queue' \subseteq queue
        /\ UNCHANGED <<body, rows, redis, dropped, interrupted>>
    BY <1>1, <1>6 DEF C!Deliver
  <2>2. x \in C!Task /\ x.step \notin C!UserKeys
    BY DEF C!Task, C!Steps, C!UserKeys
  <2>. HIDE DEF x
  <2>3. SameWindow(s)
    BY <1>4, <2>1, <2>2 DEF SameWindow
  <2>. QED
    BY <1>1, <1>4, <2>1, <2>2, <2>3 DEF WorkerTypes, WindowStep, NoWindow
<1>7. ASSUME NEW s \in Slots, C!Skip(s)
      PROVE  WorkerTypes' /\ UNCHANGED body /\ WindowStep
  <2>1. /\ s \in C!Running /\ task[s].step = "process" /\ C!Goto(s, "ack")
        /\ UNCHANGED <<queue, body, rows, redis, dropped, interrupted>>
    BY <1>7 DEF C!Skip, C!At
  <2>2. PICK x \in C!Task : /\ task' = [task EXCEPT ![s] = x]
                            /\ x.msg = task[s].msg /\ x.step = "ack"
    BY <1>5, <2>1 DEF C!Steps
  <2>3. SameWindow(s)
    BY <1>4, <2>1, <2>2 DEF SameWindow, C!UserKeys
  <2>. QED
    BY <1>1, <1>4, <2>1, <2>2, <2>3 DEF WorkerTypes, WindowStep, NoWindow
<1>8. ASSUME NEW s \in Slots, C!Insert(s)
      PROVE  WorkerTypes' /\ UNCHANGED body /\ WindowStep
  <2>. DEFINE m == task[s].msg
  <2>1. /\ s \in C!Running /\ task[s].step = "process" /\ m \in Messages
        /\ rows' = IF C!Stored(m) THEN rows ELSE rows \cup {m}
        /\ C!Goto(s, IF ~C!Stored(m) THEN "feed" ELSE "ack")
        /\ UNCHANGED <<queue, body, redis, dropped, interrupted>>
    BY <1>2, <1>8 DEF C!Insert, C!At
  <2>2. CASE C!Stored(m)
    <3>1. PICK x \in C!Task : task' = [task EXCEPT ![s] = x] /\ x.msg = m /\ x.step = "ack"
      BY <1>5, <2>1, <2>2 DEF C!Steps
    <3>2. SameWindow(s)
      BY <1>4, <2>1, <3>1 DEF SameWindow, C!UserKeys
    <3>. QED
      BY <1>1, <1>4, <2>1, <2>2, <3>1, <3>2 DEF WorkerTypes, WindowStep, NoWindow
  <2>3. CASE ~C!Stored(m)
    <3>1. PICK x \in C!Task : task' = [task EXCEPT ![s] = x] /\ x.msg = m /\ x.step = "feed"
      BY <1>5, <2>1, <2>3 DEF C!Steps, C!UserKeys
    <3>2. m \notin rows
      BY <2>3 DEF C!Stored, C!SameRow
    <3>3. task'[s] = x /\ C!Invalidating(s)' /\ ~C!Invalidating(s) /\ x # None
      BY <1>1, <1>4, <2>1, <3>1 DEF C!UserKeys
    <3>4. OpensWindow(s)
      BY <1>4, <2>1, <2>3, <3>1, <3>2, <3>3 DEF OpensWindow
    <3>. QED
      BY <1>1, <1>4, <2>1, <3>1, <3>4 DEF WorkerTypes, WindowStep
  <2>. QED
    BY <2>2, <2>3
<1>9. ASSUME NEW s \in Slots, C!Invalidate(s)
      PROVE  WorkerTypes' /\ UNCHANGED body /\ WindowStep
  <2>. DEFINE m == task[s].msg
              k == task[s].step
  <2>1. /\ s \in C!Running /\ k \in C!UserKeys /\ Deleted(m, k)
        /\ C!Goto(s, C!Successor[k])
        /\ UNCHANGED <<queue, body, rows, dropped, interrupted>>
    BY <1>9 DEF C!Invalidate, Deleted
  <2>2. C!Successor[k] \in C!Steps /\ (C!Successor[k] \in C!UserKeys <=> k # "visit_last")
    BY <2>1 DEF C!Successor, C!UserKeys, C!Steps
  <2>3. PICK x \in C!Task : /\ task' = [task EXCEPT ![s] = x]
                            /\ x.msg = m /\ x.step = C!Successor[k]
    BY <1>5, <2>1, <2>2
  <2>4. task'[s] = x /\ (C!Invalidating(s)' <=> k # "visit_last") /\ C!Invalidating(s)
    BY <1>1, <1>4, <2>1, <2>2, <2>3
  <2>5. MovesWindow(s)
    BY <1>4, <2>1, <2>3, <2>4 DEF MovesWindow
  <2>. QED
    BY <1>1, <1>4, <2>1, <2>3, <2>5 DEF WorkerTypes, WindowStep
<1>10. ASSUME NEW s \in Slots, C!Ack(s)
       PROVE  WorkerTypes' /\ UNCHANGED body /\ WindowStep
  <2>1. /\ s \in C!Running /\ task[s].step = "ack" /\ task' = [task EXCEPT ![s] = None]
        /\ UNCHANGED <<queue, body, rows, redis, dropped, interrupted>>
    BY <1>10 DEF C!Ack, C!At
  <2>2. SameWindow(s)
    BY <1>4, <2>1 DEF SameWindow, C!UserKeys
  <2>. QED
    BY <1>1, <1>4, <2>1, <2>2 DEF WorkerTypes, WindowStep, NoWindow
<1>11. ASSUME NEW s \in Slots, C!InsertThrows(s)
       PROVE  WorkerTypes' /\ UNCHANGED body /\ WindowStep
  <2>. DEFINE m == task[s].msg
  <2>1. /\ s \in C!Running /\ task[s].step = "process" /\ m \in Messages
        /\ \/ UNCHANGED <<rows, interrupted>>
           \/ /\ ~C!Stored(m) /\ rows' = rows \cup {m} /\ interrupted' = interrupted \cup {m}
        /\ queue' \subseteq queue \cup {m} /\ task' = [task EXCEPT ![s] = None]
        /\ UNCHANGED <<body, dropped, redis>>
    BY <1>2, <1>11 DEF C!InsertThrows, C!At, C!Requeue
  <2>2. SameWindow(s)
    BY <1>4, <2>1 DEF SameWindow, C!UserKeys
  <2>3. ~C!Stored(m) => m \notin rows
    BY DEF C!Stored, C!SameRow
  <2>. QED
    BY <1>1, <1>4, <2>1, <2>2, <2>3 DEF WorkerTypes, WindowStep, NoWindow
<1>12. ASSUME NEW s \in Slots, C!InvalidateThrows(s)
       PROVE  WorkerTypes' /\ UNCHANGED body /\ WindowStep
  <2>. DEFINE m == task[s].msg
  <2>1. /\ C!Invalidating(s) /\ m \in Messages
        /\ UNCHANGED redis \/ Deleted(m, task[s].step)
        /\ interrupted' = interrupted \cup {m}
        /\ queue' \subseteq queue \cup {m} /\ task' = [task EXCEPT ![s] = None]
        /\ UNCHANGED <<body, dropped, rows>>
    BY <1>2, <1>12 DEF C!InvalidateThrows, C!Requeue, Deleted
  <2>2. task'[s] = None /\ ~C!Invalidating(s)' /\ \A t \in Slots \ {s} : SameWindow(t)
    BY <1>4, <2>1
  <2>3. CutsWindows({s})
    BY <2>1, <2>2 DEF CutsWindows
  <2>. QED
    BY <1>1, <1>4, <2>1, <2>3 DEF WorkerTypes, WindowStep
\* The loss of the channels.
<1>13. ASSUME task' = [s \in Slots |-> IF s \in C!Running
                                       THEN [task[s] EXCEPT !.live = FALSE] ELSE None]
       PROVE  task' \in [Slots -> C!Task \cup {None}] /\ \A t \in Slots : SameWindow(t)
  <2>1. \A s \in C!Running : /\ [task[s] EXCEPT !.live = FALSE] \in C!Task
                             /\ [task[s] EXCEPT !.live = FALSE].msg = task[s].msg
                             /\ [task[s] EXCEPT !.live = FALSE].step = task[s].step
    BY <1>2 DEF C!Task
  <2>. QED
    BY <1>1, <1>13, <2>1 DEF SameWindow
<1>14. CASE C!ConnectionLost
  BY <1>1, <1>3, <1>13, <1>14 DEF C!ConnectionLost, WorkerTypes, WindowStep, NoWindow
<1>15. CASE C!BrokerRestart
  BY <1>1, <1>3, <1>13, <1>15 DEF C!BrokerRestart, WorkerTypes, WindowStep, NoWindow
<1>16. CASE C!WorkerCrash
  <2>1. PICK S \in SUBSET Slots : S = {t \in Slots : C!Invalidating(t)}
    OBVIOUS
  <2>2. /\ queue' = queue \cup C!Held /\ task' = [s \in Slots |-> None]
        /\ interrupted' = interrupted \cup {task[s].msg : s \in S}
        /\ UNCHANGED <<body, rows, redis, dropped>>
    BY <1>16, <2>1 DEF C!WorkerCrash
  <2>3. CutsWindows(S)
    BY <2>1, <2>2 DEF CutsWindows, SameWindow
  <2>. QED
    BY <1>1, <1>3, <2>2, <2>3 DEF WorkerTypes, WindowStep
<1>. QED
  BY <1>6, <1>7, <1>8, <1>9, <1>10, <1>11, <1>12, <1>14, <1>15, <1>16 DEF C!Next, C!SlotStep
----------------------------------------------------------------------------
\* A step that does nothing to the keys but deletes some.
KeysGo ==
    /\ redis' \in [Users -> [R!UserKeys -> KeyValues]]
    /\ \A u \in Users, k \in R!UserKeys : redis'[u][k] \in {redis[u][k], None}

\* What a step of the worker means for the row m.
RowStep(m) ==
    /\ m \in rows' \ rows => m \in interrupted' \/ (Open(m)' /\ ~FeedDeleted(m)')
    /\ m \in rows /\ Open(m)' => Open(m)
    /\ m \in rows /\ Open(m) /\ ~Open(m)' =>
          m \in interrupted' \/ (FeedDeleted(m) /\ redis'[C!UserOf(m)]["visit_last"] = None)
    /\ m \in rows /\ FeedDeleted(m)' => FeedDeleted(m) \/ redis'[C!UserOf(m)]["feed"] = None
    /\ m \in interrupted' \ interrupted => m \notin rows \/ Open(m)

LEMMA KeyGoes ==
    ASSUME ShapeInv, NEW u \in Users, NEW k \in R!UserKeys, redis' = [redis EXCEPT ![u][k] = None]
    PROVE  KeysGo /\ redis'[u][k] = None
  BY PutKey DEF KeysGo

LEMMA KeysStay ==
    ASSUME ShapeInv, UNCHANGED redis
    PROVE  KeysGo
  BY DEF ShapeInv, KeysShape, KeysGo

LEMMA WindowSteps ==
    ASSUME ShapeInv, WindowInv, UNCHANGED body, WindowStep
    PROVE  /\ WindowInv' /\ KeysGo
           /\ rows \subseteq rows' /\ rows' \subseteq Messages
           /\ interrupted \subseteq interrupted' /\ interrupted' \subseteq rows'
           /\ \A m \in Messages : RowStep(m)
<1>1. rows \subseteq Messages /\ interrupted \subseteq rows
  BY DEF ShapeInv, TypeOK
<1>2. \A s \in Slots : C!Invalidating(s) =>
          /\ task[s].msg \in rows /\ task[s].msg \in Messages
          /\ task[s].step \in {"feed", "gpt_rank", "visit_last"}
          /\ C!UserOf(task[s].msg) \in Users
          /\ \A t \in Slots : C!Invalidating(t) /\ task[t].msg = task[s].msg => t = s
  BY <1>1, Names, RowUser DEF WindowInv, C!Invalidating
<1>3. CASE NoWindow
  <2>1. WindowInv' /\ KeysGo
    BY <1>2, <1>3, KeysStay DEF NoWindow, SameWindow, WindowInv
  <2>2. ASSUME NEW m \in Messages
        PROVE  (Open(m)' <=> Open(m)) /\ (FeedDeleted(m)' <=> FeedDeleted(m))
    BY <1>3 DEF NoWindow, SameWindow, Open, FeedDeleted
  <2>. QED
    BY <1>1, <1>3, <2>1, <2>2 DEF NoWindow, RowStep
<1>4. ASSUME NEW s \in Slots, OpensWindow(s)
      PROVE  /\ WindowInv' /\ KeysGo
             /\ rows \subseteq rows' /\ rows' \subseteq Messages
             /\ interrupted \subseteq interrupted' /\ interrupted' \subseteq rows'
             /\ \A m \in Messages : RowStep(m)
  <2>. DEFINE n == task'[s].msg
  <2>1. /\ ~C!Invalidating(s) /\ C!Invalidating(s)' /\ n \in Messages \ rows
        /\ task'[s].step = "feed" /\ rows' = rows \cup {n} /\ UNCHANGED <<redis, interrupted>>
        /\ \A t \in Slots \ {s} : SameWindow(t)
    BY <1>4 DEF OpensWindow
  <2>2. ASSUME NEW t \in Slots, C!Invalidating(t)', t # s
        PROVE  /\ C!Invalidating(t) /\ task'[t].msg = task[t].msg /\ task'[t].step = task[t].step
               /\ task'[t].msg \in rows /\ task'[t].msg # n
    BY <1>2, <2>1, <2>2 DEF SameWindow
  <2>3. WindowInv'
    <3>. SUFFICES ASSUME NEW t \in Slots, C!Invalidating(t)'
                  PROVE  /\ task'[t].msg \in rows'
                         /\ \A v \in Slots : C!Invalidating(v)' /\ task'[v].msg = task'[t].msg => v = t
      BY DEF WindowInv
    <3>1. CASE t = s
      BY <2>1, <2>2, <3>1
    <3>2. CASE t # s
      BY <1>2, <2>1, <2>2, <3>2
    <3>. QED
      BY <3>1, <3>2
  <2>4. ASSUME NEW m \in Messages
        PROVE  RowStep(m)
    <3>1. m # n => (Open(m)' <=> Open(m)) /\ (FeedDeleted(m)' <=> FeedDeleted(m))
      BY <2>1 DEF SameWindow, Open, FeedDeleted
    <3>2. m = n => Open(m)' /\ ~FeedDeleted(m)' /\ m \notin rows
      BY <2>1, <2>2 DEF Open, FeedDeleted
    <3>. QED
      BY <2>1, <3>1, <3>2 DEF RowStep
  <2>5. KeysGo
    BY <2>1, KeysStay
  <2>. QED
    BY <1>1, <2>1, <2>3, <2>4, <2>5
<1>5. ASSUME NEW s \in Slots, MovesWindow(s)
      PROVE  /\ WindowInv' /\ KeysGo
             /\ rows \subseteq rows' /\ rows' \subseteq Messages
             /\ interrupted \subseteq interrupted' /\ interrupted' \subseteq rows'
             /\ \A m \in Messages : RowStep(m)
  <2>. DEFINE n == task[s].msg
              k == task[s].step
  <2>1. /\ C!Invalidating(s) /\ n \in rows /\ n \in Messages /\ C!UserOf(n) \in Users
        /\ k \in {"feed", "gpt_rank", "visit_last"}
        /\ redis' = [redis EXCEPT ![C!UserOf(n)][k] = None]
        /\ k = "visit_last" => ~C!Invalidating(s)'
        /\ k # "visit_last" => C!Invalidating(s)' /\ task'[s].msg = n
        /\ \A t \in Slots \ {s} : SameWindow(t)
        /\ UNCHANGED <<rows, interrupted>>
    BY <1>2, <1>5 DEF MovesWindow, Deleted
  <2>2. KeysGo /\ redis'[C!UserOf(n)][k] = None
    BY <2>1, Names, KeyGoes
  <2>3. WindowInv'
    BY <1>2, <2>1 DEF WindowInv, SameWindow
  <2>4. ASSUME NEW m \in Messages
        PROVE  RowStep(m)
    <3>1. CASE m # n
      <4>1. (Open(m)' <=> Open(m)) /\ (FeedDeleted(m)' <=> FeedDeleted(m))
        BY <2>1, <3>1 DEF SameWindow, Open, FeedDeleted
      <4>. QED
        BY <2>1, <4>1 DEF RowStep
    <3>2. CASE m = n
      <4>1. Open(m) /\ (FeedDeleted(m) <=> k # "feed")
        BY <1>2, <2>1, <3>2 DEF Open, FeedDeleted
      <4>2. ~Open(m)' => k = "visit_last"
        BY <2>1, <3>2 DEF Open
      <4>3. k = "feed" => redis'[C!UserOf(m)]["feed"] = None
        BY <2>2, <3>2
      <4>4. k = "visit_last" => redis'[C!UserOf(m)]["visit_last"] = None
        BY <2>2, <3>2
      <4>. QED
        BY <2>1, <4>1, <4>2, <4>3, <4>4 DEF RowStep
    <3>. QED
      BY <3>1, <3>2
  <2>. QED
    BY <1>1, <2>1, <2>2, <2>3, <2>4
<1>6. ASSUME NEW S \in SUBSET Slots, CutsWindows(S)
      PROVE  /\ WindowInv' /\ KeysGo
             /\ rows \subseteq rows' /\ rows' \subseteq Messages
             /\ interrupted \subseteq interrupted' /\ interrupted' \subseteq rows'
             /\ \A m \in Messages : RowStep(m)
  <2>1. /\ \A s \in S : C!Invalidating(s) /\ ~C!Invalidating(s)' /\ task[s].msg \in rows
        /\ interrupted' = interrupted \cup {task[s].msg : s \in S}
        /\ \A t \in Slots \ S : SameWindow(t)
        /\ UNCHANGED rows
    BY <1>2, <1>6 DEF CutsWindows
  <2>2. KeysGo
    <3>1. CASE UNCHANGED redis
      BY <3>1, KeysStay
    <3>2. CASE \E s \in S : Deleted(task[s].msg, task[s].step)
      <4>1. PICK s \in S : Deleted(task[s].msg, task[s].step)
        BY <3>2
      <4>2. C!UserOf(task[s].msg) \in Users /\ task[s].step \in R!UserKeys
        BY <1>2, <2>1, Names
      <4>. QED
        BY <4>1, <4>2, KeyGoes DEF Deleted
    <3>. QED
      BY <1>6, <3>1, <3>2 DEF CutsWindows
  <2>3. WindowInv'
    BY <1>2, <2>1 DEF WindowInv, SameWindow
  <2>4. ASSUME NEW m \in Messages
        PROVE  RowStep(m)
    <3>1. /\ Open(m)' => Open(m)
          /\ FeedDeleted(m)' => FeedDeleted(m)
          /\ Open(m) /\ ~Open(m)' => m \in interrupted'
          /\ m \in interrupted' \ interrupted => Open(m)
      BY <2>1 DEF SameWindow, Open, FeedDeleted
    <3>. QED
      BY <2>1, <3>1 DEF RowStep
  <2>. QED
    BY <1>1, <2>1, <2>2, <2>3, <2>4
<1>. QED
  BY <1>3, <1>4, <1>5, <1>6 DEF WindowStep
----------------------------------------------------------------------------
\* Each action keeps the invariant.
LEMMA WorkKeepsInv ==
    ASSUME CoherenceInv, Work
    PROVE  CoherenceInv'
<1>. DEFINE opened == {m \in Messages : ~Open(m) /\ Open(m)'}
            closed == {m \in Messages : Open(m) /\ ~Open(m)'}
<1>1. /\ C!Next /\ UNCHANGED <<now, shared, call, visited, replica, due>>
      /\ meets' = [c \in Calls |-> meets[c] \cup {m \in opened : c \in GetsOf(m)}]
      /\ met' = met \cup {m \in opened : GetsOf(m) # {}}
      /\ spoiled' = spoiled \cup {m \in opened : \E c, d \in GetsOf(m) : c # d}
                            \cup {m \in closed : m \notin replica}
  BY DEF Work, getOnly
<1>. HIDE DEF opened, closed
<1>2. ShapeInv /\ WindowInv
  BY DEF CoherenceInv
<1>3. WorkerTypes' /\ UNCHANGED body /\ WindowStep
  BY <1>1, <1>2, WorkerSteps
<1>4. /\ WindowInv' /\ KeysGo
      /\ rows \subseteq rows' /\ rows' \subseteq Messages
      /\ interrupted \subseteq interrupted' /\ interrupted' \subseteq rows'
      /\ \A m \in Messages : RowStep(m)
  BY <1>2, <1>3, WindowSteps
<1>5. \A m \in Messages : /\ Open(m) => m \in rows
                          /\ Open(m)' => m \in rows'
                          /\ FeedDeleted(m)' => Open(m)'
  BY <1>2, <1>4 DEF WindowInv, Open, FeedDeleted
<1>6. opened \subseteq rows' \ rows /\ closed \subseteq rows
  BY <1>4, <1>5 DEF RowStep, opened, closed
<1>7. ShapeInv'
  <2>1. /\ meets' \in [Calls -> SUBSET rows'] /\ due' \in [Calls -> SUBSET rows']
        /\ met' \subseteq rows' /\ spoiled' \subseteq rows' /\ replica' \subseteq rows'
        /\ due \in [Calls -> SUBSET rows] /\ meets \in [Calls -> SUBSET rows]
    <3>1. /\ meets \in [Calls -> SUBSET rows] /\ due \in [Calls -> SUBSET rows]
          /\ met \subseteq rows /\ spoiled \subseteq rows /\ replica \subseteq rows
      BY <1>2 DEF ShapeInv, TypeOK
    <3>. QED
      BY <1>1, <1>4, <1>6, <3>1
  <2>2. R!TypeOK'
    BY <1>1, <1>2, <1>4, Names DEF ShapeInv, TypeOK, R!TypeOK, KeysGo
  <2>3. TypeOK'
    BY <1>3, <1>4, <2>1, <2>2 DEF TypeOK, WorkerTypes
  <2>. QED
    BY <1>1, <1>2, <1>3, <1>4, <2>3 DEF ShapeInv, KeysShape, KeysGo, R!Running, CallShape
<1>8. ASSUME NEW m \in Messages
      PROVE  /\ GetsOf(m)' = GetsOf(m) /\ C!UserOf(m)' = C!UserOf(m) /\ C!UserOf(m) \in Users
             /\ redis'[C!UserOf(m)]["feed"] \in {redis[C!UserOf(m)]["feed"], None}
             /\ redis'[C!UserOf(m)]["visit_last"] \in {redis[C!UserOf(m)]["visit_last"], None}
             /\ RowStep(m)
  BY <1>1, <1>2, <1>3, <1>4, RowUser, Names DEF GetsOf, R!Running, R!UserOf, C!UserOf, KeysGo
<1>9. meets \in [Calls -> SUBSET rows]
  BY <1>2 DEF ShapeInv, TypeOK
<1>10. ASSUME NEW m \in Messages, Clean(m)'
       PROVE  (OneMeets(m) /\ StaleIsPutLate(m) /\ ClosedIsSafe(m))'
  <2>1. m \in rows' /\ m \notin interrupted' /\ m \notin spoiled'
    BY <1>10 DEF Clean
  <2>2. CASE m \notin rows
    <3>1. Open(m)' /\ ~FeedDeleted(m)' /\ m \in opened
      BY <1>5, <1>8, <2>1, <2>2 DEF RowStep, opened
    <3>2. \A c, d \in GetsOf(m) : c = d
      BY <1>1, <2>1, <3>1
    <3>3. \A d \in Calls : m \in meets'[d] <=> d \in GetsOf(m)
      BY <1>1, <1>9, <2>2, <3>1
    <3>4. GetsOf(m) \subseteq Calls
      BY DEF GetsOf, R!Running
    <3>5. \A d \in GetsOf(m) : GetsOf(m) = {d} /\ m \in met'
      BY <1>1, <3>1, <3>2
    <3>6. OneMeets(m)'
      BY <1>8, <3>3, <3>4, <3>5 DEF OneMeets
    <3>. QED
      BY <3>1, <3>6 DEF StaleIsPutLate, ClosedIsSafe
  <2>3. CASE m \in rows
    <3>1. OneMeets(m) /\ StaleIsPutLate(m) /\ ClosedIsSafe(m)
      BY <1>1, <1>4, <2>1, <2>3 DEF CoherenceInv, RowInv, Clean
    <3>2. /\ \A d \in Calls : m \in meets'[d] <=> m \in meets[d]
          /\ m \in met' <=> m \in met
      BY <1>1, <1>6, <2>3
    <3>3. /\ Open(m)' => Open(m)
          /\ Open(m) /\ ~Open(m)' => /\ FeedDeleted(m)
                                     /\ redis'[C!UserOf(m)]["visit_last"] = None
                                     /\ m \in replica
          /\ FeedDeleted(m)' => FeedDeleted(m) \/ redis'[C!UserOf(m)]["feed"] = None
      BY <1>1, <1>8, <2>1, <2>3 DEF RowStep, closed
    <3>4. Stale(m)' => /\ Stale(m) /\ redis'[C!UserOf(m)]["feed"] # None
      BY <1>8 DEF Stale
    <3>5. GetsOf(m) \subseteq Calls
      BY DEF GetsOf, R!Running
    <3>6. OneMeets(m)'
      BY <1>8, <3>1, <3>2, <3>3, <3>5 DEF OneMeets
    <3>7. StaleIsPutLate(m)'
      BY <1>1, <1>8, <3>1, <3>2, <3>3, <3>4, <3>5 DEF StaleIsPutLate
    <3>8. ClosedIsSafe(m)'
      BY <1>1, <1>8, <3>1, <3>2, <3>3, <3>4, <3>5 DEF ClosedIsSafe, OneMeets
    <3>. QED
      BY <3>6, <3>7, <3>8
  <2>. QED
    BY <2>2, <2>3
<1>11. ASSUME NEW c \in Calls, NEW m \in Messages, m \in due[c]
       PROVE  /\ c \in GetsOf(m)' /\ Clean(m)' /\ ~Open(m)'
              /\ \A d \in Calls : m \notin meets'[d]
              /\ call'[c].step \in Hit => m \in call'[c].feed
  <2>1. /\ c \in GetsOf(m) /\ Clean(m) /\ ~Open(m) /\ \A d \in Calls : m \notin meets[d]
        /\ call[c].step \in Hit => m \in call[c].feed
    BY <1>11 DEF CoherenceInv, DueInv
  <2>2. m \in rows /\ m \notin opened /\ m \notin closed
    BY <1>6, <2>1 DEF Clean, closed
  <2>. QED
    BY <1>1, <1>4, <1>8, <2>1, <2>2 DEF Clean, RowStep
<1>. QED
  BY <1>1, <1>4, <1>7, <1>10, <1>11 DEF CoherenceInv, RowInv, DueInv

LEMMA ExpireKeepsInv ==
    ASSUME CoherenceInv, NEW u \in Users, NEW k \in C!UserKeys, Expire(u, k)
    PROVE  CoherenceInv'
<1>1. /\ redis' = [redis EXCEPT ![u][k] = None]
      /\ UNCHANGED <<now, shared, call, visited, queue, task, rows, dropped, interrupted>>
      /\ UNCHANGED <<body, replica, meets, met, spoiled, due>>
  BY DEF Expire, getOnly, workerOnly, history
<1>2. ShapeInv /\ KeysGo
  BY <1>1, Names, KeyGoes DEF CoherenceInv
<1>3. ShapeInv'
  BY <1>1, <1>2, Names DEF ShapeInv, TypeOK, R!TypeOK, KeysShape, KeysGo, R!Running, CallShape
<1>4. WindowInv'
  BY <1>1 DEF CoherenceInv, WindowInv, C!Invalidating, C!Running
<1>5. ASSUME NEW m \in Messages
      PROVE  /\ GetsOf(m)' = GetsOf(m) /\ C!UserOf(m)' = C!UserOf(m)
             /\ Open(m)' = Open(m) /\ FeedDeleted(m)' = FeedDeleted(m) /\ Clean(m)' = Clean(m)
             /\ Stale(m)' => Stale(m)
             /\ redis[C!UserOf(m)]["visit_last"] = None =>
                    redis'[C!UserOf(m)]["visit_last"] = None
  <2>1. /\ GetsOf(m)' = GetsOf(m) /\ C!UserOf(m)' = C!UserOf(m) /\ C!UserOf(m) \in Users
        /\ Open(m)' = Open(m) /\ FeedDeleted(m)' = FeedDeleted(m) /\ Clean(m)' = Clean(m)
    BY <1>1, <1>2, RowUser DEF GetsOf, R!Running, R!UserOf, C!UserOf, Open, FeedDeleted, Clean,
       C!Invalidating, C!Running
  <2>2. /\ redis'[C!UserOf(m)]["feed"] \in {redis[C!UserOf(m)]["feed"], None}
        /\ redis'[C!UserOf(m)]["visit_last"] \in {redis[C!UserOf(m)]["visit_last"], None}
    BY <1>2, <2>1, Names DEF KeysGo
  <2>. QED
    BY <2>1, <2>2 DEF Stale
<1>6. ASSUME NEW m \in Messages
      PROVE  RowInv(m)'
  <2>1. RowInv(m)
    BY DEF CoherenceInv
  <2>2. SUFFICES ASSUME Clean(m) PROVE (OneMeets(m) /\ StaleIsPutLate(m) /\ ClosedIsSafe(m))'
    BY <1>5 DEF RowInv
  <2>3. OneMeets(m)'
    BY <1>1, <1>5, <2>1, <2>2 DEF RowInv, OneMeets
  <2>4. StaleIsPutLate(m)'
    BY <1>1, <1>5, <2>1, <2>2 DEF RowInv, StaleIsPutLate
  <2>5. ClosedIsSafe(m)'
    BY <1>1, <1>5, <2>1, <2>2 DEF RowInv, ClosedIsSafe
  <2>. QED
    BY <2>3, <2>4, <2>5
<1>7. \A c \in Calls, m \in Messages : DueInv(c, m)'
  BY <1>1, <1>5 DEF CoherenceInv, DueInv
<1>. QED
  BY <1>3, <1>4, <1>6, <1>7 DEF CoherenceInv

LEMMA ReplicateKeepsInv ==
    ASSUME CoherenceInv, NEW n \in Messages, Replicate(n)
    PROVE  CoherenceInv'
<1>1. /\ n \in rows /\ replica' = replica \cup {n}
      /\ UNCHANGED <<now, shared, call, visited, queue, task, rows, dropped, interrupted>>
      /\ UNCHANGED <<body, redis, meets, met, spoiled, due>>
  BY DEF Replicate, getOnly, workerOnly, history
<1>2. ShapeInv'
  BY <1>1, Names DEF CoherenceInv, ShapeInv, TypeOK, R!TypeOK, KeysShape, R!Running, CallShape
<1>3. WindowInv'
  BY <1>1 DEF CoherenceInv, WindowInv, C!Invalidating, C!Running
<1>4. ASSUME NEW m \in Messages
      PROVE  /\ GetsOf(m)' = GetsOf(m) /\ C!UserOf(m)' = C!UserOf(m)
             /\ Open(m)' = Open(m) /\ FeedDeleted(m)' = FeedDeleted(m) /\ Clean(m)' = Clean(m)
             /\ Stale(m)' = Stale(m)
  BY <1>1 DEF GetsOf, R!Running, R!UserOf, C!UserOf, Open, FeedDeleted, Clean, Stale,
     C!Invalidating, C!Running
<1>5. ASSUME NEW m \in Messages
      PROVE  RowInv(m)'
  BY <1>1, <1>4 DEF CoherenceInv, RowInv, OneMeets, StaleIsPutLate, ClosedIsSafe
<1>6. \A c \in Calls, m \in Messages : DueInv(c, m)'
  BY <1>1, <1>4 DEF CoherenceInv, DueInv
<1>. QED
  BY <1>2, <1>3, <1>5, <1>6 DEF CoherenceInv

LEMMA BeginKeepsInv ==
    ASSUME CoherenceInv, NEW c \in Calls, NEW u \in Users, Begin(c, u)
    PROVE  CoherenceInv'
<1>. DEFINE own  == {m \in rows : C!UserOf(m) = u}
            open == {m \in own : Open(m)}
            y    == [user |-> u, step |-> "last_seen", started |-> now, prev |-> None,
                     feed |-> None, ttl |-> 0, list |-> "popular", anchor |-> None, from |-> None]
<1>1. /\ c \notin R!Running /\ call' = [call EXCEPT ![c] = y]
      /\ UNCHANGED <<replica, body, redis, rows, task, interrupted>>
      /\ meets' = [meets EXCEPT ![c] = open] /\ met' = met \cup open
      /\ spoiled' = spoiled \cup (open \cap met) \cup UNION {meets[d] \cap own : d \in Calls}
      /\ due' = [due EXCEPT ![c] = own \ (open \cup interrupted \cup spoiled')]
  BY DEF Begin, R!Start, R!world, workerOnly
<1>2. ShapeInv /\ ShapeInv' /\ y # None /\ y.user = u /\ y.step = "last_seen"
  <2>1. y \in R!Call
    BY Names DEF R!Call, R!Steps, R!Side, CoherenceInv, ShapeInv, TypeOK, R!TypeOK
  <2>. QED
    BY <2>1, BeginKeepsShape, CoherenceAssumption DEF CoherenceInv
<1>. HIDE DEF y
<1>3. /\ call \in [Calls -> R!Call \cup {None}] /\ replica \subseteq rows
      /\ meets \in [Calls -> SUBSET rows] /\ due \in [Calls -> SUBSET rows]
  BY <1>2 DEF ShapeInv, TypeOK, R!TypeOK
<1>4. call'[c] = y /\ call[c] = None /\ \A d \in Calls \ {c} : call'[d] = call[d]
  BY <1>1, <1>3 DEF R!Running
<1>5. ASSUME NEW m \in Messages
      PROVE  /\ C!UserOf(m)' = C!UserOf(m) /\ Open(m)' = Open(m)
             /\ FeedDeleted(m)' = FeedDeleted(m) /\ Stale(m)' = Stale(m)
             /\ Clean(m)' => Clean(m)
             /\ FeedDeleted(m) => Open(m)
  BY <1>1 DEF C!UserOf, Open, FeedDeleted, Stale, Clean, C!Invalidating, C!Running
<1>6. ASSUME NEW m \in Messages
      PROVE  /\ C!UserOf(m) = u => GetsOf(m)' = GetsOf(m) \cup {c}
             /\ C!UserOf(m) # u => GetsOf(m)' = GetsOf(m)
             /\ c \notin GetsOf(m) /\ GetsOf(m) \subseteq Calls
  BY <1>1, <1>2, <1>4, <1>5 DEF GetsOf, R!Running, R!UserOf
<1>7. WindowInv'
  BY <1>1 DEF CoherenceInv, WindowInv, C!Invalidating, C!Running
<1>8. ASSUME NEW m \in Messages, Clean(m)'
      PROVE  (OneMeets(m) /\ StaleIsPutLate(m) /\ ClosedIsSafe(m))'
  <2>1. Clean(m) /\ OneMeets(m) /\ StaleIsPutLate(m) /\ ClosedIsSafe(m) /\ m \in rows
    BY <1>5, <1>8 DEF CoherenceInv, RowInv, Clean
  <2>2. \A d \in Calls \ {c} : meets'[d] = meets[d] /\ call'[d] = call[d]
    BY <1>1, <1>3, <1>4
  <2>3. CASE C!UserOf(m) # u
    <3>1. m \notin meets'[c] /\ m \notin meets[c]
      BY <1>1, <1>3, <1>6, <2>1, <2>3 DEF OneMeets
    <3>2. OneMeets(m)'
      BY <1>1, <1>5, <1>6, <2>1, <2>2, <2>3, <3>1 DEF OneMeets
    <3>3. StaleIsPutLate(m)'
      BY <1>1, <1>5, <1>6, <2>1, <2>2, <2>3, <3>1 DEF StaleIsPutLate
    <3>4. ClosedIsSafe(m)'
      BY <1>1, <1>5, <1>6, <2>1, <2>2, <2>3, <3>1 DEF ClosedIsSafe
    <3>. QED
      BY <3>2, <3>3, <3>4
  <2>4. CASE C!UserOf(m) = u
    <3>1. \A d \in Calls : m \notin meets[d]
      BY <1>1, <1>8, <2>1, <2>4 DEF Clean
    <3>2. m \in meets'[c] <=> Open(m)
      BY <1>1, <1>3, <2>1, <2>4
    <3>3. CASE Open(m)
      <4>1. m \notin met /\ m \in met'
        BY <1>1, <1>8, <2>1, <2>4, <3>3 DEF Clean
      <4>2. GetsOf(m) = {}
        BY <1>6, <2>1, <3>1, <3>3 DEF OneMeets
      <4>3. GetsOf(m)' = {c}
        BY <1>6, <2>4, <4>2
      <4>4. OneMeets(m)'
        BY <2>2, <3>1, <3>2, <3>3, <4>1, <4>3 DEF OneMeets
      <4>5. StaleIsPutLate(m)'
        BY <1>5, <2>1, <3>3, <4>1 DEF StaleIsPutLate
      <4>. QED
        BY <1>5, <3>3, <4>4, <4>5 DEF ClosedIsSafe
    <3>4. CASE ~Open(m)
      <4>1. \A d \in Calls : m \notin meets'[d]
        BY <2>2, <3>1, <3>2, <3>4
      <4>2. OneMeets(m)'
        BY <1>5, <3>4, <4>1 DEF OneMeets
      <4>3. StaleIsPutLate(m)'
        BY <1>2, <1>4, <1>5, <1>6, <2>1, <2>2, <2>4, <3>1, <3>4, <4>1 DEF StaleIsPutLate
      <4>4. ClosedIsSafe(m)'
        BY <1>1, <1>2, <1>4, <1>5, <1>6, <2>1, <2>2, <2>4, <3>1, <3>4, <4>1
           DEF ClosedIsSafe, Making
      <4>. QED
        BY <4>2, <4>3, <4>4
    <3>. QED
      BY <3>3, <3>4
  <2>. QED
    BY <2>3, <2>4
<1>9. ASSUME NEW d \in Calls, NEW m \in Messages, m \in due'[d]
      PROVE  /\ d \in GetsOf(m)' /\ Clean(m)' /\ ~Open(m)'
             /\ \A g \in Calls : m \notin meets'[g]
             /\ call'[d].step \in Hit => m \in call'[d].feed
  <2>1. CASE d = c
    <3>1. m \in own /\ ~Open(m) /\ Clean(m)'
      BY <1>1, <1>3, <1>9, <2>1 DEF Clean
    <3>2. \A g \in Calls : m \notin meets[g] \cap own
      BY <1>1, <3>1 DEF Clean
    <3>3. \A g \in Calls : m \notin meets'[g]
      BY <1>1, <1>3, <3>1, <3>2
    <3>. QED
      BY <1>2, <1>4, <1>5, <1>6, <2>1, <3>1, <3>3 DEF Hit
  <2>2. CASE d # c
    <3>1. m \in due[d]
      BY <1>1, <1>3, <1>9, <2>2
    <3>2. /\ d \in GetsOf(m) /\ Clean(m) /\ ~Open(m) /\ \A g \in Calls : m \notin meets[g]
          /\ call[d].step \in Hit => m \in call[d].feed
      BY <3>1 DEF CoherenceInv, DueInv
    <3>3. m \notin open
      BY <3>2
    <3>4. m \notin spoiled' /\ Clean(m)'
      BY <1>1, <3>2, <3>3 DEF Clean
    <3>5. \A g \in Calls : m \notin meets'[g]
      BY <1>1, <1>3, <3>2, <3>3
    <3>. QED
      BY <1>4, <1>5, <1>6, <2>2, <3>2, <3>4, <3>5
  <2>. QED
    BY <2>1, <2>2
<1>. QED
  BY <1>2, <1>7, <1>8, <1>9 DEF CoherenceInv, RowInv, DueInv

\* What a step of the GET c means for a row m of its user that is clean.
LEMMA ProceedKeepsRow ==
    ASSUME ShapeInv, NEW c \in Calls, NEW x \in R!Call, NEW m \in Messages,
           GetStep(c, call[c], x), UNCHANGED <<workerOnly, meets, met, spoiled>>,
           x # None, C!UserOf(m) = call[c].user,
           Clean(m), OneMeets(m), StaleIsPutLate(m), ClosedIsSafe(m)
    PROVE  (OneMeets(m) /\ StaleIsPutLate(m) /\ ClosedIsSafe(m))'
<1>. DEFINE p == call[c]
            u == p.user
<1>1. /\ call' = [call EXCEPT ![c] = x] /\ UNCHANGED <<body, replica>>
      /\ \/ redis'[u]["visit_last"] = redis[u]["visit_last"]
         \/ p.step = "mark"
      /\ \/ redis'[u]["feed"] \in {redis[u]["feed"], None}
         \/ redis[u]["feed"] # None /\ redis'[u]["feed"].val = redis[u]["feed"].val
         \/ p.step = "put_feed" /\ x.step = "done" /\ redis'[u]["feed"].val = p.feed
      /\ x.user = u /\ Moves(p, x)
  BY DEF GetStep
<1>2. /\ call \in [Calls -> R!Call \cup {None}] /\ m \in rows
      /\ call[c] # None /\ call'[c] = x /\ \A d \in Calls \ {c} : call'[d] = call[d]
  BY <1>1 DEF ShapeInv, TypeOK, R!TypeOK, GetStep, R!Running, Clean
<1>3. /\ C!UserOf(m)' = C!UserOf(m) /\ C!UserOf(m) = u
      /\ Open(m)' = Open(m) /\ FeedDeleted(m)' = FeedDeleted(m) /\ (FeedDeleted(m) => Open(m))
      /\ GetsOf(m)' = GetsOf(m) /\ c \in GetsOf(m) /\ GetsOf(m) \subseteq Calls
  BY <1>1, <1>2 DEF C!UserOf, Open, FeedDeleted, C!Invalidating, C!Running, GetsOf, R!Running,
     R!UserOf, workerOnly
\* A feed that becomes stale is the one that c puts.
<1>4. Stale(m)' => \/ Stale(m) /\ redis'[u]["feed"] # None
                   \/ p.step = "put_feed" /\ x.step = "done" /\ m \notin p.feed
  BY <1>1, <1>3 DEF Stale
<1>5. /\ p.step \in Early => x.step \in Early \cup {"get_feed"}
      /\ p.step \notin Early => x.step \notin Early
      /\ p.step = "last_seen" /\ redis[u]["visit_last"] = None => x.step = "drop"
      /\ p.step = "drop" => redis'[u]["feed"] = None
      /\ x.step \in Making => \/ m \in replica => m \in x.feed
                              \/ p.step \in Making /\ x.feed = p.feed
  BY <1>1, <1>2, <1>3 DEF Moves, Early, Making, Hit
<1>6. OneMeets(m)'
  BY <1>3 DEF OneMeets
\* Unless the window is open, the GET that knows less met it.
<1>7. ~Open(m) /\ p.step \in Making /\ m \notin p.feed =>
          m \in meets[c] /\ redis[u]["visit_last"] = None
  BY <1>3 DEF ClosedIsSafe
<1>8. StaleIsPutLate(m)'
  <2>1. FeedDeleted(m) /\ Stale(m)' => m \in met
    BY <1>3, <1>4 DEF StaleIsPutLate, OneMeets
  <2>2. ASSUME FeedDeleted(m) \/ ~Open(m), Stale(m)', NEW d \in GetsOf(m)
        PROVE  IF m \in meets[d] THEN call'[d].step \notin Early
                                 ELSE call'[d].step \in {"last_seen", "drop"}
    <3>1. CASE Stale(m) /\ redis'[u]["feed"] # None
      <4>1. IF m \in meets[d] THEN call[d].step \notin Early
                              ELSE call[d].step \in {"last_seen", "drop"}
        BY <2>2, <3>1 DEF StaleIsPutLate
      <4>2. d # c => call'[d] = call[d]
        BY <1>2, <1>3
      <4>3. d = c /\ m \notin meets[d] => ~Open(m) /\ redis[u]["visit_last"] = None
        BY <1>3, <2>2, <3>1 DEF OneMeets, ClosedIsSafe
      <4>. QED
        BY <1>2, <1>5, <3>1, <4>1, <4>2, <4>3 DEF Early
    <3>2. CASE p.step = "put_feed" /\ x.step = "done" /\ m \notin p.feed
      <4>1. m \in meets[c]
        BY <1>3, <1>7, <3>2 DEF OneMeets, Making
      <4>2. d = c
        BY <1>3, <4>1 DEF OneMeets
      <4>. QED
        BY <1>2, <3>2, <4>1, <4>2 DEF Early
    <3>. QED
      BY <1>4, <2>2, <3>1, <3>2
  <2>. QED
    BY <1>3, <2>1, <2>2 DEF StaleIsPutLate
<1>9. ClosedIsSafe(m)'
  <2>. SUFFICES ASSUME ~Open(m)
                PROVE  /\ m \in replica
                       /\ Stale(m)' => redis'[u]["visit_last"] = None
                       /\ \A d \in GetsOf(m) : call'[d].step \in Making /\ m \notin call'[d].feed =>
                              m \in meets[d] /\ redis'[u]["visit_last"] = None
    BY <1>1, <1>3 DEF ClosedIsSafe
  <2>1. m \in replica
    BY DEF ClosedIsSafe
  <2>2. ASSUME Stale(m)'
        PROVE  redis'[u]["visit_last"] = None
    <3>1. CASE Stale(m)
      <4>1. redis[u]["visit_last"] = None
        BY <1>3, <3>1 DEF ClosedIsSafe
      <4>2. p.step # "mark"
        BY <1>3, <3>1 DEF StaleIsPutLate, Early
      <4>. QED
        BY <1>1, <4>1, <4>2
    <3>2. CASE p.step = "put_feed" /\ m \notin p.feed
      BY <1>1, <1>7, <3>2 DEF Making
    <3>. QED
      BY <1>4, <2>2, <3>1, <3>2
  <2>3. ASSUME NEW d \in GetsOf(m), call'[d].step \in Making, m \notin call'[d].feed
        PROVE  m \in meets[d] /\ redis'[u]["visit_last"] = None
    <3>1. CASE d = c
      <4>1. p.step \in Making /\ m \notin p.feed
        BY <1>2, <1>5, <2>1, <2>3, <3>1
      <4>. QED
        BY <1>1, <1>7, <3>1, <4>1 DEF Making
    <3>2. CASE d # c
      <4>1. m \in meets[d]
        BY <1>2, <1>3, <2>3, <3>2 DEF ClosedIsSafe
      <4>. QED
        BY <1>3, <3>2, <4>1 DEF OneMeets
    <3>. QED
      BY <3>1, <3>2
  <2>. QED
    BY <2>1, <2>2, <2>3
<1>. QED
  BY <1>6, <1>8, <1>9

LEMMA ProceedKeepsInv ==
    ASSUME CoherenceInv, NEW c \in Calls, Proceed(c)
    PROVE  CoherenceInv'
<1>. DEFINE p == call[c]
            x == call'[c]
            u == p.user
<1>1. /\ ShapeInv /\ ShapeInv' /\ GetStep(c, p, x)
      /\ UNCHANGED <<workerOnly, met, spoiled>>
      /\ meets' = IF x = None THEN [meets EXCEPT ![c] = {}] ELSE meets
      /\ due' = IF x = None THEN [due EXCEPT ![c] = {}] ELSE due
  BY ProceedKeepsShape DEF CoherenceInv, Proceed
<1>2. /\ call \in [Calls -> R!Call \cup {None}] /\ p # None /\ u \in Users
      /\ UNCHANGED <<body, replica>>
      /\ meets \in [Calls -> SUBSET rows] /\ due \in [Calls -> SUBSET rows]
      /\ \A d \in Calls \ {c} : call'[d] = call[d]
  BY <1>1, RunningGet DEF GetStep, ShapeInv, TypeOK, R!TypeOK, R!Running
<1>3. ASSUME NEW m \in Messages
      PROVE  /\ C!UserOf(m)' = C!UserOf(m) /\ C!UserOf(m) \in Users
             /\ Open(m)' = Open(m) /\ FeedDeleted(m)' = FeedDeleted(m) /\ Clean(m)' = Clean(m)
             /\ GetsOf(m) \subseteq Calls
  BY <1>1, <1>2, RowUser DEF C!UserOf, Open, FeedDeleted, C!Invalidating, C!Running, GetsOf,
     R!Running, Clean, workerOnly
<1>4. WindowInv'
  BY <1>1 DEF CoherenceInv, WindowInv, C!Invalidating, C!Running, workerOnly
<1>5. CASE x = None
  <2>1. UNCHANGED redis /\ meets' = [meets EXCEPT ![c] = {}] /\ due' = [due EXCEPT ![c] = {}]
    BY <1>1, <1>5 DEF GetStep
  <2>2. ASSUME NEW m \in Messages
        PROVE  GetsOf(m)' = GetsOf(m) \ {c} /\ Stale(m)' = Stale(m)
    BY <1>2, <1>3, <1>5, <2>1 DEF GetsOf, R!Running, R!UserOf, Stale
  <2>3. \A d \in Calls : meets'[d] \subseteq meets[d] /\ (d # c => meets'[d] = meets[d])
    BY <1>2, <2>1
  <2>4. ASSUME NEW m \in Messages, Clean(m)
        PROVE  (OneMeets(m) /\ StaleIsPutLate(m) /\ ClosedIsSafe(m))'
    <3>1. OneMeets(m) /\ StaleIsPutLate(m) /\ ClosedIsSafe(m)
      BY <2>4 DEF CoherenceInv, RowInv
    <3>2. m \notin meets'[c]
      BY <1>2, <2>1
    <3>3. OneMeets(m)'
      BY <1>1, <1>3, <2>2, <2>3, <3>1, <3>2 DEF OneMeets
    <3>4. StaleIsPutLate(m)'
      BY <1>1, <1>2, <1>3, <2>2, <2>3, <3>1 DEF StaleIsPutLate
    <3>5. ClosedIsSafe(m)'
      BY <1>1, <1>2, <1>3, <2>1, <2>2, <2>3, <3>1 DEF ClosedIsSafe
    <3>. QED
      BY <3>3, <3>4, <3>5
  <2>5. ASSUME NEW d \in Calls, NEW m \in Messages, m \in due'[d]
        PROVE  /\ d \in GetsOf(m)' /\ Clean(m) /\ ~Open(m)
               /\ \A g \in Calls : m \notin meets'[g]
               /\ call'[d].step \in Hit => m \in call'[d].feed
    <3>1. d # c /\ m \in due[d]
      BY <1>2, <2>1, <2>5
    <3>. QED
      BY <1>2, <2>2, <2>3, <3>1 DEF CoherenceInv, DueInv
  <2>. QED
    BY <1>1, <1>3, <1>4, <2>4, <2>5 DEF CoherenceInv, RowInv, DueInv
<1>6. CASE x # None
  <2>1. /\ UNCHANGED <<meets, due>> /\ x \in R!Call /\ x.user = u /\ Moves(p, x)
        /\ \A v \in Users, k \in R!UserKeys : v # u => redis'[v][k] = redis[v][k]
    BY <1>1, <1>6 DEF GetStep
  <2>2. ASSUME NEW m \in Messages
        PROVE  GetsOf(m)' = GetsOf(m) /\ (c \in GetsOf(m) <=> C!UserOf(m) = u)
    BY <1>2, <1>3, <1>6, <2>1 DEF GetsOf, R!Running, R!UserOf
  <2>3. ASSUME NEW m \in Messages, Clean(m)
        PROVE  (OneMeets(m) /\ StaleIsPutLate(m) /\ ClosedIsSafe(m))'
    <3>1. OneMeets(m) /\ StaleIsPutLate(m) /\ ClosedIsSafe(m)
      BY <2>3 DEF CoherenceInv, RowInv
    <3>2. CASE C!UserOf(m) = u
      BY <1>1, <1>6, <2>1, <2>3, <3>1, <3>2, ProceedKeepsRow
    <3>3. CASE C!UserOf(m) # u
      <4>1. /\ redis'[C!UserOf(m)]["feed"] = redis[C!UserOf(m)]["feed"]
            /\ redis'[C!UserOf(m)]["visit_last"] = redis[C!UserOf(m)]["visit_last"]
        BY <1>3, <2>1, <3>3, Names
      <4>2. Stale(m)' = Stale(m) /\ \A d \in GetsOf(m) : call'[d] = call[d]
        BY <1>2, <1>3, <2>2, <3>3, <4>1 DEF Stale
      <4>3. OneMeets(m)'
        BY <1>1, <1>3, <2>1, <2>2, <3>1 DEF OneMeets
      <4>4. StaleIsPutLate(m)'
        BY <1>1, <1>3, <2>1, <2>2, <3>1, <4>2 DEF StaleIsPutLate
      <4>5. ClosedIsSafe(m)'
        BY <1>2, <1>3, <2>1, <2>2, <3>1, <4>1, <4>2 DEF ClosedIsSafe
      <4>. QED
        BY <4>3, <4>4, <4>5
    <3>. QED
      BY <3>2, <3>3
  <2>4. ASSUME NEW d \in Calls, NEW m \in Messages, m \in due[d]
        PROVE  /\ d \in GetsOf(m) /\ Clean(m) /\ ~Open(m)
               /\ \A g \in Calls : m \notin meets[g]
               /\ call'[d].step \in Hit => m \in call'[d].feed
    <3>1. /\ d \in GetsOf(m) /\ Clean(m) /\ ~Open(m) /\ \A g \in Calls : m \notin meets[g]
          /\ call[d].step \in Hit => m \in call[d].feed
      BY <2>4 DEF CoherenceInv, DueInv
    <3>2. d # c => call'[d] = call[d]
      BY <1>2
    <3>3. ASSUME d = c, x.step \in Hit
          PROVE  m \in x.feed
      <4>1. C!UserOf(m) = u /\ StaleIsPutLate(m) /\ ClosedIsSafe(m) /\ c \in GetsOf(m)
        BY <2>2, <3>1, <3>3 DEF CoherenceInv, RowInv
      <4>2. p.step = "get_feed" => ~Stale(m)
        BY <3>1, <4>1 DEF StaleIsPutLate
      <4>3. p.step = "put_feed" => m \in p.feed
        BY <3>1, <4>1 DEF ClosedIsSafe, Making
      <4>. QED
        BY <2>1, <3>1, <3>3, <4>1, <4>2, <4>3 DEF Moves, Hit, Making, Stale
    <3>. QED
      BY <3>1, <3>2, <3>3
  <2>. QED
    BY <1>1, <1>3, <1>4, <2>1, <2>2, <2>3, <2>4 DEF CoherenceInv, RowInv, DueInv
<1>. QED
  BY <1>5, <1>6
----------------------------------------------------------------------------
LEMMA InitMeetsInv ==
    Init => CoherenceInv
<1>. SUFFICES ASSUME Init PROVE CoherenceInv
  OBVIOUS
<1>1. /\ now = 0 /\ redis = [u \in Users |-> [k \in R!UserKeys |-> None]]
      /\ shared = [k \in R!Shared |-> None] /\ call = [c \in Calls |-> None]
      /\ replica = {} /\ visited = [u \in Users |-> None]
      /\ body \in [Messages -> Payloads] /\ queue = Messages
      /\ task = [s \in Slots |-> None] /\ rows = {} /\ dropped = {} /\ interrupted = {}
      /\ meets = Nothing /\ met = {} /\ spoiled = {} /\ due = Nothing
  BY Names DEF Init, R!Init
<1>2. TypeOK /\ KeysShape
  BY <1>1, Names DEF TypeOK, R!TypeOK, KeysShape, KeyValues, Nothing
<1>3. R!Running = {} /\ \A s \in Slots : ~C!Invalidating(s)
  BY <1>1 DEF R!Running, C!Invalidating, C!Running
<1>4. \A m \in Messages : ~Clean(m) /\ \A c \in Calls : m \notin due[c]
  BY <1>1 DEF Clean, Nothing
<1>5. ShapeInv /\ WindowInv
  BY <1>1, <1>2, <1>3 DEF ShapeInv, WindowInv
<1>. QED
  BY <1>4, <1>5 DEF CoherenceInv, RowInv, DueInv

LEMMA StepKeepsInv ==
    CoherenceInv /\ [Next]_vars => CoherenceInv'
<1>. SUFFICES ASSUME CoherenceInv, [Next]_vars PROVE CoherenceInv'
  OBVIOUS
<1>1. CASE \E c \in Calls, u \in Users : Begin(c, u)
  BY <1>1, BeginKeepsInv
<1>2. CASE \E c \in Calls : Proceed(c)
  BY <1>2, ProceedKeepsInv
<1>3. CASE Work
  BY <1>3, WorkKeepsInv
<1>4. CASE \E u \in Users, k \in C!UserKeys : Expire(u, k)
  BY <1>4, ExpireKeepsInv
<1>5. CASE \E m \in Messages : Replicate(m)
  BY <1>5, ReplicateKeepsInv
<1>6. CASE UNCHANGED vars
  <2>1. /\ UNCHANGED <<now, shared, call, visited, queue, task, rows, dropped, interrupted>>
        /\ UNCHANGED <<redis, body, replica, meets, met, spoiled, due>>
    BY <1>6 DEF vars, getOnly, workerOnly, history
  <2>2. ShapeInv'
    BY <2>1, Names DEF CoherenceInv, ShapeInv, TypeOK, R!TypeOK, KeysShape, R!Running, CallShape
  <2>3. WindowInv'
    BY <2>1 DEF CoherenceInv, WindowInv, C!Invalidating, C!Running
  <2>4. \A m \in Messages : RowInv(m)' = RowInv(m) /\ \A c \in Calls : DueInv(c, m)' = DueInv(c, m)
    BY <2>1 DEF RowInv, DueInv, Clean, OneMeets, StaleIsPutLate, ClosedIsSafe, Stale, FeedDeleted,
       Open, GetsOf, R!Running, R!UserOf, C!UserOf, C!Invalidating, C!Running
  <2>. QED
    BY <2>2, <2>3, <2>4 DEF CoherenceInv
<1>. QED
  BY <1>1, <1>2, <1>3, <1>4, <1>5, <1>6 DEF Next

\* The cache, the GETs, the worker's coroutines, the rows and the replica have their
\* types, whoever steps between whom.
THEOREM TypeCorrect == Spec => []TypeOK
<1>1. CoherenceInv => TypeOK
  BY DEF CoherenceInv, ShapeInv
<1>. QED
  BY <1>1, InitMeetsInv, StepKeepsInv, PTL DEF Spec

\* A GET that starts after the invalidation for a row shows that row: for any number
\* of GETs, rows and coroutines, any expiry of the keys and any lag of the replica,
\* as long as the row is not one of those that the history variable spoiled names.
THEOREM UsersSeeTheirActions == Spec => []ShowsOwnActions
<1>1. CoherenceInv => ShowsOwnActions
  <2>. SUFFICES ASSUME CoherenceInv, NEW c \in R!Running, R!At(c, "done"), NEW m \in due[c]
                PROVE  m \in call[c].feed
    BY DEF ShowsOwnActions
  <2>1. c \in Calls /\ m \in Messages
    BY DEF R!Running, CoherenceInv, ShapeInv, TypeOK
  <2>. QED
    BY <2>1 DEF CoherenceInv, DueInv, R!At, Hit
<1>. QED
  BY <1>1, InitMeetsInv, StepKeepsInv, PTL DEF Spec
============================================================================
