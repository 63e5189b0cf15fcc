--------------------- MODULE RecommendationServiceProofs ---------------------
(***************************************************************************)
(* Theorems about RecommendationService, in both builds, for any number of *)
(* GETs, users, products and any TTLs.                                     *)
(*                                                                         *)
(* The keys carry what is needed to speak of age: a key is live, a side    *)
(* list was cached at most MaxCall after it was fetched, a last visit was  *)
(* really made.  A GET carries when it began and what it has seen.         *)
(***************************************************************************)
EXTENDS RecommendationService, TLAPS

\* A list of side k, fetched at e.val, is live and was put soon after.
Young(e, k) == e.expires <= e.val + SideTtl[k] + MaxCall

SideOf(k) == IF k = "popular" THEN "popular" ELSE "similar"

Entries == [val : History \cup Times, expires : Expiry] \cup {None}

KeysShape == redis \in [Users -> [UserKeys -> Entries]] /\ shared \in [Shared -> Entries]

UserKeyInv(u, k) ==
    redis[u][k] # None =>
        /\ redis[u][k].expires > now
        /\ k = "gpt_rank" => Young(redis[u][k], k)
        /\ k = "visit_last" => visited[u] # None /\ redis[u][k].val <= visited[u]

SharedInv ==
    \A k \in Shared : shared[k] # None =>
        shared[k].expires > now /\ Young(shared[k], SideOf(k))

VisitedInv == \A u \in Users : visited[u] # None => visited[u] <= now

StoreInv ==
    /\ KeysShape /\ SharedInv /\ VisitedInv
    /\ \A u \in Users, k \in UserKeys : UserKeyInv(u, k)

\* Steps before the visit is marked, and those that make a list.
Early  == {"last_seen", "drop", "mark"}
Making == {"side_get", "side_query", "side_put", "put_feed"}

\* What a GET x that is about to mark its visit knows: the visit it read is not
\* old, or the feed is gone, unless a GET that is not old put another.
MayMark(x) ==
    \/ /\ x.prev # None /\ visited[x.user] # None
       /\ x.prev <= visited[x.user] /\ x.started - x.prev < StaleAfter
    \/ redis[x.user].feed = None
    \/ visited[x.user] # None /\ visited[x.user] >= x.started - MaxCall

CallInv(x) ==
    /\ x.started <= now /\ now - x.started <= MaxCall
    /\ x.step \in Making => x.feed \in History
    /\ x.list = "similar" => x.anchor \in Anchors
    /\ x.step = "side_put" => x.from \in Times /\ x.started <= x.from /\ x.from <= now
    /\ x.step = "expire" => x.ttl > 0
    /\ x.step \in {"feed_ttl", "expire"} => WithRedis
    /\ x.step = "mark" => MayMark(x)
    /\ x.step \notin Early => visited[x.user] # None /\ visited[x.user] >= x.started

ServiceInv == TypeOK /\ StoreInv /\ \A c \in Running : CallInv(call[c])
----------------------------------------------------------------------------
\* The rules of ttl_policy: an extension is a length of time, and two readings of
\* the clock do no more than one reading of either time would do.
LEMMA ExtensionIsNat ==
    ASSUME NEW p, NEW t, NEW later
    PROVE  ExtendFeedTtlOnHit(ClassifyVisit(p, t, later)) \in Nat
  BY TtlAssumption DEF ExtendFeedTtlOnHit, ClassifyVisit

THEOREM TwoReadingsAreOne ==
    ASSUME NEW p \in Int \cup {None}, NEW t \in Int, NEW later \in Int, t <= later
    PROVE  ClassifyVisit(p, t, later) \in {ClassifyVisit(p, t, t), ClassifyVisit(p, later, later)}
<1>1. CASE ShouldInvalidateFeed(p, later)
  BY <1>1 DEF ClassifyVisit
<1>2. CASE ~ShouldInvalidateFeed(p, later)
  <2>1. ~ShouldInvalidateFeed(p, t)
    BY <1>2, TtlAssumption DEF ShouldInvalidateFeed
  <2>. QED
    BY <1>2, <2>1 DEF ClassifyVisit
<1>. QED
  BY <1>1, <1>2
----------------------------------------------------------------------------
LEMMA RunningCall ==
    ASSUME TypeOK, NEW c \in Running
    PROVE  /\ c \in Calls /\ call[c] \in Call
           /\ UserOf(c) \in Users /\ call[c].user = UserOf(c)
  BY DEF TypeOK, Running, UserOf, Call

\* A step of c that changes no key of a user keeps the invariant if it keeps that
\* of c, and caches no side list that is too old.
LEMMA LocalStepKeepsInv ==
    ASSUME ServiceInv, NEW c \in Calls, UNCHANGED <<world, redis, visited>>,
           \/ UNCHANGED shared
           \/ \E k \in Shared : \E e \in Entry(k) :
                 /\ shared' = [shared EXCEPT ![k] = e]
                 /\ e.expires > now /\ Young(e, SideOf(k)),
           NEW x \in Call \cup {None}, call' = [call EXCEPT ![c] = x],
           x = None \/ CallInv(x)
    PROVE  ServiceInv'
<1>1. /\ \A k \in Shared : shared'[k] \in Entry(k) \cup {None}
      /\ SharedInv' /\ shared' \in [Shared -> Entries]
  <2>1. CASE UNCHANGED shared
    BY <2>1 DEF ServiceInv, TypeOK, StoreInv, SharedInv, KeysShape, Young, world
  <2>2. CASE \E k \in Shared : \E e \in Entry(k) :
                 /\ shared' = [shared EXCEPT ![k] = e]
                 /\ e.expires > now /\ Young(e, SideOf(k))
    <3>0. PICK k \in Shared : \E e \in Entry(k) :
                 /\ shared' = [shared EXCEPT ![k] = e]
                 /\ e.expires > now /\ Young(e, SideOf(k))
      BY <2>2
    <3>1. PICK e \in Entry(k) : /\ shared' = [shared EXCEPT ![k] = e]
                                /\ e.expires > now /\ Young(e, SideOf(k))
      BY <3>0
    <3>2. shared \in [Shared -> Entries] /\ e \in Entries
      BY DEF ServiceInv, StoreInv, KeysShape, Entries, Entry
    <3>. QED
      BY <3>1, <3>2 DEF ServiceInv, TypeOK, StoreInv, SharedInv, Young, world
  <2>. QED
    BY <2>1, <2>2
<1>2. TypeOK'
  BY <1>1 DEF ServiceInv, TypeOK, world
<1>3. StoreInv'
  BY <1>1 DEF ServiceInv, StoreInv, KeysShape, UserKeyInv, VisitedInv, Young, world
<1>4. ASSUME NEW d \in Running'
      PROVE  CallInv(call[d])'
  <2>1. d \in Calls /\ call'[d] = IF d = c THEN x ELSE call[d]
    BY DEF ServiceInv, TypeOK, Running
  <2>2. CallInv(call'[d])
    BY <1>4, <2>1 DEF ServiceInv, Running
  <2>. QED
    BY <2>2 DEF CallInv, MayMark, world
<1>. QED
  BY <1>2, <1>3, <1>4 DEF ServiceInv

\* On from one side list to the next.
LEMMA NextListKeepsInv ==
    ASSUME TypeOK, NEW c \in Calls, NEW x \in Call, CallInv(x),
           x.step \in Making, NextList(c, x)
    PROVE  /\ call' = [call EXCEPT ![c] = call'[c]]
           /\ call'[c] \in Call /\ CallInv(call'[c])
           /\ call'[c].user = x.user /\ call'[c].step \in {"side_get", "put_feed"}
<1>1. PICK l \in Side, s \in {"side_get", "put_feed"}, a \in Anchors \cup {x.anchor} :
         /\ call' = [call EXCEPT ![c] = [x EXCEPT !.list = l, !.step = s, !.anchor = a]]
         /\ l = "similar" => a \in Anchors
  <2>1. CASE x.list = "popular"
    BY <2>1 DEF NextList, Call, Side
  <2>2. CASE x.list # "popular"
    <3>1. CASE \E a \in Anchors : call' = [call EXCEPT ![c] =
                   [x EXCEPT !.list = "similar", !.step = "side_get", !.anchor = a]]
      BY <3>1 DEF Side
    <3>2. CASE call' = [call EXCEPT ![c] = [x EXCEPT !.step = "put_feed"]]
      <4>1. [x EXCEPT !.step = "put_feed"] =
            [x EXCEPT !.list = x.list, !.step = "put_feed", !.anchor = x.anchor]
        BY DEF Call
      <4>. QED
        BY <3>2, <4>1 DEF Call, CallInv
    <3>. QED
      BY <2>2, <3>1, <3>2 DEF NextList
  <2>. QED
    BY <2>1, <2>2
<1>. DEFINE y == [x EXCEPT !.list = l, !.step = s, !.anchor = a]
<1>2. call' = [call EXCEPT ![c] = y] /\ call'[c] = y
  BY <1>1 DEF TypeOK
<1>3. y \in Call /\ y.user = x.user /\ y.step = s
  BY DEF Call, Steps
<1>4. CallInv(y)
  BY <1>1 DEF CallInv, Call, Making, Early
<1>. QED
  BY <1>2, <1>3, <1>4

LEMMA LocalStepsKeepInv ==
    ASSUME ServiceInv, NEW c \in Calls,
           \/ LastSeen(c) \/ GetFeed(c) \/ CheckTtl(c) \/ FetchHistory(c)
           \/ SideHit(c) \/ SideMiss(c) \/ SideQuery(c) \/ Answer(c) \/ Fail(c)
    PROVE  ServiceInv'
<1>. DEFINE x == call'[c]
<1>1. c \in Running /\ CallInv(call[c]) /\ call[c] \in Call /\ call \in [Calls -> Call \cup {None}]
  BY RunningCall DEF LastSeen, GetFeed, CheckTtl, FetchHistory, SideHit, SideMiss, SideQuery,
     Answer, Fail, At, ServiceInv, TypeOK
<1>2. UNCHANGED <<world, redis, shared, visited>>
  BY DEF LastSeen, GetFeed, CheckTtl, FetchHistory, SideHit, SideMiss, SideQuery, Answer, Fail
<1>3. SUFFICES call' = [call EXCEPT ![c] = x] /\ x \in Call \cup {None} /\ (x = None \/ CallInv(x))
  BY <1>2, LocalStepKeepsInv
<1>. USE DEF At, Goto, Call, Steps
<1>4. CASE LastSeen(c)
  <2>. DEFINE e    == redis[call[c].user].visit_last
              seen == IF e = None THEN None ELSE e.val
              next == IF ShouldInvalidateFeed(seen, now) THEN "drop" ELSE "mark"
  <2>1. x = [call[c] EXCEPT !.prev = seen, !.step = next]
        /\ call' = [call EXCEPT ![c] = x] /\ call[c].step = "last_seen"
    BY <1>1, <1>4 DEF LastSeen, Get, UserOf
  <2>2. /\ seen \in Times \cup {None} /\ call[c].user \in Users
        /\ seen # None => visited[call[c].user] # None /\ seen <= visited[call[c].user]
    BY <1>1 DEF ServiceInv, TypeOK, StoreInv, UserKeyInv, UserKeys, Entry
  <2>3. x \in Call
    BY <1>1, <2>1, <2>2
  <2>4. next = "mark" => seen # None /\ now - seen < StaleAfter
    BY <2>2, TtlAssumption, RecommendationAssumption
    DEF ShouldInvalidateFeed, Times, ServiceInv, TypeOK
  <2>5. CallInv(x)
    BY <1>1, <2>1, <2>2, <2>4, TtlAssumption, RecommendationAssumption
    DEF CallInv, MayMark, Making, Early, Times, ServiceInv, TypeOK
  <2>. QED
    BY <2>1, <2>3, <2>5
<1>5. CASE GetFeed(c)
  BY <1>1, <1>5 DEF GetFeed, Get, ServiceInv, TypeOK, CallInv, UserOf, UserKeys, Entry, Making, Early
<1>6. CASE CheckTtl(c)
  BY <1>1, <1>6 DEF CheckTtl, CallInv, Making, Early
<1>7. CASE FetchHistory(c)
  BY <1>1, <1>7 DEF FetchHistory, CallInv, Making, Early, History, ServiceInv, TypeOK
<1>8. CASE SideHit(c)
  <2>1. call[c].step \in Making /\ NextList(c, call[c]) /\ TypeOK
    BY <1>1, <1>8 DEF SideHit, Making, ServiceInv
  <2>. QED
    BY <1>1, <2>1, NextListKeepsInv
<1>9. CASE SideMiss(c)
  BY <1>1, <1>9 DEF SideMiss, CallInv, Making, Early
<1>10. CASE SideQuery(c)
  BY <1>1, <1>10 DEF SideQuery, CallInv, Making, Early, ServiceInv, TypeOK, Times
<1>11. CASE Answer(c) \/ Fail(c)
  BY <1>1, <1>11 DEF Answer, Fail
<1>. QED
  BY <1>4, <1>5, <1>6, <1>7, <1>8, <1>9, <1>10, <1>11

\* A step of c that sets a key of its user keeps the invariant if what it sets, and
\* what it then knows, is right.
LEMMA PutStepKeepsInv ==
    ASSUME ServiceInv, NEW c \in Running, NEW x \in Call, NEW k \in UserKeys,
           NEW e \in Entry(k) \cup {None},
           UNCHANGED <<world, shared>>,
           call' = [call EXCEPT ![c] = x], x.user = UserOf(c),
           redis' = [redis EXCEPT ![UserOf(c)][k] = e],
           \/ UNCHANGED visited
           \/ visited' = [visited EXCEPT ![UserOf(c)] = now],
           e # None => /\ e.expires > now
                       /\ k = "gpt_rank" => Young(e, k)
                       /\ k = "visit_last" => visited'[UserOf(c)] = now /\ e.val = now,
           k = "feed" /\ e # None /\ redis[UserOf(c)].feed = None
              => visited[UserOf(c)] # None /\ visited[UserOf(c)] >= now - MaxCall,
           CallInv(x)'
    PROVE  ServiceInv'
<1>. DEFINE u == UserOf(c)
<1>. USE TtlAssumption, RecommendationAssumption
<1>1. c \in Calls /\ u \in Users /\ now \in Times /\ now \in Int /\ now' = now /\ rows' = rows
  BY RunningCall DEF ServiceInv, TypeOK, world, Times
<1>2. \A v \in Users, j \in UserKeys :
         redis'[v][j] = IF v = u /\ j = k THEN e ELSE redis[v][j]
  BY <1>1 DEF ServiceInv, StoreInv, KeysShape
<1>3. \A v \in Users : /\ visited[v] \in Int \cup {None}
                       /\ visited'[v] = visited[v] \/ visited'[v] = now
                       /\ visited[v] # None => /\ visited'[v] # None
                                               /\ visited[v] <= visited'[v] /\ visited'[v] <= now
                       /\ v # u => visited'[v] = visited[v]
  BY <1>1 DEF ServiceInv, TypeOK, StoreInv, VisitedInv, Times
<1>4. TypeOK'
  <2>1. visited' \in [Users -> Times \cup {None}]
    BY <1>1 DEF ServiceInv, TypeOK
  <2>2. call' \in [Calls -> Call \cup {None}]
    BY <1>1 DEF ServiceInv, TypeOK
  <2>3. \A v \in Users, j \in UserKeys : redis'[v][j] \in Entry(j) \cup {None}
    BY <1>2 DEF ServiceInv, TypeOK
  <2>. QED
    BY <1>1, <2>1, <2>2, <2>3 DEF ServiceInv, TypeOK
<1>5. StoreInv'
  <2>1. KeysShape'
    <3>1. e \in Entries
      BY DEF Entries, Entry
    <3>2. redis' \in [Users -> [UserKeys -> Entries]]
      BY <1>1, <3>1 DEF ServiceInv, StoreInv, KeysShape
    <3>. QED
      BY <3>2 DEF ServiceInv, StoreInv, KeysShape
  <2>2. ASSUME NEW v \in Users, NEW j \in UserKeys
        PROVE  UserKeyInv(v, j)'
    <3>1. CASE v = u /\ j = k
      BY <1>1, <1>2, <3>1 DEF UserKeyInv, Young
    <3>2. CASE ~(v = u /\ j = k)
      <4>1. redis'[v][j] = redis[v][j] /\ UserKeyInv(v, j)
        BY <1>2, <3>2 DEF ServiceInv, StoreInv
      <4>2. redis[v][j] # None /\ j = "visit_last" => redis[v][j].val \in Times
        BY DEF ServiceInv, TypeOK, Entry
      <4>. QED
        BY <1>1, <1>3, <4>1, <4>2 DEF UserKeyInv, Young, Times
    <3>. QED
      BY <3>1, <3>2
  <2>3. SharedInv' /\ VisitedInv'
    BY <1>1, <1>3 DEF ServiceInv, StoreInv, SharedInv, VisitedInv, Young
  <2>. QED
    BY <2>1, <2>2, <2>3 DEF StoreInv
<1>6. ASSUME NEW d \in Running'
      PROVE  CallInv(call[d])'
  <2>1. CASE d = c
    BY <1>1, <2>1 DEF ServiceInv, TypeOK
  <2>2. CASE d # c
    <3>1. d \in Running /\ call'[d] = call[d] /\ d \in Calls
      BY <1>1, <2>2, <1>6 DEF ServiceInv, TypeOK, Running
    <3>2. CallInv(call[d]) /\ call[d] \in Call /\ call[d].user \in Users
      BY <3>1, RunningCall DEF ServiceInv
    <3>3. call[d].started \in Int /\ call[d].prev \in Int \cup {None}
      BY <3>2 DEF Call, Times
    <3>4. call[d].step = "mark" => MayMark(call[d])'
      <4>1. SUFFICES ASSUME call[d].step = "mark"
                     PROVE  MayMark(call[d])'
        OBVIOUS
      <4>2. MayMark(call[d])
        BY <3>2, <4>1 DEF CallInv
      <4>3. redis'[call[d].user].feed = None
            \/ (visited[call[d].user] # None /\ visited[call[d].user] >= now - MaxCall)
            \/ redis[call[d].user].feed # None
        BY <1>2, <3>2 DEF UserKeys
      <4>4. call[d].started <= now
        BY <3>2 DEF CallInv
      <4>. QED
        BY <1>1, <1>3, <3>1, <3>2, <3>3, <4>2, <4>3, <4>4 DEF MayMark
    <3>. QED
      BY <1>1, <1>3, <3>1, <3>2, <3>3, <3>4 DEF CallInv
  <2>. QED
    BY <2>1, <2>2
<1>. QED
  BY <1>4, <1>5, <1>6 DEF ServiceInv

LEMMA KeyStepsKeepInv ==
    ASSUME ServiceInv, NEW c \in Calls,
           \/ DropFeed(c) \/ MarkSeen(c) \/ TouchFeed(c) \/ ExpireFeed(c) \/ SidePut(c) \/ PutFeed(c)
    PROVE  ServiceInv'
<1>. DEFINE u == UserOf(c)
<1>. PICK x : x = call'[c]
  OBVIOUS
<1>1. /\ c \in Running /\ CallInv(call[c]) /\ call[c] \in Call /\ u \in Users
      /\ call[c].user = u /\ call \in [Calls -> Call \cup {None}]
  BY RunningCall DEF DropFeed, MarkSeen, TouchFeed, ExpireFeed, SidePut, PutFeed, At,
     ServiceInv, TypeOK
<1>2. /\ now \in Times /\ now \in Nat /\ None \notin Int
      /\ \A k \in UserKeys : redis[u][k] \in Entry(k) \cup {None} /\ UserKeyInv(u, k)
      /\ visited[u] \in Times \cup {None} /\ (visited[u] # None => visited[u] <= now)
      /\ visited \in [Users -> Times \cup {None}]
  BY <1>1, TtlAssumption, RecommendationAssumption
  DEF ServiceInv, TypeOK, StoreInv, VisitedInv, Times
<1>3. /\ FeedTtl \in Nat \ {0} /\ VisitTtl \in Nat \ {0} /\ MaxCall \in Nat
      /\ \A k \in Side : SideTtl[k] \in Nat \ {0}
  BY RecommendationAssumption
<1>4. CASE DropFeed(c)
  <2>1. /\ x = [call[c] EXCEPT !.step = "mark"] /\ call' = [call EXCEPT ![c] = x]
        /\ redis' = [redis EXCEPT ![u]["feed"] = None]
        /\ UNCHANGED <<world, shared, visited>>
    BY <1>1, <1>4 DEF DropFeed, Put, Goto
  <2>2. x \in Call /\ x.user = u
    BY <1>1, <2>1 DEF Call, Steps
  <2>3. redis'[u].feed = None
    BY <1>1, <2>1 DEF ServiceInv, StoreInv, KeysShape, UserKeys
  <2>4. CallInv(x)'
    BY <1>1, <2>1, <2>2, <2>3 DEF CallInv, MayMark, Making, Early, world, Call
  <2>. QED
    BY <1>1, <2>1, <2>2, <2>4, PutStepKeepsInv DEF UserKeys
<1>5. CASE MarkSeen(c)
  <2>. DEFINE e == [val |-> now, expires |-> now + VisitTtl]
  <2>1. /\ x = [call[c] EXCEPT !.step = "get_feed"] /\ call' = [call EXCEPT ![c] = x]
        /\ redis' = [redis EXCEPT ![u]["visit_last"] = e]
        /\ visited' = [visited EXCEPT ![u] = now]
        /\ UNCHANGED <<world, shared>>
    BY <1>1, <1>5 DEF MarkSeen, Put, Live, Goto
  <2>2. x \in Call /\ x.user = u
    BY <1>1, <2>1 DEF Call, Steps
  <2>3. e \in Entry("visit_last") /\ e.expires > now /\ e.val = now
    BY <1>2, <1>3 DEF Entry, Expiry
  <2>4. visited'[u] = now /\ visited'[u] # None
    BY <1>1, <1>2, <2>1
  <2>5. CallInv(x)'
    BY <1>1, <2>1, <2>2, <2>4 DEF CallInv, Making, Early, world, Call
  <2>. QED
    BY <1>1, <2>1, <2>2, <2>3, <2>4, <2>5, PutStepKeepsInv DEF UserKeys
<1>6. CASE TouchFeed(c)
  <2>. DEFINE e == redis[u].feed
  <2>1. PICK by \in Nat : Extend(c, by)
    BY <1>6, ExtensionIsNat DEF TouchFeed
  <2>2. call[c].step = "touch"
    BY <1>6 DEF TouchFeed, At
  <2>3. e \in Entry("feed") \cup {None} /\ (e # None => e.expires > now /\ e.expires \in Nat)
    BY <1>2 DEF UserKeys, UserKeyInv, Entry, Expiry
  <2>4. CASE WithRedis /\ by # 0 /\ e # None
    <3>1. /\ x = [call[c] EXCEPT !.ttl = e.expires - now + by, !.step = "expire"]
          /\ call' = [call EXCEPT ![c] = x]
          /\ UNCHANGED <<world, redis, shared, visited>>
      BY <1>1, <2>1, <2>4 DEF Extend, Get
    <3>2. e.expires - now + by \in Nat \ {0}
      BY <1>2, <2>3, <2>4
    <3>3. x \in Call
      BY <1>1, <3>1, <3>2 DEF Call, Steps, Expiry
    <3>4. CallInv(x)
      BY <1>1, <2>2, <2>4, <3>1, <3>2 DEF Call, CallInv, Making, Early
    <3>. QED
      BY <1>1, <3>1, <3>3, <3>4, LocalStepKeepsInv
  <2>5. CASE by = 0 \/ e = None
    <3>1. /\ x = [call[c] EXCEPT !.step = "done"] /\ call' = [call EXCEPT ![c] = x]
          /\ UNCHANGED <<world, redis, shared, visited>>
      BY <1>1, <2>1, <2>5 DEF Extend, Get, Goto
    <3>2. x \in Call /\ CallInv(x)
      BY <1>1, <2>2, <3>1 DEF Call, Steps, CallInv, Making, Early
    <3>. QED
      BY <1>1, <3>1, <3>2, LocalStepKeepsInv
  <2>6. CASE ~WithRedis /\ by # 0 /\ e # None
    <3>. DEFINE f == [e EXCEPT !.expires = @ + by]
    <3>1. /\ x = [call[c] EXCEPT !.step = "done"] /\ call' = [call EXCEPT ![c] = x]
          /\ redis' = [redis EXCEPT ![u]["feed"] = f]
          /\ UNCHANGED <<world, shared, visited>>
      BY <1>1, <2>1, <2>6 DEF Extend, Get, Goto, Put
    <3>2. x \in Call /\ x.user = u
      BY <1>1, <3>1 DEF Call, Steps
    <3>3. f \in Entry("feed") /\ f.expires > now
      BY <1>2, <2>3, <2>6 DEF Entry, Expiry
    <3>4. CallInv(x)'
      BY <1>1, <2>2, <3>1, <3>2 DEF CallInv, Making, Early, world, Call
    <3>. QED
      BY <1>1, <2>6, <3>1, <3>2, <3>3, <3>4, PutStepKeepsInv DEF UserKeys
  <2>. QED
    BY <2>4, <2>5, <2>6
<1>7. CASE ExpireFeed(c)
  <2>. DEFINE e == redis[u].feed
              f == [val |-> e.val, expires |-> now + call[c].ttl]
  <2>1. /\ x = [call[c] EXCEPT !.step = "done"] /\ call' = [call EXCEPT ![c] = x]
        /\ UNCHANGED <<world, shared, visited>> /\ call[c].step = "expire"
    BY <1>1, <1>7 DEF ExpireFeed, Goto, At
  <2>2. x \in Call /\ x.user = u
    BY <1>1, <2>1 DEF Call, Steps
  <2>3. CASE e = None
    <3>1. UNCHANGED redis
      BY <1>7, <2>3 DEF ExpireFeed, Get
    <3>2. CallInv(x)
      BY <1>1, <2>1, <2>2 DEF Call, CallInv, Making, Early
    <3>. QED
      BY <1>1, <2>1, <2>2, <3>1, <3>2, LocalStepKeepsInv
  <2>4. CASE e # None
    <3>1. redis' = [redis EXCEPT ![u]["feed"] = f]
      BY <1>7, <2>4 DEF ExpireFeed, Get, Put, Live
    <3>2. f \in Entry("feed") /\ f.expires > now
      BY <1>1, <1>2, <2>1, <2>4 DEF Entry, Expiry, CallInv, Call, UserKeys
    <3>3. CallInv(x)'
      BY <1>1, <2>1, <2>2 DEF CallInv, Making, Early, world, Call
    <3>. QED
      BY <1>1, <2>1, <2>2, <2>4, <3>1, <3>2, <3>3, PutStepKeepsInv DEF UserKeys
  <2>. QED
    BY <2>3, <2>4
<1>8. CASE PutFeed(c)
  <2>. DEFINE f == [val |-> call[c].feed, expires |-> now + FeedTtl]
  <2>1. /\ x = [call[c] EXCEPT !.step = "done"] /\ call' = [call EXCEPT ![c] = x]
        /\ redis' = [redis EXCEPT ![u]["feed"] = f]
        /\ UNCHANGED <<world, shared, visited>> /\ call[c].step = "put_feed"
    BY <1>1, <1>8 DEF PutFeed, Put, Live, Goto, At
  <2>2. x \in Call /\ x.user = u
    BY <1>1, <2>1 DEF Call, Steps
  <2>3. f \in Entry("feed") /\ f.expires > now
    BY <1>1, <1>2, <1>3, <2>1 DEF Entry, Expiry, CallInv, Making
  <2>4. visited[u] # None /\ visited[u] >= now - MaxCall
    BY <1>1, <1>2, <1>3, <2>1 DEF CallInv, Early, Call, Times
  <2>5. CallInv(x)'
    BY <1>1, <2>1, <2>2 DEF CallInv, Making, Early, world, Call
  <2>. QED
    BY <1>1, <2>1, <2>2, <2>3, <2>4, <2>5, PutStepKeepsInv DEF UserKeys
<1>9. CASE SidePut(c)
  <2>. DEFINE l == call[c].list
              e == [val |-> call[c].from, expires |-> now + SideTtl[l]]
              y == [call[c] EXCEPT !.from = None, !.step = "side_get"]
  <2>1. /\ call[c].step = "side_put" /\ NextList(c, [call[c] EXCEPT !.from = None]) /\ UNCHANGED <<world, visited>>
        /\ l \in Side /\ call[c].from \in Times
    BY <1>1, <1>9 DEF SidePut, At, Call, CallInv
  <2>2. /\ e \in Entry("gpt_rank") /\ e \in Entry("popular") /\ e.expires > now
        /\ Young(e, l)
    BY <1>1, <1>2, <1>3, <2>1 DEF Entry, Expiry, Young, CallInv, Call, Times
  <2>3. y \in Call /\ y.user = u /\ CallInv(y) /\ y.step \in Making
    BY <1>1, <2>1 DEF Call, Steps, CallInv, Making, Early
  <2>4. NextList(c, y)
    <3>. DEFINE z == [call[c] EXCEPT !.from = None]
    <3>1. /\ y.list = z.list
          /\ [z EXCEPT !.list = "gpt_rank", !.step = "side_get"] =
             [y EXCEPT !.list = "gpt_rank", !.step = "side_get"]
          /\ [z EXCEPT !.step = "put_feed"] = [y EXCEPT !.step = "put_feed"]
          /\ \A a \in Anchors :
                [z EXCEPT !.list = "similar", !.step = "side_get", !.anchor = a] =
                [y EXCEPT !.list = "similar", !.step = "side_get", !.anchor = a]
      BY <1>1 DEF Call
    <3>. QED
      BY <2>1, <3>1 DEF NextList
  <2>5. /\ call' = [call EXCEPT ![c] = x] /\ x \in Call /\ x.user = u
        /\ CallInv(x) /\ x.step \in {"side_get", "put_feed"}
    BY <1>1, <2>3, <2>4, NextListKeepsInv DEF ServiceInv
  <2>6. CASE l = "gpt_rank"
    <3>1. redis' = [redis EXCEPT ![u]["gpt_rank"] = e] /\ UNCHANGED shared
      BY <1>9, <2>6 DEF SidePut, Put, Live
    <3>2. CallInv(x)'
      BY <2>1, <2>5 DEF CallInv, world
    <3>. QED
      BY <1>1, <2>1, <2>2, <2>5, <2>6, <3>1, <3>2, PutStepKeepsInv DEF UserKeys
  <2>7. CASE l # "gpt_rank"
    <3>. DEFINE k == SharedKey(c)
    <3>1. shared' = [shared EXCEPT ![k] = e] /\ UNCHANGED redis
      BY <1>9, <2>7 DEF SidePut, Live
    <3>2. k \in Shared /\ SideOf(k) = l /\ k # "feed"
      BY <1>1, <2>1, <2>7, RecommendationAssumption
      DEF SharedKey, Shared, SideOf, Side, CallInv
    <3>3. e \in Entry(k)
      BY <2>2, <3>2 DEF Entry
    <3>4. \E j \in Shared : \E f \in Entry(j) :
              /\ shared' = [shared EXCEPT ![j] = f]
              /\ f.expires > now /\ Young(f, SideOf(j))
      <4>1. Young(e, SideOf(k))
        BY <2>2, <3>2
      <4>. HIDE DEF e, k
      <4>. QED
        BY <2>2, <3>1, <3>2, <3>3, <4>1
    <3>. HIDE DEF k, e
    <3>. QED
      BY <1>1, <2>1, <2>5, <3>1, <3>4, LocalStepKeepsInv
  <2>. QED
    BY <2>6, <2>7
<1>. QED
  BY <1>4, <1>5, <1>6, <1>7, <1>8, <1>9

\* A new GET, the clock, a process of the memory build that starts anew.
LEMMA StepKeepsInv == ServiceInv /\ [Next]_vars => ServiceInv'
<1>. SUFFICES ASSUME ServiceInv, [Next]_vars
              PROVE  ServiceInv'
  OBVIOUS
<1>0. /\ None \notin Int /\ MaxCall \in Nat /\ now \in Times /\ now \in Nat
      /\ call \in [Calls -> Call \cup {None}]
  BY TtlAssumption, RecommendationAssumption DEF ServiceInv, TypeOK, Times
<1>1. ASSUME NEW c \in Calls, NEW u \in Users, Start(c, u)
      PROVE  ServiceInv'
  <2>. DEFINE x == [user |-> u, step |-> "last_seen", started |-> now, prev |-> None,
                    feed |-> None, ttl |-> 0, list |-> "popular", anchor |-> None,
                    from |-> None]
  <2>1. x \in Call /\ CallInv(x)
    BY <1>0 DEF Call, Steps, Side, Expiry, CallInv, Making, Early
  <2>2. call' = [call EXCEPT ![c] = x] /\ UNCHANGED <<world, redis, shared, visited>>
    BY <1>1 DEF Start
  <2>. HIDE DEF x
  <2>. QED
    BY <2>1, <2>2, LocalStepKeepsInv
<1>2. ASSUME NEW c \in Calls, CallStep(c)
      PROVE  ServiceInv'
  BY <1>2, LocalStepsKeepInv, KeyStepsKeepInv DEF CallStep
<1>3. CASE Tick
  <2>1. now' = now + 1 /\ now' \in Times /\ UNCHANGED <<call, rows, body, visited>>
    BY <1>0, <1>3, RecommendationAssumption DEF Tick, Times
  <2>2. /\ redis' = [u \in Users |-> [k \in UserKeys |-> Expired(redis[u][k])]]
        /\ shared' = [k \in Shared |-> Expired(shared[k])]
        /\ \A c \in Running : now + 1 - call[c].started <= MaxCall
    BY <1>3 DEF Tick
  <2>3. ASSUME NEW e, e = None \/ e.expires \in Nat
        PROVE  /\ Expired(e) = None \/ Expired(e) = e
               /\ Expired(e) # None => e.expires > now + 1
    BY <1>0, <2>3 DEF Expired
  <2>4. \A u \in Users, k \in UserKeys :
           /\ redis[u][k] \in Entry(k) \cup {None}
           /\ redis[u][k] = None \/ redis[u][k].expires \in Nat
    BY DEF ServiceInv, TypeOK, Entry, Expiry
  <2>5. \A k \in Shared :
           /\ shared[k] \in Entry(k) \cup {None}
           /\ shared[k] = None \/ shared[k].expires \in Nat
    BY DEF ServiceInv, TypeOK, Entry, Expiry
  <2>6. \A u \in Users, k \in UserKeys :
           /\ redis'[u][k] = None \/ redis'[u][k] = redis[u][k]
           /\ redis'[u][k] # None => redis[u][k].expires > now + 1
    BY <2>2, <2>3, <2>4
  <2>7. \A k \in Shared :
           /\ shared'[k] = None \/ shared'[k] = shared[k]
           /\ shared'[k] # None => shared[k].expires > now + 1
    BY <2>2, <2>3, <2>5
  <2>8. TypeOK'
    BY <2>1, <2>4, <2>5, <2>6, <2>7 DEF ServiceInv, TypeOK
  <2>9. KeysShape'
    <3>1. /\ redis' \in [Users -> [UserKeys -> Entries]]
      BY <2>2, <2>4, <2>6 DEF Entries, ServiceInv, StoreInv, KeysShape
    <3>2. shared' \in [Shared -> Entries]
      BY <2>2, <2>5, <2>7 DEF Entries, ServiceInv, StoreInv, KeysShape
    <3>. QED
      BY <3>1, <3>2 DEF KeysShape
  <2>10. \A u \in Users, k \in UserKeys : UserKeyInv(u, k)'
    BY <2>1, <2>6 DEF ServiceInv, StoreInv, UserKeyInv, Young
  <2>11. SharedInv' /\ VisitedInv'
    BY <1>0, <2>1, <2>7 DEF ServiceInv, TypeOK, StoreInv, SharedInv, VisitedInv, Young, Times
  <2>12. ASSUME NEW c \in Running'
         PROVE  CallInv(call[c])'
    <3>1. c \in Running /\ call[c] \in Call /\ call[c].user \in Users /\ CallInv(call[c])
      BY <2>1, RunningCall DEF Running, ServiceInv
    <3>2. redis[call[c].user].feed = None => redis'[call[c].user].feed = None
      BY <2>6, <3>1 DEF UserKeys
    <3>3. call[c].started \in Nat /\ now' - call[c].started <= MaxCall
      <4>1. call[c].started \in Times
        BY <3>1 DEF Call
      <4>. QED
        BY <1>0, <2>1, <2>2, <3>1, <4>1, RecommendationAssumption DEF Times
    <3>4. MayMark(call[c]) => MayMark(call[c])'
      BY <2>1, <3>2 DEF MayMark
    <3>. QED
      BY <1>0, <2>1, <3>1, <3>3, <3>4 DEF CallInv, Times
  <2>. QED
    BY <2>8, <2>9, <2>10, <2>11, <2>12 DEF ServiceInv, StoreInv
<1>4. CASE Restart
  <2>1. /\ call' = [c \in Calls |-> None] /\ UNCHANGED <<now, rows, body, visited>>
        /\ redis' = [u \in Users |-> [k \in UserKeys |-> None]]
        /\ shared' = [k \in Shared |-> None]
    BY <1>4 DEF Restart, world
  <2>2. TypeOK' /\ Running' = {}
    BY <2>1 DEF ServiceInv, TypeOK, Running
  <2>3. StoreInv'
    BY <2>1 DEF ServiceInv, StoreInv, KeysShape, Entries, UserKeyInv, SharedInv, VisitedInv
  <2>. QED
    BY <2>2, <2>3 DEF ServiceInv
<1>5. CASE UNCHANGED vars
  BY <1>5 DEF vars, ServiceInv, TypeOK, StoreInv, KeysShape, UserKeyInv, SharedInv, VisitedInv,
     Young, Running, CallInv, MayMark
<1>. QED
  BY <1>1, <1>2, <1>3, <1>4, <1>5 DEF Next

LEMMA AlwaysServiceInv == Spec => []ServiceInv
<1>1. Init => ServiceInv
  BY TtlAssumption, RecommendationAssumption
  DEF Init, ServiceInv, TypeOK, StoreInv, KeysShape, Entries, UserKeyInv, SharedInv,
      VisitedInv, Running, Times
<1>. QED
  BY <1>1, StepKeepsInv, PTL DEF Spec
----------------------------------------------------------------------------
\* Every reachable state is well-typed.
THEOREM TypeCorrect == Spec => []TypeOK
<1>. QED
  BY AlwaysServiceInv, PTL DEF ServiceInv

\* A side list that a GET finds is no older than its TTL and one GET, for any TTLs.
THEOREM SideListsAreRecent == Spec => []SourcesAreRecent
<1>1. ServiceInv => SourcesAreRecent
  <2>. SUFFICES ASSUME ServiceInv, NEW c \in Running, At(c, "side_get"), SideEntry(c) # None
                PROVE  SideEntry(c).val > call[c].started - SideTtl[call[c].list] - MaxCall
    BY DEF SourcesAreRecent
  <2>. DEFINE e == SideEntry(c)
              l == call[c].list
  <2>1. /\ call[c] \in Call /\ UserOf(c) \in Users /\ l \in Side /\ CallInv(call[c])
        /\ SideTtl[l] \in Nat /\ MaxCall \in Nat
        /\ call[c].started \in Nat /\ now \in Nat /\ call[c].started <= now
    BY RunningCall, RecommendationAssumption DEF ServiceInv, TypeOK, Call, CallInv, Times
  <2>2. e.val \in Nat /\ e.expires \in Nat /\ e.expires > now /\ Young(e, l)
    <3>1. CASE l = "gpt_rank"
      <4>1. e = redis[UserOf(c)]["gpt_rank"] /\ e # None
        BY <3>1 DEF SideEntry, Get
      <4>2. UserKeyInv(UserOf(c), "gpt_rank") /\ e \in Entry("gpt_rank")
        BY <2>1, <4>1 DEF ServiceInv, TypeOK, StoreInv, UserKeys
      <4>. QED
        BY <2>1, <3>1, <4>1, <4>2, RecommendationAssumption DEF UserKeyInv, Entry, Expiry, Times
    <3>2. CASE l # "gpt_rank"
      <4>. DEFINE k == SharedKey(c)
      <4>1. k \in Shared /\ SideOf(k) = l /\ k # "feed" /\ e = shared[k]
        BY <2>1, <3>2, RecommendationAssumption
        DEF SharedKey, Shared, SideOf, Side, SideEntry, CallInv
      <4>2. e # None /\ e \in Entry(k) /\ e.expires > now /\ Young(e, l)
        BY <4>1 DEF ServiceInv, TypeOK, StoreInv, SharedInv
      <4>. HIDE DEF e, k
      <4>. QED
        BY <4>1, <4>2, RecommendationAssumption DEF Entry, Expiry, Times
    <3>. QED
      BY <3>1, <3>2
  <2>. QED
    BY <2>1, <2>2 DEF Young
<1>. QED
  BY <1>1, AlwaysServiceInv, PTL

\* A user who was away for StaleAfter finds no feed of the time before, provided
\* that no GET takes as long as that.
THEOREM ReturnsFindNoFeed == ASSUME MaxCall < StaleAfter
                             PROVE  Spec => ReturnFindsNoFeed
<1>1. ASSUME ServiceInv, [Next]_vars, NEW u \in Users, visited[u] # None,
             now - visited[u] >= StaleAfter + MaxCall, visited'[u] # visited[u]
      PROVE  redis'[u].feed = None
  <2>1. PICK c \in Calls : MarkSeen(c)
    BY <1>1 DEF Next, CallStep, Start, LastSeen, DropFeed, GetFeed, CheckTtl, TouchFeed, Extend,
       ExpireFeed, FetchHistory, SideHit, SideMiss, SideQuery, SidePut, PutFeed, Answer, Fail,
       Tick, Restart, vars
  <2>2. c \in Running /\ call[c].step = "mark"
    BY <2>1 DEF MarkSeen, At
  <2>3. /\ call[c] \in Call /\ call[c].user \in Users /\ UserOf(c) = call[c].user
        /\ CallInv(call[c])
    BY <1>1, <2>2, RunningCall DEF ServiceInv
  <2>4. UserOf(c) = u
    BY <1>1, <2>1, <2>3 DEF MarkSeen, ServiceInv, TypeOK
  <2>5. redis'[u].feed = redis[u].feed
    BY <1>1, <2>1, <2>4 DEF MarkSeen, Put, ServiceInv, StoreInv, KeysShape, UserKeys
  <2>6. /\ now \in Int /\ visited[u] \in Int /\ StaleAfter \in Int /\ MaxCall \in Int
        /\ call[c].started \in Int /\ call[c].prev \in Int \cup {None}
        /\ now - call[c].started <= MaxCall
    BY <1>1, <2>3, TtlAssumption, RecommendationAssumption
    DEF ServiceInv, TypeOK, Call, CallInv, Times
  <2>7. MayMark(call[c])
    BY <2>2, <2>3 DEF CallInv
  <2>. QED
    BY <1>1, <2>3, <2>4, <2>5, <2>6, <2>7 DEF MayMark
<1>. DEFINE A == \A u \in Users :
               visited[u] # None /\ now - visited[u] >= StaleAfter + MaxCall
                  /\ visited'[u] # visited[u]
               => redis'[u].feed = None
<1>2. ServiceInv /\ [Next]_vars => [A]_vars
  BY <1>1
<1>. QED
  BY <1>2, AlwaysServiceInv, PTL DEF Spec, ReturnFindsNoFeed

\* Only its own steps move a GET on; at "touch" that is TouchFeed.
LEMMA OnlyItsTouch ==
    ASSUME ServiceInv, [Next]_vars, NEW c \in Running,
           call[c].step = "touch", call'[c] \notin {call[c], None}
    PROVE  TouchFeed(c)
<1>1. c \in Calls /\ call[c] # None /\ call \in [Calls -> Call \cup {None}]
  BY RunningCall DEF ServiceInv, TypeOK, Running
<1>2. \A d \in Calls, u \in Users : Start(d, u) => d # c /\ call'[c] = call[c]
  BY <1>1 DEF Start
<1>3. ASSUME NEW d \in Calls, d # c, CallStep(d)
      PROVE  call'[c] = call[c]
  BY <1>1, <1>3
  DEF CallStep, LastSeen, DropFeed, MarkSeen, GetFeed, CheckTtl, TouchFeed, Extend, ExpireFeed,
      FetchHistory, SideHit, SideMiss, SideQuery, SidePut, NextList, PutFeed, Answer, Fail, Goto
<1>4. ~Tick /\ ~Restart /\ ~UNCHANGED vars
  BY <1>1 DEF Tick, Restart, vars
<1>5. CallStep(c)
  BY <1>2, <1>3, <1>4 DEF Next
<1>6. Answer(c) \/ Fail(c) => call'[c] = None
  BY <1>1 DEF Answer, Fail
<1>. QED
  BY <1>5, <1>6
  DEF CallStep, At, LastSeen, DropFeed, MarkSeen, GetFeed, CheckTtl, ExpireFeed, FetchHistory,
      SideHit, SideMiss, SideQuery, SidePut, PutFeed

\* In the memory build a hit never cuts the life of the feed short.
THEOREM HitsNeverShorten == ASSUME ~WithRedis, None \notin Entry("feed")
                            PROVE  Spec => TouchNeverShortens
<1>1. ASSUME ServiceInv, [Next]_vars, NEW c \in Running,
             call[c].step \in {"touch", "expire"}, call'[c] \notin {call[c], None},
             redis[UserOf(c)].feed # None
      PROVE  /\ redis'[UserOf(c)].feed # None
             /\ redis'[UserOf(c)].feed.expires >= redis[UserOf(c)].feed.expires
  <2>. DEFINE u == UserOf(c)
              e == redis[u].feed
  <2>1. /\ c \in Calls /\ call[c] \in Call /\ u \in Users /\ CallInv(call[c])
        /\ e \in Entry("feed") /\ e.expires \in Nat
    BY <1>1, RunningCall DEF ServiceInv, TypeOK, UserKeys, Entry, Expiry
  <2>2. call[c].step = "touch"
    BY <1>1, <2>1 DEF CallInv
  <2>3. TouchFeed(c)
    BY <1>1, <2>2, OnlyItsTouch
  <2>4. PICK by \in Nat : Extend(c, by)
    BY <2>3, ExtensionIsNat DEF TouchFeed
  <2>5. CASE by = 0
    BY <1>1, <2>1, <2>4, <2>5 DEF Extend, Get
  <2>6. CASE by # 0
    <3>1. redis' = [redis EXCEPT ![u]["feed"] = [e EXCEPT !.expires = @ + by]]
      BY <1>1, <2>1, <2>4, <2>6 DEF Extend, Get, Put
    <3>2. [e EXCEPT !.expires = @ + by] \in Entry("feed")
      BY <2>1 DEF Entry, Expiry
    <3>3. redis'[u].feed = [e EXCEPT !.expires = @ + by]
      BY <1>1, <2>1, <3>1 DEF ServiceInv, StoreInv, KeysShape, UserKeys
    <3>. QED
      BY <2>1, <3>2, <3>3 DEF Entry
  <2>. QED
    BY <2>5, <2>6
<1>. DEFINE A == \A c \in Running :
               LET u == UserOf(c) IN
               call[c].step \in {"touch", "expire"} /\ call'[c] \notin {call[c], None}
                  /\ redis[u].feed # None
               => redis'[u].feed # None /\ redis'[u].feed.expires >= redis[u].feed.expires
<1>2. ServiceInv /\ [Next]_vars => [A]_vars
  BY <1>1
<1>. QED
  BY <1>2, AlwaysServiceInv, PTL DEF Spec, TouchNeverShortens

\* The extension of a hit is one that a single reading of the clock would give.
THEOREM ExtensionsAreAsByOneClock == Spec => ExtensionAsByOneClock
<1>1. ASSUME ServiceInv, [Next]_vars, NEW c \in Running, call[c].step = "touch",
             call'[c] \notin {call[c], None}, Get(c, "feed") # None
      PROVE  LET e  == Get(c, "feed")
                 by == IF ~WithRedis THEN redis'[UserOf(c)].feed.expires - e.expires
                       ELSE IF call'[c].step = "expire" THEN call'[c].ttl - (e.expires - now)
                       ELSE 0
             IN  by \in {ExtendFeedTtlOnHit(ClassifyVisit(call[c].prev, t, t)) :
                            t \in call[c].started .. now}
  <2>. DEFINE u == UserOf(c)
              e == redis[u].feed
              p == call[c].prev
              rule(t, l) == ExtendFeedTtlOnHit(ClassifyVisit(p, t, l))
  <2>1. /\ c \in Calls /\ call[c] \in Call /\ u \in Users /\ CallInv(call[c])
        /\ e \in Entry("feed") /\ e.expires \in Nat /\ e # None
        /\ call \in [Calls -> Call \cup {None}]
    BY <1>1, RunningCall DEF ServiceInv, TypeOK, UserKeys, Entry, Expiry, Get
  <2>2. /\ now \in Int /\ call[c].started \in Int /\ call[c].started <= now
        /\ p \in Int \cup {None}
    BY <1>1, <2>1, RecommendationAssumption DEF ServiceInv, TypeOK, Call, CallInv, Times
  <2>3. PICK first \in call[c].started .. now : Extend(c, rule(first, now))
    BY <1>1, OnlyItsTouch DEF TouchFeed
  <2>4. rule(first, now) \in Nat
    BY ExtensionIsNat
  <2>5. \E t \in call[c].started .. now : rule(first, now) = rule(t, t)
    <3>1. first \in Int /\ first <= now /\ now \in call[c].started .. now
      BY <2>2
    <3>2. ClassifyVisit(p, first, now) \in {ClassifyVisit(p, first, first), ClassifyVisit(p, now, now)}
      BY <2>2, <3>1, TwoReadingsAreOne
    <3>. QED
      BY <3>1, <3>2
  <2>. DEFINE by == rule(first, now)
              got == IF ~WithRedis THEN redis'[u].feed.expires - e.expires
                     ELSE IF call'[c].step = "expire" THEN call'[c].ttl - (e.expires - now)
                     ELSE 0
  <2>6. got = by
    <3>. HIDE DEF rule
    <3>1. CASE by = 0
      <4>1. UNCHANGED redis /\ call' = [call EXCEPT ![c].step = "done"]
        BY <2>3, <3>1 DEF Extend, Get, Goto
      <4>. QED
        BY <2>1, <3>1, <4>1
    <3>2. CASE by # 0 /\ WithRedis
      <4>1. call' = [call EXCEPT ![c].ttl = e.expires - now + by, ![c].step = "expire"]
        BY <2>1, <2>3, <3>2 DEF Extend, Get
      <4>2. call'[c].step = "expire" /\ call'[c].ttl = e.expires - now + by
        BY <2>1, <4>1 DEF Call
      <4>. QED
        BY <2>1, <2>2, <2>4, <3>2, <4>2
    <3>3. CASE by # 0 /\ ~WithRedis
      <4>1. redis' = [redis EXCEPT ![u]["feed"] = [e EXCEPT !.expires = @ + by]]
        BY <2>1, <2>3, <3>3 DEF Extend, Get, Put
      <4>2. redis'[u].feed = [e EXCEPT !.expires = @ + by]
        BY <1>1, <2>1, <4>1 DEF ServiceInv, StoreInv, KeysShape, UserKeys
      <4>. QED
        BY <2>1, <2>4, <3>3, <4>2 DEF Entry
    <3>. QED
      BY <3>1, <3>2, <3>3
  <2>7. got \in {rule(t, t) : t \in call[c].started .. now}
    BY <2>5, <2>6
  <2>. QED
    BY <2>7 DEF Get
<1>. DEFINE A == \A c \in Running :
               LET e  == Get(c, "feed")
                   by == IF ~WithRedis THEN redis'[UserOf(c)].feed.expires - e.expires
                         ELSE IF call'[c].step = "expire" THEN call'[c].ttl - (e.expires - now)
                         ELSE 0
               IN
               call[c].step = "touch" /\ call'[c] \notin {call[c], None} /\ e # None
               => by \in {ExtendFeedTtlOnHit(ClassifyVisit(call[c].prev, t, t)) :
                              t \in call[c].started .. now}
<1>2. ServiceInv /\ [Next]_vars => [A]_vars
  BY <1>1
<1>. QED
  BY <1>2, AlwaysServiceInv, PTL DEF Spec, ExtensionAsByOneClock
============================================================================
