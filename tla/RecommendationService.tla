----------------------- MODULE RecommendationService -----------------------
(***************************************************************************)
(* GET /recommend: RecommendationService over its ports, with the caches   *)
(* and the visit ledger in Redis (shared by all processes) or in the       *)
(* memory of one process.  Each call to a port that leaves the process is  *)
(* a step, and any step may fail the request.                              *)
(*                                                                         *)
(* A product list is reduced to what it was made from: a feed to the rows  *)
(* of user_actions its history shows, a side list to the time it is from.  *)
(***************************************************************************)
EXTENDS TtlPolicy, FiniteSets

CONSTANTS
    Calls,            \* how many GETs may run at a time
    Payloads,         \* the contents of the rows; a user is one of theirs
    Rows,             \* what user_actions may hold
    Anchors,          \* the products the similar list may be about
    WithRedis,        \* RHYTHM_WITH_REDIS
    FeedTtl, VisitTtl,
    SideTtl,          \* SideTtl[k]: the TTL of the side list k, see Side
    MaxCall,          \* a GET is answered or given up within this time
    MaxTime,          \* bounds the clock
    MaxExpiry         \* bounds the life of a feed, which hits extend for ever

VARIABLES
    now,      \* the clock: of the processes, of Redis
    redis,    \* redis[u][k]: the user's keys (in the memory build: the maps)
    shared,   \* shared[k]: the keys of all users
    call,     \* call[c]: a running GET, or None
    rows,     \* the rows of user_actions
    body,     \* body[m].user_id: the user of row m
    visited   \* history: when u was last marked as seen

vars == <<now, redis, shared, call, rows, body, visited>>

Users    == {p.user_id : p \in Payloads}
Side     == {"popular", "gpt_rank", "similar"}
UserKeys == {"feed", "gpt_rank", "visit_last"}
Shared   == {"popular"} \cup Anchors

ASSUME RecommendationAssumption ==
    /\ WithRedis \in BOOLEAN
    /\ Anchors \cap {"popular", "feed"} = {}
    /\ FeedTtl \in Nat \ {0} /\ VisitTtl \in Nat \ {0}
    /\ SideTtl \in [Side -> Nat \ {0}]
    /\ MaxCall \in Nat /\ MaxTime \in Nat /\ MaxExpiry \in Nat

Times   == 0 .. MaxTime
Expiry  == Nat
History == SUBSET Rows

Entry(k) == [val     : CASE k = "feed" -> History [] OTHER -> Times,
             expires : Expiry]

Steps == {"last_seen", "drop", "mark", "get_feed", "feed_ttl", "touch", "expire",
          "history", "side_get", "side_query", "side_put", "put_feed", "done"}

Call == [user    : Users,
         step    : Steps,
         started : Times,
         prev    : Times \cup {None},       \* LastSeenUtc
         feed    : History \cup {None},     \* the list to answer with
         ttl     : Expiry,                  \* what EXPIRE will set
         list    : Side,                    \* the side list it is at
         anchor  : Anchors \cup {None},     \* None: no similar list
         from    : Times \cup {None}]      \* the time of the list to cache

TypeOK ==
    /\ now \in Times
    /\ \A u \in Users, k \in UserKeys : redis[u][k] \in Entry(k) \cup {None}
    /\ \A k \in Shared : shared[k] \in Entry(k) \cup {None}
    /\ call \in [Calls -> Call \cup {None}]
    /\ rows \subseteq Rows
    /\ visited \in [Users -> Times \cup {None}]

Init ==
    /\ now = 0
    /\ redis = [u \in Users |-> [k \in UserKeys |-> None]]
    /\ shared = [k \in Shared |-> None]
    /\ call = [c \in Calls |-> None]
    /\ rows = {}
    /\ body \in [Rows -> Payloads]
    /\ visited = [u \in Users |-> None]

----------------------------------------------------------------------------
Running   == {c \in Calls : call[c] # None}
At(c, s)  == c \in Running /\ call[c].step = s
UserOf(c) == call[c].user
Goto(c, s) == call' = [call EXCEPT ![c].step = s]

\* A user's key, and what is set there now for the given time.
Get(c, k) == redis[UserOf(c)][k]
Live(val, ttl) == [val |-> val, expires |-> now + ttl]
Put(c, k, entry) == redis' = [redis EXCEPT ![UserOf(c)][k] = entry]

\* What a step never touches: the clock, the table.
world == <<now, rows, body>>

----------------------------------------------------------------------------
\* The handler has a user_id.
Start(c, u) ==
    /\ c \notin Running
    /\ call' = [call EXCEPT ![c] =
                   [user |-> u, step |-> "last_seen", started |-> now, prev |-> None,
                    feed |-> None, ttl |-> 0, list |-> "popular", anchor |-> None,
                    from |-> None]]
    /\ UNCHANGED <<world, redis, shared, visited>>

LastSeen(c) ==
    LET e    == Get(c, "visit_last")
        seen == IF e = None THEN None ELSE e.val
    IN
    /\ At(c, "last_seen")
    /\ call' = [call EXCEPT ![c].prev = seen,
                    ![c].step = IF ShouldInvalidateFeed(seen, now) THEN "drop" ELSE "mark"]
    /\ UNCHANGED <<world, redis, shared, visited>>

DropFeed(c) ==
    /\ At(c, "drop")
    /\ Put(c, "feed", None)
    /\ Goto(c, "mark")
    /\ UNCHANGED <<world, shared, visited>>

MarkSeen(c) ==
    /\ At(c, "mark")
    /\ Put(c, "visit_last", Live(now, VisitTtl))
    /\ visited' = [visited EXCEPT ![UserOf(c)] = now]
    /\ Goto(c, "get_feed")
    /\ UNCHANGED <<world, shared>>

\* In memory the list and its time left are read under one lock, in Redis by
\* a GET and a TTL.
GetFeed(c) ==
    LET e == Get(c, "feed") IN
    /\ At(c, "get_feed")
    /\ IF e = None
       THEN Goto(c, "history")
       ELSE call' = [call EXCEPT ![c].feed = e.val,
                         ![c].step = IF WithRedis THEN "feed_ttl" ELSE "touch"]
    /\ UNCHANGED <<world, redis, shared, visited>>

CheckTtl(c) ==
    /\ At(c, "feed_ttl")
    /\ call' = IF Get(c, "feed") = None
               THEN [call EXCEPT ![c].feed = None, ![c].step = "history"]
               ELSE [call EXCEPT ![c].step = "touch"]
    /\ UNCHANGED <<world, redis, shared, visited>>

\* A hit: the life of the feed is extended, in memory under the lock, in Redis
\* by a TTL and an EXPIRE.  The clock was first read at any time since the start.
Extend(c, by) ==
    LET e    == Get(c, "feed")
        gone == by = 0 \/ e = None
    IN
    /\ ~gone => e.expires + by <= MaxExpiry
    /\ IF WithRedis /\ ~gone
       THEN call' = [call EXCEPT ![c].ttl = e.expires - now + by, ![c].step = "expire"]
       ELSE Goto(c, "done")
    /\ IF WithRedis \/ gone
       THEN UNCHANGED redis
       ELSE Put(c, "feed", [e EXCEPT !.expires = @ + by])
    /\ UNCHANGED <<world, shared, visited>>

TouchFeed(c) ==
    /\ At(c, "touch")
    /\ \E first \in call[c].started .. now :
           Extend(c, ExtendFeedTtlOnHit(ClassifyVisit(call[c].prev, first, now)))

ExpireFeed(c) ==
    LET e == Get(c, "feed") IN
    /\ At(c, "expire")
    /\ Goto(c, "done")
    /\ IF e = None
       THEN UNCHANGED redis
       ELSE Put(c, "feed", Live(e.val, call[c].ttl))
    /\ UNCHANGED <<world, shared, visited>>

----------------------------------------------------------------------------
\* A miss: FetchSources asks for the history, then for the side lists in turn.
FetchHistory(c) ==
    /\ At(c, "history")
    /\ call' = [call EXCEPT ![c].feed = {m \in rows : body[m].user_id = UserOf(c)},
                            ![c].prev = None, ![c].step = "side_get"]
    /\ UNCHANGED <<world, redis, shared, visited>>

SharedKey(c) == IF call[c].list = "popular" THEN "popular" ELSE call[c].anchor
SideEntry(c) == IF call[c].list = "gpt_rank" THEN Get(c, "gpt_rank") ELSE shared[SharedKey(c)]

\* From list to list.  The anchor of the similar list is the head of the history
\* or of the popular list, any product, unless both are empty.
NextList(c, cl) ==
    \/ /\ cl.list = "popular"
       /\ call' = [call EXCEPT ![c] = [cl EXCEPT !.list = "gpt_rank", !.step = "side_get"]]
    \/ /\ cl.list = "gpt_rank"
       /\ \E a \in Anchors : call' =
             [call EXCEPT ![c] = [cl EXCEPT !.list = "similar", !.step = "side_get", !.anchor = a]]
    \/ /\ cl.list \in {"gpt_rank", "similar"}
       /\ call' = [call EXCEPT ![c] = [cl EXCEPT !.step = "put_feed"]]

SideHit(c) ==
    /\ At(c, "side_get")
    /\ SideEntry(c) # None
    /\ NextList(c, call[c])
    /\ UNCHANGED <<world, redis, shared, visited>>

SideMiss(c) ==
    /\ At(c, "side_get")
    /\ SideEntry(c) = None
    /\ Goto(c, "side_query")
    /\ UNCHANGED <<world, redis, shared, visited>>

\* Postgres, the ranking, or the neighbours (the popular list if there are none).
SideQuery(c) ==
    /\ At(c, "side_query")
    /\ call' = [call EXCEPT ![c].from = now, ![c].step = "side_put"]
    /\ UNCHANGED <<world, redis, shared, visited>>

SidePut(c) ==
    LET k     == call[c].list
        entry == Live(call[c].from, SideTtl[k])
    IN
    /\ At(c, "side_put")
    /\ IF k = "gpt_rank"
       THEN Put(c, k, entry) /\ UNCHANGED shared
       ELSE shared' = [shared EXCEPT ![SharedKey(c)] = entry] /\ UNCHANGED redis
    /\ NextList(c, [call[c] EXCEPT !.from = None])
    /\ UNCHANGED <<world, visited>>

PutFeed(c) ==
    /\ At(c, "put_feed")
    /\ Put(c, "feed", Live(call[c].feed, FeedTtl))
    /\ Goto(c, "done")
    /\ UNCHANGED <<world, shared, visited>>

\* The list is the answer.
Answer(c) ==
    /\ At(c, "done")
    /\ call' = [call EXCEPT ![c] = None]
    /\ UNCHANGED <<world, redis, shared, visited>>

\* A port throws or the process dies: no answer, what is written stays.
Fail(c) ==
    /\ c \in Running
    /\ call' = [call EXCEPT ![c] = None]
    /\ UNCHANGED <<world, redis, shared, visited>>

----------------------------------------------------------------------------
\* Mutant: a key lives one unit too long.
ExpiredLate(e) == IF e # None /\ e.expires < now + 1 THEN None ELSE e

\* Time passes, keys expire; no GET takes longer than MaxCall.
Expired(e) == IF e # None /\ e.expires <= now + 1 THEN None ELSE e

Tick ==
    /\ now < MaxTime
    /\ \A c \in Running : now + 1 - call[c].started <= MaxCall
    /\ now' = now + 1
    /\ redis' = [u \in Users |-> [k \in UserKeys |-> Expired(redis[u][k])]]
    /\ shared' = [k \in Shared |-> Expired(shared[k])]
    /\ UNCHANGED <<call, rows, body, visited>>

\* The memory build starts anew with nothing.
Restart ==
    /\ ~WithRedis
    /\ call' = [c \in Calls |-> None]
    /\ redis' = [u \in Users |-> [k \in UserKeys |-> None]]
    /\ shared' = [k \in Shared |-> None]
    /\ UNCHANGED <<world, visited>>

CallStep(c) ==
    \/ LastSeen(c) \/ DropFeed(c) \/ MarkSeen(c)
    \/ GetFeed(c) \/ CheckTtl(c) \/ TouchFeed(c) \/ ExpireFeed(c)
    \/ FetchHistory(c)
    \/ SideHit(c) \/ SideMiss(c) \/ SideQuery(c) \/ SidePut(c)
    \/ PutFeed(c) \/ Answer(c) \/ Fail(c)

Next ==
    \/ \E c \in Calls, u \in Users : Start(c, u)
    \/ \E c \in Calls : CallStep(c)
    \/ Tick
    \/ Restart

Spec == Init /\ [][Next]_vars
----------------------------------------------------------------------------
\* A user who comes back after an absence of StaleAfter finds no feed of the
\* time before, also when several GETs come back at once: the drop is ahead of
\* the mark that would hide the absence.  (A GET may read its last visit up to
\* MaxCall before it marks the new one.)
ReturnFindsNoFeed ==
    [][\A u \in Users :
          visited[u] # None /\ now - visited[u] >= StaleAfter + MaxCall
             /\ visited'[u] # visited[u]
          => redis'[u].feed = None]_vars

\* A hit extends the life of the feed that is cached (ttl_policy.hpp); it never
\* cuts it short.
TouchNeverShortens ==
    [][\A c \in Running :
          LET u == UserOf(c) IN
          call[c].step \in {"touch", "expire"} /\ call'[c] \notin {call[c], None}
             /\ redis[u].feed # None
          => redis'[u].feed # None /\ redis'[u].feed.expires >= redis[u].feed.expires]_vars

\* The rule that gives the extension reads the clock twice, with midnight or the end
\* of StaleAfter maybe in between; what it gives is what it would have given for
\* one reading during the call.
ExtensionAsByOneClock ==
    [][\A c \in Running :
          LET e == Get(c, "feed")
              by == IF ~WithRedis THEN redis'[UserOf(c)].feed.expires - e.expires
                    ELSE IF call'[c].step = "expire" THEN call'[c].ttl - (e.expires - now)
                    ELSE 0
          IN
          call[c].step = "touch" /\ call'[c] \notin {call[c], None} /\ e # None
          => by \in {ExtendFeedTtlOnHit(ClassifyVisit(call[c].prev, t, t)) :
                         t \in call[c].started .. now}]_vars

\* Whatever GETs write late, a list that a GET finds in the cache was fetched no
\* longer ago than its TTL and one call before the GET began.
SourcesAreRecent ==
    \A c \in Running :
        At(c, "side_get") /\ SideEntry(c) # None
        => SideEntry(c).val > call[c].started - SideTtl[call[c].list] - MaxCall
============================================================================
