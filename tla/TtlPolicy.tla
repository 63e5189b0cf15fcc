----------------------------- MODULE TtlPolicy -----------------------------
(***************************************************************************)
(* The rules of domain/ttl_policy: how recent the last visit of a user is, *)
(* whether the cached feed must go, how much longer a feed lives on a hit. *)
(* Times are integers on the system clock, days are UTC days.              *)
(***************************************************************************)
EXTENDS Integers

CONSTANTS
    Day,              \* the length of a UTC day
    StaleAfter,       \* kStaleAfterNoVisit
    ExtendToday,      \* kExtendIfVisitedToday
    ExtendYesterday,  \* kExtendIfVisitedYesterday
    None              \* no last visit on record

ASSUME TtlAssumption ==
    /\ Day \in Nat \ {0}
    /\ StaleAfter \in 1 .. Day
    /\ ExtendToday \in Nat \ {0} /\ ExtendYesterday \in Nat \ {0}
    /\ None \notin Int

\* Mutant: only a user never seen is stale.
InvalidateUnseenOnly(lastSeen, now) == lastSeen = None

ShouldInvalidateFeed(lastSeen, now) == lastSeen = None \/ now - lastSeen >= StaleAfter

DayOf(t) == t \div Day

\* Mutant: the age is taken at the first reading, the day at the second.
ClassifyAgeFirst(lastSeen, now, later) ==
    IF ShouldInvalidateFeed(lastSeen, now)      THEN "StaleNewSession"
    ELSE IF DayOf(later) = DayOf(lastSeen)      THEN "Today"
    ELSE IF DayOf(later) - DayOf(lastSeen) = 1  THEN "Yesterday"
    ELSE "StaleNewSession"

\* The code reads the clock once for the day and, a moment later, once more
\* for the age.
ClassifyVisit(lastSeen, now, later) ==
    IF ShouldInvalidateFeed(lastSeen, later)  THEN "StaleNewSession"
    ELSE IF DayOf(now) = DayOf(lastSeen)      THEN "Today"
    ELSE IF DayOf(now) - DayOf(lastSeen) = 1  THEN "Yesterday"
    ELSE "StaleNewSession"

\* Mutant: the sign is wrong.
CutFeedTtlOnHit(recency) ==
    CASE recency = "Today"           -> -ExtendToday
      [] recency = "Yesterday"       -> -ExtendYesterday
      [] recency = "StaleNewSession" -> 0

ExtendFeedTtlOnHit(recency) ==
    CASE recency = "Today"           -> ExtendToday
      [] recency = "Yesterday"       -> ExtendYesterday
      [] recency = "StaleNewSession" -> 0
============================================================================
