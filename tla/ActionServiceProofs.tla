------------------------ MODULE ActionServiceProofs ------------------------
(***************************************************************************)
(* Proofs about ActionService, for any requests, processes and payloads.   *)
(*                                                                         *)
(* The invariant says who holds what.  A request whose TryReserve returned *)
(* true is Granted its key; as long as the reservation lasts no rival is.  *)
(* A reservation has been made by a request that went beyond TryReserve,   *)
(* and such a request stays Claimed for ever, however it is answered.      *)
(***************************************************************************)
EXTENDS ActionService, TLAPS

Granted(r) == stage[r] \in {"publish", "confirm", "accepted"} \/ r \in Sent

Claimed(r) ==
    /\ Valid(body[r])
    /\ stage[r] \in {"publish", "confirm", "accepted", "bad_request", "dead"}

GrantsAreReserved ==
    \A r \in Requests : Granted(r) =>
        KeyOf(r) \in reserved[StoreOf(r)] \cup lapsed[StoreOf(r)]

GrantIsExclusive ==
    \A q, r \in Requests :
        Granted(q) /\ Granted(r) /\ Rivals(q, r) /\ KeyOf(r) \notin lapsed[StoreOf(r)]
            => q = r

SentWasGranted ==
    \A r \in Sent : stage[r] \in {"confirm", "accepted", "bad_request", "dead"}

OnlyValidGoesOn == \A r \in Requests : stage[r] \in InFlight => Valid(body[r])

AcceptedIsConfirmed == \A r \in Requests : stage[r] = "accepted" => r \in confirmed

ReservationsAreClaimed ==
    \A s \in Stores : \A k \in reserved[s] :
        \E q \in Requests : Claimed(q) /\ KeyOf(q) = k /\ StoreOf(q) = s

DuplicatesHaveARival ==
    \A r \in Requests : stage[r] = "duplicate" =>
        \E q \in Requests \ {r} : Rivals(q, r) /\ Claimed(q)

DedupInv == TypeOK /\ SentWasGranted /\ GrantsAreReserved /\ GrantIsExclusive

ClaimInv ==
    /\ TypeOK /\ OnlyValidGoesOn /\ AcceptedIsConfirmed
    /\ ReservationsAreClaimed /\ DuplicatesHaveARival
----------------------------------------------------------------------------
\* The store and the key of a request are fixed, and of the model's types.
LEMMA StoreAndKey ==
    ASSUME TypeOK, NEW r \in Requests
    PROVE  StoreOf(r) \in Stores /\ KeyOf(r) \in Keys
  BY DEF TypeOK, StoreOf, KeyOf, Stores, Keys

LEMMA InitTypeOK == Init => TypeOK
  BY DEF Init, TypeOK, Stages

\* Every step of every handler keeps the types of the variables.
LEMMA StepTypeOK == TypeOK /\ [Next]_vars => TypeOK'
<1> SUFFICES ASSUME TypeOK, [Next]_vars PROVE TypeOK'
  OBVIOUS
<1> USE DEF TypeOK, Goto, Stages, InFlight, Answers, inputVars, storeVars, brokerVars
<1>1. ASSUME NEW r \in Requests, Receive(r) PROVE TypeOK'
  BY <1>1 DEF Receive
<1>2. ASSUME NEW r \in Requests, Reserve(r) PROVE TypeOK'
  BY <1>2, StoreAndKey DEF Reserve
<1>3. ASSUME NEW r \in Requests, ReserveThrows(r) PROVE TypeOK'
  BY <1>3, StoreAndKey DEF ReserveThrows
<1>4. ASSUME NEW r \in Requests, Publish(r) PROVE TypeOK'
  BY <1>4 DEF Publish
<1>5. ASSUME NEW r \in Requests, BrokerTakes(r) PROVE TypeOK'
  BY <1>5 DEF BrokerTakes
<1>6. ASSUME NEW r \in Requests, WireLoses(r) PROVE TypeOK'
  BY <1>6 DEF WireLoses
<1>7. ASSUME NEW r \in Requests, PublishReturns(r) PROVE TypeOK'
  BY <1>7 DEF PublishReturns
<1>8. ASSUME NEW r \in Requests, PublishThrows(r) PROVE TypeOK'
  BY <1>8 DEF PublishThrows
<1>9. ASSUME NEW s \in Stores, NEW k \in Keys, Expire(s, k) PROVE TypeOK'
  BY <1>9 DEF Expire
<1>10. ASSUME NEW i \in Instances, Crash(i) PROVE TypeOK'
  BY <1>10 DEF Crash, Stores
<1>11. CASE UNCHANGED vars
  BY <1>11 DEF vars
<1> QED
  BY <1>1, <1>2, <1>3, <1>4, <1>5, <1>6, <1>7, <1>8, <1>9, <1>10, <1>11 DEF Next, Step

\* The variables of ActionService keep their types.
THEOREM TypeCorrect == Spec => []TypeOK
  BY InitTypeOK, StepTypeOK, PTL DEF Spec
----------------------------------------------------------------------------
LEMMA InitDedup == Init => DedupInv
  BY InitTypeOK DEF Init, DedupInv, SentWasGranted, GrantsAreReserved, GrantIsExclusive,
                    Granted, Sent

\* A step under which nobody is granted a key, no message appears and no store
\* forgets a key without a trace, keeps every part of DedupInv but the types.
LEMMA NothingGranted ==
    ASSUME DedupInv, UNCHANGED <<body, instance>>, Sent' \subseteq Sent,
           \A r \in Requests : Granted(r)' => Granted(r),
           \A r \in Requests : stage'[r] # stage[r] =>
               stage'[r] \in {"confirm", "accepted", "bad_request", "dead"} \/ r \notin Sent,
           \A s \in Stores : /\ lapsed[s] \subseteq lapsed'[s]
                             /\ reserved[s] \subseteq reserved'[s] \cup lapsed'[s]
    PROVE  SentWasGranted' /\ GrantsAreReserved' /\ GrantIsExclusive'
<1>1. \A r \in Requests : KeyOf(r)' = KeyOf(r) /\ StoreOf(r)' = StoreOf(r) /\ StoreOf(r) \in Stores
  BY StoreAndKey DEF KeyOf, StoreOf, DedupInv
<1>2. \A q, r \in Requests : Rivals(q, r)' <=> Rivals(q, r)
  BY <1>1 DEF Rivals
<1>3. SentWasGranted'
  BY DEF DedupInv, TypeOK, SentWasGranted, Sent
<1>4. GrantsAreReserved'
  BY <1>1 DEF DedupInv, GrantsAreReserved
<1>5. GrantIsExclusive'
  BY <1>1, <1>2 DEF DedupInv, GrantIsExclusive
<1> QED
  BY <1>3, <1>4, <1>5

\* TryReserve returned true: nobody else holds a grant whose reservation lasts.
LEMMA ReserveKeepsDedup ==
    ASSUME DedupInv, NEW r \in Requests, Reserve(r)
    PROVE  SentWasGranted' /\ GrantsAreReserved' /\ GrantIsExclusive'
<1> USE DEF DedupInv, TypeOK
<1>1. \A q \in Requests : /\ KeyOf(q)' = KeyOf(q) /\ StoreOf(q)' = StoreOf(q)
                          /\ StoreOf(q) \in Stores
  BY StoreAndKey DEF KeyOf, StoreOf, Reserve, inputVars
<1>2. Sent' = Sent /\ lapsed' = lapsed /\ r \notin Sent
  BY DEF Reserve, Sent, brokerVars, SentWasGranted, Goto
<1>3. \A q \in Requests : Granted(q)' => Granted(q) \/ q = r
  BY <1>2 DEF Granted, Reserve, Goto
<1>4. \A s \in Stores : reserved[s] \subseteq reserved'[s]
  BY <1>1 DEF Reserve
<1>5. KeyOf(r) \in reserved'[StoreOf(r)]
  BY <1>1 DEF Reserve
<1>6. SentWasGranted'
  BY <1>2 DEF SentWasGranted, Reserve, Goto, Sent
<1>7. GrantsAreReserved'
  BY <1>1, <1>2, <1>3, <1>4, <1>5 DEF GrantsAreReserved
<1>8. ASSUME NEW q \in Requests, Granted(q), Rivals(q, r), KeyOf(r) \notin lapsed[StoreOf(r)]
      PROVE  ~ Granted(r)'
  <2>1. KeyOf(r) \in reserved[StoreOf(r)]
    BY <1>8 DEF GrantsAreReserved, Rivals
  <2> QED
    BY <2>1, <1>2 DEF Reserve, Goto, Granted
<1>9. GrantIsExclusive'
  BY <1>1, <1>2, <1>3, <1>8 DEF GrantIsExclusive, Rivals
<1> QED
  BY <1>6, <1>7, <1>9

LEMMA StepDedup == DedupInv /\ [Next]_vars => DedupInv'
<1> SUFFICES ASSUME DedupInv, [Next]_vars PROVE DedupInv'
  OBVIOUS
<1>t. TypeOK'
  BY StepTypeOK DEF DedupInv
<1> SUFFICES SentWasGranted' /\ GrantsAreReserved' /\ GrantIsExclusive'
  BY <1>t DEF DedupInv
<1> DEFINE Kept == SentWasGranted' /\ GrantsAreReserved' /\ GrantIsExclusive'
<1> USE DEF Goto, Granted, Sent, inputVars, storeVars, brokerVars
<1>s. \A r \in Requests : StoreOf(r) \in Stores /\ KeyOf(r) \in Keys
  BY StoreAndKey DEF DedupInv
<1>1. ASSUME NEW r \in Requests, Receive(r) PROVE Kept
  BY <1>1, NothingGranted DEF Receive, DedupInv, TypeOK, SentWasGranted
<1>2. ASSUME NEW r \in Requests, Reserve(r) PROVE Kept
  BY <1>2, ReserveKeepsDedup
<1>3. ASSUME NEW r \in Requests, ReserveThrows(r) PROVE Kept
  BY <1>3, <1>s, NothingGranted DEF ReserveThrows, DedupInv, TypeOK
<1>4. ASSUME NEW r \in Requests, Publish(r) PROVE Kept
  <2>1. \A q \in Requests : Granted(q)' <=> Granted(q)
    BY <1>4 DEF Publish, DedupInv, TypeOK
  <2>2. \A q \in Requests : KeyOf(q)' = KeyOf(q) /\ StoreOf(q)' = StoreOf(q)
    BY <1>4 DEF Publish, KeyOf, StoreOf
  <2>3. SentWasGranted'
    BY <1>4 DEF Publish, DedupInv, TypeOK, SentWasGranted
  <2>4. GrantsAreReserved'
    BY <1>4, <2>1, <2>2 DEF Publish, DedupInv, GrantsAreReserved
  <2>5. GrantIsExclusive'
    BY <1>4, <2>1, <2>2 DEF Publish, DedupInv, GrantIsExclusive, Rivals
  <2> QED
    BY <2>3, <2>4, <2>5
<1>5. ASSUME NEW r \in Requests, BrokerTakes(r) PROVE Kept
  BY <1>5, NothingGranted DEF BrokerTakes
<1>6. ASSUME NEW r \in Requests, WireLoses(r) PROVE Kept
  BY <1>6, NothingGranted DEF WireLoses
<1>7. ASSUME NEW r \in Requests, PublishReturns(r) PROVE Kept
  BY <1>7, NothingGranted DEF PublishReturns, DedupInv, TypeOK
<1>8. ASSUME NEW r \in Requests, PublishThrows(r) PROVE Kept
  BY <1>8, NothingGranted DEF PublishThrows, DedupInv, TypeOK
<1>9. ASSUME NEW s \in Stores, NEW k \in Keys, Expire(s, k) PROVE Kept
  BY <1>9, NothingGranted DEF Expire, DedupInv, TypeOK
<1>10. ASSUME NEW i \in Instances, Crash(i) PROVE Kept
  BY <1>10, NothingGranted DEF Crash, DedupInv, TypeOK, Stores, InFlight
<1>11. CASE UNCHANGED vars
  BY <1>11, NothingGranted DEF vars
<1> QED
  BY <1>1, <1>2, <1>3, <1>4, <1>5, <1>6, <1>7, <1>8, <1>9, <1>10, <1>11 DEF Next, Step

\* While a reservation lasts, at most one message is sent under its key, with
\* any number of processes and concurrent repeats (README, POST /action).
THEOREM Deduplicates == Spec => []NoDuplicateMessage
<1>1. DedupInv => NoDuplicateMessage
  BY DEF DedupInv, TypeOK, GrantIsExclusive, NoDuplicateMessage, Granted, Sent
<1> QED
  BY <1>1, InitDedup, StepDedup, PTL DEF Spec
----------------------------------------------------------------------------
LEMMA InitClaim == Init => ClaimInv
  BY InitTypeOK DEF Init, ClaimInv, OnlyValidGoesOn, AcceptedIsConfirmed, InFlight,
                    ReservationsAreClaimed, DuplicatesHaveARival

\* What a handler's step does to the claims: none is ever lost, a request that
\* is answered "duplicate" found its key reserved, and a new reservation has a
\* claim to it.
LEMMA ClaimsStay ==
    ASSUME ClaimInv, [Next]_vars
    PROVE  \A r \in Requests :
               /\ KeyOf(r)' = KeyOf(r) /\ StoreOf(r)' = StoreOf(r)
               /\ Claimed(r) => Claimed(r)'
<1> USE DEF ClaimInv, TypeOK, Claimed, KeyOf, StoreOf, Goto, inputVars
<1>1. ASSUME NEW q \in Requests, Step(q) PROVE UNCHANGED <<body, instance>>
  BY <1>1 DEF Step, Receive, Reserve, ReserveThrows, Publish, BrokerTakes, WireLoses,
              PublishReturns, PublishThrows
<1>2. CASE \E q \in Requests : Receive(q) \/ Reserve(q) \/ ReserveThrows(q) \/ Publish(q)
  BY <1>2 DEF Receive, Reserve, ReserveThrows, Publish
<1>3. CASE \E q \in Requests : BrokerTakes(q) \/ WireLoses(q) \/ PublishReturns(q) \/ PublishThrows(q)
  BY <1>3 DEF BrokerTakes, WireLoses, PublishReturns, PublishThrows
<1>4. CASE \E s \in Stores, k \in Keys : Expire(s, k)
  BY <1>4 DEF Expire
<1>5. CASE \E i \in Instances : Crash(i)
  BY <1>5 DEF Crash, InFlight
<1>6. CASE UNCHANGED vars
  BY <1>6 DEF vars
<1> QED
  BY <1>2, <1>3, <1>4, <1>5, <1>6 DEF Next, Step

\* A step that reserves no key and answers no duplicate.
LEMMA NoNewClaimNeeded ==
    ASSUME ClaimInv, [Next]_vars,
           \A s \in Stores : reserved'[s] \subseteq reserved[s],
           \A r \in Requests : stage'[r] = "duplicate" => stage[r] = "duplicate"
    PROVE  ReservationsAreClaimed' /\ DuplicatesHaveARival'
<1>1. ReservationsAreClaimed'
  BY ClaimsStay DEF ClaimInv, ReservationsAreClaimed
<1>2. DuplicatesHaveARival'
  BY ClaimsStay DEF ClaimInv, DuplicatesHaveARival, Rivals
<1> QED
  BY <1>1, <1>2

LEMMA StepClaim == ClaimInv /\ [Next]_vars => ClaimInv'
<1> SUFFICES ASSUME ClaimInv, [Next]_vars PROVE ClaimInv'
  OBVIOUS
<1> DEFINE Claims == ReservationsAreClaimed' /\ DuplicatesHaveARival'
           Valids == OnlyValidGoesOn' /\ AcceptedIsConfirmed'
<1>t. TypeOK'
  BY StepTypeOK DEF ClaimInv
<1>s. \A r \in Requests : StoreOf(r) \in Stores /\ KeyOf(r) \in Keys
  BY StoreAndKey DEF ClaimInv
<1> SUFFICES Claims /\ Valids
  BY <1>t DEF ClaimInv
<1> USE DEF Goto, inputVars, storeVars, brokerVars
<1>1. ASSUME NEW r \in Requests, Receive(r) PROVE Claims /\ Valids
  <2>1. Valids
    BY <1>1 DEF Receive, ClaimInv, TypeOK, OnlyValidGoesOn, AcceptedIsConfirmed, InFlight
  <2> QED
    BY <1>1, <2>1, NoNewClaimNeeded DEF Receive, ClaimInv, TypeOK
<1>2. ASSUME NEW r \in Requests, Reserve(r) PROVE Claims /\ Valids
  <2>1. Valids
    BY <1>2 DEF Reserve, ClaimInv, TypeOK, OnlyValidGoesOn, AcceptedIsConfirmed, InFlight
  <2>2. CASE KeyOf(r) \in reserved[StoreOf(r)]
    <3>1. PICK q \in Requests : Claimed(q) /\ Rivals(q, r)
      BY <2>2, <1>s DEF ClaimInv, ReservationsAreClaimed, Rivals
    <3>2. q # r
      BY <3>1, <1>2 DEF Claimed, Reserve
    <3>3. Claimed(q)' /\ Rivals(q, r)'
      BY <3>1, ClaimsStay DEF Rivals
    <3>4. DuplicatesHaveARival'
      BY <1>2, <2>2, <3>2, <3>3, ClaimsStay
      DEF Reserve, ClaimInv, TypeOK, DuplicatesHaveARival, Rivals
    <3>5. \A s \in Stores : reserved'[s] = reserved[s]
      BY <1>2, <2>2 DEF Reserve, ClaimInv, TypeOK
    <3> QED
      BY <2>1, <3>4, <3>5, ClaimsStay DEF ClaimInv, ReservationsAreClaimed
  <2>3. CASE KeyOf(r) \notin reserved[StoreOf(r)]
    <3>1. Claimed(r)'
      BY <1>2, <2>3 DEF Reserve, ClaimInv, TypeOK, OnlyValidGoesOn, InFlight, Claimed
    <3>2. \A s \in Stores : \A k \in reserved'[s] :
              k \in reserved[s] \/ (s = StoreOf(r) /\ k = KeyOf(r))
      BY <1>2 DEF Reserve, ClaimInv, TypeOK
    <3>3. ReservationsAreClaimed'
      BY <3>1, <3>2, ClaimsStay DEF ClaimInv, ReservationsAreClaimed
    <3>4. DuplicatesHaveARival'
      BY <1>2, <2>3, ClaimsStay DEF Reserve, ClaimInv, TypeOK, DuplicatesHaveARival, Rivals
    <3> QED
      BY <2>1, <3>3, <3>4
  <2> QED
    BY <2>2, <2>3
<1>3. ASSUME NEW r \in Requests, ReserveThrows(r) PROVE Claims /\ Valids
  <2>1. Valids
    BY <1>3 DEF ReserveThrows, ClaimInv, TypeOK, OnlyValidGoesOn, AcceptedIsConfirmed, InFlight
  <2>2. Claimed(r)' /\ StoreOf(r) = Redis
    BY <1>3 DEF ReserveThrows, ClaimInv, TypeOK, OnlyValidGoesOn, InFlight, Claimed, StoreOf
  <2>3. \A s \in Stores : \A k \in reserved'[s] :
            k \in reserved[s] \/ (s = StoreOf(r) /\ k = KeyOf(r))
    BY <1>3, <2>2 DEF ReserveThrows, ClaimInv, TypeOK
  <2>4. ReservationsAreClaimed'
    BY <2>2, <2>3, ClaimsStay DEF ClaimInv, ReservationsAreClaimed
  <2>5. DuplicatesHaveARival'
    BY <1>3, ClaimsStay DEF ReserveThrows, ClaimInv, TypeOK, DuplicatesHaveARival, Rivals
  <2> QED
    BY <2>1, <2>4, <2>5
<1>4. ASSUME NEW r \in Requests, Publish(r) PROVE Claims /\ Valids
  <2>1. Valids
    BY <1>4 DEF Publish, ClaimInv, TypeOK, OnlyValidGoesOn, AcceptedIsConfirmed, InFlight
  <2> QED
    BY <1>4, <2>1, NoNewClaimNeeded DEF Publish, ClaimInv, TypeOK
<1>5. ASSUME NEW r \in Requests, BrokerTakes(r) \/ WireLoses(r) PROVE Claims /\ Valids
  <2>1. Valids
    BY <1>5 DEF BrokerTakes, WireLoses, ClaimInv, OnlyValidGoesOn, AcceptedIsConfirmed
  <2> QED
    BY <1>5, <2>1, NoNewClaimNeeded DEF BrokerTakes, WireLoses
<1>6. ASSUME NEW r \in Requests, PublishReturns(r) \/ PublishThrows(r) PROVE Claims /\ Valids
  <2>1. Valids
    BY <1>6 DEF PublishReturns, PublishThrows, ClaimInv, TypeOK, OnlyValidGoesOn,
                AcceptedIsConfirmed, InFlight
  <2> QED
    BY <1>6, <2>1, NoNewClaimNeeded DEF PublishReturns, PublishThrows, ClaimInv, TypeOK
<1>7. ASSUME NEW s \in Stores, NEW k \in Keys, Expire(s, k) PROVE Claims /\ Valids
  <2>1. Valids
    BY <1>7 DEF Expire, ClaimInv, OnlyValidGoesOn, AcceptedIsConfirmed
  <2> QED
    BY <1>7, <2>1, NoNewClaimNeeded DEF Expire, ClaimInv, TypeOK
<1>8. ASSUME NEW i \in Instances, Crash(i) PROVE Claims /\ Valids
  <2>1. Valids
    BY <1>8 DEF Crash, ClaimInv, TypeOK, OnlyValidGoesOn, AcceptedIsConfirmed, InFlight
  <2> QED
    BY <1>8, <2>1, NoNewClaimNeeded DEF Crash, ClaimInv, TypeOK
<1>9. CASE UNCHANGED vars
  <2>1. Valids
    BY <1>9 DEF vars, ClaimInv, OnlyValidGoesOn, AcceptedIsConfirmed
  <2> QED
    BY <1>9, <2>1, NoNewClaimNeeded DEF vars
<1> QED
  BY <1>1, <1>2, <1>3, <1>4, <1>5, <1>6, <1>7, <1>8, <1>9 DEF Next, Step

\* An answer "duplicate" always has another request of the same key behind it,
\* whose event the broker has, which is publishing, or which itself got an
\* error or no answer.  Where no other user has the key, it is of the same user:
\* then no event is lost with every one of its clients told it was accepted.
THEOREM LossesAreVisible == Spec => []LossIsVisible
<1>1. ClaimInv => LossIsVisible
  BY DEF ClaimInv, DuplicatesHaveARival, AcceptedIsConfirmed, Claimed, Accounted, Repeats,
         Rivals, LossIsVisible
<1> QED
  BY <1>1, InitClaim, StepClaim, PTL DEF Spec
============================================================================
