---------------------------- MODULE EventLedger ----------------------------
(***************************************************************************)
(* What the path from POST /action to user_actions promises, whatever      *)
(* happens on it: an event answered "accepted" has reached the broker; of  *)
(* the events of one user under one key at most one is ever stored, and it *)
(* stays; an event the broker took is given up only for that one row, and  *)
(* is lost only where the broker may lose messages, queue or binding.      *)
(***************************************************************************)
EXTENDS TLAPS

CONSTANTS
    Events,       \* one for each request
    MayLose       \* the broker may lose what it holds, and have no queue for what comes

VARIABLES
    fate,         \* fate[e]: where e is
    accepted,     \* the events whose client was told 202, not a duplicate
    label         \* label[e]: the user and the key e is filed under

ledgerVars == <<fate, accepted, label>>

\* outside: not (yet) at the broker; gone: given up, for its key has a row; lost:
\* taken over by the broker, and no longer there.
Fates == {"outside", "pending", "stored", "gone", "lost"}

Filed(e) == \E d \in Events : fate[d] = "stored" /\ label[d] = label[e]

Init ==
    /\ fate = [e \in Events |-> "outside"]
    /\ accepted = {}

Move(E, to) == fate' = [e \in Events |-> IF e \in E THEN to ELSE fate[e]]

Enter(e) ==
    /\ fate[e] = "outside"
    /\ Move({e}, "pending") \/ (MayLose /\ Move({e}, "lost"))
    /\ UNCHANGED <<accepted, label>>

Accept(e) ==
    /\ fate[e] # "outside" /\ e \notin accepted
    /\ accepted' = accepted \cup {e}
    /\ UNCHANGED <<fate, label>>

Store(e) ==
    /\ fate[e] = "pending" /\ ~Filed(e)
    /\ Move({e}, "stored")
    /\ UNCHANGED <<accepted, label>>

\* The events of D leave together, those of L because the broker lost them.
GiveUp(D, L) ==
    /\ \A e \in D : fate[e] = "pending"
    /\ L \subseteq D /\ (L # {} => MayLose)
    /\ \A e \in D \ L : Filed(e)
    /\ fate' = [e \in Events |->
                   IF e \in L THEN "lost" ELSE IF e \in D THEN "gone" ELSE fate[e]]
    /\ UNCHANGED <<accepted, label>>

Next ==
    \/ \E e \in Events : Enter(e) \/ Accept(e) \/ Store(e)
    \/ \E D, L \in SUBSET Events : GiveUp(D, L)

Spec == Init /\ [][Next]_ledgerVars
----------------------------------------------------------------------------
\* What is accepted has reached the broker; of those under one label at most one is
\* stored; none is gone but for that one, and none lost by a broker that keeps what
\* it took (kInsertUserAction with its ON CONFLICT, PublishReliable).
Promise ==
    /\ \A e \in accepted : fate[e] # "outside"
    /\ \A d, e \in Events :
          fate[d] = "stored" /\ fate[e] = "stored" /\ label[d] = label[e] => d = e
    /\ \A e \in Events : fate[e] = "gone" => Filed(e)
    /\ \A e \in Events : fate[e] = "lost" => MayLose

\* What is stored stays, under its user and key (no statement deletes a row).
RowsStay ==
    [][\A e \in Events :
          fate[e] = "stored" => fate'[e] = "stored" /\ label'[e] = label[e]]_ledgerVars

LedgerInv == fate \in [Events -> Fates] /\ accepted \subseteq Events /\ Promise

\* Moving events that are not stored yet keeps it: each to a fate it is ready for.
LEMMA MoveKeepsInv ==
    ASSUME LedgerInv, UNCHANGED <<accepted, label>>, fate' \in [Events -> Fates],
           \A e \in Events : \/ fate'[e] = fate[e]
                            \/ /\ fate[e] \in {"outside", "pending"} /\ fate'[e] # "outside"
                               /\ fate'[e] = "gone" => Filed(e)
                               /\ fate'[e] = "lost" => MayLose,
           \A e \in Events : fate'[e] = "stored" /\ fate[e] # "stored" =>
               ~Filed(e) /\ \A d \in Events \ {e} : fate'[d] = fate[d]
    PROVE  LedgerInv'
<1>1. \A e \in Events : fate[e] = "stored" => fate'[e] = "stored"
  OBVIOUS
<1>2. \A e \in Events : Filed(e) => Filed(e)'
  BY <1>1 DEF Filed
<1>3. \A e \in accepted' : fate'[e] # "outside"
  BY DEF LedgerInv, Promise
<1>4. ASSUME NEW d \in Events, NEW e \in Events,
             fate'[d] = "stored", fate'[e] = "stored", label[d] = label[e]
      PROVE  d = e
  BY <1>4 DEF LedgerInv, Promise, Filed
<1>5. \A e \in Events : (fate'[e] = "gone" => Filed(e)') /\ (fate'[e] = "lost" => MayLose)
  BY <1>2 DEF LedgerInv, Promise
<1>. QED
  BY <1>3, <1>4, <1>5 DEF LedgerInv, Promise

\* The promises follow from the steps of the ledger alone.
THEOREM LedgerKeepsPromise == Spec => []Promise
<1>1. Init => LedgerInv
  BY DEF Init, LedgerInv, Promise, Fates
<1>2. LedgerInv /\ [Next]_ledgerVars => LedgerInv'
  <2>1. SUFFICES ASSUME LedgerInv, [Next]_ledgerVars PROVE LedgerInv'
    OBVIOUS
  <2>2. CASE UNCHANGED ledgerVars
    BY <2>1, <2>2 DEF ledgerVars, LedgerInv, Promise, Filed
  <2>3. ASSUME NEW e \in Events, Enter(e) PROVE LedgerInv'
    BY <2>1, <2>3, MoveKeepsInv DEF Enter, Move, Fates, LedgerInv
  <2>4. ASSUME NEW e \in Events, Accept(e) PROVE LedgerInv'
    BY <2>1, <2>4 DEF Accept, LedgerInv, Promise, Filed
  <2>5. ASSUME NEW e \in Events, Store(e) PROVE LedgerInv'
    BY <2>1, <2>5, MoveKeepsInv DEF Store, Move, Fates, LedgerInv
  <2>6. ASSUME NEW D \in SUBSET Events, NEW L \in SUBSET Events, GiveUp(D, L) PROVE LedgerInv'
    BY <2>1, <2>6, MoveKeepsInv DEF GiveUp, Fates, LedgerInv
  <2>. QED
    BY <2>1, <2>2, <2>3, <2>4, <2>5, <2>6 DEF Next
<1>3. LedgerInv => Promise
  BY DEF LedgerInv
<1>. QED
  BY <1>1, <1>2, <1>3, PTL DEF Spec

\* No step of the ledger takes a row away.
THEOREM LedgerRowsStay == Spec => RowsStay
<1> DEFINE A == \A e \in Events :
                   fate[e] = "stored" => fate'[e] = "stored" /\ label'[e] = label[e]
<1>1. [Next]_ledgerVars => [A]_ledgerVars
  BY DEF Next, Enter, Accept, Store, GiveUp, Move
<1>. QED
  BY <1>1, PTL DEF Spec, RowsStay
============================================================================
