----------------------------- MODULE SeatLedger -----------------------------
(***************************************************************************)
(* What the seat accounting of trips and bookings promises, without locks, *)
(* transactions, requests or jobs: every trip offers a capacity, a claim   *)
(* takes seats of one trip only when they fit beside the seats already     *)
(* taken, it gives them back at most once, and the capacity changes only   *)
(* while nobody holds a seat.                                              *)
(***************************************************************************)
EXTENDS Integers, FiniteSets

CONSTANTS Trips,    \* trips whose seats are accounted for
          Claims,   \* bookings, each at most one claim on seats
          Counts,   \* numbers of seats, positive, a trip may offer or a claim may take
          NoTrip    \* the trip of a claim not made yet

VARIABLES capacity, \* seats a trip offers, 0 before it is published
          claim     \* [state, trip, seats] of every claim

ledgerVars == <<capacity, claim>>

ClaimStates == {"unused", "held", "returned"}

\* The seats taken on trip t, one element per seat.
Taken(t) ==
    UNION {{c} \X (1..claim[c].seats) :
              c \in {k \in Claims : claim[k].state = "held" /\ claim[k].trip = t}}

LedgerInit ==
    /\ capacity = [t \in Trips |-> 0]
    /\ claim = [c \in Claims |-> [state |-> "unused", trip |-> NoTrip, seats |-> 0]]

\* A trip's capacity is set while none of its seats is taken.
Offer(t, n) ==
    /\ Taken(t) = {}
    /\ capacity' = [capacity EXCEPT ![t] = n]
    /\ UNCHANGED claim

\* n seats of t that fit are taken by the unused claim c.
Take(c, t, n) ==
    /\ claim[c].state = "unused"
    /\ Cardinality(Taken(t)) + n <= capacity[t]
    /\ claim' = [claim EXCEPT ![c] = [state |-> "held", trip |-> t, seats |-> n]]
    /\ UNCHANGED capacity

\* The seats of c are free again, once.
GiveBack(c) ==
    /\ claim[c].state = "held"
    /\ claim' = [claim EXCEPT ![c].state = "returned"]
    /\ UNCHANGED capacity

LedgerNext ==
    \/ \E t \in Trips, n \in Counts : Offer(t, n)
    \/ \E c \in Claims, t \in Trips, n \in Counts : Take(c, t, n)
    \/ \E c \in Claims : GiveBack(c)

LedgerSpec == LedgerInit /\ [][LedgerNext]_ledgerVars
=============================================================================
