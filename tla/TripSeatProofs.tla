--------------------------- MODULE TripSeatProofs ---------------------------
(***************************************************************************)
(* The seat accounting of TripBooking is right for any number of trips,    *)
(* bookings, processes and seats: counts and bookings agree on every trip  *)
(* that no edit resized under its bookings, and as long as no edit does,   *)
(* TripBooking implements SeatLedger.                                      *)
(***************************************************************************)
EXTENDS TripHistoryProofs

-----------------------------------------------------------------------------
(* Counting seats *)

\* The seats of one booking are as many as it says.
LEMMA BlockSize ==
  ASSUME NEW b, NEW n \in Nat
  PROVE  IsFiniteSet({b} \X (1..n)) /\ Cardinality({b} \X (1..n)) = n
<1>1. IsFiniteSet({b}) /\ Cardinality({b}) = 1
  BY FS_Singleton
<1>2. IsFiniteSet(1..n) /\ Cardinality(1..n) = n
  BY FS_Interval
<1>3. /\ IsFiniteSet({b} \X (1..n))
      /\ Cardinality({b} \X (1..n)) = Cardinality({b}) * Cardinality(1..n)
  BY <1>1, <1>2, FS_Product
<1> QED BY <1>1, <1>2, <1>3

\* Disjoint finite sets add up, and a part counts what it takes from the whole.
LEMMA DisjointCount ==
  ASSUME NEW S, NEW T, IsFiniteSet(S), IsFiniteSet(T), S \cap T = {}
  PROVE  IsFiniteSet(S \cup T) /\ Cardinality(S \cup T) = Cardinality(S) + Cardinality(T)
<1>1. Cardinality(S \cap T) = 0
  BY FS_EmptySet
<1>2. /\ IsFiniteSet(S \cup T)
      /\ Cardinality(S \cup T) = Cardinality(S) + Cardinality(T) - Cardinality(S \cap T)
  BY FS_Union
<1>3. Cardinality(S) \in Nat /\ Cardinality(T) \in Nat
  BY FS_CardinalityType
<1> QED BY <1>1, <1>2, <1>3

\* A part of a finite set and the rest of it add up.
LEMMA PartCount ==
  ASSUME NEW S, NEW T, IsFiniteSet(S), T \subseteq S
  PROVE  IsFiniteSet(S \ T) /\ Cardinality(S \ T) = Cardinality(S) - Cardinality(T)
<1>1. S \cap T = T
  OBVIOUS
<1>2. IsFiniteSet(S \ T) /\ Cardinality(S \ T) = Cardinality(S) - Cardinality(S \cap T)
  BY FS_Difference
<1> QED BY <1>1, <1>2

\* A booking that stays on its trip with its seats, and holds them or not as
\* before, changes nothing of the seats held.
LEMMA HeldSame ==
  ASSUME \A b \in Bookings :
            /\ booking'[b].trip = booking[b].trip
            /\ booking'[b].seats = booking[b].seats
            /\ booking'[b].status \in HoldingStatuses <=> booking[b].status \in HoldingStatuses
  PROVE  \A t \in Trips : HeldSeats(t)' = HeldSeats(t)
<1> SUFFICES ASSUME NEW t \in Trips PROVE HeldSeats(t)' = HeldSeats(t)
  OBVIOUS
<1>1. BookingsOn(t, HoldingStatuses)' = BookingsOn(t, HoldingStatuses)
  BY DEF BookingsOn
<1>2. \A b \in BookingsOn(t, HoldingStatuses) : booking'[b].seats = booking[b].seats
  BY DEF BookingsOn
<1> QED BY <1>1, <1>2 DEF HeldSeats

\* A new booking adds its own seats to those of its trip.
LEMMA HeldGrows ==
  ASSUME NEW b \in Bookings, NEW t \in Trips, NEW n \in Nat,
         booking[b].status \notin HoldingStatuses,
         booking'[b].trip = t, booking'[b].seats = n, booking'[b].status \in HoldingStatuses,
         \A c \in Bookings \ {b} : booking'[c] = booking[c]
  PROVE  /\ HeldSeats(t)' = HeldSeats(t) \cup ({b} \X (1..n))
         /\ HeldSeats(t) \cap ({b} \X (1..n)) = {}
         /\ \A u \in Trips \ {t} : HeldSeats(u)' = HeldSeats(u)
<1>1. /\ BookingsOn(t, HoldingStatuses)' = BookingsOn(t, HoldingStatuses) \cup {b}
      /\ b \notin BookingsOn(t, HoldingStatuses)
  BY DEF BookingsOn
<1>2. \A c \in BookingsOn(t, HoldingStatuses) : booking'[c].seats = booking[c].seats
  BY <1>1 DEF BookingsOn
<1>3. HeldSeats(t)' = HeldSeats(t) \cup ({b} \X (1..n))
  BY <1>1, <1>2 DEF HeldSeats
<1>4. HeldSeats(t) \cap ({b} \X (1..n)) = {}
  BY <1>1 DEF HeldSeats
<1>5. ASSUME NEW u \in Trips \ {t} PROVE HeldSeats(u)' = HeldSeats(u)
  <2>1. BookingsOn(u, HoldingStatuses)' = BookingsOn(u, HoldingStatuses)
    BY DEF BookingsOn
  <2>2. \A c \in BookingsOn(u, HoldingStatuses) : booking'[c].seats = booking[c].seats
    BY DEF BookingsOn
  <2> QED BY <2>1, <2>2 DEF HeldSeats
<1> QED BY <1>3, <1>4, <1>5

\* A booking that ends without being completed gives back its own seats, no others.
LEMMA HeldShrinks ==
  ASSUME NEW b \in Bookings, NEW t \in Trips,
         booking[b].trip = t, booking[b].status \in HoldingStatuses,
         booking'[b].status \notin HoldingStatuses,
         \A c \in Bookings : /\ booking'[c].trip = booking[c].trip
                             /\ booking'[c].seats = booking[c].seats
                             /\ c # b => booking'[c].status = booking[c].status
  PROVE  /\ HeldSeats(t)' = HeldSeats(t) \ ({b} \X (1..booking[b].seats))
         /\ {b} \X (1..booking[b].seats) \subseteq HeldSeats(t)
         /\ \A u \in Trips \ {t} : HeldSeats(u)' = HeldSeats(u)
<1>1. /\ BookingsOn(t, HoldingStatuses)' = BookingsOn(t, HoldingStatuses) \ {b}
      /\ b \in BookingsOn(t, HoldingStatuses)
  BY DEF BookingsOn
<1>2. \A c \in BookingsOn(t, HoldingStatuses) : booking'[c].seats = booking[c].seats
  BY DEF BookingsOn
<1>3. HeldSeats(t)' = HeldSeats(t) \ ({b} \X (1..booking[b].seats))
  BY <1>1, <1>2 DEF HeldSeats
<1>4. {b} \X (1..booking[b].seats) \subseteq HeldSeats(t)
  BY <1>1 DEF HeldSeats
<1>5. ASSUME NEW u \in Trips \ {t} PROVE HeldSeats(u)' = HeldSeats(u)
  <2>1. BookingsOn(u, HoldingStatuses)' = BookingsOn(u, HoldingStatuses)
    BY DEF BookingsOn
  <2>2. \A c \in BookingsOn(u, HoldingStatuses) : booking'[c].seats = booking[c].seats
    BY DEF BookingsOn
  <2> QED BY <2>1, <2>2 DEF HeldSeats
<1> QED BY <1>3, <1>4, <1>5

\* A trip without a row has no seats held.
LEMMA NoRowNoSeats ==
  ASSUME CoreInv, NEW t \in Trips, trip[t].status = "absent"
  PROVE  HeldSeats(t) = {}
<1>1. BookingsOn(t, HoldingStatuses) = {}
  BY DEF BookingsOn, HoldingStatuses, CoreInv, RowsLinked
<1> QED BY <1>1 DEF HeldSeats

-----------------------------------------------------------------------------
(* The inductive invariant *)

\* The seats of every trip can be counted, and unless an edit clobbered the trip
\* they make up its total with the seats it advertises as free.
SeatInv ==
    \A t \in Trips :
        /\ IsFiniteSet(HeldSeats(t))
        /\ t \notin clobbered => trip[t].avail + Cardinality(HeldSeats(t)) = trip[t].total

\* Nothing is advertised and nothing held before the first trip.
LEMMA InitSeats == Init => SeatInv
<1> SUFFICES ASSUME Init, NEW t \in Trips
             PROVE  /\ IsFiniteSet(HeldSeats(t))
                    /\ trip[t].avail + Cardinality(HeldSeats(t)) = trip[t].total
  BY DEF SeatInv
<1>1. BookingsOn(t, HoldingStatuses) = {}
  BY DEF Init, BookingsOn, NoBookingRow, HoldingStatuses
<1>2. HeldSeats(t) = {}
  BY <1>1 DEF HeldSeats
<1> QED BY <1>2, FS_EmptySet DEF Init, NoTripRow

\* A step that touches neither counts nor held seats.
LEMMA SeatsUntouched ==
  ASSUME SeatInv,
         \A b \in Bookings :
            /\ booking'[b].trip = booking[b].trip
            /\ booking'[b].seats = booking[b].seats
            /\ booking'[b].status \in HoldingStatuses <=> booking[b].status \in HoldingStatuses,
         \A t \in Trips : trip'[t].avail = trip[t].avail /\ trip'[t].total = trip[t].total,
         UNCHANGED clobbered
  PROVE  SeatInv'
<1>1. \A t \in Trips : HeldSeats(t)' = HeldSeats(t)
  BY HeldSame
<1> SUFFICES ASSUME NEW t \in Trips
             PROVE  /\ IsFiniteSet(HeldSeats(t)')
                    /\ t \notin clobbered' =>
                          trip'[t].avail + Cardinality(HeldSeats(t)') = trip'[t].total
  BY DEF SeatInv
<1> QED BY <1>1 DEF SeatInv

-----------------------------------------------------------------------------
(* The steps that move seats *)

\* The seats of a new booking are those the count loses.
LEMMA CreateBookingKeepsSeats ==
  ASSUME CoreInv, SeatInv, NEW h \in Handlers, CreateBooking(h)
  PROVE  SeatInv'
<1>1. h \in Procs /\ proc[h].pc = "locked" /\ proc[h].op = "createBooking" /\ CommitSeats(h)
  BY DEF CreateBooking, At, Procs
<1>0. PICK t \in Trips, n \in Nat : t = proc[h].trip /\ n = proc[h].seats
  BY <1>1 DEF CoreInv, TypeOK, RequestsValid, BookingPcs, Processes
<1>2. PICK b \in Bookings :
         /\ booking[b].status = "absent"
         /\ booking' = [booking EXCEPT ![b] =
               [status |-> "pending", trip |-> proc[h].trip, passenger |-> proc[h].user,
                seats |-> proc[h].seats, hold |-> "running"]]
  BY DEF CreateBooking
<1>3. booking \in [Bookings -> BookingRows] /\ UNCHANGED clobbered
  BY DEF CoreInv, TypeOK, CreateBooking
<1>4. /\ booking'[b].trip = t /\ booking'[b].seats = n /\ booking'[b].status \in HoldingStatuses
      /\ booking[b].status \notin HoldingStatuses
      /\ \A c \in Bookings \ {b} : booking'[c] = booking[c]
  BY <1>0, <1>2, <1>3 DEF HoldingStatuses
<1>5. /\ SeatDelta(h) = -n
      /\ trip'[t].avail = trip[t].avail + SeatDelta(h)
      /\ \A u \in Trips : trip'[u].total = trip[u].total
      /\ \A u \in Trips \ {t} : trip'[u] = trip[u]
  BY <1>0, <1>1, CommitSeatsEffect DEF SeatDelta
<1>6. /\ HeldSeats(t)' = HeldSeats(t) \cup ({b} \X (1..n))
      /\ HeldSeats(t) \cap ({b} \X (1..n)) = {}
      /\ \A u \in Trips \ {t} : HeldSeats(u)' = HeldSeats(u)
  BY <1>3, <1>4, <1>5, HeldGrows
<1>7. IsFiniteSet({b} \X (1..n)) /\ Cardinality({b} \X (1..n)) = n
  BY <1>3, BlockSize
<1>8. IsFiniteSet(HeldSeats(t)) /\ Cardinality(HeldSeats(t)) \in Nat
  BY <1>5, FS_CardinalityType DEF SeatInv
<1>9. IsFiniteSet(HeldSeats(t)') /\ Cardinality(HeldSeats(t)') = Cardinality(HeldSeats(t)) + n
  <2>1. /\ IsFiniteSet(HeldSeats(t) \cup ({b} \X (1..n)))
        /\ Cardinality(HeldSeats(t) \cup ({b} \X (1..n))) =
              Cardinality(HeldSeats(t)) + Cardinality({b} \X (1..n))
    BY <1>6, <1>7, <1>8, DisjointCount
  <2> QED BY <1>6, <1>7, <2>1
<1>10. trip[t].avail \in Nat /\ trip[t].total \in Nat
  BY <1>5 DEF CoreInv, TypeOK, TripRows
<1> SUFFICES ASSUME NEW u \in Trips
             PROVE  /\ IsFiniteSet(HeldSeats(u)')
                    /\ u \notin clobbered' =>
                          trip'[u].avail + Cardinality(HeldSeats(u)') = trip'[u].total
  BY DEF SeatInv
<1>11. CASE u = t
  BY <1>3, <1>5, <1>8, <1>9, <1>10, <1>11 DEF SeatInv
<1>12. CASE u # t
  BY <1>3, <1>5, <1>6, <1>12 DEF SeatInv
<1> QED BY <1>11, <1>12

\* Rejecting, cancelling and expiring a booking.
LEMMA GiveBackKeepsSeats ==
  ASSUME CoreInv, SeatInv, NEW p \in Procs, proc[p].pc = "locked",
         proc[p].op \notin {"createBooking", "acceptBooking"},
         booking[proc[p].booking].status \in ActiveStatuses,
         CommitSeats(p), NEW status \in {"rejected", "cancelled", "expired"},
         SetBooking(proc[p].booking, status), UNCHANGED clobbered
  PROVE  SeatInv'
<1>0. PICK t \in Trips, b \in Bookings : t = proc[p].trip /\ b = proc[p].booking
  BY DEF CoreInv, RequestsValid, BookingPcs
<1>1. PICK n \in Nat : n = booking[b].seats
  BY DEF CoreInv, TypeOK, BookingRows
<1>2. SeatDelta(p) = n /\ booking[b].trip = t /\ booking[b].status # "absent"
  BY <1>0, <1>1 DEF SeatDelta, CoreInv, RequestsValid, BookingPcs
<1>3. /\ trip'[t].avail = trip[t].avail + n
      /\ \A u \in Trips : trip'[u].total = trip[u].total
      /\ \A u \in Trips \ {t} : trip'[u] = trip[u]
  BY <1>0, <1>2, CommitSeatsEffect
<1>4. /\ status \in BookingStatuses \ {"absent"} /\ status \notin HoldingStatuses
      /\ booking[b].status \in HoldingStatuses
  BY <1>0 DEF BookingStatuses, ActiveStatuses, TerminalStatuses, HoldingStatuses
<1>5. \A c \in Bookings : /\ booking'[c].trip = booking[c].trip
                          /\ booking'[c].seats = booking[c].seats
                          /\ booking'[c].status = IF c = b THEN status ELSE booking[c].status
  BY <1>0, <1>2, <1>4, SetBookingEffect
<1>6. /\ HeldSeats(t)' = HeldSeats(t) \ ({b} \X (1..n))
      /\ {b} \X (1..n) \subseteq HeldSeats(t)
      /\ \A u \in Trips \ {t} : HeldSeats(u)' = HeldSeats(u)
  BY <1>1, <1>2, <1>4, <1>5, HeldShrinks
<1>7. IsFiniteSet({b} \X (1..n)) /\ Cardinality({b} \X (1..n)) = n
  BY <1>1, BlockSize
<1>8. IsFiniteSet(HeldSeats(t)) /\ Cardinality(HeldSeats(t)) \in Nat
  BY <1>1, FS_CardinalityType DEF SeatInv
<1>9. IsFiniteSet(HeldSeats(t)') /\ Cardinality(HeldSeats(t)') = Cardinality(HeldSeats(t)) - n
  <2>1. /\ IsFiniteSet(HeldSeats(t) \ ({b} \X (1..n)))
        /\ Cardinality(HeldSeats(t) \ ({b} \X (1..n))) =
              Cardinality(HeldSeats(t)) - Cardinality({b} \X (1..n))
    BY <1>6, <1>8, PartCount
  <2> QED BY <1>1, <1>6, <1>7, <2>1
<1>10. trip[t].avail \in Nat /\ trip[t].total \in Nat
  BY <1>1 DEF CoreInv, TypeOK, TripRows
<1> SUFFICES ASSUME NEW u \in Trips
             PROVE  /\ IsFiniteSet(HeldSeats(u)')
                    /\ u \notin clobbered' =>
                          trip'[u].avail + Cardinality(HeldSeats(u)') = trip'[u].total
  BY DEF SeatInv
<1>11. CASE u = t
  BY <1>3, <1>8, <1>9, <1>10, <1>11 DEF SeatInv
<1>12. CASE u # t
  BY <1>3, <1>6, <1>12 DEF SeatInv
<1> QED BY <1>11, <1>12

\* Accepting a booking moves no seat.
LEMMA AcceptBookingKeepsSeats ==
  ASSUME CoreInv, SeatInv, NEW h \in Handlers, AcceptBooking(h)
  PROVE  SeatInv'
<1>1. /\ h \in Procs /\ proc[h].pc = "locked" /\ proc[h].op = "acceptBooking"
      /\ CommitSeats(h) /\ SetBooking(proc[h].booking, "accepted")
      /\ booking[proc[h].booking].status = "pending" /\ UNCHANGED clobbered
  BY DEF AcceptBooking, MayAccept, Undecided, EndBooking, At, Procs
<1>2. proc[h].booking \in Bookings
  BY <1>1 DEF CoreInv, RequestsValid, BookingPcs
<1>3. SeatDelta(h) = 0
  BY <1>1 DEF SeatDelta
<1>4. \A t \in Trips : trip'[t].avail = trip[t].avail /\ trip'[t].total = trip[t].total
  BY <1>1, <1>3, CommitSeatsEffect DEF CoreInv, TypeOK, TripRows
<1>5. "accepted" \in BookingStatuses \ {"absent"}
  BY DEF BookingStatuses, ActiveStatuses
<1>6. \A b \in Bookings :
         /\ booking'[b].trip = booking[b].trip
         /\ booking'[b].seats = booking[b].seats
         /\ booking'[b].status \in HoldingStatuses <=> booking[b].status \in HoldingStatuses
  BY <1>1, <1>2, <1>5, SetBookingEffect DEF HoldingStatuses
<1> QED BY <1>1, <1>4, <1>6, SeatsUntouched

\* The decisions and the cancellation of a booking account for its seats.
LEMMA EndBookingKeepsSeats ==
  ASSUME CoreInv, SeatInv, NEW h \in Handlers, RejectBooking(h) \/ CancelBooking(h)
  PROVE  SeatInv'
<1>1. PICK status \in {"rejected", "cancelled"} : EndBooking(h, status)
  BY DEF RejectBooking, CancelBooking
<1>2. /\ h \in Procs /\ proc[h].pc = "locked"
      /\ proc[h].op \notin {"createBooking", "acceptBooking"}
      /\ booking[proc[h].booking].status \in ActiveStatuses
  BY DEF RejectBooking, CancelBooking, MayReject, MayCancel, Undecided, ActiveStatuses, At, Procs
<1> QED BY <1>1, <1>2, GiveBackKeepsSeats DEF EndBooking

\* An expiry gives back the seats of its booking.
LEMMA ExpireBookingKeepsSeats ==
  ASSUME CoreInv, SeatInv, NEW s \in Sweeps, ExpireBooking(s)
  PROVE  SeatInv'
<1>1. /\ s \in Procs /\ proc[s].pc = "locked" /\ proc[s].op = "expire"
      /\ booking[proc[s].booking].status \in ActiveStatuses
  BY DEF ExpireBooking, Undecided, ActiveStatuses, At, Procs
<1> QED BY <1>1, GiveBackKeepsSeats DEF ExpireBooking

\* A trip is published with all of its seats free, and nobody holds any.
LEMMA CreateTripKeepsSeats ==
  ASSUME CoreInv, SeatInv, NEW h \in Handlers, CreateTrip(h)
  PROVE  SeatInv'
<1>1. PICK t \in Trips :
         /\ trip[t].status = "absent"
         /\ trip' = [trip EXCEPT ![t] = [status |-> "open", driver |-> proc[h].user,
                                         total |-> proc[h].seats, avail |-> proc[h].seats]]
  BY DEF CreateTrip
<1>2. UNCHANGED <<booking, clobbered>> /\ proc[h].seats \in Nat
  BY DEF CreateTrip, CoreInv, TypeOK, Processes, Procs
<1>3. /\ trip'[t].avail = proc[h].seats /\ trip'[t].total = proc[h].seats
      /\ \A u \in Trips \ {t} : trip'[u] = trip[u]
  BY <1>1 DEF CoreInv, TypeOK
<1>4. \A u \in Trips : HeldSeats(u)' = HeldSeats(u)
  BY <1>2, HeldSame
<1>5. HeldSeats(t) = {} /\ IsFiniteSet({}) /\ Cardinality({}) = 0
  BY <1>1, NoRowNoSeats, FS_EmptySet
<1> SUFFICES ASSUME NEW u \in Trips
             PROVE  /\ IsFiniteSet(HeldSeats(u)')
                    /\ u \notin clobbered' =>
                          trip'[u].avail + Cardinality(HeldSeats(u)') = trip'[u].total
  BY DEF SeatInv
<1>6. CASE u = t
  BY <1>2, <1>3, <1>4, <1>5, <1>6
<1>7. CASE u # t
  BY <1>2, <1>3, <1>4, <1>7 DEF SeatInv
<1> QED BY <1>6, <1>7

\* An edit either finds no seat held, or marks the trip as clobbered.
LEMMA UpdateTripKeepsSeats ==
  ASSUME CoreInv, SeatInv, NEW h \in Handlers, UpdateTrip(h)
  PROVE  SeatInv'
<1>1. /\ h \in Procs /\ proc[h].op = "updateTrip"
  BY DEF UpdateTrip, At, Procs
<1>2. PICK t \in Trips, n \in Nat : t = proc[h].trip /\ n = proc[h].seats
  BY <1>1 DEF CoreInv, TypeOK, Processes, TripRequestsValid, TripRequest, TripOps
<1>3. /\ trip' = IF n = 0 THEN trip ELSE [trip EXCEPT ![t] = Resized(trip[t], n)]
      /\ clobbered' = IF n # 0 /\ HeldSeats(t) # {} THEN clobbered \cup {t} ELSE clobbered
      /\ UNCHANGED booking
  BY <1>2 DEF UpdateTrip, CoreInv, TypeOK
<1>4. \A u \in Trips : HeldSeats(u)' = HeldSeats(u)
  BY <1>3, HeldSame
<1>5. trip[t] \in TripRows
  BY DEF CoreInv, TypeOK
<1>6. /\ n # 0 => trip'[t].avail = n /\ trip'[t].total = n
      /\ n = 0 => trip'[t] = trip[t]
      /\ \A u \in Trips \ {t} : trip'[u] = trip[u]
  BY <1>3, <1>5, ResizedRow DEF CoreInv, TypeOK
<1>7. IsFiniteSet({}) /\ Cardinality({}) = 0
  BY FS_EmptySet
<1> SUFFICES ASSUME NEW u \in Trips
             PROVE  /\ IsFiniteSet(HeldSeats(u)')
                    /\ u \notin clobbered' =>
                          trip'[u].avail + Cardinality(HeldSeats(u)') = trip'[u].total
  BY DEF SeatInv
<1>8. IsFiniteSet(HeldSeats(u)')
  BY <1>4 DEF SeatInv
<1>9. ASSUME u \notin clobbered'
      PROVE  trip'[u].avail + Cardinality(HeldSeats(u)') = trip'[u].total
  <2>1. CASE u = t /\ n # 0
    <3>1. HeldSeats(t)' = {}
      BY <1>3, <1>4, <1>9, <2>1
    <3> QED BY <1>6, <1>7, <2>1, <3>1
  <2>2. CASE u # t \/ n = 0
    BY <1>3, <1>4, <1>6, <1>9, <2>2 DEF SeatInv
  <2> QED BY <2>1, <2>2
<1> QED BY <1>8, <1>9

\* Starting, cancelling and completing a trip move no seat.
LEMMA TripStatusKeepsSeats ==
  ASSUME CoreInv, SeatInv, NEW h \in Handlers,
         StartTrip(h) \/ CancelTrip(h) \/ CompleteTrip(h)
  PROVE  SeatInv'
<1>1. PICK op \in {"startTrip", "cancelTrip", "completeTrip"},
           status \in {"started", "cancelled", "completed"} : SetTripStatus(h, op, status)
  BY DEF StartTrip, CancelTrip, CompleteTrip
<1>2. status \in TripStatuses \ {"absent"}
  BY DEF TripStatuses
<1>3. /\ \A t \in Trips : trip'[t].avail = trip[t].avail /\ trip'[t].total = trip[t].total
      /\ UNCHANGED clobbered
  BY <1>1, <1>2, SetTripStatusEffect
<1>4. \A b \in Bookings :
         /\ booking'[b].trip = booking[b].trip
         /\ booking'[b].seats = booking[b].seats
         /\ booking'[b].status \in HoldingStatuses <=> booking[b].status \in HoldingStatuses
  <2>1. CASE CompleteTrip(h)
    BY <2>1, CompleteTripEffect DEF HoldingStatuses
  <2>2. CASE UNCHANGED booking
    BY <2>2
  <2> QED BY <2>1, <2>2 DEF StartTrip, CancelTrip
<1> QED BY <1>3, <1>4, SeatsUntouched

\* The clock moves the hold of a booking, not its seats.
LEMMA HoldLapsesKeepsSeats ==
  ASSUME CoreInv, SeatInv, NEW b \in Bookings, HoldLapses(b)
  PROVE  SeatInv'
<1>1. booking \in [Bookings -> BookingRows]
  BY DEF CoreInv, TypeOK
<1>2. booking' = [booking EXCEPT ![b] = [booking[b] EXCEPT !.hold = "lapsed"]]
  BY <1>1 DEF HoldLapses
<1>3. \A c \in Bookings : /\ booking'[c].trip = booking[c].trip
                          /\ booking'[c].seats = booking[c].seats
                          /\ booking'[c].status = booking[c].status
  BY <1>1, <1>2 DEF BookingRows
<1> QED BY <1>3, SeatsUntouched DEF HoldLapses

-----------------------------------------------------------------------------
(* The theorem *)

\* Every step keeps the seats of the trips no edit clobbered in balance.
LEMMA NextKeepsSeats == CoreInv /\ SeatInv /\ [Next]_vars => SeatInv'
<1> SUFFICES ASSUME CoreInv, SeatInv, [Next]_vars PROVE SeatInv'
  OBVIOUS
<1>1. CASE UNCHANGED <<trip, booking, clobbered>>
  BY <1>1, SeatsUntouched
<1>2. ASSUME NEW h \in Handlers, Arrive(h) PROVE UNCHANGED <<trip, booking, clobbered>>
  BY <1>2 DEF Arrive, CallCreateBooking, CallOnBooking, CallCreateTrip, CallOnTrip, Call
<1>3. ASSUME NEW h \in Handlers, BookingStep(h) PROVE SeatInv'
  BY <1>1, <1>3, CreateBookingKeepsSeats, AcceptBookingKeepsSeats, EndBookingKeepsSeats
     DEF BookingStep, LockTrip, Refuse, NotifyBooking
<1>4. ASSUME NEW h \in Handlers, TripStep(h) PROVE SeatInv'
  BY <1>1, <1>4, CreateTripKeepsSeats, UpdateTripKeepsSeats, TripStatusKeepsSeats
     DEF TripStep, ReadOwnedTrip, CountActive, ReadAudience, NotifyTrip
<1>5. ASSUME NEW s \in Sweeps, SweepStep(s) PROVE SeatInv'
  BY <1>1, <1>5, ExpireBookingKeepsSeats
     DEF SweepStep, StartSweep, TakeLapsed, LockTrip, SkipBooking, AbandonSweep
<1>6. ASSUME NEW d \in Suspendable, DecideDriver(d) PROVE UNCHANGED <<trip, booking, clobbered>>
  BY <1>6 DEF DecideDriver
<1>7. ASSUME NEW p \in Faults, Fail(p) PROVE UNCHANGED <<trip, booking, clobbered>>
  BY <1>7 DEF Fail
<1>8. CASE UNCHANGED vars
  BY <1>1, <1>8 DEF vars
<1> QED BY <1>1, <1>2, <1>3, <1>4, <1>5, <1>6, <1>7, <1>8, HoldLapsesKeepsSeats DEF Next

\* The balance holds in every reachable state.
LEMMA SeatInvariant == Spec => []SeatInv
<1>1. Init => SeatInv
  BY InitSeats
<1>2. CoreInv /\ SeatInv /\ [Next]_vars => SeatInv'
  BY NextKeepsSeats
<1> QED BY <1>1, <1>2, CoreInvariant, PTL DEF Spec

\* Whatever bookings, decisions, expiries, trip operations, failures and restarts
\* overlap, on every trip that no edit resized under its bookings the seats
\* advertised as free and the seats held make up the total.
THEOREM SeatsConservedHolds == Spec => []SeatsConserved
<1>1. SeatInv => SeatsConserved
  BY DEF SeatInv, SeatsConserved
<1> QED BY <1>1, SeatInvariant, PTL

-----------------------------------------------------------------------------
(* The ledger in terms of the tables *)

\* What the ledger calls the state of a booking.
StateOf(status) ==
    IF status = "absent" THEN "unused"
    ELSE IF status \in HoldingStatuses THEN "held" ELSE "returned"
ClaimOf(b) == [state |-> StateOf(booking[b].status), trip |-> booking[b].trip,
               seats |-> booking[b].seats]
ClaimMap == [b \in Bookings |-> ClaimOf(b)]
Totals == [t \in Trips |-> trip[t].total]
LedgerCounts == Capacities \cup PartySizes \cup (EditCapacities \ {0})

\* The seats the ledger counts are those held.
LEMMA TakenAreHeld == ASSUME NEW t \in Trips PROVE Ledger!Taken(t) = HeldSeats(t)
<1> DEFINE claims == [b \in Bookings |->
                        [state |-> IF booking[b].status = "absent" THEN "unused"
                                   ELSE IF booking[b].status \in HoldingStatuses THEN "held"
                                   ELSE "returned",
                         trip  |-> booking[b].trip,
                         seats |-> booking[b].seats]]
           taking == {k \in Bookings : claims[k].state = "held" /\ claims[k].trip = t}
<1>1. Ledger!Taken(t) = UNION {{c} \X (1..claims[c].seats) : c \in taking}
  BY DEF Ledger!Taken
<1>2. taking = BookingsOn(t, HoldingStatuses)
  BY DEF BookingsOn, HoldingStatuses
<1>3. \A c \in taking : claims[c].seats = booking[c].seats
  BY DEF BookingsOn
<1> HIDE DEF claims, taking
<1> QED BY <1>1, <1>2, <1>3 DEF HeldSeats

\* The ledger counts as FiniteSets does.
LEMMA SameCount == ASSUME NEW S PROVE Ledger!Cardinality(S) = Cardinality(S)
  BY DEF Ledger!Cardinality, Cardinality

\* A step of the tables that makes a claim is a step of the ledger.
LEMMA TakeIsLedger ==
  ASSUME NEW b \in Bookings, NEW t \in Trips, NEW n \in LedgerCounts,
         StateOf(booking[b].status) = "unused",
         Cardinality(HeldSeats(t)) + n <= trip[t].total,
         ClaimMap' = [ClaimMap EXCEPT ![b] = [state |-> "held", trip |-> t, seats |-> n]],
         Totals' = Totals
  PROVE  Ledger!LedgerNext
<1>1. Ledger!Take(b, t, n)
  BY TakenAreHeld, SameCount DEF Ledger!Take, ClaimMap, ClaimOf, StateOf, Totals
<1> QED BY <1>1 DEF Ledger!LedgerNext, LedgerCounts

\* So is one that gives seats back,
LEMMA GiveBackIsLedger ==
  ASSUME NEW b \in Bookings,
         StateOf(booking[b].status) = "held",
         ClaimMap' = [ClaimMap EXCEPT ![b].state = "returned"],
         Totals' = Totals
  PROVE  Ledger!LedgerNext
<1>1. Ledger!GiveBack(b)
  BY DEF Ledger!GiveBack, ClaimMap, ClaimOf, StateOf, Totals
<1> QED BY <1>1 DEF Ledger!LedgerNext

\* and one that publishes or resizes a trip of which no seat is held.
LEMMA OfferIsLedger ==
  ASSUME NEW t \in Trips, NEW n \in LedgerCounts,
         HeldSeats(t) = {},
         Totals' = [Totals EXCEPT ![t] = n], ClaimMap' = ClaimMap
  PROVE  Ledger!LedgerNext
<1>1. Ledger!Offer(t, n)
  BY TakenAreHeld DEF Ledger!Offer, ClaimMap, ClaimOf, StateOf, Totals
<1> QED BY <1>1 DEF Ledger!LedgerNext, LedgerCounts

\* Everything else leaves the ledger alone.
LEMMA StutterIsLedger ==
  ASSUME Totals' = Totals, ClaimMap' = ClaimMap
  PROVE  UNCHANGED Ledger!ledgerVars
  BY DEF Ledger!ledgerVars, ClaimMap, ClaimOf, StateOf, Totals

-----------------------------------------------------------------------------
(* The steps that move seats *)

\* A booking is a claim that fits.
LEMMA CreateIsLedger ==
  ASSUME CoreInv, SeatInv, clobbered = {}, NEW h \in Handlers, Role(proc[h]), CreateBooking(h)
  PROVE  Ledger!LedgerNext
<1>1. /\ h \in Procs /\ proc[h].pc = "locked" /\ proc[h].op = "createBooking" /\ CommitSeats(h)
  BY DEF CreateBooking, At, Procs
<1>2. PICK t \in Trips, n \in PartySizes : t = proc[h].trip /\ n = proc[h].seats
  BY <1>1 DEF CoreInv, RequestsValid, BookingPcs, Role
<1>3. n \in Nat /\ n \in LedgerCounts
  BY SeatInputsAssumption DEF LedgerCounts
<1>4. PICK b \in Bookings :
        /\ booking[b].status = "absent"
        /\ booking' = [booking EXCEPT ![b] =
              [status |-> "pending", trip |-> proc[h].trip, passenger |-> proc[h].user,
               seats |-> proc[h].seats, hold |-> "running"]]
  BY DEF CreateBooking
<1>5. /\ trip'[t].avail = trip[t].avail - n
      /\ trip'[t].avail \in Nat
      /\ \A u \in Trips : trip'[u].total = trip[u].total
  <2>1. SeatDelta(h) = -n
    BY <1>1, <1>2 DEF SeatDelta
  <2>2. /\ trip' \in [Trips -> TripRows]
        /\ \A u \in Trips : trip'[u].total = trip[u].total
        /\ trip'[t].avail = trip[t].avail + SeatDelta(h)
    BY <1>1, <1>2, CommitSeatsEffect
  <2>3. trip[t].avail \in Nat
    BY DEF CoreInv, TypeOK, TripRows
  <2> QED BY <1>3, <2>1, <2>2, <2>3 DEF TripRows
<1>6. Cardinality(HeldSeats(t)) + n <= trip[t].total
  <2>1. trip[t].avail + Cardinality(HeldSeats(t)) = trip[t].total
    BY DEF SeatInv
  <2>2. Cardinality(HeldSeats(t)) \in Nat /\ trip[t].avail \in Nat
    BY FS_CardinalityType DEF SeatInv, CoreInv, TypeOK, TripRows
  <2> QED BY <1>3, <1>5, <2>1, <2>2
<1>7. ClaimMap' = [ClaimMap EXCEPT ![b] = [state |-> "held", trip |-> t, seats |-> n]]
  <2>1. /\ booking'[b].status = "pending" /\ booking'[b].trip = t /\ booking'[b].seats = n
        /\ \A c \in Bookings \ {b} : booking'[c] = booking[c]
    BY <1>2, <1>4 DEF CoreInv, TypeOK
  <2>2. ClaimOf(b)' = [state |-> "held", trip |-> t, seats |-> n]
    BY <2>1 DEF ClaimOf, StateOf, HoldingStatuses
  <2>3. \A c \in Bookings \ {b} : ClaimOf(c)' = ClaimOf(c)
    BY <2>1 DEF ClaimOf
  <2> QED BY <2>2, <2>3 DEF ClaimMap
<1>8. StateOf(booking[b].status) = "unused" /\ Totals' = Totals
  BY <1>4, <1>5 DEF StateOf, Totals
<1> QED BY <1>3, <1>6, <1>7, <1>8, TakeIsLedger

\* Rejecting, cancelling and expiring give the seats of one booking back.
LEMMA EndIsLedger ==
  ASSUME CoreInv, NEW p \in Procs, proc[p].pc = "locked", proc[p].op # "createBooking",
         booking[proc[p].booking].status \in ActiveStatuses, CommitSeats(p),
         NEW status \in {"rejected", "cancelled", "expired"}, SetBooking(proc[p].booking, status)
  PROVE  Ledger!LedgerNext
<1>1. PICK b \in Bookings : b = proc[p].booking
  BY DEF CoreInv, RequestsValid, BookingPcs
<1>2. /\ status \in BookingStatuses \ {"absent"} /\ booking[b].status # "absent"
      /\ StateOf(status) = "returned" /\ StateOf(booking[b].status) = "held"
  BY <1>1 DEF BookingStatuses, ActiveStatuses, TerminalStatuses, HoldingStatuses, StateOf
<1>3. \A c \in Bookings : /\ booking'[c].trip = booking[c].trip
                          /\ booking'[c].seats = booking[c].seats
                          /\ booking'[c].status = IF c = b THEN status ELSE booking[c].status
  BY <1>1, <1>2, SetBookingEffect
<1>4. ClaimMap' = [ClaimMap EXCEPT ![b].state = "returned"]
  BY <1>2, <1>3 DEF ClaimMap, ClaimOf
<1>5. Totals' = Totals
  BY CommitSeatsEffect DEF Totals
<1> QED BY <1>2, <1>4, <1>5, GiveBackIsLedger

\* Bookings that keep their trip, their seats and what the ledger calls their
\* state leave every claim as it is.
LEMMA SameClaims ==
  ASSUME \A b \in Bookings : /\ booking'[b].trip = booking[b].trip
                             /\ booking'[b].seats = booking[b].seats
                             /\ StateOf(booking'[b].status) = StateOf(booking[b].status)
  PROVE  ClaimMap' = ClaimMap
<1>1. \A b \in Bookings : ClaimOf(b)' = ClaimOf(b)
  BY DEF ClaimOf
<1> QED BY <1>1 DEF ClaimMap

\* An accepted booking keeps the seats it held.
LEMMA AcceptIsLedger ==
  ASSUME CoreInv, NEW h \in Handlers, AcceptBooking(h)
  PROVE  UNCHANGED Ledger!ledgerVars
<1>1. /\ h \in Procs /\ proc[h].pc = "locked" /\ proc[h].op = "acceptBooking"
      /\ CommitSeats(h) /\ SetBooking(proc[h].booking, "accepted")
      /\ booking[proc[h].booking].status = "pending"
  BY DEF AcceptBooking, MayAccept, Undecided, EndBooking, At, Procs
<1>2. proc[h].booking \in Bookings /\ "accepted" \in BookingStatuses \ {"absent"}
  BY <1>1 DEF CoreInv, RequestsValid, BookingPcs, BookingStatuses, ActiveStatuses
<1>3. \A b \in Bookings :
         /\ booking'[b].trip = booking[b].trip
         /\ booking'[b].seats = booking[b].seats
         /\ StateOf(booking'[b].status) = StateOf(booking[b].status)
  BY <1>1, <1>2, SetBookingEffect DEF StateOf, HoldingStatuses
<1>4. Totals' = Totals
  BY <1>1, CommitSeatsEffect DEF Totals
<1> QED BY <1>3, <1>4, SameClaims, StutterIsLedger

\* Publishing a trip offers its seats.
LEMMA CreateTripIsLedger ==
  ASSUME CoreInv, NEW h \in Handlers, Role(proc[h]), CreateTrip(h)
  PROVE  Ledger!LedgerNext
<1>1. PICK t \in Trips :
         /\ trip[t].status = "absent"
         /\ trip' = [trip EXCEPT ![t] = [status |-> "open", driver |-> proc[h].user,
                                         total |-> proc[h].seats, avail |-> proc[h].seats]]
  BY DEF CreateTrip
<1>2. PICK n \in LedgerCounts : n = proc[h].seats
  BY DEF CreateTrip, At, Role, LedgerCounts
<1>3. /\ trip'[t].total = n
      /\ \A u \in Trips \ {t} : trip'[u] = trip[u]
  BY <1>1, <1>2 DEF CoreInv, TypeOK
<1>4. Totals' = [Totals EXCEPT ![t] = n]
  BY <1>3 DEF Totals
<1>5. ClaimMap' = ClaimMap
  BY SameClaims DEF CreateTrip
<1> QED BY <1>1, <1>4, <1>5, NoRowNoSeats, OfferIsLedger

\* So does an edit that finds no seat held.
LEMMA UpdateTripIsLedger ==
  ASSUME CoreInv, clobbered' = {}, NEW h \in Handlers, Role(proc[h]), UpdateTrip(h)
  PROVE  Ledger!LedgerNext \/ UNCHANGED Ledger!ledgerVars
<1>1. /\ h \in Procs /\ proc[h].op = "updateTrip"
  BY DEF UpdateTrip, At, Procs
<1>2. PICK t \in Trips, n \in EditCapacities : t = proc[h].trip /\ n = proc[h].seats
  BY <1>1 DEF CoreInv, Role, TripRequestsValid, TripRequest, TripOps
<1>3. /\ trip' = IF n = 0 THEN trip ELSE [trip EXCEPT ![t] = Resized(trip[t], n)]
      /\ n # 0 => HeldSeats(t) = {}
      /\ UNCHANGED booking
  BY <1>2 DEF UpdateTrip, CoreInv, TypeOK
<1>4. ClaimMap' = ClaimMap
  BY <1>3, SameClaims
<1>5. CASE n = 0
  BY <1>3, <1>4, <1>5, StutterIsLedger DEF Totals
<1>6. CASE n # 0
  <2>1. trip[t] \in TripRows /\ n \in Nat /\ n \in LedgerCounts
    BY <1>6, SeatInputsAssumption DEF CoreInv, TypeOK, LedgerCounts
  <2>2. trip'[t].total = n /\ \A u \in Trips \ {t} : trip'[u] = trip[u]
    BY <1>3, <1>6, <2>1, ResizedRow DEF CoreInv, TypeOK
  <2>3. Totals' = [Totals EXCEPT ![t] = n]
    BY <2>2 DEF Totals
  <2> QED BY <1>3, <1>4, <1>6, <2>1, <2>3, OfferIsLedger
<1> QED BY <1>5, <1>6

\* The other trip operations leave the ledger alone.
LEMMA TripStatusIsLedger ==
  ASSUME CoreInv, NEW h \in Handlers, StartTrip(h) \/ CancelTrip(h) \/ CompleteTrip(h)
  PROVE  UNCHANGED Ledger!ledgerVars
<1>1. PICK op \in {"startTrip", "cancelTrip", "completeTrip"},
           status \in {"started", "cancelled", "completed"} : SetTripStatus(h, op, status)
  BY DEF StartTrip, CancelTrip, CompleteTrip
<1>2. status \in TripStatuses \ {"absent"}
  BY DEF TripStatuses
<1>3. Totals' = Totals
  BY <1>1, <1>2, SetTripStatusEffect DEF Totals
<1>4. ClaimMap' = ClaimMap
  <2>1. CASE CompleteTrip(h)
    BY <2>1, CompleteTripEffect, SameClaims DEF StateOf, HoldingStatuses
  <2>2. CASE UNCHANGED booking
    BY <2>2, SameClaims
  <2> QED BY <2>1, <2>2 DEF StartTrip, CancelTrip
<1> QED BY <1>3, <1>4, StutterIsLedger

\* The clock too.
LEMMA HoldLapsesIsLedger ==
  ASSUME CoreInv, NEW b \in Bookings, HoldLapses(b)
  PROVE  UNCHANGED Ledger!ledgerVars
<1>1. booking \in [Bookings -> BookingRows]
  BY DEF CoreInv, TypeOK
<1>2. booking' = [booking EXCEPT ![b] = [booking[b] EXCEPT !.hold = "lapsed"]]
  BY <1>1 DEF HoldLapses
<1>3. \A c \in Bookings : /\ booking'[c].trip = booking[c].trip
                          /\ booking'[c].seats = booking[c].seats
                          /\ booking'[c].status = booking[c].status
  BY <1>1, <1>2 DEF BookingRows
<1> QED BY <1>3, SameClaims, StutterIsLedger DEF HoldLapses, Totals

-----------------------------------------------------------------------------
(* The theorem *)

\* An empty database is an empty ledger.
LEMMA InitIsLedger == Init => Ledger!LedgerInit
  BY DEF Init, NoTripRow, NoBookingRow, Ledger!LedgerInit

\* Every step is one of the ledger, or none.
LEMMA StepIsLedger ==
  ASSUME CoreInv, SeatInv, NoteInv, clobbered = {}, clobbered' = {}, [Next]_vars
  PROVE  [Ledger!LedgerNext]_Ledger!ledgerVars
<1> DEFINE Maps == Ledger!LedgerNext \/ UNCHANGED Ledger!ledgerVars
<1>1. CASE UNCHANGED <<trip, booking>>
  BY <1>1, SameClaims, StutterIsLedger DEF Totals
<1>2. \A h \in Handlers : h \in Procs /\ Role(proc[h])
  BY DEF Procs, NoteInv, NoteReady
<1>3. ASSUME NEW h \in Handlers, Arrive(h) PROVE UNCHANGED <<trip, booking>>
  BY <1>3 DEF Arrive, CallCreateBooking, CallOnBooking, CallCreateTrip, CallOnTrip, Call
<1>4. ASSUME NEW h \in Handlers, RejectBooking(h) \/ CancelBooking(h) PROVE Maps
  <2>1. PICK status \in {"rejected", "cancelled"} : EndBooking(h, status)
    BY <1>4 DEF RejectBooking, CancelBooking
  <2>2. /\ proc[h].pc = "locked" /\ proc[h].op # "createBooking"
        /\ booking[proc[h].booking].status \in ActiveStatuses
    BY <1>4 DEF RejectBooking, CancelBooking, MayReject, MayCancel, Undecided, ActiveStatuses, At
  <2> QED BY <1>2, <2>1, <2>2, EndIsLedger DEF EndBooking
<1>5. ASSUME NEW h \in Handlers, BookingStep(h) PROVE Maps
  BY <1>1, <1>2, <1>4, <1>5, CreateIsLedger, AcceptIsLedger
     DEF BookingStep, LockTrip, Refuse, NotifyBooking
<1>6. ASSUME NEW h \in Handlers, TripStep(h) PROVE Maps
  BY <1>1, <1>2, <1>6, CreateTripIsLedger, UpdateTripIsLedger, TripStatusIsLedger
     DEF TripStep, ReadOwnedTrip, CountActive, ReadAudience, NotifyTrip
<1>7. ASSUME NEW s \in Sweeps, ExpireBooking(s) PROVE Maps
  <2>1. /\ s \in Procs /\ proc[s].pc = "locked" /\ proc[s].op # "createBooking"
        /\ booking[proc[s].booking].status \in ActiveStatuses
    BY <1>7 DEF ExpireBooking, Undecided, ActiveStatuses, At, Procs
  <2> QED BY <1>7, <2>1, EndIsLedger DEF ExpireBooking
<1>8. ASSUME NEW s \in Sweeps, SweepStep(s) PROVE Maps
  BY <1>1, <1>7, <1>8 DEF SweepStep, StartSweep, TakeLapsed, LockTrip, SkipBooking, AbandonSweep
<1> QED BY <1>1, <1>3, <1>5, <1>6, <1>8, HoldLapsesIsLedger DEF Next, DecideDriver, Fail, vars

\* No edit has resized a trip under its bookings.
NoneClobbered == clobbered = {}

\* The seats of trips and bookings behave as the ledger says, as long as no edit
\* resizes a trip under its bookings: updateTrip, which works without the row
\* lock, is the only operation that can break the accounting, whatever bookings,
\* decisions, expiries, failures and restarts overlap.
THEOREM LedgerImplemented == Spec /\ []NoneClobbered => SeatLedgerRefined
<1>1. Init => Ledger!LedgerInit
  BY InitIsLedger
<1>2. CoreInv /\ SeatInv /\ NoteInv /\ NoneClobbered /\ NoneClobbered' /\ [Next]_vars
        => [Ledger!LedgerNext]_Ledger!ledgerVars
  BY StepIsLedger DEF NoneClobbered
<1> QED BY <1>1, <1>2, SeatInvariant, CoreInvariant, NoteInvariant, PTL
        DEF Spec, SeatLedgerRefined, Ledger!LedgerSpec

\* When edits leave the number of seats alone the ledger is implemented without
\* any condition.
THEOREM LedgerWithoutResizing ==
  ASSUME EditCapacities \subseteq {0}
  PROVE  Spec => SeatLedgerRefined
<1>1. Init => NoneClobbered
  BY DEF Init, NoneClobbered
<1>2. ASSUME NoteInv, NoneClobbered, [Next]_vars PROVE NoneClobbered'
  <2>1. CASE UNCHANGED clobbered
    BY <1>2, <2>1 DEF NoneClobbered
  <2>2. ASSUME NEW h \in Handlers, UpdateTrip(h) PROVE UNCHANGED clobbered
    <3>1. proc[h].seats \in EditCapacities
      BY <1>2, <2>2 DEF UpdateTrip, At, NoteInv, NoteReady, Role, Procs
    <3> QED BY <2>2, <3>1 DEF UpdateTrip
  <2>3. ASSUME NEW h \in Handlers, Arrive(h) PROVE UNCHANGED clobbered
    BY <2>3 DEF Arrive, CallCreateBooking, CallOnBooking, CallCreateTrip, CallOnTrip, Call
  <2>4. ASSUME NEW h \in Handlers, BookingStep(h) PROVE UNCHANGED clobbered
    BY <2>4 DEF BookingStep, LockTrip, CreateBooking, AcceptBooking, RejectBooking,
                CancelBooking, EndBooking, Refuse, NotifyBooking
  <2>5. ASSUME NEW h \in Handlers, TripStep(h) PROVE UNCHANGED clobbered
    BY <2>2, <2>5 DEF TripStep, CreateTrip, ReadOwnedTrip, CountActive, StartTrip, CancelTrip,
                      CompleteTrip, SetTripStatus, ReadAudience, NotifyTrip
  <2>6. ASSUME NEW s \in Sweeps, SweepStep(s) PROVE UNCHANGED clobbered
    BY <2>6 DEF SweepStep, StartSweep, TakeLapsed, LockTrip, ExpireBooking, SkipBooking,
                AbandonSweep
  <2> QED BY <1>2, <2>1, <2>3, <2>4, <2>5, <2>6 DEF Next, HoldLapses, DecideDriver, Fail, vars
<1>3. Spec => []NoneClobbered
  BY <1>1, <1>2, NoteInvariant, PTL DEF Spec
<1> QED BY <1>3, LedgerImplemented, PTL

-----------------------------------------------------------------------------
(* Operations on one trip that do not overlap *)

\* h is between the arrival of an operation on an existing trip and its write.
Checking(h) == proc[h].pc \in {"read", "count", "write"} /\ proc[h].op # "createTrip"

\* No two operations on one trip overlap, and no booking is requested on a trip
\* between the count of its active bookings and the edit that follows.  Decisions
\* and cancellations of bookings, the expiry job and failures overlap everything.
TripsApart ==
    /\ \A g, h \in Handlers : Checking(g) /\ Checking(h) /\ proc[g].trip = proc[h].trip => g = h
    /\ \A g, h \in Handlers :
          At(h, "write", "updateTrip") /\ proc[g].op = "createBooking" /\ proc[g].pc \in BookingPcs
             => proc[g].trip # proc[h].trip

\* A server that handles one request at a time never lets two overlap.
LEMMA OneHandlerTripsApart == (\A g, h \in Handlers : g = h) => TripsApart
  BY DEF TripsApart, At, BookingPcs

\* The status every operation writes.
StatusAfter == [startTrip |-> "started", cancelTrip |-> "cancelled", completeTrip |-> "completed"]

\* The status of t stays, or t is published, or an operation that checked it writes it.
TripLife(t) ==
    \/ trip'[t].status = trip[t].status
    \/ trip[t].status = "absent" /\ trip'[t].status = "open"
    \/ \E h \in Handlers, op \in DOMAIN StatusAfter :
          /\ At(h, "write", op) /\ proc[h].trip = t /\ trip'[t].status = StatusAfter[op]
          /\ proc'[h].pc # "write"

\* The trip operations that write a status.
LEMMA StatusIsLife ==
  ASSUME CoreInv, NEW h \in Handlers, NEW t \in Trips,
         StartTrip(h) \/ CancelTrip(h) \/ CompleteTrip(h)
  PROVE  TripLife(t)
<1>1. PICK op \in DOMAIN StatusAfter : SetTripStatus(h, op, StatusAfter[op])
  BY DEF StartTrip, CancelTrip, CompleteTrip, StatusAfter
<1>2. /\ op \in {"startTrip", "cancelTrip", "completeTrip"}
      /\ StatusAfter[op] \in TripStatuses \ {"absent"}
  BY DEF StatusAfter, TripStatuses
<1>3. /\ At(h, "write", op)
      /\ trip'[t].status = IF t = proc[h].trip THEN StatusAfter[op] ELSE trip[t].status
  BY <1>1, <1>2, SetTripStatusEffect DEF At
<1>4. proc'[h].pc # "write"
  <2>1. h \in Procs /\ proc \in [Procs -> Processes] /\ proc[h] \in Processes
    BY DEF Procs, CoreInv, TypeOK
  <2>2. Goto(h, "notify") \/ Finish(h)
    BY DEF StartTrip, CancelTrip, CompleteTrip
  <2> QED BY <2>1, <2>2 DEF Goto, Finish, Idle, Processes
<1> QED BY <1>3, <1>4 DEF TripLife

\* Whatever step is taken, every trip takes a step of its life.
LEMMA StepsAreTripLife ==
  ASSUME CoreInv, [Next]_vars, NEW t \in Trips
  PROVE  TripLife(t)
<1>1. trip \in [Trips -> TripRows] /\ trip[t] \in TripRows
  BY DEF CoreInv, TypeOK
<1>2. CASE UNCHANGED trip
  BY <1>2 DEF TripLife
<1>3. ASSUME NEW p \in Procs, proc[p].pc = "locked", CommitSeats(p) PROVE TripLife(t)
  BY <1>3, CommitSeatsEffect DEF TripLife
<1>4. ASSUME NEW h \in Handlers, BookingStep(h) PROVE TripLife(t)
  BY <1>2, <1>3, <1>4
     DEF BookingStep, LockTrip, CreateBooking, AcceptBooking, RejectBooking, CancelBooking,
         EndBooking, Refuse, NotifyBooking, Procs, At
<1>5. ASSUME NEW s \in Sweeps, SweepStep(s) PROVE TripLife(t)
  BY <1>2, <1>3, <1>5
     DEF SweepStep, StartSweep, TakeLapsed, LockTrip, ExpireBooking, SkipBooking, AbandonSweep,
         Procs, At
<1>6. ASSUME NEW h \in Handlers, CreateTrip(h) PROVE TripLife(t)
  <2>1. PICK u, d, n :
           /\ u \in Trips /\ trip[u].status = "absent"
           /\ trip' = [trip EXCEPT ![u] = [status |-> "open", driver |-> d, total |-> n, avail |-> n]]
    BY <1>6 DEF CreateTrip
  <2> QED BY <1>1, <2>1 DEF TripLife
<1>7. ASSUME NEW h \in Handlers, UpdateTrip(h) PROVE TripLife(t)
  <2>1. PICK u, n : trip' = trip \/ trip' = [trip EXCEPT ![u] = Resized(@, n)]
    BY <1>7 DEF UpdateTrip
  <2> QED BY <1>1, <2>1 DEF TripRows, Resized, TripLife
<1>8. ASSUME NEW h \in Handlers, TripStep(h) PROVE TripLife(t)
  BY <1>2, <1>6, <1>7, <1>8, StatusIsLife
     DEF TripStep, ReadOwnedTrip, CountActive, ReadAudience, NotifyTrip
<1>9. ASSUME NEW h \in Handlers, Arrive(h) PROVE TripLife(t)
  BY <1>2, <1>9 DEF Arrive, CallCreateBooking, CallOnBooking, CallCreateTrip, CallOnTrip, Call
<1> QED BY <1>2, <1>4, <1>5, <1>8, <1>9 DEF Next, HoldLapses, DecideDriver, Fail, vars

\* Who makes a booking active or completed: nobody, a request that creates it, or
\* the completion of its trip.
Origin(b) ==
    \/ /\ booking'[b].trip = booking[b].trip
       /\ booking'[b].status = "completed" => booking[b].status = "completed"
       /\ booking'[b].status \in ActiveStatuses => booking[b].status \in ActiveStatuses
    \/ /\ booking'[b].status = "pending"
       /\ \E g \in Handlers : /\ At(g, "locked", "createBooking")
                              /\ booking'[b].trip = proc[g].trip
    \/ /\ booking'[b].status = "completed" /\ booking'[b].trip = booking[b].trip
       /\ trip'[booking[b].trip].status = "completed"

\* A booking that a decision, a cancellation or the job ends was active.
LEMMA SetBookingOrigin ==
  ASSUME CoreInv, NEW p \in Procs, proc[p].pc = "locked", proc[p].op # "createBooking",
         NEW status \in {"accepted", "rejected", "cancelled", "expired"},
         booking[proc[p].booking].status \in ActiveStatuses, SetBooking(proc[p].booking, status),
         NEW b \in Bookings
  PROVE  Origin(b)
<1>1. proc[p].booking \in Bookings /\ booking[proc[p].booking].status # "absent"
  BY DEF CoreInv, RequestsValid, BookingPcs
<1>2. status \in BookingStatuses \ {"absent"}
  BY DEF BookingStatuses, ActiveStatuses, TerminalStatuses
<1>3. /\ booking'[b].trip = booking[b].trip
      /\ booking'[b].status = IF b = proc[p].booking THEN status ELSE booking[b].status
  BY <1>1, <1>2, SetBookingEffect
<1> QED BY <1>3 DEF Origin

\* Whatever step is taken, that is where bookings come from.
LEMMA StepsHaveOrigin ==
  ASSUME CoreInv, [Next]_vars, NEW b \in Bookings
  PROVE  Origin(b)
<1>1. booking \in [Bookings -> BookingRows] /\ booking[b] \in BookingRows
  BY DEF CoreInv, TypeOK
<1>2. CASE UNCHANGED booking
  BY <1>2 DEF Origin
<1>3. ASSUME NEW h \in Handlers, CreateBooking(h) PROVE Origin(b)
  <2>1. PICK c \in Bookings :
           booking' = [booking EXCEPT ![c] =
                [status |-> "pending", trip |-> proc[h].trip, passenger |-> proc[h].user,
                 seats |-> proc[h].seats, hold |-> "running"]]
    BY <1>3 DEF CreateBooking
  <2>2. At(h, "locked", "createBooking")
    BY <1>3 DEF CreateBooking
  <2>3. CASE c = b
    BY <1>1, <2>1, <2>2, <2>3 DEF Origin
  <2>4. CASE c # b
    BY <1>1, <2>1, <2>4 DEF Origin
  <2> QED BY <2>3, <2>4
<1>4. ASSUME NEW h \in Handlers, AcceptBooking(h) \/ RejectBooking(h) \/ CancelBooking(h)
      PROVE  Origin(b)
  <2>1. /\ h \in Procs /\ proc[h].pc = "locked" /\ proc[h].op # "createBooking"
        /\ booking[proc[h].booking].status \in ActiveStatuses
        /\ \E status \in {"accepted", "rejected", "cancelled", "expired"} :
              SetBooking(proc[h].booking, status)
    BY <1>4 DEF AcceptBooking, RejectBooking, CancelBooking, At, MayAccept, MayReject, MayCancel,
                Undecided, ActiveStatuses, EndBooking, Procs
  <2> QED BY <2>1, SetBookingOrigin
<1>5. ASSUME NEW h \in Handlers, BookingStep(h) PROVE Origin(b)
  BY <1>2, <1>3, <1>4, <1>5 DEF BookingStep, LockTrip, Refuse, NotifyBooking
<1>6. ASSUME NEW s \in Sweeps, ExpireBooking(s) PROVE Origin(b)
  <2>1. /\ s \in Procs /\ proc[s].pc = "locked" /\ proc[s].op # "createBooking"
        /\ booking[proc[s].booking].status \in ActiveStatuses
        /\ SetBooking(proc[s].booking, "expired")
    BY <1>6 DEF ExpireBooking, At, Undecided, ActiveStatuses, Procs
  <2> QED BY <2>1, SetBookingOrigin
<1>7. ASSUME NEW s \in Sweeps, SweepStep(s) PROVE Origin(b)
  BY <1>2, <1>6, <1>7 DEF SweepStep, StartSweep, TakeLapsed, LockTrip, SkipBooking, AbandonSweep
<1>8. ASSUME NEW h \in Handlers, CompleteTrip(h) PROVE Origin(b)
  <2>1. booking'[b] = IF b \in BookingsOn(proc[h].trip, EndsWithTrip)
                      THEN [booking[b] EXCEPT !.status = "completed", !.hold = "none"]
                      ELSE booking[b]
    BY <1>8 DEF CompleteTrip
  <2>2. proc[h].trip \in Trips /\ trip'[proc[h].trip].status = "completed"
    <3>1. "completed" \in TripStatuses \ {"absent"}
      BY DEF TripStatuses
    <3> QED BY <1>8, <3>1, SetTripStatusEffect DEF CompleteTrip
  <2>3. CASE b \in BookingsOn(proc[h].trip, EndsWithTrip)
    BY <1>1, <2>1, <2>2, <2>3 DEF BookingsOn, BookingRows, Origin
  <2>4. CASE b \notin BookingsOn(proc[h].trip, EndsWithTrip)
    BY <2>1, <2>4 DEF Origin
  <2> QED BY <2>3, <2>4
<1>9. ASSUME NEW h \in Handlers, TripStep(h) PROVE Origin(b)
  BY <1>2, <1>8, <1>9
     DEF TripStep, CreateTrip, ReadOwnedTrip, CountActive, UpdateTrip, StartTrip, CancelTrip,
         ReadAudience, NotifyTrip
<1>10. ASSUME NEW c \in Bookings, HoldLapses(c) PROVE Origin(b)
  BY <1>1, <1>10 DEF HoldLapses, BookingRows, Origin
<1>11. ASSUME NEW h \in Handlers, Arrive(h) PROVE Origin(b)
  BY <1>2, <1>11 DEF Arrive, CallCreateBooking, CallOnBooking, CallCreateTrip, CallOnTrip, Call
<1> QED BY <1>2, <1>5, <1>7, <1>9, <1>10, <1>11 DEF Next, DecideDriver, Fail, vars

\* What leads to a check or to a write that relies on one.
CheckLife(h) ==
    proc'[h].pc \in {"read", "count", "write"} =>
        \/ proc'[h] = proc[h]
        \/ proc'[h].pc = "read" /\ proc'[h].op \in TripOps \ {"createTrip"}
        \/ proc'[h].pc = "write" /\ proc'[h].op = "createTrip"
        \/ /\ proc'[h].op = proc[h].op /\ proc'[h].trip = proc[h].trip
           /\ trip' = trip /\ booking' = booking
           /\ \/ /\ proc[h].pc = "read"
                 /\ trip[proc[h].trip].status \in AllowedFrom[proc[h].op]
                 /\ proc'[h].pc = IF proc[h].op = "updateTrip" THEN "count" ELSE "write"
              \/ /\ proc[h].pc = "count" /\ proc'[h].pc = "write"
                 /\ BookingsOn(proc[h].trip, ActiveStatuses) = {}

\* An operation on an existing trip starts with its check.
LEMMA ArriveChecks ==
  ASSUME CoreInv, NEW h \in Handlers, Arrive(h)
  PROVE  CheckLife(h)
<1>1. proc \in [Procs -> Processes] /\ h \in Procs
  BY DEF CoreInv, TypeOK, Procs
<1>2. ASSUME NEW op, NEW user, NEW at, Call(h, op, user, at), at.pc = "lock"
      PROVE  CheckLife(h)
  BY <1>1, <1>2 DEF Call, Idle, CheckLife
<1>3. CASE CallCreateTrip(h)
  BY <1>1, <1>3 DEF CallCreateTrip, Call, Idle, CheckLife
<1>4. ASSUME NEW op \in TripOps \ {"createTrip"}, NEW seats, CallOnTrip(h, op, seats)
      PROVE  CheckLife(h)
  BY <1>1, <1>4 DEF CallOnTrip, Call, Idle, CheckLife
<1> QED BY <1>2, <1>3, <1>4 DEF Arrive, CallCreateBooking, CallOnBooking, TripOps

\* A booking operation is past all of this.
LEMMA BookingChecksNothing ==
  ASSUME CoreInv, NEW h \in Handlers, BookingStep(h)
  PROVE  CheckLife(h)
<1>1. proc \in [Procs -> Processes] /\ h \in Procs /\ proc[h] \in Processes
  BY DEF CoreInv, TypeOK, Procs
<1>2. CASE LockTrip(h)
  BY <1>1, <1>2 DEF LockTrip, Processes, CheckLife
<1>3. CASE CreateBooking(h)
  <2>1. PICK b : proc' = [proc EXCEPT ![h].pc = "notify", ![h].booking = b, ![h].row = NoTripRow]
    BY <1>3 DEF CreateBooking
  <2> QED BY <1>1, <2>1 DEF Processes, CheckLife
<1>4. ASSUME NEW status, EndBooking(h, status) PROVE CheckLife(h)
  BY <1>1, <1>4 DEF EndBooking, Processes, CheckLife
<1>5. CASE Refuse(h) \/ NotifyBooking(h)
  BY <1>1, <1>5 DEF Refuse, NotifyBooking, Finish, Idle, CheckLife
<1> QED BY <1>2, <1>3, <1>4, <1>5 DEF BookingStep, AcceptBooking, RejectBooking, CancelBooking

\* A trip operation goes from its check to its write, an edit by way of the count.
LEMMA TripChecks ==
  ASSUME CoreInv, NEW h \in Handlers, TripStep(h)
  PROVE  CheckLife(h)
<1>1. proc \in [Procs -> Processes] /\ h \in Procs /\ proc[h] \in Processes
  BY DEF CoreInv, TypeOK, Procs
<1>2. CASE Finish(h)
  BY <1>1, <1>2 DEF Finish, Idle, CheckLife
<1>3. CASE ReadOwnedTrip(h) /\ ~Finish(h)
  BY <1>1, <1>3 DEF ReadOwnedTrip, Goto, Processes, CheckLife
<1>4. CASE CountActive(h) /\ ~Finish(h)
  BY <1>1, <1>4 DEF CountActive, Goto, Processes, CheckLife
<1>5. CASE StartTrip(h) \/ CancelTrip(h)
  BY <1>1, <1>5 DEF StartTrip, CancelTrip, Goto, Processes, CheckLife
<1>6. CASE ReadAudience(h) /\ ~Finish(h)
  BY <1>1, <1>6 DEF ReadAudience, Processes, CheckLife
<1>7. CASE NotifyTrip(h) /\ ~Finish(h)
  <2>1. proc[h].pc = "fanout" /\ \E b : proc' = [proc EXCEPT ![h].todo = @ \ {b}]
    BY <1>7 DEF NotifyTrip
  <2> QED BY <1>1, <2>1 DEF Processes, CheckLife
<1> QED BY <1>2, <1>3, <1>4, <1>5, <1>6, <1>7 DEF TripStep, CreateTrip, UpdateTrip, CompleteTrip

\* Whatever step is taken, no handler comes to its write without its checks.
LEMMA StepsCheck ==
  ASSUME CoreInv, [Next]_vars, NEW h \in Handlers
  PROVE  CheckLife(h)
<1>1. h \in Procs /\ proc \in [Procs -> Processes]
  BY DEF Procs, CoreInv, TypeOK
<1>2. CASE proc'[h] = proc[h]
  BY <1>2 DEF CheckLife
<1>3. ASSUME NEW g \in Handlers, Arrive(g) \/ BookingStep(g) \/ TripStep(g)
      PROVE  CheckLife(h)
  BY <1>1, <1>2, <1>3, ArriveLife, BookingStepLife, TripStepLife, ArriveChecks,
     BookingChecksNothing, TripChecks
<1>4. ASSUME NEW s \in Sweeps, SweepStep(s) PROVE CheckLife(h)
  <2>1. s # h
    BY ActorAssumption
  <2>2. CASE AbandonSweep(s)
    BY <1>1, <1>2, <2>1, <2>2 DEF AbandonSweep, Throw, Finish, Idle, CheckLife
  <2>3. CASE ~AbandonSweep(s)
    BY <1>1, <1>2, <1>4, <2>1, <2>3
       DEF SweepStep, StartSweep, TakeLapsed, LockTrip, ExpireBooking, SkipBooking, NextInBatch, Finish
  <2> QED BY <2>2, <2>3
<1>5. ASSUME NEW p \in Faults, Fail(p) PROVE CheckLife(h)
  BY <1>1, <1>2, <1>5 DEF Fail, Throw, Finish, Idle, CheckLife
<1> QED BY <1>2, <1>3, <1>4, <1>5 DEF Next, HoldLapses, DecideDriver, vars

-----------------------------------------------------------------------------
(* The invariant of operations that do not overlap *)

\* What an operation checked is still so when it writes.
ChecksHold ==
    \A h \in Handlers :
        /\ proc[h].pc = "read" => proc[h].op \in TripOps \ {"createTrip"}
        /\ proc[h].pc = "count" => proc[h].op = "updateTrip"
        /\ proc[h].pc \in {"count", "write"} /\ proc[h].op # "createTrip" =>
              /\ proc[h].op \in DOMAIN AllowedFrom
              /\ trip[proc[h].trip].status \in AllowedFrom[proc[h].op]
        /\ At(h, "write", "updateTrip") => BookingsOn(proc[h].trip, ActiveStatuses) = {}

\* Bookings are completed with their trip.
CompletedTogether ==
    \A b \in Bookings :
        booking[b].status = "completed" => trip[booking[b].trip].status = "completed"

TripsApartInv == ChecksHold /\ CompletedTogether /\ NoneClobbered

\* The life of a trip as its driver is told it.
LifecycleStep ==
    \A t \in Trips :
        trip'[t].status # trip[t].status =>
            <<trip[t].status, trip'[t].status>> \in
                {<<"absent", "open">>, <<"open", "started">>, <<"started", "completed">>,
                 <<"open", "cancelled">>, <<"started", "cancelled">>}

\* A status is written from the one that was checked.
LEMMA LifecycleKept ==
  ASSUME CoreInv, TripsApartInv, [Next]_vars
  PROVE  LifecycleStep
<1> SUFFICES ASSUME NEW t \in Trips, trip'[t].status # trip[t].status
             PROVE  <<trip[t].status, trip'[t].status>> \in
                        {<<"absent", "open">>, <<"open", "started">>, <<"started", "completed">>,
                         <<"open", "cancelled">>, <<"started", "cancelled">>}
  BY DEF LifecycleStep
<1>1. CASE trip[t].status = "absent" /\ trip'[t].status = "open"
  BY <1>1
<1>2. ASSUME NEW h \in Handlers, NEW op \in DOMAIN StatusAfter,
             At(h, "write", op), proc[h].trip = t, trip'[t].status = StatusAfter[op]
      PROVE  <<trip[t].status, trip'[t].status>> \in
                        {<<"absent", "open">>, <<"open", "started">>, <<"started", "completed">>,
                         <<"open", "cancelled">>, <<"started", "cancelled">>}
  <2>1. trip[t].status \in AllowedFrom[op]
    BY <1>2 DEF TripsApartInv, ChecksHold, At, StatusAfter
  <2> QED BY <1>2, <2>1 DEF AllowedFrom, StatusAfter
<1> QED BY <1>1, <1>2, StepsAreTripLife DEF TripLife

\* While no operation on its trip overlaps, a check keeps what it found.
LEMMA ChecksKept ==
  ASSUME CoreInv, CoreInv', TripsApartInv, TripsApart, [Next]_vars, NEW h \in Handlers
  PROVE  /\ proc'[h].pc = "read" => proc'[h].op \in TripOps \ {"createTrip"}
         /\ proc'[h].pc = "count" => proc'[h].op = "updateTrip"
         /\ proc'[h].pc \in {"count", "write"} /\ proc'[h].op # "createTrip" =>
               /\ proc'[h].op \in DOMAIN AllowedFrom
               /\ trip'[proc'[h].trip].status \in AllowedFrom[proc'[h].op]
         /\ proc'[h].pc = "write" /\ proc'[h].op = "updateTrip" =>
               \A b \in Bookings : booking'[b].trip = proc'[h].trip
                                       => booking'[b].status \notin ActiveStatuses
<1>1. CASE proc'[h] = proc[h] /\ proc[h].pc \in {"count", "write"} /\ proc[h].op # "createTrip"
  <2> DEFINE t == proc[h].trip
  <2>1. /\ Checking(h) /\ proc[h].op \in DOMAIN AllowedFrom /\ proc[h].op \in TripOps
        /\ trip[t].status \in AllowedFrom[proc[h].op]
    BY <1>1 DEF Checking, TripsApartInv, ChecksHold, AllowedFrom, TripOps
  <2>2. t \in Trips
    BY <1>1, <2>1 DEF CoreInv, TripRequestsValid, TripRequest, Procs
  <2>3. trip'[t].status = trip[t].status
    <3>1. trip[t].status # "absent"
      BY <2>1 DEF AllowedFrom
    <3>2. ASSUME NEW g \in Handlers, NEW op \in DOMAIN StatusAfter,
                 At(g, "write", op), proc[g].trip = t, proc'[g].pc # "write"
          PROVE  FALSE
      <4>1. Checking(g)
        BY <3>2 DEF Checking, At, StatusAfter
      <4>2. g = h
        BY <2>1, <3>2, <4>1 DEF TripsApart
      <4> QED BY <1>1, <3>2, <4>2 DEF At
    <3> QED BY <2>2, <3>1, <3>2, StepsAreTripLife DEF TripLife
  <2>4. ASSUME proc[h].pc = "write", proc[h].op = "updateTrip", NEW b \in Bookings,
               booking'[b].trip = t, booking'[b].status \in ActiveStatuses
        PROVE  FALSE
    <3>1. \A c \in Bookings : booking[c].trip = t => booking[c].status \notin ActiveStatuses
      BY <2>4 DEF TripsApartInv, ChecksHold, At, BookingsOn
    <3>2. \A g \in Handlers : At(g, "locked", "createBooking") => proc[g].trip # t
      BY <2>4 DEF TripsApart, At, BookingPcs
    <3>3. Origin(b)
      BY StepsHaveOrigin
    <3> HIDE DEF t
    <3>4. CASE booking[b].status \in ActiveStatuses /\ booking[b].trip = t
      BY <3>1, <3>4
    <3>5. CASE \E g \in Handlers : At(g, "locked", "createBooking") /\ t = proc[g].trip
      BY <3>2, <3>5 DEF At
    <3> QED BY <2>4, <3>3, <3>4, <3>5 DEF Origin, ActiveStatuses
  <2>5. proc[h].pc = "count" => proc[h].op = "updateTrip"
    BY DEF TripsApartInv, ChecksHold
  <2> QED BY <1>1, <2>1, <2>3, <2>4, <2>5
<1>2. CASE /\ proc'[h].op = proc[h].op /\ proc'[h].trip = proc[h].trip
           /\ trip' = trip /\ booking' = booking
           /\ \/ /\ proc[h].pc = "read"
                 /\ trip[proc[h].trip].status \in AllowedFrom[proc[h].op]
                 /\ proc'[h].pc = IF proc[h].op = "updateTrip" THEN "count" ELSE "write"
              \/ /\ proc[h].pc = "count" /\ proc'[h].pc = "write"
                 /\ BookingsOn(proc[h].trip, ActiveStatuses) = {}
  BY <1>2 DEF TripsApartInv, ChecksHold, BookingsOn, TripOps, AllowedFrom
<1> QED BY <1>1, <1>2, StepsCheck DEF CheckLife, TripsApartInv, ChecksHold

\* A booking is completed by the operation that completes its trip, and a completed
\* trip stays so.
LEMMA CompletedKept ==
  ASSUME CoreInv, TripsApartInv, [Next]_vars
  PROVE  CompletedTogether'
<1> SUFFICES ASSUME NEW b \in Bookings, booking'[b].status = "completed"
             PROVE  trip'[booking'[b].trip].status = "completed"
  BY DEF CompletedTogether
<1>1. CASE booking'[b].trip = booking[b].trip /\ booking[b].status = "completed"
  <2>1. booking[b].trip \in Trips /\ trip[booking[b].trip].status = "completed"
    BY <1>1 DEF TripsApartInv, CompletedTogether, CoreInv, RowsLinked
  <2> QED BY <1>1, <2>1, LifecycleKept DEF LifecycleStep
<1>2. Origin(b)
  BY StepsHaveOrigin
<1> QED BY <1>1, <1>2 DEF Origin

\* An edit that resizes a trip finds no seat held on it.
LEMMA NothingClobbered ==
  ASSUME CoreInv, TripsApartInv, [Next]_vars
  PROVE  NoneClobbered'
<1>1. CASE UNCHANGED clobbered
  BY <1>1 DEF TripsApartInv, NoneClobbered
<1>2. ASSUME NEW h \in Handlers, UpdateTrip(h) PROVE UNCHANGED clobbered
  <2> DEFINE t == proc[h].trip
  <2>1. At(h, "write", "updateTrip")
    BY <1>2 DEF UpdateTrip
  <2>2. /\ trip[t].status = "open"
        /\ BookingsOn(t, ActiveStatuses) = {}
    BY <2>1 DEF TripsApartInv, ChecksHold, At, AllowedFrom
  <2>3. \A b \in Bookings : booking[b].trip = t => booking[b].status # "completed"
    BY <2>2 DEF TripsApartInv, CompletedTogether
  <2>4. BookingsOn(t, HoldingStatuses) = {}
    BY <2>2, <2>3 DEF BookingsOn, ActiveStatuses, HoldingStatuses
  <2>5. HeldSeats(t) = {}
    BY <2>4 DEF HeldSeats
  <2> QED BY <1>2, <2>5 DEF UpdateTrip
<1>3. ASSUME NEW h \in Handlers, Arrive(h) PROVE UNCHANGED clobbered
  BY <1>3 DEF Arrive, CallCreateBooking, CallOnBooking, CallCreateTrip, CallOnTrip, Call
<1>4. ASSUME NEW h \in Handlers, BookingStep(h) PROVE UNCHANGED clobbered
  BY <1>4 DEF BookingStep, LockTrip, CreateBooking, AcceptBooking, RejectBooking,
              CancelBooking, EndBooking, Refuse, NotifyBooking
<1>5. ASSUME NEW h \in Handlers, TripStep(h) PROVE UNCHANGED clobbered
  BY <1>2, <1>5 DEF TripStep, CreateTrip, ReadOwnedTrip, CountActive, StartTrip, CancelTrip,
                    CompleteTrip, SetTripStatus, ReadAudience, NotifyTrip
<1>6. ASSUME NEW s \in Sweeps, SweepStep(s) PROVE UNCHANGED clobbered
  BY <1>6 DEF SweepStep, StartSweep, TakeLapsed, LockTrip, ExpireBooking, SkipBooking,
              AbandonSweep
<1> QED BY <1>1, <1>3, <1>4, <1>5, <1>6 DEF Next, HoldLapses, DecideDriver, Fail, vars

\* The invariant of behaviours in which operations on one trip do not overlap.
LEMMA TripsApartInvariant == Spec /\ []TripsApart => [](CoreInv /\ TripsApartInv)
<1>1. Init => CoreInv /\ TripsApartInv
  <2>1. Init => TripsApartInv
    BY DEF Init, TripsApartInv, ChecksHold, CompletedTogether, NoneClobbered, Idle, NoBookingRow,
           At, Procs
  <2> QED BY <2>1, InitCore
<1>2. CoreInv /\ TripsApartInv /\ TripsApart /\ [Next]_vars => (CoreInv /\ TripsApartInv)'
  <2> SUFFICES ASSUME CoreInv, TripsApartInv, TripsApart, [Next]_vars
               PROVE  (CoreInv /\ TripsApartInv)'
    OBVIOUS
  <2>1. CoreInv'
    BY NextKeepsCore
  <2>2. ChecksHold'
    BY <2>1, ChecksKept DEF ChecksHold, At, BookingsOn
  <2> QED BY <2>1, <2>2, CompletedKept, NothingClobbered DEF TripsApartInv
<1> QED BY <1>1, <1>2, PTL DEF Spec

\* When the operations on one trip do not overlap a trip goes from open to started
\* to completed, or is cancelled before it is completed, and nowhere else, whatever
\* bookings, decisions, expiries, failures and operations on other trips overlap.
THEOREM TripLifecycleApart == Spec /\ []TripsApart => TripLifecycle
<1>1. CoreInv /\ TripsApartInv /\ [Next]_vars => [LifecycleStep]_vars
  BY LifecycleKept
<1>2. TripLifecycle <=> [][LifecycleStep]_vars
  BY PTL DEF TripLifecycle, LifecycleStep
<1> QED BY <1>1, <1>2, TripsApartInvariant, PTL DEF Spec

\* Neither does an edit then resize a trip under its bookings, so that the services
\* implement the ledger of seats.
THEOREM LedgerApart == Spec /\ []TripsApart => SeatLedgerRefined
<1>1. TripsApartInv => NoneClobbered
  BY DEF TripsApartInv
<1> QED BY <1>1, TripsApartInvariant, LedgerImplemented, PTL

\* Nor is any seat sold twice: that takes an edit and a new booking of one trip, or
\* two operations on it, at the same time.
THEOREM NoOversellApart == Spec /\ []TripsApart => []NoOversell
<1>1. CoreInv /\ TripsApartInv /\ SeatInv => NoOversell
  <2> SUFFICES ASSUME CoreInv, TripsApartInv, SeatInv, NEW t \in Trips
               PROVE  Cardinality(HeldSeats(t)) <= trip[t].total
    BY DEF NoOversell
  <2>1. trip[t].avail + Cardinality(HeldSeats(t)) = trip[t].total
    BY DEF TripsApartInv, NoneClobbered, SeatInv
  <2>2. trip[t].avail \in Nat /\ trip[t].total \in Nat
    BY DEF CoreInv, TypeOK, TripRows
  <2>3. Cardinality(HeldSeats(t)) \in Nat
    BY FS_CardinalityType DEF SeatInv
  <2> QED BY <2>1, <2>2, <2>3
<1> QED BY <1>1, TripsApartInvariant, SeatInvariant, PTL
=============================================================================
