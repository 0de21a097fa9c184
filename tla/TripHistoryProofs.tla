------------------------- MODULE TripHistoryProofs --------------------------
(***************************************************************************)
(* What may happen to a booking over its life, for any number of           *)
(* processes: who creates it and when, that a passenger has one active     *)
(* booking on a trip at most, and that a booking that ended stays so. Then *)
(* what is told about it: notifications are written after the commit they  *)
(* report, by handlers that read the booking again; they stay true, and    *)
(* while nothing fails none is forgotten.                                  *)
(***************************************************************************)
EXTENDS TripBookingProofs

-----------------------------------------------------------------------------
(* The life of a booking *)

\* b is created, alone, on an open trip on which its passenger has no other.
Created(b) ==
    /\ booking[b].status = "absent"
    /\ booking'[b].status = "pending"
    /\ trip[booking'[b].trip].status = "open"
    /\ ~HasActive(booking'[b].trip, booking'[b].passenger)
    /\ \A c \in Bookings \ {b} : booking'[c] = booking[c]

\* The hold of b lapses.
Lapses(b) ==
    /\ booking[b].hold = "running"
    /\ booking'[b].status = booking[b].status
    /\ booking'[b].hold = "lapsed"

\* b, active so far, is accepted or ends; once accepted it is cancelled or completed.
Decided(b) ==
    /\ booking[b].status \in ActiveStatuses
    /\ booking[b].status = "accepted" => booking'[b].status \in {"cancelled", "completed"}
    /\ booking'[b].status \in {"accepted"} \cup TerminalStatuses
    /\ booking'[b].hold = "none"

SamePlace(b) ==
    /\ booking'[b].trip = booking[b].trip
    /\ booking'[b].passenger = booking[b].passenger

BookingLife(b) ==
    \/ booking'[b] = booking[b]
    \/ Created(b)
    \/ SamePlace(b) /\ (Lapses(b) \/ Decided(b))

\* createBooking starts the life of one unused row.
LEMMA CreateIsLife ==
  ASSUME CoreInv, NEW h \in Handlers, CreateBooking(h), NEW c \in Bookings
  PROVE  BookingLife(c)
<1>1. /\ h \in Procs /\ proc[h].pc = "locked" /\ proc[h].op = "createBooking"
      /\ proc[h].row = trip[proc[h].trip]
  BY DEF CreateBooking, At, Procs, CoreInv, LockDiscipline
<1>2. PICK b \in Bookings :
         /\ booking[b].status = "absent"
         /\ booking' = [booking EXCEPT ![b] =
               [status |-> "pending", trip |-> proc[h].trip, passenger |-> proc[h].user,
                seats |-> proc[h].seats, hold |-> "running"]]
  BY DEF CreateBooking
<1>3. /\ booking'[b].status = "pending" /\ booking'[b].trip = proc[h].trip
      /\ booking'[b].passenger = proc[h].user
      /\ \A d \in Bookings \ {b} : booking'[d] = booking[d]
  BY <1>2 DEF CoreInv, TypeOK
<1>4. trip[proc[h].trip].status = "open" /\ ~HasActive(proc[h].trip, proc[h].user)
  BY <1>1 DEF CreateBooking, MayCreate
<1> QED BY <1>2, <1>3, <1>4 DEF BookingLife, Created

\* Writing the status of an active booking.
LEMMA SetBookingIsLife ==
  ASSUME CoreInv, NEW b \in Bookings, booking[b].status \in ActiveStatuses,
         NEW status \in {"accepted"} \cup TerminalStatuses, SetBooking(b, status),
         booking[b].status = "accepted" => status \in {"cancelled", "completed"},
         NEW c \in Bookings
  PROVE  BookingLife(c)
<1>1. booking \in [Bookings -> BookingRows] /\ booking[b] \in BookingRows
  BY DEF CoreInv, TypeOK
<1>2. booking' = [booking EXCEPT ![b] = [booking[b] EXCEPT !.status = status, !.hold = "none"]]
  BY <1>1 DEF SetBooking
<1>3. CASE c = b
  BY <1>1, <1>2, <1>3 DEF BookingLife, SamePlace, Decided, BookingRows
<1>4. CASE c # b
  BY <1>1, <1>2, <1>4 DEF BookingLife
<1> QED BY <1>3, <1>4

\* A decision or a cancellation is a step in the life of one booking.
LEMMA EndIsLife ==
  ASSUME CoreInv, NEW h \in Handlers, NEW c \in Bookings,
         AcceptBooking(h) \/ RejectBooking(h) \/ CancelBooking(h)
  PROVE  BookingLife(c)
<1>1. PICK status \in {"accepted"} \cup TerminalStatuses :
        /\ SetBooking(proc[h].booking, status)
        /\ booking[proc[h].booking].status = "accepted" => status = "cancelled"
  BY DEF AcceptBooking, RejectBooking, CancelBooking, MayAccept, MayReject, Undecided, EndBooking,
         TerminalStatuses
<1>2. PICK b \in Bookings : b = proc[h].booking
  BY DEF AcceptBooking, RejectBooking, CancelBooking, At, Procs, CoreInv, RequestsValid, BookingPcs
<1>3. booking[b].status \in ActiveStatuses
  BY <1>2 DEF AcceptBooking, RejectBooking, CancelBooking, MayAccept, MayReject, MayCancel,
              Undecided, ActiveStatuses
<1> QED BY <1>1, <1>2, <1>3, SetBookingIsLife

\* An expiry is a step in the life of one booking.
LEMMA ExpireIsLife ==
  ASSUME CoreInv, NEW s \in Sweeps, ExpireBooking(s), NEW c \in Bookings
  PROVE  BookingLife(c)
<1>1. PICK b \in Bookings : b = proc[s].booking
  BY DEF ExpireBooking, At, Procs, CoreInv, RequestsValid, BookingPcs
<1>2. booking[b].status = "pending" /\ SetBooking(b, "expired")
  BY <1>1 DEF ExpireBooking, Undecided
<1> QED BY <1>2, SetBookingIsLife DEF ActiveStatuses, TerminalStatuses

\* Completing a trip is a step in the life of its accepted bookings only.
LEMMA CompleteIsLife ==
  ASSUME CoreInv, NEW h \in Handlers, CompleteTrip(h), NEW c \in Bookings
  PROVE  BookingLife(c)
<1>1. booking[c] \in BookingRows
  BY DEF CoreInv, TypeOK
<1>2. booking'[c] = IF c \in BookingsOn(proc[h].trip, EndsWithTrip)
                    THEN [booking[c] EXCEPT !.status = "completed", !.hold = "none"]
                    ELSE booking[c]
  BY DEF CompleteTrip
<1>3. CASE c \in BookingsOn(proc[h].trip, EndsWithTrip)
  BY <1>1, <1>2, <1>3 DEF BookingsOn, EndsWithTrip, BookingLife, SamePlace, Decided,
                          ActiveStatuses, TerminalStatuses, BookingRows
<1>4. CASE c \notin BookingsOn(proc[h].trip, EndsWithTrip)
  BY <1>2, <1>4 DEF BookingLife
<1> QED BY <1>3, <1>4

\* The end of a hold is a step in the life of a pending booking.
LEMMA LapseIsLife ==
  ASSUME CoreInv, NEW b \in Bookings, HoldLapses(b), NEW c \in Bookings
  PROVE  BookingLife(c)
<1>1. booking \in [Bookings -> BookingRows] /\ booking[b] \in BookingRows
  BY DEF CoreInv, TypeOK
<1>2. booking' = [booking EXCEPT ![b] = [booking[b] EXCEPT !.hold = "lapsed"]]
  BY <1>1 DEF HoldLapses
<1>3. CASE c = b
  BY <1>1, <1>2, <1>3 DEF HoldLapses, BookingLife, SamePlace, Lapses, BookingRows
<1>4. CASE c # b
  BY <1>1, <1>2, <1>4 DEF BookingLife
<1> QED BY <1>3, <1>4

\* Whatever step the services take, every booking stays as it is or takes a step of
\* its life.
LEMMA StepsAreLife ==
  ASSUME CoreInv, [Next]_vars, NEW c \in Bookings
  PROVE  BookingLife(c)
<1>1. CASE UNCHANGED booking
  BY <1>1 DEF BookingLife
<1>2. ASSUME NEW h \in Handlers, Arrive(h) PROVE UNCHANGED booking
  BY <1>2 DEF Arrive, CallCreateBooking, CallOnBooking, CallCreateTrip, CallOnTrip, Call
<1>3. ASSUME NEW h \in Handlers, BookingStep(h) PROVE BookingLife(c)
  BY <1>1, <1>3, CreateIsLife, EndIsLife DEF BookingStep, LockTrip, Refuse, NotifyBooking
<1>4. ASSUME NEW h \in Handlers, TripStep(h) PROVE BookingLife(c)
  BY <1>1, <1>4, CompleteIsLife
     DEF TripStep, CreateTrip, ReadOwnedTrip, CountActive, UpdateTrip, StartTrip, CancelTrip,
         ReadAudience, NotifyTrip
<1>5. ASSUME NEW s \in Sweeps, SweepStep(s) PROVE BookingLife(c)
  BY <1>1, <1>5, ExpireIsLife
     DEF SweepStep, StartSweep, TakeLapsed, LockTrip, SkipBooking, AbandonSweep
<1>6. ASSUME NEW d \in Suspendable, DecideDriver(d) PROVE UNCHANGED booking
  BY <1>6 DEF DecideDriver
<1>7. ASSUME NEW p \in Faults, Fail(p) PROVE UNCHANGED booking
  BY <1>7 DEF Fail
<1>8. CASE UNCHANGED vars
  BY <1>1, <1>8 DEF vars
<1> QED BY <1>1, <1>2, <1>3, <1>4, <1>5, <1>6, <1>7, <1>8, LapseIsLife DEF Next

-----------------------------------------------------------------------------
(* What follows for histories *)

\* Only a pending booking has a hold that runs or has lapsed.
HoldsPending == \A b \in Bookings : booking[b].hold # "none" => booking[b].status = "pending"

\* A step in the lives of the bookings keeps a running hold on pending bookings only.
LEMMA HoldsKept ==
  ASSUME CoreInv, HoldsPending, [Next]_vars
  PROVE  HoldsPending'
<1> SUFFICES ASSUME NEW b \in Bookings, booking'[b].hold # "none"
             PROVE  booking'[b].status = "pending"
  BY DEF HoldsPending
<1> QED BY StepsAreLife DEF HoldsPending, BookingLife, Created, SamePlace, Lapses, Decided

HistoryInv == CoreInv /\ HoldsPending /\ OneActiveBooking

\* A new booking is the only one that becomes active, and only when its passenger
\* has no active booking on the trip.
LEMMA OneActiveKept ==
  ASSUME CoreInv, OneActiveBooking, [Next]_vars
  PROVE  OneActiveBooking'
<1> SUFFICES ASSUME NEW b \in Bookings, NEW c \in Bookings, b # c,
                    booking'[b].status \in ActiveStatuses,
                    booking'[c].status \in ActiveStatuses,
                    booking'[b].trip = booking'[c].trip
             PROVE  booking'[b].passenger # booking'[c].passenger
  BY DEF OneActiveBooking
<1> DEFINE Was(d) == /\ booking[d].status \in ActiveStatuses
                     /\ booking'[d].trip = booking[d].trip
                     /\ booking'[d].passenger = booking[d].passenger
<1>1. ASSUME NEW d \in Bookings, booking'[d].status \in ActiveStatuses
      PROVE  Created(d) \/ Was(d)
  BY <1>1, StepsAreLife
     DEF BookingLife, SamePlace, Lapses, Decided, CoreInv, HoldsPending, ActiveStatuses
<1>2. CASE Was(b) /\ Was(c)
  BY <1>2 DEF OneActiveBooking
<1>3. ASSUME NEW d \in Bookings, NEW e \in Bookings, d # e, Created(d),
             booking'[e].status \in ActiveStatuses,
             booking'[e].trip = booking'[d].trip
      PROVE  booking'[e].passenger # booking'[d].passenger
  BY <1>3 DEF Created, HasActive, BookingsOn
<1> QED BY <1>1, <1>2, <1>3

\* The history invariant holds in every reachable state.
LEMMA HistoryInvariant == Spec => []HistoryInv
<1>1. Init => HoldsPending /\ OneActiveBooking
  BY DEF Init, NoBookingRow, HoldsPending, OneActiveBooking, ActiveStatuses
<1>2. HistoryInv /\ [Next]_vars => HistoryInv'
  BY NextKeepsCore, HoldsKept, OneActiveKept DEF HistoryInv
<1>3. Init => HistoryInv
  BY <1>1, InitCore DEF HistoryInv
<1> QED BY <1>2, <1>3, PTL DEF Spec

\* However many requests of one passenger overlap, no trip ever has two active
\* bookings of that passenger: the check runs under the row lock of the trip.
THEOREM OneActiveBookingHolds == Spec => []OneActiveBooking
<1>1. HistoryInv => OneActiveBooking
  BY DEF HistoryInv
<1> QED BY <1>1, HistoryInvariant, PTL

\* Whatever races for a booking that ended, nothing changes it any more.
THEOREM SettledBookingsHolds == Spec => SettledBookings
<1>1. ASSUME HistoryInv, [Next]_vars, NEW b \in Bookings,
             booking[b].status \in TerminalStatuses
      PROVE  booking'[b] = booking[b]
  BY <1>1, StepsAreLife DEF HistoryInv, HoldsPending, BookingLife, Created, SamePlace, Lapses,
                            Decided, ActiveStatuses, TerminalStatuses
<1>2. HistoryInv /\ [Next]_vars =>
         [\A b \in Bookings :
            booking[b].status \in TerminalStatuses => booking'[b] = booking[b]]_vars
  BY <1>1
<1> QED BY <1>2, HistoryInvariant, PTL DEF Spec, SettledBookings

\* Although trips are started, cancelled and completed without the row lock, a
\* booking is created only on a trip that is open when it commits.
THEOREM BookedWhileOpenHolds == Spec => BookedWhileOpen
<1>1. ASSUME HistoryInv, [Next]_vars, NEW b \in Bookings,
             booking[b].status = "absent", booking'[b].status # "absent"
      PROVE  trip[booking'[b].trip].status = "open"
  BY <1>1, StepsAreLife DEF HistoryInv, HoldsPending, BookingLife, Created, SamePlace, Lapses,
                            Decided, ActiveStatuses
<1>2. HistoryInv /\ [Next]_vars =>
         [\A b \in Bookings :
            booking[b].status = "absent" /\ booking'[b].status # "absent"
               => trip[booking'[b].trip].status = "open"]_vars
  BY <1>1
<1> QED BY <1>2, HistoryInvariant, PTL DEF Spec, BookedWhileOpen

-----------------------------------------------------------------------------
(* What a process on its way to a notification relies on *)

\* Who calls an operation, and with how many seats.
Role(r) ==
    /\ r.op = "createBooking" => r.user \in Passengers
    /\ r.op \in {"acceptBooking", "rejectBooking"} => r.user \in Drivers
    /\ r.op = "cancelBooking" => r.user \in Drivers \cup Passengers
    /\ r.op = "createBooking" => r.seats \in PartySizes
    /\ r.op = "createTrip" => r.seats \in Capacities
    /\ r.op = "updateTrip" => r.seats \in EditCapacities

Announced == {"startTrip", "cancelTrip"}
TripNote(op) == IF op = "startTrip" THEN "trip_started" ELSE "trip_cancelled"

\* What p is about to say is true.
NoteReady(p) ==
    /\ Role(proc[p])
    /\ proc[p].pc = "notify" /\ proc[p].op \in BookingOps =>
          booking[proc[p].booking].status \in Claimed[NoteType[proc[p].op]]
    /\ proc[p].pc = "notify" /\ proc[p].op \in TripOps => proc[p].op \in Announced
    /\ proc[p].pc = "fanout" =>
          /\ proc[p].op \in Announced
          /\ \A b \in proc[p].todo : booking[b].status \in Claimed[TripNote(proc[p].op)]

NoteInv == CoreInv /\ HoldsPending /\ (\A p \in Procs : NoteReady(p)) /\ NotesTruthful

-----------------------------------------------------------------------------
(* Bookings and trips keep what the notifications say of them *)

\* What a notification may say of a booking stays true while the booking lives on.
LEMMA ClaimsLast ==
  ASSUME CoreInv, HoldsPending, [Next]_vars, NEW b \in Bookings, NEW type \in NoteTypes,
         booking[b].status \in Claimed[type]
  PROVE  booking'[b].status \in Claimed[type] /\ SamePlace(b)
<1>1. booking[b].status # "absent" /\ booking[b].status \in BookingStatuses
  BY DEF NoteTypes, Claimed, CoreInv, TypeOK, BookingRows, BookingStatuses, ActiveStatuses,
         TerminalStatuses
<1>2. CASE booking'[b] = booking[b]
  BY <1>2 DEF SamePlace
<1>3. CASE SamePlace(b) /\ Lapses(b)
  BY <1>3 DEF Lapses
<1>4. CASE SamePlace(b) /\ Decided(b)
  <2>1. CASE booking[b].status = "accepted"
    BY <1>4, <2>1 DEF Decided, NoteTypes, Claimed, BookingStatuses, ActiveStatuses, TerminalStatuses
  <2>2. CASE booking[b].status = "pending"
    BY <1>4, <2>2 DEF Decided, NoteTypes, Claimed, BookingStatuses, ActiveStatuses, TerminalStatuses
  <2> QED BY <1>4, <2>1, <2>2 DEF Decided, ActiveStatuses
<1> QED BY <1>1, <1>2, <1>3, <1>4, StepsAreLife DEF BookingLife, Created

\* The driver of a trip is set when the trip is created and never again.
LEMMA DriversStay ==
  ASSUME CoreInv, [Next]_vars, NEW t \in Trips, trip[t].status # "absent"
  PROVE  trip'[t].driver = trip[t].driver
<1> DEFINE Stays == trip'[t].driver = trip[t].driver
<1>1. trip \in [Trips -> TripRows] /\ trip[t] \in TripRows
  BY DEF CoreInv, TypeOK
<1>2. CASE UNCHANGED trip
  BY <1>2
<1>3. ASSUME NEW p \in Procs, CommitSeats(p) PROVE Stays
  <2>1. PICK n : trip' = [trip EXCEPT ![proc[p].trip].avail = n]
    BY <1>3 DEF CommitSeats
  <2> QED BY <1>1, <2>1 DEF TripRows
<1>4. ASSUME NEW h \in Handlers, BookingStep(h) PROVE Stays
  BY <1>2, <1>3, <1>4
     DEF BookingStep, LockTrip, CreateBooking, AcceptBooking, RejectBooking, CancelBooking,
         EndBooking, Refuse, NotifyBooking, Procs
<1>5. ASSUME NEW s \in Sweeps, SweepStep(s) PROVE Stays
  BY <1>2, <1>3, <1>5
     DEF SweepStep, StartSweep, TakeLapsed, LockTrip, ExpireBooking, SkipBooking, AbandonSweep, Procs
<1>6. ASSUME NEW h \in Handlers, CreateTrip(h) PROVE Stays
  <2>1. PICK u, row : u \in Trips /\ trip[u].status = "absent" /\ trip' = [trip EXCEPT ![u] = row]
    BY <1>6 DEF CreateTrip
  <2> QED BY <1>1, <2>1
<1>7. ASSUME NEW h \in Handlers, UpdateTrip(h) PROVE Stays
  <2>1. PICK u, n : trip' = trip \/ trip' = [trip EXCEPT ![u] = Resized(@, n)]
    BY <1>7 DEF UpdateTrip
  <2> QED BY <1>1, <2>1 DEF TripRows, Resized
<1>8. ASSUME NEW h \in Handlers, StartTrip(h) \/ CancelTrip(h) \/ CompleteTrip(h) PROVE Stays
  <2>1. PICK u, status : trip' = [trip EXCEPT ![u].status = status]
    BY <1>8 DEF StartTrip, CancelTrip, CompleteTrip, SetTripStatus
  <2> QED BY <1>1, <2>1 DEF TripRows
<1>9. ASSUME NEW h \in Handlers, TripStep(h) PROVE Stays
  BY <1>2, <1>6, <1>7, <1>8, <1>9
     DEF TripStep, ReadOwnedTrip, CountActive, ReadAudience, NotifyTrip
<1>10. ASSUME NEW h \in Handlers, Arrive(h) PROVE Stays
  BY <1>2, <1>10 DEF Arrive, CallCreateBooking, CallOnBooking, CallCreateTrip, CallOnTrip, Call
<1> QED BY <1>2, <1>4, <1>5, <1>9, <1>10 DEF Next, HoldLapses, DecideDriver, Fail, vars

-----------------------------------------------------------------------------
(* What a step does to a process *)

SameCall(p) ==
    proc'[p].op = proc[p].op /\ proc'[p].user = proc[p].user /\ proc'[p].seats = proc[p].seats
Ends(p) == proc'[p].pc = "idle" /\ proc'[p].op = "none"
Begins(p) == proc'[p].pc \in {"lock", "read", "write"} /\ Role(proc'[p])
Sweeping(p) == proc'[p].pc = "sweep" /\ proc'[p].op = "expire"
Moves(p) == SameCall(p) /\ proc'[p].pc \notin {"notify", "fanout"}
Commits(p) ==
    /\ SameCall(p) /\ proc'[p].pc = "notify" /\ proc[p].op \in BookingOps
    /\ booking'[proc'[p].booking].status \in Claimed[NoteType[proc[p].op]]
Writes(p) == SameCall(p) /\ proc'[p].pc = "notify" /\ proc[p].op \in Announced
Looks(p) ==
    /\ SameCall(p) /\ proc[p].pc = "notify" /\ proc[p].op \in TripOps /\ proc'[p].pc = "fanout"
    /\ proc'[p].todo \subseteq BookingsOn(proc[p].trip,
                                          IF proc[p].op = "startTrip" THEN {"accepted"} ELSE ActiveStatuses)
Tells(p) ==
    /\ SameCall(p) /\ proc[p].pc = "fanout" /\ proc'[p].pc = "fanout"
    /\ proc'[p].todo \subseteq proc[p].todo

ProcLife(p) ==
    \/ proc'[p] = proc[p]
    \/ Ends(p) \/ Begins(p) \/ Sweeping(p) \/ Moves(p)
    \/ Commits(p) \/ Writes(p) \/ Looks(p) \/ Tells(p)

\* Only one process moves on, by the given step of its life.
LEMMA OneMoves ==
  ASSUME CoreInv, NEW p \in Procs, NEW r, proc' = [proc EXCEPT ![p] = r], NEW q \in Procs
  PROVE  proc'[q] = IF q = p THEN r ELSE proc[q]
  BY DEF CoreInv, TypeOK

\* It returns.
LEMMA FinishLife ==
  ASSUME CoreInv, NEW p \in Procs, Finish(p), NEW q \in Procs
  PROVE  ProcLife(q) /\ (q # p => proc'[q] = proc[q])
<1>1. proc'[q] = IF q = p THEN Idle ELSE proc[q]
  BY OneMoves DEF Finish
<1> QED BY <1>1 DEF ProcLife, Ends, Idle

\* It moves on within its request.
LEMMA GotoLife ==
  ASSUME CoreInv, NEW p \in Procs, NEW pc, Goto(p, pc),
         pc \notin {"notify", "fanout"} \/ (pc = "notify" /\ proc[p].op \in Announced),
         NEW q \in Procs
  PROVE  ProcLife(q) /\ (q # p => proc'[q] = proc[q])
<1>1. proc' = [proc EXCEPT ![p] = [proc[p] EXCEPT !.pc = pc]] /\ proc[p] \in Processes
  BY DEF Goto, CoreInv, TypeOK
<1>2. proc'[q] = IF q = p THEN [proc[p] EXCEPT !.pc = pc] ELSE proc[q]
  BY <1>1, OneMoves
<1>3. CASE q = p
  BY <1>1, <1>2, <1>3 DEF ProcLife, Moves, Writes, SameCall, Processes
<1> QED BY <1>2, <1>3 DEF ProcLife

\* A request arrives with the role its endpoint asks for.
LEMMA CallLife ==
  ASSUME CoreInv, NEW h \in Handlers, NEW op, NEW user, NEW pc \in {"lock", "read", "write"},
         NEW t, NEW b, NEW n,
         op = "createBooking" => user \in Passengers,
         op \in {"acceptBooking", "rejectBooking"} => user \in Drivers,
         op = "cancelBooking" => user \in Drivers \cup Passengers,
         op = "createBooking" => n \in PartySizes,
         op = "createTrip" => n \in Capacities,
         op = "updateTrip" => n \in EditCapacities,
         Call(h, op, user, [pc |-> pc, trip |-> t, booking |-> b, seats |-> n]),
         NEW q \in Procs
  PROVE  ProcLife(q) /\ (q # h => proc'[q] = proc[q])
<1> DEFINE new == [Idle EXCEPT !.pc = pc, !.op = op, !.user = user, !.trip = t,
                               !.booking = b, !.seats = n]
<1>1. proc' = [proc EXCEPT ![h] = new] /\ h \in Procs
  BY DEF Call, Procs
<1>2. new.pc = pc /\ new.op = op /\ new.user = user /\ new.seats = n
  BY DEF Idle
<1> HIDE DEF new
<1>3. proc'[q] = IF q = h THEN new ELSE proc[q]
  BY <1>1, OneMoves
<1> QED BY <1>2, <1>3 DEF ProcLife, Begins, Role

\* A call that arrives is the only process that moves, and it starts a life.
LEMMA ArriveLife ==
  ASSUME CoreInv, NEW h \in Handlers, Arrive(h), NEW q \in Procs
  PROVE  ProcLife(q) /\ (q # h => proc'[q] = proc[q])
<1>1. approved \subseteq Drivers
  BY DEF CoreInv, TypeOK
<1>2. CASE CallCreateBooking(h)
  BY <1>2, CallLife DEF CallCreateBooking
<1>3. ASSUME NEW op \in {"acceptBooking", "rejectBooking"}, CallOnBooking(h, op, approved)
      PROVE  ProcLife(q) /\ (q # h => proc'[q] = proc[q])
  BY <1>1, <1>3, CallLife DEF CallOnBooking
<1>4. CASE CallOnBooking(h, "cancelBooking", Passengers \cup approved)
  BY <1>1, <1>4, CallLife DEF CallOnBooking
<1>5. CASE CallCreateTrip(h)
  BY <1>5, CallLife DEF CallCreateTrip
<1>6. ASSUME NEW op \in TripOps \ {"createTrip"}, NEW seats, CallOnTrip(h, op, seats),
             op = "updateTrip" => seats = EditCapacities
      PROVE  ProcLife(q) /\ (q # h => proc'[q] = proc[q])
  BY <1>6, CallLife DEF CallOnTrip, TripOps
<1> QED BY <1>2, <1>3, <1>4, <1>5, <1>6 DEF Arrive, TripOps

\* A transaction begins, commits with something to announce, or is refused; the
\* announcement is made.
LEMMA BookingStepLife ==
  ASSUME CoreInv, NEW h \in Handlers, BookingStep(h), NEW q \in Procs
  PROVE  ProcLife(q) /\ (q # h => proc'[q] = proc[q])
<1> DEFINE Goal == ProcLife(q) /\ (q # h => proc'[q] = proc[q])
<1>1. h \in Procs /\ proc[h] \in Processes /\ booking \in [Bookings -> BookingRows]
  BY DEF Procs, CoreInv, TypeOK
<1>2. CASE LockTrip(h)
  <2> DEFINE new == [proc[h] EXCEPT !.pc = "locked", !.row = trip[proc[h].trip]]
  <2>1. proc' = [proc EXCEPT ![h] = new]
    BY <1>1, <1>2 DEF LockTrip, CoreInv, TypeOK
  <2>2. /\ new.pc = "locked" /\ new.op = proc[h].op
        /\ new.user = proc[h].user /\ new.seats = proc[h].seats
    BY <1>1 DEF Processes
  <2> HIDE DEF new
  <2>3. proc'[q] = IF q = h THEN new ELSE proc[q]
    BY <1>1, <2>1, OneMoves
  <2> QED BY <2>2, <2>3 DEF ProcLife, Moves, SameCall
<1>3. CASE CreateBooking(h)
  <2>1. PICK b \in Bookings :
          /\ booking' = [booking EXCEPT ![b] =
                [status |-> "pending", trip |-> proc[h].trip, passenger |-> proc[h].user,
                 seats |-> proc[h].seats, hold |-> "running"]]
          /\ proc' = [proc EXCEPT ![h].pc = "notify", ![h].booking = b, ![h].row = NoTripRow]
    BY <1>3 DEF CreateBooking
  <2> DEFINE new == [proc[h] EXCEPT !.pc = "notify", !.booking = b, !.row = NoTripRow]
  <2>2. proc' = [proc EXCEPT ![h] = new]
    BY <1>1, <2>1 DEF CoreInv, TypeOK
  <2>3. /\ new.pc = "notify" /\ new.op = proc[h].op
        /\ new.user = proc[h].user /\ new.seats = proc[h].seats /\ new.booking = b
    BY <1>1 DEF Processes
  <2> HIDE DEF new
  <2>4. proc'[q] = IF q = h THEN new ELSE proc[q]
    BY <1>1, <2>2, OneMoves
  <2>5. booking'[b].status = "pending" /\ proc[h].op = "createBooking"
    BY <1>1, <1>3, <2>1 DEF CreateBooking, At
  <2>6. "pending" \in Claimed[NoteType["createBooking"]]
    BY DEF Claimed, NoteType, BookingStatuses, ActiveStatuses
  <2> QED BY <2>3, <2>4, <2>5, <2>6 DEF ProcLife, Commits, SameCall, BookingOps
<1>4. ASSUME NEW op \in BookingOps, NEW status, proc[h].pc = "locked", proc[h].op = op,
             proc[h].booking \in Bookings,
             status \in Claimed[NoteType[op]], EndBooking(h, status)
      PROVE  Goal
  <2> DEFINE new == [proc[h] EXCEPT !.pc = "notify", !.row = NoTripRow]
  <2>1. proc' = [proc EXCEPT ![h] = new]
    BY <1>1, <1>4 DEF EndBooking, CoreInv, TypeOK
  <2>2. /\ new.pc = "notify" /\ new.op = op
        /\ new.user = proc[h].user /\ new.seats = proc[h].seats /\ new.booking = proc[h].booking
    BY <1>1, <1>4 DEF Processes
  <2> HIDE DEF new
  <2>3. proc'[q] = IF q = h THEN new ELSE proc[q]
    BY <1>1, <2>1, OneMoves
  <2>4. booking'[proc[h].booking].status = status
    BY <1>1, <1>4 DEF EndBooking, SetBooking, BookingRows
  <2> QED BY <1>4, <2>2, <2>3, <2>4 DEF ProcLife, Commits, SameCall
<1>5. CASE AcceptBooking(h) \/ RejectBooking(h) \/ CancelBooking(h)
  <2>1. /\ "accepted" \in Claimed[NoteType["acceptBooking"]]
        /\ "rejected" \in Claimed[NoteType["rejectBooking"]]
        /\ "cancelled" \in Claimed[NoteType["cancelBooking"]]
    BY DEF Claimed, NoteType
  <2>2. proc[h].booking \in Bookings
    BY <1>1, <1>5 DEF AcceptBooking, RejectBooking, CancelBooking, At, CoreInv, RequestsValid, BookingPcs
  <2> QED BY <1>4, <1>5, <2>1, <2>2 DEF AcceptBooking, RejectBooking, CancelBooking, At, BookingOps
<1> QED BY <1>1, <1>2, <1>3, <1>5, FinishLife DEF BookingStep, Refuse, NotifyBooking

\* An error ends a process or all of them.
LEMMA ThrowLife ==
  ASSUME CoreInv, NEW p \in Procs, Throw(p), NEW q \in Procs
  PROVE  ProcLife(q) /\ (Monitored /\ q # p => proc'[q] = proc[q])
<1>1. CASE Monitored
  BY <1>1, FinishLife DEF Throw
<1>2. CASE ~Monitored
  BY <1>2 DEF Throw, ProcLife, Ends, Idle
<1> QED BY <1>1, <1>2

\* A run of the job goes from booking to booking.
LEMMA SweepStepLife ==
  ASSUME CoreInv, NEW s \in Sweeps, SweepStep(s), NEW q \in Procs
  PROVE  ProcLife(q) /\ (Monitored /\ q # s => proc'[q] = proc[q])
<1>1. s \in Procs /\ proc[s] \in Processes
  BY DEF Procs, CoreInv, TypeOK
<1>2. ASSUME NEW todo,
             proc' = [proc EXCEPT ![s] = [Idle EXCEPT !.pc = "sweep", !.op = "expire", !.todo = todo]]
      PROVE  ProcLife(q) /\ (q # s => proc'[q] = proc[q])
  <2> DEFINE new == [Idle EXCEPT !.pc = "sweep", !.op = "expire", !.todo = todo]
  <2>1. new.pc = "sweep" /\ new.op = "expire"
    BY DEF Idle
  <2>2. proc' = [proc EXCEPT ![s] = new]
    BY <1>2
  <2> HIDE DEF new
  <2>3. proc'[q] = IF q = s THEN new ELSE proc[q]
    BY <1>1, <2>2, OneMoves
  <2> QED BY <2>1, <2>3 DEF ProcLife, Sweeping
<1>3. CASE StartSweep(s)
  BY <1>2, <1>3 DEF StartSweep
<1>4. CASE TakeLapsed(s)
  <2>1. PICK b \in proc[s].todo :
          proc' = [proc EXCEPT ![s].pc = "lock", ![s].booking = b,
                               ![s].trip = booking[b].trip, ![s].todo = @ \ {b}]
    BY <1>4 DEF TakeLapsed
  <2> DEFINE new == [proc[s] EXCEPT !.pc = "lock", !.booking = b, !.trip = booking[b].trip,
                                    !.todo = @ \ {b}]
  <2>2. proc' = [proc EXCEPT ![s] = new]
    BY <1>1, <2>1 DEF CoreInv, TypeOK
  <2>3. /\ new.pc = "lock" /\ new.op = proc[s].op
        /\ new.user = proc[s].user /\ new.seats = proc[s].seats
    BY <1>1 DEF Processes
  <2> HIDE DEF new
  <2>4. proc'[q] = IF q = s THEN new ELSE proc[q]
    BY <1>1, <2>2, OneMoves
  <2> QED BY <2>3, <2>4 DEF ProcLife, Moves, SameCall
<1>5. CASE LockTrip(s)
  <2> DEFINE new == [proc[s] EXCEPT !.pc = "locked", !.row = trip[proc[s].trip]]
  <2>1. proc' = [proc EXCEPT ![s] = new]
    BY <1>1, <1>5 DEF LockTrip, CoreInv, TypeOK
  <2>2. /\ new.pc = "locked" /\ new.op = proc[s].op
        /\ new.user = proc[s].user /\ new.seats = proc[s].seats
    BY <1>1 DEF Processes
  <2> HIDE DEF new
  <2>3. proc'[q] = IF q = s THEN new ELSE proc[q]
    BY <1>1, <2>1, OneMoves
  <2> QED BY <2>2, <2>3 DEF ProcLife, Moves, SameCall
<1>6. CASE ExpireBooking(s) \/ SkipBooking(s)
  <2>1. NextInBatch(s)
    BY <1>6 DEF ExpireBooking, SkipBooking
  <2> QED BY <1>1, <1>2, <2>1, FinishLife DEF NextInBatch
<1>7. CASE AbandonSweep(s)
  BY <1>1, <1>7, ThrowLife DEF AbandonSweep
<1> QED BY <1>3, <1>4, <1>5, <1>6, <1>7 DEF SweepStep

\* A trip operation goes on, and tells the passengers one after the other.
LEMMA TripStepLife ==
  ASSUME CoreInv, NEW h \in Handlers, TripStep(h), NEW q \in Procs
  PROVE  ProcLife(q) /\ (q # h => proc'[q] = proc[q])
<1>1. h \in Procs /\ proc[h] \in Processes
  BY DEF Procs, CoreInv, TypeOK
<1>2. CASE CreateTrip(h) \/ UpdateTrip(h) \/ CompleteTrip(h)
  BY <1>1, <1>2, FinishLife DEF CreateTrip, UpdateTrip, CompleteTrip
<1>3. CASE ReadOwnedTrip(h) \/ CountActive(h)
  <2>1. Finish(h) \/ Goto(h, "count") \/ Goto(h, "write")
    BY <1>3 DEF ReadOwnedTrip, CountActive
  <2> QED BY <1>1, <2>1, FinishLife, GotoLife
<1>4. CASE StartTrip(h) \/ CancelTrip(h)
  <2>1. Goto(h, "notify") /\ proc[h].op \in Announced
    BY <1>4 DEF StartTrip, CancelTrip, SetTripStatus, At, Announced
  <2> QED BY <1>1, <2>1, GotoLife
<1>5. CASE ReadAudience(h)
  <2>1. CASE Audience(h) = {}
    BY <1>1, <1>5, <2>1, FinishLife DEF ReadAudience
  <2>2. CASE Audience(h) # {}
    <3> DEFINE new == [proc[h] EXCEPT !.pc = "fanout", !.todo = Audience(h)]
    <3>1. proc' = [proc EXCEPT ![h] = new]
      BY <1>1, <1>5, <2>2 DEF ReadAudience, CoreInv, TypeOK
    <3>2. /\ new.pc = "fanout" /\ new.op = proc[h].op
          /\ new.user = proc[h].user /\ new.seats = proc[h].seats /\ new.todo = Audience(h)
      BY <1>1 DEF Processes
    <3> HIDE DEF new
    <3>3. proc'[q] = IF q = h THEN new ELSE proc[q]
      BY <1>1, <3>1, OneMoves
    <3> QED BY <1>5, <3>2, <3>3 DEF ReadAudience, ProcLife, Looks, SameCall, Audience
  <2> QED BY <2>1, <2>2
<1>6. CASE NotifyTrip(h)
  <2>1. PICK b \in proc[h].todo : IF proc[h].todo = {b} THEN Finish(h)
                                  ELSE proc' = [proc EXCEPT ![h].todo = @ \ {b}]
    BY <1>6 DEF NotifyTrip
  <2>2. CASE proc[h].todo = {b}
    BY <1>1, <2>1, <2>2, FinishLife
  <2>3. CASE proc[h].todo # {b}
    <3> DEFINE new == [proc[h] EXCEPT !.todo = @ \ {b}]
    <3>1. proc' = [proc EXCEPT ![h] = new]
      BY <1>1, <2>1, <2>3 DEF CoreInv, TypeOK
    <3>2. /\ new.pc = proc[h].pc /\ new.op = proc[h].op
          /\ new.user = proc[h].user /\ new.seats = proc[h].seats
          /\ new.todo \subseteq proc[h].todo
      BY <1>1 DEF Processes
    <3> HIDE DEF new
    <3>3. proc'[q] = IF q = h THEN new ELSE proc[q]
      BY <1>1, <3>1, OneMoves
    <3> QED BY <1>6, <3>2, <3>3 DEF NotifyTrip, ProcLife, Tells, SameCall
  <2> QED BY <2>2, <2>3
<1> QED BY <1>2, <1>3, <1>4, <1>5, <1>6 DEF TripStep

\* Whatever step is taken, every process stays as it is or takes a step of its life.
LEMMA StepsAreProcLife ==
  ASSUME CoreInv, [Next]_vars, NEW q \in Procs
  PROVE  ProcLife(q)
<1>1. CASE UNCHANGED proc
  BY <1>1 DEF ProcLife
<1>2. ASSUME NEW p \in Faults, Fail(p) PROVE ProcLife(q)
  <2>1. p \in Procs
    BY ActorAssumption DEF Procs
  <2> QED BY <1>2, <2>1, FinishLife, ThrowLife DEF Fail
<1> QED BY <1>1, <1>2, ArriveLife, BookingStepLife, SweepStepLife, TripStepLife
        DEF Next, HoldLapses, DecideDriver, vars

-----------------------------------------------------------------------------
(* Notifications stay true *)

\* A process that goes on still has something true to say.
LEMMA ReadyKept ==
  ASSUME NoteInv, [Next]_vars, NEW p \in Procs
  PROVE  NoteReady(p)'
<1>1. NoteReady(p) /\ CoreInv /\ HoldsPending
  BY DEF NoteInv
<1>2. ASSUME NEW b \in Bookings, NEW type \in NoteTypes, booking[b].status \in Claimed[type]
      PROVE  booking'[b].status \in Claimed[type]
  BY <1>1, <1>2, ClaimsLast
<1>3. proc[p].todo \subseteq Bookings
  BY DEF NoteInv, CoreInv, TypeOK, Processes
<1>4. \A op : TripNote(op) \in NoteTypes
  BY DEF TripNote, NoteTypes
<1>5. CASE proc'[p] = proc[p]
  <2>1. proc[p].pc = "notify" /\ proc[p].op \in BookingOps =>
          /\ proc[p].booking \in Bookings
          /\ NoteType[proc[p].op] \in NoteTypes
    BY <1>1 DEF CoreInv, NotifiesBooking, NoteType, NoteTypes, BookingOps
  <2>2. proc[p].pc = "notify" /\ proc[p].op \in BookingOps =>
          booking'[proc[p].booking].status \in Claimed[NoteType[proc[p].op]]
    BY <1>1, <1>2, <2>1 DEF NoteReady
  <2>3. proc[p].pc = "fanout" => \A b \in proc[p].todo : booking'[b].status \in Claimed[TripNote(proc[p].op)]
    BY <1>1, <1>2, <1>3, <1>4 DEF NoteReady
  <2> QED BY <1>1, <1>5, <2>2, <2>3 DEF NoteReady, Role
<1>6. CASE Ends(p) \/ Begins(p) \/ Sweeping(p)
  BY <1>6 DEF Ends, Begins, Sweeping, NoteReady, Role
<1>7. CASE Moves(p) \/ Commits(p) \/ Writes(p)
  BY <1>1, <1>7 DEF Moves, Commits, Writes, SameCall, NoteReady, Role, Announced, BookingOps, TripOps
<1>8. CASE Looks(p)
  <2>1. proc[p].op \in Announced
    BY <1>1, <1>8 DEF Looks, NoteReady
  <2>2. \A b \in proc'[p].todo : b \in Bookings /\ booking[b].status \in Claimed[TripNote(proc[p].op)]
    BY <1>8, <2>1 DEF Looks, BookingsOn, Announced, TripNote, Claimed, BookingStatuses, ActiveStatuses
  <2>3. \A b \in proc'[p].todo : booking'[b].status \in Claimed[TripNote(proc[p].op)]
    BY <1>2, <1>4, <2>2
  <2> QED BY <1>1, <1>8, <2>1, <2>3 DEF Looks, SameCall, NoteReady, Role
<1>9. CASE Tells(p)
  <2>1. proc[p].op \in Announced /\ \A b \in proc'[p].todo : booking'[b].status \in Claimed[TripNote(proc[p].op)]
    BY <1>1, <1>2, <1>3, <1>4, <1>9 DEF Tells, NoteReady
  <2> QED BY <1>1, <1>9, <2>1 DEF Tells, SameCall, NoteReady, Role
<1> QED BY <1>1, <1>5, <1>6, <1>7, <1>8, <1>9, StepsAreProcLife DEF ProcLife

\* Only two actions write notifications.
LEMMA WhoNotifies ==
  ASSUME [Next]_vars
  PROVE  notes' = notes \/ \E h \in Handlers : NotifyBooking(h) \/ NotifyTrip(h)
<1>1. ASSUME NEW h \in Handlers, Arrive(h) PROVE notes' = notes
  BY <1>1 DEF Arrive, CallCreateBooking, CallOnBooking, CallCreateTrip, CallOnTrip, Call
<1>2. ASSUME NEW h \in Handlers, BookingStep(h) PROVE notes' = notes \/ NotifyBooking(h)
  BY <1>2 DEF BookingStep, LockTrip, CreateBooking, AcceptBooking, RejectBooking, CancelBooking,
              EndBooking, Refuse
<1>3. ASSUME NEW h \in Handlers, TripStep(h) PROVE notes' = notes \/ NotifyTrip(h)
  BY <1>3 DEF TripStep, CreateTrip, ReadOwnedTrip, CountActive, UpdateTrip, StartTrip, CancelTrip,
              CompleteTrip, SetTripStatus, ReadAudience
<1>4. ASSUME NEW s \in Sweeps, SweepStep(s) PROVE notes' = notes
  BY <1>4 DEF SweepStep, StartSweep, TakeLapsed, LockTrip, ExpireBooking, SkipBooking, AbandonSweep
<1> QED BY <1>1, <1>2, <1>3, <1>4 DEF Next, HoldLapses, DecideDriver, Fail, vars

\* What one notification says is true.
Truthful(n) ==
    LET b == booking[n.booking] IN
    /\ b.status \in Claimed[n.type]
    /\ n.to \in {b.passenger, trip[b.trip].driver}
    /\ n.type \in {"booking_accepted", "booking_rejected", "trip_started", "trip_cancelled"}
       => n.to = b.passenger

\* A notification that is there stays true.
LEMMA OldNotes ==
  ASSUME NoteInv, [Next]_vars, NEW n \in notes
  PROVE  Truthful(n)'
<1>1. n.booking \in Bookings /\ n.type \in NoteTypes /\ CoreInv /\ HoldsPending
  BY DEF NoteInv, CoreInv, TypeOK, Notes
<1>2. Truthful(n)
  BY DEF NoteInv, NotesTruthful, Truthful
<1>3. booking'[n.booking].status \in Claimed[n.type] /\ SamePlace(n.booking)
  BY <1>1, <1>2, ClaimsLast DEF Truthful
<1>4. booking[n.booking].status # "absent"
  BY <1>1, <1>2 DEF Truthful, NoteTypes, Claimed, ActiveStatuses, TerminalStatuses, BookingStatuses
<1>5. LET t == booking[n.booking].trip IN t \in Trips /\ trip[t].status # "absent"
  BY <1>1, <1>4 DEF CoreInv, RowsLinked
<1>6. trip'[booking[n.booking].trip].driver = trip[booking[n.booking].trip].driver
  BY <1>1, <1>5, DriversStay
<1> QED BY <1>2, <1>3, <1>6 DEF Truthful, SamePlace

\* A notification that is written is true.
LEMMA NewNotes ==
  ASSUME NoteInv, NEW h \in Handlers, NotifyBooking(h) \/ NotifyTrip(h), NEW n \in notes', n \notin notes
  PROVE  Truthful(n)'
<1>1. h \in Procs /\ NoteReady(h) /\ UNCHANGED <<trip, booking>>
  BY DEF Procs, NoteInv, NotifyBooking, NotifyTrip
<1>2. CASE NotifyBooking(h)
  <2>1. proc[h].pc = "notify" /\ proc[h].op \in BookingOps
    BY <1>2 DEF NotifyBooking
  <2>2. n = [type |-> NoteType[proc[h].op], booking |-> proc[h].booking, to |-> Recipient(h)]
    BY <1>2 DEF NotifyBooking
  <2>3. n.type = NoteType[proc[h].op] /\ n.booking = proc[h].booking /\ n.to = Recipient(h)
    BY <2>2
  <2>4. booking[n.booking].status \in Claimed[n.type]
    BY <1>1, <2>1, <2>3 DEF NoteReady
  <2>5. n.to = IF proc[h].user \in Passengers THEN trip[booking[n.booking].trip].driver
               ELSE booking[n.booking].passenger
    BY <2>3 DEF Recipient
  <2>6. n.type \in {"booking_accepted", "booking_rejected", "trip_started", "trip_cancelled"}
          => proc[h].user \notin Passengers
    BY <1>1, <2>1, <2>3, ActorAssumption DEF NoteReady, Role, NoteType, BookingOps
  <2> QED BY <1>1, <2>4, <2>5, <2>6 DEF Truthful
<1>3. CASE NotifyTrip(h)
  <2>1. PICK b \in proc[h].todo : n = [type |-> TripNote(proc[h].op), booking |-> b,
                                       to |-> booking[b].passenger]
    BY <1>3 DEF NotifyTrip, TripNote
  <2>2. n.type = TripNote(proc[h].op) /\ n.booking = b /\ n.to = booking[b].passenger
    BY <2>1
  <2>3. booking[b].status \in Claimed[n.type]
    BY <1>1, <1>3, <2>1, <2>2 DEF NotifyTrip, NoteReady
  <2> QED BY <1>1, <2>2, <2>3 DEF Truthful
<1> QED BY <1>2, <1>3

\* The invariant of notifications.
LEMMA NoteInvariant == Spec => []NoteInv
<1>1. Init => NoteInv
  <2> SUFFICES ASSUME Init PROVE NoteInv
    OBVIOUS
  <2>1. HoldsPending /\ NotesTruthful
    BY DEF Init, NoBookingRow, HoldsPending, NotesTruthful
  <2>2. \A p \in Procs : NoteReady(p)
    BY DEF Init, Idle, NoteReady, Role
  <2> QED BY <2>1, <2>2, InitCore DEF NoteInv
<1>2. ASSUME NoteInv, [Next]_vars PROVE NoteInv'
  <2>1. CoreInv' /\ HoldsPending'
    BY <1>2, NextKeepsCore, HoldsKept DEF NoteInv
  <2>2. \A p \in Procs : NoteReady(p)'
    BY <1>2, ReadyKept
  <2>3. \A n \in notes' : Truthful(n)'
    BY <1>2, WhoNotifies, OldNotes, NewNotes
  <2>4. NotesTruthful'
    BY <2>3 DEF NotesTruthful, Truthful
  <2> QED BY <2>1, <2>2, <2>4 DEF NoteInv
<1> QED BY <1>1, <1>2, PTL DEF Spec

\* A notification, written after its transaction committed and after anything else may have happened
\* to the booking, tells the right person what did happen (notifications.service.ts).
THEOREM NotesTruthfulHolds == Spec => []NotesTruthful
<1>1. NoteInv => NotesTruthful
  BY DEF NoteInv
<1> QED BY <1>1, NoteInvariant, PTL

-----------------------------------------------------------------------------
(* While nothing fails no decision is forgotten *)

DecisionOf == [pending |-> "createBooking", accepted |-> "acceptBooking",
               rejected |-> "rejectBooking", cancelled |-> "cancelBooking"]
Decisions == {"pending", "accepted", "rejected", "cancelled"}

\* Status s of b has been announced; or a handler is about to.
Said(b, s) == \E n \in notes : n.booking = b /\ n.type = NoteType[DecisionOf[s]]
ToSay(b, s) ==
    \E h \in Handlers : At(h, "notify", DecisionOf[s]) /\ proc[h].booking = b

\* The property in these words.
LEMMA AnnouncedMeans ==
  DecisionsAnnounced <=> \A b \in Bookings : booking[b].status \in Decisions =>
                            Said(b, booking[b].status) \/ ToSay(b, booking[b].status)
<1>1. ASSUME NEW s \in Decisions
      PROVE  /\ NoteType[DecisionOf[s]] = [pending |-> "booking_created", accepted |-> "booking_accepted",
                      rejected |-> "booking_rejected", cancelled |-> "booking_cancelled"][s]
             /\ DecisionOf[s] = [pending |-> "createBooking", accepted |-> "acceptBooking",
                      rejected |-> "rejectBooking", cancelled |-> "cancelBooking"][s]
  BY <1>1 DEF DecisionOf, NoteType, Decisions
<1>2. DOMAIN [pending |-> "booking_created", accepted |-> "booking_accepted",
              rejected |-> "booking_rejected", cancelled |-> "booking_cancelled"] = Decisions
  BY DEF Decisions
<1> QED BY <1>1, <1>2 DEF DecisionsAnnounced, Said, ToSay

\* A handler that is about to announce a decision does nothing else.
LEMMA NotifierWaits ==
  ASSUME CoreInv, Faults = {}, Monitored, [Next]_vars, NEW h \in Handlers,
         proc[h].pc = "notify", proc[h].op \in BookingOps
  PROVE  proc'[h] = proc[h] \/ NotifyBooking(h)
<1>1. h \in Procs /\ proc[h].op \notin TripOps /\ h \notin Sweeps
  BY ActorAssumption DEF Procs, BookingOps, TripOps
<1>2. ASSUME NEW g \in Handlers, Arrive(g) PROVE proc'[h] = proc[h]
  <2>1. g # h
    BY <1>2 DEF Arrive, CallCreateBooking, CallOnBooking, CallCreateTrip, CallOnTrip, Call
  <2> QED BY <1>1, <1>2, <2>1, ArriveLife
<1>3. ASSUME NEW g \in Handlers, BookingStep(g) PROVE proc'[h] = proc[h] \/ NotifyBooking(h)
  <2>1. g = h => NotifyBooking(h)
    BY <1>3 DEF BookingStep, LockTrip, CreateBooking, AcceptBooking, RejectBooking, CancelBooking,
                Refuse, At
  <2> QED BY <1>1, <1>3, <2>1, BookingStepLife
<1>4. ASSUME NEW g \in Handlers, TripStep(g) PROVE proc'[h] = proc[h]
  <2>1. g # h
    BY <1>1, <1>4 DEF TripStep, CreateTrip, ReadOwnedTrip, CountActive, UpdateTrip, StartTrip,
                      CancelTrip, CompleteTrip, SetTripStatus, ReadAudience, NotifyTrip, At
  <2> QED BY <1>1, <1>4, <2>1, TripStepLife
<1>5. ASSUME NEW s \in Sweeps, SweepStep(s) PROVE proc'[h] = proc[h]
  BY <1>1, <1>5, SweepStepLife
<1> QED BY <1>2, <1>3, <1>4, <1>5 DEF Next, HoldLapses, DecideDriver, vars

\* A decision is committed by a handler that goes on to announce it.
LEMMA DecisionCarried ==
  ASSUME CoreInv, [Next]_vars, NEW b \in Bookings,
         NEW s \in Decisions, booking[b].status # s, booking'[b].status = s
  PROVE  ToSay(b, s)'
<1> DEFINE Carried == ToSay(b, s)'
<1>1. booking \in [Bookings -> BookingRows] /\ proc \in [Procs -> Processes]
  BY DEF CoreInv, TypeOK
<1>2. ASSUME NEW h \in Handlers, CreateBooking(h) PROVE Carried
  <2>1. PICK c \in Bookings :
          /\ booking' = [booking EXCEPT ![c] =
                [status |-> "pending", trip |-> proc[h].trip, passenger |-> proc[h].user,
                 seats |-> proc[h].seats, hold |-> "running"]]
          /\ proc' = [proc EXCEPT ![h].pc = "notify", ![h].booking = c, ![h].row = NoTripRow]
    BY <1>2 DEF CreateBooking
  <2>2. c = b /\ s = "pending"
    BY <1>1, <2>1
  <2>3. h \in Procs /\ proc[h].op = "createBooking"
    BY <1>2 DEF CreateBooking, At, Procs
  <2>4. proc'[h].pc = "notify" /\ proc'[h].op = "createBooking" /\ proc'[h].booking = b
    BY <1>1, <2>1, <2>2, <2>3 DEF Processes
  <2> QED BY <2>2, <2>4 DEF ToSay, At, DecisionOf
<1>3. ASSUME NEW h \in Handlers, NEW status, EndBooking(h, status)
      PROVE  /\ s = status
             /\ proc'[h].pc = "notify" /\ proc'[h].op = proc[h].op /\ proc'[h].booking = b
  <2>1. h \in Procs /\ proc[h] \in Processes
    BY <1>1 DEF Procs
  <2>2. /\ booking' = [booking EXCEPT ![proc[h].booking].status = status, ![proc[h].booking].hold = "none"]
        /\ proc' = [proc EXCEPT ![h].pc = "notify", ![h].row = NoTripRow]
    BY <1>3 DEF EndBooking, SetBooking
  <2>3. proc[h].booking = b /\ s = status
    BY <1>1, <2>2 DEF BookingRows
  <2> QED BY <1>1, <2>1, <2>2, <2>3 DEF Processes
<1>4. ASSUME NEW h \in Handlers, AcceptBooking(h) PROVE Carried
  BY <1>3, <1>4 DEF AcceptBooking, At, ToSay, DecisionOf
<1>5. ASSUME NEW h \in Handlers, RejectBooking(h) PROVE Carried
  BY <1>3, <1>5 DEF RejectBooking, At, ToSay, DecisionOf
<1>6. ASSUME NEW h \in Handlers, CancelBooking(h) PROVE Carried
  BY <1>3, <1>6 DEF CancelBooking, At, ToSay, DecisionOf
<1>7. ASSUME NEW h \in Handlers, BookingStep(h) PROVE Carried
  BY <1>2, <1>4, <1>5, <1>6, <1>7 DEF BookingStep, LockTrip, Refuse, NotifyBooking
<1>8. ASSUME NEW w \in Sweeps, SweepStep(w) PROVE FALSE
  <2>1. CASE ExpireBooking(w)
    <3>1. booking' = [booking EXCEPT ![proc[w].booking].status = "expired", ![proc[w].booking].hold = "none"]
      BY <2>1 DEF ExpireBooking, SetBooking
    <3> QED BY <1>1, <3>1 DEF BookingRows, Decisions
  <2> QED BY <1>8, <2>1 DEF SweepStep, StartSweep, TakeLapsed, LockTrip, SkipBooking, AbandonSweep
<1>9. ASSUME NEW h \in Handlers, TripStep(h) PROVE FALSE
  <2>1. CASE CompleteTrip(h)
    <3>1. booking'[b].status \in {booking[b].status, "completed"}
      BY <1>1, <2>1 DEF CompleteTrip, BookingRows
    <3> QED BY <3>1 DEF Decisions
  <2> QED BY <1>9, <2>1 DEF TripStep, CreateTrip, ReadOwnedTrip, CountActive, UpdateTrip, StartTrip,
                            CancelTrip, ReadAudience, NotifyTrip
<1>10. ASSUME NEW h \in Handlers, Arrive(h) PROVE FALSE
  BY <1>10 DEF Arrive, CallCreateBooking, CallOnBooking, CallCreateTrip, CallOnTrip, Call
<1>11. ASSUME NEW c \in Bookings, HoldLapses(c) PROVE FALSE
  <2>1. booking' = [booking EXCEPT ![c].hold = "lapsed"]
    BY <1>11 DEF HoldLapses
  <2> QED BY <1>1, <2>1 DEF BookingRows
<1> QED BY <1>7, <1>8, <1>9, <1>10, <1>11 DEF Next, DecideDriver, Fail, vars

\* Notifications are never taken back.
LEMMA NotesGrow == [Next]_vars => notes \subseteq notes'
  BY WhoNotifies DEF NotifyBooking, NotifyTrip

\* While no statement fails and an error of the job does not end the server, every booking that was
\* requested, accepted, rejected or cancelled has been announced as that, or is about to be: no
\* interleaving loses or overtakes an announcement (bookings.service.ts).
THEOREM DecisionsAnnouncedHolds ==
  ASSUME Faults = {}, Monitored
  PROVE  Spec => []DecisionsAnnounced
<1>1. Init => DecisionsAnnounced
  BY AnnouncedMeans DEF Init, NoBookingRow, Decisions
<1> DEFINE Told == \A b \in Bookings : booking[b].status \in Decisions =>
                       Said(b, booking[b].status) \/ ToSay(b, booking[b].status)
<1>0. DecisionsAnnounced' <=> Told'
  BY AnnouncedMeans, PTL
<1>2. ASSUME CoreInv, DecisionsAnnounced, [Next]_vars
      PROVE  DecisionsAnnounced'
  <2> SUFFICES ASSUME NEW b \in Bookings, NEW s \in Decisions, booking'[b].status = s
               PROVE  Said(b, s)' \/ ToSay(b, s)'
    BY <1>0
  <2>1. CASE booking[b].status # s
    BY <1>2, <2>1, DecisionCarried
  <2>2. CASE booking[b].status = s
    <3>1. Said(b, s) \/ ToSay(b, s)
      BY <1>2, <2>2, AnnouncedMeans
    <3>2. CASE Said(b, s)
      BY <1>2, <3>2, NotesGrow DEF Said
    <3>3. CASE ToSay(b, s)
      <4>1. PICK h \in Handlers : At(h, "notify", DecisionOf[s]) /\ proc[h].booking = b
        BY <3>3 DEF ToSay
      <4>2. DecisionOf[s] \in BookingOps
        BY DEF DecisionOf, Decisions, BookingOps
      <4>3. CASE proc'[h] = proc[h]
        BY <4>1, <4>3 DEF ToSay, At
      <4>4. CASE NotifyBooking(h)
        <5>1. [type |-> NoteType[DecisionOf[s]], booking |-> b, to |-> Recipient(h)] \in notes'
          BY <4>1, <4>4 DEF NotifyBooking, At
        <5> QED BY <5>1 DEF Said
      <4> QED BY <1>2, <4>1, <4>2, <4>3, <4>4, NotifierWaits DEF At
    <3> QED BY <3>1, <3>2, <3>3
  <2> QED BY <2>1, <2>2
<1> QED BY <1>1, <1>2, CoreInvariant, PTL DEF Spec
=============================================================================
