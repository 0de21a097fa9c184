----------------------------- MODULE TripBooking ----------------------------
(***************************************************************************)
(* The trip and booking services of the backend, running against one       *)
(* PostgreSQL database: passengers book seats, drivers publish, edit,      *)
(* start, complete and cancel trips and decide bookings, and a job expires *)
(* the holds that lapsed.                                                  *)
(*                                                                         *)
(* Several HTTP handlers and several runs of the job are in flight at      *)
(* once.  A step of the model is a database statement, or a transaction    *)
(* from its row lock to its commit.  Between two awaits of a handler any   *)
(* other process may step.  A booking operation runs under the row lock    *)
(* of its trip (SELECT ... FOR UPDATE); the trip operations take no lock   *)
(* when they check and only wait for it in their UPDATE.                   *)
(***************************************************************************)
EXTENDS Integers, FiniteSets

CONSTANTS
    Trips, Bookings,      \* rows that may come to exist
    Drivers, Passengers,  \* accounts, by role
    Handlers,             \* HTTP requests in flight at a time
    Sweeps,               \* overlapping runs of the expiry job
    Capacities,           \* totalSeats of POST /trips
    PartySizes,           \* seatsCount of POST /bookings
    EditCapacities,       \* totalSeats of PATCH /trips/:id, 0 when left out
    BatchLimit,           \* bookings one run of the job reads
    Endpoints,            \* endpoints the clients call
    Suspendable,          \* drivers whose approval an admin changes
    Faults,               \* handlers and runs of the job that may fail
    Monitored,            \* whether Sentry is set up (SENTRY_DSN)
    None                  \* no value of the above

BookingOps == {"createBooking", "acceptBooking", "rejectBooking", "cancelBooking"}
TripOps == {"createTrip", "updateTrip", "startTrip", "completeTrip", "cancelTrip"}

ASSUME SeatInputsAssumption ==
    /\ Capacities \subseteq Nat \ {0}
    /\ PartySizes \subseteq Nat \ {0}
    /\ EditCapacities \subseteq Nat
ASSUME BatchAssumption == BatchLimit \in Nat \ {0}
ASSUME EndpointAssumption == Endpoints \subseteq BookingOps \cup TripOps
ASSUME ActorAssumption ==
    /\ Suspendable \subseteq Drivers
    /\ Faults \subseteq Handlers \cup Sweeps
    /\ Monitored \in BOOLEAN
    /\ Handlers \cap Sweeps = {}
    /\ Drivers \cap Passengers = {}
    /\ None \notin Trips \cup Bookings \cup Drivers \cup Passengers \cup Handlers \cup Sweeps

VARIABLES
    trip,      \* table trips
    booking,   \* table bookings
    notes,     \* table notifications
    lock,      \* holder of the row lock of every trip
    proc,      \* the handlers and the runs of the expiry job
    approved,  \* drivers with status approved
    clobbered  \* history: trips an edit resized while seats were held

vars == <<trip, booking, notes, lock, proc, approved, clobbered>>

-----------------------------------------------------------------------------
(* Rows *)

Procs == Handlers \cup Sweeps
TripStatuses == {"absent", "open", "started", "completed", "cancelled"}
ActiveStatuses == {"pending", "accepted"}
TerminalStatuses == {"rejected", "cancelled", "completed", "expired"}
BookingStatuses == {"absent"} \cup ActiveStatuses \cup TerminalStatuses
\* Completing a trip keeps the seats of its bookings, every other end frees them.
HoldingStatuses == {"pending", "accepted", "completed"}

NoTripRow == [status |-> "absent", driver |-> None, total |-> 0, avail |-> 0]
NoBookingRow == [status |-> "absent", trip |-> None, passenger |-> None,
                 seats |-> 0, hold |-> "none"]
Idle == [pc |-> "idle", op |-> "none", user |-> None, trip |-> None,
         booking |-> None, seats |-> 0, row |-> NoTripRow, todo |-> {}]

TripRows == [status : TripStatuses, driver : Drivers \cup {None}, total : Nat, avail : Nat]
BookingRows == [status : BookingStatuses, trip : Trips \cup {None},
                passenger : Passengers \cup {None}, seats : Nat,
                hold : {"none", "running", "lapsed"}]
NoteTypes == {"booking_created", "booking_accepted", "booking_rejected",
              "booking_cancelled", "trip_started", "trip_cancelled"}
Notes == [type : NoteTypes, booking : Bookings, to : Drivers \cup Passengers \cup {None}]
Processes ==
    [pc : {"idle", "lock", "locked", "read", "count", "write", "notify", "fanout", "sweep"},
     op : BookingOps \cup TripOps \cup {"expire", "none"},
     user : Drivers \cup Passengers \cup {None},
     trip : Trips \cup {None}, booking : Bookings \cup {None}, seats : Nat,
     row : TripRows, todo : SUBSET Bookings]

BookingsOn(t, statuses) == {b \in Bookings : booking[b].trip = t /\ booking[b].status \in statuses}

\* The seats held on trip t, one element per seat.
HeldSeats(t) == UNION {{b} \X (1..booking[b].seats) : b \in BookingsOn(t, HoldingStatuses)}

Init ==
    /\ trip = [t \in Trips |-> NoTripRow]
    /\ booking = [b \in Bookings |-> NoBookingRow]
    /\ notes = {}
    /\ lock = [t \in Trips |-> None]
    /\ proc = [p \in Procs |-> Idle]
    /\ approved = Drivers
    /\ clobbered = {}

-----------------------------------------------------------------------------
(* Helpers of the handlers *)

At(p, pc, op) == proc[p].pc = pc /\ proc[p].op = op
Goto(p, pc) == proc' = [proc EXCEPT ![p].pc = pc]
Finish(p) == proc' = [proc EXCEPT ![p] = Idle]

UnlockForgotten(t) == UNCHANGED lock  \* mutant: the transaction is never ended
Unlock(t) == lock' = [lock EXCEPT ![t] = None]

\* Nobody else's transaction holds the row: a FOR UPDATE or an UPDATE gets through.
RowFreeUnlocked(t) == TRUE  \* mutant: SELECT without FOR UPDATE
RowFree(t) == lock[t] = None

\* The transaction of p, if it has one open, rolls back.
Rollback(p) == lock' = [t \in Trips |-> IF lock[t] = p THEN None ELSE lock[t]]

\* An error leaves a run of the job.  Nothing awaits the run, so the rejection is
\* unhandled: with Sentry's handler installed the rest of the batch is dropped,
\* without it Node ends the process and every request in flight with it.
Throw(s) ==
    IF Monitored THEN Rollback(s) /\ Finish(s)
    ELSE /\ lock' = [t \in Trips |-> None]
         /\ proc' = [p \in Procs |-> Idle]

SeatBounds(total, avail) == avail \in 0..total

\* The booking a decision is about is still waiting for one.
UndecidedUnread(b) == TRUE  \* mutant: the status is not read again under the lock
Undecided(b) == booking[b].status = "pending"

\* An active booking of the passenger on the trip.
HasActiveAccepted(t, u) ==  \* mutant: pending bookings are overlooked
    \E b \in BookingsOn(t, {"accepted"}) : booking[b].passenger = u
HasActive(t, u) == \E b \in BookingsOn(t, ActiveStatuses) : booking[b].passenger = u

\* Seats the committed operation adds to available_seats.
SeatDelta(p) ==
    CASE proc[p].op = "createBooking" -> -proc[p].seats
      [] proc[p].op = "acceptBooking" -> 0
      [] OTHER                        -> booking[proc[p].booking].seats

\* The second half of withLockedTripSeatMutation: the new count, from the row
\* read under the lock, has to be within bounds, is stored, and the transaction
\* commits, which frees the row.
SeatsFit(p) == SeatBounds(proc[p].row.total, proc[p].row.avail + SeatDelta(p))
CommitSeats(p) ==
    /\ SeatsFit(p)
    /\ trip' = [trip EXCEPT ![proc[p].trip].avail =
                   IF SeatDelta(p) = 0 THEN @ ELSE proc[p].row.avail + SeatDelta(p)]
    /\ Unlock(proc[p].trip)

SetBooking(b, status) ==
    booking' = [booking EXCEPT ![b].status = status, ![b].hold = "none"]

-----------------------------------------------------------------------------
(* Requests arrive.  Roles and approval are checked before anything else.  *)

Call(h, op, user, at) ==
    /\ proc[h].pc = "idle"
    /\ op \in Endpoints
    /\ proc' = [proc EXCEPT ![h] = [Idle EXCEPT !.pc = at.pc, !.op = op, !.user = user,
                                      !.trip = at.trip, !.booking = at.booking,
                                      !.seats = at.seats]]
    /\ UNCHANGED <<trip, booking, notes, lock, approved, clobbered>>

\* Bound: a row is left for every insert in flight.
RowsLeft(rows, table, op) ==
    Cardinality({r \in rows : table[r].status = "absent"})
       > Cardinality({h \in Handlers : proc[h].op = op /\ proc[h].pc # "notify"})

CallCreateBooking(h) ==
    \E u \in Passengers, t \in Trips, n \in PartySizes :
        /\ trip[t].status # "absent"
        /\ RowsLeft(Bookings, booking, "createBooking")
        /\ Call(h, "createBooking", u, [pc |-> "lock", trip |-> t, booking |-> None, seats |-> n])

CallOnBooking(h, op, users) ==
    \E u \in users, b \in Bookings :
        /\ booking[b].status # "absent"
        /\ Call(h, op, u, [pc |-> "lock", trip |-> booking[b].trip, booking |-> b, seats |-> 0])

CallCreateTrip(h) ==
    \E d \in approved, n \in Capacities :
        /\ RowsLeft(Trips, trip, "createTrip")
        /\ Call(h, "createTrip", d, [pc |-> "write", trip |-> None, booking |-> None, seats |-> n])

CallOnTrip(h, op, seats) ==
    \E d \in approved, t \in Trips, n \in seats :
        /\ trip[t].status # "absent"
        /\ Call(h, op, d, [pc |-> "read", trip |-> t, booking |-> None, seats |-> n])

Arrive(h) ==
    \/ CallCreateBooking(h)
    \/ \E op \in {"acceptBooking", "rejectBooking"} : CallOnBooking(h, op, approved)
    \/ CallOnBooking(h, "cancelBooking", Passengers \cup approved)
    \/ CallCreateTrip(h)
    \/ CallOnTrip(h, "updateTrip", EditCapacities)
    \/ \E op \in {"startTrip", "completeTrip", "cancelTrip"} : CallOnTrip(h, op, {0})

-----------------------------------------------------------------------------
(* Booking operations, under the row lock of the trip *)

\* SELECT ... FOR UPDATE: waits for the row, then reads it.
LockTrip(p) ==
    /\ proc[p].pc = "lock"
    /\ RowFree(proc[p].trip)
    /\ lock' = [lock EXCEPT ![proc[p].trip] = p]
    /\ proc' = [proc EXCEPT ![p].pc = "locked", ![p].row = trip[proc[p].trip]]
    /\ UNCHANGED <<trip, booking, notes, approved, clobbered>>

MayCreate(h) ==
    LET r == proc[h] IN
    /\ r.row.status = "open"
    /\ r.row.avail >= r.seats
    /\ ~HasActive(r.trip, r.user)

CreateBooking(h) ==
    /\ At(h, "locked", "createBooking")
    /\ MayCreate(h)
    /\ CommitSeats(h)
    /\ \E b \in Bookings :
          /\ booking[b].status = "absent"
          /\ booking' = [booking EXCEPT ![b] =
                [status |-> "pending", trip |-> proc[h].trip, passenger |-> proc[h].user,
                 seats |-> proc[h].seats, hold |-> "running"]]
          /\ proc' = [proc EXCEPT ![h].pc = "notify", ![h].booking = b, ![h].row = NoTripRow]
    /\ UNCHANGED <<notes, approved, clobbered>>

\* The tail of the three operations on an existing booking.
EndBooking(h, status) ==
    /\ CommitSeats(h)
    /\ SetBooking(proc[h].booking, status)
    /\ proc' = [proc EXCEPT ![h].pc = "notify", ![h].row = NoTripRow]
    /\ UNCHANGED <<notes, approved, clobbered>>

OwnsTrip(h) == proc[h].row.driver = proc[h].user
MayAccept(h) == OwnsTrip(h) /\ Undecided(proc[h].booking)
MayReject(h) == OwnsTrip(h) /\ Undecided(proc[h].booking)
MayCancel(h) ==
    /\ OwnsTrip(h) \/ booking[proc[h].booking].passenger = proc[h].user
    /\ booking[proc[h].booking].status \in ActiveStatuses

AcceptBooking(h) ==
    At(h, "locked", "acceptBooking") /\ MayAccept(h) /\ EndBooking(h, "accepted")
RejectBooking(h) ==
    At(h, "locked", "rejectBooking") /\ MayReject(h) /\ EndBooking(h, "rejected")
CancelBooking(h) ==
    At(h, "locked", "cancelBooking") /\ MayCancel(h) /\ EndBooking(h, "cancelled")

Permitted(h) ==
    CASE proc[h].op = "createBooking" -> MayCreate(h)
      [] proc[h].op = "acceptBooking" -> MayAccept(h)
      [] proc[h].op = "rejectBooking" -> MayReject(h)
      [] OTHER                        -> MayCancel(h)

\* A check of the transaction throws: it rolls back, which frees the row.
Refuse(h) ==
    /\ proc[h].pc = "locked"
    /\ ~(Permitted(h) /\ SeatsFit(h))
    /\ Unlock(proc[h].trip)
    /\ Finish(h)
    /\ UNCHANGED <<trip, booking, notes, approved, clobbered>>

\* The notification of the committed operation, to the other side of the booking.
NoteTypeMixedUp ==  \* mutant: a rejection is announced as an acceptance
    [createBooking |-> "booking_created", acceptBooking |-> "booking_accepted",
     rejectBooking |-> "booking_accepted", cancelBooking |-> "booking_cancelled"]
NoteType == [createBooking |-> "booking_created", acceptBooking |-> "booking_accepted",
             rejectBooking |-> "booking_rejected", cancelBooking |-> "booking_cancelled"]
Recipient(h) ==
    LET b == booking[proc[h].booking] IN
    IF proc[h].user \in Passengers THEN trip[b.trip].driver ELSE b.passenger

NotifyBooking(h) ==
    /\ proc[h].pc = "notify"
    /\ proc[h].op \in BookingOps
    /\ notes' = notes \cup {[type |-> NoteType[proc[h].op], booking |-> proc[h].booking,
                             to |-> Recipient(h)]}
    /\ Finish(h)
    /\ UNCHANGED <<trip, booking, lock, approved, clobbered>>

-----------------------------------------------------------------------------
(* The expiry job *)

\* Time passes: the fifteen minutes of a pending booking are over.
HoldLapses(b) ==
    /\ booking[b].hold = "running"
    /\ booking' = [booking EXCEPT ![b].hold = "lapsed"]
    /\ UNCHANGED <<trip, notes, lock, proc, approved, clobbered>>

LapsedLater ==  \* mutant: the comparison with the clock is the wrong way round
    {b \in Bookings : booking[b].status = "pending" /\ booking[b].hold = "running"}
Lapsed == {b \in Bookings : booking[b].status = "pending" /\ booking[b].hold = "lapsed"}

\* The interval timer starts a run, also while an earlier one is going on.
StartSweep(s) ==
    /\ proc[s].pc = "idle"
    /\ Lapsed # {}
    /\ \E batch \in SUBSET Lapsed :
          /\ batch = Lapsed \/ Cardinality(batch) = BatchLimit
          /\ Cardinality(batch) <= BatchLimit
          /\ proc' = [proc EXCEPT ![s] = [Idle EXCEPT !.pc = "sweep", !.op = "expire",
                                                      !.todo = batch]]
    /\ UNCHANGED <<trip, booking, notes, lock, approved, clobbered>>

TakeLapsed(s) ==
    /\ proc[s].pc = "sweep"
    /\ \E b \in proc[s].todo :
          proc' = [proc EXCEPT ![s].pc = "lock", ![s].booking = b,
                               ![s].trip = booking[b].trip, ![s].todo = @ \ {b}]
    /\ UNCHANGED <<trip, booking, notes, lock, approved, clobbered>>

NextInBatch(s) ==
    IF proc[s].todo = {} THEN Finish(s)
    ELSE proc' = [proc EXCEPT ![s] = [Idle EXCEPT !.pc = "sweep", !.op = "expire",
                                                  !.todo = proc[s].todo]]

ExpireBooking(s) ==
    /\ At(s, "locked", "expire")
    /\ Undecided(proc[s].booking)
    /\ CommitSeats(s)
    /\ SetBooking(proc[s].booking, "expired")
    /\ NextInBatch(s)
    /\ UNCHANGED <<notes, approved, clobbered>>

\* Somebody settled the booking since the batch was read.
SkipBooking(s) ==
    /\ At(s, "locked", "expire")
    /\ ~Undecided(proc[s].booking)
    /\ Unlock(proc[s].trip)
    /\ NextInBatch(s)
    /\ UNCHANGED <<trip, booking, notes, approved, clobbered>>

\* The bounds check throws, here and at the next run: the booking stays pending.
AbandonSweep(s) ==
    /\ At(s, "locked", "expire")
    /\ Undecided(proc[s].booking)
    /\ ~SeatsFit(s)
    /\ Throw(s)
    /\ UNCHANGED <<trip, booking, notes, approved, clobbered>>

-----------------------------------------------------------------------------
(* Trip operations: check first, write later, no lock in between *)

CreateTrip(h) ==
    /\ At(h, "write", "createTrip")
    /\ \E t \in Trips :
          /\ trip[t].status = "absent"
          /\ trip' = [trip EXCEPT ![t] = [status |-> "open", driver |-> proc[h].user,
                                          total |-> proc[h].seats, avail |-> proc[h].seats]]
    /\ Finish(h)
    /\ UNCHANGED <<booking, notes, lock, approved, clobbered>>

\* Trip statuses in which each operation is allowed.
AllowedFromEarly ==  \* mutant: an open trip can be completed
    [updateTrip |-> {"open"}, startTrip |-> {"open"},
     completeTrip |-> {"open", "started"}, cancelTrip |-> {"open", "started"}]
AllowedFrom == [updateTrip |-> {"open"}, startTrip |-> {"open"},
                completeTrip |-> {"started"}, cancelTrip |-> {"open", "started"}]

\* getOwnedTrip and the status check; the rest of the handler trusts them.
ReadOwnedTrip(h) ==
    /\ proc[h].pc = "read"
    /\ LET row == trip[proc[h].trip] IN
       IF row.driver = proc[h].user /\ row.status \in AllowedFrom[proc[h].op]
       THEN Goto(h, IF proc[h].op = "updateTrip" THEN "count" ELSE "write")
       ELSE Finish(h)
    /\ UNCHANGED <<trip, booking, notes, lock, approved, clobbered>>

CountActiveAccepted(h) ==  \* mutant: only accepted bookings block an edit
    /\ proc[h].pc = "count"
    /\ IF BookingsOn(proc[h].trip, {"accepted"}) = {} THEN Goto(h, "write") ELSE Finish(h)
    /\ UNCHANGED <<trip, booking, notes, lock, approved, clobbered>>
CountActive(h) ==
    /\ proc[h].pc = "count"
    /\ IF BookingsOn(proc[h].trip, ActiveStatuses) = {} THEN Goto(h, "write") ELSE Finish(h)
    /\ UNCHANGED <<trip, booking, notes, lock, approved, clobbered>>

\* A resized trip has all of its new seats free.
ResizedTotalOnly(row, n) == [row EXCEPT !.total = n]  \* mutant: the count is not reset
Resized(row, n) == [row EXCEPT !.total = n, !.avail = n]

UpdateTrip(h) ==
    LET t == proc[h].trip  n == proc[h].seats IN
    /\ At(h, "write", "updateTrip")
    /\ RowFree(t)
    /\ trip' = IF n = 0 THEN trip ELSE [trip EXCEPT ![t] = Resized(@, n)]
    /\ clobbered' = IF n # 0 /\ HeldSeats(t) # {} THEN clobbered \cup {t} ELSE clobbered
    /\ Finish(h)
    /\ UNCHANGED <<booking, notes, lock, approved>>

SetTripStatus(h, op, status) ==
    /\ At(h, "write", op)
    /\ RowFree(proc[h].trip)
    /\ trip' = [trip EXCEPT ![proc[h].trip].status = status]
    /\ UNCHANGED <<notes, lock, approved, clobbered>>

StartTrip(h) ==
    SetTripStatus(h, "startTrip", "started") /\ Goto(h, "notify") /\ UNCHANGED booking
CancelTrip(h) ==
    SetTripStatus(h, "cancelTrip", "cancelled") /\ Goto(h, "notify") /\ UNCHANGED booking

\* The bookings that are completed with their trip.
EndsWithTripAny == BookingStatuses \ {"absent"}  \* mutant: whatever their status
EndsWithTrip == {"accepted"}

\* One transaction: its UPDATE of the trip keeps the row until the bookings are done.
CompleteTrip(h) ==
    /\ SetTripStatus(h, "completeTrip", "completed")
    /\ booking' = [b \in Bookings |->
          IF b \in BookingsOn(proc[h].trip, EndsWithTrip)
          THEN [booking[b] EXCEPT !.status = "completed", !.hold = "none"]
          ELSE booking[b]]
    /\ Finish(h)

\* The bookings whose passengers hear of the trip, read after the status is committed.
AudienceActive(h) == BookingsOn(proc[h].trip, ActiveStatuses)  \* mutant: also the pending ones
Audience(h) ==
    BookingsOn(proc[h].trip,
               IF proc[h].op = "startTrip" THEN {"accepted"} ELSE ActiveStatuses)

ReadAudience(h) ==
    /\ proc[h].pc = "notify"
    /\ proc[h].op \in TripOps
    /\ IF Audience(h) = {} THEN Finish(h)
       ELSE proc' = [proc EXCEPT ![h].pc = "fanout", ![h].todo = Audience(h)]
    /\ UNCHANGED <<trip, booking, notes, lock, approved, clobbered>>

NotifyTrip(h) ==
    /\ proc[h].pc = "fanout"
    /\ \E b \in proc[h].todo :
          /\ notes' = notes \cup
                {[type |-> IF proc[h].op = "startTrip" THEN "trip_started" ELSE "trip_cancelled",
                  booking |-> b, to |-> booking[b].passenger]}
          /\ IF proc[h].todo = {b} THEN Finish(h)
             ELSE proc' = [proc EXCEPT ![h].todo = @ \ {b}]
    /\ UNCHANGED <<trip, booking, lock, approved, clobbered>>

-----------------------------------------------------------------------------
(* Environment *)

\* An admin approves or suspends a driver.
DecideDriver(d) ==
    /\ approved' = IF d \in approved THEN approved \ {d} ELSE approved \cup {d}
    /\ UNCHANGED <<trip, booking, notes, lock, proc, clobbered>>

\* A statement of p rejects or its transaction times out: an open transaction
\* rolls back, what was committed stays and nothing more is done about it.  The
\* server dying is every process failing, one after the other.
Fail(p) ==
    /\ proc[p].pc # "idle"
    /\ IF p \in Handlers THEN Rollback(p) /\ Finish(p) ELSE Throw(p)
    /\ UNCHANGED <<trip, booking, notes, approved, clobbered>>

-----------------------------------------------------------------------------
(* Specification *)

BookingStep(h) ==
    \/ LockTrip(h) \/ CreateBooking(h) \/ AcceptBooking(h) \/ RejectBooking(h)
    \/ CancelBooking(h) \/ Refuse(h) \/ NotifyBooking(h)
TripStep(h) ==
    \/ CreateTrip(h) \/ ReadOwnedTrip(h) \/ CountActive(h) \/ UpdateTrip(h)
    \/ StartTrip(h) \/ CancelTrip(h) \/ CompleteTrip(h)
    \/ ReadAudience(h) \/ NotifyTrip(h)
SweepStep(s) ==
    \/ StartSweep(s) \/ TakeLapsed(s) \/ LockTrip(s)
    \/ ExpireBooking(s) \/ SkipBooking(s) \/ AbandonSweep(s)

Next ==
    \/ \E h \in Handlers : Arrive(h) \/ BookingStep(h) \/ TripStep(h)
    \/ \E s \in Sweeps : SweepStep(s)
    \/ \E b \in Bookings : HoldLapses(b)
    \/ \E d \in Suspendable : DecideDriver(d)
    \/ \E p \in Faults : Fail(p)

Spec == Init /\ [][Next]_vars

\* Every process gets on with its work, and PostgreSQL grants a row lock in the
\* order of arrival, so a waiting process is not overtaken for ever.  The timer
\* keeps starting the job and the clock moves.  Clients need not call anything.
Fairness ==
    /\ \A h \in Handlers : SF_vars(BookingStep(h) \/ TripStep(h))
    /\ \A s \in Sweeps : SF_vars(SweepStep(s))
    /\ \A b \in Bookings : WF_vars(HoldLapses(b))

FairSpec == Spec /\ Fairness

-----------------------------------------------------------------------------
(* Properties *)

\* Every table, lock and process has its shape, and the CHECK constraint of the
\* trips table (seats between zero and the total) never has anything to refuse.
TypeOK ==
    /\ trip \in [Trips -> TripRows]
    /\ \A t \in Trips : trip[t].avail <= trip[t].total
    /\ booking \in [Bookings -> BookingRows]
    /\ notes \subseteq Notes
    /\ lock \in [Trips -> Procs \cup {None}]
    /\ proc \in [Procs -> Processes]
    /\ approved \subseteq Drivers
    /\ clobbered \subseteq Trips

\* The count a trip advertises and the bookings that hold its seats account for
\* all of its seats, whatever bookings, decisions, expiries and trip operations
\* overlap, as long as no edit resized the trip under its bookings.
SeatsConserved ==
    \A t \in Trips \ clobbered :
        trip[t].avail + Cardinality(HeldSeats(t)) = trip[t].total

\* However a passenger's requests overlap, one trip never has two bookings of
\* that passenger that are both pending or accepted.  The check under the lock
\* ensures it: the partial unique index of the table, which the model leaves out,
\* never has to refuse an insert with an error the handler does not catch.
OneActiveBooking ==
    \A b, c \in Bookings :
        /\ b # c
        /\ booking[b].status \in ActiveStatuses
        /\ booking[c].status \in ActiveStatuses
        /\ booking[b].trip = booking[c].trip
        => booking[b].passenger # booking[c].passenger

\* A notification, written after its transaction committed and possibly long
\* after, tells its reader only what did happen to the booking.
Claimed ==
    [booking_created   |-> BookingStatuses \ {"absent"},
     booking_accepted  |-> {"accepted", "cancelled", "completed"},
     booking_rejected  |-> {"rejected"},
     booking_cancelled |-> {"cancelled"},
     trip_started      |-> {"accepted", "cancelled", "completed"},
     trip_cancelled    |-> BookingStatuses \ {"absent"}]
NotesTruthful ==
    \A n \in notes :
        LET b == booking[n.booking] IN
        /\ b.status \in Claimed[n.type]
        /\ n.to \in {b.passenger, trip[b.trip].driver}
        /\ n.type \in {"booking_accepted", "booking_rejected", "trip_started", "trip_cancelled"}
           => n.to = b.passenger

\* No decision is forgotten: while nothing fails, a requested, accepted, rejected
\* or cancelled booking has been announced as what it is, or the handler that
\* committed it is on its way to do so.
DecisionsAnnounced ==
    \A b \in Bookings :
        LET status == booking[b].status
            announced == [pending  |-> "booking_created",  accepted  |-> "booking_accepted",
                          rejected |-> "booking_rejected", cancelled |-> "booking_cancelled"]
            decides   == [pending  |-> "createBooking",    accepted  |-> "acceptBooking",
                          rejected |-> "rejectBooking",    cancelled |-> "cancelBooking"]
        IN status \in DOMAIN announced =>
              \/ \E n \in notes : n.booking = b /\ n.type = announced[status]
              \/ \E h \in Handlers : At(h, "notify", decides[status]) /\ proc[h].booking = b

\* A transaction in progress owns the row of its trip, alone, and the row it
\* read is still the row of the table.
LockDiscipline ==
    \A p \in Procs :
        proc[p].pc = "locked" =>
            /\ lock[proc[p].trip] = p
            /\ proc[p].row = trip[proc[p].trip]

\* A decision, a cancellation, an expiry and the completion of the trip may race
\* for one booking: the first to commit wins and no later step revives or
\* re-labels what it ended.
SettledBookings ==
    [][\A b \in Bookings :
          booking[b].status \in TerminalStatuses => booking'[b] = booking[b]]_vars

\* A booking comes to exist only on a trip that is open at the moment of its
\* commit, although trips are started and cancelled without the lock.
BookedWhileOpen ==
    [][\A b \in Bookings :
          booking[b].status = "absent" /\ booking'[b].status # "absent"
             => trip[booking'[b].trip].status = "open"]_vars

\* Seat accounting as the ledger promises it: seats are taken only when they
\* fit, come back once, and the capacity does not change under a booking.
Ledger == INSTANCE SeatLedger WITH
    Claims   <- Bookings,
    Counts   <- Capacities \cup PartySizes \cup (EditCapacities \ {0}),
    NoTrip   <- None,
    capacity <- [t \in Trips |-> trip[t].total],
    claim    <- [b \in Bookings |->
                   [state |-> IF booking[b].status = "absent" THEN "unused"
                              ELSE IF booking[b].status \in HoldingStatuses THEN "held"
                              ELSE "returned",
                    trip  |-> booking[b].trip,
                    seats |-> booking[b].seats]]
SeatLedgerRefined == Ledger!LedgerSpec

\* The seats held on a trip never exceed the seats it offers.
NoOversell == \A t \in Trips : Cardinality(HeldSeats(t)) <= trip[t].total

\* A trip goes from open to started to completed, or from open or started to
\* cancelled, and nowhere else.
TripLifecycle ==
    [][\A t \in Trips :
          trip'[t].status # trip[t].status =>
             <<trip[t].status, trip'[t].status>> \in
                {<<"absent", "open">>, <<"open", "started">>, <<"started", "completed">>,
                 <<"open", "cancelled">>, <<"started", "cancelled">>}]_vars

\* No hold stays undecided for ever: the driver decides, someone cancels or the
\* job expires it, also when a handler dies with the row of the trip locked.
HoldsSettle ==
    \A b \in Bookings : booking[b].status = "pending" ~> booking[b].status # "pending"

\* Every request and every run of the job ends: nobody waits for ever for a row
\* lock.
RequestsFinish == \A p \in Procs : proc[p].pc # "idle" ~> proc[p].pc = "idle"
=============================================================================
