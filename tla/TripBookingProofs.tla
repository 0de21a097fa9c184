-------------------------- MODULE TripBookingProofs -------------------------
(***************************************************************************)
(* Theorems about TripBooking for any number of trips, bookings, accounts, *)
(* handlers and runs of the expiry job, any seat counts, and every choice  *)
(* of endpoints, edits and faults.                                         *)
(***************************************************************************)
EXTENDS TripBooking, FiniteSetTheorems, TLAPS

-----------------------------------------------------------------------------
(* The inductive invariant *)

\* A booking that exists is on a trip that exists.
RowsLinked ==
    \A b \in Bookings : booking[b].status # "absent" =>
        /\ booking[b].trip \in Trips
        /\ trip[booking[b].trip].status # "absent"

\* A process that waits for or holds the row of a trip is a booking operation on
\* a trip that exists, with the inputs of its request.
BookingPcs == {"lock", "locked"}
RequestsValid ==
    \A p \in Procs : proc[p].pc \in BookingPcs =>
        /\ proc[p].op \in BookingOps \cup {"expire"}
        /\ proc[p].trip \in Trips
        /\ trip[proc[p].trip].status # "absent"
        /\ proc[p].op = "createBooking" => proc[p].user \in Passengers
        /\ proc[p].op # "createBooking" =>
              /\ proc[p].booking \in Bookings
              /\ booking[proc[p].booking].status # "absent"
              /\ booking[proc[p].booking].trip = proc[p].trip

\* The bookings of a batch or of a fan-out exist.
TodoExists ==
    \A p \in Procs : \A b \in proc[p].todo : booking[b].status # "absent"

\* Before the notification of a booking operation is sent its booking is there.
NotifiesBooking ==
    \A p \in Procs : proc[p].pc = "notify" /\ proc[p].op \in BookingOps =>
        /\ proc[p].booking \in Bookings
        /\ booking[proc[p].booking].status # "absent"

\* A trip operation is a driver's and, but for the creation, names a trip.
TripRequest(r) ==
    r.op \in TripOps => r.user \in Drivers /\ (r.op # "createTrip" => r.trip \in Trips)
TripRequestsValid == \A p \in Procs : TripRequest(proc[p])

\* Only a run of the expiry job is between two bookings of a batch.
SweepsExpire == \A p \in Procs : proc[p].pc = "sweep" => proc[p].op = "expire"

CoreInv ==
    /\ TypeOK
    /\ RowsLinked
    /\ RequestsValid
    /\ TripRequestsValid
    /\ TodoExists
    /\ NotifiesBooking
    /\ SweepsExpire
    /\ LockDiscipline

-----------------------------------------------------------------------------
(* Record and function updates stay within their types *)

\* None, the holder of a free row, is never a process.
LEMMA NoneIsNoProcess == None \notin Procs
  BY ActorAssumption DEF Procs

\* A process between two requests has its type.
LEMMA IdleType == Idle \in Processes /\ TripRequest(Idle)
  BY DEF Idle, Processes, NoTripRow, TripRows, TripStatuses, TripRequest, TripOps

\* An empty database with idle processes satisfies the invariant.
LEMMA InitCore == Init => CoreInv
<1> SUFFICES ASSUME Init PROVE CoreInv
  OBVIOUS
<1>1. TypeOK
  BY IdleType DEF Init, TypeOK, NoTripRow, TripRows, TripStatuses, NoBookingRow, BookingRows, BookingStatuses
<1>2. RowsLinked
  BY DEF Init, RowsLinked, NoBookingRow
<1>3. TripRequestsValid
  BY IdleType DEF Init, TripRequestsValid
<1>4. RequestsValid /\ TodoExists /\ NotifiesBooking /\ SweepsExpire /\ LockDiscipline
  BY DEF Init, Idle, RequestsValid, BookingPcs, TodoExists, NotifiesBooking, SweepsExpire,
         LockDiscipline
<1> QED BY <1>1, <1>2, <1>3, <1>4 DEF CoreInv

-----------------------------------------------------------------------------
(* Requests arrive *)

\* A request that starts with the inputs its endpoint validated.
LEMMA CallKeepsCore ==
  ASSUME CoreInv, NEW h \in Handlers,
         NEW op \in BookingOps \cup TripOps, NEW user \in Drivers \cup Passengers,
         NEW pc \in {"lock", "read", "write"}, NEW t \in Trips \cup {None},
         NEW b \in Bookings \cup {None}, NEW n \in Nat,
         pc = "lock" =>
            /\ op \in BookingOps
            /\ t \in Trips /\ trip[t].status # "absent"
            /\ op = "createBooking" => user \in Passengers
            /\ op # "createBooking" => /\ b \in Bookings
                                       /\ booking[b].status # "absent"
                                       /\ booking[b].trip = t,
         op \in TripOps => user \in Drivers /\ (op # "createTrip" => t \in Trips),
         Call(h, op, user, [pc |-> pc, trip |-> t, booking |-> b, seats |-> n])
  PROVE  CoreInv'
<1> DEFINE new == [Idle EXCEPT !.pc = pc, !.op = op, !.user = user, !.trip = t,
                               !.booking = b, !.seats = n]
<1>1. /\ h \in Procs
      /\ proc' = [proc EXCEPT ![h] = new]
      /\ UNCHANGED <<trip, booking, notes, lock, approved, clobbered>>
  BY DEF Call, Procs
<1>2. /\ new \in Processes
      /\ new.pc = pc /\ new.op = op /\ new.user = user /\ new.trip = t
      /\ new.booking = b /\ new.todo = {}
  BY DEF Idle, Processes, NoTripRow, TripRows, TripStatuses
<1> HIDE DEF new
<1>3. TypeOK'
  BY <1>1, <1>2 DEF CoreInv, TypeOK, TripRows, BookingRows
<1>4. \A p \in Procs : proc'[p] = IF p = h THEN new ELSE proc[p]
  BY <1>1 DEF CoreInv, TypeOK
<1>5. RowsLinked'
  BY <1>1 DEF CoreInv, RowsLinked
<1>6. RequestsValid'
  BY <1>1, <1>2, <1>4 DEF CoreInv, RequestsValid, BookingPcs
<1>7. TodoExists'
  BY <1>1, <1>2, <1>4 DEF CoreInv, TodoExists
<1>8. NotifiesBooking' /\ SweepsExpire'
  BY <1>1, <1>2, <1>4 DEF CoreInv, NotifiesBooking, SweepsExpire
<1>9. LockDiscipline'
  BY <1>1, <1>2, <1>4 DEF CoreInv, LockDiscipline
<1>10. TripRequestsValid'
  BY <1>2, <1>4 DEF CoreInv, TripRequestsValid, TripRequest
<1> QED BY <1>3, <1>5, <1>6, <1>7, <1>8, <1>9, <1>10 DEF CoreInv

\* A request that passes the guards of its controller starts in a valid state.
LEMMA ArriveKeepsCore ==
  ASSUME CoreInv, NEW h \in Handlers, Arrive(h)
  PROVE  CoreInv'
<1>1. approved \subseteq Drivers
  BY DEF CoreInv, TypeOK
<1>2. CASE CallCreateBooking(h)
  <2>1. PICK u \in Passengers, t \in Trips, n \in PartySizes :
           /\ trip[t].status # "absent"
           /\ Call(h, "createBooking", u,
                   [pc |-> "lock", trip |-> t, booking |-> None, seats |-> n])
    BY <1>2 DEF CallCreateBooking
  <2>2. n \in Nat
    BY SeatInputsAssumption
  <2> QED BY <2>1, <2>2, CallKeepsCore DEF BookingOps, TripOps
<1>3. ASSUME NEW op \in {"acceptBooking", "rejectBooking", "cancelBooking"},
             NEW users \in SUBSET (Drivers \cup Passengers), CallOnBooking(h, op, users)
      PROVE  CoreInv'
  <2>1. PICK u \in users, b \in Bookings :
           /\ booking[b].status # "absent"
           /\ Call(h, op, u, [pc |-> "lock", trip |-> booking[b].trip, booking |-> b,
                              seats |-> 0])
    BY <1>3 DEF CallOnBooking
  <2>2. booking[b].trip \in Trips /\ trip[booking[b].trip].status # "absent"
    BY <2>1 DEF CoreInv, RowsLinked
  <2> QED BY <2>1, <2>2, CallKeepsCore DEF BookingOps, TripOps
<1>4. CASE CallCreateTrip(h)
  <2>1. PICK d \in approved, n \in Capacities :
           Call(h, "createTrip", d, [pc |-> "write", trip |-> None, booking |-> None, seats |-> n])
    BY <1>4 DEF CallCreateTrip
  <2>2. n \in Nat
    BY SeatInputsAssumption
  <2> QED BY <1>1, <2>1, <2>2, CallKeepsCore DEF TripOps
<1>5. ASSUME NEW op \in {"updateTrip", "startTrip", "completeTrip", "cancelTrip"},
             NEW seats \in SUBSET Nat, CallOnTrip(h, op, seats)
      PROVE  CoreInv'
  <2>1. PICK d \in approved, t \in Trips, n \in seats :
           Call(h, op, d, [pc |-> "read", trip |-> t, booking |-> None, seats |-> n])
    BY <1>5 DEF CallOnTrip
  <2> QED BY <1>1, <2>1, CallKeepsCore DEF TripOps
<1> QED BY <1>1, <1>2, <1>3, <1>4, <1>5, SeatInputsAssumption DEF Arrive

-----------------------------------------------------------------------------
(* Every other step moves one process, or restarts them all *)

\* What a step of process p has to respect for the invariant to survive: rows do
\* not vanish or move, and the row of another transaction is left alone.
RowsSurvive ==
    /\ \A b \in Bookings : booking[b].status # "absent" =>
          booking'[b].status # "absent" /\ booking'[b].trip = booking[b].trip
    /\ \A t \in Trips : trip[t].status # "absent" => trip'[t].status # "absent"

OthersUndisturbed(p) ==
    \A q \in Procs \ {p} :
        /\ proc'[q] = proc[q]
        /\ proc[q].pc = "locked" =>
              /\ lock'[proc[q].trip] = lock[proc[q].trip]
              /\ trip'[proc[q].trip] = trip[proc[q].trip]

\* A step of one process outside the row lock, which leaves valid rows and disturbs
\* no transaction of another process, keeps the invariant.
LEMMA StepKeepsCore ==
  ASSUME CoreInv, TypeOK', RowsLinked', RowsSurvive,
         NEW p \in Procs, OthersUndisturbed(p),
         proc'[p].pc \notin BookingPcs,
         \A b \in proc'[p].todo : booking'[b].status # "absent",
         proc'[p].pc = "notify" /\ proc'[p].op \in BookingOps =>
            proc'[p].booking \in Bookings /\ booking'[proc'[p].booking].status # "absent",
         proc'[p].pc = "sweep" => proc'[p].op = "expire",
         TripRequest(proc'[p])
  PROVE  CoreInv'
<1>1. RequestsValid'
  <2> SUFFICES ASSUME NEW q \in Procs, proc'[q].pc \in BookingPcs
               PROVE  /\ proc'[q].op \in BookingOps \cup {"expire"}
                      /\ proc'[q].trip \in Trips
                      /\ trip'[proc'[q].trip].status # "absent"
                      /\ proc'[q].op = "createBooking" => proc'[q].user \in Passengers
                      /\ proc'[q].op # "createBooking" =>
                            /\ proc'[q].booking \in Bookings
                            /\ booking'[proc'[q].booking].status # "absent"
                            /\ booking'[proc'[q].booking].trip = proc'[q].trip
    BY DEF RequestsValid
  <2>1. q # p /\ proc'[q] = proc[q]
    BY DEF OthersUndisturbed
  <2> QED BY <2>1 DEF CoreInv, RequestsValid, RowsSurvive
<1>2. TodoExists'
  <2> SUFFICES ASSUME NEW q \in Procs, NEW b \in proc'[q].todo
               PROVE  booking'[b].status # "absent"
    BY DEF TodoExists
  <2>1. CASE q = p
    BY <2>1
  <2>2. CASE q # p
    <3>1. b \in proc[q].todo /\ b \in Bookings
      BY <2>2 DEF OthersUndisturbed, CoreInv, TypeOK, Processes
    <3> QED BY <3>1 DEF RowsSurvive, CoreInv, TodoExists
  <2> QED BY <2>1, <2>2
<1>3. NotifiesBooking' /\ SweepsExpire'
  BY DEF CoreInv, NotifiesBooking, SweepsExpire, OthersUndisturbed, RowsSurvive
<1>4. LockDiscipline'
  BY DEF CoreInv, LockDiscipline, OthersUndisturbed, BookingPcs
<1>5. TripRequestsValid'
  BY DEF CoreInv, TripRequestsValid, TripRequest, OthersUndisturbed
<1> QED BY <1>1, <1>2, <1>3, <1>4, <1>5 DEF CoreInv

\* Steps that leave the tables of trips and bookings alone.
LEMMA MoveKeepsCore ==
  ASSUME CoreInv, NEW p \in Procs, NEW new \in Processes,
         proc' = [proc EXCEPT ![p] = new],
         new.pc \notin BookingPcs,
         \A b \in new.todo : booking[b].status # "absent",
         new.pc = "notify" /\ new.op \in BookingOps =>
            new.booking \in Bookings /\ booking[new.booking].status # "absent",
         new.pc = "sweep" => new.op = "expire", TripRequest(new),
         UNCHANGED <<trip, booking, approved, clobbered>>,
         notes' \subseteq Notes,
         lock' \in [Trips -> Procs \cup {None}],
         \A q \in Procs \ {p} : proc[q].pc = "locked" =>
            lock'[proc[q].trip] = lock[proc[q].trip]
  PROVE  CoreInv'
<1>1. \A q \in Procs : proc'[q] = IF q = p THEN new ELSE proc[q]
  BY DEF CoreInv, TypeOK
<1>2. TypeOK'
  BY DEF CoreInv, TypeOK, TripRows, BookingRows
<1>3. RowsLinked' /\ RowsSurvive
  BY DEF CoreInv, RowsLinked, RowsSurvive
<1>4. OthersUndisturbed(p)
  BY <1>1 DEF OthersUndisturbed
<1> QED BY <1>1, <1>2, <1>3, <1>4, StepKeepsCore

\* Freeing the row of one's own transaction, or rolling it back, disturbs nobody.
LEMMA ReleaseIsOwn ==
  ASSUME CoreInv, NEW p \in Procs,
         \/ Rollback(p)
         \/ proc[p].pc = "locked" /\ Unlock(proc[p].trip)
  PROVE  /\ lock' \in [Trips -> Procs \cup {None}]
         /\ \A q \in Procs \ {p} : proc[q].pc = "locked" =>
               lock'[proc[q].trip] = lock[proc[q].trip]
<1>1. \A q \in Procs : proc[q].pc = "locked" =>
         proc[q].trip \in Trips /\ lock[proc[q].trip] = q
  BY DEF CoreInv, LockDiscipline, RequestsValid, BookingPcs
<1>2. lock \in [Trips -> Procs \cup {None}]
  BY DEF CoreInv, TypeOK
<1> QED BY <1>1, <1>2 DEF Rollback, Unlock

\* A refused booking operation rolls back and leaves everything as it was.
LEMMA RefuseKeepsCore ==
  ASSUME CoreInv, NEW h \in Handlers, Refuse(h)
  PROVE  CoreInv'
<1>1. h \in Procs
  BY DEF Procs
<1>2. Idle.pc = "idle" /\ Idle.todo = {} /\ notes \subseteq Notes
  BY DEF Idle, CoreInv, TypeOK
<1> QED BY <1>1, <1>2, IdleType, ReleaseIsOwn, MoveKeepsCore DEF Refuse, Finish, BookingPcs

\* A server that restarts has nothing in flight and no transaction open.
LEMMA ThrowKeepsCore ==
  ASSUME CoreInv, NEW s \in Procs, Throw(s),
         UNCHANGED <<trip, booking, notes, approved, clobbered>>
  PROVE  CoreInv'
<1>1. Idle.pc = "idle" /\ Idle.todo = {} /\ notes \subseteq Notes
  BY DEF Idle, CoreInv, TypeOK
<1>2. CASE Monitored
  BY <1>1, <1>2, IdleType, ReleaseIsOwn, MoveKeepsCore DEF Throw, Finish, BookingPcs
<1>3. CASE ~Monitored
  <2>1. proc' = [p \in Procs |-> Idle] /\ lock' = [t \in Trips |-> None]
    BY <1>3 DEF Throw
  <2>2. TypeOK'
    BY <2>1, IdleType DEF CoreInv, TypeOK, TripRows, BookingRows
  <2>3. TripRequestsValid'
    BY <2>1, IdleType DEF TripRequestsValid
  <2> QED BY <1>1, <2>1, <2>2, <2>3 DEF CoreInv, RowsLinked, RequestsValid, BookingPcs, TodoExists,
                                  NotifiesBooking, SweepsExpire, LockDiscipline
<1> QED BY <1>2, <1>3

\* A failed statement or a timed out transaction frees exactly the locks of its process.
LEMMA FailKeepsCore ==
  ASSUME CoreInv, NEW p \in Faults, Fail(p)
  PROVE  CoreInv'
<1>1. p \in Procs
  BY ActorAssumption DEF Procs
<1>2. CASE p \in Handlers
  <2>1. Idle.pc = "idle" /\ Idle.todo = {} /\ notes \subseteq Notes
    BY DEF Idle, CoreInv, TypeOK
  <2> QED BY <1>1, <1>2, <2>1, IdleType, ReleaseIsOwn, MoveKeepsCore DEF Fail, Finish, BookingPcs
<1>3. CASE p \notin Handlers
  BY <1>1, <1>3, ThrowKeepsCore DEF Fail
<1> QED BY <1>2, <1>3

-----------------------------------------------------------------------------
(* Booking operations *)

\* Whoever locks the row of a trip knows the row as it is in the table.
LEMMA LockTripKeepsCore ==
  ASSUME CoreInv, NEW p \in Procs, LockTrip(p)
  PROVE  CoreInv'
<1> DEFINE new == [proc[p] EXCEPT !.pc = "locked", !.row = trip[proc[p].trip]]
<1>1. /\ proc[p].pc = "lock" /\ lock[proc[p].trip] = None
      /\ lock' = [lock EXCEPT ![proc[p].trip] = p]
      /\ UNCHANGED <<trip, booking, notes, approved, clobbered>>
      /\ proc[p].trip \in Trips
  BY DEF LockTrip, RowFree, CoreInv, RequestsValid, BookingPcs
<1>2. proc' = [proc EXCEPT ![p] = new]
  BY DEF LockTrip, CoreInv, TypeOK
<1>3. /\ new \in Processes
      /\ new.pc = "locked" /\ new.op = proc[p].op /\ new.user = proc[p].user
      /\ new.trip = proc[p].trip /\ new.booking = proc[p].booking
      /\ new.todo = proc[p].todo /\ new.row = trip[proc[p].trip]
  BY <1>1 DEF CoreInv, TypeOK, Processes
<1> HIDE DEF new
<1>4. \A q \in Procs : proc'[q] = IF q = p THEN new ELSE proc[q]
  BY <1>2 DEF CoreInv, TypeOK
<1>5. TypeOK'
  BY <1>1, <1>2, <1>3 DEF CoreInv, TypeOK
<1>6. RowsLinked'
  BY <1>1 DEF CoreInv, RowsLinked
<1>7. RequestsValid'
  BY <1>1, <1>3, <1>4 DEF CoreInv, RequestsValid, BookingPcs
<1>8. TodoExists' /\ NotifiesBooking' /\ SweepsExpire'
  BY <1>1, <1>3, <1>4 DEF CoreInv, TodoExists, NotifiesBooking, SweepsExpire
<1>9. LockDiscipline'
  <2> SUFFICES ASSUME NEW q \in Procs, proc'[q].pc = "locked"
               PROVE  lock'[proc'[q].trip] = q /\ proc'[q].row = trip'[proc'[q].trip]
    BY DEF LockDiscipline
  <2>1. CASE q = p
    BY <1>1, <1>3, <1>4, <2>1 DEF CoreInv, TypeOK
  <2>2. CASE q # p
    <3>1. lock[proc[q].trip] = q /\ proc[q].row = trip[proc[q].trip] /\ proc[q].trip \in Trips
      BY <1>4, <2>2 DEF CoreInv, LockDiscipline, RequestsValid, BookingPcs
    <3>2. proc[q].trip # proc[p].trip
      BY <1>1, <3>1, NoneIsNoProcess
    <3> QED BY <1>1, <1>4, <2>2, <3>1, <3>2 DEF CoreInv, TypeOK
  <2> QED BY <2>1, <2>2
<1>10. TripRequestsValid'
  BY <1>1, <1>3, <1>4 DEF CoreInv, TripRequestsValid, TripRequest
<1> QED BY <1>5, <1>6, <1>7, <1>8, <1>9, <1>10 DEF CoreInv

\* Committing a seat change writes one count, within bounds, and frees one row,
\* and both belong to the process that commits.
LEMMA CommitSeatsEffect ==
  ASSUME CoreInv, NEW p \in Procs, proc[p].pc = "locked", CommitSeats(p)
  PROVE  /\ trip' \in [Trips -> TripRows]
         /\ \A t \in Trips : trip'[t].avail <= trip'[t].total
         /\ \A t \in Trips : /\ trip'[t].status = trip[t].status
                             /\ trip'[t].total = trip[t].total
                             /\ trip'[t].driver = trip[t].driver
                             /\ t # proc[p].trip => trip'[t] = trip[t]
         /\ proc[p].trip \in Trips
         /\ SeatDelta(p) \in Int
         /\ trip'[proc[p].trip].avail = trip[proc[p].trip].avail + SeatDelta(p)
         /\ lock' \in [Trips -> Procs \cup {None}]
         /\ \A q \in Procs \ {p} : proc[q].pc = "locked" =>
               /\ lock'[proc[q].trip] = lock[proc[q].trip]
               /\ trip'[proc[q].trip] = trip[proc[q].trip]
<1> DEFINE t0 == proc[p].trip
           n == IF SeatDelta(p) = 0 THEN trip[t0].avail ELSE proc[p].row.avail + SeatDelta(p)
<1>1. /\ t0 \in Trips /\ lock[t0] = p /\ proc[p].row = trip[t0]
      /\ trip[t0] \in TripRows /\ trip[t0].avail <= trip[t0].total
  BY DEF CoreInv, RequestsValid, BookingPcs, LockDiscipline, TypeOK
<1>2. SeatDelta(p) \in Int
  <2>1. proc[p].seats \in Nat /\ booking \in [Bookings -> BookingRows]
    BY DEF CoreInv, TypeOK, Processes
  <2>2. proc[p].op # "createBooking" => booking[proc[p].booking].seats \in Nat
    BY <2>1 DEF CoreInv, RequestsValid, BookingPcs, BookingRows
  <2> QED BY <2>1, <2>2 DEF SeatDelta
<1>3. trip' = [trip EXCEPT ![t0].avail = n] /\ lock' = [lock EXCEPT ![t0] = None]
  BY <1>1 DEF CommitSeats, Unlock, CoreInv, TypeOK
<1>4. n \in Nat /\ n <= trip[t0].total
  BY <1>1, <1>2 DEF CommitSeats, SeatsFit, SeatBounds, TripRows
<1>5. \A q \in Procs \ {p} : proc[q].pc = "locked" => proc[q].trip \in Trips \ {t0}
  BY <1>1 DEF CoreInv, RequestsValid, BookingPcs, LockDiscipline
<1>6. n = trip[t0].avail + SeatDelta(p)
  BY <1>1, <1>2 DEF TripRows
<1> HIDE DEF n, t0
<1>7. /\ trip' \in [Trips -> TripRows]
      /\ \A t \in Trips : trip'[t] = IF t = t0 THEN [trip[t] EXCEPT !.avail = n] ELSE trip[t]
  BY <1>1, <1>3, <1>4 DEF CoreInv, TypeOK, TripRows
<1>8. \A t \in Trips : /\ trip'[t].status = trip[t].status
                       /\ trip'[t].total = trip[t].total
                       /\ trip'[t].driver = trip[t].driver
                       /\ trip'[t].avail = IF t = t0 THEN n ELSE trip[t].avail
  BY <1>7 DEF CoreInv, TypeOK, TripRows
<1>9. \A t \in Trips : trip'[t].avail <= trip'[t].total
  BY <1>4, <1>8 DEF CoreInv, TypeOK
<1>10. lock' \in [Trips -> Procs \cup {None}]
  BY <1>3 DEF CoreInv, TypeOK
<1>11. \A q \in Procs \ {p} : proc[q].pc = "locked" =>
               /\ lock'[proc[q].trip] = lock[proc[q].trip]
               /\ trip'[proc[q].trip] = trip[proc[q].trip]
  BY <1>3, <1>5, <1>7 DEF CoreInv, TypeOK
<1>12. trip'[t0].avail = trip[t0].avail + SeatDelta(p)
  BY <1>1, <1>6, <1>8
<1> QED BY <1>1, <1>2, <1>7, <1>8, <1>9, <1>10, <1>11, <1>12 DEF t0

\* The commit of createBooking keeps the invariant.
LEMMA CreateBookingKeepsCore ==
  ASSUME CoreInv, NEW h \in Handlers, CreateBooking(h)
  PROVE  CoreInv'
<1>0. h \in Procs /\ proc[h].pc = "locked" /\ proc[h].op = "createBooking" /\ CommitSeats(h)
  BY DEF CreateBooking, At, Procs
<1> DEFINE row == [status |-> "pending", trip |-> proc[h].trip, passenger |-> proc[h].user,
                   seats |-> proc[h].seats, hold |-> "running"]
<1>1. PICK b \in Bookings :
         /\ booking[b].status = "absent"
         /\ booking' = [booking EXCEPT ![b] = row]
         /\ proc' = [proc EXCEPT ![h].pc = "notify", ![h].booking = b, ![h].row = NoTripRow]
  BY DEF CreateBooking
<1>2. UNCHANGED <<notes, approved, clobbered>>
  BY DEF CreateBooking
<1>3. /\ proc[h].trip \in Trips /\ trip[proc[h].trip].status # "absent"
      /\ proc[h].user \in Passengers /\ proc[h] \in Processes
  BY <1>0 DEF CoreInv, RequestsValid, BookingPcs, TypeOK
<1>4. row \in BookingRows /\ row.status = "pending" /\ row.trip = proc[h].trip
  BY <1>3 DEF BookingRows, BookingStatuses, ActiveStatuses, Processes
<1> HIDE DEF row
<1>5. /\ booking' \in [Bookings -> BookingRows]
      /\ \A c \in Bookings : booking'[c] = IF c = b THEN row ELSE booking[c]
  BY <1>1, <1>4 DEF CoreInv, TypeOK
<1> DEFINE new == [proc[h] EXCEPT !.pc = "notify", !.booking = b, !.row = NoTripRow]
<1>6. proc' = [proc EXCEPT ![h] = new]
  BY <1>0, <1>1 DEF CoreInv, TypeOK
<1>7. /\ new \in Processes /\ new.pc = "notify" /\ new.booking = b
      /\ new.todo = proc[h].todo /\ new.op = "createBooking"
  BY <1>0, <1>3 DEF Processes, NoTripRow, TripRows, TripStatuses
<1> HIDE DEF new
<1>8. /\ proc' \in [Procs -> Processes]
      /\ \A q \in Procs : proc'[q] = IF q = h THEN new ELSE proc[q]
  BY <1>6, <1>7 DEF CoreInv, TypeOK
<1>9. TypeOK'
  BY <1>0, <1>2, <1>5, <1>8, CommitSeatsEffect DEF CoreInv, TypeOK
<1>10. RowsLinked' /\ RowsSurvive
  BY <1>0, <1>1, <1>3, <1>4, <1>5, CommitSeatsEffect DEF CoreInv, RowsLinked, RowsSurvive
<1>11. OthersUndisturbed(h)
  BY <1>0, <1>8, CommitSeatsEffect DEF OthersUndisturbed
<1>12. \A c \in proc'[h].todo : booking'[c].status # "absent"
  BY <1>0, <1>3, <1>7, <1>8, <1>10 DEF RowsSurvive, CoreInv, TodoExists, Processes
<1>13. TripRequest(proc'[h])
  BY <1>0, <1>7, <1>8 DEF TripRequest, TripOps
<1>14. proc'[h].pc = "notify" /\ proc'[h].booking = b /\ booking'[b].status # "absent"
  BY <1>0, <1>4, <1>5, <1>7, <1>8
<1> QED BY <1>0, <1>9, <1>10, <1>11, <1>12, <1>13, <1>14, StepKeepsCore DEF BookingPcs

\* Ending or accepting a booking writes its row only.
LEMMA SetBookingEffect ==
  ASSUME CoreInv, NEW b \in Bookings, NEW status \in BookingStatuses \ {"absent"},
         booking[b].status # "absent", SetBooking(b, status)
  PROVE  /\ booking' \in [Bookings -> BookingRows]
         /\ \A c \in Bookings :
               /\ booking'[c].trip = booking[c].trip
               /\ booking'[c].seats = booking[c].seats
               /\ booking'[c].status = IF c = b THEN status ELSE booking[c].status
               /\ booking[c].status # "absent" => booking'[c].status # "absent"
               /\ booking'[c].status # "absent" => booking[c].status # "absent"
<1>1. booking \in [Bookings -> BookingRows]
  BY DEF CoreInv, TypeOK
<1>2. booking' = [booking EXCEPT ![b] = [booking[b] EXCEPT !.status = status, !.hold = "none"]]
  BY <1>1 DEF SetBooking
<1>3. [booking[b] EXCEPT !.status = status, !.hold = "none"] \in BookingRows
  BY <1>1 DEF BookingRows
<1> QED BY <1>1, <1>2, <1>3 DEF BookingRows

\* A process that commits a change of an existing booking.
LEMMA SettleKeepsCore ==
  ASSUME CoreInv, NEW p \in Procs, proc[p].pc = "locked", proc[p].op # "createBooking",
         CommitSeats(p),
         NEW status \in BookingStatuses \ {"absent"}, SetBooking(proc[p].booking, status),
         NEW new \in Processes, proc' = [proc EXCEPT ![p] = new],
         new.pc \notin BookingPcs, new.todo \subseteq proc[p].todo,
         new.pc = "notify" /\ new.op \in BookingOps => new.booking = proc[p].booking,
         new.pc = "sweep" => new.op = "expire", TripRequest(new),
         UNCHANGED <<notes, approved, clobbered>>
  PROVE  CoreInv'
<1>1. proc[p].booking \in Bookings /\ booking[proc[p].booking].status # "absent"
  BY DEF CoreInv, RequestsValid, BookingPcs
<1>2. /\ proc' \in [Procs -> Processes]
      /\ \A q \in Procs : proc'[q] = IF q = p THEN new ELSE proc[q]
  BY DEF CoreInv, TypeOK
<1>3. TypeOK'
  BY <1>1, <1>2, CommitSeatsEffect, SetBookingEffect DEF CoreInv, TypeOK
<1>4. RowsLinked' /\ RowsSurvive
  <2>1. \A t \in Trips : trip'[t].status = trip[t].status
    BY CommitSeatsEffect
  <2> QED BY <1>1, <2>1, SetBookingEffect DEF CoreInv, RowsLinked, RowsSurvive
<1>5. OthersUndisturbed(p)
  BY <1>2, CommitSeatsEffect DEF OthersUndisturbed
<1>6. \A b \in proc'[p].todo : b \in Bookings /\ booking'[b].status # "absent"
  BY <1>2, <1>4 DEF RowsSurvive, CoreInv, TodoExists, TypeOK, Processes
<1> QED BY <1>1, <1>2, <1>3, <1>4, <1>5, <1>6, StepKeepsCore DEF RowsSurvive

\* The commits of acceptBooking, rejectBooking and cancelBooking keep the invariant.
LEMMA EndBookingKeepsCore ==
  ASSUME CoreInv, NEW h \in Handlers,
         AcceptBooking(h) \/ RejectBooking(h) \/ CancelBooking(h)
  PROVE  CoreInv'
<1>1. PICK status \in {"accepted", "rejected", "cancelled"} : EndBooking(h, status)
  BY DEF AcceptBooking, RejectBooking, CancelBooking
<1>2. /\ h \in Procs /\ proc[h].pc = "locked" /\ proc[h].op \in BookingOps
      /\ proc[h].op # "createBooking"
  BY DEF AcceptBooking, RejectBooking, CancelBooking, At, Procs, BookingOps
<1>3. status \in BookingStatuses \ {"absent"}
  BY DEF BookingStatuses, ActiveStatuses, TerminalStatuses
<1> DEFINE new == [proc[h] EXCEPT !.pc = "notify", !.row = NoTripRow]
<1>4. proc' = [proc EXCEPT ![h] = new]
  BY <1>1, <1>2 DEF EndBooking, CoreInv, TypeOK
<1>5. /\ new \in Processes /\ new.pc = "notify" /\ new.booking = proc[h].booking
      /\ new.todo = proc[h].todo /\ TripRequest(new)
  BY <1>2 DEF CoreInv, TypeOK, Processes, NoTripRow, TripRows, TripStatuses,
              TripRequest, TripOps, BookingOps
<1>6. proc[h].booking \in Bookings
  BY <1>2 DEF CoreInv, RequestsValid, BookingPcs
<1>7. /\ CommitSeats(h) /\ SetBooking(proc[h].booking, status)
      /\ UNCHANGED <<notes, approved, clobbered>>
  BY <1>1 DEF EndBooking
<1> HIDE DEF new
<1> QED BY <1>2, <1>3, <1>4, <1>5, <1>6, <1>7, SettleKeepsCore DEF BookingPcs

\* After one booking of its batch a run of the job is idle or between bookings.
LEMMA NextInBatchEffect ==
  ASSUME CoreInv, NEW s \in Procs, NextInBatch(s)
  PROVE  \E new \in Processes :
            /\ proc' = [proc EXCEPT ![s] = new]
            /\ new.pc \notin BookingPcs \cup {"notify"}
            /\ new.pc = "sweep" => new.op = "expire"
            /\ new.todo \subseteq proc[s].todo
            /\ TripRequest(new)
<1>1. proc[s].todo \subseteq Bookings
  BY DEF CoreInv, TypeOK, Processes
<1>2. CASE proc[s].todo = {}
  BY <1>2, IdleType DEF NextInBatch, Finish, Idle, BookingPcs
<1>3. CASE proc[s].todo # {}
  <2> DEFINE new == [Idle EXCEPT !.pc = "sweep", !.op = "expire", !.todo = proc[s].todo]
  <2>1. proc' = [proc EXCEPT ![s] = new]
    BY <1>3 DEF NextInBatch
  <2>2. /\ new \in Processes /\ new.pc = "sweep" /\ new.op = "expire"
        /\ new.todo = proc[s].todo /\ TripRequest(new)
    BY <1>1 DEF Idle, Processes, NoTripRow, TripRows, TripStatuses, TripRequest, TripOps
  <2> HIDE DEF new
  <2> QED BY <2>1, <2>2 DEF BookingPcs
<1> QED BY <1>2, <1>3

\* The commit of an expiry keeps the invariant.
LEMMA ExpireBookingKeepsCore ==
  ASSUME CoreInv, NEW s \in Sweeps, ExpireBooking(s)
  PROVE  CoreInv'
<1>1. /\ s \in Procs /\ proc[s].pc = "locked" /\ proc[s].op # "createBooking"
      /\ CommitSeats(s) /\ SetBooking(proc[s].booking, "expired") /\ NextInBatch(s)
      /\ UNCHANGED <<notes, approved, clobbered>>
  BY DEF ExpireBooking, At, Procs
<1>2. "expired" \in BookingStatuses \ {"absent"}
  BY DEF BookingStatuses, TerminalStatuses
<1>3. PICK new \in Processes :
         /\ proc' = [proc EXCEPT ![s] = new]
         /\ new.pc \notin BookingPcs \cup {"notify"}
         /\ new.pc = "sweep" => new.op = "expire"
         /\ new.todo \subseteq proc[s].todo
         /\ TripRequest(new)
  BY <1>1, NextInBatchEffect
<1> QED BY <1>1, <1>2, <1>3, SettleKeepsCore

\* A run of the job that finds its booking settled frees the row and goes on.
LEMMA SkipBookingKeepsCore ==
  ASSUME CoreInv, NEW s \in Sweeps, SkipBooking(s)
  PROVE  CoreInv'
<1>1. /\ s \in Procs /\ proc[s].pc = "locked" /\ Unlock(proc[s].trip) /\ NextInBatch(s)
      /\ UNCHANGED <<trip, booking, notes, approved, clobbered>>
  BY DEF SkipBooking, At, Procs
<1>2. PICK new \in Processes :
         /\ proc' = [proc EXCEPT ![s] = new]
         /\ new.pc \notin BookingPcs \cup {"notify"}
         /\ new.pc = "sweep" => new.op = "expire"
         /\ new.todo \subseteq proc[s].todo
         /\ TripRequest(new)
  BY <1>1, NextInBatchEffect
<1>3. \A b \in new.todo : booking[b].status # "absent"
  BY <1>1, <1>2 DEF CoreInv, TodoExists
<1>4. notes' \subseteq Notes
  BY <1>1 DEF CoreInv, TypeOK
<1> QED BY <1>1, <1>2, <1>3, <1>4, ReleaseIsOwn, MoveKeepsCore

\* A run of the job that throws leaves no lock behind.
LEMMA AbandonSweepKeepsCore ==
  ASSUME CoreInv, NEW s \in Sweeps, AbandonSweep(s)
  PROVE  CoreInv'
  BY ThrowKeepsCore DEF AbandonSweep, Procs

\* The batch a run of the job reads consists of bookings that exist.
LEMMA StartSweepKeepsCore ==
  ASSUME CoreInv, NEW s \in Sweeps, StartSweep(s)
  PROVE  CoreInv'
<1>1. PICK batch \in SUBSET Lapsed :
         proc' = [proc EXCEPT ![s] = [Idle EXCEPT !.pc = "sweep", !.op = "expire", !.todo = batch]]
  BY DEF StartSweep
<1> DEFINE new == [Idle EXCEPT !.pc = "sweep", !.op = "expire", !.todo = batch]
<1>2. batch \subseteq Bookings /\ \A b \in batch : booking[b].status # "absent"
  BY DEF Lapsed
<1>3. /\ new \in Processes /\ new.pc = "sweep" /\ new.op = "expire" /\ new.todo = batch
      /\ TripRequest(new)
  BY <1>2 DEF Idle, Processes, NoTripRow, TripRows, TripStatuses, TripRequest, TripOps
<1>4. s \in Procs /\ UNCHANGED <<trip, booking, notes, lock, approved, clobbered>>
  BY DEF StartSweep, Procs
<1>5. notes' \subseteq Notes /\ lock' \in [Trips -> Procs \cup {None}]
  BY <1>4 DEF CoreInv, TypeOK
<1>6. proc' = [proc EXCEPT ![s] = new]
  BY <1>1
<1> HIDE DEF new
<1> QED BY <1>2, <1>3, <1>4, <1>5, <1>6, MoveKeepsCore DEF BookingPcs

\* The job asks for the row of the trip its booking is on.
LEMMA TakeLapsedKeepsCore ==
  ASSUME CoreInv, NEW s \in Sweeps, TakeLapsed(s)
  PROVE  CoreInv'
<1>0. s \in Procs /\ UNCHANGED <<trip, booking, notes, lock, approved, clobbered>>
  BY DEF TakeLapsed, Procs
<1>1. PICK b \in proc[s].todo :
         proc' = [proc EXCEPT ![s].pc = "lock", ![s].booking = b,
                              ![s].trip = booking[b].trip, ![s].todo = @ \ {b}]
  BY DEF TakeLapsed
<1> DEFINE new == [proc[s] EXCEPT !.pc = "lock", !.booking = b, !.trip = booking[b].trip,
                                  !.todo = @ \ {b}]
<1>2. /\ b \in Bookings /\ booking[b].status # "absent" /\ booking[b].trip \in Trips
      /\ trip[booking[b].trip].status # "absent"
  BY <1>0, <1>1 DEF CoreInv, TypeOK, Processes, TodoExists, RowsLinked
<1>3. proc' = [proc EXCEPT ![s] = new]
  BY <1>0, <1>1 DEF CoreInv, TypeOK
<1>4. /\ new \in Processes /\ new.pc = "lock" /\ new.op = proc[s].op /\ new.booking = b
      /\ new.trip = booking[b].trip /\ new.todo = proc[s].todo \ {b}
  BY <1>0, <1>2 DEF CoreInv, TypeOK, Processes
<1>5. proc[s].op = "expire" /\ proc[s].pc = "sweep"
  BY <1>0 DEF TakeLapsed, CoreInv, SweepsExpire
<1> HIDE DEF new
<1>6. /\ proc' \in [Procs -> Processes]
      /\ \A q \in Procs : proc'[q] = IF q = s THEN new ELSE proc[q]
  BY <1>3, <1>4 DEF CoreInv, TypeOK
<1>7. TypeOK'
  BY <1>0, <1>6 DEF CoreInv, TypeOK
<1>8. RowsLinked'
  BY <1>0 DEF CoreInv, RowsLinked
<1>9. RequestsValid'
  BY <1>0, <1>2, <1>4, <1>5, <1>6 DEF CoreInv, RequestsValid, BookingPcs
<1>10. TodoExists' /\ NotifiesBooking' /\ SweepsExpire'
  BY <1>0, <1>4, <1>6 DEF CoreInv, TodoExists, NotifiesBooking, SweepsExpire
<1>11. LockDiscipline'
  BY <1>0, <1>4, <1>6 DEF CoreInv, LockDiscipline
<1>12. TripRequestsValid'
  BY <1>4, <1>5, <1>6 DEF CoreInv, TripRequestsValid, TripRequest, TripOps
<1> QED BY <1>7, <1>8, <1>9, <1>10, <1>11, <1>12 DEF CoreInv

\* The clock touches nothing but the hold of a booking.
LEMMA HoldLapsesKeepsCore ==
  ASSUME CoreInv, NEW b \in Bookings, HoldLapses(b)
  PROVE  CoreInv'
<1>1. booking \in [Bookings -> BookingRows]
  BY DEF CoreInv, TypeOK
<1>2. [booking[b] EXCEPT !.hold = "lapsed"] \in BookingRows
  BY <1>1 DEF BookingRows
<1>3. booking' = [booking EXCEPT ![b] = [booking[b] EXCEPT !.hold = "lapsed"]]
  BY <1>1 DEF HoldLapses
<1>4. /\ booking' \in [Bookings -> BookingRows]
      /\ \A c \in Bookings : booking'[c].status = booking[c].status /\ booking'[c].trip = booking[c].trip
  BY <1>1, <1>2, <1>3 DEF BookingRows
<1>5. UNCHANGED <<trip, notes, lock, proc, approved, clobbered>>
  BY DEF HoldLapses
<1>6. TypeOK'
  BY <1>4, <1>5 DEF CoreInv, TypeOK
<1>7. RowsLinked' /\ RequestsValid'
  BY <1>4, <1>5 DEF CoreInv, RowsLinked, RequestsValid, BookingPcs
<1>8. TodoExists'
  BY <1>4, <1>5 DEF CoreInv, TodoExists, TypeOK, Processes
<1>9. NotifiesBooking' /\ SweepsExpire' /\ LockDiscipline' /\ TripRequestsValid'
  BY <1>4, <1>5 DEF CoreInv, NotifiesBooking, SweepsExpire, LockDiscipline,
                    TripRequestsValid, TripRequest
<1> QED BY <1>6, <1>7, <1>8, <1>9 DEF CoreInv

-----------------------------------------------------------------------------
(* Notifications *)

\* A notification of a booking operation is a row of the table notifications.
LEMMA NotifyBookingKeepsCore ==
  ASSUME CoreInv, NEW h \in Handlers, NotifyBooking(h)
  PROVE  CoreInv'
<1>1. /\ h \in Procs /\ proc[h].booking \in Bookings /\ proc[h].op \in BookingOps
      /\ UNCHANGED <<trip, booking, lock, approved, clobbered>> /\ Finish(h)
  BY DEF NotifyBooking, CoreInv, NotifiesBooking, Procs
<1>2. NoteType[proc[h].op] \in NoteTypes
  BY <1>1 DEF NoteType, NoteTypes, BookingOps
<1>3. Recipient(h) \in Drivers \cup Passengers \cup {None}
  <2>1. booking[proc[h].booking].passenger \in Passengers \cup {None}
    BY <1>1 DEF CoreInv, TypeOK, BookingRows
  <2>2. booking[proc[h].booking].trip \in Trips
    BY <1>1 DEF CoreInv, NotifiesBooking, NotifyBooking, RowsLinked
  <2>3. trip[booking[proc[h].booking].trip].driver \in Drivers \cup {None}
    BY <2>2 DEF CoreInv, TypeOK, TripRows
  <2> QED BY <2>1, <2>3 DEF Recipient
<1>4. notes' \subseteq Notes
  BY <1>1, <1>2, <1>3 DEF NotifyBooking, Notes, CoreInv, TypeOK
<1>5. lock' \in [Trips -> Procs \cup {None}]
  BY <1>1 DEF CoreInv, TypeOK
<1>6. Idle.pc = "idle" /\ Idle.todo = {}
  BY DEF Idle
<1> QED BY <1>1, <1>4, <1>5, <1>6, IdleType, MoveKeepsCore DEF Finish, BookingPcs

\* A notification of a trip operation is a row of the table notifications.
LEMMA NotifyTripKeepsCore ==
  ASSUME CoreInv, NEW h \in Handlers, NotifyTrip(h)
  PROVE  CoreInv'
<1>1. h \in Procs /\ proc[h].pc = "fanout" /\ UNCHANGED <<trip, booking, lock, approved, clobbered>>
  BY DEF NotifyTrip, Procs
<1>2. PICK b \in proc[h].todo :
         /\ notes' = notes \cup
               {[type |-> IF proc[h].op = "startTrip" THEN "trip_started" ELSE "trip_cancelled",
                 booking |-> b, to |-> booking[b].passenger]}
         /\ IF proc[h].todo = {b} THEN Finish(h)
            ELSE proc' = [proc EXCEPT ![h].todo = @ \ {b}]
  BY DEF NotifyTrip
<1>3. proc[h] \in Processes /\ b \in Bookings /\ \A c \in proc[h].todo : booking[c].status # "absent"
  BY <1>1, <1>2 DEF CoreInv, TypeOK, Processes, TodoExists
<1>4. booking[b].passenger \in Passengers \cup {None}
  BY <1>3 DEF CoreInv, TypeOK, BookingRows
<1>5. notes' \subseteq Notes
  BY <1>2, <1>3, <1>4 DEF Notes, NoteTypes, CoreInv, TypeOK
<1>6. lock' \in [Trips -> Procs \cup {None}]
  BY <1>1 DEF CoreInv, TypeOK
<1>7. CASE proc[h].todo = {b}
  <2>1. Idle.pc = "idle" /\ Idle.todo = {}
    BY DEF Idle
  <2> QED BY <1>1, <1>2, <1>5, <1>6, <1>7, <2>1, IdleType, MoveKeepsCore DEF Finish, BookingPcs
<1>8. CASE proc[h].todo # {b}
  <2> DEFINE new == [proc[h] EXCEPT !.todo = @ \ {b}]
  <2>1. proc' = [proc EXCEPT ![h] = new]
    BY <1>1, <1>2, <1>8 DEF CoreInv, TypeOK
  <2>2. /\ new \in Processes /\ new.pc = "fanout" /\ new.todo \subseteq proc[h].todo
        /\ TripRequest(new)
    BY <1>1, <1>3 DEF Processes, CoreInv, TripRequestsValid, TripRequest
  <2> HIDE DEF new
  <2> QED BY <1>1, <1>3, <1>5, <1>6, <2>1, <2>2, MoveKeepsCore DEF BookingPcs
<1> QED BY <1>7, <1>8

-----------------------------------------------------------------------------
(* Trip operations *)

\* A trip operation that goes on to its next await, or ends.
LEMMA TripMoveKeepsCore ==
  ASSUME CoreInv, NEW h \in Handlers, NEW pc \in {"count", "write"},
         Goto(h, pc) \/ Finish(h),
         UNCHANGED <<trip, booking, notes, lock, approved, clobbered>>
  PROVE  CoreInv'
<1>1. h \in Procs /\ proc[h] \in Processes
  BY DEF Procs, CoreInv, TypeOK
<1>2. lock' \in [Trips -> Procs \cup {None}] /\ notes' \subseteq Notes
  BY DEF CoreInv, TypeOK
<1>3. CASE Finish(h)
  <2>1. Idle.pc = "idle" /\ Idle.todo = {}
    BY DEF Idle
  <2> QED BY <1>1, <1>2, <1>3, <2>1, IdleType, MoveKeepsCore DEF Finish, BookingPcs
<1>4. CASE Goto(h, pc)
  <2> DEFINE new == [proc[h] EXCEPT !.pc = pc]
  <2>1. proc' = [proc EXCEPT ![h] = new]
    BY <1>1, <1>4 DEF Goto, CoreInv, TypeOK
  <2>2. new \in Processes /\ new.pc = pc /\ new.todo = proc[h].todo /\ TripRequest(new)
    BY <1>1 DEF Processes, CoreInv, TripRequestsValid, TripRequest
  <2>3. \A b \in proc[h].todo : booking[b].status # "absent"
    BY <1>1 DEF CoreInv, TodoExists
  <2> HIDE DEF new
  <2> QED BY <1>1, <1>2, <2>1, <2>2, <2>3, MoveKeepsCore DEF BookingPcs
<1> QED BY <1>3, <1>4

\* The check of a trip operation and updateTrip's count only move the handler on.
LEMMA ReadsKeepCore ==
  ASSUME CoreInv, NEW h \in Handlers, ReadOwnedTrip(h) \/ CountActive(h)
  PROVE  CoreInv'
  BY TripMoveKeepsCore DEF ReadOwnedTrip, CountActive

\* The passengers to tell of a trip are read from bookings that exist.
LEMMA ReadAudienceKeepsCore ==
  ASSUME CoreInv, NEW h \in Handlers, ReadAudience(h)
  PROVE  CoreInv'
<1>1. /\ h \in Procs /\ proc[h] \in Processes
      /\ UNCHANGED <<trip, booking, notes, lock, approved, clobbered>>
  BY DEF ReadAudience, Procs, CoreInv, TypeOK
<1>2. lock' \in [Trips -> Procs \cup {None}] /\ notes' \subseteq Notes
  BY <1>1 DEF CoreInv, TypeOK
<1>3. CASE Audience(h) = {}
  <2>1. Idle.pc = "idle" /\ Idle.todo = {} /\ Finish(h)
    BY <1>3 DEF Idle, ReadAudience
  <2> QED BY <1>1, <1>2, <2>1, IdleType, MoveKeepsCore DEF Finish, BookingPcs
<1>4. CASE Audience(h) # {}
  <2> DEFINE new == [proc[h] EXCEPT !.pc = "fanout", !.todo = Audience(h)]
  <2>1. proc' = [proc EXCEPT ![h] = new]
    BY <1>1, <1>4 DEF ReadAudience, CoreInv, TypeOK
  <2>2. /\ Audience(h) \subseteq Bookings
        /\ \A b \in Audience(h) : booking[b].status # "absent"
    BY DEF Audience, BookingsOn, ActiveStatuses
  <2>3. new \in Processes /\ new.pc = "fanout" /\ new.todo = Audience(h) /\ TripRequest(new)
    BY <1>1, <2>2 DEF Processes, CoreInv, TripRequestsValid, TripRequest
  <2> HIDE DEF new
  <2> QED BY <1>1, <1>2, <2>1, <2>2, <2>3, MoveKeepsCore DEF BookingPcs
<1> QED BY <1>3, <1>4

\* A handler ends or goes on to its notification after writing trips without the
\* row lock of a transaction: the row it writes is nobody's.
LEMMA TripWriteKeepsCore ==
  ASSUME CoreInv, NEW h \in Handlers, proc[h].pc = "write", proc[h].op \in TripOps,
         trip' \in [Trips -> TripRows],
         \A t \in Trips : trip'[t].avail <= trip'[t].total,
         \A t \in Trips : trip[t].status # "absent" => trip'[t].status # "absent",
         \A q \in Procs : proc[q].pc = "locked" => trip'[proc[q].trip] = trip[proc[q].trip],
         booking' \in [Bookings -> BookingRows],
         \A b \in Bookings : /\ booking'[b].trip = booking[b].trip
                             /\ booking[b].status # "absent" <=> booking'[b].status # "absent",
         Goto(h, "notify") \/ Finish(h),
         UNCHANGED <<notes, lock, approved>>, clobbered' \subseteq Trips
  PROVE  CoreInv'
<1>1. h \in Procs /\ proc[h] \in Processes
  BY DEF Procs, CoreInv, TypeOK
<1>2. \E new \in Processes :
         /\ proc' = [proc EXCEPT ![h] = new]
         /\ new.pc \notin BookingPcs \cup {"sweep"}
         /\ new.todo \subseteq proc[h].todo
         /\ new.pc = "notify" => new.op \in TripOps
         /\ TripRequest(new)
  <2>1. CASE Finish(h)
    BY <2>1, IdleType DEF Finish, Idle, BookingPcs
  <2>2. CASE Goto(h, "notify")
    <3> DEFINE new == [proc[h] EXCEPT !.pc = "notify"]
    <3>1. proc' = [proc EXCEPT ![h] = new]
      BY <1>1, <2>2 DEF Goto, CoreInv, TypeOK
    <3>2. /\ new \in Processes /\ new.pc = "notify" /\ new.todo = proc[h].todo
          /\ new.op = proc[h].op /\ TripRequest(new)
      BY <1>1 DEF Processes, CoreInv, TripRequestsValid, TripRequest
    <3> HIDE DEF new
    <3> QED BY <3>1, <3>2 DEF BookingPcs
  <2> QED BY <2>1, <2>2
<1>3. PICK new \in Processes :
         /\ proc' = [proc EXCEPT ![h] = new]
         /\ new.pc \notin BookingPcs \cup {"sweep"}
         /\ new.todo \subseteq proc[h].todo
         /\ new.pc = "notify" => new.op \in TripOps
         /\ TripRequest(new)
  BY <1>2
<1>4. /\ proc' \in [Procs -> Processes]
      /\ \A q \in Procs : proc'[q] = IF q = h THEN new ELSE proc[q]
  BY <1>1, <1>3 DEF CoreInv, TypeOK
<1>5. TypeOK'
  BY <1>4 DEF CoreInv, TypeOK
<1>6. RowsLinked' /\ RowsSurvive
  BY DEF CoreInv, RowsLinked, RowsSurvive
<1>7. OthersUndisturbed(h)
  BY <1>4 DEF OthersUndisturbed
<1>8. \A b \in proc'[h].todo : booking'[b].status # "absent"
  BY <1>1, <1>3, <1>4 DEF CoreInv, TodoExists, Processes
<1>9. TripOps \cap BookingOps = {}
  BY DEF TripOps, BookingOps
<1> QED BY <1>1, <1>3, <1>4, <1>5, <1>6, <1>7, <1>8, <1>9, StepKeepsCore

\* A published trip is a valid row that nobody has locked.
LEMMA CreateTripKeepsCore ==
  ASSUME CoreInv, NEW h \in Handlers, CreateTrip(h)
  PROVE  CoreInv'
<1> DEFINE row == [status |-> "open", driver |-> proc[h].user,
                   total |-> proc[h].seats, avail |-> proc[h].seats]
<1>1. PICK t \in Trips : trip[t].status = "absent" /\ trip' = [trip EXCEPT ![t] = row]
  BY DEF CreateTrip
<1>2. /\ proc[h].pc = "write" /\ proc[h].op = "createTrip" /\ Finish(h)
      /\ UNCHANGED <<booking, notes, lock, approved, clobbered>>
  BY DEF CreateTrip, At
<1>3. row \in TripRows /\ row.status = "open" /\ row.total = row.avail
  <2>1. proc[h] \in Processes /\ proc[h].user \in Drivers
    BY <1>2 DEF CoreInv, TypeOK, Procs, TripRequestsValid, TripRequest, TripOps
  <2> QED BY <2>1 DEF Processes, TripRows, TripStatuses
<1> HIDE DEF row
<1>4. \A u \in Trips : trip'[u] = IF u = t THEN row ELSE trip[u]
  BY <1>1 DEF CoreInv, TypeOK
<1>5. /\ trip' \in [Trips -> TripRows]
      /\ \A u \in Trips : trip'[u].avail <= trip'[u].total
  BY <1>1, <1>3, <1>4 DEF CoreInv, TypeOK, TripRows
<1>6. \A u \in Trips : trip[u].status # "absent" => trip'[u].status # "absent"
  BY <1>3, <1>4
<1>7. \A q \in Procs : proc[q].pc = "locked" => trip'[proc[q].trip] = trip[proc[q].trip]
  BY <1>1, <1>4 DEF CoreInv, RequestsValid, BookingPcs
<1> QED BY <1>2, <1>5, <1>6, <1>7, TripWriteKeepsCore DEF CoreInv, TypeOK, TripOps

\* Nobody's transaction sees the UPDATE of a row that is free.
LEMMA FreeRowIsNobodys ==
  ASSUME CoreInv, NEW t \in Trips, RowFree(t), NEW row, trip' = [trip EXCEPT ![t] = row]
  PROVE  \A q \in Procs : proc[q].pc = "locked" => trip'[proc[q].trip] = trip[proc[q].trip]
  BY NoneIsNoProcess DEF CoreInv, RowFree, LockDiscipline, RequestsValid, BookingPcs, TypeOK

\* A resized row is a row with the same status and all of its seats free.
LEMMA ResizedRow ==
  ASSUME NEW row \in TripRows, NEW n \in Nat
  PROVE  /\ Resized(row, n) \in TripRows
         /\ Resized(row, n).status = row.status
         /\ Resized(row, n).total = n
         /\ Resized(row, n).avail = n
  BY DEF Resized, TripRows

\* An edit waits for the row lock, so no transaction has read the row it replaces.
LEMMA UpdateTripKeepsCore ==
  ASSUME CoreInv, NEW h \in Handlers, UpdateTrip(h)
  PROVE  CoreInv'
<1> DEFINE t == proc[h].trip
           n == proc[h].seats
           row == Resized(trip[t], n)
<1>1. /\ proc[h].pc = "write" /\ proc[h].op = "updateTrip" /\ RowFree(t) /\ Finish(h)
      /\ trip' = IF n = 0 THEN trip ELSE [trip EXCEPT ![t] = row]
      /\ clobbered' = IF n # 0 /\ HeldSeats(t) # {} THEN clobbered \cup {t} ELSE clobbered
      /\ UNCHANGED <<booking, notes, lock, approved>>
  BY DEF UpdateTrip, At
<1>2. n \in Nat /\ trip \in [Trips -> TripRows] /\ t \in Trips
  BY <1>1 DEF CoreInv, TypeOK, Procs, Processes, TripRequestsValid, TripRequest, TripOps
<1> HIDE DEF n, t
<1>3. row \in TripRows /\ row.status = trip[t].status /\ row.avail <= row.total
  <2>1. trip[t] \in TripRows
    BY <1>2
  <2> QED BY <1>2, <2>1, ResizedRow
<1> HIDE DEF row
<1>4. CASE n # 0
  <2>1. trip' = [trip EXCEPT ![t] = row]
    BY <1>1, <1>4
  <2>2. \A u \in Trips : trip'[u] = IF u = t THEN row ELSE trip[u]
    BY <1>2, <1>4, <2>1
  <2>3. /\ trip' \in [Trips -> TripRows]
        /\ \A u \in Trips : trip'[u].avail <= trip'[u].total
        /\ \A u \in Trips : trip[u].status # "absent" => trip'[u].status # "absent"
    BY <1>2, <1>3, <1>4, <2>1, <2>2 DEF CoreInv, TypeOK
  <2>4. \A q \in Procs : proc[q].pc = "locked" => trip'[proc[q].trip] = trip[proc[q].trip]
    BY <1>1, <1>2, <2>1, FreeRowIsNobodys
  <2>5. clobbered' \subseteq Trips
    BY <1>1, <1>2 DEF CoreInv, TypeOK
  <2> QED BY <1>1, <2>3, <2>4, <2>5, TripWriteKeepsCore DEF CoreInv, TypeOK, TripOps
<1>5. CASE n = 0
  <2>1. UNCHANGED <<trip, clobbered>>
    BY <1>1, <1>5
  <2> QED BY <1>1, <2>1, TripWriteKeepsCore DEF CoreInv, TypeOK, TripOps
<1> QED BY <1>4, <1>5

\* Starting, cancelling and completing a trip write its status and, the last
\* one, the status of bookings.
LEMMA SetTripStatusEffect ==
  ASSUME CoreInv, NEW h \in Handlers, NEW op \in {"startTrip", "cancelTrip", "completeTrip"},
         NEW status \in TripStatuses \ {"absent"}, SetTripStatus(h, op, status)
  PROVE  /\ proc[h].pc = "write" /\ proc[h].op = op
         /\ proc[h].trip \in Trips
         /\ \A t \in Trips :
               /\ trip'[t].status = IF t = proc[h].trip THEN status ELSE trip[t].status
               /\ trip'[t].total = trip[t].total
               /\ trip'[t].avail = trip[t].avail
               /\ trip'[t].driver = trip[t].driver
         /\ trip' \in [Trips -> TripRows]
         /\ \A t \in Trips : trip'[t].avail <= trip'[t].total
         /\ \A t \in Trips : trip[t].status # "absent" => trip'[t].status # "absent"
         /\ \A q \in Procs : proc[q].pc = "locked" => trip'[proc[q].trip] = trip[proc[q].trip]
         /\ UNCHANGED <<notes, lock, approved, clobbered>>
<1> DEFINE t == proc[h].trip
           row == [trip[t] EXCEPT !.status = status]
<1>1. /\ proc[h].pc = "write" /\ proc[h].op = op /\ RowFree(t)
      /\ trip' = [trip EXCEPT ![t].status = status]
      /\ UNCHANGED <<notes, lock, approved, clobbered>>
  BY DEF SetTripStatus, At
<1>2. trip \in [Trips -> TripRows] /\ t \in Trips
  BY <1>1 DEF CoreInv, TypeOK, Procs, Processes, TripRequestsValid, TripRequest, TripOps
<1> HIDE DEF t
<1>3. trip' = [trip EXCEPT ![t] = row]
  BY <1>1, <1>2
<1>4. trip[t] \in TripRows
  BY <1>2
<1>5. /\ row \in TripRows /\ row.status = status /\ row.avail = trip[t].avail
      /\ row.total = trip[t].total /\ row.driver = trip[t].driver
  BY <1>4 DEF TripRows
<1> HIDE DEF row
<1>6. /\ trip' \in [Trips -> TripRows]
      /\ \A u \in Trips : trip'[u] = IF u = t THEN row ELSE trip[u]
  BY <1>2, <1>3, <1>5
<1>7. \A q \in Procs : proc[q].pc = "locked" => trip'[proc[q].trip] = trip[proc[q].trip]
  BY <1>1, <1>2, <1>3, FreeRowIsNobodys
<1>8. \A u \in Trips : trip'[u].avail <= trip'[u].total
  BY <1>2, <1>5, <1>6 DEF CoreInv, TypeOK
<1> QED BY <1>1, <1>2, <1>5, <1>6, <1>7, <1>8 DEF t

\* The unlocked status writes wait for the row lock as well.
LEMMA StartOrCancelTripKeepsCore ==
  ASSUME CoreInv, NEW h \in Handlers, StartTrip(h) \/ CancelTrip(h)
  PROVE  CoreInv'
<1>1. PICK op \in {"startTrip", "cancelTrip"}, status \in {"started", "cancelled"} :
         SetTripStatus(h, op, status) /\ Goto(h, "notify") /\ UNCHANGED booking
  BY DEF StartTrip, CancelTrip
<1>2. status \in TripStatuses \ {"absent"} /\ op \in TripOps
  BY DEF TripStatuses, TripOps
<1>3. booking' \in [Bookings -> BookingRows] /\ clobbered \subseteq Trips
  BY <1>1 DEF CoreInv, TypeOK
<1> QED BY <1>1, <1>2, <1>3, SetTripStatusEffect, TripWriteKeepsCore

\* Completing a trip completes its accepted bookings and leaves the others alone.
LEMMA CompleteTripEffect ==
  ASSUME CoreInv, NEW h \in Handlers, CompleteTrip(h)
  PROVE  /\ booking' \in [Bookings -> BookingRows]
         /\ \A b \in Bookings :
               /\ booking'[b].trip = booking[b].trip
               /\ booking'[b].seats = booking[b].seats
               /\ \/ booking'[b] = booking[b]
                  \/ booking[b].status = "accepted" /\ booking'[b].status = "completed"
<1> DEFINE ended == BookingsOn(proc[h].trip, EndsWithTrip)
<1>1. booking' = [b \in Bookings |->
         IF b \in ended THEN [booking[b] EXCEPT !.status = "completed", !.hold = "none"]
         ELSE booking[b]]
  BY DEF CompleteTrip
<1>2. \A b \in ended : booking[b].status = "accepted"
  BY DEF BookingsOn, EndsWithTrip
<1> HIDE DEF ended
<1> SUFFICES ASSUME NEW b \in Bookings
             PROVE  /\ booking'[b] \in BookingRows
                    /\ booking'[b].trip = booking[b].trip
                    /\ booking'[b].seats = booking[b].seats
                    /\ \/ booking'[b] = booking[b]
                       \/ booking[b].status = "accepted" /\ booking'[b].status = "completed"
  BY <1>1
<1>3. booking[b] \in BookingRows
  BY DEF CoreInv, TypeOK
<1>4. CASE b \in ended
  <2>1. booking'[b] = [booking[b] EXCEPT !.status = "completed", !.hold = "none"]
    BY <1>1, <1>4
  <2> QED BY <1>2, <1>3, <1>4, <2>1 DEF BookingRows, BookingStatuses, TerminalStatuses
<1>5. CASE b \notin ended
  BY <1>1, <1>3, <1>5
<1> QED BY <1>4, <1>5

\* Completing a trip together with its bookings keeps the invariant.
LEMMA CompleteTripKeepsCore ==
  ASSUME CoreInv, NEW h \in Handlers, CompleteTrip(h)
  PROVE  CoreInv'
<1>1. SetTripStatus(h, "completeTrip", "completed") /\ Finish(h)
  BY DEF CompleteTrip
<1>2. "completed" \in TripStatuses \ {"absent"} /\ "completeTrip" \in TripOps
  BY DEF TripStatuses, TripOps
<1>3. \A b \in Bookings : booking[b].status # "absent" <=> booking'[b].status # "absent"
  BY CompleteTripEffect
<1>4. clobbered \subseteq Trips
  BY DEF CoreInv, TypeOK
<1> QED BY <1>1, <1>2, <1>3, <1>4, SetTripStatusEffect, CompleteTripEffect, TripWriteKeepsCore

\* An admin's decision about a driver touches no row of a trip or booking.
LEMMA DecideDriverKeepsCore ==
  ASSUME CoreInv, NEW d \in Suspendable, DecideDriver(d)
  PROVE  CoreInv'
<1>1. approved' \subseteq Drivers
  BY ActorAssumption DEF DecideDriver, CoreInv, TypeOK
<1>2. UNCHANGED <<trip, booking, notes, lock, proc, clobbered>>
  BY DEF DecideDriver
<1>3. TypeOK'
  BY <1>1, <1>2 DEF CoreInv, TypeOK
<1> QED BY <1>2, <1>3 DEF CoreInv, RowsLinked, RequestsValid, TripRequestsValid, TripRequest,
                          TodoExists, NotifiesBooking, SweepsExpire, LockDiscipline

-----------------------------------------------------------------------------
(* The invariant holds of every behaviour *)

\* Every step of the services keeps the invariant.
LEMMA NextKeepsCore == CoreInv /\ [Next]_vars => CoreInv'
<1> SUFFICES ASSUME CoreInv, [Next]_vars PROVE CoreInv'
  OBVIOUS
<1>1. ASSUME NEW h \in Handlers, BookingStep(h) PROVE CoreInv'
  <2>1. h \in Procs
    BY DEF Procs
  <2> QED BY <1>1, <2>1, LockTripKeepsCore, CreateBookingKeepsCore, EndBookingKeepsCore,
             RefuseKeepsCore, NotifyBookingKeepsCore DEF BookingStep
<1>2. ASSUME NEW h \in Handlers, TripStep(h) PROVE CoreInv'
  BY <1>2, CreateTripKeepsCore, ReadsKeepCore, UpdateTripKeepsCore, StartOrCancelTripKeepsCore,
     CompleteTripKeepsCore, ReadAudienceKeepsCore, NotifyTripKeepsCore DEF TripStep
<1>3. ASSUME NEW s \in Sweeps, SweepStep(s) PROVE CoreInv'
  <2>1. s \in Procs
    BY DEF Procs
  <2> QED BY <1>3, <2>1, StartSweepKeepsCore, TakeLapsedKeepsCore, LockTripKeepsCore,
             ExpireBookingKeepsCore, SkipBookingKeepsCore, AbandonSweepKeepsCore DEF SweepStep
<1>4. CASE UNCHANGED vars
  <2>1. TypeOK'
    BY <1>4 DEF CoreInv, TypeOK, vars
  <2> QED BY <1>4, <2>1 DEF vars, CoreInv, RowsLinked, RequestsValid, TripRequestsValid,
            TripRequest, TodoExists, NotifiesBooking, SweepsExpire, LockDiscipline
<1> QED BY <1>1, <1>2, <1>3, <1>4, ArriveKeepsCore, HoldLapsesKeepsCore, DecideDriverKeepsCore,
           FailKeepsCore DEF Next

\* In every reachable state, for any number of trips, bookings, requests and runs
\* of the job: the rows, locks and processes are well formed, they refer to each
\* other as the handlers rely on, and row locks exclude one another.
THEOREM CoreInvariant == Spec => []CoreInv
<1>1. Init => CoreInv
  BY InitCore
<1>2. CoreInv /\ [Next]_vars => CoreInv'
  BY NextKeepsCore
<1> QED BY <1>1, <1>2, PTL DEF Spec

\* Whatever runs concurrently, tables, locks and processes keep their types and
\* no trip advertises more seats than its total: the CHECK constraint of the
\* trips table never refuses a write.
THEOREM TypeCorrect == Spec => []TypeOK
<1>1. CoreInv => TypeOK
  BY DEF CoreInv
<1> QED BY <1>1, CoreInvariant, PTL

\* Whatever runs concurrently, a booking transaction in progress is the only
\* holder of its trip's row and what it read from it is still so.
THEOREM LockDisciplineHolds == Spec => []LockDiscipline
<1>1. CoreInv => LockDiscipline
  BY DEF CoreInv
<1> QED BY <1>1, CoreInvariant, PTL
=============================================================================
