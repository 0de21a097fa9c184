----------------------------- MODULE TripClient -----------------------------
(***************************************************************************)
(* One phone and the rest of the world.  The phone is a passenger's, who   *)
(* meets a driver and other passengers on one trip, or a driver's, whose   *)
(* trip is booked by passengers.                                           *)
(***************************************************************************)
EXTENDS PassengerPages, DriverPages

Init ==
    /\ user \in Users
    /\ rows = [trip |-> IF user = "passenger" THEN Published(Capacity) ELSE NoTrip,
               booking |-> NoBookings, seats |-> [b \in Bookings |-> 0], rated |-> 0]
    /\ page = IF user = "passenger" THEN "search" ELSE "trips"
    /\ view = Start(Fresh)
    /\ calls = [k \in Slots |-> IF k = 1 THEN [Idle EXCEPT !.fn = "load", !.at = "details"] ELSE Idle]

-----------------------------------------------------------------------------
(* Other people, and the job that expires requests: to a page expiring is like rejecting *)

WorldRequests ==
    IF user = "passenger"
    THEN [op : {"accept", "reject", "start", "complete", "cancelTrip"}, b : Bookings, n : {0}]
    ELSE [op : {"cancel"}, b : Bookings, n : {0}]

SomeoneActs ==
    /\ \E q \in WorldRequests : Verdict(rows, q) = "ok" /\ rows' = Applied(rows, q)
    /\ UNCHANGED <<user, page, view, calls>>

\* Other passengers take seats of the passenger's trip.
OthersBook ==
    /\ user = "passenger" /\ rows.trip.status = "open" /\ rows.trip.avail > 0
    /\ rows' = [rows EXCEPT !.trip.avail = @ - 1]
    /\ UNCHANGED <<user, page, view, calls>>

\* Passengers, a new one each time, book the driver's trip.
PassengersBook ==
    /\ user = "driver" /\ rows.trip.status = "open"
    /\ \E b \in Unused(rows), n \in 1..rows.trip.avail :
          /\ \A c \in Unused(rows) : b <= c
          /\ rows' = Applied(rows, Req("create", b, n))
    /\ UNCHANGED <<user, page, view, calls>>

Continue(k) == PassengerContinues(k) \/ DriverContinues(k)
Next ==
    \/ SomeoneActs \/ OthersBook \/ PassengersBook
    \/ PassengerTaps \/ DriverTaps \/ Poll
    \/ \E k \in InUse : Serve(k) \/ Lose(k) \/ Continue(k)

Spec == Init /\ [][Next]_vars

\* The server answers, answers are handled, and the timer ticks; nobody has to tap.
FairSpec == Spec /\ WF_vars(Poll) /\ \A k \in Slots : WF_vars(Serve(k)) /\ WF_vars(Continue(k))

-----------------------------------------------------------------------------
(* Safety *)

\* The shape of the rows, the calls and the fields on display.
PagesTypeOK == TripPagesTypes

\* Ratings that are sent twice, the second before the first is stored, are stored once.
RatedOnce == rows.rated <= 1

\* A form that can be sent and shows no error asks for at least one seat and for no more than it
\* says are left, also after it was overtaken by other passengers and loaded again.
SeatsOffered ==
    page = "book" /\ ~view.loading /\ Requestable(view) /\ view.told # "error"
        => view.seats \in 1..view.trip.avail

-----------------------------------------------------------------------------
(* Steps *)

Rank(status) ==
    CASE status \in {"absent", "none"} -> 0
      [] status \in {"open", "pending"} -> 1
      [] status \in {"started", "accepted"} -> 2
      [] OTHER -> 3

\* What the driver's page shows of the trip and of a booking never goes back to an earlier state:
\* no answer of one of its functions overwrites what a later one has shown.
ManagedForward ==
    [][page = "manage" /\ page' = "manage" =>
          /\ Rank(view.trip.status) <= Rank(view'.trip.status)
          /\ \A b \in Bookings : Rank(view.booking[b]) <= Rank(view'.booking[b])]_vars

\* When a decision has been answered and the page is free again without an error, the booking no
\* longer is shown as pending.
DecisionShown ==
    [][\A k \in Slots : calls[k].fn = "decide" /\ calls[k].here /\ calls'[k] = Idle /\ page' = "manage"
          => view'.told = "error" \/ view'.booking[calls[k].b] # "pending"]_vars

-----------------------------------------------------------------------------
(* Liveness *)

\* A booking that is settled is shown as settled while its page stays open: polls that overtake
\* each other or are lost do not hide it for ever.
CatchesUp ==
    \A b \in Bookings :
        (user = "passenger" /\ page = "detail" /\ view.focus = b /\ rows.booking[b] \in Settled)
            ~> (page # "detail" \/ view.focus # b \/ view.booking[b] \in Settled)

\* A passenger who has rated the driver, be it from another page whose answer came late, is not
\* asked again for ever.
PromptGoes ==
    (user = "passenger" /\ page = "detail" /\ rows.rated = 1) ~> (page # "detail" \/ ~CanRate(view))

\* A page does not stay blocked by a function that was refused or whose answer was lost.
TapsEnd == view.busy ~> ~view.busy
=============================================================================
