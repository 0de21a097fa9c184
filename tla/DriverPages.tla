----------------------------- MODULE DriverPages -----------------------------
(***************************************************************************)
(* The driver's pages: the list of trips, the form that publishes or edits *)
(* one, and the page that runs a trip and decides its bookings.  These     *)
(* pages do not poll.                                                      *)
(***************************************************************************)
EXTENDS TripPages

Mine(k, fns, at) == Ready(k, fns, at) /\ calls[k].here /\ user = "driver"
At(p) == page = p /\ user = "driver"

DriverPageOpens(p, v, others) ==
    CASE p = "trips" -> Open(p, Start(v), "details", {}, others)
      [] p = "manage" -> Open(p, Start(v), "all", {Get("trip"), Get("bookings")}, others)
      [] p = "form" -> Open(p, [v EXCEPT !.seats = Capacity], "details", {}, others)
Opens(p) == DriverPageOpens(p, Fresh, calls)

-----------------------------------------------------------------------------
(* The list of trips *)

TripsLoad(k) ==
    /\ page = "trips"
    /\ \/ /\ Mine(k, {"load"}, "details")
          /\ IF Failed(k) THEN Return(k, Fail(Loaded(view))) ELSE Await(k, "trip", {Get("trip")}, view)
       \/ /\ Mine(k, {"load"}, "trip")
          /\ Return(k, Loaded(IF Failed(k) THEN Fail(view) ELSE [view EXCEPT !.trip = calls[k].got.trip]))

\* A second trip is out of bounds.
CreateTrip == At("trips") /\ rows.trip = NoTrip /\ Unserved("publish") = {} /\ Opens("form")
OpenCard == At("trips") /\ ~view.loading /\ view.trip # NoTrip /\ Opens("manage")

-----------------------------------------------------------------------------
(* The page of a trip *)

\* load: trip and bookings are read together and shown together.
ManageLoad(k) ==
    /\ page = "manage"
    /\ \/ /\ Mine(k, {"load"}, "all")
          /\ IF Failed(k) THEN Return(k, Fail(Loaded(view)))
             ELSE Detail(k, "stops", [view EXCEPT !.trip = calls[k].got.trip, !.booking = calls[k].got.booking])
       \/ /\ Mine(k, {"load"}, "stops")
          /\ Return(k, Loaded(IF Failed(k) THEN Fail(view) ELSE view))

ControlsAny == page = "manage" /\ user = "driver" /\ view.trip # NoTrip  \* mutant: always enabled
Controls == At("manage") /\ ~view.loading /\ ~view.busy /\ view.trip # NoTrip
Busy == [view EXCEPT !.busy = TRUE, !.told = "none"]

\* startTrip, completeTrip and cancelTrip, where the status shown allows them.
Mutate ==
    /\ Controls
    /\ \E op \in DOMAIN From :
          view.trip.status \in From[op] /\ Begin("mutate", "sent", 1, {Get(op)}, Busy)

\* Their answer is shown; the bookings shown stay as they are.
Mutated(k) ==
    /\ Mine(k, {"mutate"}, "sent")
    /\ Return(k, Done(IF Failed(k) THEN Fail(view) ELSE [view EXCEPT !.trip = calls[k].got.trip]))

\* acceptBooking and rejectBooking, whatever the status of the trip.
MutateBooking ==
    /\ Controls
    /\ \E b \in Bookings, op \in {"accept", "reject"} :
          view.booking[b] = "pending" /\ Begin("decide", "sent", b, {Req(op, b, 0)}, Busy)

ReloadUnshown(k) == view  \* mutant: what is read again is not shown
ReloadShown(k) == [view EXCEPT !.trip = calls[k].got.trip, !.booking = calls[k].got.booking]
BookingMutated(k) ==
    \/ /\ Mine(k, {"decide"}, "sent")
       /\ IF Failed(k) THEN Return(k, Done(Fail(view)))
          ELSE Await(k, "reload", {Get("trip"), Get("bookings")}, view)
    \/ /\ Mine(k, {"decide"}, "reload")
       /\ Return(k, Done(IF Failed(k) THEN Fail(view) ELSE ReloadShown(k)))

EditTrip ==
    /\ At("manage") /\ ~view.loading /\ view.trip.status = "open"
    /\ DriverPageOpens("form", [Fresh EXCEPT !.edit = TRUE], calls)

-----------------------------------------------------------------------------
(* The form of a trip *)

\* load, without a sign of it and without a message when it fails.  A new trip has its route from
\* the first read, an edited one from the trip; a trip that arrives replaces what was typed.
FormFilled(k) ==
    /\ page = "form"
    /\ \/ /\ Mine(k, {"load"}, "details")
          /\ IF Failed(k) THEN Return(k, view)
             ELSE IF view.edit THEN Await(k, "trip", {Get("trip")}, view)
             ELSE Detail(k, "stops", [view EXCEPT !.details = TRUE])
       \/ /\ Mine(k, {"load"}, "trip")
          /\ IF Failed(k) THEN Return(k, view)
             ELSE Detail(k, "stops", [view EXCEPT !.details = TRUE, !.seats = calls[k].got.trip.total])
       \/ Mine(k, {"load"}, "stops") /\ Return(k, view)

FormSeats ==
    /\ At("form")
    /\ \E n \in {view.seats - 1, view.seats + 1} \cap 1..Capacity : view' = [view EXCEPT !.seats = n]
    /\ UNCHANGED <<user, rows, page, calls>>

\* validate wants the route, which the reads fill in.
Submit ==
    /\ At("form") /\ ~view.busy
    /\ IF ~view.details
       THEN view.told # "error" /\ view' = Fail(view) /\ UNCHANGED <<user, rows, page, calls>>
       ELSE LET op == IF view.edit THEN "update" ELSE "publish"
            IN Begin(op, "sent", 1, {Req(op, 1, view.seats)}, Busy)

\* Success leads to the trip or the list, unless the driver is there by now.  What the server says of
\* active bookings arrives as an HttpErrorResponse, of which errorText keeps nothing.
Submitted(k) ==
    LET target == IF calls[k].fn = "update" THEN "manage" ELSE "trips"
    IN /\ Ready(k, {"update", "publish"}, "sent")
       /\ CASE Failed(k) -> Return(k, Done(Fail(view)))
            [] ~Failed(k) /\ page = target -> Return(k, view)
            [] ~Failed(k) /\ page # target -> DriverPageOpens(target, Fresh, [calls EXCEPT ![k] = Idle])

-----------------------------------------------------------------------------
\* The back buttons; the list is also left for another tab and entered again.
Back ==
    /\ user = "driver"
    /\ \/ page \in {"manage", "trips"} /\ Opens("trips")
       \/ page = "form" /\ Opens(IF view.edit THEN "manage" ELSE "trips")

DriverTaps ==
    CreateTrip \/ OpenCard \/ Mutate \/ MutateBooking \/ EditTrip \/ FormSeats \/ Submit \/ Back
DriverContinues(k) ==
    TripsLoad(k) \/ ManageLoad(k) \/ Mutated(k) \/ BookingMutated(k) \/ FormFilled(k) \/ Submitted(k)
=============================================================================
