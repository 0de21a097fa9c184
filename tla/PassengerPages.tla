--------------------------- MODULE PassengerPages ---------------------------
(***************************************************************************)
(* The passenger's pages: search, results, booking form, list of bookings, *)
(* one booking, and the rating of the driver.                              *)
(***************************************************************************)
EXTENDS TripPages

Here(k, fns, at) == Ready(k, fns, at) /\ calls[k].here /\ user = "passenger"
On(p) == page = p /\ user = "passenger" /\ ~view.loading

-----------------------------------------------------------------------------
(* Opening a page: ionViewWillEnter *)

PageOpens(p, focus, ahead, others) ==
    LET v == [Start(Fresh) EXCEPT !.focus = focus, !.ahead = ahead]
    IN CASE p = "search" -> Open(p, v, "details", {}, others)
         [] p = "results" -> Open(p, v, "trips", {Req("search", 1, IF ahead THEN 1 ELSE 0)}, others)
         [] p = "book" -> Open(p, v, "trip", {Get("trip")}, others)
         [] p = "bookings" -> Open(p, v, "bookings", {Get("bookings")}, others)
         [] p = "detail" -> Open(p, v, "bookings", {Req("booking", focus, 0)}, others)
         [] p = "rate" -> Open(p, v, "eligible", {Get("status"), Get("bookings")}, others)

\* The navigation bar and the back buttons.
Navigation ==
    [search |-> {"bookings"}, results |-> {"search"}, book |-> {"results"},
     bookings |-> {"search"}, detail |-> {"bookings"}, rate |-> {"bookings", "detail"}]
Navigate ==
    /\ user = "passenger"
    /\ \E p \in Navigation[page] : PageOpens(p, view.focus, view.ahead, calls)

-----------------------------------------------------------------------------
(* Search and results *)

SearchLoaded(k) ==
    /\ Here(k, {"load"}, "details") /\ page = "search"
    /\ Return(k, Loaded(IF Failed(k) THEN Fail(view) ELSE [view EXCEPT !.details = TRUE]))

\* canSearch wants two different stops, in whatever order.
SearchTrips ==
    /\ page = "search"
    /\ IF view.details THEN \E ahead \in BOOLEAN : PageOpens("results", 1, ahead, calls)
       ELSE view.told # "error" /\ view' = Fail(view) /\ UNCHANGED <<user, rows, page, calls>>

\* The trips found are shown once the details of all of them have arrived.
ResultsLoad(k) ==
    /\ page = "results"
    /\ \/ /\ Here(k, {"load"}, "trips")
          /\ IF Failed(k) THEN Return(k, Fail(Loaded(view)))
             ELSE Keep(k, "details")
       \/ /\ Here(k, {"load"}, "details")
          /\ Return(k, Loaded(IF Failed(k) THEN Fail(view) ELSE [view EXCEPT !.trip = calls[k].got.trip]))

OpenTrip == On("results") /\ view.trip # NoTrip /\ PageOpens("book", 1, view.ahead, calls)

-----------------------------------------------------------------------------
(* The booking form *)

ClippedNot(v) == v  \* mutant: the seats asked for stay
\* load, also when requestBooking calls it: the seats asked for are cut to those left.
Clipped(v) ==
    LET most == IF v.trip.avail > 1 THEN v.trip.avail ELSE 1
    IN [v EXCEPT !.seats = IF @ > most THEN most ELSE @]
FormLoad(k) ==
    LET Ends(v) == IF calls[k].fn = "request" THEN Done(Loaded(v)) ELSE Loaded(v)
    IN /\ page = "book"
       /\ \/ /\ Here(k, {"load", "request"}, "trip")
             /\ IF Failed(k) THEN Return(k, Ends(Fail(view)))
                ELSE Detail(k, "details", [view EXCEPT !.trip = calls[k].got.trip])
          \/ /\ Here(k, {"load", "request"}, "details")
             /\ Return(k, Ends(IF Failed(k) THEN Fail(view) ELSE Clipped(view)))

\* The stepper of the form.
ChangeSeats ==
    /\ On("book") /\ view.trip # NoTrip
    /\ \/ view.seats > 1 /\ view' = [view EXCEPT !.seats = IF @ > view.trip.avail THEN view.trip.avail ELSE @ - 1]
       \/ view.seats < view.trip.avail /\ view' = [view EXCEPT !.seats = @ + 1]
    /\ UNCHANGED <<user, rows, page, calls>>

Requestable(v) == v.trip # NoTrip /\ ~v.busy /\ v.trip.avail >= 1
RequestBooking ==
    /\ On("book") /\ Requestable(view)
    /\ \E b \in Unused(rows) :
          /\ \A k \in Unserved("create") : calls[k].b # b
          /\ Begin("request", "sent", b, {Req("create", b, view.seats)},
                   [view EXCEPT !.busy = TRUE, !.told = "none"])

\* On success the page of the booking opens, unless it is open by now, wherever the passenger is.
\* When the seats are gone the form sets raceMessage and loads again, which clears it.
Requested(k) ==
    /\ Ready(k, {"request"}, "sent") /\ user = "passenger"
    /\ CASE ~Failed(k) /\ ~(page = "detail" /\ view.focus = calls[k].b) ->
              PageOpens("detail", calls[k].b, FALSE, [calls EXCEPT ![k] = Idle])
         [] ~Failed(k) /\ page = "detail" /\ view.focus = calls[k].b -> Return(k, view)
         [] calls[k].got.verdict = "seats" -> Await(k, "trip", {Get("trip")}, Start(view))
         [] calls[k].got.verdict \in {"refused", "lost"} -> Return(k, Done(Fail(view)))

-----------------------------------------------------------------------------
(* The list of bookings *)

\* load: the bookings, and the time of each trip, which may be missing; then details.
BookingsLoad(k) ==
    /\ page = "bookings"
    /\ \/ /\ Here(k, {"load"}, "bookings")
          /\ IF Failed(k) THEN Return(k, Fail(Loaded(view))) ELSE Keep(k, "times")
       \/ /\ Here(k, {"load"}, "times")
          /\ Detail(k, "details", [view EXCEPT !.booking = calls[k].got.booking])
       \/ Here(k, {"load"}, "details") /\ Return(k, Loaded(view))

\* A card leads to the rating when the booking is completed, otherwise to the booking.
HandleCardAction ==
    /\ On("bookings")
    /\ \E b \in Bookings :
          /\ view.booking[b] # "none"
          /\ \/ view.booking[b] = "completed" /\ PageOpens("rate", b, FALSE, calls)
             \/ PageOpens("detail", b, FALSE, calls)

PollingList == {"bookings"}  \* mutant: the page of a booking does not poll
Polling == {"bookings", "detail"}
\* Both pages load again every thirty seconds, whether the last poll has ended or not.  A first load
\* that takes longer than that is out of bounds.
Poll ==
    /\ user = "passenger" /\ page \in Polling /\ ~view.loading
    /\ Begin("load", "bookings", 1,
             {IF page = "bookings" THEN Get("bookings") ELSE Req("booking", view.focus, 0)},
             [view EXCEPT !.told = "none"])

-----------------------------------------------------------------------------
(* One booking *)

Shown(v) == v.booking[v.focus]
CanCancel(v) == Shown(v) \in Active
CanRateAgain(v) == Shown(v) = "completed" /\ v.trip.status = "completed" /\ v.details  \* mutant: rated or not
CanRate(v) == Shown(v) = "completed" /\ v.trip.status = "completed" /\ v.details /\ v.rated = 0

\* load: the booking, its trip, the details, the ratings of the driver.  cancelBooking ends with it.
DetailLoad(k) ==
    LET Ends(v) == IF calls[k].fn = "cancel" THEN Done(Loaded(v)) ELSE Loaded(v)
        got == calls[k].got
        shown == [view EXCEPT !.booking = got.booking]
        fns == {"load", "cancel"}
    IN /\ page = "detail"
       /\ \/ /\ Here(k, fns, "bookings")
             /\ IF Failed(k) THEN Return(k, Ends(Fail(view)))
                ELSE IF Shown(shown) = "none" THEN Return(k, Ends(Fail(shown)))
                ELSE Await(k, "trip", {Get("status")}, shown)
          \/ /\ Here(k, fns, "trip")
             /\ IF Failed(k) THEN Return(k, Ends([view EXCEPT !.trip = NoTrip, !.details = FALSE, !.rated = 0]))
                ELSE Detail(k, "details", [view EXCEPT !.trip = got.trip])
          \/ /\ Here(k, fns, "details")
             /\ IF Failed(k) THEN Return(k, Ends([view EXCEPT !.details = FALSE, !.rated = 0]))
                ELSE Await(k, "ratings", {Get("ratings")}, [view EXCEPT !.details = TRUE])
          \/ /\ Here(k, fns, "ratings")
             /\ Return(k, Ends(IF Failed(k) THEN Fail(view) ELSE [view EXCEPT !.rated = got.rated]))

CancelBooking ==
    /\ On("detail") /\ CanCancel(view) /\ ~view.busy
    /\ Begin("cancel", "sent", view.focus, {Req("cancel", view.focus, 0)},
             [view EXCEPT !.busy = TRUE, !.told = "none"])

Cancelled(k) ==
    /\ Here(k, {"cancel"}, "sent")
    /\ IF Failed(k) THEN Return(k, Done(Fail(view)))
       ELSE Await(k, "bookings", {Req("booking", view.focus, 0)},
                  [view EXCEPT !.booking = calls[k].got.booking, !.told = "none"])

OpenRateDriver == On("detail") /\ CanRate(view) /\ PageOpens("rate", view.focus, FALSE, calls)

-----------------------------------------------------------------------------
(* The rating of the driver *)

Eligible(g) == g.trip.status = "completed" /\ \E b \in Bookings : g.booking[b] \in {"accepted", "completed"}
\* load: the trip and the bookings together, then the ratings, with the driver.
RateLoad(k) ==
    LET got == calls[k].got
    IN /\ page = "rate"
       /\ \/ /\ Here(k, {"load"}, "eligible")
             /\ IF Failed(k) THEN Return(k, Fail(Loaded(view)))
                ELSE IF ~Eligible(got) THEN Return(k, Loaded([view EXCEPT !.trip = NoTrip]))
                ELSE Await(k, "ratings", {Get("ratings")}, [view EXCEPT !.trip = got.trip])
          \/ /\ Here(k, {"load"}, "ratings")
             /\ Return(k, Loaded(IF Failed(k) THEN Fail(view)
                                 ELSE [view EXCEPT !.details = TRUE, !.rated = got.rated]))

FormShown(v) == ~v.loading /\ v.rated = 0 /\ v.trip # NoTrip /\ v.details
SubmitRating ==
    /\ On("rate") /\ FormShown(view) /\ ~view.busy
    /\ Begin("rate", "sent", 1, {Req("rate", 1, 0)}, [view EXCEPT !.busy = TRUE, !.told = "none"])
Rated(k) ==
    /\ Here(k, {"rate"}, "sent")
    /\ Return(k, Done(IF Failed(k) THEN Fail(view) ELSE [view EXCEPT !.rated = 1]))

-----------------------------------------------------------------------------
PassengerTaps ==
    Navigate \/ SearchTrips \/ OpenTrip \/ ChangeSeats \/ RequestBooking \/ HandleCardAction
      \/ CancelBooking \/ OpenRateDriver \/ SubmitRating
PassengerContinues(k) ==
    SearchLoaded(k) \/ ResultsLoad(k) \/ FormLoad(k) \/ Requested(k) \/ BookingsLoad(k) \/ DetailLoad(k)
      \/ Cancelled(k) \/ RateLoad(k) \/ Rated(k)
=============================================================================
