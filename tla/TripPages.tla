----------------------------- MODULE TripPages -----------------------------
(***************************************************************************)
(* What the passenger's and the driver's pages about a trip have in        *)
(* common: the server's rows, the requests, and how a page calls.          *)
(*                                                                         *)
(* A page shows copies of the server's rows.  A function of a page is a    *)
(* call: it runs up to an await, its requests are answered at some later   *)
(* moment, and its continuation runs later still, so what a page shows     *)
(* may have been overtaken, by other people or by another call of the      *)
(* page.  An answer may be lost before or after the server has acted.      *)
(*                                                                         *)
(* Requests are served atomically: what the server's handlers do to each   *)
(* other is the subject of TripBooking.  A page that is left is gone with  *)
(* its fields; a change it has requested still takes effect.               *)
(***************************************************************************)
EXTENDS Integers, FiniteSets

CONSTANTS
    Users,      \* whose phone it may be: "passenger", "driver"
    MaxBooking, \* bound: bookings on the trip: the passenger's, or those the driver decides
    Capacity,   \* seats of the trip, and the most a driver asks for
    MaxCall     \* bound: calls the phone has in flight

ASSUME PagesAssumption ==
    /\ Users \subseteq {"passenger", "driver"}
    /\ {MaxBooking, Capacity, MaxCall} \subseteq Nat \ {0}

VARIABLES
    user,   \* whose phone it is
    rows,   \* the server's rows: the trip, its bookings and the seats they hold, the rating
    page,   \* the page on display
    view,   \* the fields of that page
    calls   \* functions of the pages in flight

vars == <<user, rows, page, view, calls>>

Bookings == 1..MaxBooking
Slots == 1..MaxCall

-----------------------------------------------------------------------------
(* The server's rows *)

TripStates == {"absent", "open", "started", "completed", "cancelled"}
Active == {"pending", "accepted"}
Settled == {"completed", "ended"}  \* "ended": rejected, cancelled or expired; only labels tell them apart
BookingStates == {"none"} \cup Active \cup Settled

NoTrip == [status |-> "absent", avail |-> 0, total |-> 0]
NoBookings == [b \in Bookings |-> "none"]
Published(n) == [status |-> "open", avail |-> n, total |-> n]

HasActiveNone(r) == FALSE  \* mutant: an active booking does not count
HasActive(r) == \E b \in Bookings : r.booking[b] \in Active
Unused(r) == {b \in Bookings : r.booking[b] = "none"}
FreedStill(r, b) == [r EXCEPT !.trip.avail = @ + r.seats[b]]  \* mutant: the booking is not settled
Freed(r, b) == [r EXCEPT !.booking[b] = "ended", !.seats[b] = 0, !.trip.avail = @ + r.seats[b]]

\* A passenger who was accepted rates a completed trip.
Rideable(r) == r.trip.status = "completed" /\ \E b \in Bookings : r.booking[b] \in {"accepted", "completed"}
RatingFreeAny(r) == TRUE  \* mutant: no unique index
RatingFree(r) == r.rated = 0

-----------------------------------------------------------------------------
(* Requests *)

\* An operation, the booking it is about and a number of seats.
Req(op, b, n) == [op |-> op, b |-> b, n |-> n]
Get(op) == Req(op, 1, 0)
Reads == {"trip", "search", "bookings", "ratings", "status", "booking"}  \* the last two: what is used of "trip", "bookings"

\* The trip statuses an operation of the driver is allowed from, and leads to.
From == [start |-> {"open"}, complete |-> {"started"}, cancelTrip |-> {"open", "started"}]
To == [start |-> "started", complete |-> "completed", cancelTrip |-> "cancelled"]

\* What the server answers: "ok", or why not.
Verdict(r, q) ==
    LET Ok(possible) == IF possible THEN "ok" ELSE "refused"
    IN CASE q.op \in Reads \cup {"publish"} -> "ok"
         [] q.op = "create" ->
              IF r.trip.status = "open" /\ r.trip.avail < q.n THEN "seats"
              ELSE Ok(r.trip.status = "open" /\ ~HasActive(r))
         [] q.op \in {"accept", "reject", "expire"} -> Ok(r.booking[q.b] = "pending")
         [] q.op = "cancel" -> Ok(r.booking[q.b] \in Active)
         [] q.op \in DOMAIN From -> Ok(r.trip.status \in From[q.op])
         [] q.op = "update" -> Ok(r.trip.status = "open" /\ ~HasActive(r))
         [] q.op = "rate" -> Ok(Rideable(r) /\ r.rated = 0)
         [] q.op = "insert" -> Ok(RatingFree(r))

\* The rows after a request that is answered "ok".
Applied(r, q) ==
    CASE q.op = "create" -> [r EXCEPT !.booking[q.b] = "pending", !.seats[q.b] = q.n,
                                      !.trip.avail = @ - q.n]
      [] q.op = "accept" -> [r EXCEPT !.booking[q.b] = "accepted"]
      [] q.op \in {"reject", "expire", "cancel"} -> Freed(r, q.b)
      [] q.op \in {"start", "cancelTrip"} -> [r EXCEPT !.trip.status = To[q.op]]
      [] q.op = "complete" ->
           [r EXCEPT !.trip.status = To[q.op],
                     !.booking = [b \in Bookings |-> IF @[b] = "accepted" THEN "completed" ELSE @[b]]]
      [] q.op = "update" \/ (q.op = "publish" /\ r.trip = NoTrip) -> [r EXCEPT !.trip = Published(q.n)]
      [] q.op = "insert" -> [r EXCEPT !.rated = @ + 1]
      [] OTHER -> r  \* reads, the check before a rating, a second trip (a row that is not followed)

-----------------------------------------------------------------------------
(* Calls *)

Nothing == [trip |-> NoTrip, booking |-> NoBookings, rated |-> 0, verdict |-> "ok"]
Idle == [fn |-> "none", at |-> "", b |-> 1, asks |-> {}, got |-> Nothing, here |-> TRUE]
Requests ==
    [op : Reads \cup DOMAIN From \cup {"publish", "update", "create", "accept", "reject", "expire",
                                       "cancel", "rate", "insert"},
     b : Bookings, n : 0..Capacity]

\* Awaits of routes, stops, driver profiles and of trips only their times are taken from: what they
\* bring does not depend on when they are answered, so they are awaits without a request.
Details == {"details", "routes", "stops", "times"}

InUse == {k \in Slots : calls[k].fn # "none"}
Unserved(op) == {k \in InUse : \E q \in calls[k].asks : q.op = op}
Ready(k, fns, at) == calls[k].fn \in fns /\ calls[k].asks = {} /\ calls[k].at = at
Failed(k) == calls[k].got.verdict # "ok"

\* The page's function fn is called: it shows v, sends its first requests and awaits them.
Begin(fn, at, b, asks, v) ==
    \E k \in Slots \ InUse :
        /\ \A j \in Slots \ InUse : k <= j
        /\ calls' = [calls EXCEPT ![k] = [Idle EXCEPT !.fn = fn, !.at = at, !.b = b, !.asks = asks]]
        /\ view' = v
        /\ UNCHANGED <<user, rows, page>>

\* A continuation that shows v and awaits more requests, or ends.
Await(k, at, asks, v) ==
    /\ calls' = [calls EXCEPT ![k].at = at, ![k].asks = asks, ![k].got = Nothing]
    /\ view' = v
    /\ UNCHANGED <<user, rows, page>>
Return(k, v) ==
    /\ calls' = [calls EXCEPT ![k] = Idle]
    /\ view' = v
    /\ UNCHANGED <<user, rows, page>>

\* What an answer carries: the rows as they are when the request is served.
Found(r, q) == r.trip.status = "open" /\ r.trip.avail > 0 /\ q.n = 1
Answer(g, q, r) ==
    CASE q.op = "search" -> IF Found(r, q) THEN [g EXCEPT !.trip = r.trip] ELSE g
      [] q.op = "trip" \/ q.op \in DOMAIN From -> [g EXCEPT !.trip = r.trip]
      [] q.op = "status" -> [g EXCEPT !.trip.status = r.trip.status]
      [] q.op = "bookings" -> [g EXCEPT !.booking = r.booking]
      [] q.op \in {"booking", "cancel"} -> [g EXCEPT !.booking[q.b] = r.booking[q.b]]
      [] q.op = "ratings" -> [g EXCEPT !.rated = r.rated]
      [] OTHER -> g

\* Calls once their page is left: a change that was sent goes on, a read is of no use any more.  Of a
\* change that has been answered only those matter that lead to another page.
Gone(c) ==
    IF ~c.here /\ c.asks = {} /\ (c.got.verdict # "ok" \/ c.fn \notin {"request", "update", "publish"})
    THEN Idle ELSE c
Left(c) == IF c.at = "sent" THEN Gone([c EXCEPT !.here = FALSE]) ELSE Idle

\* An await of details.
Detail(k, at, v) == Await(k, at, {}, v)
\* The same, what has been read before being kept.
Keep(k, at) ==
    /\ calls' = [calls EXCEPT ![k].at = at]
    /\ UNCHANGED <<user, rows, page, view>>

\* The server serves one request of a call.  The first refusal rejects what the call awaits.
\* A rating is checked and inserted in two steps.
Serve(k) ==
    \E q \in calls[k].asks :
        LET c == calls[k]
            verdict == Verdict(rows, q)
            more == IF q.op = "rate" THEN {Req("insert", 1, 0)} ELSE c.asks \ {q}
        IN /\ rows' = IF verdict = "ok" THEN Applied(rows, q) ELSE rows
           /\ calls' = [calls EXCEPT ![k] =
                  Gone(IF verdict = "ok" THEN [c EXCEPT !.asks = more, !.got = Answer(c.got, q, rows')]
                       ELSE [c EXCEPT !.asks = {}, !.got.verdict = verdict])]
           /\ UNCHANGED <<user, page, view>>

\* The connection drops, before the server has acted or after.  A poll that is lost is left out:
\* it is like one that has not begun, but for the message.
Lose(k) ==
    /\ calls[k].at = "sent" \/ view.loading
    /\ calls[k].asks # {} \/ calls[k].at \in Details
    /\ rows' \in {rows} \cup {Applied(rows, q) : q \in {x \in calls[k].asks : Verdict(rows, x) = "ok"}}
    /\ calls' = [calls EXCEPT ![k] = Gone([calls[k] EXCEPT !.asks = {}, !.got.verdict = "lost"])]
    /\ UNCHANGED <<user, page, view>>

\* The fields of a page as its constructor sets them.
Fresh == [loading |-> FALSE, busy |-> FALSE, told |-> "none", trip |-> NoTrip, booking |-> NoBookings,
          rated |-> 0, details |-> FALSE, seats |-> 1, focus |-> 1, ahead |-> FALSE, edit |-> FALSE]
Start(v) == [v EXCEPT !.loading = TRUE, !.told = "none"]
Fail(v) == [v EXCEPT !.told = "error"]
Loaded(v) == [v EXCEPT !.loading = FALSE]
DoneUnlessError(v) == IF v.told = "error" THEN v ELSE [v EXCEPT !.busy = FALSE]  \* mutant: no finally
Done(v) == [v EXCEPT !.busy = FALSE]

\* Page p opens with the fields v and calls load, which sends asks.
Open(p, v, at, asks, others) ==
    /\ page' = p
    /\ view' = v
    /\ LET cs == [k \in Slots |-> Left(others[k])]
           free == {k \in Slots : cs[k].fn = "none"}
       IN \E k \in free :
             /\ \A j \in free : k <= j
             /\ calls' = [cs EXCEPT ![k] = [Idle EXCEPT !.fn = "load", !.at = at, !.asks = asks]]
    /\ UNCHANGED <<user, rows>>

TripPagesTypes ==
    /\ user \in Users
    /\ rows.trip \in [status : TripStates, avail : 0..Capacity, total : 0..Capacity]
    /\ rows.booking \in [Bookings -> BookingStates]
    /\ rows.seats \in [Bookings -> 0..Capacity]
    /\ rows.rated \in Nat
    /\ \A k \in Slots : calls[k].asks \subseteq Requests /\ calls[k].got.verdict \in {"ok", "seats", "refused", "lost"}
    /\ view.trip.status \in TripStates /\ view.booking \in [Bookings -> BookingStates]
    /\ view.seats \in 0..Capacity /\ view.focus \in Bookings
=============================================================================
