---------------------------- MODULE AdminConsole ----------------------------
(***************************************************************************)
(* The pilot console and the routes, stops and drivers it manages.         *)
(*                                                                         *)
(* One console runs the functions of admin.page.ts.  They are not blocked  *)
(* while one of them is in flight, so that they overlap, and an answer may *)
(* be lost before or after the server has acted.  Another administrator    *)
(* changes the same rows meanwhile.  A rider searches or books: the server *)
(* reads the two stops one after the other and compares their places.      *)
(*                                                                         *)
(* The sections of the console only share loadAll.  A behaviour is about   *)
(* one of them, its subject; the lists of the other sections are awaited   *)
(* together with those of the subject, and may fail like them.             *)
(***************************************************************************)
EXTENDS Integers, FiniteSets

CONSTANTS
    Subjects,  \* what the console works on: "routes", "stops", "driver", "rider"
    MaxRoute,  \* bound: routes
    MaxStop,   \* bound: stops
    MaxOrder,  \* bound: the last place of a stop on its route; the console itself does without it
    MaxCall    \* bound: functions of the console in flight

ASSUME ConsoleAssumption ==
    /\ Subjects \subseteq {"routes", "stops", "driver", "rider"}
    /\ {MaxRoute, MaxStop, MaxOrder, MaxCall} \subseteq Nat \ {0}
    /\ MaxStop <= MaxOrder + 1  \* there is a place for every stop

VARIABLES
    subject,  \* what the console works on
    rows,     \* the server's rows
    session,  \* the browser has a session of an administrator
    view,     \* the fields of the console's page
    calls,    \* functions of the page in flight
    rider     \* a rider's request

vars == <<subject, rows, session, view, calls, rider>>

Routes == 1..MaxRoute
Stops == 1..MaxStop
Slots == 1..MaxCall
Orders == 0..MaxOrder
Places == IF subject = "rider" THEN Orders ELSE 0..MaxOrder - 1
None == -1  \* the place of a stop that there is not

-----------------------------------------------------------------------------
(* The server's rows *)

RouteStates == {"absent", "active", "inactive"}
DriverStates == {"absent", "pending", "approved", "rejected", "suspended"}
Flag(on) == IF on THEN "active" ELSE "inactive"
NoStop == [route |-> 0, order |-> None]
StopRow == [route : 0..MaxRoute, order : {None} \cup Orders]

TakenNever(r, route, order, s) == FALSE  \* mutant: no unique index on route and order
Taken(r, route, order, s) == \E t \in Stops \ {s} : r.stop[t].route = route /\ r.stop[t].order = order
FreeRoutes(r) == {i \in Routes : r.route[i] = "absent"}
FreeStops(r) == {s \in Stops : r.stop[s] = NoStop}
Least(S) == CHOOSE i \in S : \A j \in S : i <= j
Greatest(S) == CHOOSE i \in S : \A j \in S : j <= i

-----------------------------------------------------------------------------
(* Requests *)

Req(op, id, order, on) == [op |-> op, id |-> id, order |-> order, on |-> on]
Get(op, id) == Req(op, id, None, TRUE)
Decisions == {"approve", "reject", "suspend"}
Changes == Decisions \cup {"createRoute", "updateRoute", "createStop", "updateStop"}
Reads == {"me", "login", "routes", "pending", "active", "stops"}

Verdict(r, q) ==
    CASE q.op = "createStop" -> IF Taken(r, q.id, q.order, 0) THEN "refused" ELSE "ok"
      [] q.op = "updateStop" -> IF Taken(r, r.stop[q.id].route, q.order, q.id) THEN "refused" ELSE "ok"
      [] q.op = "approve" -> IF r.docs THEN "ok" ELSE "refused"
      [] q.op \in (Reads \cup Changes) \ {"createStop", "updateStop", "approve"} -> "ok"

Decided == [approve |-> "approved", reject |-> "rejected", suspend |-> "suspended"]
Applied(r, q) ==
    CASE q.op = "createRoute" -> [r EXCEPT !.route[Least(FreeRoutes(r))] = Flag(q.on)]
      [] q.op = "updateRoute" -> [r EXCEPT !.route[q.id] = Flag(q.on)]
      [] q.op = "createStop" -> [r EXCEPT !.stop[Least(FreeStops(r))] = [route |-> q.id, order |-> q.order]]
      [] q.op = "updateStop" -> [r EXCEPT !.stop[q.id].order = q.order]
      [] q.op \in Decisions -> [r EXCEPT !.driver = Decided[q.op]]
      [] q.op \in Reads -> r

\* The stops of a route as the page keeps them.
Listed(r, route) == [s \in Stops |-> IF r.stop[s].route = route THEN r.stop[s].order ELSE None]
Nothing ==
    [route |-> [i \in Routes |-> "absent"], stops |-> [s \in Stops |-> None], made |-> 0,
     pending |-> FALSE, active |-> FALSE, verdict |-> "ok"]
Answer(g, q, old, new) ==
    CASE q.op = "routes" -> [g EXCEPT !.route = old.route]
      [] q.op = "stops" -> [g EXCEPT !.stops = Listed(old, q.id)]
      [] q.op = "pending" -> [g EXCEPT !.pending = old.driver = "pending"]
      [] q.op = "active" -> [g EXCEPT !.active = old.driver = "approved"]
      [] q.op = "createRoute" -> [g EXCEPT !.made = Least(FreeRoutes(old) \ FreeRoutes(new))]
      [] OTHER -> g

-----------------------------------------------------------------------------
(* Functions of the page *)

Idle == [fn |-> "none", at |-> "", asks |-> {}, got |-> Nothing]
InUse == {k \in Slots : calls[k].fn # "none"}
Ready(k, at) == k \in InUse /\ calls[k].at = at /\ calls[k].asks = {}
Failed(k) == calls[k].got.verdict # "ok"
Tell(v) == [v EXCEPT !.told = "error"]

\* Requests are sent with the session the browser has by then; without one they are refused.
Sent(c, at, asks) ==
    IF session \/ at = "login" THEN [c EXCEPT !.at = at, !.asks = asks, !.got = Nothing]
    ELSE [c EXCEPT !.at = at, !.asks = {}, !.got = [Nothing EXCEPT !.verdict = "refused"]]
Begin(fn, at, asks, v) ==
    \E k \in Slots \ InUse :
        /\ \A j \in Slots \ InUse : k <= j
        /\ calls' = [calls EXCEPT ![k] = Sent([Idle EXCEPT !.fn = fn], at, asks)]
        /\ view' = v
        /\ UNCHANGED <<subject, rows, session, rider>>
Await(k, at, asks, v) ==
    /\ calls' = [calls EXCEPT ![k] = Sent(@, at, asks)]
    /\ view' = v
    /\ UNCHANGED <<subject, rows, session, rider>>
Return(k, v) ==
    /\ calls' = [calls EXCEPT ![k] = Idle]
    /\ view' = v
    /\ UNCHANGED <<subject, rows, session, rider>>

\* The fields as the constructor sets them, and as loadAll does first.
Fresh ==
    [open |-> TRUE, loading |-> FALSE, told |-> "none", user |-> FALSE, selected |-> 0, next |-> 0,
     route |-> Nothing.route, stops |-> Nothing.stops, pending |-> FALSE, active |-> FALSE]
Loads(v) == [v EXCEPT !.loading = TRUE, !.told = "none"]
LoadedIfOk(k, v) == IF Failed(k) THEN v ELSE [v EXCEPT !.loading = FALSE]  \* mutant: no finally
Loaded(k, v) == [v EXCEPT !.loading = FALSE]

-----------------------------------------------------------------------------
(* loadAll and loadStops *)

Lists == [routes |-> {"routes"}, stops |-> {}, driver |-> {"pending", "active"}, rider |-> {}]
WithStops == subject \in {"stops", "rider"}
StopsOf(route) == IF WithStops THEN {Get("stops", route)} ELSE {}

LoadAll == view.open /\ Begin("load", "me", {Get("me", 0)}, Loads(view))

\* The routes are sorted, the active ones first, then the newest.
First(route) ==
    LET there == {i \in Routes : route[i] # "absent"}
        active == {i \in there : route[i] = "active"}
    IN IF there = {} THEN 0 ELSE Greatest(IF active # {} THEN active ELSE there)

LoadFails(k) == Return(k, Loaded(k, Tell(view)))
Me(k) ==
    /\ Ready(k, "me")
    /\ IF Failed(k) THEN LoadFails(k)
       ELSE Await(k, "lists", {Get(op, 0) : op \in Lists[subject]}, [view EXCEPT !.user = TRUE])
ListsArrive(k) ==
    LET got == calls[k].got
        route == IF WithStops THEN rows.route ELSE got.route  \* routes do not change then
        selected == IF view.selected # 0 THEN view.selected ELSE First(route)
        v == [view EXCEPT !.route = route, !.pending = got.pending, !.active = got.active,
                          !.selected = selected]
    IN /\ Ready(k, "lists")
       /\ IF Failed(k) THEN LoadFails(k)
          ELSE IF selected = 0 THEN Return(k, Loaded(k, [v EXCEPT !.stops = Nothing.stops]))
          ELSE Await(k, "allStops", StopsOf(selected), v)

\* nextStopOrder looks at the stops on display.
NextStopOrderTwice(stops) == 2 + Greatest({None} \cup {stops[s] : s \in Stops})  \* mutant: one too many
NextStopOrder(stops) == 1 + Greatest({None} \cup {stops[s] : s \in Stops})
ShowStopsOnly(k) == [view EXCEPT !.stops = calls[k].got.stops]  \* mutant: the number stays
ShowStops(k) == [view EXCEPT !.stops = calls[k].got.stops, !.next = NextStopOrder(calls[k].got.stops)]
StopsArrive(k) ==
    \/ /\ Ready(k, "allStops")
       /\ IF Failed(k) THEN LoadFails(k) ELSE Return(k, Loaded(k, ShowStops(k)))
    \/ /\ Ready(k, "stops")  \* nothing catches the error of selectRoute
       /\ Return(k, IF ~Failed(k) THEN ShowStops(k) ELSE IF calls[k].fn = "select" THEN view ELSE Tell(view))

-----------------------------------------------------------------------------
(* Routes, stops and drivers *)

\* The sections are hidden while isLoading.  There are no more rows than the bounds allow.
Works(s) == subject \in s /\ view.open /\ ~view.loading
Mutate(fn, q) == Begin(fn, "sent", {q}, [view EXCEPT !.told = "none"])
Coming(op) == Cardinality({k \in InUse : \E q \in calls[k].asks : q.op = op})

CreateRoute ==
    /\ Works({"routes"}) /\ Cardinality(FreeRoutes(rows)) > Coming("createRoute")
    /\ \E on \in BOOLEAN : Mutate("createRoute", Req("createRoute", 0, None, on))

\* The whole row is sent as the page has it; toggleRoute changes the page's copy first.
SaveRoute ==
    /\ Works({"routes"})
    /\ \E i \in Routes, toggles \in BOOLEAN :
          LET on == (view.route[i] = "active") # toggles
          IN /\ view.route[i] # "absent"
             /\ Begin("saveRoute", "sent", {Req("updateRoute", i, None, on)},
                      [view EXCEPT !.told = "none", !.route[i] = Flag(on)])

SelectRoute ==
    /\ Works({"stops"})
    /\ \E i \in Routes :
          view.route[i] # "absent" /\ Begin("select", "stops", StopsOf(i), [view EXCEPT !.selected = i])

\* The place is the one that is filled in.
CreateStop ==
    /\ Works({"stops"}) /\ view.selected # 0 /\ view.next \in Places
    /\ Cardinality(FreeStops(rows)) > Coming("createStop")
    /\ Mutate("createStop", Req("createStop", view.selected, view.next, TRUE))

SaveStop ==
    /\ Works({"stops"})
    /\ \E s \in Stops, o \in Places :
          /\ view.stops[s] # None
          /\ Begin("saveStop", "sent", {Req("updateStop", s, o, TRUE)},
                   [view EXCEPT !.told = "none", !.stops[s] = o])

Decide ==
    /\ Works({"driver"})
    /\ \E op \in Decisions :
          /\ IF op = "suspend" THEN view.active ELSE view.pending
          /\ Mutate("decide", Get(op, 1))

\* mutate: a failure is shown, after a success the page loads again.
Mutated(k) ==
    LET fn == calls[k].fn
    IN /\ Ready(k, "sent")
       /\ CASE Failed(k) -> Return(k, Tell(view))
            [] ~Failed(k) /\ fn = "createStop" ->
                 Await(k, "stops", StopsOf(view.selected), [view EXCEPT !.next = NextStopOrder(view.stops) + 1])
            [] ~Failed(k) /\ fn = "saveStop" -> Await(k, "stops", StopsOf(view.selected), view)
            [] ~Failed(k) /\ fn = "createRoute" ->
                 Await(k, "me", {Get("me", 0)}, Loads([view EXCEPT !.selected = calls[k].got.made]))
            [] ~Failed(k) /\ fn \in {"saveRoute", "decide"} -> Await(k, "me", {Get("me", 0)}, Loads(view))

-----------------------------------------------------------------------------
(* Sign-in *)

DevLogin == view.open /\ ~view.user /\ Begin("login", "login", {Get("login", 0)}, Loads(view))
\* The answer stores the session; then loadAll.
LoggedIn(k) ==
    /\ Ready(k, "login")
    /\ IF Failed(k) THEN LoadFails(k)
       ELSE /\ session' = TRUE
            /\ view' = Loads([view EXCEPT !.user = TRUE])
            /\ calls' = [calls EXCEPT ![k] = [Idle EXCEPT !.fn = calls[k].fn, !.at = "me", !.asks = {Get("me", 0)}]]
            /\ UNCHANGED <<subject, rows, rider>>

\* logout leaves the page.  A change that has been sent is still served; what else was in flight is
\* of no use any more.
Logout ==
    /\ view.open /\ view.user /\ ~WithStops
    /\ session' = FALSE
    /\ view' = [Fresh EXCEPT !.open = FALSE]
    /\ calls' = [k \in Slots |-> IF calls[k].at = "sent" /\ calls[k].asks # {}
                                  THEN [calls[k] EXCEPT !.fn = "left"] ELSE Idle]
    /\ UNCHANGED <<subject, rows, rider>>
\* The page is opened again, by whoever has the address: ngOnInit.
Enter == ~view.open /\ subject # "rider" /\ Begin("load", "me", {Get("me", 0)}, Loads(Fresh))

-----------------------------------------------------------------------------
(* The rider's request *)

Resting == [at |-> "none", from |-> 1, to |-> 1, order |-> 0, forward |-> FALSE, moves |-> 0]
ForwardAny(a, b) == a # b  \* mutant: any two different places
Forward(a, b) == a < b
Ahead(r, from, to) == r.stop[from].order < r.stop[to].order

\* What is remembered of a request for the properties: whether the stops have been in order at some
\* moment since the first was read, and how often they have moved.
Watched(w, r) ==
    IF w.at \notin {"search", "book"} \/ (r.stop[w.from] = rows.stop[w.from] /\ r.stop[w.to] = rows.stop[w.to])
    THEN w
    ELSE [w EXCEPT !.forward = @ \/ Ahead(r, w.from, w.to), !.moves = IF @ = 2 THEN 2 ELSE @ + 1]
Write(r) == rows' = r /\ rider' = Watched(rider, r)

\* searchTrips and createBooking: the stop where the ride starts is read.  The search form wants two
\* different stops of a route.
ReadPickup ==
    /\ subject = "rider" /\ rider.at = "none"
    /\ \E op \in {"search", "book"}, from, to \in {s \in Stops : rows.stop[s] # NoStop} :
          /\ from # to /\ rows.stop[from].route = rows.stop[to].route
          /\ rider' = [at |-> op, from |-> from, to |-> to, order |-> rows.stop[from].order,
                       forward |-> Ahead(rows, from, to), moves |-> 0]
    /\ UNCHANGED <<subject, rows, session, view, calls>>
\* The other stop is read; the trip is found, or booked, or not.
ReadDropoff ==
    /\ rider.at \in {"search", "book"}
    /\ rider' = [rider EXCEPT !.at = IF Forward(rider.order, rows.stop[rider.to].order)
                                     THEN (IF @ = "book" THEN "booked" ELSE "found") ELSE "refused"]
    /\ UNCHANGED <<subject, rows, session, view, calls>>
Answered ==
    /\ rider.at \in {"booked", "found", "refused"}
    /\ rider' = Resting
    /\ UNCHANGED <<subject, rows, session, view, calls>>

-----------------------------------------------------------------------------
(* The server, the connection, other people *)

\* The requests of a call are served one at a time.  The first refusal rejects what it awaits.
Serve(k) ==
    \E q \in calls[k].asks :
        LET verdict == Verdict(rows, q)
            c == IF verdict = "ok"
                 THEN [calls[k] EXCEPT !.asks = @ \ {q}, !.got = Answer(@, q, rows, Applied(rows, q))]
                 ELSE [calls[k] EXCEPT !.asks = {}, !.got.verdict = verdict]
        IN /\ Write(IF verdict = "ok" THEN Applied(rows, q) ELSE rows)
           /\ calls' = [calls EXCEPT ![k] = IF @.fn = "left" THEN Idle ELSE c]
           /\ UNCHANGED <<subject, session, view>>

\* The connection drops before the server has acted or after.
Lose(k) ==
    /\ calls[k].at # "" /\ ~Failed(k)
    /\ \E r \in {rows} \cup {Applied(rows, q) : q \in {x \in calls[k].asks : Verdict(rows, x) = "ok"}} : Write(r)
    /\ calls' = [calls EXCEPT ![k] = IF @.fn = "left" THEN Idle
                                     ELSE [@ EXCEPT !.asks = {}, !.got = [Nothing EXCEPT !.verdict = "lost"]]]
    /\ UNCHANGED <<subject, session, view>>

\* Another administrator, one change at a time.
OtherRequests ==
    CASE subject = "routes" ->
           {Req("updateRoute", i, None, on) : i \in {j \in Routes : rows.route[j] # "absent"}, on \in BOOLEAN}
      [] subject = "driver" -> {Get(op, 1) : op \in Decisions}
      [] WithStops -> {Req("updateStop", s, o, TRUE) : s \in {t \in Stops : rows.stop[t] # NoStop}, o \in Places}
OtherAdmin ==
    /\ \E q \in OtherRequests : Verdict(rows, q) = "ok" /\ Write(Applied(rows, q))
    /\ UNCHANGED <<subject, session, view, calls>>

\* A driver who is not approved registers again, which removes the documents, or uploads some; either
\* puts the profile up for review.
DriverActs ==
    /\ subject = "driver" /\ rows.driver # "approved"
    /\ \E docs \in BOOLEAN : rows' = [rows EXCEPT !.driver = "pending", !.docs = docs]
    /\ UNCHANGED <<subject, session, view, calls, rider>>

-----------------------------------------------------------------------------
InitialRows(s) ==
    [route |-> [i \in Routes |-> IF i = 1 THEN "active" ELSE "absent"],
     stop |-> [t \in Stops |-> IF s = "rider" THEN [route |-> 1, order |-> t - 1] ELSE NoStop],
     driver |-> IF s = "driver" THEN "pending" ELSE "absent",
     docs |-> FALSE]

Init ==
    /\ subject \in Subjects
    /\ rows = InitialRows(subject)
    /\ session \in IF WithStops THEN {TRUE} ELSE BOOLEAN
    /\ view = [Fresh EXCEPT !.open = FALSE]
    /\ calls = [k \in Slots |-> Idle]
    /\ rider = Resting

Taps ==
    LoadAll \/ CreateRoute \/ SaveRoute \/ SelectRoute \/ CreateStop \/ SaveStop \/ Decide
      \/ DevLogin \/ Logout \/ Enter
Continue(k) == Me(k) \/ ListsArrive(k) \/ StopsArrive(k) \/ Mutated(k) \/ LoggedIn(k)
Next ==
    \/ Taps \/ OtherAdmin \/ DriverActs \/ ReadPickup \/ ReadDropoff \/ Answered
    \/ \E k \in InUse : Serve(k) \/ Lose(k) \/ Continue(k)

Spec == Init /\ [][Next]_vars
\* Requests are answered or fail, and answers are handled.
FairSpec == Spec /\ \A k \in Slots : WF_vars(Serve(k)) /\ WF_vars(Continue(k))

-----------------------------------------------------------------------------
\* The shape of the rows, of the page and of what is in flight; the number that is filled in for a
\* new stop is at most one past the first free one at the end of the route.
ConsoleTypeOK ==
    /\ subject \in Subjects /\ session \in BOOLEAN
    /\ rows.route \in [Routes -> RouteStates] /\ rows.stop \in [Stops -> StopRow]
    /\ rows.driver \in DriverStates /\ rows.docs \in BOOLEAN
    /\ view.route \in [Routes -> RouteStates] /\ view.stops \in [Stops -> {None} \cup Orders]
    /\ view.selected \in 0..MaxRoute /\ view.next \in 0..MaxOrder + 1
    /\ \A k \in Slots : \A q \in calls[k].asks : q.op \in Reads \cup Changes

\* Whatever two administrators save, submit twice or send again after a lost answer, no two stops of
\* a route have the same place.
OrdersUnique ==
    \A s, t \in Stops :
        s # t /\ rows.stop[s] # NoStop /\ rows.stop[s].route = rows.stop[t].route
            => rows.stop[s].order # rows.stop[t].order

\* When the page shows the stops of a route as they are, without an error and with nothing in
\* flight, the number it fills in for a new stop is free: no function that ends later than another
\* leaves a number behind that was counted from other stops.
NextFree ==
    view.open /\ InUse = {} /\ view.told = "none" /\ view.stops = Listed(rows, view.selected)
        => \A s \in Stops : view.stops[s] # None => view.stops[s] < view.next

\* A ride that is found or booked goes forward on its route, as the route was at some moment of the
\* request, although its stops are read one after the other while administrators move them, unless
\* they have moved at least twice between the two reads.
BookedForward == rider.at \in {"booked", "found"} => rider.forward \/ rider.moves = 2

\* The console does not stay hidden behind its spinner: whichever of its functions fail, are refused
\* or overlap, loading ends.
LoadingEnds == view.loading ~> ~view.loading
=============================================================================
