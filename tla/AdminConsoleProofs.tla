------------------------- MODULE AdminConsoleProofs -------------------------
(***************************************************************************)
(* Stops keep distinct places on their route and rides go forward, for any *)
(* number of routes, stops, places and overlapping functions.              *)
(***************************************************************************)
EXTENDS AdminConsole, FiniteSetTheorems, TLAPS

Ops == Reads \cup Changes
Senders == {"createRoute", "saveRoute", "createStop", "saveStop", "decide"}

\* The tables, as far as the steps that change stops need their shape.
RowsFormed(r) ==
    /\ r = [route |-> r.route, stop |-> r.stop, driver |-> r.driver, docs |-> r.docs]
    /\ r.stop = [s \in Stops |-> r.stop[s]]
    /\ \A s \in Stops : r.stop[s] = [route |-> r.stop[s].route, order |-> r.stop[s].order]

\* A function in flight: its requests are of the kinds the server knows, and a change is awaited by
\* a function that sends one, or by nobody since the logout, until it is served.
CallFormed(c) ==
    /\ c = [fn |-> c.fn, at |-> c.at, asks |-> c.asks, got |-> c.got]
    /\ \A q \in c.asks : q.op \in Ops
    /\ c.at = "sent" => c.fn \in Senders \/ (c.fn = "left" /\ c.asks # {})
CallsFormed ==
    /\ calls = [k \in Slots |-> calls[k]]
    /\ \A k \in Slots : CallFormed(calls[k])

Unique(r) ==
    \A s, t \in Stops :
        s # t /\ r.stop[s] # NoStop /\ r.stop[s].route = r.stop[t].route
            => r.stop[s].order # r.stop[t].order

\* What the first read of a rider's request is worth: while the two stops stay where they are it is
\* the place of the first one; after one of them moved, an order that still looks right was right
\* before the move or is right after it.
RiderInv ==
    /\ rider = [at |-> rider.at, from |-> rider.from, to |-> rider.to, order |-> rider.order,
                forward |-> rider.forward, moves |-> rider.moves]
    /\ rider.at \in {"search", "book"} =>
          /\ rider.from \in Stops /\ rider.to \in Stops /\ rider.from # rider.to
          /\ rider.moves \in 0..2
          /\ rider.moves = 0 => /\ rider.order = rows.stop[rider.from].order
                                /\ Ahead(rows, rider.from, rider.to) => rider.forward
          /\ rider.moves = 1 /\ Forward(rider.order, rows.stop[rider.to].order) => rider.forward

ConsoleInv ==
    /\ subject \in Subjects
    /\ RowsFormed(rows)
    /\ CallsFormed
    /\ RiderInv
    /\ OrdersUnique
    /\ BookedForward

-----------------------------------------------------------------------------
(* What a served request does to the tables *)

\* Changing the place of a stop, if there is such a stop, changes that column of that row alone.
LEMMA MovedStop ==
  ASSUME NEW x, NEW route, NEW old, x = [route |-> route, order |-> old], NEW order
  PROVE  [x EXCEPT !.order = order] = [route |-> route, order |-> order]
  OBVIOUS

\* The table after the place of a stop has changed.
Moved(r, i, order) == [r EXCEPT !.stop[i].order = order]
\* The table afterwards, written out.
LEMMA MovedRow ==
  ASSUME NEW r, RowsFormed(r), NEW i, NEW order
  PROVE  Moved(r, i, order)
           = [route |-> r.route,
              stop |-> [s \in Stops |-> IF s = i THEN [route |-> r.stop[s].route, order |-> order]
                                        ELSE r.stop[s]],
              driver |-> r.driver, docs |-> r.docs]
<1>1. PICK route, f, driver, docs :
        /\ r = [route |-> route, stop |-> f, driver |-> driver, docs |-> docs]
        /\ f = [s \in Stops |-> f[s]]
        /\ \A s \in Stops : f[s] = [route |-> f[s].route, order |-> f[s].order]
  BY DEF RowsFormed
<1> DEFINE moved == [s \in Stops |-> IF s = i THEN [route |-> f[s].route, order |-> order] ELSE f[s]]
<1>2. r.route = route /\ r.stop = f /\ r.driver = driver /\ r.docs = docs
  BY <1>1
<1>3. Moved(r, i, order) = [r EXCEPT !.stop = [f EXCEPT ![i] = [f[i] EXCEPT !.order = order]]]
  BY <1>1 DEF Moved
<1>4. [f EXCEPT ![i] = [f[i] EXCEPT !.order = order]]
        = [s \in Stops |-> IF s = i THEN [f[s] EXCEPT !.order = order] ELSE f[s]]
  BY <1>1
<1>5. \A s \in Stops : [f[s] EXCEPT !.order = order] = [route |-> f[s].route, order |-> order]
  BY <1>1, MovedStop
<1>6. [f EXCEPT ![i] = [f[i] EXCEPT !.order = order]] = moved
  BY <1>4, <1>5
<1>7. Moved(r, i, order) = [r EXCEPT !.stop = moved]
  BY <1>3, <1>6
<1> HIDE DEF moved
<1>8. [r EXCEPT !.stop = moved] = [route |-> route, stop |-> moved, driver |-> driver, docs |-> docs]
  BY <1>1
<1> QED BY <1>2, <1>7, <1>8 DEF moved

\* A request the server accepts keeps the shape of the tables and changes one stop at most.
LEMMA AppliedOne ==
  ASSUME NEW r, RowsFormed(r), NEW q, q.op \in Ops
  PROVE  /\ RowsFormed(Applied(r, q))
         /\ \E c : \A s \in Stops : s # c => Applied(r, q).stop[s] = r.stop[s]
<1>1. CASE q.op = "createStop"
  <2> DEFINE c == Least(FreeStops(r))
             row == [route |-> q.id, order |-> q.order]
  <2>1. Applied(r, q) = [r EXCEPT !.stop[c] = row]
    BY <1>1 DEF Applied, Decisions, Reads
  <2> HIDE DEF c
  <2> QED BY <2>1 DEF RowsFormed
<1>2. CASE q.op = "updateStop"
  <2>1. Applied(r, q) = Moved(r, q.id, q.order)
    BY <1>2 DEF Applied, Moved, Decisions, Reads
  <2> DEFINE moved == [s \in Stops |-> IF s = q.id THEN [route |-> r.stop[s].route, order |-> q.order]
                                      ELSE r.stop[s]]
  <2>2. Applied(r, q) = [route |-> r.route, stop |-> moved, driver |-> r.driver, docs |-> r.docs]
    BY <2>1, MovedRow
  <2>3. \A s \in Stops : s # q.id => Applied(r, q).stop[s] = r.stop[s]
    BY <2>2
  <2>4. RowsFormed(Applied(r, q))
    BY <2>2 DEF RowsFormed
  <2> QED BY <2>3, <2>4
<1>3. CASE q.op \notin {"createStop", "updateStop"}
  <2>1. /\ RowsFormed(Applied(r, q))
        /\ Applied(r, q).stop = r.stop
    <3>1. CASE q.op = "createRoute"
      <4> DEFINE i == Least(FreeRoutes(r))
      <4>1. Applied(r, q) = [r EXCEPT !.route[i] = Flag(q.on)]
        BY <3>1 DEF Applied, Decisions, Reads
      <4> HIDE DEF i
      <4> QED BY <4>1 DEF RowsFormed
    <3>2. CASE q.op = "updateRoute"
      <4>1. Applied(r, q) = [r EXCEPT !.route[q.id] = Flag(q.on)]
        BY <3>2 DEF Applied, Decisions, Reads
      <4> QED BY <4>1 DEF RowsFormed
    <3>3. CASE q.op \in Decisions
      <4>1. Applied(r, q) = [r EXCEPT !.driver = Decided[q.op]]
        BY <3>3 DEF Applied, Decisions, Reads
      <4> QED BY <4>1 DEF RowsFormed
    <3>4. CASE q.op \in Reads
      <4>1. Applied(r, q) = r
        BY <3>4 DEF Applied, Reads, Decisions
      <4> QED BY <4>1
    <3> QED BY <1>3, <3>1, <3>2, <3>3, <3>4 DEF Ops, Changes
  <2> QED BY <2>1
<1> QED BY <1>1, <1>2, <1>3

\* The unique index on route and order: what passes it leaves the places distinct.
LEMMA AppliedUnique ==
  ASSUME NEW r, RowsFormed(r), Unique(r), NEW q, q.op \in Ops, Verdict(r, q) = "ok"
  PROVE  Unique(Applied(r, q))
<1>1. CASE q.op = "createStop"
  <2> DEFINE c == Least(FreeStops(r))
             row == [route |-> q.id, order |-> q.order]
  <2>1. Applied(r, q) = [r EXCEPT !.stop[c] = row]
    BY <1>1 DEF Applied, Decisions, Reads
  <2>2. ~Taken(r, q.id, q.order, 0)
    BY <1>1 DEF Verdict
  <2>3. \A s \in Stops : r.stop[s].route = q.id => r.stop[s].order # q.order
    BY <2>2, ConsoleAssumption DEF Taken, Stops
  <2> HIDE DEF c
  <2>4. \A s \in Stops : Applied(r, q).stop[s] = IF s = c THEN row ELSE r.stop[s]
    BY <2>1 DEF RowsFormed
  <2> QED BY <2>3, <2>4 DEF Unique
<1>2. CASE q.op = "updateStop"
  <2>1. Applied(r, q) = [r EXCEPT !.stop[q.id].order = q.order]
    BY <1>2 DEF Applied, Decisions, Reads
  <2>2. ~Taken(r, r.stop[q.id].route, q.order, q.id)
    BY <1>2 DEF Verdict
  <2>3. \A s \in Stops : s # q.id => Applied(r, q).stop[s] = r.stop[s]
    BY <2>1 DEF RowsFormed
  <2>4. q.id \in Stops => /\ Applied(r, q).stop[q.id].route = r.stop[q.id].route
                          /\ Applied(r, q).stop[q.id].order = q.order
    BY <2>1 DEF RowsFormed
  <2>5. ASSUME NEW s \in Stops, NEW t \in Stops, s # t,
               Applied(r, q).stop[s] # NoStop,
               Applied(r, q).stop[s].route = Applied(r, q).stop[t].route
        PROVE  Applied(r, q).stop[s].order # Applied(r, q).stop[t].order
    <3>1. CASE s = q.id \/ t = q.id
      BY <2>2, <2>3, <2>4, <2>5, <3>1 DEF Taken
    <3>2. CASE s # q.id /\ t # q.id
      BY <2>3, <2>5, <3>2 DEF Unique
    <3> QED BY <3>1, <3>2
  <2> QED BY <2>5 DEF Unique
<1>3. CASE q.op \notin {"createStop", "updateStop"}
  <2>1. Applied(r, q).stop = r.stop
    <3>1. CASE q.op \in {"createRoute", "updateRoute"}
      BY <3>1 DEF Applied, Decisions, Reads, RowsFormed
    <3>2. CASE q.op \in Decisions
      BY <3>2 DEF Applied, Decisions, Reads, RowsFormed
    <3>3. CASE q.op \in Reads
      BY <3>3 DEF Applied, Reads, Decisions
    <3> QED BY <1>3, <3>1, <3>2, <3>3 DEF Ops, Changes
  <2> QED BY <2>1 DEF Unique
<1> QED BY <1>1, <1>2, <1>3

\* A write that changes one stop at most keeps what is known of the rider's request.
LEMMA WriteKeepsRider ==
  ASSUME RiderInv, BookedForward, NEW r, NEW c,
         \A s \in Stops : s # c => r.stop[s] = rows.stop[s],
         Write(r)
  PROVE  RiderInv' /\ BookedForward'
<1>1. rows' = r /\ rider' = Watched(rider, r)
  BY DEF Write
<1>2. CASE rider.at \notin {"search", "book"}
  BY <1>1, <1>2 DEF RiderInv, BookedForward, Watched
<1>3. CASE /\ rider.at \in {"search", "book"}
           /\ r.stop[rider.from] = rows.stop[rider.from]
           /\ r.stop[rider.to] = rows.stop[rider.to]
  BY <1>1, <1>3 DEF RiderInv, BookedForward, Watched, Ahead
<1>4. CASE /\ rider.at \in {"search", "book"}
           /\ ~(/\ r.stop[rider.from] = rows.stop[rider.from]
                /\ r.stop[rider.to] = rows.stop[rider.to])
  <2>1. rider' = [rider EXCEPT !.forward = @ \/ Ahead(r, rider.from, rider.to),
                               !.moves = IF @ = 2 THEN 2 ELSE @ + 1]
    BY <1>1, <1>4 DEF Watched
  <2>2. /\ rider'.at = rider.at /\ rider'.from = rider.from /\ rider'.to = rider.to
        /\ rider'.order = rider.order
        /\ rider'.forward = (rider.forward \/ Ahead(r, rider.from, rider.to))
        /\ rider'.moves = IF rider.moves = 2 THEN 2 ELSE rider.moves + 1
        /\ rider' = [at |-> rider'.at, from |-> rider'.from, to |-> rider'.to,
                     order |-> rider'.order, forward |-> rider'.forward, moves |-> rider'.moves]
    BY <2>1 DEF RiderInv
  <2>3. rider'.moves \in 1..2 /\ (rider'.moves = 1 => rider.moves = 0)
    BY <1>4, <2>2 DEF RiderInv
  <2>4. ASSUME rider'.moves = 1, Forward(rider'.order, rows'.stop[rider'.to].order)
        PROVE  rider'.forward
    <3>1. /\ rider.moves = 0 /\ rider.from \in Stops /\ rider.to \in Stops
          /\ rider.from # rider.to
          /\ rider.order = rows.stop[rider.from].order
          /\ Ahead(rows, rider.from, rider.to) => rider.forward
      BY <1>4, <2>3, <2>4 DEF RiderInv
    <3>2. CASE r.stop[rider.from] = rows.stop[rider.from]
      BY <1>1, <2>2, <2>4, <3>1, <3>2 DEF Forward, Ahead
    <3>3. CASE r.stop[rider.to] = rows.stop[rider.to]
      BY <1>1, <2>2, <2>4, <3>1, <3>3 DEF Forward, Ahead
    <3> QED BY <3>1, <3>2, <3>3
  <2> QED BY <1>4, <2>2, <2>3, <2>4 DEF RiderInv, BookedForward
<1> QED BY <1>2, <1>3, <1>4

\* Every write of the server or of another administrator.
LEMMA WriteKeeps ==
  ASSUME ConsoleInv, NEW r,
         \/ r = rows
         \/ \E q : q.op \in Ops /\ Verdict(rows, q) = "ok" /\ r = Applied(rows, q),
         Write(r)
  PROVE  RowsFormed(rows)' /\ RiderInv' /\ OrdersUnique' /\ BookedForward'
<1>1. rows' = r
  BY DEF Write
<1>2. RowsFormed(rows) /\ Unique(rows) /\ RiderInv /\ BookedForward
  BY DEF ConsoleInv, OrdersUnique, Unique
<1>3. RowsFormed(r) /\ Unique(r)
  BY <1>2, AppliedOne, AppliedUnique
<1>4. \E c : \A s \in Stops : s # c => r.stop[s] = rows.stop[s]
  <2>1. CASE r = rows
    BY <2>1
  <2>2. CASE r # rows
    <3>1. PICK q : q.op \in Ops /\ Verdict(rows, q) = "ok" /\ r = Applied(rows, q)
      BY <2>2
    <3>2. \E c : \A s \in Stops : s # c => Applied(rows, q).stop[s] = rows.stop[s]
      BY <1>2, <3>1, AppliedOne
    <3> QED BY <3>1, <3>2
  <2> QED BY <2>1, <2>2
<1>5. RiderInv' /\ BookedForward'
  BY <1>2, <1>4, WriteKeepsRider
<1> QED BY <1>1, <1>3, <1>5 DEF RowsFormed, OrdersUnique, Unique

-----------------------------------------------------------------------------
(* Functions of the page *)

\* Functions that only move on leave the tables and the rider alone.
LEMMA CallsAlone ==
  ASSUME ConsoleInv, CallsFormed', UNCHANGED <<subject, rows, rider>>
  PROVE  ConsoleInv'
  BY DEF ConsoleInv, RiderInv, OrdersUnique, BookedForward

\* One function changes, to something well formed.
LEMMA OneCall ==
  ASSUME CallsFormed, NEW k \in Slots, NEW c, CallFormed(c), calls' = [calls EXCEPT ![k] = c]
  PROVE  CallsFormed'
<1>1. \A j \in Slots : calls'[j] = IF j = k THEN c ELSE calls[j]
  BY DEF CallsFormed
<1>2. calls' = [j \in Slots |-> calls'[j]]
  BY DEF CallsFormed
<1>3. \A j \in Slots : CallFormed(calls'[j])
  BY <1>1 DEF CallsFormed
<1> QED BY <1>2, <1>3 DEF CallsFormed

\* Nothing in flight is well formed.
LEMMA IdleFormed == CallFormed(Idle)
  BY DEF CallFormed, Idle

\* What a function in flight becomes when it is answered, and when it goes on.
Settled(c, asks, got) == [c EXCEPT !.asks = asks, !.got = got]
\* A function that is answered, written out.
LEMMA SettledRecord ==
  ASSUME NEW fn, NEW at, NEW asks, NEW got,
         NEW c, c = [fn |-> fn, at |-> at, asks |-> asks, got |-> got],
         NEW left, NEW new, NEW d, d = Settled(c, left, new)
  PROVE  d = [fn |-> fn, at |-> at, asks |-> left, got |-> new]
<1>1. DOMAIN d = {"fn", "at", "asks", "got"}
  BY DEF Settled
<1>2. d.fn = fn /\ d.at = at /\ d.asks = left /\ d.got = new
  BY DEF Settled
<1>3. d = [x \in {"fn", "at", "asks", "got"} |-> d[x]]
  BY <1>1 DEF Settled
<1> QED BY <1>2, <1>3

Resumed(c, fn, at, asks) == [c EXCEPT !.fn = fn, !.at = at, !.asks = asks]
\* A function that goes on, written out.
LEMMA ResumedRecord ==
  ASSUME NEW fn, NEW at, NEW asks, NEW got,
         NEW c, c = [fn |-> fn, at |-> at, asks |-> asks, got |-> got],
         NEW f, NEW a, NEW s, NEW d, d = Resumed(c, f, a, s)
  PROVE  d = [fn |-> f, at |-> a, asks |-> s, got |-> got]
<1>1. DOMAIN d = {"fn", "at", "asks", "got"}
  BY DEF Resumed
<1>2. d.fn = f /\ d.at = a /\ d.asks = s /\ d.got = got
  BY DEF Resumed
<1>3. d = [x \in {"fn", "at", "asks", "got"} |-> d[x]]
  BY <1>1 DEF Resumed
<1> QED BY <1>2, <1>3

\* What is sent asks for the given requests, or, without a session, for nothing.
LEMMA SentFormed ==
  ASSUME NEW c, c = [fn |-> c.fn, at |-> c.at, asks |-> c.asks, got |-> c.got],
         NEW at, NEW asks, \A q \in asks : q.op \in Ops, at = "sent" => c.fn \in Senders
  PROVE  CallFormed(Sent(c, at, asks))
<1>1. PICK fn, was, were, got : c = [fn |-> fn, at |-> was, asks |-> were, got |-> got]
  OBVIOUS
<1>2. c.fn = fn
  BY <1>1
<1>3. CASE session \/ at = "login"
  <2>1. Sent(c, at, asks) = [fn |-> fn, at |-> at, asks |-> asks, got |-> Nothing]
    BY <1>1, <1>3 DEF Sent
  <2> QED BY <1>2, <2>1 DEF CallFormed
<1>4. CASE ~(session \/ at = "login")
  <2>1. Sent(c, at, asks) = [fn |-> fn, at |-> at, asks |-> {},
                                 got |-> [Nothing EXCEPT !.verdict = "refused"]]
    BY <1>1, <1>4 DEF Sent
  <2> QED BY <1>2, <2>1 DEF CallFormed
<1> QED BY <1>3, <1>4

\* A function begins with its first requests.
LEMMA BeginKeeps ==
  ASSUME ConsoleInv, NEW fn, NEW at, NEW asks, NEW v,
         \A q \in asks : q.op \in Ops, at = "sent" => fn \in Senders,
         Begin(fn, at, asks, v)
  PROVE  ConsoleInv'
<1>1. PICK k \in Slots : calls' = [calls EXCEPT ![k] = Sent([Idle EXCEPT !.fn = fn], at, asks)]
  BY DEF Begin
<1>2. PICK none, blank, got : Idle = [fn |-> none, at |-> blank, asks |-> {}, got |-> got]
  BY DEF Idle
<1>3. [Idle EXCEPT !.fn = fn] = [fn |-> fn, at |-> blank, asks |-> {}, got |-> got]
  BY <1>2
<1>4. CallFormed(Sent([Idle EXCEPT !.fn = fn], at, asks))
  BY <1>3, SentFormed
<1>5. CallsFormed'
  BY <1>1, <1>4, OneCall DEF ConsoleInv
<1> QED BY <1>5, CallsAlone DEF Begin

\* A function goes on to its next requests, which change nothing.
LEMMA AwaitKeeps ==
  ASSUME ConsoleInv, NEW k \in Slots, NEW at, NEW asks, NEW v,
         \A q \in asks : q.op \in Ops, at # "sent",
         Await(k, at, asks, v)
  PROVE  ConsoleInv'
<1>1. CallFormed(Sent(calls[k], at, asks))
  BY SentFormed DEF ConsoleInv, CallsFormed, CallFormed
<1>2. calls' = [calls EXCEPT ![k] = Sent(calls[k], at, asks)]
  BY DEF Await
<1>3. CallsFormed'
  BY <1>1, <1>2, OneCall DEF ConsoleInv
<1> QED BY <1>3, CallsAlone DEF Await

\* A function returns.
LEMMA ReturnKeeps ==
  ASSUME ConsoleInv, NEW k \in Slots, NEW v, Return(k, v)
  PROVE  ConsoleInv'
<1>1. CallsFormed'
  BY IdleFormed, OneCall DEF ConsoleInv, Return
<1> QED BY <1>1, CallsAlone DEF Return

\* The stops of a route are read.
LEMMA StopsAsked == \A route : \A q \in StopsOf(route) : q.op \in Ops
  BY DEF StopsOf, Get, Req, Ops, Reads

\* Buttons begin functions.
LEMMA TapsKeep == ConsoleInv /\ Taps => ConsoleInv'
<1> SUFFICES ASSUME ConsoleInv, Taps PROVE ConsoleInv'
  OBVIOUS
<1>1. CASE LoadAll
  BY <1>1, BeginKeeps DEF LoadAll, Get, Req, Ops, Reads
<1>2. CASE CreateRoute
  <2>1. PICK on \in BOOLEAN : Begin("createRoute", "sent", {Req("createRoute", 0, None, on)},
                                 [view EXCEPT !.told = "none"])
    BY <1>2 DEF CreateRoute, Mutate
  <2> QED BY <2>1, BeginKeeps DEF Req, Ops, Changes, Senders
<1>3. CASE SaveRoute
  <2>1. PICK i, on : i \in Routes /\ Begin("saveRoute", "sent", {Req("updateRoute", i, None, on)},
                                      [view EXCEPT !.told = "none", !.route[i] = Flag(on)])
    BY <1>3 DEF SaveRoute
  <2> QED BY <2>1, BeginKeeps DEF Req, Ops, Changes, Senders
<1>4. CASE SelectRoute
  <2>1. PICK i \in Routes : Begin("select", "stops", StopsOf(i), [view EXCEPT !.selected = i])
    BY <1>4 DEF SelectRoute
  <2> QED BY <2>1, BeginKeeps, StopsAsked
<1>5. CASE CreateStop
  BY <1>5, BeginKeeps DEF CreateStop, Mutate, Req, Ops, Changes, Senders
<1>6. CASE SaveStop
  <2>1. PICK s \in Stops, o \in Places : Begin("saveStop", "sent", {Req("updateStop", s, o, TRUE)},
                                               [view EXCEPT !.told = "none", !.stops[s] = o])
    BY <1>6 DEF SaveStop
  <2> QED BY <2>1, BeginKeeps DEF Req, Ops, Changes, Senders
<1>7. CASE Decide
  <2>1. PICK op \in Decisions : Begin("decide", "sent", {Get(op, 1)}, [view EXCEPT !.told = "none"])
    BY <1>7 DEF Decide, Mutate
  <2> QED BY <2>1, BeginKeeps DEF Get, Req, Ops, Changes, Senders
<1>8. CASE DevLogin
  BY <1>8, BeginKeeps DEF DevLogin, Get, Req, Ops, Reads
<1>9. CASE Enter
  BY <1>9, BeginKeeps DEF Enter, Get, Req, Ops, Reads
<1>10. CASE Logout
  <2>1. \A k \in Slots : calls'[k] = IF calls[k].at = "sent" /\ calls[k].asks # {}
                                     THEN [calls[k] EXCEPT !.fn = "left"] ELSE Idle
    BY <1>10 DEF Logout
  <2>2. ASSUME NEW k \in Slots PROVE CallFormed(calls'[k])
    <3>1. CASE calls[k].at = "sent" /\ calls[k].asks # {}
      <4>1. PICK fn, at, asks, got : calls[k] = [fn |-> fn, at |-> at, asks |-> asks, got |-> got]
        BY DEF ConsoleInv, CallsFormed, CallFormed
      <4>2. calls'[k] = [fn |-> "left", at |-> at, asks |-> asks, got |-> got]
        BY <2>1, <3>1, <4>1
      <4>3. asks # {} /\ \A q \in asks : q.op \in Ops
        BY <3>1, <4>1 DEF ConsoleInv, CallsFormed, CallFormed
      <4> QED BY <4>2, <4>3 DEF CallFormed
    <3>2. CASE ~(calls[k].at = "sent" /\ calls[k].asks # {})
      BY <2>1, <3>2, IdleFormed
    <3> QED BY <3>1, <3>2
  <2>3. CallsFormed'
    BY <1>10, <2>2 DEF Logout, CallsFormed
  <2> QED BY <1>10, <2>3, CallsAlone DEF Logout
<1> QED BY <1>1, <1>2, <1>3, <1>4, <1>5, <1>6, <1>7, <1>8, <1>9, <1>10 DEF Taps

\* A function goes on: it awaits the next answers or returns.
LEMMA ContinueKeeps ==
  ASSUME ConsoleInv, NEW k \in Slots, Continue(k)
  PROVE  ConsoleInv'
<1>1. CASE Me(k)
  <2>1. \A q \in {Get(op, 0) : op \in Lists[subject]} : q.op \in Ops
    BY ConsoleAssumption DEF ConsoleInv, Lists, Get, Req, Ops, Reads
  <2> QED BY <1>1, <2>1, AwaitKeeps, ReturnKeeps DEF Me, LoadFails
<1>2. CASE ListsArrive(k)
  BY <1>2, StopsAsked, AwaitKeeps, ReturnKeeps DEF ListsArrive, LoadFails
<1>3. CASE StopsArrive(k)
  BY <1>3, ReturnKeeps DEF StopsArrive, LoadFails
<1>4. CASE Mutated(k)
  <2>1. calls[k].fn \in Senders
    BY <1>4 DEF Mutated, Ready, ConsoleInv, CallsFormed, CallFormed
  <2>2. \/ \E v : Return(k, v)
        \/ \E v : Await(k, "stops", StopsOf(view.selected), v)
        \/ \E v : Await(k, "me", {Get("me", 0)}, v)
    BY <1>4, <2>1 DEF Mutated, Senders
  <2>3. \A q \in {Get("me", 0)} : q.op \in Ops
    BY DEF Get, Req, Ops, Reads
  <2> QED BY <2>2, <2>3, StopsAsked, AwaitKeeps, ReturnKeeps
<1>5. CASE LoggedIn(k)
  <2>1. CASE Failed(k)
    BY <1>5, <2>1, ReturnKeeps DEF LoggedIn, LoadFails
  <2>2. CASE ~Failed(k)
    <3> DEFINE c == [Idle EXCEPT !.fn = calls[k].fn, !.at = "me", !.asks = {Get("me", 0)}]
    <3>1. CallFormed(c)
      <4>1. PICK none, blank, got : Idle = [fn |-> none, at |-> blank, asks |-> {}, got |-> got]
        BY DEF Idle
      <4> DEFINE fn == calls[k].fn
                 asks == {Get("me", 0)}
      <4>2. c = Resumed(Idle, fn, "me", asks)
        BY DEF Resumed
      <4>3. \A q \in asks : q.op \in Ops
        BY DEF Get, Req, Ops, Reads
      <4> HIDE DEF c, fn, asks
      <4>4. c = [fn |-> fn, at |-> "me", asks |-> asks, got |-> got]
        BY <4>1, <4>2, ResumedRecord
      <4> QED BY <4>3, <4>4 DEF CallFormed
    <3>2. CallsFormed'
      BY <1>5, <2>2, <3>1, OneCall DEF LoggedIn, ConsoleInv
    <3> QED BY <1>5, <2>2, <3>2, CallsAlone DEF LoggedIn
  <2> QED BY <2>1, <2>2
<1> QED BY <1>1, <1>2, <1>3, <1>4, <1>5 DEF Continue

-----------------------------------------------------------------------------
(* The server and other people *)

\* The server answers a request of a function, or serves a change nobody waits for any more.
LEMMA ServeKeeps ==
  ASSUME ConsoleInv, NEW k \in Slots, Serve(k)
  PROVE  ConsoleInv'
<1> DEFINE done(q) == [calls[k] EXCEPT !.asks = @ \ {q}, !.got = Answer(@, q, rows, Applied(rows, q))]
           refused(q) == [calls[k] EXCEPT !.asks = {}, !.got.verdict = Verdict(rows, q)]
           next(q) == IF calls[k].fn = "left" THEN Idle
                      ELSE IF Verdict(rows, q) = "ok" THEN done(q) ELSE refused(q)
<1>1. PICK q \in calls[k].asks :
        /\ Write(IF Verdict(rows, q) = "ok" THEN Applied(rows, q) ELSE rows)
        /\ calls' = [calls EXCEPT ![k] = next(q)]
        /\ subject' = subject
  BY DEF Serve, ConsoleInv, CallsFormed
<1>2. q.op \in Ops
  BY <1>1 DEF ConsoleInv, CallsFormed, CallFormed
<1>3. RowsFormed(rows)' /\ RiderInv' /\ OrdersUnique' /\ BookedForward'
  BY <1>1, <1>2, WriteKeeps
<1>4. CallFormed(next(q))
  <2>1. PICK fn, at, asks, got : calls[k] = [fn |-> fn, at |-> at, asks |-> asks, got |-> got]
    BY DEF ConsoleInv, CallsFormed, CallFormed
  <2>2. /\ \A x \in asks : x.op \in Ops
        /\ at = "sent" => fn \in Senders \cup {"left"}
    BY <2>1 DEF ConsoleInv, CallsFormed, CallFormed
  <2>3. CASE fn = "left"
    BY <2>1, <2>3, IdleFormed
  <2>4. CASE fn # "left" /\ Verdict(rows, q) = "ok"
    <3>1. next(q) = done(q)
      BY <2>1, <2>4
    <3>2. done(q) = Settled(calls[k], asks \ {q}, Answer(got, q, rows, Applied(rows, q)))
      BY <2>1 DEF Settled
    <3> HIDE DEF done
    <3>3. done(q) = [fn |-> fn, at |-> at, asks |-> asks \ {q},
                     got |-> Answer(got, q, rows, Applied(rows, q))]
      BY <2>1, <3>2, SettledRecord
    <3>4. CallFormed(done(q))
      BY <2>2, <2>4, <3>3 DEF CallFormed
    <3> QED BY <3>1, <3>4
  <2>5. CASE fn # "left" /\ Verdict(rows, q) # "ok"
    <3>1. next(q) = refused(q)
      BY <2>1, <2>5
    <3> DEFINE new == [got EXCEPT !.verdict = Verdict(rows, q)]
    <3>2. refused(q) = Settled(calls[k], {}, new)
      BY <2>1 DEF Settled
    <3> HIDE DEF new, refused
    <3>3. PICK d : d = refused(q)
      OBVIOUS
    <3>4. d = [fn |-> fn, at |-> at, asks |-> {}, got |-> new]
      BY <2>1, <3>2, <3>3, SettledRecord
    <3>5. CallFormed(d)
      BY <2>2, <2>5, <3>4 DEF CallFormed
    <3> QED BY <3>1, <3>3, <3>5
  <2> QED BY <2>3, <2>4, <2>5
<1>5. CallsFormed'
  BY <1>1, <1>4, OneCall DEF ConsoleInv
<1> QED BY <1>1, <1>3, <1>5 DEF ConsoleInv

\* The connection drops, and the change may have been made.
LEMMA LoseKeeps ==
  ASSUME ConsoleInv, NEW k \in Slots, Lose(k)
  PROVE  ConsoleInv'
<1> DEFINE lost == [calls[k] EXCEPT !.asks = {}, !.got = [Nothing EXCEPT !.verdict = "lost"]]
           next == IF calls[k].fn = "left" THEN Idle ELSE lost
<1>1. PICK r \in {rows} \cup {Applied(rows, q) : q \in {x \in calls[k].asks : Verdict(rows, x) = "ok"}} :
        Write(r)
  BY DEF Lose
<1>2. calls' = [calls EXCEPT ![k] = next] /\ subject' = subject
  BY DEF Lose, ConsoleInv, CallsFormed
<1>3. \/ r = rows
      \/ \E q : q.op \in Ops /\ Verdict(rows, q) = "ok" /\ r = Applied(rows, q)
  BY <1>1 DEF ConsoleInv, CallsFormed, CallFormed
<1>4. RowsFormed(rows)' /\ RiderInv' /\ OrdersUnique' /\ BookedForward'
  BY <1>1, <1>3, WriteKeeps
<1>5. CallFormed(next)
  <2>1. PICK fn, at, asks, got : calls[k] = [fn |-> fn, at |-> at, asks |-> asks, got |-> got]
    BY DEF ConsoleInv, CallsFormed, CallFormed
  <2>2. at = "sent" => fn \in Senders \cup {"left"}
    BY <2>1 DEF ConsoleInv, CallsFormed, CallFormed
  <2>3. CASE fn = "left"
    BY <2>1, <2>3, IdleFormed
  <2>4. CASE fn # "left"
    <3> DEFINE new == [Nothing EXCEPT !.verdict = "lost"]
    <3>1. lost = [fn |-> fn, at |-> at, asks |-> {}, got |-> new]
      <4>1. lost = Settled(calls[k], {}, new)
        BY DEF Settled
      <4> HIDE DEF new, lost
      <4> QED BY <2>1, <4>1, SettledRecord
    <3>2. next = lost
      BY <2>1, <2>4
    <3> QED BY <2>2, <2>4, <3>1, <3>2 DEF CallFormed
  <2> QED BY <2>3, <2>4
<1>6. CallsFormed'
  BY <1>2, <1>5, OneCall DEF ConsoleInv
<1> QED BY <1>2, <1>4, <1>6 DEF ConsoleInv

\* Another administrator and the driver change rows of their own accord.
LEMMA OthersKeep ==
  ASSUME ConsoleInv, OtherAdmin \/ DriverActs
  PROVE  ConsoleInv'
<1>1. CASE OtherAdmin
  <2>1. \A q \in OtherRequests : q.op \in Ops
    BY ConsoleAssumption
       DEF OtherRequests, WithStops, ConsoleInv, Get, Req, Ops, Changes, Decisions
  <2>2. PICK q \in OtherRequests : Verdict(rows, q) = "ok" /\ Write(Applied(rows, q))
    BY <1>1 DEF OtherAdmin
  <2>3. RowsFormed(rows)' /\ RiderInv' /\ OrdersUnique' /\ BookedForward'
    BY <2>1, <2>2, WriteKeeps
  <2> QED BY <1>1, <2>3 DEF OtherAdmin, ConsoleInv, CallsFormed
<1>2. CASE DriverActs
  <2>1. PICK docs \in BOOLEAN : rows' = [rows EXCEPT !.driver = "pending", !.docs = docs]
    BY <1>2 DEF DriverActs
  <2>2. rows'.stop = rows.stop /\ RowsFormed(rows')
    BY <2>1 DEF ConsoleInv, RowsFormed
  <2>3. UNCHANGED <<subject, calls, rider>>
    BY <1>2 DEF DriverActs
  <2> QED BY <2>2, <2>3 DEF ConsoleInv, CallsFormed, RiderInv, OrdersUnique, BookedForward,
                            RowsFormed, Ahead
<1> QED BY <1>1, <1>2

\* The rider's request reads one stop, later the other, and is answered.
LEMMA RiderKeeps ==
  ASSUME ConsoleInv, ReadPickup \/ ReadDropoff \/ Answered
  PROVE  ConsoleInv'
<1>1. RiderInv' /\ BookedForward'
  <2>1. CASE ReadPickup
    BY <2>1 DEF ReadPickup, RiderInv, BookedForward
  <2>2. CASE ReadDropoff
    <3>1. /\ rider.at \in {"search", "book"} /\ rows' = rows
          /\ rider' = [at |-> IF Forward(rider.order, rows.stop[rider.to].order)
                              THEN (IF rider.at = "book" THEN "booked" ELSE "found") ELSE "refused",
                       from |-> rider.from, to |-> rider.to, order |-> rider.order,
                       forward |-> rider.forward, moves |-> rider.moves]
      BY <2>2 DEF ReadDropoff, ConsoleInv, RiderInv
    <3>2. Forward(rider.order, rows.stop[rider.to].order) => rider.forward \/ rider.moves = 2
      BY <3>1 DEF ConsoleInv, RiderInv, Ahead, Forward
    <3> QED BY <3>1, <3>2 DEF RiderInv, BookedForward
  <2>3. CASE Answered
    BY <2>3 DEF Answered, Resting, RiderInv, BookedForward
  <2> QED BY <2>1, <2>2, <2>3
<1>2. UNCHANGED <<subject, rows, calls>>
  BY DEF ReadPickup, ReadDropoff, Answered
<1> QED BY <1>1, <1>2 DEF ConsoleInv, CallsFormed, OrdersUnique

-----------------------------------------------------------------------------
(* The shape of everything *)

PlaceOrNone == {None} \cup Places
RowsType ==
    [route : [Routes -> RouteStates], stop : [Stops -> [route : 0..MaxRoute, order : PlaceOrNone]],
     driver : DriverStates, docs : BOOLEAN]
GotType ==
    [route : [Routes -> RouteStates], stops : [Stops -> PlaceOrNone], made : 0..MaxRoute,
     pending : BOOLEAN, active : BOOLEAN, verdict : {"ok", "refused", "lost"}]
ViewType ==
    [open : BOOLEAN, loading : BOOLEAN, told : {"none", "error"}, user : BOOLEAN,
     selected : 0..MaxRoute, next : 0..MaxOrder + 1, route : [Routes -> RouteStates],
     stops : [Stops -> PlaceOrNone], pending : BOOLEAN, active : BOOLEAN]
ReqType == [op : Ops, id : Int, order : PlaceOrNone, on : BOOLEAN]
Functions == Senders \cup {"load", "login", "select"}
Awaits == {"me", "lists", "allStops", "stops", "sent", "login"}
CallType ==
    [fn : Functions \cup {"left", "none"}, at : Awaits \cup {Idle.at}, asks : SUBSET ReqType, got : GotType]

\* What is known of routes is true of the rows: routes do not go away.
KnownRoutes(route, r) == \A i \in Routes : route[i] # "absent" => r.route[i] # "absent"
\* A change is about rows that there are.
ReqFits(q, r) ==
    /\ q.op = "createStop" => q.id \in 0..MaxRoute /\ q.order \in Places
    /\ q.op = "updateStop" => q.order \in Places
    /\ q.op = "updateRoute" => q.id \in Routes /\ r.route[q.id] # "absent"
\* A change is awaited alone, by a function that sends one.
Asking(c) ==
    /\ c.fn = "select" => c.at = "stops"
    /\ c.fn = "left" => c.at = "sent"
    /\ c.at = "sent" => c.fn \in Senders \/ (c.fn = "left" /\ c.asks # {})
    /\ c.fn = "createStop" => subject = "stops"
    /\ \A q \in c.asks : q.op \in Changes => c.asks = {q} /\ c.at = "sent"
CallFits(c, r) ==
    /\ Asking(c)
    /\ KnownRoutes(c.got.route, r)
    /\ \A q \in c.asks : ReqFits(q, r)
\* There are rows left for the routes that are being created.
Creates(c) == c.fn # "none" /\ \E q \in c.asks : q.op = "createRoute"
Room(r, cs) == Cardinality({k \in Slots : Creates(cs[k])}) <= Cardinality(FreeRoutes(r))

Displays(v, r) == v \in ViewType /\ KnownRoutes(v.route, r)
Shaped(r, v, cs) ==
    /\ r \in RowsType
    /\ Displays(v, r)
    /\ cs \in [Slots -> CallType]
    /\ \A k \in Slots : CallFits(cs[k], r)
    /\ Room(r, cs)
ShapeInv == subject \in Subjects /\ Shaped(rows, view, calls)

\* A finite set of numbers has a greatest element: the one with the fewest above it.
LEMMA GreatestFact ==
  ASSUME NEW S, S \subseteq Int, IsFiniteSet(S), S # {}
  PROVE  Greatest(S) \in S /\ \A j \in S : j <= Greatest(S)
<1> DEFINE above(i) == {j \in S : j > i}
           sets == {above(i) : i \in S}
<1>1. sets \subseteq FiniteSubsetsOf(S) /\ sets # {}
  <2>1. \A i \in S : above(i) \in SUBSET S /\ IsFiniteSet(above(i))
    BY FS_Subset
  <2> QED BY <2>1 DEF FiniteSubsetsOf
<1>2. PICK T \in sets : \A U \in sets : ~(<<U, T>> \in StrictSubsetOrdering(S))
  <2> HIDE DEF sets
  <2> QED BY <1>1, FS_StrictSubsetOrderingWellFounded, WFMin
<1>3. PICK i \in S : T = above(i)
  BY <1>2
<1>4. \A j \in S : j <= i
  <2> SUFFICES ASSUME NEW j \in S, j > i PROVE FALSE
    OBVIOUS
  <2>1. above(j) \subseteq T /\ above(j) # T /\ T \subseteq S
    <3>1. \A l \in S : l > j => l > i
      OBVIOUS
    <3>2. j \in T /\ j \notin above(j)
      BY <1>3
    <3> QED BY <1>3, <3>1, <3>2
  <2>2. <<above(j), T>> \in StrictSubsetOrdering(S)
    BY <2>1 DEF StrictSubsetOrdering
  <2> QED BY <1>2, <2>2
<1> QED BY <1>4 DEF Greatest

\* And a least one.
LEMMA LeastFact ==
  ASSUME NEW S, S \subseteq Int, IsFiniteSet(S), S # {}
  PROVE  Least(S) \in S /\ \A j \in S : Least(S) <= j
<1> DEFINE below(i) == {j \in S : j < i}
           sets == {below(i) : i \in S}
<1>1. sets \subseteq FiniteSubsetsOf(S) /\ sets # {}
  <2>1. \A i \in S : below(i) \in SUBSET S /\ IsFiniteSet(below(i))
    BY FS_Subset
  <2> QED BY <2>1 DEF FiniteSubsetsOf
<1>2. PICK T \in sets : \A U \in sets : ~(<<U, T>> \in StrictSubsetOrdering(S))
  <2> HIDE DEF sets
  <2> QED BY <1>1, FS_StrictSubsetOrderingWellFounded, WFMin
<1>3. PICK i \in S : T = below(i)
  BY <1>2
<1>4. \A j \in S : i <= j
  <2> SUFFICES ASSUME NEW j \in S, j < i PROVE FALSE
    OBVIOUS
  <2>1. below(j) \subseteq T /\ below(j) # T /\ T \subseteq S
    <3>1. \A l \in S : l < j => l < i
      OBVIOUS
    <3>2. j \in T /\ j \notin below(j)
      BY <1>3
    <3> QED BY <1>3, <3>1, <3>2
  <2>2. <<below(j), T>> \in StrictSubsetOrdering(S)
    BY <2>1 DEF StrictSubsetOrdering
  <2> QED BY <1>2, <2>2
<1> QED BY <1>4 DEF Least

\* Bounds are positive.
LEMMA BoundsFact ==
    /\ MaxRoute \in Nat /\ MaxRoute >= 1 /\ MaxStop \in Nat /\ MaxStop >= 1
    /\ MaxOrder \in Nat /\ MaxOrder >= 1 /\ MaxCall \in Nat /\ MaxStop <= MaxOrder + 1
  BY ConsoleAssumption

\* Places are numbers.
LEMMA PlacesFact ==
    /\ None = -1 /\ PlaceOrNone \subseteq -1..MaxOrder /\ PlaceOrNone \subseteq Int
    /\ None \in PlaceOrNone /\ Places \subseteq PlaceOrNone /\ 0 \in Places
    /\ subject = "stops" => PlaceOrNone \subseteq -1..MaxOrder - 1
  BY BoundsFact DEF PlaceOrNone, Places, Orders, None

\* An answer without content.
LEMMA NothingFact ==
    /\ Nothing \in GotType /\ Nothing.verdict = "ok"
    /\ \A i \in Routes : Nothing.route[i] = "absent"
    /\ Nothing.route \in [Routes -> RouteStates]
    /\ Nothing.stops \in [Stops -> PlaceOrNone] /\ \A s \in Stops : Nothing.stops[s] = None
  BY BoundsFact, PlacesFact DEF Nothing, GotType, RouteStates

\* An answer that says why there is none.
LEMMA EmptyFact ==
    \A verdict \in {"refused", "lost"} :
        LET got == [Nothing EXCEPT !.verdict = verdict]
        IN got \in GotType /\ got.verdict = verdict /\ got.route = Nothing.route
  BY NothingFact DEF GotType

\* Nothing in flight.
LEMMA IdleFact ==
    /\ Idle \in CallType /\ Idle.fn = "none" /\ Idle.at \notin Awaits /\ Idle.asks = {}
    /\ Idle.got = Nothing
<1>1. PICK at : Idle = [fn |-> "none", at |-> at, asks |-> {}, got |-> Nothing]
  BY DEF Idle
<1>2. at \in Awaits \cup {Idle.at}
  BY <1>1
<1>3. Idle \in CallType
  BY <1>1, <1>2, NothingFact DEF CallType
<1>4. Idle.at \notin Awaits
  BY Zenon DEF Idle, Awaits
<1> QED BY <1>1, <1>3, <1>4

\* The page as it opens.
LEMMA FreshFact ==
    \A r : /\ Displays(Fresh, r) /\ Displays([Fresh EXCEPT !.open = FALSE], r)
           /\ Fresh.stops = Nothing.stops /\ [Fresh EXCEPT !.open = FALSE].stops = Nothing.stops
<1> DEFINE v == Fresh
<1>1. v \in ViewType /\ v.stops = Nothing.stops /\ v.route = Nothing.route
  BY NothingFact, BoundsFact DEF Fresh, ViewType
<1> HIDE DEF v
<1>2. /\ [v EXCEPT !.open = FALSE] \in ViewType /\ [v EXCEPT !.open = FALSE].stops = v.stops
      /\ [v EXCEPT !.open = FALSE].route = v.route
  BY <1>1 DEF ViewType
<1> QED BY <1>1, <1>2, NothingFact DEF Displays, KnownRoutes, v

\* A route that there is, or none.
LEMMA FirstFact ==
  ASSUME NEW route \in [Routes -> RouteStates]
  PROVE  First(route) \in 0..MaxRoute
<1> DEFINE there == {i \in Routes : route[i] # "absent"}
           active == {i \in there : route[i] = "active"}
<1>1. IsFiniteSet(Routes) /\ Routes \subseteq 0..MaxRoute /\ Routes \subseteq Int /\ 0 \in 0..MaxRoute
  BY FS_Interval, BoundsFact DEF Routes
<1>2. there \subseteq Routes /\ active \subseteq Routes
  OBVIOUS
<1>3. IsFiniteSet(there) /\ IsFiniteSet(active)
  BY <1>1, <1>2, FS_Subset
<1>4. First(route) = IF there = {} THEN 0 ELSE Greatest(IF active # {} THEN active ELSE there)
  BY DEF First
<1> HIDE DEF there, active
<1>5. active # {} => Greatest(active) \in active
  BY <1>1, <1>2, <1>3, GreatestFact
<1>6. there # {} => Greatest(there) \in there
  BY <1>1, <1>2, <1>3, GreatestFact
<1> QED BY <1>1, <1>2, <1>4, <1>5, <1>6

\* The number for a new stop is past every stop it is counted from.
LEMMA NextOrderFact ==
  ASSUME NEW stops \in [Stops -> PlaceOrNone]
  PROVE  /\ NextStopOrder(stops) \in 0..MaxOrder + 1
         /\ subject = "stops" => NextStopOrder(stops) \in 0..MaxOrder
         /\ \A s \in Stops : stops[s] < NextStopOrder(stops)
<1> DEFINE S == {None} \cup {stops[s] : s \in Stops}
<1>1. S \subseteq PlaceOrNone /\ S # {}
  BY PlacesFact
<1>2. S \subseteq Int /\ IsFiniteSet(S)
  <2>1. IsFiniteSet(-1..MaxOrder)
    BY FS_Interval, BoundsFact
  <2>2. S \subseteq -1..MaxOrder
    BY <1>1, PlacesFact
  <2> HIDE DEF S
  <2> QED BY <1>1, <2>1, <2>2, FS_Subset, PlacesFact
<1>3. NextStopOrder(stops) = 1 + Greatest(S)
  BY DEF NextStopOrder
<1>4. \A s \in Stops : stops[s] \in S
  OBVIOUS
<1> HIDE DEF S
<1>5. Greatest(S) \in S /\ \A j \in S : j <= Greatest(S)
  BY <1>1, <1>2, GreatestFact
<1>6. Greatest(S) \in -1..MaxOrder /\ (subject = "stops" => Greatest(S) \in -1..MaxOrder - 1)
  BY <1>1, <1>5, PlacesFact
<1>7. \A s \in Stops : stops[s] <= Greatest(S) /\ stops[s] \in Int
  BY <1>4, <1>5, PlacesFact
<1> QED BY <1>3, <1>6, <1>7, BoundsFact

-----------------------------------------------------------------------------
(* The server, with the shape of what it answers *)

\* Rows of routes, and those that are free.
LEMMA FreeFact ==
  ASSUME NEW r \in RowsType
  PROVE  /\ FreeRoutes(r) \subseteq Routes /\ IsFiniteSet(FreeRoutes(r))
         /\ Routes \subseteq 0..MaxRoute /\ Routes \subseteq Int
         /\ FreeRoutes(r) # {} => Least(FreeRoutes(r)) \in FreeRoutes(r)
<1>1. IsFiniteSet(Routes) /\ Routes \subseteq 0..MaxRoute /\ Routes \subseteq Int
  BY FS_Interval, BoundsFact DEF Routes
<1>2. FreeRoutes(r) \subseteq Routes
  BY DEF FreeRoutes
<1>3. IsFiniteSet(FreeRoutes(r)) /\ FreeRoutes(r) \subseteq Int
  BY <1>1, <1>2, FS_Subset
<1> QED BY <1>1, <1>2, <1>3, LeastFact

\* A route that is stored has one of the states of routes, and is there.
LEMMA FlagFact == \A on : Flag(on) \in RouteStates /\ Flag(on) # "absent"
  BY DEF Flag, RouteStates

\* Routes do not go away.
RoutesStay(r, s) == \A i \in Routes : r.route[i] # "absent" => s.route[i] # "absent"
\* Routes that were free and are not any more.
TakesRoute(r, s, q) ==
    IF q.op = "createRoute" THEN FreeRoutes(r) # {} => FreeRoutes(s) = FreeRoutes(r) \ {Least(FreeRoutes(r))}
    ELSE FreeRoutes(s) = FreeRoutes(r)

\* A request the server accepts keeps the shape of the rows, and creates one route at most.
LEMMA AppliedShape ==
  ASSUME NEW r \in RowsType, NEW q \in ReqType, ReqFits(q, r)
  PROVE  /\ Applied(r, q) \in RowsType
         /\ RoutesStay(r, Applied(r, q))
         /\ TakesRoute(r, Applied(r, q), q)
<1> DEFINE s == Applied(r, q)
<1>1. CASE q.op = "createRoute"
  <2> DEFINE i == Least(FreeRoutes(r))
  <2>1. s = [r EXCEPT !.route[i] = Flag(q.on)]
    BY <1>1 DEF Applied, Decisions, Reads
  <2>2. FreeRoutes(r) # {} => i \in FreeRoutes(r)
    BY FreeFact
  <2> HIDE DEF i, s
  <2>3. s \in RowsType /\ RoutesStay(r, s)
    BY <2>1, FlagFact DEF RowsType, RoutesStay
  <2>4. FreeRoutes(r) # {} => FreeRoutes(s) = FreeRoutes(r) \ {i}
    BY <2>1, <2>2, FlagFact DEF RowsType, FreeRoutes
  <2> QED BY <1>1, <2>3, <2>4 DEF TakesRoute, i, s
<1>2. CASE q.op = "updateRoute"
  <2>1. s = [r EXCEPT !.route[q.id] = Flag(q.on)]
    BY <1>2 DEF Applied, Decisions, Reads
  <2>2. q.id \in Routes /\ r.route[q.id] # "absent"
    BY <1>2 DEF ReqFits
  <2> HIDE DEF s
  <2>3. s \in RowsType /\ RoutesStay(r, s) /\ FreeRoutes(s) = FreeRoutes(r)
    BY <2>1, <2>2, FlagFact DEF RowsType, RoutesStay, FreeRoutes
  <2> QED BY <1>2, <2>3 DEF TakesRoute, s
<1>3. CASE q.op \notin {"createRoute", "updateRoute"}
  <2>1. s \in RowsType /\ s.route = r.route
    <3>1. CASE q.op = "createStop"
      <4> DEFINE i == Least(FreeStops(r))
                 row == [route |-> q.id, order |-> q.order]
      <4>1. s = [r EXCEPT !.stop[i] = row]
        BY <3>1 DEF Applied, Decisions, Reads
      <4>2. row \in [route : 0..MaxRoute, order : PlaceOrNone]
        BY <3>1, PlacesFact DEF ReqFits
      <4> HIDE DEF i, row, s
      <4> QED BY <4>1, <4>2 DEF RowsType
    <3>2. CASE q.op = "updateStop"
      <4>1. s = [r EXCEPT !.stop[q.id].order = q.order]
        BY <3>2 DEF Applied, Decisions, Reads
      <4>2. q.order \in PlaceOrNone
        BY <3>2, PlacesFact DEF ReqFits
      <4> HIDE DEF s
      <4> QED BY <4>1, <4>2 DEF RowsType
    <3>3. CASE q.op \in Decisions
      <4>1. s = [r EXCEPT !.driver = Decided[q.op]]
        BY <3>3 DEF Applied, Decisions, Reads
      <4>2. Decided[q.op] \in DriverStates
        BY <3>3 DEF Decided, Decisions, DriverStates
      <4> HIDE DEF s
      <4> QED BY <4>1, <4>2 DEF RowsType
    <3>4. CASE q.op \in Reads
      <4>1. s = r
        BY <3>4 DEF Applied, Reads, Decisions
      <4> QED BY <4>1
    <3>5. q.op \in Ops
      BY DEF ReqType
    <3> QED BY <1>3, <3>1, <3>2, <3>3, <3>4, <3>5 DEF Ops, Changes
  <2> HIDE DEF s
  <2> QED BY <1>3, <2>1 DEF TakesRoute, RoutesStay, FreeRoutes, s
<1> QED BY <1>1, <1>2, <1>3

\* What the server answers has its shape, and says of no route that it is there which is not.
LEMMA AnswerShape ==
  ASSUME NEW r \in RowsType, NEW q \in ReqType, ReqFits(q, r), NEW g \in GotType,
         KnownRoutes(g.route, r), q.op = "createRoute" => FreeRoutes(r) # {}
  PROVE  /\ Answer(g, q, r, Applied(r, q)) \in GotType
         /\ KnownRoutes(Answer(g, q, r, Applied(r, q)).route, r)
<1> DEFINE new == Applied(r, q)
           a == Answer(g, q, r, new)
<1>1. CASE q.op = "routes"
  <2>1. a = [g EXCEPT !.route = r.route]
    BY <1>1 DEF Answer
  <2> HIDE DEF a
  <2> QED BY <2>1 DEF GotType, RowsType, KnownRoutes, a
<1>2. CASE q.op = "stops"
  <2>1. a = [g EXCEPT !.stops = Listed(r, q.id)]
    BY <1>2 DEF Answer
  <2>2. Listed(r, q.id) \in [Stops -> PlaceOrNone]
    BY PlacesFact DEF Listed, RowsType
  <2> HIDE DEF a
  <2>3. a \in GotType /\ a.route = g.route
    BY <2>1, <2>2 DEF GotType
  <2> QED BY <2>3 DEF a
<1>3. CASE q.op = "pending"
  <2>1. a = [g EXCEPT !.pending = r.driver = "pending"]
    BY <1>3 DEF Answer
  <2> HIDE DEF a
  <2>2. a \in GotType /\ a.route = g.route
    BY <2>1 DEF GotType
  <2> QED BY <2>2 DEF a
<1>4. CASE q.op = "active"
  <2>1. a = [g EXCEPT !.active = r.driver = "approved"]
    BY <1>4 DEF Answer
  <2> HIDE DEF a
  <2>2. a \in GotType /\ a.route = g.route
    BY <2>1 DEF GotType
  <2> QED BY <2>2 DEF a
<1>5. CASE q.op = "createRoute"
  <2> DEFINE made == Least(FreeRoutes(r) \ FreeRoutes(new))
             i == Least(FreeRoutes(r))
  <2>1. a = [g EXCEPT !.made = made]
    BY <1>5 DEF Answer
  <2>2. i \in FreeRoutes(r) /\ FreeRoutes(new) = FreeRoutes(r) \ {i} /\ i \in Routes
    BY <1>5, AppliedShape, FreeFact DEF TakesRoute
  <2>3. FreeRoutes(r) \ FreeRoutes(new) = {i} /\ i \in Int
    BY <2>2, FreeFact
  <2> HIDE DEF i, new
  <2>4. made = i
    BY <2>3 DEF Least
  <2>5. made \in 0..MaxRoute
    BY <2>2, <2>4, FreeFact
  <2> HIDE DEF made, a
  <2>6. a \in GotType /\ a.route = g.route
    BY <2>1, <2>5 DEF GotType
  <2> QED BY <2>6 DEF a, new
<1>6. CASE q.op \notin {"routes", "stops", "pending", "active", "createRoute"}
  <2>1. a = g
    BY <1>6 DEF Answer
  <2> QED BY <2>1
<1> QED BY <1>1, <1>2, <1>3, <1>4, <1>5, <1>6

\* The server accepts or refuses.
LEMMA VerdictFact ==
  ASSUME NEW r, NEW q \in ReqType
  PROVE  Verdict(r, q) \in {"ok", "refused"}
<1>1. q.op \in Reads \cup Changes
  BY DEF ReqType, Ops
<1>2. CASE q.op = "createStop"
  BY <1>2 DEF Verdict
<1>3. CASE q.op = "updateStop"
  BY <1>3 DEF Verdict
<1>4. CASE q.op = "approve"
  BY <1>4 DEF Verdict
<1>5. CASE q.op \notin {"createStop", "updateStop", "approve"}
  BY <1>1, <1>5 DEF Verdict
<1> QED BY <1>2, <1>3, <1>4, <1>5

-----------------------------------------------------------------------------
(* Functions in flight and the shape *)

\* Routes are created by no more functions than before.
LEMMA RoomKept ==
  ASSUME NEW r \in RowsType, NEW s \in RowsType, NEW cs, NEW ds, Room(r, cs),
         FreeRoutes(s) = FreeRoutes(r), \A k \in Slots : Creates(ds[k]) => Creates(cs[k])
  PROVE  Room(s, ds)
<1> DEFINE C == {k \in Slots : Creates(cs[k])}
           D == {k \in Slots : Creates(ds[k])}
<1>1. IsFiniteSet(C) /\ IsFiniteSet(D) /\ D \subseteq C
  <2>1. IsFiniteSet(Slots)
    BY FS_Interval, BoundsFact DEF Slots
  <2> QED BY <2>1, FS_Subset
<1>2. Cardinality(C) \in Nat /\ Cardinality(D) \in Nat /\ Cardinality(D) <= Cardinality(C)
  <2> HIDE DEF C, D
  <2> QED BY <1>1, FS_Subset, FS_CardinalityType
<1>3. Cardinality(FreeRoutes(r)) \in Nat
  BY FreeFact, FS_CardinalityType
<1> QED BY <1>2, <1>3 DEF Room

\* One of them has created its route.
LEMMA RoomUsed ==
  ASSUME NEW r \in RowsType, NEW s \in RowsType, NEW cs, NEW ds, Room(r, cs),
         NEW k \in Slots, Creates(cs[k]), ~Creates(ds[k]),
         \A j \in Slots : Creates(ds[j]) => Creates(cs[j]),
         FreeRoutes(r) # {} => FreeRoutes(s) = FreeRoutes(r) \ {Least(FreeRoutes(r))}
  PROVE  Room(s, ds) /\ FreeRoutes(r) # {}
<1> DEFINE C == {j \in Slots : Creates(cs[j])}
           D == {j \in Slots : Creates(ds[j])}
           F == FreeRoutes(r)
           i == Least(F)
<1>1. IsFiniteSet(C) /\ D \subseteq C \ {k} /\ k \in C
  <2>1. IsFiniteSet(Slots)
    BY FS_Interval, BoundsFact DEF Slots
  <2> QED BY <2>1, FS_Subset
<1>2. IsFiniteSet(F) /\ (F # {} => i \in F /\ FreeRoutes(s) = F \ {i})
  BY FreeFact
<1>3. Cardinality(C) <= Cardinality(F)
  BY DEF Room
<1>4. Room(s, ds) <=> Cardinality(D) <= Cardinality(FreeRoutes(s))
  BY DEF Room
<1> HIDE DEF C, D, F, i
<1>5. IsFiniteSet(C \ {k}) /\ Cardinality(C \ {k}) = Cardinality(C) - 1 /\ Cardinality(C) \in Nat
  BY <1>1, FS_RemoveElement, FS_CardinalityType
<1>6. Cardinality(D) <= Cardinality(C \ {k}) /\ Cardinality(D) \in Nat
  BY <1>1, <1>5, FS_Subset, FS_CardinalityType
<1>7. Cardinality(F) \in Nat /\ Cardinality(F) >= 1
  BY <1>2, <1>3, <1>5, <1>6, FS_CardinalityType
<1>8. F # {}
  BY <1>7, FS_EmptySet
<1>9. Cardinality(F \ {i}) = Cardinality(F) - 1
  BY <1>2, <1>8, FS_RemoveElement
<1> QED BY <1>2, <1>3, <1>4, <1>5, <1>6, <1>7, <1>8, <1>9 DEF F

\* One more function creates a route, if there is room for it.
LEMMA RoomTaken ==
  ASSUME NEW r \in RowsType, NEW cs, NEW ds, NEW k \in Slots,
         \A j \in Slots \ {k} : Creates(ds[j]) => Creates(cs[j]),
         Cardinality(FreeRoutes(r)) > Cardinality({j \in Slots : Creates(cs[j])})
  PROVE  Room(r, ds)
<1> DEFINE C == {j \in Slots : Creates(cs[j])}
           D == {j \in Slots : Creates(ds[j])}
<1>1. IsFiniteSet(C) /\ D \subseteq C \cup {k}
  <2>1. IsFiniteSet(Slots)
    BY FS_Interval, BoundsFact DEF Slots
  <2> QED BY <2>1, FS_Subset
<1>2. Room(r, ds) <=> Cardinality(D) <= Cardinality(FreeRoutes(r))
  BY DEF Room
<1>3. Cardinality(FreeRoutes(r)) \in Nat
  BY FreeFact, FS_CardinalityType
<1>4. Cardinality(FreeRoutes(r)) > Cardinality(C)
  OBVIOUS
<1> HIDE DEF C, D
<1>5. IsFiniteSet(C \cup {k}) /\ Cardinality(C) \in Nat /\ Cardinality(C \cup {k}) \in Nat
      /\ Cardinality(C \cup {k}) <= Cardinality(C) + 1
  <2>1. Cardinality(C) \in Nat
    BY <1>1, FS_CardinalityType
  <2>2. /\ IsFiniteSet(C \cup {k})
        /\ Cardinality(C \cup {k}) = IF k \in C THEN Cardinality(C) ELSE Cardinality(C) + 1
    BY <1>1, FS_AddElement
  <2> QED BY <2>1, <2>2
<1>6. Cardinality(D) <= Cardinality(C \cup {k}) /\ Cardinality(D) \in Nat
  BY <1>1, <1>5, FS_Subset, FS_CardinalityType
<1> QED BY <1>2, <1>3, <1>4, <1>5, <1>6

\* What a behaviour is about does not change, so that shapes do not either.
LEMMA ShapedStays ==
  ASSUME subject \in Subjects, subject' = subject, Shaped(rows', view', calls')
  PROVE  ShapeInv'
  BY DEF ShapeInv, Shaped, Displays, RowsType, ViewType, CallType, CallFits, Asking, ReqFits, ReqType, GotType,
         PlaceOrNone, Places, KnownRoutes

\* One function changes, and the page.
LEMMA OneShaped ==
  ASSUME ShapeInv, NEW k \in Slots, NEW c, c \in CallType, CallFits(c, rows),
         Creates(c) => Creates(calls[k]) \/ Cardinality(FreeRoutes(rows)) > Coming("createRoute"),
         calls' = [calls EXCEPT ![k] = c], Displays(view', rows), UNCHANGED <<subject, rows>>
  PROVE  ShapeInv'
<1>1. /\ rows \in RowsType /\ calls \in [Slots -> CallType] /\ Room(rows, calls)
      /\ \A j \in Slots : CallFits(calls[j], rows)
  BY DEF ShapeInv, Shaped
<1>2. calls' \in [Slots -> CallType] /\ \A j \in Slots : calls'[j] = IF j = k THEN c ELSE calls[j]
  BY <1>1
<1>3. \A j \in Slots : CallFits(calls'[j], rows)
  BY <1>1, <1>2
<1>4. Coming("createRoute") = Cardinality({j \in Slots : Creates(calls[j])})
  <2>1. {j \in InUse : \E q \in calls[j].asks : q.op = "createRoute"} = {j \in Slots : Creates(calls[j])}
    BY DEF InUse, Creates
  <2> QED BY <2>1 DEF Coming
<1>5. Room(rows, calls')
  <2>1. CASE Creates(c) => Creates(calls[k])
    <3>1. \A j \in Slots : Creates(calls'[j]) => Creates(calls[j])
      BY <1>2, <2>1
    <3> QED BY <1>1, <3>1, RoomKept
  <2>2. CASE Cardinality(FreeRoutes(rows)) > Coming("createRoute")
    <3>1. \A j \in Slots \ {k} : Creates(calls'[j]) => Creates(calls[j])
      BY <1>2
    <3> QED BY <1>1, <1>4, <2>2, <3>1, RoomTaken
  <2> QED BY <2>1, <2>2
<1>6. Shaped(rows', view', calls')
  BY <1>1, <1>2, <1>3, <1>5 DEF Shaped
<1> QED BY <1>6, ShapedStays DEF ShapeInv

\* What is sent, or refused at once for want of a session.
LEMMA SentFact ==
  ASSUME NEW c \in CallType, NEW at \in Awaits, NEW asks \in SUBSET ReqType
  PROVE  /\ Sent(c, at, asks) \in CallType
         /\ Sent(c, at, asks).fn = c.fn /\ Sent(c, at, asks).at = at
         /\ Sent(c, at, asks).asks = asks \/ Sent(c, at, asks).asks = {}
         /\ Sent(c, at, asks).got.route = Nothing.route
<1> DEFINE d == Sent(c, at, asks)
           none == [Nothing EXCEPT !.verdict = "refused"]
<1>1. d = [c EXCEPT !.at = at, !.asks = asks, !.got = Nothing]
      \/ d = [c EXCEPT !.at = at, !.asks = {}, !.got = none]
  BY DEF Sent
<1>2. none \in GotType /\ none.route = Nothing.route /\ Nothing \in GotType
  BY NothingFact, EmptyFact
<1> HIDE DEF d, none
<1>3. PICK as \in SUBSET ReqType, got \in GotType :
        /\ d = [c EXCEPT !.at = at, !.asks = as, !.got = got]
        /\ as = asks \/ as = {}
        /\ got.route = Nothing.route
  BY <1>1, <1>2
<1>4. d \in CallType /\ d.fn = c.fn /\ d.at = at /\ d.asks = as /\ d.got = got
  BY <1>3 DEF CallType
<1> QED BY <1>3, <1>4 DEF d

\* What a function may request, and where it awaits the answers.
Requests(fn, at, asks) ==
    /\ asks \subseteq ReqType /\ at \in Awaits
    /\ fn = "select" => at = "stops"
    /\ at = "sent" => fn \in Senders
    /\ fn = "createStop" => subject = "stops"
    /\ \A q \in asks : ReqFits(q, rows) /\ (q.op \in Changes => asks = {q} /\ at = "sent")

\* What is sent suits the function that sends it.
LEMMA SentFits ==
  ASSUME NEW c \in CallType, c.fn \in Functions, NEW at, NEW asks, Requests(c.fn, at, asks)
  PROVE  /\ Sent(c, at, asks) \in CallType /\ CallFits(Sent(c, at, asks), rows)
         /\ Sent(c, at, asks).fn = c.fn
         /\ Creates(Sent(c, at, asks)) => \E q \in asks : q.op = "createRoute"
<1> DEFINE d == Sent(c, at, asks)
<1>1. /\ d \in CallType /\ d.fn = c.fn /\ d.at = at /\ d.got.route = Nothing.route
      /\ d.asks = asks \/ d.asks = {}
  BY SentFact DEF Requests
<1>2. c.fn \notin {"left", "none"}
  BY DEF Functions, Senders
<1> HIDE DEF d
<1>3. Asking(d)
  <2>1. d.fn \notin {"left", "none"} /\ (d.fn = "select" => d.at = "stops")
    BY <1>1, <1>2 DEF Requests
  <2>2. d.at = "sent" => d.fn \in Senders
    BY <1>1 DEF Requests
  <2>3. d.fn = "createStop" => subject = "stops"
    BY <1>1 DEF Requests
  <2>4. \A q \in d.asks : q.op \in Changes => d.asks = {q} /\ d.at = "sent"
    BY <1>1 DEF Requests
  <2> QED BY <2>1, <2>2, <2>3, <2>4 DEF Asking
<1>4. KnownRoutes(d.got.route, rows) /\ \A q \in d.asks : ReqFits(q, rows)
  BY <1>1, NothingFact DEF KnownRoutes, Requests
<1> QED BY <1>1, <1>3, <1>4 DEF CallFits, Creates, d

\* A function begins.
LEMMA BeginShaped ==
  ASSUME ShapeInv, NEW fn \in Functions, NEW at, NEW asks, NEW v, Requests(fn, at, asks), Displays(v, rows),
         (\E q \in asks : q.op = "createRoute") => Cardinality(FreeRoutes(rows)) > Coming("createRoute"),
         Begin(fn, at, asks, v)
  PROVE  /\ ShapeInv' /\ view' = v
         /\ \E k \in Slots : calls'[k].fn = fn
         /\ \A j \in Slots : calls[j].fn # "none" => calls'[j] = calls[j]
<1> DEFINE c == [Idle EXCEPT !.fn = fn]
<1>1. PICK k \in Slots : calls[k].fn = "none" /\ calls' = [calls EXCEPT ![k] = Sent(c, at, asks)]
  BY DEF Begin, InUse
<1>2. c \in CallType /\ c.fn = fn
  <2> DEFINE none == Idle
  <2>1. none \in CallType
    BY IdleFact
  <2> HIDE DEF none
  <2>2. [none EXCEPT !.fn = fn] \in CallType /\ [none EXCEPT !.fn = fn].fn = fn
    BY <2>1 DEF CallType
  <2> QED BY <2>2 DEF none
<1> HIDE DEF c
<1>3. /\ Sent(c, at, asks) \in CallType /\ CallFits(Sent(c, at, asks), rows) /\ Sent(c, at, asks).fn = fn
      /\ Creates(Sent(c, at, asks)) => \E q \in asks : q.op = "createRoute"
  BY <1>2, SentFits
<1>4. view' = v /\ UNCHANGED <<subject, rows>>
  BY DEF Begin
<1>5. ShapeInv'
  BY <1>1, <1>3, <1>4, OneShaped
<1>6. calls'[k].fn = fn /\ \A j \in Slots : j # k => calls'[j] = calls[j]
  BY <1>1, <1>3 DEF ShapeInv, Shaped
<1> QED BY <1>1, <1>4, <1>5, <1>6

\* A function goes on to requests that change nothing.
LEMMA AwaitShaped ==
  ASSUME ShapeInv, NEW k \in Slots, calls[k].fn \in Functions, NEW at, NEW asks, NEW v,
         Requests(calls[k].fn, at, asks), Displays(v, rows), at # "sent",
         Await(k, at, asks, v)
  PROVE  ShapeInv' /\ view' = v /\ calls'[k].fn = calls[k].fn
<1> DEFINE c == calls[k]
<1>1. c \in CallType /\ calls \in [Slots -> CallType]
  BY DEF ShapeInv, Shaped
<1>2. calls' = [calls EXCEPT ![k] = Sent(c, at, asks)] /\ view' = v /\ UNCHANGED <<subject, rows>>
  BY DEF Await
<1>3. c.fn \in Functions /\ Requests(c.fn, at, asks)
  OBVIOUS
<1> HIDE DEF c
<1>4. /\ Sent(c, at, asks) \in CallType /\ CallFits(Sent(c, at, asks), rows) /\ Sent(c, at, asks).fn = c.fn
      /\ Creates(Sent(c, at, asks)) => \E q \in asks : q.op = "createRoute"
  BY <1>1, <1>3, SentFits
<1>5. ~Creates(Sent(c, at, asks))
  BY <1>4 DEF Requests, Changes
<1>6. ShapeInv'
  BY <1>2, <1>4, <1>5, OneShaped
<1> QED BY <1>1, <1>2, <1>4, <1>6 DEF c

\* Nothing in flight suits everything.
LEMMA IdleFits == CallFits(Idle, rows) /\ ~Creates(Idle)
  BY IdleFact, NothingFact DEF CallFits, Asking, Creates, KnownRoutes, Awaits, Senders

\* A function returns.
LEMMA ReturnShaped ==
  ASSUME ShapeInv, NEW k \in Slots, NEW v, Displays(v, rows), Return(k, v)
  PROVE  ShapeInv' /\ view' = v /\ \A j \in Slots \ {k} : calls'[j] = calls[j]
<1>1. calls' = [calls EXCEPT ![k] = Idle] /\ view' = v /\ UNCHANGED <<subject, rows>>
  BY DEF Return
<1>2. ShapeInv'
  BY <1>1, IdleFact, IdleFits, OneShaped
<1> QED BY <1>1, <1>2 DEF ShapeInv, Shaped

-----------------------------------------------------------------------------
(* The page *)

\* The number that is filled in is past every stop on display.
Counted(v) == \A s \in Stops : v.stops[s] # None => v.stops[s] < v.next
Settles(v) == v.told = "error" \/ Counted(v)
\* A function that will count again or show an error.
Ends(c) == c.fn \in Functions \ {"select"}
NextInv == Settles(view) \/ \E k \in Slots : Ends(calls[k])

\* One field of the page changes.
LEMMA FieldFact ==
  ASSUME NEW r, NEW v, Displays(v, r)
  PROVE  /\ \A on \in BOOLEAN : Displays([v EXCEPT !.loading = on], r) /\ Displays([v EXCEPT !.user = on], r)
         /\ \A told \in {"none", "error"} : Displays([v EXCEPT !.told = told], r)
         /\ \A i \in 0..MaxRoute : Displays([v EXCEPT !.selected = i], r)
         /\ \A n \in 0..MaxOrder + 1 : Displays([v EXCEPT !.next = n], r)
         /\ \A stops \in [Stops -> PlaceOrNone] : Displays([v EXCEPT !.stops = stops], r)
         /\ \A route \in [Routes -> RouteStates] :
                KnownRoutes(route, r) => Displays([v EXCEPT !.route = route], r)
  BY DEF Displays, ViewType

\* What loadAll does first.
LEMMA LoadsFact ==
  ASSUME NEW r, NEW v, Displays(v, r)
  PROVE  Displays(Loads(v), r)
<1> DEFINE w == [v EXCEPT !.loading = TRUE]
<1>1. Displays(w, r) /\ Loads(v) = [w EXCEPT !.told = "none"]
  BY FieldFact DEF Loads, Displays, ViewType
<1> HIDE DEF w
<1> QED BY <1>1, FieldFact

\* Loading ends, and an error is shown.
LEMMA EndsFact ==
  ASSUME NEW r, NEW v, Displays(v, r)
  PROVE  /\ Displays(Tell(v), r) /\ Settles(Tell(v))
         /\ \A k : Displays(Loaded(k, v), r) /\ (Settles(v) => Settles(Loaded(k, v)))
<1>1. Displays(Tell(v), r) /\ Settles(Tell(v))
  BY FieldFact DEF Tell, Settles, Displays, ViewType
<1>2. ASSUME NEW k PROVE Displays(Loaded(k, v), r) /\ (Settles(v) => Settles(Loaded(k, v)))
  BY FieldFact DEF Loaded, Settles, Counted, Displays, ViewType
<1> QED BY <1>1, <1>2

\* Stops are shown, and the number is counted from them.
LEMMA ShowFact ==
  ASSUME NEW k \in Slots, NEW r, Displays(view, r), calls[k].got.stops \in [Stops -> PlaceOrNone]
  PROVE  Displays(ShowStops(k), r) /\ Settles(ShowStops(k))
<1> DEFINE stops == calls[k].got.stops
           n == NextStopOrder(stops)
           w == [view EXCEPT !.stops = stops]
<1>1. n \in 0..MaxOrder + 1 /\ \A s \in Stops : stops[s] < n
  BY NextOrderFact
<1>2. ShowStops(k) = [view EXCEPT !.stops = stops, !.next = n]
  BY DEF ShowStops
<1> HIDE DEF stops, n
<1>3. Displays(w, r) /\ ShowStops(k) = [w EXCEPT !.next = n] /\ w.stops = stops
  BY <1>2, FieldFact DEF Displays, ViewType, stops
<1> HIDE DEF w
<1>4. Displays(ShowStops(k), r)
  <2>1. n \in 0..MaxOrder + 1 => Displays([w EXCEPT !.next = n], r)
    BY <1>3, FieldFact
  <2> QED BY <1>1, <1>3, <2>1
<1>5. ShowStops(k).stops = stops /\ ShowStops(k).next = n
  BY <1>2 DEF Displays, ViewType
<1> QED BY <1>1, <1>4, <1>5 DEF Settles, Counted

\* A flag on the page, and the place of a stop, change before they are saved.
LEMMA EditFact ==
  ASSUME NEW r, NEW v, Displays(v, r)
  PROVE  /\ \A on : \A i \in Routes : v.route[i] # "absent" =>
                Displays([v EXCEPT !.told = "none", !.route[i] = Flag(on)], r)
         /\ \A s \in Stops, o \in PlaceOrNone : Displays([v EXCEPT !.told = "none", !.stops[s] = o], r)
<1> DEFINE w == [v EXCEPT !.told = "none"]
<1>1. Displays(w, r) /\ w.route = v.route /\ w.stops = v.stops
  BY FieldFact DEF Displays, ViewType
<1>2. ASSUME NEW i \in Routes, NEW on, v.route[i] # "absent"
      PROVE  Displays([v EXCEPT !.told = "none", !.route[i] = Flag(on)], r)
  <2> DEFINE route == [v.route EXCEPT ![i] = Flag(on)]
  <2>1. route \in [Routes -> RouteStates] /\ KnownRoutes(route, r)
    BY <1>2, FlagFact DEF Displays, ViewType, KnownRoutes
  <2>2. [v EXCEPT !.told = "none", !.route[i] = Flag(on)] = [w EXCEPT !.route = route]
    BY DEF Displays, ViewType
  <2> HIDE DEF route, w
  <2> QED BY <1>1, <2>1, <2>2, FieldFact
<1>3. ASSUME NEW s \in Stops, NEW o \in PlaceOrNone
      PROVE  Displays([v EXCEPT !.told = "none", !.stops[s] = o], r)
  <2> DEFINE stops == [v.stops EXCEPT ![s] = o]
  <2>1. stops \in [Stops -> PlaceOrNone]
    BY DEF Displays, ViewType
  <2>2. [v EXCEPT !.told = "none", !.stops[s] = o] = [w EXCEPT !.stops = stops]
    BY DEF Displays, ViewType
  <2> HIDE DEF stops, w
  <2> QED BY <1>1, <2>1, <2>2, FieldFact
<1> QED BY <1>2, <1>3

-----------------------------------------------------------------------------
(* Steps keep the shape, and somebody counts *)

\* Requests are well formed.
LEMMA ReqFact ==
  ASSUME NEW op \in Ops, NEW id \in Int, NEW order \in PlaceOrNone, NEW on \in BOOLEAN
  PROVE  /\ Req(op, id, order, on) \in ReqType /\ Req(op, id, order, on).op = op
         /\ Req(op, id, order, on).id = id /\ Req(op, id, order, on).order = order
         /\ Get(op, id) \in ReqType /\ Get(op, id).op = op
  BY PlacesFact DEF Req, Get, ReqType

\* A read, or a decision, suits any rows.
LEMMA PlainFits == \A q, r : q.op \notin {"createStop", "updateStop", "updateRoute"} => ReqFits(q, r)
  BY DEF ReqFits

\* The lists and the stops that are read.
LEMMA ReadsFact ==
  /\ \A route \in 0..MaxRoute : \A q \in StopsOf(route) : q \in ReqType /\ q.op = "stops"
  /\ subject \in Subjects =>
       \A q \in {Get(op, 0) : op \in Lists[subject]} : q \in ReqType /\ q.op \in Reads
  /\ Get("me", 0) \in ReqType /\ Get("me", 0).op = "me"
<1>1. ASSUME NEW route \in 0..MaxRoute, NEW q \in StopsOf(route) PROVE q \in ReqType /\ q.op = "stops"
  <2>1. q = Get("stops", route) /\ route \in Int /\ "stops" \in Ops
    BY DEF StopsOf, Ops, Reads
  <2> QED BY <2>1, ReqFact, PlacesFact
<1>2. ASSUME subject \in Subjects, NEW q \in {Get(op, 0) : op \in Lists[subject]}
      PROVE  q \in ReqType /\ q.op \in Reads
  <2>1. PICK op \in Lists[subject] : q = Get(op, 0)
    BY <1>2
  <2>2. op \in Reads /\ op \in Ops
    BY <1>2, ConsoleAssumption DEF Lists, Reads, Ops
  <2> QED BY <2>1, <2>2, ReqFact, PlacesFact
<1>3. Get("me", 0) \in ReqType /\ Get("me", 0).op = "me"
  <2>1. "me" \in Ops
    BY DEF Ops, Reads
  <2> QED BY <2>1, ReqFact, PlacesFact
<1> QED BY <1>1, <1>2, <1>3

\* A function that will count again begins.
LEMMA BeginsWell ==
  ASSUME ShapeInv, NEW fn \in Functions \ {"select"}, NEW at, NEW asks, NEW v,
         Requests(fn, at, asks), Displays(v, rows),
         (\E q \in asks : q.op = "createRoute") => Cardinality(FreeRoutes(rows)) > Coming("createRoute"),
         Begin(fn, at, asks, v)
  PROVE  ShapeInv' /\ NextInv'
<1>1. ShapeInv' /\ \E k \in Slots : calls'[k].fn = fn
  BY BeginShaped
<1> QED BY <1>1 DEF NextInv, Ends

\* The page reads who is signed in.
LEMMA MeAsked == \A fn \in {"load", "login", "createRoute", "saveRoute", "decide"} : \A at \in {"me", "login"} :
    /\ Requests(fn, at, {Get("me", 0)})
    /\ fn = "login" => Requests(fn, "login", {Get("login", 0)})
<1>1. Get("login", 0) \in ReqType /\ Get("login", 0).op = "login"
  <2>1. "login" \in Ops
    BY DEF Ops, Reads
  <2> QED BY <2>1, ReqFact, PlacesFact
<1> QED BY <1>1, ReadsFact, PlainFits DEF Requests, Awaits, Changes, Decisions, Senders

\* Buttons.
LEMMA TapsShaped ==
  ASSUME ShapeInv, NextInv, Taps
  PROVE  ShapeInv' /\ NextInv'
<1> USE DEF Functions, Senders
<1>0. Displays(view, rows) /\ rows \in RowsType /\ view \in ViewType /\ subject \in Subjects
  BY DEF ShapeInv, Shaped, Displays
<1>1. CASE LoadAll
  <2>1. Displays(Loads(view), rows)
    BY <1>0, LoadsFact
  <2>2. Requests("load", "me", {Get("me", 0)}) /\ Get("me", 0).op = "me"
    BY MeAsked, ReadsFact
  <2> QED BY <1>1, <2>1, <2>2, BeginsWell DEF LoadAll
<1>2. CASE CreateRoute
  <2>1. PICK on \in BOOLEAN : Begin("createRoute", "sent", {Req("createRoute", 0, None, on)},
                                    [view EXCEPT !.told = "none"])
    BY <1>2 DEF CreateRoute, Mutate
  <2> DEFINE q == Req("createRoute", 0, None, on)
             v == [view EXCEPT !.told = "none"]
  <2>2. q \in ReqType /\ q.op = "createRoute"
    <3>1. "createRoute" \in Ops /\ 0 \in Int /\ None \in PlaceOrNone
      BY PlacesFact DEF Ops, Changes
    <3> QED BY <3>1, ReqFact
  <2>3. Displays(v, rows)
    BY <1>0, FieldFact
  <2>4. Cardinality(FreeRoutes(rows)) > Coming("createRoute")
    BY <1>2 DEF CreateRoute
  <2>5. Begin("createRoute", "sent", {q}, v)
    BY <2>1
  <2> HIDE DEF q, v
  <2>6. Requests("createRoute", "sent", {q})
    BY <2>2, PlainFits DEF Requests, Awaits
  <2> QED BY <2>3, <2>4, <2>5, <2>6, BeginsWell
<1>3. CASE SaveRoute
  <2>1. PICK i \in Routes, on \in BOOLEAN :
          /\ view.route[i] # "absent"
          /\ Begin("saveRoute", "sent", {Req("updateRoute", i, None, on)},
                   [view EXCEPT !.told = "none", !.route[i] = Flag(on)])
    BY <1>3 DEF SaveRoute
  <2> DEFINE q == Req("updateRoute", i, None, on)
             v == [view EXCEPT !.told = "none", !.route[i] = Flag(on)]
  <2>2. q \in ReqType /\ q.op = "updateRoute" /\ q.id = i
    <3>1. "updateRoute" \in Ops /\ i \in Int /\ None \in PlaceOrNone
      BY PlacesFact DEF Ops, Changes, Routes
    <3> QED BY <3>1, ReqFact
  <2>3. Displays(v, rows)
    <3>1. \A n : \A j \in Routes : view.route[j] # "absent" =>
             Displays([view EXCEPT !.told = "none", !.route[j] = Flag(n)], rows)
      BY <1>0, EditFact
    <3> QED BY <2>1, <3>1
  <2>6. rows.route[i] # "absent"
    BY <1>0, <2>1 DEF Displays, KnownRoutes
  <2>4. Begin("saveRoute", "sent", {q}, v)
    BY <2>1
  <2> HIDE DEF q, v
  <2>5. Requests("saveRoute", "sent", {q})
    BY <2>2, <2>6 DEF Requests, Awaits, ReqFits
  <2> QED BY <2>2, <2>3, <2>4, <2>5, BeginsWell
<1>4. CASE SelectRoute
  <2>1. PICK i \in Routes : Begin("select", "stops", StopsOf(i), [view EXCEPT !.selected = i])
    BY <1>4 DEF SelectRoute
  <2> DEFINE v == [view EXCEPT !.selected = i]
  <2>2. i \in 0..MaxRoute
    BY BoundsFact DEF Routes
  <2>3. Displays(v, rows) /\ v.told = view.told /\ (Counted(view) => Counted(v))
    BY <1>0, <2>2, FieldFact DEF ViewType, Counted
  <2>4. Begin("select", "stops", StopsOf(i), v)
    BY <2>1
  <2> HIDE DEF v
  <2>5. Requests("select", "stops", StopsOf(i)) /\ \A q \in StopsOf(i) : q.op # "createRoute"
    BY <2>2, ReadsFact, PlainFits DEF Requests, Awaits, Changes, Decisions
  <2>6. /\ ShapeInv' /\ view' = v
        /\ \A j \in Slots : calls[j].fn # "none" => calls'[j] = calls[j]
    BY <2>3, <2>4, <2>5, BeginShaped
  <2>7. NextInv'
    <3>1. \A j \in Slots : Ends(calls[j]) => Ends(calls'[j])
      BY <2>6 DEF Ends
    <3>2. Settles(view) => Settles(view')
      BY <2>3, <2>6 DEF Settles
    <3> QED BY <3>1, <3>2 DEF NextInv, Settles, Counted, Ends
  <2> QED BY <2>6, <2>7
<1>5. CASE CreateStop
  <2> DEFINE q == Req("createStop", view.selected, view.next, TRUE)
             v == [view EXCEPT !.told = "none"]
  <2>1. Begin("createStop", "sent", {q}, v) /\ subject = "stops" /\ view.next \in Places
    BY <1>5 DEF CreateStop, Mutate, Works
  <2>2. view.selected \in 0..MaxRoute /\ view.selected \in Int
    BY <1>0 DEF ViewType
  <2>3. q \in ReqType /\ q.op = "createStop" /\ q.id = view.selected /\ q.order = view.next
    <3>1. "createStop" \in Ops /\ view.next \in PlaceOrNone
      BY <2>1, PlacesFact DEF Ops, Changes
    <3>2. \A id \in Int : \A order \in PlaceOrNone :
             LET x == Req("createStop", id, order, TRUE)
             IN x \in ReqType /\ x.op = "createStop" /\ x.id = id /\ x.order = order
      BY <3>1 DEF Req, ReqType
    <3> QED BY <2>2, <3>1, <3>2
  <2>4. Displays(v, rows)
    BY <1>0, FieldFact
  <2> HIDE DEF q, v
  <2>5. Requests("createStop", "sent", {q})
    BY <2>1, <2>2, <2>3 DEF Requests, Awaits, ReqFits
  <2> QED BY <2>1, <2>3, <2>4, <2>5, BeginsWell
<1>6. CASE SaveStop
  <2>1. PICK s \in Stops, o \in Places : Begin("saveStop", "sent", {Req("updateStop", s, o, TRUE)},
                                               [view EXCEPT !.told = "none", !.stops[s] = o])
    BY <1>6 DEF SaveStop
  <2> DEFINE q == Req("updateStop", s, o, TRUE)
             v == [view EXCEPT !.told = "none", !.stops[s] = o]
  <2>2. q \in ReqType /\ q.op = "updateStop" /\ q.order = o
    <3>1. "updateStop" \in Ops /\ s \in Int /\ o \in PlaceOrNone
      BY PlacesFact DEF Ops, Changes, Stops
    <3> QED BY <3>1, ReqFact
  <2>3. Displays(v, rows)
    BY <1>0, EditFact, PlacesFact
  <2>4. Begin("saveStop", "sent", {q}, v)
    BY <2>1
  <2> HIDE DEF q, v
  <2>5. Requests("saveStop", "sent", {q})
    BY <2>2 DEF Requests, Awaits, ReqFits
  <2> QED BY <2>2, <2>3, <2>4, <2>5, BeginsWell
<1>7. CASE Decide
  <2>1. PICK op \in Decisions : Begin("decide", "sent", {Get(op, 1)}, [view EXCEPT !.told = "none"])
    BY <1>7 DEF Decide, Mutate
  <2> DEFINE q == Get(op, 1)
             v == [view EXCEPT !.told = "none"]
  <2>2. q \in ReqType /\ q.op = op
    <3>1. op \in Ops /\ 1 \in Int /\ None \in PlaceOrNone
      BY PlacesFact DEF Ops, Changes
    <3> QED BY <3>1, ReqFact
  <2>3. Displays(v, rows)
    BY <1>0, FieldFact
  <2>4. Begin("decide", "sent", {q}, v)
    BY <2>1
  <2> HIDE DEF q, v
  <2>5. Requests("decide", "sent", {q}) /\ q.op # "createRoute"
    BY <2>2, PlainFits DEF Requests, Awaits, Decisions
  <2> QED BY <2>3, <2>4, <2>5, BeginsWell
<1>8. CASE DevLogin
  <2>1. Displays(Loads(view), rows)
    BY <1>0, LoadsFact
  <2>2. Requests("login", "login", {Get("login", 0)}) /\ Get("login", 0).op = "login"
    BY MeAsked DEF Get, Req
  <2> QED BY <1>8, <2>1, <2>2, BeginsWell DEF DevLogin
<1>9. CASE Enter
  <2>1. Displays(Loads(Fresh), rows)
    BY FreshFact, LoadsFact
  <2>2. Requests("load", "me", {Get("me", 0)}) /\ Get("me", 0).op = "me"
    BY MeAsked, ReadsFact
  <2> QED BY <1>9, <2>1, <2>2, BeginsWell DEF Enter
<1>10. CASE Logout
  <2> DEFINE v == [Fresh EXCEPT !.open = FALSE]
             sent(k) == calls[k].at = "sent" /\ calls[k].asks # {}
             c(k) == [calls[k] EXCEPT !.fn = "left"]
  <2>1. /\ view' = v /\ UNCHANGED <<subject, rows>>
        /\ calls' = [k \in Slots |-> IF sent(k) THEN c(k) ELSE Idle]
    BY <1>10 DEF Logout
  <2>2. Displays(v, rows) /\ Settles(v)
    BY FreshFact, NothingFact DEF Settles, Counted
  <2>3. ASSUME NEW k \in Slots PROVE
          LET d == IF sent(k) THEN c(k) ELSE Idle
          IN d \in CallType /\ CallFits(d, rows) /\ (Creates(d) => Creates(calls[k]))
    <3>1. CASE sent(k)
      <4>1. calls[k] \in CallType /\ CallFits(calls[k], rows)
        BY DEF ShapeInv, Shaped
      <4>2. c(k) \in CallType /\ c(k).fn = "left" /\ c(k).at = "sent" /\ c(k).asks = calls[k].asks
            /\ c(k).got = calls[k].got /\ c(k).asks # {}
        BY <3>1, <4>1 DEF CallType
      <4>3. calls[k].fn # "none"
        BY <3>1, <4>1 DEF CallFits, Asking
      <4> HIDE DEF c
      <4> QED BY <3>1, <4>1, <4>2, <4>3 DEF CallFits, Asking, Creates
    <3>2. CASE ~sent(k)
      BY <3>2, IdleFact, IdleFits
    <3> QED BY <3>1, <3>2
  <2> HIDE DEF v, sent, c
  <2>4. calls' \in [Slots -> CallType] /\ \A k \in Slots :
            CallFits(calls'[k], rows) /\ (Creates(calls'[k]) => Creates(calls[k]))
    BY <2>1, <2>3
  <2>5. Room(rows, calls')
    BY <1>0, <2>4, RoomKept DEF ShapeInv, Shaped
  <2>6. Shaped(rows, view', calls')
    BY <1>0, <2>1, <2>2, <2>4, <2>5 DEF Shaped
  <2>7. ShapeInv'
    BY <1>0, <2>1, <2>6, ShapedStays
  <2> QED BY <2>1, <2>2, <2>7 DEF NextInv, Settles, Counted
<1> QED BY <1>1, <1>2, <1>3, <1>4, <1>5, <1>6, <1>7, <1>8, <1>9, <1>10 DEF Taps

\* A function returns, and the number has been counted or an error is shown.
LEMMA ReturnsWell ==
  ASSUME ShapeInv, NEW k \in Slots, NEW v, Displays(v, rows), Settles(v), Return(k, v)
  PROVE  ShapeInv' /\ NextInv'
<1>1. ShapeInv' /\ view' = v
  BY ReturnShaped
<1> QED BY <1>1 DEF NextInv, Settles, Counted

\* A function that will count again goes on.
LEMMA AwaitsWell ==
  ASSUME ShapeInv, NEW k \in Slots, calls[k].fn \in Functions \ {"select"}, NEW at, NEW asks, NEW v,
         Requests(calls[k].fn, at, asks), Displays(v, rows), at # "sent",
         Await(k, at, asks, v)
  PROVE  ShapeInv' /\ NextInv'
<1>1. ShapeInv' /\ calls'[k].fn = calls[k].fn
  BY AwaitShaped
<1> QED BY <1>1 DEF NextInv, Ends

\* A function that goes on is one of the page's.
LEMMA ReadyFact ==
  ASSUME ShapeInv, NEW k \in Slots, NEW at, Ready(k, at)
  PROVE  /\ calls[k] \in CallType /\ calls[k].fn \in Functions /\ calls[k].at = at /\ calls[k].asks = {}
         /\ calls[k].got \in GotType /\ KnownRoutes(calls[k].got.route, rows)
         /\ calls[k].fn = "select" => at = "stops"
         /\ at = "sent" => calls[k].fn \in Senders
         /\ calls[k].fn = "createStop" => subject = "stops"
         /\ Displays(view, rows) /\ view \in ViewType /\ rows \in RowsType /\ subject \in Subjects
<1>1. calls[k] \in CallType /\ CallFits(calls[k], rows)
  BY DEF ShapeInv, Shaped
<1>2. calls[k].fn # "none" /\ calls[k].at = at /\ calls[k].asks = {}
  BY DEF Ready, InUse
<1>3. /\ calls[k].fn = "select" => at = "stops"
      /\ calls[k].fn = "left" => at = "sent"
      /\ at = "sent" => calls[k].fn \in Senders
      /\ calls[k].fn = "createStop" => subject = "stops"
  <2> DEFINE c == calls[k]
  <2>1. Asking(c) /\ c.at = at /\ c.asks = {}
    BY <1>1, <1>2 DEF CallFits
  <2> HIDE DEF c
  <2>2. /\ c.fn = "select" => at = "stops"
        /\ c.fn = "left" => at = "sent"
        /\ at = "sent" => c.fn \in Senders
        /\ c.fn = "createStop" => subject = "stops"
    BY <2>1 DEF Asking
  <2> QED BY <2>2 DEF c
<1>4. calls[k].fn # "left"
  BY <1>2, <1>3 DEF Senders
<1>5. calls[k].fn \in Functions /\ calls[k].got \in GotType
  BY <1>1, <1>2, <1>4 DEF CallType
<1> QED BY <1>1, <1>2, <1>3, <1>4, <1>5 DEF CallFits, ShapeInv, Shaped, Displays

\* What loadAll awaits first.
LEMMA MeGoesOn ==
  ASSUME ShapeInv, NEW k \in Slots, Me(k)
  PROVE  ShapeInv' /\ NextInv'
<1>1. /\ calls[k].fn \in Functions \ {"select"} /\ Displays(view, rows) /\ subject \in Subjects
      /\ calls[k].fn = "createStop" => subject = "stops"
  BY ReadyFact DEF Me
<1>2. CASE Failed(k)
  BY <1>1, <1>2, EndsFact, ReturnsWell DEF Me, LoadFails
<1>3. CASE ~Failed(k)
  <2> DEFINE asks == {Get(op, 0) : op \in Lists[subject]}
             v == [view EXCEPT !.user = TRUE]
  <2>1. Await(k, "lists", asks, v)
    BY <1>3 DEF Me
  <2>2. Displays(v, rows)
    BY <1>1, FieldFact
  <2>3. \A q \in asks : q \in ReqType /\ q.op \in Reads
    BY <1>1, ReadsFact
  <2> HIDE DEF asks, v
  <2>4. \A q \in asks : ReqFits(q, rows) /\ q.op \notin Changes
    BY <2>3, PlainFits DEF Reads, Changes, Decisions
  <2>5. Requests(calls[k].fn, "lists", asks)
    BY <1>1, <2>3, <2>4 DEF Requests, Awaits
  <2> QED BY <1>1, <2>1, <2>2, <2>5, AwaitsWell
<1> QED BY <1>2, <1>3

\* The page with the lists that were read.
LEMMA ListsFact ==
  ASSUME NEW v, NEW r, Displays(v, r), NEW route \in [Routes -> RouteStates], KnownRoutes(route, r),
         NEW pending \in BOOLEAN, NEW active \in BOOLEAN, NEW i \in 0..MaxRoute
  PROVE  Displays([v EXCEPT !.route = route, !.pending = pending, !.active = active, !.selected = i], r)
  BY DEF Displays, ViewType

\* The stops of the chosen route, or of the first.
LEMMA StopsRequested ==
  ASSUME NEW fn \in Functions, NEW at \in {"stops", "allStops"}, NEW i \in 0..MaxRoute,
         fn = "select" => at = "stops", fn = "createStop" => subject = "stops"
  PROVE  Requests(fn, at, StopsOf(i))
<1>1. \A q \in StopsOf(i) : q \in ReqType /\ ReqFits(q, rows) /\ q.op \notin Changes
  BY ReadsFact, PlainFits DEF Changes, Decisions
<1> QED BY <1>1 DEF Requests, Awaits

\* The lists arrive.
LEMMA ListsGoOn ==
  ASSUME ShapeInv, NEW k \in Slots, ListsArrive(k)
  PROVE  ShapeInv' /\ NextInv'
<1> DEFINE got == calls[k].got
           route == IF WithStops THEN rows.route ELSE got.route
           selected == IF view.selected # 0 THEN view.selected ELSE First(route)
           v == [view EXCEPT !.route = route, !.pending = got.pending, !.active = got.active,
                             !.selected = selected]
<1>1. /\ calls[k].fn \in Functions \ {"select"} /\ Displays(view, rows) /\ view \in ViewType
      /\ calls[k].fn = "createStop" => subject = "stops"
      /\ got \in GotType /\ KnownRoutes(got.route, rows) /\ rows \in RowsType
  BY ReadyFact DEF ListsArrive
<1>2. IF Failed(k) THEN LoadFails(k)
      ELSE IF selected = 0 THEN Return(k, Loaded(k, [v EXCEPT !.stops = Nothing.stops]))
      ELSE Await(k, "allStops", StopsOf(selected), v)
  BY DEF ListsArrive
<1>3. route \in [Routes -> RouteStates] /\ KnownRoutes(route, rows)
  BY <1>1 DEF GotType, RowsType, KnownRoutes
<1>4. selected \in 0..MaxRoute
  <2> HIDE DEF route
  <2> QED BY <1>1, <1>3, FirstFact DEF ViewType
<1>5. got.pending \in BOOLEAN /\ got.active \in BOOLEAN
  BY <1>1 DEF GotType
<1> HIDE DEF got, route, selected
<1>6. Displays(v, rows)
  BY <1>1, <1>3, <1>4, <1>5, ListsFact
<1> HIDE DEF v
<1>7. CASE Failed(k)
  BY <1>1, <1>2, <1>7, EndsFact, ReturnsWell DEF LoadFails
<1>8. CASE ~Failed(k) /\ selected = 0
  <2> DEFINE w == [v EXCEPT !.stops = Nothing.stops]
  <2>1. Return(k, Loaded(k, w))
    BY <1>2, <1>8
  <2>2. Nothing.stops \in [Stops -> PlaceOrNone] /\ \A s \in Stops : Nothing.stops[s] = None
    BY NothingFact
  <2>3. Displays(w, rows) /\ w.stops = Nothing.stops
    BY <1>6, <2>2, FieldFact DEF Displays, ViewType
  <2> HIDE DEF w
  <2>4. Settles(w)
    BY <2>2, <2>3 DEF Settles, Counted
  <2> QED BY <2>1, <2>3, <2>4, EndsFact, ReturnsWell
<1>9. CASE ~Failed(k) /\ selected # 0
  <2>1. Await(k, "allStops", StopsOf(selected), v)
    BY <1>2, <1>9
  <2>2. Requests(calls[k].fn, "allStops", StopsOf(selected))
    BY <1>1, <1>4, StopsRequested
  <2> QED BY <1>1, <1>6, <2>1, <2>2, AwaitsWell
<1> QED BY <1>7, <1>8, <1>9

\* The stops arrive.
LEMMA StopsGoOn ==
  ASSUME ShapeInv, NextInv, NEW k \in Slots, StopsArrive(k)
  PROVE  ShapeInv' /\ NextInv'
<1>1. PICK at \in {"allStops", "stops"} : Ready(k, at) /\ (at = "allStops" =>
          IF Failed(k) THEN LoadFails(k) ELSE Return(k, Loaded(k, ShowStops(k)))) /\ (at = "stops" =>
          Return(k, IF ~Failed(k) THEN ShowStops(k) ELSE IF calls[k].fn = "select" THEN view ELSE Tell(view)))
  BY DEF StopsArrive
<1>2. /\ Displays(view, rows) /\ calls[k].got.stops \in [Stops -> PlaceOrNone]
      /\ calls[k].fn = "select" => at = "stops"
  BY <1>1, ReadyFact DEF GotType
<1>3. Displays(ShowStops(k), rows) /\ Settles(ShowStops(k))
  BY <1>2, ShowFact
<1>4. Displays(Tell(view), rows) /\ Settles(Tell(view))
  BY <1>2, EndsFact
<1>5. CASE at = "allStops" /\ Failed(k)
  BY <1>1, <1>4, <1>5, EndsFact, ReturnsWell DEF LoadFails
<1>6. CASE at = "allStops" /\ ~Failed(k)
  BY <1>1, <1>3, <1>6, EndsFact, ReturnsWell
<1>7. CASE at = "stops" /\ ~Failed(k)
  BY <1>1, <1>3, <1>7, ReturnsWell
<1>8. CASE at = "stops" /\ Failed(k) /\ calls[k].fn # "select"
  BY <1>1, <1>4, <1>8, ReturnsWell
<1>9. CASE at = "stops" /\ Failed(k) /\ calls[k].fn = "select"
  <2>1. Return(k, view)
    BY <1>1, <1>9
  <2>2. ShapeInv' /\ view' = view /\ \A j \in Slots \ {k} : calls'[j] = calls[j]
    BY <1>2, <2>1, ReturnShaped
  <2>3. \A j \in Slots : Ends(calls[j]) => j # k /\ calls'[j] = calls[j]
    BY <1>9, <2>2 DEF Ends
  <2> QED BY <2>2, <2>3 DEF NextInv, Ends, Settles, Counted
<1> QED BY <1>5, <1>6, <1>7, <1>8, <1>9

\* A change was answered.
LEMMA MutatedGoesOn ==
  ASSUME ShapeInv, NEW k \in Slots, Mutated(k)
  PROVE  ShapeInv' /\ NextInv'
<1> DEFINE fn == calls[k].fn
<1>1. /\ fn \in Senders /\ Displays(view, rows) /\ view \in ViewType /\ calls[k].got \in GotType
      /\ fn = "createStop" => subject = "stops"
  BY ReadyFact DEF Mutated
<1>2. fn \in Functions \ {"select"}
  BY <1>1 DEF Functions, Senders
<1>3. view.selected \in 0..MaxRoute /\ view.stops \in [Stops -> PlaceOrNone]
  BY <1>1 DEF ViewType
<1>4. CASE Failed(k)
  <2>1. Return(k, Tell(view))
    BY <1>4 DEF Mutated
  <2> QED BY <1>1, <2>1, EndsFact, ReturnsWell
<1>5. CASE ~Failed(k) /\ fn = "createStop"
  <2> DEFINE n == NextStopOrder(view.stops) + 1
             v == [view EXCEPT !.next = n]
  <2>1. Await(k, "stops", StopsOf(view.selected), v)
    BY <1>5 DEF Mutated
  <2>2. n \in 0..MaxOrder + 1
    BY <1>1, <1>3, <1>5, NextOrderFact, BoundsFact
  <2> HIDE DEF n
  <2>3. Displays(v, rows)
    BY <1>1, <2>2, FieldFact
  <2> HIDE DEF v, fn
  <2>4. Requests(fn, "stops", StopsOf(view.selected))
    BY <1>1, <1>2, <1>3, <1>5, StopsRequested
  <2> QED BY <1>2, <2>1, <2>3, <2>4, AwaitsWell DEF fn
<1>6. CASE ~Failed(k) /\ fn = "saveStop"
  <2>1. Await(k, "stops", StopsOf(view.selected), view)
    BY <1>6 DEF Mutated
  <2> HIDE DEF fn
  <2>2. Requests(fn, "stops", StopsOf(view.selected))
    BY <1>2, <1>3, <1>6, StopsRequested
  <2> QED BY <1>1, <1>2, <2>1, <2>2, AwaitsWell DEF fn
<1>7. CASE ~Failed(k) /\ fn = "createRoute"
  <2> DEFINE made == calls[k].got.made
             v == [view EXCEPT !.selected = made]
  <2>1. Await(k, "me", {Get("me", 0)}, Loads(v))
    BY <1>7 DEF Mutated
  <2>2. made \in 0..MaxRoute
    BY <1>1 DEF GotType
  <2> HIDE DEF made
  <2>3. Displays(v, rows)
    BY <1>1, <2>2, FieldFact
  <2> HIDE DEF v, fn
  <2>4. Displays(Loads(v), rows)
    BY <2>3, LoadsFact
  <2>5. Requests(fn, "me", {Get("me", 0)})
    BY <1>7, MeAsked
  <2> QED BY <1>2, <2>1, <2>4, <2>5, AwaitsWell DEF fn
<1>8. CASE ~Failed(k) /\ fn \in {"saveRoute", "decide"}
  <2>1. Await(k, "me", {Get("me", 0)}, Loads(view))
    BY <1>8 DEF Mutated
  <2> HIDE DEF fn
  <2>2. Displays(Loads(view), rows)
    BY <1>1, LoadsFact
  <2>3. Requests(fn, "me", {Get("me", 0)})
    BY <1>8, MeAsked
  <2> QED BY <1>2, <2>1, <2>2, <2>3, AwaitsWell DEF fn
<1> QED BY <1>1, <1>4, <1>5, <1>6, <1>7, <1>8 DEF Senders

\* A login was answered, and loadAll follows.
LEMMA LoginGoesOn ==
  ASSUME ShapeInv, NEW k \in Slots, LoggedIn(k)
  PROVE  ShapeInv' /\ NextInv'
<1>1. /\ calls[k].fn \in Functions \ {"select"} /\ Displays(view, rows)
      /\ calls[k].fn = "createStop" => subject = "stops"
  BY ReadyFact DEF LoggedIn
<1>2. CASE Failed(k)
  BY <1>1, <1>2, EndsFact, ReturnsWell DEF LoggedIn, LoadFails
<1>3. CASE ~Failed(k)
  <2> DEFINE none == Idle
             fn == calls[k].fn
             asks == {Get("me", 0)}
             c == [none EXCEPT !.fn = fn, !.at = "me", !.asks = asks]
             v == [view EXCEPT !.user = TRUE]
  <2>1. /\ calls' = [calls EXCEPT ![k] = c] /\ view' = Loads(v)
        /\ UNCHANGED <<subject, rows>>
    BY <1>3 DEF LoggedIn
  <2>2. Displays(v, rows)
    BY <1>1, FieldFact
  <2>3. asks \in SUBSET ReqType /\ \A q \in asks : q.op = "me"
    BY ReadsFact
  <2>4. none \in CallType /\ none.got = Nothing
    BY IdleFact
  <2> HIDE DEF none, asks, v
  <2>5. Displays(view', rows)
    BY <2>1, <2>2, LoadsFact
  <2>6. c \in CallType /\ c.fn = fn /\ c.at = "me" /\ c.asks = asks /\ c.got = Nothing
    BY <1>1, <2>3, <2>4 DEF CallType, Awaits
  <2> HIDE DEF c
  <2>7. Asking(c)
    BY <1>1, <2>3, <2>6 DEF Asking, Functions, Senders, Changes, Decisions
  <2>8. CallFits(c, rows) /\ ~Creates(c)
    BY <2>3, <2>6, <2>7, PlainFits, NothingFact DEF CallFits, Creates, KnownRoutes
  <2>9. ShapeInv'
    BY <2>1, <2>5, <2>6, <2>8, OneShaped
  <2>10. Ends(calls'[k])
    BY <1>1, <2>1, <2>6 DEF Ends, ShapeInv, Shaped
  <2> QED BY <2>9, <2>10 DEF NextInv, Ends
<1> QED BY <1>2, <1>3

-----------------------------------------------------------------------------
(* The rows change *)

\* What was true of routes that there are stays true.
LEMMA FitsStill ==
  ASSUME NEW r, NEW s, RoutesStay(r, s)
  PROVE  /\ \A c : CallFits(c, r) => CallFits(c, s)
         /\ \A v : Displays(v, r) => Displays(v, s)
<1>1. \A route : KnownRoutes(route, r) => KnownRoutes(route, s)
  BY DEF KnownRoutes, RoutesStay
<1>2. \A q : ReqFits(q, r) => ReqFits(q, s)
  BY DEF ReqFits, RoutesStay
<1> QED BY <1>1, <1>2 DEF CallFits, Displays

\* A function is answered, and the rows may have changed.
LEMMA WriteShaped ==
  ASSUME ShapeInv, NextInv, NEW k \in Slots, NEW c \in CallType, CallFits(c, rows),
         calls' = [calls EXCEPT ![k] = c], calls[k].fn # "left" => c.fn = calls[k].fn,
         rows' \in RowsType, RoutesStay(rows, rows'), Room(rows', calls'), UNCHANGED <<subject, view>>
  PROVE  ShapeInv' /\ NextInv'
<1>1. /\ calls \in [Slots -> CallType] /\ Displays(view, rows) /\ subject \in Subjects
      /\ \A j \in Slots : CallFits(calls[j], rows)
  BY DEF ShapeInv, Shaped
<1>2. calls' \in [Slots -> CallType] /\ \A j \in Slots : calls'[j] = IF j = k THEN c ELSE calls[j]
  BY <1>1
<1>3. \A j \in Slots : CallFits(calls'[j], rows')
  BY <1>1, <1>2, FitsStill
<1>4. Displays(view', rows')
  BY <1>1, FitsStill
<1>5. ShapeInv'
  <2>1. Shaped(rows', view', calls')
    BY <1>2, <1>3, <1>4 DEF Shaped
  <2> QED BY <1>1, <2>1, ShapedStays
<1>6. \A j \in Slots : Ends(calls[j]) => Ends(calls'[j])
  BY <1>2 DEF Ends, Functions, Senders
<1> QED BY <1>5, <1>6 DEF NextInv, Ends, Settles, Counted

\* The rows change, and routes are created by no function.
LEMMA OthersWrite ==
  ASSUME ShapeInv, NextInv, rows' \in RowsType, RoutesStay(rows, rows'), FreeRoutes(rows') = FreeRoutes(rows),
         UNCHANGED <<subject, view, calls>>
  PROVE  ShapeInv' /\ NextInv'
<1>1. /\ calls \in [Slots -> CallType] /\ Displays(view, rows) /\ subject \in Subjects /\ rows \in RowsType
      /\ \A j \in Slots : CallFits(calls[j], rows)
      /\ Room(rows, calls)
  BY DEF ShapeInv, Shaped
<1>2. Room(rows', calls')
  BY <1>1, RoomKept
<1>3. Shaped(rows', view', calls')
  BY <1>1, <1>2, FitsStill DEF Shaped
<1>4. ShapeInv'
  BY <1>1, <1>3, ShapedStays
<1> QED BY <1>4 DEF NextInv, Ends, Settles, Counted

\* The room after a request of a function was accepted, when the function does not create routes
\* any more.
LEMMA RoomAfter ==
  ASSUME ShapeInv, NEW k \in InUse, NEW q \in calls[k].asks, NEW c \in CallType, ~Creates(c),
         calls' = [calls EXCEPT ![k] = c]
  PROVE  /\ Room(rows, calls') /\ Room(Applied(rows, q), calls')
         /\ q.op = "createRoute" => FreeRoutes(rows) # {}
<1> DEFINE new == Applied(rows, q)
<1>1. k \in Slots /\ calls[k].fn # "none"
  BY DEF InUse
<1>2. /\ calls \in [Slots -> CallType] /\ rows \in RowsType /\ Room(rows, calls)
      /\ q \in ReqType /\ ReqFits(q, rows)
  BY <1>1 DEF ShapeInv, Shaped, CallType, CallFits
<1>3. new \in RowsType /\ TakesRoute(rows, new, q)
  BY <1>2, AppliedShape
<1>4. ~Creates(calls'[k]) /\ \A j \in Slots : Creates(calls'[j]) => Creates(calls[j])
  BY <1>1, <1>2
<1>5. Room(rows, calls')
  BY <1>2, <1>4, RoomKept
<1> HIDE DEF new
<1>6. CASE q.op = "createRoute"
  <2>1. Creates(calls[k])
    BY <1>1, <1>6 DEF Creates
  <2>2. FreeRoutes(rows) # {} => FreeRoutes(new) = FreeRoutes(rows) \ {Least(FreeRoutes(rows))}
    BY <1>3, <1>6 DEF TakesRoute
  <2>3. Room(new, calls') /\ FreeRoutes(rows) # {}
    BY <1>1, <1>2, <1>3, <1>4, <2>1, <2>2, RoomUsed
  <2> QED BY <1>5, <2>3 DEF new
<1>7. CASE q.op # "createRoute"
  <2>1. FreeRoutes(new) = FreeRoutes(rows)
    BY <1>3, <1>7 DEF TakesRoute
  <2>2. Room(new, calls')
    BY <1>2, <1>3, <1>4, <2>1, RoomKept
  <2> QED BY <1>5, <1>7, <2>2 DEF new
<1> QED BY <1>6, <1>7

\* A request of a function is answered.
LEMMA ServeShaped ==
  ASSUME ShapeInv, NextInv, NEW k \in InUse, Serve(k)
  PROVE  ShapeInv' /\ NextInv'
<1>0. /\ k \in Slots /\ calls[k] \in CallType /\ calls \in [Slots -> CallType] /\ CallFits(calls[k], rows)
      /\ rows \in RowsType /\ calls[k].fn # "none"
  BY DEF InUse, ShapeInv, Shaped
<1> DEFINE old == calls[k]
           answer(q) == Answer(old.got, q, rows, Applied(rows, q))
           done(q) == [old EXCEPT !.asks = @ \ {q}, !.got = answer(q)]
           refused(q) == [old EXCEPT !.asks = {}, !.got.verdict = Verdict(rows, q)]
           next(q) == IF old.fn = "left" THEN Idle ELSE IF Verdict(rows, q) = "ok" THEN done(q) ELSE refused(q)
<1>1. PICK q \in old.asks :
        /\ Write(IF Verdict(rows, q) = "ok" THEN Applied(rows, q) ELSE rows)
        /\ calls' = [calls EXCEPT ![k] = next(q)]
        /\ UNCHANGED <<subject, view>>
  BY <1>0 DEF Serve
<1>2. q \in ReqType /\ ReqFits(q, rows)
  BY <1>0, <1>1 DEF CallType, CallFits
<1>3. /\ rows' = IF Verdict(rows, q) = "ok" THEN Applied(rows, q) ELSE rows
      /\ rows' \in RowsType /\ RoutesStay(rows, rows')
  <2>1. rows' = IF Verdict(rows, q) = "ok" THEN Applied(rows, q) ELSE rows
    BY <1>1 DEF Write
  <2>2. Applied(rows, q) \in RowsType /\ RoutesStay(rows, Applied(rows, q))
    BY <1>0, <1>2, AppliedShape
  <2>3. RoutesStay(rows, rows)
    BY DEF RoutesStay
  <2> QED BY <1>0, <2>1, <2>2, <2>3
<1>4. CASE old.fn = "left"
  <2>1. next(q) = Idle
    BY <1>4
  <2>2. calls' = [calls EXCEPT ![k] = Idle]
    BY <1>1, <2>1
  <2> HIDE DEF next, done, refused, answer
  <2>3. Idle \in CallType /\ CallFits(Idle, rows) /\ ~Creates(Idle)
    BY IdleFact, IdleFits
  <2>4. Room(rows', calls')
    BY <1>1, <1>3, <2>2, <2>3, RoomAfter
  <2> QED BY <1>0, <1>1, <1>3, <1>4, <2>2, <2>3, <2>4, WriteShaped
<1>5. CASE old.fn # "left" /\ Verdict(rows, q) # "ok"
  <2> DEFINE got == [old.got EXCEPT !.verdict = Verdict(rows, q)]
             c == [old EXCEPT !.asks = {}, !.got = got]
  <2>1. next(q) = c
    BY <1>0, <1>5 DEF CallType
  <2>2. calls' = [calls EXCEPT ![k] = c]
    BY <1>1, <2>1
  <2>3. got \in GotType /\ got.route = old.got.route
    <3>1. Verdict(rows, q) \in {"ok", "refused", "lost"}
      BY <1>2, VerdictFact
    <3> QED BY <1>0, <3>1 DEF CallType, GotType
  <2> HIDE DEF next, done, refused, answer, got
  <2>4. c \in CallType /\ c.fn = old.fn /\ c.at = old.at /\ c.asks = {} /\ c.got = got
    BY <1>0, <2>3 DEF CallType
  <2> HIDE DEF c
  <2>5. CallFits(c, rows) /\ ~Creates(c)
    BY <1>0, <1>5, <2>3, <2>4 DEF CallFits, Asking, Creates
  <2>6. Room(rows', calls')
    BY <1>1, <1>3, <2>2, <2>4, <2>5, RoomAfter
  <2> QED BY <1>0, <1>1, <1>3, <2>2, <2>4, <2>5, <2>6, WriteShaped
<1>6. CASE old.fn # "left" /\ Verdict(rows, q) = "ok"
  <2> DEFINE left == old.asks \ {q}
             got == answer(q)
             c == [old EXCEPT !.asks = left, !.got = got]
  <2>1. calls' = [calls EXCEPT ![k] = c]
    BY <1>1, <1>6
  <2>2. rows' = Applied(rows, q)
    BY <1>3, <1>6
  <2>3. left \in SUBSET ReqType /\ (q.op \in Changes => left = {}) /\ \A x \in left : x.op \notin Changes
    <3>1. Asking(old)
      BY <1>0 DEF CallFits
    <3>2. q.op \in Changes => old.asks = {q}
      BY <1>1, <3>1 DEF Asking
    <3>3. \A x \in left : x.op \notin Changes
      BY <1>1, <3>1 DEF Asking
    <3>4. left \in SUBSET ReqType
      BY <1>0 DEF CallType
    <3> QED BY <3>2, <3>3, <3>4
  <2>4. old.got \in GotType /\ KnownRoutes(old.got.route, rows)
    BY <1>0 DEF CallType, CallFits
  <2> DEFINE d == [old EXCEPT !.asks = {}]
  <2>5. q.op = "createRoute" => FreeRoutes(rows) # {}
    <3>1. CASE q.op = "createRoute"
      <4>1. d \in CallType /\ ~Creates(d)
        BY <1>0 DEF CallType, Creates
      <4> HIDE DEF d
      <4>2. Room(rows, calls)
        BY DEF ShapeInv, Shaped
      <4>3. Creates(calls[k])
        BY <1>0, <1>1, <3>1 DEF Creates
      <4>4. \A j \in Slots : Creates([calls EXCEPT ![k] = d][j]) => Creates(calls[j])
        BY <1>0, <4>1
      <4>5. ~Creates([calls EXCEPT ![k] = d][k])
        BY <1>0, <4>1
      <4>6. Applied(rows, q) \in RowsType /\ TakesRoute(rows, Applied(rows, q), q)
        BY <1>0, <1>2, AppliedShape
      <4> DEFINE ds == [calls EXCEPT ![k] = d]
                 new == Applied(rows, q)
      <4>7. FreeRoutes(rows) # {} => FreeRoutes(new) = FreeRoutes(rows) \ {Least(FreeRoutes(rows))}
        BY <3>1, <4>6 DEF TakesRoute
      <4>8. new \in RowsType /\ ~Creates(ds[k]) /\ \A j \in Slots : Creates(ds[j]) => Creates(calls[j])
        BY <4>4, <4>5, <4>6
      <4> HIDE DEF ds, new
      <4> QED BY <1>0, <4>2, <4>3, <4>7, <4>8, RoomUsed
    <3> QED BY <3>1
  <2>6. got \in GotType /\ KnownRoutes(got.route, rows)
    BY <1>0, <1>2, <2>4, <2>5, AnswerShape
  <2> HIDE DEF next, done, refused, answer, got, left
  <2>7. c \in CallType /\ c.fn = old.fn /\ c.at = old.at /\ c.asks = left /\ c.got = got
    BY <1>0, <2>3, <2>6 DEF CallType
  <2> HIDE DEF c
  <2>8. \A x \in left : x \in old.asks
    BY DEF left
  <2>9. CallFits(c, rows) /\ ~Creates(c)
    <3>1. Asking(c)
      BY <1>0, <1>6, <2>3, <2>7 DEF CallFits, Asking
    <3>2. ~Creates(c)
      BY <2>3, <2>7 DEF Creates, Changes
    <3> QED BY <1>0, <2>6, <2>7, <2>8, <3>1, <3>2 DEF CallFits
  <2>10. Room(rows', calls')
    BY <1>1, <2>1, <2>2, <2>7, <2>9, RoomAfter
  <2> QED BY <1>0, <1>1, <1>3, <2>1, <2>7, <2>9, <2>10, WriteShaped
<1> QED BY <1>4, <1>5, <1>6

\* The connection of a function drops.
LEMMA LoseShaped ==
  ASSUME ShapeInv, NextInv, NEW k \in InUse, Lose(k)
  PROVE  ShapeInv' /\ NextInv'
<1>0. /\ k \in Slots /\ calls[k] \in CallType /\ calls \in [Slots -> CallType] /\ CallFits(calls[k], rows)
      /\ rows \in RowsType /\ calls[k].fn # "none" /\ Room(rows, calls)
  BY DEF InUse, ShapeInv, Shaped
<1> DEFINE old == calls[k]
           got == [Nothing EXCEPT !.verdict = "lost"]
           lost == [old EXCEPT !.asks = {}, !.got = got]
           c == IF old.fn = "left" THEN Idle ELSE lost
<1>1. PICK r \in {rows} \cup {Applied(rows, q) : q \in {x \in old.asks : Verdict(rows, x) = "ok"}} :
        rows' = r
  BY DEF Lose, Write
<1>2. calls' = [calls EXCEPT ![k] = c] /\ UNCHANGED <<subject, view>>
  BY <1>0 DEF Lose
<1>3. c \in CallType /\ CallFits(c, rows) /\ ~Creates(c) /\ (old.fn # "left" => c.fn = old.fn)
  <2>1. CASE old.fn = "left"
    BY <2>1, IdleFact, IdleFits
  <2>2. CASE old.fn # "left"
    <3>1. got \in GotType /\ got.route = Nothing.route
      BY EmptyFact
    <3> HIDE DEF got
    <3>2. lost \in CallType /\ lost.fn = old.fn /\ lost.at = old.at /\ lost.asks = {} /\ lost.got = got
      BY <1>0, <3>1 DEF CallType
    <3>3. c = lost
      BY <2>2
    <3> HIDE DEF lost, c
    <3>4. CallFits(lost, rows) /\ ~Creates(lost)
      BY <1>0, <2>2, <3>1, <3>2, NothingFact DEF CallFits, Asking, Creates, KnownRoutes
    <3> QED BY <3>2, <3>3, <3>4
  <2> QED BY <2>1, <2>2
<1> HIDE DEF c
<1>4. \/ rows' = rows
      \/ \E q \in old.asks : rows' = Applied(rows, q)
  BY <1>1
<1>5. CASE rows' = rows
  <2>1. RoutesStay(rows, rows) /\ rows' \in RowsType
    BY <1>0, <1>5 DEF RoutesStay
  <2>2. \A j \in Slots : Creates(calls'[j]) => Creates(calls[j])
    BY <1>0, <1>2, <1>3
  <2>3. Room(rows', calls')
    BY <1>0, <1>5, <2>2, RoomKept
  <2> QED BY <1>0, <1>2, <1>3, <1>5, <2>1, <2>3, WriteShaped
<1>6. CASE \E q \in old.asks : rows' = Applied(rows, q)
  <2>1. PICK q \in old.asks : rows' = Applied(rows, q)
    BY <1>6
  <2>2. q \in ReqType /\ ReqFits(q, rows)
    BY <1>0 DEF CallType, CallFits
  <2>3. rows' \in RowsType /\ RoutesStay(rows, rows')
    BY <1>0, <2>1, <2>2, AppliedShape
  <2>4. Room(rows', calls')
    BY <1>2, <1>3, <2>1, RoomAfter
  <2> QED BY <1>0, <1>2, <1>3, <2>3, <2>4, WriteShaped
<1> QED BY <1>4, <1>5, <1>6

\* With stops the other administrator only moves one.
LEMMA OthersMoveStops ==
  ASSUME subject = "stops" \/ subject = "rider"
  PROVE  \A q \in OtherRequests : \E s \in Stops, o \in Places : q = Req("updateStop", s, o, TRUE)
<1> DEFINE Updates == {Req("updateRoute", i, None, on) :
                         i \in {j \in Routes : rows.route[j] # "absent"}, on \in BOOLEAN}
           Deciding == {Get(op, 1) : op \in Decisions}
           There == {t \in Stops : rows.stop[t] # NoStop}
           Moves == {Req("updateStop", s, o, TRUE) : s \in There, o \in Places}
<1>1. OtherRequests = CASE subject = "routes" -> Updates [] subject = "driver" -> Deciding
                        [] subject \in {"stops", "rider"} -> Moves
  BY DEF OtherRequests, WithStops
<1> HIDE DEF Updates, Deciding, Moves
<1>2. OtherRequests = Moves
  BY <1>1
<1> SUFFICES ASSUME NEW q \in OtherRequests
             PROVE  \E s \in Stops, o \in Places : q = Req("updateStop", s, o, TRUE)
  OBVIOUS
<1>3. q \in Moves /\ There \subseteq Stops
  BY <1>2
<1> HIDE DEF There
<1>4. PICK s \in There, o \in Places : q = Req("updateStop", s, o, TRUE)
  BY <1>3 DEF Moves, Req
<1> QED BY <1>3, <1>4

\* Another administrator, the driver, and riders.
LEMMA OthersShaped ==
  ASSUME ShapeInv, NextInv, OtherAdmin \/ DriverActs \/ ReadPickup \/ ReadDropoff \/ Answered
  PROVE  ShapeInv' /\ NextInv'
<1>0. subject \in Subjects /\ rows \in RowsType
  BY DEF ShapeInv, Shaped
<1>1. CASE OtherAdmin
  <2>1. PICK q \in OtherRequests : rows' = Applied(rows, q)
    BY <1>1 DEF OtherAdmin, Write
  <2>2. q \in ReqType /\ ReqFits(q, rows) /\ q.op # "createRoute"
    <3>1. CASE subject = "routes"
      <4>1. PICK i \in Routes, on \in BOOLEAN :
              rows.route[i] # "absent" /\ q = Req("updateRoute", i, None, on)
        BY <2>1, <3>1 DEF OtherRequests, WithStops
      <4>2. "updateRoute" \in Ops /\ i \in Int /\ None \in PlaceOrNone
        BY PlacesFact DEF Ops, Changes, Routes
      <4>3. q \in ReqType /\ q.op = "updateRoute" /\ q.id = i
        BY <4>1, <4>2, ReqFact
      <4> QED BY <4>1, <4>3 DEF ReqFits
    <3>2. CASE subject = "driver"
      <4>1. PICK op \in Decisions : q = Get(op, 1)
        BY <2>1, <3>2 DEF OtherRequests, WithStops
      <4>2. op \in Ops /\ 1 \in Int /\ None \in PlaceOrNone
        BY PlacesFact DEF Ops, Changes
      <4>3. q \in ReqType /\ q.op = op
        BY <4>1, <4>2, ReqFact
      <4> QED BY <4>3, PlainFits DEF Decisions
    <3>3. CASE subject = "stops" \/ subject = "rider"
      <4>1. PICK s \in Stops, o \in Places : q = Req("updateStop", s, o, TRUE)
        BY <3>3, OthersMoveStops
      <4>2. "updateStop" \in Ops /\ s \in Int /\ o \in PlaceOrNone
        BY PlacesFact DEF Ops, Changes, Stops
      <4>3. q \in ReqType /\ q.op = "updateStop" /\ q.order = o
        BY <4>1, <4>2, ReqFact
      <4> QED BY <4>1, <4>3 DEF ReqFits
    <3> QED BY <1>0, <3>1, <3>2, <3>3, ConsoleAssumption
  <2>3. rows' \in RowsType /\ RoutesStay(rows, rows') /\ FreeRoutes(rows') = FreeRoutes(rows)
    BY <1>0, <2>1, <2>2, AppliedShape DEF TakesRoute
  <2>4. UNCHANGED <<subject, view, calls>>
    BY <1>1 DEF OtherAdmin
  <2> QED BY <2>3, <2>4, OthersWrite
<1>2. CASE DriverActs
  <2>1. PICK docs \in BOOLEAN : rows' = [rows EXCEPT !.driver = "pending", !.docs = docs]
    BY <1>2 DEF DriverActs
  <2>2. rows' \in RowsType /\ rows'.route = rows.route
    BY <1>0, <2>1 DEF RowsType, DriverStates
  <2>3. RoutesStay(rows, rows') /\ FreeRoutes(rows') = FreeRoutes(rows)
    BY <2>2 DEF RoutesStay, FreeRoutes
  <2>4. UNCHANGED <<subject, view, calls>>
    BY <1>2 DEF DriverActs
  <2> QED BY <2>2, <2>3, <2>4, OthersWrite
<1>3. CASE ReadPickup \/ ReadDropoff \/ Answered
  <2>1. UNCHANGED <<subject, view, calls, rows>> /\ RoutesStay(rows, rows)
    BY <1>3 DEF ReadPickup, ReadDropoff, Answered, RoutesStay
  <2> QED BY <1>0, <2>1, OthersWrite
<1> QED BY <1>1, <1>2, <1>3

\* At first the page is closed and one route is there.
LEMMA InitShaped == Init => ShapeInv /\ NextInv
<1> SUFFICES ASSUME Init PROVE ShapeInv /\ NextInv
  OBVIOUS
<1>1. subject \in Subjects /\ rows = InitialRows(subject)
  BY DEF Init
<1>2. rows \in RowsType
  <2>1. \A t \in Stops : t - 1 \in Orders
    BY BoundsFact DEF Stops, Orders
  <2>2. \A t \in Stops : subject = "rider" => t - 1 \in PlaceOrNone
    BY <2>1 DEF PlaceOrNone, Places
  <2>3. [i \in Routes |-> IF i = 1 THEN "active" ELSE "absent"] \in [Routes -> RouteStates]
    BY DEF RouteStates
  <2>4. [t \in Stops |-> IF subject = "rider" THEN [route |-> 1, order |-> t - 1] ELSE NoStop]
          \in [Stops -> [route : 0..MaxRoute, order : PlaceOrNone]]
    BY <2>2, BoundsFact, PlacesFact DEF NoStop
  <2> QED BY <1>1, <2>3, <2>4 DEF InitialRows, RowsType, DriverStates
<1>3. Displays(view, rows) /\ Settles(view)
  <2>1. view = [Fresh EXCEPT !.open = FALSE]
    BY DEF Init
  <2>2. Displays(view, rows) /\ \A s \in Stops : view.stops[s] = None
    BY <2>1, FreshFact, NothingFact
  <2> QED BY <2>2 DEF Settles, Counted
<1>4. calls = [k \in Slots |-> Idle]
  BY DEF Init
<1>5. calls \in [Slots -> CallType] /\ \A k \in Slots : CallFits(calls[k], rows) /\ ~Creates(calls[k])
  BY <1>4, IdleFact, IdleFits
<1>6. Room(rows, calls)
  <2>1. {k \in Slots : Creates(calls[k])} = {}
    BY <1>5
  <2>2. Cardinality({k \in Slots : Creates(calls[k])}) = 0
    BY <2>1, FS_EmptySet
  <2>3. Cardinality(FreeRoutes(rows)) \in Nat
    BY <1>2, FreeFact, FS_CardinalityType
  <2> QED BY <2>2, <2>3 DEF Room
<1> QED BY <1>1, <1>2, <1>3, <1>5, <1>6 DEF ShapeInv, Shaped, NextInv

\* A step keeps the shape and the number.
LEMMA StepShaped == ShapeInv /\ NextInv /\ [Next]_vars => ShapeInv' /\ NextInv'
<1> SUFFICES ASSUME ShapeInv, NextInv, [Next]_vars PROVE ShapeInv' /\ NextInv'
  OBVIOUS
<1>1. CASE Taps
  BY <1>1, TapsShaped
<1>2. CASE OtherAdmin \/ DriverActs \/ ReadPickup \/ ReadDropoff \/ Answered
  BY <1>2, OthersShaped
<1>3. CASE \E k \in InUse : Serve(k) \/ Lose(k)
  BY <1>3, ServeShaped, LoseShaped
<1>4. CASE \E k \in InUse : Continue(k)
  <2>1. PICK k \in Slots : Continue(k)
    BY <1>4 DEF InUse
  <2> QED BY <2>1, MeGoesOn, ListsGoOn, StopsGoOn, MutatedGoesOn, LoginGoesOn DEF Continue
<1>5. CASE UNCHANGED vars
  <2>1. UNCHANGED <<subject, view, calls, rows>> /\ RoutesStay(rows, rows) /\ rows \in RowsType
    BY <1>5 DEF vars, RoutesStay, ShapeInv, Shaped
  <2> QED BY <2>1, OthersWrite
<1> QED BY <1>1, <1>2, <1>3, <1>4, <1>5 DEF Next

-----------------------------------------------------------------------------
(* The theorems *)

\* At first there are no stops, or one at each place.
LEMMA InitConsole == Init => ConsoleInv
<1> SUFFICES ASSUME Init PROVE ConsoleInv
  OBVIOUS
<1>1. RowsFormed(rows) /\ OrdersUnique
  BY ConsoleAssumption
     DEF Init, InitialRows, NoStop, RowsFormed, OrdersUnique, Stops
<1>2. CallsFormed
  BY IdleFormed DEF Init, CallsFormed
<1>3. RiderInv /\ BookedForward
  BY DEF Init, Resting, RiderInv, BookedForward
<1> QED BY <1>1, <1>2, <1>3 DEF Init, ConsoleInv

\* Nothing happens.
LEMMA StutterConsole == ConsoleInv /\ UNCHANGED vars => ConsoleInv'
  BY DEF vars, ConsoleInv, CallsFormed, RiderInv, OrdersUnique, BookedForward

\* The inductive invariant.
THEOREM ConsoleInvariant == Spec => []ConsoleInv
<1>1. ConsoleInv /\ [Next]_vars => ConsoleInv'
  BY TapsKeep, ContinueKeeps, ServeKeeps, LoseKeeps, OthersKeep, RiderKeeps, StutterConsole
     DEF Next, InUse
<1> QED BY InitConsole, <1>1, PTL DEF Spec

\* Two administrators who save, move and send again what was lost never give two stops of a route
\* the same place (admin.service.ts and the unique index on route and order).
THEOREM OrdersUniqueHolds == Spec => []OrdersUnique
<1>1. ConsoleInv => OrdersUnique
  BY DEF ConsoleInv
<1> QED BY ConsoleInvariant, <1>1, PTL

\* A ride found or booked goes forward on its route as it was at some moment of the request, unless
\* its stops moved twice between the two reads (trips.service.ts, bookings.service.ts).
THEOREM BookedForwardHolds == Spec => []BookedForward
<1>1. ConsoleInv => BookedForward
  BY DEF ConsoleInv
<1> QED BY ConsoleInvariant, <1>1, PTL

\* The inductive invariant about the page: everything keeps its shape, there is room for the routes
\* that are being created, and the number for a new stop is past the stops on display, or an error
\* is shown, or a function is in flight that will count again.
THEOREM NextInvariant == Spec => [](ShapeInv /\ NextInv)
<1> QED BY InitShaped, StepShaped, PTL DEF Spec

SessionTyped == session \in BOOLEAN
\* Only the answer of a sign-in and logout change the session.
LEMMA SessionStep == ShapeInv /\ SessionTyped /\ [Next]_vars => SessionTyped'
<1> SUFFICES ASSUME ShapeInv, SessionTyped, [Next]_vars PROVE SessionTyped'
  OBVIOUS
<1> DEFINE Same == session' = session
<1>1. ASSUME NEW fn, NEW at, NEW asks, NEW v, Begin(fn, at, asks, v) PROVE Same
  BY <1>1 DEF Begin
<1>2. ASSUME NEW k, NEW at, NEW asks, NEW v, Await(k, at, asks, v) PROVE Same
  BY <1>2 DEF Await
<1>3. ASSUME NEW k, NEW v, Return(k, v) PROVE Same
  BY <1>3 DEF Return
<1>4. ASSUME NEW k, LoadFails(k) PROVE Same
  BY <1>4 DEF LoadFails, Return
<1>5. CASE LoadAll \/ CreateRoute \/ Decide \/ DevLogin \/ Enter
  BY <1>5, <1>1 DEF LoadAll, CreateRoute, Decide, DevLogin, Enter, Mutate, SessionTyped
<1>6. CASE SaveRoute
  BY <1>6 DEF SaveRoute, Begin, SessionTyped
<1>7. CASE SelectRoute
  BY <1>7 DEF SelectRoute, Begin, SessionTyped
<1>8. CASE CreateStop
  BY <1>8 DEF CreateStop, Mutate, Begin, SessionTyped
<1>9. CASE SaveStop
  BY <1>9 DEF SaveStop, Begin, SessionTyped
<1>10. CASE Logout
  BY <1>10 DEF Logout, SessionTyped
<1>11. CASE OtherAdmin \/ DriverActs \/ ReadPickup \/ ReadDropoff \/ Answered
  BY <1>11 DEF OtherAdmin, DriverActs, ReadPickup, ReadDropoff, Answered, SessionTyped
<1>12. ASSUME NEW k \in InUse, Serve(k) \/ Lose(k) PROVE Same
  BY <1>12 DEF Serve, Lose
<1>13. ASSUME NEW k \in InUse, Me(k) PROVE Same
  BY <1>13 DEF Me, LoadFails, Return, Await
<1>14. ASSUME NEW k \in InUse, ListsArrive(k) PROVE Same
  BY <1>14 DEF ListsArrive, LoadFails, Return, Await
<1>15. ASSUME NEW k \in InUse, StopsArrive(k) PROVE Same
  BY <1>15 DEF StopsArrive, LoadFails, Return
<1>16. ASSUME NEW k \in InUse, Mutated(k) PROVE Same
  <2>1. k \in Slots /\ calls[k].fn \in Senders
    BY <1>16, ReadyFact DEF Mutated, InUse
  <2>2. (\E v : Return(k, v)) \/ (\E at, asks, v : Await(k, at, asks, v))
    BY <1>16, <2>1 DEF Mutated, Senders
  <2> QED BY <2>2, <1>2, <1>3
<1>17. ASSUME NEW k \in InUse, LoggedIn(k) PROVE SessionTyped'
  BY <1>17, <1>4 DEF LoggedIn, SessionTyped
<1>18. CASE UNCHANGED vars
  BY <1>18 DEF vars, SessionTyped
<1> QED
  BY <1>5, <1>6, <1>7, <1>8, <1>9, <1>10, <1>11, <1>12, <1>13, <1>14, <1>15, <1>16, <1>17, <1>18
  DEF Next, Taps, Continue, SessionTyped

\* Rows, page and requests keep their shape, the number that is filled in for a new stop included.
THEOREM ConsoleTyped == Spec => []ConsoleTypeOK
<1>1. ShapeInv /\ SessionTyped => ConsoleTypeOK
  <2> SUFFICES ASSUME ShapeInv, SessionTyped PROVE ConsoleTypeOK
    OBVIOUS
  <2>1. PlaceOrNone \subseteq {None} \cup Orders
    BY PlacesFact DEF PlaceOrNone, Places, Orders
  <2>2. subject \in Subjects /\ rows \in RowsType /\ view \in ViewType /\ calls \in [Slots -> CallType]
    BY DEF ShapeInv, Shaped, Displays
  <2>3. /\ rows.route \in [Routes -> RouteStates] /\ rows.stop \in [Stops -> StopRow]
        /\ rows.driver \in DriverStates /\ rows.docs \in BOOLEAN
    BY <2>1, <2>2 DEF RowsType, StopRow
  <2>4. /\ view.route \in [Routes -> RouteStates] /\ view.stops \in [Stops -> {None} \cup Orders]
        /\ view.selected \in 0..MaxRoute /\ view.next \in 0..MaxOrder + 1
    BY <2>1, <2>2 DEF ViewType
  <2>5. \A k \in Slots : \A q \in calls[k].asks : q.op \in Reads \cup Changes
    BY <2>2 DEF CallType, ReqType, Ops
  <2> QED BY <2>2, <2>3, <2>4, <2>5 DEF ConsoleTypeOK, SessionTyped
<1>2. Init => SessionTyped
  BY DEF Init, SessionTyped
<1> QED BY <1>1, <1>2, SessionStep, NextInvariant, PTL DEF Spec

\* With nothing in flight and no error the number for a new stop is past every stop on display,
\* whichever functions overlapped, failed or ended late before (nextStopOrder, createStop).
THEOREM NextFreeHolds == Spec => []NextFree
<1>1. NextInv => NextFree
  <2> SUFFICES ASSUME NextInv, InUse = {}, view.told = "none" PROVE Counted(view)
    BY DEF NextFree, Counted
  <2>1. \A k \in Slots : ~Ends(calls[k])
    BY DEF InUse, Ends, Functions, Senders
  <2> QED BY <2>1 DEF NextInv, Settles
<1> QED BY <1>1, NextInvariant, PTL
=============================================================================
