-------------------------- MODULE TripClientProofs --------------------------
(***************************************************************************)
(* Proofs about TripClient: the pages of the passenger and of the driver.  *)
(***************************************************************************)
EXTENDS TripClient, FiniteSetTheorems, TLAPS

-----------------------------------------------------------------------------
(* Types *)

TripType == [status : TripStates, avail : 0..Capacity, total : 0..Capacity]
BookingType == [Bookings -> BookingStates]
RowsType ==
    [trip : TripType, booking : BookingType, seats : [Bookings -> 0..Capacity], rated : 0..1]
GotType == [trip : TripType, booking : BookingType, rated : 0..1,
            verdict : {"ok", "seats", "refused", "lost"}]
ViewType ==
    [loading : BOOLEAN, busy : BOOLEAN, told : {"none", "error"}, trip : TripType, booking : BookingType,
     rated : 0..1, details : BOOLEAN, seats : 0..Capacity, focus : Bookings, ahead : BOOLEAN, edit : BOOLEAN]

PassengerPageNames == {"search", "results", "book", "bookings", "detail", "rate"}
DriverPageNames == {"trips", "manage", "form"}
Changes == {"request", "cancel", "rate", "mutate", "decide", "update", "publish"}
Awaits == {"details", "routes", "stops", "times", "trips", "trip", "bookings", "all", "reload",
           "eligible", "ratings", "sent"}
CallType == [fn : {"none", "load"} \cup Changes, at : Awaits \cup {""}, b : Bookings,
             asks : SUBSET Requests, got : GotType, here : BOOLEAN]

\* The functions of a page besides load, and what they request of the server.
ChangesOf(p) ==
    CASE p = "book" -> {"request"} [] p = "detail" -> {"cancel"} [] p = "rate" -> {"rate"}
      [] p = "manage" -> {"mutate", "decide"} [] p = "form" -> {"update", "publish"}
      [] OTHER -> {}
OpsOf(fn) ==
    CASE fn = "request" -> {"create"} [] fn = "cancel" -> {"cancel"} [] fn = "rate" -> {"rate", "insert"}
      [] fn = "mutate" -> DOMAIN From [] fn = "decide" -> {"accept", "reject"}
      [] fn = "update" -> {"update"} [] fn = "publish" -> {"publish"}
      [] OTHER -> {}

-----------------------------------------------------------------------------
(* The server's rows *)

\* The seats that bookings hold, one by one.
Held(r) == {s \in Bookings \X (1..Capacity) : s[2] <= r.seats[s[1]]}
\* No more seats are held and left than the trip has; of an open trip active bookings hold them.
RowsInv(r) ==
    /\ r \in RowsType
    /\ r.trip.avail + Cardinality(Held(r)) <= Capacity
    /\ r.trip.status = "open" => \A b \in Bookings : r.booking[b] \notin Active => r.seats[b] = 0
    /\ r.trip.status = "absent" => \A b \in Bookings : r.booking[b] = "none" /\ r.seats[b] = 0

-----------------------------------------------------------------------------
(* Calls *)

\* A call reads, or has sent the change it is named for.
Asking(c) ==
    IF c.at = "sent"
    THEN \A q \in c.asks : q.op \in OpsOf(c.fn) /\ (c.fn = "decide" => q.b = c.b)
    ELSE \A q \in c.asks : q.op \in Reads
\* What goes on without its page.
Away(c) == c.at = "sent" /\ (c.asks = {} => c.got.verdict = "ok")
CallInv(c, p, u) ==
    /\ c \in CallType
    /\ c.fn # "none" =>
          /\ Asking(c)
          /\ c.here => c.fn = "load" \/ c.fn \in ChangesOf(p)
          /\ ~c.here => Away(c)
          /\ c.fn \in {"mutate", "decide", "update", "publish"} => u = "driver"
          /\ c.fn \in {"request", "cancel", "rate"} => u = "passenger"

HereIn(cs) == {k \in Slots : cs[k].fn # "none" /\ cs[k].here}
\* The booking form and the page of a trip have one function at a time, and are blocked meanwhile.
Single == {"book", "manage"}
OneAtATime(cs, p) == p \in Single => \A j, k \in HereIn(cs) : j = k
Blocks(c, p, v) ==
    /\ p = "book" =>
          \/ c.at \in {"trip", "details"} /\ v.loading /\ (c.fn = "load" => ~v.busy)
          \/ c.fn = "request" /\ c.at = "sent" /\ v.busy /\ ~v.loading
    /\ p = "manage" =>
          \/ c.fn = "load" /\ c.at \in {"all", "stops"} /\ v.loading /\ ~v.busy
          \/ c.fn = "mutate" /\ c.at = "sent" /\ v.busy /\ ~v.loading
          \/ c.fn = "decide" /\ c.at \in {"sent", "reload"} /\ v.busy /\ ~v.loading
\* The seats on the booking form.
SeatsInv(v) ==
    /\ v.loading \/ v.busy => v.seats >= 1
    /\ v.busy /\ ~v.loading => v.trip.avail >= 1
    /\ ~v.busy /\ ~v.loading =>
          /\ v.told = "error" \/ v.seats <= 1 \/ v.seats <= v.trip.avail
          /\ v.seats >= 1 \/ v.trip.avail = 0

PagesOf(u) == IF u = "passenger" THEN PassengerPageNames ELSE DriverPageNames
PagesInv ==
    /\ user \in Users /\ page \in PagesOf(user)
    /\ RowsInv(rows) /\ view \in ViewType
    /\ calls \in [Slots -> CallType]
    /\ \A k \in Slots : CallInv(calls[k], page, user)
    /\ OneAtATime(calls, page)
    /\ \A k \in HereIn(calls) : Blocks(calls[k], page, view)
    /\ page = "book" => SeatsInv(view)

-----------------------------------------------------------------------------
(* What the page of a trip shows, and is about to show *)

Behind(t, bs, r) ==
    Rank(t.status) <= Rank(r.trip.status) /\ \A b \in Bookings : Rank(bs[b]) <= Rank(r.booking[b])
\* A call that has read the trip, or the bookings, shows no earlier state of them.
ReadsTrip(c) == c.fn = "mutate" \/ c.at \in {"all", "reload"}
ReadsBookings(c) == c.at \in {"all", "reload"}
Reading(c, v) ==
    c.got.verdict = "ok" =>
        /\ ReadsTrip(c) /\ (\A q \in c.asks : q.op \notin {"trip"} \cup DOMAIN From)
             => Rank(v.trip.status) <= Rank(c.got.trip.status)
        /\ ReadsBookings(c) /\ (\A q \in c.asks : q.op # "bookings")
             => \A b \in Bookings : Rank(v.booking[b]) <= Rank(c.got.booking[b])
\* A decision that was answered has been taken, and the bookings read after it show it.
Decided(c, r) ==
    c.fn = "decide" /\ c.got.verdict = "ok" =>
        /\ (c.at = "sent" /\ c.asks = {}) \/ c.at = "reload" => r.booking[c.b] \notin {"none", "pending"}
        /\ c.at = "reload" /\ (\A q \in c.asks : q.op # "bookings") => c.got.booking[c.b] # "pending"
Follows(c, r) == Behind(c.got.trip, c.got.booking, r) /\ Decided(c, r)
ManageInv ==
    user = "driver" =>
        /\ page = "manage" => Behind(view.trip, view.booking, rows)
        /\ \A k \in Slots : Follows(calls[k], rows)
        /\ page = "manage" => \A k \in HereIn(calls) : Reading(calls[k], view)

-----------------------------------------------------------------------------
(* The values the operators start from *)

\* The bounds are positive.
LEMMA BoundsFact == 1 \in Bookings /\ 1 \in 0..Capacity /\ 0 \in 0..Capacity /\ Capacity \in Nat
BY PagesAssumption DEF Bookings

\* No trip, and one that is published.
LEMMA TripFact ==
    /\ NoTrip \in TripType /\ NoTrip.status = "absent"
    /\ \A n \in 0..Capacity : /\ Published(n) \in TripType /\ Published(n).status = "open"
                              /\ Published(n).avail = n /\ Published(n).total = n
BY BoundsFact DEF NoTrip, Published, TripType, TripStates

\* No bookings.
LEMMA NoBookingsFact == NoBookings \in BookingType /\ \A b \in Bookings : NoBookings[b] = "none"
BY DEF NoBookings, BookingType, BookingStates

\* Nothing has been answered.
LEMMA NothingFact ==
    /\ Nothing \in GotType
    /\ Nothing.trip = NoTrip /\ Nothing.booking = NoBookings /\ Nothing.verdict = "ok"
<1> DEFINE t == NoTrip
           bs == NoBookings
<1>1. t \in TripType /\ bs \in BookingType BY TripFact, NoBookingsFact
<1>2. Nothing = [trip |-> t, booking |-> bs, rated |-> 0, verdict |-> "ok"] BY DEF Nothing
<1> HIDE DEF t, bs
<1>3. Nothing \in GotType /\ Nothing.trip = t /\ Nothing.booking = bs /\ Nothing.verdict = "ok"
  BY <1>1, <1>2 DEF GotType
<1> QED BY <1>3 DEF t, bs

\* No call.
LEMMA IdleFact ==
    /\ Idle \in CallType /\ Idle.fn = "none" /\ Idle.asks = {} /\ Idle.got = Nothing /\ Idle.here
    /\ Idle.at # "sent"
<1> DEFINE g == Nothing
<1>1. g \in GotType /\ 1 \in Bookings BY NothingFact, BoundsFact
<1>2. Idle = [fn |-> "none", at |-> "", b |-> 1, asks |-> {}, got |-> g, here |-> TRUE] BY DEF Idle
<1> HIDE DEF g
<1>3. [fn |-> "none", at |-> "", b |-> 1, asks |-> {}, got |-> g, here |-> TRUE] \in
         [fn : {"none", "load"} \cup Changes, at : Awaits \cup {""}, b : Bookings,
          asks : SUBSET Requests, got : GotType, here : BOOLEAN]
  BY <1>1, Zenon
<1>4. Idle \in CallType BY <1>2, <1>3, Zenon DEF CallType
<1>5. Idle.at # "sent" BY <1>2, Zenon
<1> QED BY <1>2, <1>4, <1>5, Zenon DEF g

\* A call as it begins.
NewCall(fn, at, b, asks) == [Idle EXCEPT !.fn = fn, !.at = at, !.b = b, !.asks = asks]
\* It has what it was given, and nothing has been answered.
LEMMA NewCallFact ==
    ASSUME NEW fn \in {"load"} \cup Changes, NEW at \in Awaits, NEW b \in Bookings,
           NEW asks \in SUBSET Requests
    PROVE  LET c == NewCall(fn, at, b, asks)
           IN /\ c \in CallType /\ c.fn = fn /\ c.at = at /\ c.b = b /\ c.asks = asks
              /\ c.got = Nothing /\ c.here
<1> DEFINE i == Idle
<1>1. i \in CallType /\ i.got = Nothing /\ i.here BY IdleFact
<1>2. NewCall(fn, at, b, asks) = [i EXCEPT !.fn = fn, !.at = at, !.b = b, !.asks = asks]
  BY DEF NewCall
<1> HIDE DEF i
<1> QED BY <1>1, <1>2 DEF CallType

\* The fields of a page as it opens.
LEMMA FreshFact ==
    /\ Fresh \in ViewType /\ ~Fresh.loading /\ ~Fresh.busy /\ Fresh.seats = 1 /\ Fresh.told = "none"
    /\ Fresh.trip = NoTrip /\ Fresh.booking = NoBookings
<1> DEFINE t == NoTrip
           bs == NoBookings
<1>1. t \in TripType /\ bs \in BookingType BY TripFact, NoBookingsFact
<1>2. Fresh = [loading |-> FALSE, busy |-> FALSE, told |-> "none", trip |-> t, booking |-> bs,
               rated |-> 0, details |-> FALSE, seats |-> 1, focus |-> 1, ahead |-> FALSE, edit |-> FALSE]
  BY DEF Fresh
<1> HIDE DEF t, bs
<1>3. /\ Fresh \in ViewType /\ ~Fresh.loading /\ ~Fresh.busy /\ Fresh.seats = 1 /\ Fresh.told = "none"
      /\ Fresh.trip = t /\ Fresh.booking = bs
  BY <1>1, <1>2, BoundsFact DEF ViewType
<1> QED BY <1>3 DEF t, bs

\* The ranks are ordered numbers.
LEMMA RankFact ==
    /\ \A s : Rank(s) \in 0..3
    /\ Rank("absent") = 0 /\ Rank("none") = 0 /\ Rank("open") = 1 /\ Rank("pending") = 1
    /\ Rank("started") = 2 /\ Rank("accepted") = 2
    /\ Rank("completed") = 3 /\ Rank("cancelled") = 3 /\ Rank("ended") = 3
BY DEF Rank

-----------------------------------------------------------------------------
(* Counting seats *)

\* The seats of one booking are as many as it says.
LEMMA BlockSize ==
    ASSUME NEW b, NEW n \in Nat
    PROVE  IsFiniteSet({b} \X (1..n)) /\ Cardinality({b} \X (1..n)) = n
<1>1. IsFiniteSet({b}) /\ Cardinality({b}) = 1 BY FS_Singleton
<1>2. IsFiniteSet(1..n) /\ Cardinality(1..n) = n BY FS_Interval
<1>3. /\ IsFiniteSet({b} \X (1..n))
      /\ Cardinality({b} \X (1..n)) = Cardinality({b}) * Cardinality(1..n)
  BY <1>1, <1>2, FS_Product
<1> QED BY <1>1, <1>2, <1>3

\* The seats that are held can be counted.
LEMMA HeldFinite ==
    ASSUME NEW r
    PROVE  IsFiniteSet(Held(r)) /\ Cardinality(Held(r)) \in Nat
<1>1. IsFiniteSet(Bookings) /\ IsFiniteSet(1..Capacity) BY FS_Interval, PagesAssumption DEF Bookings
<1>2. IsFiniteSet(Bookings \X (1..Capacity)) BY <1>1, FS_Product
<1>3. Held(r) \subseteq Bookings \X (1..Capacity) BY DEF Held
<1> QED BY <1>2, <1>3, FS_Subset, FS_CardinalityType

\* The same seats are held.
LEMMA HeldSame ==
    ASSUME NEW r, NEW s, s.seats = r.seats
    PROVE  Held(s) = Held(r)
BY DEF Held

\* No seats are held.
LEMMA HeldNone ==
    ASSUME NEW r, \A b \in Bookings : r.seats[b] = 0
    PROVE  Cardinality(Held(r)) = 0
<1>1. \A n \in 1..Capacity : ~(n <= 0) BY PagesAssumption
<1>2. Held(r) = {} BY <1>1 DEF Held
<1> QED BY <1>2, FS_EmptySet

\* A booking that takes n seats adds no more than these.
LEMMA HeldTaken ==
    ASSUME NEW r, NEW s, r.seats \in [Bookings -> 0..Capacity], NEW b \in Bookings, NEW n \in 0..Capacity,
           s.seats = [r.seats EXCEPT ![b] = n]
    PROVE  Cardinality(Held(s)) <= Cardinality(Held(r)) + n
<1> DEFINE block == {b} \X (1..n)
<1>0. n \in Nat BY PagesAssumption
<1>1. IsFiniteSet(block) /\ Cardinality(block) = n BY <1>0, BlockSize
<1>2. Held(s) \subseteq Held(r) \cup block BY <1>0, PagesAssumption DEF Held
<1>3. IsFiniteSet(Held(r)) /\ Cardinality(Held(r)) \in Nat BY HeldFinite
<1>4. IsFiniteSet(Held(s)) /\ Cardinality(Held(s)) \in Nat BY HeldFinite
<1> HIDE DEF block
<1>5. /\ IsFiniteSet(Held(r) \cup block)
      /\ Cardinality(Held(r) \cup block)
           = Cardinality(Held(r)) + Cardinality(block) - Cardinality(Held(r) \cap block)
  BY <1>1, <1>3, FS_Union
<1>6. IsFiniteSet(Held(r) \cap block) /\ Cardinality(Held(r) \cap block) \in Nat
  BY <1>1, FS_Intersection, FS_CardinalityType
<1>7. Cardinality(Held(s)) <= Cardinality(Held(r) \cup block) BY <1>2, <1>5, FS_Subset
<1> QED BY <1>0, <1>1, <1>3, <1>4, <1>5, <1>6, <1>7

\* A booking that gives its seats back holds none.
LEMMA HeldFreed ==
    ASSUME NEW r, NEW s, r.seats \in [Bookings -> 0..Capacity], NEW b \in Bookings,
           s.seats = [r.seats EXCEPT ![b] = 0]
    PROVE  Cardinality(Held(s)) = Cardinality(Held(r)) - r.seats[b]
<1> DEFINE n == r.seats[b]
           block == {b} \X (1..n)
<1>0. n \in Nat /\ n <= Capacity BY PagesAssumption
<1>1. IsFiniteSet(block) /\ Cardinality(block) = n BY <1>0, BlockSize
<1>2. block \subseteq Held(r) /\ Held(s) = Held(r) \ block BY <1>0, PagesAssumption DEF Held
<1>3. IsFiniteSet(Held(r)) BY HeldFinite
<1> HIDE DEF n, block
<1>4. Held(r) \cap block = block BY <1>2
<1>5. Cardinality(Held(r) \ block) = Cardinality(Held(r)) - Cardinality(Held(r) \cap block)
  BY <1>3, FS_Difference
<1> QED BY <1>1, <1>2, <1>4, <1>5 DEF n

-----------------------------------------------------------------------------
(* What the server does to the rows *)

\* The driver's operations and the trip.
LEMMA FromFact ==
    /\ DOMAIN From = {"start", "complete", "cancelTrip"}
    /\ From["start"] = {"open"} /\ From["complete"] = {"started"} /\ From["cancelTrip"] = {"open", "started"}
    /\ To["start"] = "started" /\ To["complete"] = "completed" /\ To["cancelTrip"] = "cancelled"
BY DEF From, To

\* What the server has checked of the rows when it answers "ok".
Allowed(r, q) ==
    /\ q.op = "create" => r.trip.status = "open" /\ q.n <= r.trip.avail
    /\ q.op \in {"accept", "reject", "expire"} => r.booking[q.b] = "pending"
    /\ q.op = "cancel" => r.booking[q.b] \in Active
    /\ q.op \in DOMAIN From => r.trip.status \in From[q.op]
    /\ q.op = "update" => r.trip.status = "open" /\ ~HasActive(r)
    /\ q.op = "insert" => r.rated = 0

\* It has.
LEMMA VerdictFact ==
    ASSUME NEW r, r \in RowsType, NEW q \in Requests, Verdict(r, q) = "ok"
    PROVE  Allowed(r, q)
<1>1. q.n \in 0..Capacity /\ r.trip.avail \in 0..Capacity BY DEF Requests, RowsType, TripType
<1>2. q.op = "create" => r.trip.status = "open" /\ ~(r.trip.avail < q.n)
  BY DEF Verdict, Reads, From
<1>3. q.op \in {"accept", "reject", "expire"} => r.booking[q.b] = "pending"
  BY DEF Verdict, Reads, From
<1>4. q.op = "cancel" => r.booking[q.b] \in Active BY DEF Verdict, Reads, From
<1>5. q.op \in DOMAIN From => r.trip.status \in From[q.op]
  BY FromFact DEF Verdict, Reads
<1>6. q.op = "update" => r.trip.status = "open" /\ ~HasActive(r) BY DEF Verdict, Reads, From
<1>7. q.op = "insert" => r.rated = 0 BY DEF Verdict, Reads, From, RatingFree
<1> QED BY <1>1, <1>2, <1>3, <1>4, <1>5, <1>6, <1>7, PagesAssumption DEF Allowed

\* The bookings of a trip that is completed.
AllCompleted(bs) == [b \in Bookings |-> IF bs[b] = "accepted" THEN "completed" ELSE bs[b]]

\* What each operation does.
LEMMA AppliedFact ==
    ASSUME NEW r, NEW q \in Requests
    PROVE  LET s == Applied(r, q)
           IN /\ q.op = "create" => s = [r EXCEPT !.booking[q.b] = "pending", !.seats[q.b] = q.n,
                                                  !.trip.avail = @ - q.n]
              /\ q.op = "accept" => s = [r EXCEPT !.booking[q.b] = "accepted"]
              /\ q.op \in {"reject", "expire", "cancel"} => s = Freed(r, q.b)
              /\ q.op \in {"start", "cancelTrip"} => s = [r EXCEPT !.trip.status = To[q.op]]
              /\ q.op = "complete" =>
                   s = [r EXCEPT !.trip.status = "completed", !.booking = AllCompleted(r.booking)]
              /\ q.op = "update" \/ (q.op = "publish" /\ r.trip = NoTrip) => s = [r EXCEPT !.trip = Published(q.n)]
              /\ q.op = "insert" => s = [r EXCEPT !.rated = @ + 1]
              /\ q.op \in Reads \cup {"rate"} \/ (q.op = "publish" /\ r.trip # NoTrip) => s = r
<1>1. q.op = "complete" => Applied(r, q) = [r EXCEPT !.trip.status = "completed", !.booking = AllCompleted(r.booking)]
  <2> SUFFICES ASSUME q.op = "complete"
               PROVE  Applied(r, q) = [r EXCEPT !.trip.status = "completed", !.booking = AllCompleted(r.booking)]
    OBVIOUS
  <2>1. Applied(r, q) =
          [r EXCEPT !.trip.status = To[q.op],
                    !.booking = [b \in Bookings |-> IF @[b] = "accepted" THEN "completed" ELSE @[b]]]
    BY DEF Applied
  <2>2. To[q.op] = "completed" BY FromFact
  <2> QED BY <2>1, <2>2, Zenon DEF AllCompleted
<1> QED BY <1>1 DEF Applied, Reads

\* The operations there are.
LEMMA OpsFact ==
    ASSUME NEW q \in Requests
    PROVE  \/ q.op \in {"create", "accept", "reject", "expire", "cancel", "insert"}
           \/ q.op \in {"start", "cancelTrip", "complete"}
           \/ q.op \in Reads \cup {"rate", "publish", "update"}
BY FromFact DEF Requests

\* The seats of the trip stay accounted for, whatever is served.
LEMMA RowsKeep ==
    ASSUME NEW r, RowsInv(r), NEW q \in Requests, Allowed(r, q)
    PROVE  RowsInv(Applied(r, q))
<1> DEFINE s == Applied(r, q)
           b == q.b
<1>0. /\ b \in Bookings /\ q.n \in 0..Capacity /\ Capacity \in Nat
      /\ r \in RowsType
  BY PagesAssumption DEF Requests, RowsInv
<1>v. /\ q.op = "create" => r.trip.status = "open" /\ q.n <= r.trip.avail
      /\ q.op \in {"accept", "reject", "expire"} => r.booking[q.b] = "pending"
      /\ q.op = "cancel" => r.booking[q.b] \in Active
      /\ q.op \in DOMAIN From => r.trip.status \in From[q.op]
      /\ q.op = "update" => r.trip.status = "open" /\ ~HasActive(r)
      /\ q.op = "insert" => r.rated = 0
  BY DEF Allowed
<1>1. /\ r.booking \in BookingType /\ r.seats \in [Bookings -> 0..Capacity]
      /\ r.trip.avail \in 0..Capacity /\ r.trip \in TripType
  BY <1>0 DEF RowsType, TripType
<1>2. Cardinality(Held(r)) \in Nat /\ Cardinality(Held(s)) \in Nat BY HeldFinite
<1>3. /\ r.trip.avail + Cardinality(Held(r)) <= Capacity
      /\ r.trip.status = "open" => \A c \in Bookings : r.booking[c] \notin Active => r.seats[c] = 0
      /\ r.trip.status = "absent" => \A c \in Bookings : r.booking[c] = "none" /\ r.seats[c] = 0
  BY DEF RowsInv
<1>4. CASE q.op = "create"
  <2>1. s = [r EXCEPT !.booking[b] = "pending", !.seats[b] = q.n, !.trip.avail = @ - q.n]
    BY <1>4, AppliedFact
  <2>2. r.trip.status = "open" /\ q.n <= r.trip.avail BY <1>0, <1>4, <1>v
  <2> DEFINE t == [r.trip EXCEPT !.avail = @ - q.n]
             bs == [r.booking EXCEPT ![b] = "pending"]
             ss == [r.seats EXCEPT ![b] = q.n]
  <2> HIDE DEF s, b
  <2>a. t \in TripType /\ t.avail = r.trip.avail - q.n /\ t.status = "open"
    BY <1>0, <1>1, <2>2 DEF TripType
  <2>b. bs \in BookingType /\ ss \in [Bookings -> 0..Capacity]
    BY <1>0, <1>1 DEF BookingType, BookingStates, Active
  <2>c. s = [r EXCEPT !.booking = bs, !.seats = ss, !.trip = t] BY <2>1
  <2>d. s \in RowsType /\ s.trip = t /\ s.booking = bs /\ s.seats = ss
    <3> HIDE DEF t, bs, ss
    <3> QED BY <1>0, <2>a, <2>b, <2>c DEF RowsType
  <2>3. /\ s \in RowsType /\ s.seats = [r.seats EXCEPT ![b] = q.n] /\ s.trip.avail = r.trip.avail - q.n
        /\ s.booking = [r.booking EXCEPT ![b] = "pending"] /\ s.trip.status = "open"
    BY <2>a, <2>d
  <2>4. Cardinality(Held(s)) <= Cardinality(Held(r)) + q.n BY <1>0, <1>1, <2>3, HeldTaken
  <2>5. s.trip.avail + Cardinality(Held(s)) <= Capacity BY <1>0, <1>1, <1>2, <1>3, <2>3, <2>4
  <2>6. \A c \in Bookings : s.booking[c] \notin Active => s.seats[c] = 0
    BY <1>0, <1>1, <1>3, <2>2, <2>3 DEF Active, BookingType
  <2> QED BY <2>3, <2>5, <2>6 DEF RowsInv, s
<1>5. CASE q.op = "accept"
  <2>1. s = [r EXCEPT !.booking[b] = "accepted"] BY <1>5, AppliedFact
  <2>2. r.booking[b] = "pending" BY <1>0, <1>5, <1>v
  <2> HIDE DEF s, b
  <2>3. /\ s \in RowsType /\ s.seats = r.seats /\ s.trip = r.trip
        /\ s.booking = [r.booking EXCEPT ![b] = "accepted"]
    BY <1>0, <1>1, <2>1 DEF RowsType, BookingType, BookingStates, Active
  <2>4. Held(s) = Held(r) BY <2>3, HeldSame
  <2> QED BY <1>0, <1>1, <1>3, <2>2, <2>3, <2>4 DEF RowsInv, s, Active, BookingType
<1>6. CASE q.op \in {"reject", "expire", "cancel"}
  <2>1. s = Freed(r, b) BY <1>6, AppliedFact
  <2>2. r.booking[b] \in Active BY <1>0, <1>6, <1>v DEF Active
  <2> HIDE DEF s, b
  <2>3. r.trip.avail + r.seats[b] \in 0..Capacity
    <3>1. r.seats[b] \in 0..Capacity BY <1>0, <1>1
    <3> DEFINE z == [r EXCEPT !.seats[b] = 0]
    <3>2. z.seats = [r.seats EXCEPT ![b] = 0] BY <1>0 DEF RowsType
    <3> HIDE DEF z
    <3>3. Cardinality(Held(z)) = Cardinality(Held(r)) - r.seats[b] BY <1>0, <1>1, <3>2, HeldFreed
    <3>4. Cardinality(Held(z)) \in Nat BY HeldFinite
    <3> QED BY <1>0, <1>1, <1>2, <1>3, <3>1, <3>3, <3>4
  <2> DEFINE t == [r.trip EXCEPT !.avail = @ + r.seats[b]]
             bs == [r.booking EXCEPT ![b] = "ended"]
             ss == [r.seats EXCEPT ![b] = 0]
  <2>a. t \in TripType /\ t.avail = r.trip.avail + r.seats[b] /\ t.status = r.trip.status
    BY <1>0, <1>1, <2>3 DEF TripType
  <2>b. bs \in BookingType /\ ss \in [Bookings -> 0..Capacity]
    BY <1>0, <1>1 DEF BookingType, BookingStates, Settled
  <2>c. s = [r EXCEPT !.booking = bs, !.seats = ss, !.trip = t] BY <2>1 DEF Freed
  <2>d. s \in RowsType /\ s.trip = t /\ s.booking = bs /\ s.seats = ss
    <3> HIDE DEF t, bs, ss
    <3> QED BY <1>0, <2>a, <2>b, <2>c DEF RowsType
  <2>4. /\ s \in RowsType /\ s.seats = [r.seats EXCEPT ![b] = 0]
        /\ s.trip.avail = r.trip.avail + r.seats[b] /\ s.trip.status = r.trip.status
        /\ s.booking = [r.booking EXCEPT ![b] = "ended"]
    BY <2>a, <2>d
  <2>5. Cardinality(Held(s)) = Cardinality(Held(r)) - r.seats[b] BY <1>0, <1>1, <2>4, HeldFreed
  <2>6. s.trip.avail + Cardinality(Held(s)) <= Capacity
    <3>1. r.seats[b] \in 0..Capacity BY <1>0, <1>1
    <3> QED BY <1>0, <1>1, <1>2, <1>3, <2>4, <2>5, <3>1
  <2>7. r.trip.status # "absent" BY <1>0, <1>3, <2>2 DEF Active
  <2> QED BY <1>0, <1>1, <1>3, <2>4, <2>6, <2>7 DEF RowsInv, s, Active, BookingType
<1>7. CASE q.op \in {"start", "cancelTrip"}
  <2>1. s = [r EXCEPT !.trip.status = To[q.op]] /\ To[q.op] \in {"started", "cancelled"}
    BY <1>7, AppliedFact, FromFact
  <2> HIDE DEF s, b
  <2>2. /\ s \in RowsType /\ s.seats = r.seats /\ s.trip.avail = r.trip.avail
        /\ s.trip.status \in {"started", "cancelled"}
    BY <1>0, <1>1, <2>1 DEF RowsType, TripType, TripStates
  <2>3. Held(s) = Held(r) BY <2>2, HeldSame
  <2> QED BY <1>3, <2>2, <2>3 DEF RowsInv, s
<1>8. CASE q.op = "complete"
  <2> DEFINE bs == AllCompleted(r.booking)
  <2>1. s = [r EXCEPT !.trip.status = "completed", !.booking = bs] BY <1>8, AppliedFact, FromFact
  <2>2. bs \in BookingType BY <1>1 DEF BookingType, BookingStates, Settled, AllCompleted
  <2> HIDE DEF s, b, bs
  <2>3. /\ s \in RowsType /\ s.seats = r.seats /\ s.trip.avail = r.trip.avail
        /\ s.trip.status = "completed"
    BY <1>0, <1>1, <2>1, <2>2 DEF RowsType, TripType, TripStates
  <2>4. Held(s) = Held(r) BY <2>3, HeldSame
  <2> QED BY <1>3, <2>3, <2>4 DEF RowsInv, s
<1>9. CASE q.op = "update" \/ (q.op = "publish" /\ r.trip = NoTrip)
  <2> DEFINE t == Published(q.n)
  <2>1. s = [r EXCEPT !.trip = t] BY <1>9, AppliedFact
  <2>2. t \in TripType /\ t.avail = q.n /\ t.status = "open" BY <1>0, TripFact
  <2>3. \A c \in Bookings : r.seats[c] = 0
    <3>1. CASE q.op = "update"
      BY <1>0, <1>3, <3>1, <1>v DEF HasActive
    <3>2. CASE r.trip = NoTrip BY <1>3, <3>2, TripFact
    <3> QED BY <1>9, <3>1, <3>2
  <2> HIDE DEF s, b, t
  <2>4. s \in RowsType /\ s.seats = r.seats /\ s.trip = t BY <1>0, <1>1, <2>1, <2>2 DEF RowsType
  <2>5. Held(s) = Held(r) /\ Cardinality(Held(r)) = 0 BY <2>3, <2>4, HeldSame, HeldNone
  <2> QED BY <1>0, <2>2, <2>3, <2>4, <2>5 DEF RowsInv, s
<1>10. CASE q.op = "insert"
  <2>1. s = [r EXCEPT !.rated = @ + 1] /\ r.rated = 0 BY <1>0, <1>10, AppliedFact, <1>v
  <2> HIDE DEF s, b
  <2>2. s \in RowsType /\ s.seats = r.seats /\ s.trip = r.trip /\ s.booking = r.booking
    BY <1>0, <1>1, <2>1 DEF RowsType
  <2>3. Held(s) = Held(r) BY <2>2, HeldSame
  <2> QED BY <1>3, <2>2, <2>3 DEF RowsInv, s
<1>11. CASE q.op \in Reads \cup {"rate"} \/ (q.op = "publish" /\ r.trip # NoTrip)
  BY <1>11, AppliedFact
<1> QED BY <1>4, <1>5, <1>6, <1>7, <1>8, <1>9, <1>10, <1>11, OpsFact

\* Neither the trip nor a booking goes back to an earlier state, unless a booking is made anew.
Onward(r, s) ==
    /\ Rank(r.trip.status) <= Rank(s.trip.status)
    /\ \A b \in Bookings : /\ Rank(r.booking[b]) <= Rank(s.booking[b])
                           /\ r.booking[b] \notin {"none", "pending"} => s.booking[b] \notin {"none", "pending"}
\* No request that the server allows takes them back.
LEMMA RowsOnward ==
    ASSUME NEW r, RowsInv(r), NEW q \in Requests, Allowed(r, q),
           q.op = "create" => r.booking[q.b] = "none"
    PROVE  Onward(r, Applied(r, q))
<1> DEFINE s == Applied(r, q)
           b == q.b
<1>0. /\ b \in Bookings /\ q.n \in 0..Capacity /\ r \in RowsType
      /\ r.booking \in BookingType /\ r.trip \in TripType
  BY DEF Requests, RowsInv, RowsType
<1>v. /\ q.op = "create" => r.trip.status = "open" /\ q.n <= r.trip.avail
      /\ q.op \in {"accept", "reject", "expire"} => r.booking[q.b] = "pending"
      /\ q.op = "cancel" => r.booking[q.b] \in Active
      /\ q.op \in DOMAIN From => r.trip.status \in From[q.op]
      /\ q.op = "update" => r.trip.status = "open" /\ ~HasActive(r)
      /\ q.op = "insert" => r.rated = 0
  BY DEF Allowed
<1>1. r.trip.status \in TripStates /\ \A c \in Bookings : r.booking[c] \in BookingStates
  BY <1>0 DEF TripType, BookingType
<1>2. CASE q.op = "create"
  <2>1. s = [r EXCEPT !.booking[b] = "pending", !.seats[b] = q.n, !.trip.avail = @ - q.n]
    BY <1>2, AppliedFact
  <2> HIDE DEF s
  <2>2. s.trip.status = r.trip.status /\ s.booking = [r.booking EXCEPT ![b] = "pending"]
    BY <1>0, <2>1 DEF RowsType, TripType
  <2> QED BY <1>0, <1>1, <1>2, <2>2, RankFact DEF Onward, s, BookingType
<1>3. CASE q.op = "accept"
  <2>1. s = [r EXCEPT !.booking[b] = "accepted"] BY <1>3, AppliedFact
  <2>2. r.booking[b] = "pending" BY <1>0, <1>3, <1>v
  <2> HIDE DEF s
  <2>3. s.trip = r.trip /\ s.booking = [r.booking EXCEPT ![b] = "accepted"] BY <1>0, <2>1 DEF RowsType
  <2> QED BY <1>0, <1>1, <2>2, <2>3, RankFact DEF Onward, s, BookingType
<1>4. CASE q.op \in {"reject", "expire", "cancel"}
  <2>1. s = Freed(r, b) BY <1>4, AppliedFact
  <2> HIDE DEF s
  <2>2. s.trip.status = r.trip.status /\ s.booking = [r.booking EXCEPT ![b] = "ended"]
    BY <1>0, <2>1 DEF RowsType, TripType, Freed
  <2> QED BY <1>0, <1>1, <2>2, RankFact DEF Onward, s, BookingType
<1>5. CASE q.op \in {"start", "cancelTrip"}
  <2>1. s = [r EXCEPT !.trip.status = To[q.op]] BY <1>5, AppliedFact
  <2>2. r.trip.status \in From[q.op] BY <1>0, <1>5, <1>v, FromFact
  <2>3. Rank(r.trip.status) <= Rank(To[q.op]) BY <1>5, <2>2, RankFact, FromFact
  <2> HIDE DEF s
  <2>4. s.trip.status = To[q.op] /\ s.booking = r.booking BY <1>0, <2>1 DEF RowsType, TripType
  <2> QED BY <2>3, <2>4, RankFact DEF Onward, s
<1>6. CASE q.op = "complete"
  <2> DEFINE bs == AllCompleted(r.booking)
  <2>1. s = [r EXCEPT !.trip.status = "completed", !.booking = bs] BY <1>6, AppliedFact, FromFact
  <2>2. r.trip.status = "started" BY <1>0, <1>6, <1>v, FromFact
  <2>3. \A c \in Bookings : bs[c] = IF r.booking[c] = "accepted" THEN "completed" ELSE r.booking[c]
    BY DEF AllCompleted
  <2> HIDE DEF s, bs
  <2>4. s.trip.status = "completed" /\ s.booking = bs BY <1>0, <2>1 DEF RowsType, TripType
  <2> QED BY <2>2, <2>3, <2>4, RankFact DEF Onward, s
<1>7. CASE q.op = "update" \/ (q.op = "publish" /\ r.trip = NoTrip)
  <2> DEFINE t == Published(q.n)
  <2>1. s = [r EXCEPT !.trip = t] BY <1>7, AppliedFact
  <2>2. t.status = "open" BY <1>0, TripFact
  <2>3. r.trip.status \in {"open", "absent"} BY <1>0, <1>7, <1>v, TripFact
  <2> HIDE DEF s, t
  <2>4. s.trip = t /\ s.booking = r.booking BY <1>0, <2>1 DEF RowsType
  <2> QED BY <2>2, <2>3, <2>4, RankFact DEF Onward, s
<1>8. CASE q.op = "insert"
  <2>1. s = [r EXCEPT !.rated = @ + 1] BY <1>8, AppliedFact
  <2> HIDE DEF s
  <2>2. s.trip = r.trip /\ s.booking = r.booking BY <1>0, <2>1 DEF RowsType
  <2> QED BY <2>2, RankFact DEF Onward, s
<1>9. CASE q.op \in Reads \cup {"rate"} \/ (q.op = "publish" /\ r.trip # NoTrip)
  <2>1. s = r BY <1>9, AppliedFact
  <2> HIDE DEF s
  <2> QED BY <2>1, RankFact DEF Onward, s
<1> QED BY <1>2, <1>3, <1>4, <1>5, <1>6, <1>7, <1>8, <1>9, OpsFact

-----------------------------------------------------------------------------
(* Kinds of steps *)

\* Somebody else acts: only the rows change.
LEMMA WorldKeeps ==
    ASSUME PagesInv, ManageInv, UNCHANGED <<user, page, view, calls>>, RowsInv(rows'),
           user = "driver" => Onward(rows, rows')
    PROVE  PagesInv' /\ ManageInv'
<1>1. PagesInv' BY DEF PagesInv
<1>2. ManageInv'
  <2> SUFFICES ASSUME user = "driver"
               PROVE  /\ page = "manage" => Behind(view.trip, view.booking, rows')
                      /\ \A k \in Slots : Follows(calls[k], rows')
                      /\ page = "manage" => \A k \in HereIn(calls) : Reading(calls[k], view)
    BY DEF ManageInv
  <2>1. \A t, bs : Behind(t, bs, rows) => Behind(t, bs, rows') BY RankFact DEF Behind, Onward
  <2>2. \A k \in Slots : Decided(calls[k], rows')
    BY DEF ManageInv, Follows, Decided, Onward, PagesInv, CallType
  <2> QED BY <2>1, <2>2 DEF ManageInv, Follows
<1> QED BY <1>1, <1>2

\* A call k is replaced by c while the page shows v.
Turns(k, c, v) ==
    /\ calls' = [calls EXCEPT ![k] = c] /\ view' = v /\ UNCHANGED <<user, rows, page>>
\* What it needs: c and v are as they may be, and on a page that has one function at a time no other
\* call is here.
TurnsWell(k, c, v) ==
    /\ CallInv(c, page, user) /\ v \in ViewType
    /\ page = "book" => SeatsInv(v)
    /\ c.fn # "none" /\ c.here => Blocks(c, page, v)
    /\ page \in Single => \/ c = Idle /\ v = view
                          \/ \A j \in HereIn(calls) : j = k
    /\ user = "driver" =>
          /\ Follows(c, rows)
          /\ page = "manage" => /\ Behind(v.trip, v.booking, rows)
                                /\ c.fn # "none" /\ c.here => Reading(c, v)
\* Then the invariant is kept.
LEMMA TurnKeeps ==
    ASSUME PagesInv, ManageInv, NEW k \in Slots, NEW c, NEW v, Turns(k, c, v), TurnsWell(k, c, v)
    PROVE  PagesInv' /\ ManageInv'
<1>1. calls' \in [Slots -> CallType] /\ \A j \in Slots : calls'[j] = IF j = k THEN c ELSE calls[j]
  BY DEF Turns, TurnsWell, PagesInv, CallInv
<1>2. UNCHANGED <<user, rows, page>> /\ view' = v BY DEF Turns
<1>3. \A j \in HereIn(calls') : j = k \/ j \in HereIn(calls) BY <1>1 DEF HereIn
<1>4. \A j \in HereIn(calls') : page \in Single /\ j # k => v = view /\ c.fn = "none"
  BY <1>1, <1>3, IdleFact DEF TurnsWell
<1>5. OneAtATime(calls', page)
  BY <1>1, <1>3, <1>4 DEF OneAtATime, PagesInv, HereIn, TurnsWell
<1>6. \A j \in HereIn(calls') : Blocks(calls'[j], page, v)
  <2> SUFFICES ASSUME NEW j \in HereIn(calls'), page \in Single PROVE Blocks(calls'[j], page, v)
    BY DEF Blocks, Single
  <2>1. CASE j = k BY <1>1, <2>1 DEF TurnsWell, HereIn
  <2>2. CASE j # k BY <1>1, <1>3, <1>4, <2>2 DEF PagesInv, HereIn
  <2> QED BY <2>1, <2>2
<1>7. \A j \in Slots : CallInv(calls'[j], page, user) BY <1>1 DEF TurnsWell, PagesInv
<1>8. PagesInv' BY <1>1, <1>2, <1>5, <1>6, <1>7 DEF PagesInv, TurnsWell
<1>9. ManageInv'
  <2> SUFFICES ASSUME user = "driver"
               PROVE  /\ page = "manage" => Behind(v.trip, v.booking, rows)
                      /\ \A j \in Slots : Follows(calls'[j], rows)
                      /\ page = "manage" => \A j \in HereIn(calls') : Reading(calls'[j], v)
    BY <1>2 DEF ManageInv
  <2>1. \A j \in Slots : Follows(calls'[j], rows) BY <1>1 DEF ManageInv, TurnsWell
  <2>2. ASSUME page = "manage", NEW j \in HereIn(calls') PROVE Reading(calls'[j], v)
    <3>1. CASE j = k BY <1>1, <2>2, <3>1 DEF TurnsWell, HereIn
    <3>2. CASE j # k BY <1>1, <1>3, <1>4, <2>2, <3>2 DEF ManageInv, HereIn, Single
    <3> QED BY <3>1, <3>2
  <2> QED BY <2>1, <2>2 DEF TurnsWell
<1> QED BY <1>8, <1>9

\* A slot is taken by a new call.
LEMMA BeginFact ==
    ASSUME NEW fn, NEW at, NEW b, NEW asks, NEW v, Begin(fn, at, b, asks, v)
    PROVE  \E k \in Slots : k \notin InUse /\ Turns(k, NewCall(fn, at, b, asks), v)
BY DEF Begin, Turns, NewCall

\* A new call reads nothing yet, and nothing follows from it.
LEMMA BeginKeeps ==
    ASSUME PagesInv, ManageInv, NEW fn \in {"load"} \cup Changes, NEW at \in Awaits, NEW b \in Bookings,
           NEW asks \in SUBSET Requests, NEW v \in ViewType, Begin(fn, at, b, asks, v),
           asks # {}, Asking(NewCall(fn, at, b, asks)),
           fn # "load" => fn \in ChangesOf(page) /\ at = "sent",
           fn \in {"mutate", "decide", "update", "publish"} => user = "driver",
           fn \in {"request", "cancel", "rate"} => user = "passenger",
           page = "book" => SeatsInv(v),
           page \in Single => ~view.loading /\ ~view.busy /\ Blocks(NewCall(fn, at, b, asks), page, v),
           page = "manage" => /\ v.trip = view.trip /\ v.booking = view.booking
                              /\ fn = "mutate" => \A q \in asks : q.op \in DOMAIN From
                              /\ at = "sent"
    PROVE  PagesInv' /\ ManageInv'
<1> DEFINE c == NewCall(fn, at, b, asks)
<1>1. /\ c \in CallType /\ c.fn = fn /\ c.at = at /\ c.b = b /\ c.asks = asks
      /\ c.got = Nothing /\ c.here
  BY NewCallFact
<1>2. PICK k \in Slots : k \notin InUse /\ Turns(k, c, v) BY BeginFact
<1> HIDE DEF c
<1>3. CallInv(c, page, user) BY <1>1 DEF CallInv, c
<1>4. page \in Single => HereIn(calls) = {} BY DEF PagesInv, Blocks, Single
<1>5. user = "driver" => Follows(c, rows)
  <2>1. \A x : Rank("absent") <= Rank(x) /\ Rank("none") <= Rank(x) BY RankFact
  <2>2. Behind(c.got.trip, c.got.booking, rows)
    BY <1>1, <2>1, NothingFact, TripFact, NoBookingsFact DEF Behind
  <2>3. Decided(c, rows) BY <1>1 DEF Decided, Changes
  <2> QED BY <2>2, <2>3 DEF Follows
<1>6. page = "manage" => Reading(c, v)
  <2>1. fn = "mutate" /\ page = "manage" => \E q \in asks : q.op \in DOMAIN From OBVIOUS
  <2> QED BY <1>1, <2>1 DEF Reading, ReadsTrip, ReadsBookings
<1>7. Blocks(c, page, v) BY DEF Blocks, Single, c
<1>8. page = "manage" /\ user = "driver" => Behind(v.trip, v.booking, rows) BY DEF ManageInv
<1>9. TurnsWell(k, c, v)
  BY <1>3, <1>4, <1>5, <1>6, <1>7, <1>8 DEF TurnsWell
<1> QED BY <1>2, <1>9, TurnKeeps

\* Only fields change that no call depends on.
LEMMA ViewKeeps ==
    ASSUME PagesInv, ManageInv, UNCHANGED <<user, rows, page, calls>>, view' \in ViewType,
           view'.loading = view.loading, view'.busy = view.busy,
           view'.trip = view.trip, view'.booking = view.booking,
           page = "book" => SeatsInv(view')
    PROVE  PagesInv' /\ ManageInv'
<1>1. \A k \in HereIn(calls) : Blocks(calls[k], page, view') BY DEF PagesInv, Blocks
<1>2. PagesInv' BY <1>1 DEF PagesInv
<1>3. \A c : Reading(c, view) => Reading(c, view') BY DEF Reading
<1>4. ManageInv' BY <1>3 DEF ManageInv
<1> QED BY <1>2, <1>4

\* A call whose page is left.
LeftCall(c, d) ==
    \/ d = Idle
    \/ /\ c.at = "sent" /\ d = [c EXCEPT !.here = FALSE] /\ (d.asks = {} => d.got.verdict = "ok")
\* Leaving a page does one of the two to each call.
LEMMA LeftFact ==
    ASSUME NEW c, c \in CallType
    PROVE  LeftCall(c, Left(c))
<1> DEFINE d == [c EXCEPT !.here = FALSE]
<1>1. c.at = "sent" => Left(c) = Gone(d) BY DEF Left
<1>2. c.at # "sent" => Left(c) = Idle BY DEF Left
<1>3. d \in CallType /\ ~d.here BY DEF CallType
<1> HIDE DEF d
<1>4. Gone(d) = Idle \/ (Gone(d) = d /\ (d.asks = {} => d.got.verdict = "ok"))
  BY <1>3, Zenon DEF Gone
<1> QED BY <1>1, <1>2, <1>4 DEF LeftCall, d

\* It is as a call without its page may be.
LEMMA LeftKeeps ==
    ASSUME NEW c, NEW d, NEW p, NEW q, NEW u, CallInv(c, p, u), LeftCall(c, d)
    PROVE  /\ CallInv(d, q, u) /\ (d.fn = "none" \/ ~d.here)
           /\ user = "driver" /\ Follows(c, rows) => Follows(d, rows)
<1>1. CASE d = Idle
  <2>1. d \in CallType /\ d.fn = "none" /\ d.got = Nothing BY <1>1, IdleFact
  <2>2. \A x : Rank("absent") <= Rank(x) /\ Rank("none") <= Rank(x) BY RankFact
  <2>3. Behind(d.got.trip, d.got.booking, rows)
    BY <2>1, <2>2, NothingFact, TripFact, NoBookingsFact DEF Behind
  <2> QED BY <2>1, <2>3 DEF CallInv, Follows, Decided
<1>2. CASE d # Idle
  <2>1. /\ c \in CallType /\ c.at = "sent" /\ d = [c EXCEPT !.here = FALSE]
        /\ d.asks = {} => d.got.verdict = "ok"
    BY <1>2 DEF LeftCall, CallInv
  <2>2. /\ d \in CallType /\ d.fn = c.fn /\ d.at = "sent" /\ d.b = c.b /\ d.asks = c.asks
        /\ d.got = c.got /\ ~d.here
    BY <2>1 DEF CallType
  <2> QED BY <2>1, <2>2 DEF CallInv, Asking, Away, Follows, Decided
<1> QED BY <1>1, <1>2

\* Another page opens: the calls are left, and load begins.
OpensWell(p, v, at, asks, others) ==
    /\ p \in PagesOf(user) /\ v \in ViewType /\ ~v.busy /\ v.trip = NoTrip /\ v.booking = NoBookings
    /\ p \in Single => v.loading /\ v.seats = 1 /\ asks # {}
    /\ p = "book" => at = "trip"
    /\ p = "manage" => at = "all" /\ Get("trip") \in asks /\ Get("bookings") \in asks
    /\ at \in Awaits \ {"sent"} /\ asks \subseteq Requests /\ \A q \in asks : q.op \in Reads
    /\ \A k \in Slots : others[k] = calls[k] \/ others[k] = Idle
\* Then the invariant is kept.
LEMMA OpenKeeps ==
    ASSUME PagesInv, ManageInv, NEW p, NEW v, NEW at, NEW asks, NEW others,
           Open(p, v, at, asks, others), OpensWell(p, v, at, asks, others)
    PROVE  PagesInv' /\ ManageInv'
<1> DEFINE c == NewCall("load", at, 1, asks)
           cs == [j \in Slots |-> Left(others[j])]
           free == {j \in Slots : cs[j].fn = "none"}
<1>1. PICK k \in free : calls' = [cs EXCEPT ![k] = [Idle EXCEPT !.fn = "load", !.at = at, !.asks = asks]]
  BY DEF Open
<1>2. page' = p /\ view' = v /\ UNCHANGED <<user, rows>> BY DEF Open
<1>3. [Idle EXCEPT !.fn = "load", !.at = at, !.asks = asks] = c
  <2> DEFINE i == Idle
  <2>1. i \in CallType /\ i.b = 1 BY IdleFact DEF Idle
  <2>2. c = [i EXCEPT !.fn = "load", !.at = at, !.b = 1, !.asks = asks] BY DEF NewCall
  <2> HIDE DEF i
  <2>3. [i EXCEPT !.b = 1] = i BY <2>1 DEF CallType
  <2> QED BY <2>1, <2>2, <2>3 DEF i, CallType
<1>4. /\ c \in CallType /\ c.fn = "load" /\ c.at = at /\ c.asks = asks
      /\ c.got = Nothing /\ c.here
  BY NewCallFact, BoundsFact DEF OpensWell
<1>5. \A j \in Slots : LeftCall(others[j], cs[j]) /\ (others[j] = Idle \/ others[j] = calls[j])
  BY LeftFact, IdleFact DEF OpensWell, PagesInv
<1>6. \A j \in Slots : /\ CallInv(cs[j], p, user) /\ (cs[j].fn = "none" \/ ~cs[j].here)
                       /\ user = "driver" => Follows(cs[j], rows)
  <2> TAKE j \in Slots
  <2>1. CallInv(calls[j], page, user) /\ (user = "driver" => Follows(calls[j], rows))
    BY DEF PagesInv, ManageInv
  <2>2. CASE others[j] = calls[j] BY <1>5, <2>1, <2>2, LeftKeeps
  <2>3. CASE others[j] = Idle
    <3>1. cs[j] = Idle BY <1>5, <2>3, IdleFact DEF LeftCall
    <3>2. LeftCall(calls[j], cs[j]) BY <3>1 DEF LeftCall
    <3> QED BY <2>1, <3>2, LeftKeeps
  <2> QED BY <1>5, <2>2, <2>3
<1>7. k \in Slots /\ calls' = [cs EXCEPT ![k] = c] BY <1>1, <1>3
<1>8. \A j \in Slots : calls'[j] = IF j = k THEN c ELSE cs[j] BY <1>7
<1>9. DOMAIN calls' = Slots /\ calls' = [j \in Slots |-> calls'[j]] BY <1>7
<1> HIDE DEF c, cs, free
<1>10. CallInv(c, p, user) BY <1>4 DEF CallInv, Asking, OpensWell
<1>11. \A j \in Slots : CallInv(calls'[j], p, user) BY <1>6, <1>8, <1>10
<1>12. calls' \in [Slots -> CallType] BY <1>9, <1>11 DEF CallInv
<1>13. HereIn(calls') \subseteq {k} BY <1>6, <1>8 DEF HereIn
<1>14. Blocks(c, p, v) BY <1>4 DEF Blocks, OpensWell, Single
<1>15. p = "book" => SeatsInv(v) BY DEF SeatsInv, OpensWell, Single
<1>a. \A j \in HereIn(calls') : j = k /\ calls'[j] = c BY <1>7, <1>8, <1>13
<1>b. OneAtATime(calls', p) BY <1>a DEF OneAtATime
<1>c. \A j \in HereIn(calls') : Blocks(calls'[j], p, v) BY <1>a, <1>14
<1>16. PagesInv'
  BY <1>2, <1>11, <1>12, <1>15, <1>b, <1>c DEF PagesInv, OpensWell
<1>17. \A x : Rank("absent") <= Rank(x) /\ Rank("none") <= Rank(x) BY RankFact
<1>18. Behind(NoTrip, NoBookings, rows) BY <1>17, TripFact, NoBookingsFact DEF Behind
<1>19. Follows(c, rows) BY <1>4, <1>18, NothingFact DEF Follows, Decided
<1>20. p = "manage" => Reading(c, v)
  <2>1. p = "manage" => (\E q \in asks : q.op = "trip") /\ (\E q \in asks : q.op = "bookings")
    BY DEF OpensWell, Get, Req
  <2> QED BY <1>4, <2>1 DEF Reading
<1>d. user = "driver" => \A j \in Slots : Follows(calls'[j], rows) BY <1>6, <1>8, <1>19
<1>e. p = "manage" => \A j \in HereIn(calls') : Reading(calls'[j], v) BY <1>a, <1>20
<1>21. ManageInv'
  BY <1>2, <1>18, <1>d, <1>e DEF ManageInv, OpensWell
<1> QED BY <1>16, <1>21

-----------------------------------------------------------------------------
(* Answers of the server *)

\* An answer carries what it read, as the rows are, and leaves the rest.
LEMMA AnswerFact ==
    ASSUME NEW g, g \in GotType, NEW q \in Requests, NEW r, r \in RowsType
    PROVE  LET h == Answer(g, q, r)
           IN /\ h \in GotType /\ h.verdict = g.verdict
              /\ h.trip.status \in {g.trip.status, r.trip.status}
              /\ \A b \in Bookings : h.booking[b] \in {g.booking[b], r.booking[b]}
              /\ q.op \in {"trip"} \cup DOMAIN From => h.trip = r.trip
              /\ q.op = "bookings" => h.booking = r.booking
<1> DEFINE h == Answer(g, q, r)
<1>1. /\ g.trip \in TripType /\ g.booking \in BookingType /\ r.trip \in TripType /\ r.booking \in BookingType
      /\ r.rated \in 0..1 /\ r.trip.status \in TripStates /\ q.b \in Bookings
  BY DEF GotType, RowsType, TripType, Requests
<1>2. CASE q.op = "search"
  <2>1. h = g \/ h = [g EXCEPT !.trip = r.trip] BY <1>2 DEF Answer
  <2> HIDE DEF h
  <2> QED BY <1>1, <1>2, <2>1, FromFact DEF GotType, h
<1>3. CASE q.op = "trip" \/ q.op \in DOMAIN From
  <2>1. h = [g EXCEPT !.trip = r.trip] BY <1>3, FromFact DEF Answer
  <2> HIDE DEF h
  <2>2. q.op # "bookings" BY <1>3, FromFact
  <2> QED BY <1>1, <2>1, <2>2 DEF GotType, h
<1>4. CASE q.op = "status"
  <2>1. h = [g EXCEPT !.trip.status = r.trip.status] BY <1>4, FromFact DEF Answer
  <2> DEFINE t == [g.trip EXCEPT !.status = r.trip.status]
  <2>2. t \in TripType /\ t.status = r.trip.status BY <1>1 DEF TripType
  <2>3. h = [g EXCEPT !.trip = t] BY <2>1
  <2> HIDE DEF h, t
  <2> QED BY <1>1, <1>4, <2>2, <2>3, FromFact DEF GotType, h
<1>5. CASE q.op = "bookings"
  <2>1. h = [g EXCEPT !.booking = r.booking] BY <1>5, FromFact DEF Answer
  <2> HIDE DEF h
  <2> QED BY <1>1, <1>5, <2>1, FromFact DEF GotType, h
<1>6. CASE q.op \in {"booking", "cancel"}
  <2>1. h = [g EXCEPT !.booking[q.b] = r.booking[q.b]] BY <1>6, FromFact DEF Answer
  <2> DEFINE bs == [g.booking EXCEPT ![q.b] = r.booking[q.b]]
  <2>2. bs \in BookingType /\ \A b \in Bookings : bs[b] \in {g.booking[b], r.booking[b]}
    BY <1>1 DEF BookingType
  <2>3. h = [g EXCEPT !.booking = bs] BY <2>1
  <2> HIDE DEF h, bs
  <2> QED BY <1>1, <1>6, <2>2, <2>3, FromFact DEF GotType, h
<1>7. CASE q.op = "ratings"
  <2>1. h = [g EXCEPT !.rated = r.rated] BY <1>7, FromFact DEF Answer
  <2> HIDE DEF h
  <2> QED BY <1>1, <1>7, <2>1, FromFact DEF GotType, h
<1>8. CASE q.op \notin {"search", "trip", "status", "bookings", "booking", "cancel", "ratings"} \cup DOMAIN From
  <2>1. h = g BY <1>8 DEF Answer
  <2> HIDE DEF h
  <2> QED BY <1>8, <2>1 DEF h
<1> QED BY <1>2, <1>3, <1>4, <1>5, <1>6, <1>7, <1>8

\* The verdicts there are.
LEMMA VerdictType ==
    ASSUME NEW r, NEW q \in Requests
    PROVE  Verdict(r, q) \in {"ok", "seats", "refused"}
<1>1. CASE q.op \in Reads \cup {"publish"} BY <1>1 DEF Verdict
<1>2. CASE q.op = "create" BY <1>2 DEF Verdict, Reads
<1>3. CASE q.op \in {"accept", "reject", "expire"} BY <1>3 DEF Verdict, Reads
<1>4. CASE q.op = "cancel" BY <1>4 DEF Verdict, Reads
<1>5. CASE q.op \in DOMAIN From BY <1>5, FromFact DEF Verdict, Reads
<1>6. CASE q.op = "update" BY <1>6, FromFact DEF Verdict, Reads
<1>7. CASE q.op = "rate" BY <1>7, FromFact DEF Verdict, Reads
<1>8. CASE q.op = "insert" BY <1>8, FromFact DEF Verdict, Reads
<1> QED BY <1>1, <1>2, <1>3, <1>4, <1>5, <1>6, <1>7, <1>8, OpsFact, FromFact

\* The same call, with other requests and another answer.
SameCall(c, x) == x.fn = c.fn /\ x.at = c.at /\ x.b = c.b /\ x.here = c.here
\* An answer, or its loss, that fits the rows keeps the invariant.
LEMMA AnswerKeeps ==
    ASSUME PagesInv, ManageInv, NEW k \in InUse, NEW x \in CallType,
           calls' = [calls EXCEPT ![k] = Gone(x)], UNCHANGED <<user, page, view>>,
           SameCall(calls[k], x), Asking(x), RowsInv(rows'),
           user = "driver" => /\ Onward(rows, rows') /\ Follows(x, rows')
                              /\ page = "manage" /\ x.here => Reading(x, view)
    PROVE  PagesInv' /\ ManageInv'
<1> DEFINE d == Gone(x)
           c == calls[k]
<1>1. k \in Slots /\ c.fn # "none" /\ CallInv(c, page, user) BY DEF InUse, PagesInv
<1>2. d = Idle \/ (d = x /\ (~x.here /\ x.asks = {} => x.got.verdict = "ok")) BY Zenon DEF Gone
<1>3. x.here => d = x
  BY Zenon DEF Gone
<1> HIDE DEF d, c
<1>4. CallInv(d, page, user)
  BY <1>1, <1>2, IdleFact DEF CallInv, SameCall, Away, c
<1>5. \A j \in Slots : calls'[j] = IF j = k THEN d ELSE calls[j] BY <1>1 DEF d, PagesInv
<1>6. calls' \in [Slots -> CallType]
  <2>1. d \in CallType BY <1>4 DEF CallInv
  <2> QED BY <1>1, <2>1 DEF d, PagesInv
<1>7. \A j \in HereIn(calls') : j \in HereIn(calls) /\ (j = k => d = x /\ x.here)
  BY <1>1, <1>2, <1>5, IdleFact DEF HereIn, SameCall, c
<1>8. \A j \in HereIn(calls') : Blocks(calls'[j], page, view)
  <2> TAKE j \in HereIn(calls')
  <2>1. Blocks(calls[j], page, view) BY <1>7 DEF PagesInv
  <2>2. CASE j = k
    <3>1. calls'[j] = x BY <1>1, <1>5, <1>7, <2>2
    <3> QED BY <2>1, <2>2, <3>1 DEF Blocks, SameCall
  <2>3. CASE j # k BY <1>5, <1>7, <2>1, <2>3 DEF HereIn
  <2> QED BY <2>2, <2>3
<1>9. OneAtATime(calls', page) BY <1>7 DEF OneAtATime, PagesInv
<1>10. \A j \in Slots : CallInv(calls'[j], page, user) BY <1>4, <1>5 DEF PagesInv
<1>11. PagesInv' BY <1>6, <1>8, <1>9, <1>10 DEF PagesInv
<1>12. ManageInv'
  <2> SUFFICES ASSUME user = "driver"
               PROVE  /\ page = "manage" => Behind(view.trip, view.booking, rows')
                      /\ \A j \in Slots : Follows(calls'[j], rows')
                      /\ page = "manage" => \A j \in HereIn(calls') : Reading(calls'[j], view)
    BY DEF ManageInv
  <2>1. \A t, bs : Behind(t, bs, rows) => Behind(t, bs, rows') BY RankFact DEF Behind, Onward
  <2>2. \A j \in Slots : Follows(calls[j], rows')
    <3>1. \A j \in Slots : Decided(calls[j], rows')
      BY DEF ManageInv, Follows, Decided, Onward, PagesInv, CallType
    <3> QED BY <2>1, <3>1 DEF ManageInv, Follows
  <2>3. Follows(d, rows')
    <3>1. \A y : Rank("absent") <= Rank(y) /\ Rank("none") <= Rank(y) BY RankFact
    <3>2. Behind(NoTrip, NoBookings, rows') BY <3>1, TripFact, NoBookingsFact DEF Behind
    <3>3. Follows(Idle, rows') BY <3>2, IdleFact, NothingFact DEF Follows, Decided
    <3> QED BY <1>2, <3>3
  <2>4. ASSUME page = "manage", NEW j \in HereIn(calls') PROVE Reading(calls'[j], view)
    <3>1. j \in Slots /\ calls'[j] = IF j = k THEN d ELSE calls[j] BY <1>5 DEF HereIn
    <3>2. CASE j = k BY <1>7, <2>4, <3>1, <3>2
    <3>3. CASE j # k BY <1>7, <2>4, <3>1, <3>3 DEF ManageInv
    <3> QED BY <3>2, <3>3
  <2> QED BY <1>5, <2>1, <2>2, <2>3, <2>4 DEF ManageInv
<1> QED BY <1>11, <1>12

\* What a call asks for.
LEMMA AskingFact ==
    ASSUME PagesInv, NEW k \in InUse, NEW q \in calls[k].asks
    PROVE  /\ calls[k] \in CallType /\ q \in Requests
           /\ calls[k].at = "sent" => q.op \in OpsOf(calls[k].fn) /\ (calls[k].fn = "decide" => q.b = calls[k].b)
           /\ calls[k].at # "sent" => q.op \in Reads
           /\ user = "driver" => q.op \notin {"create", "rate", "insert", "cancel"}
<1>1. calls[k] \in CallType /\ Asking(calls[k]) /\ calls[k].fn \in {"load"} \cup Changes
  BY DEF PagesInv, CallInv, InUse, CallType
<1>2. q \in Requests BY <1>1 DEF CallType
<1>3. user = "driver" => calls[k].fn \in {"load", "mutate", "decide", "update", "publish"}
  BY <1>1 DEF PagesInv, CallInv, InUse, Changes
<1>4. user = "driver" => q.op \notin {"create", "rate", "insert", "cancel"}
  BY <1>1, <1>3, FromFact DEF Asking, OpsOf, Reads
<1> QED BY <1>1, <1>2, <1>4 DEF Asking

\* The server serves a request.
LEMMA ServeKeeps ==
    ASSUME PagesInv, ManageInv, NEW k \in InUse, Serve(k)
    PROVE  PagesInv' /\ ManageInv'
<1> DEFINE c == calls[k]
<1>0. PICK q \in calls[k].asks :
        LET verdict == Verdict(rows, q)
            more == IF q.op = "rate" THEN {Req("insert", 1, 0)} ELSE c.asks \ {q}
        IN /\ rows' = IF verdict = "ok" THEN Applied(rows, q) ELSE rows
           /\ calls' = [calls EXCEPT ![k] =
                  Gone(IF verdict = "ok" THEN [c EXCEPT !.asks = more, !.got = Answer(c.got, q, rows')]
                       ELSE [c EXCEPT !.asks = {}, !.got.verdict = verdict])]
           /\ UNCHANGED <<user, page, view>>
  BY Zenon DEF Serve
<1>1. /\ c \in CallType /\ q \in Requests
      /\ c.at = "sent" => q.op \in OpsOf(c.fn) /\ (c.fn = "decide" => q.b = c.b)
      /\ c.at # "sent" => q.op \in Reads
      /\ user = "driver" => q.op \notin {"create", "rate", "insert", "cancel"}
  BY AskingFact
<1>2. /\ RowsInv(rows) /\ rows \in RowsType /\ CallInv(c, page, user) /\ Asking(c)
      /\ k \in Slots /\ c.fn # "none" /\ c.got \in GotType /\ calls \in [Slots -> CallType]
  BY <1>1 DEF PagesInv, RowsInv, CallInv, InUse, CallType
<1>3. UNCHANGED <<user, page, view>> BY <1>0
<1>4. \A s : Onward(rows, s) => \A t, bs : Behind(t, bs, rows) => Behind(t, bs, s)
  BY RankFact DEF Behind, Onward
<1>5. Onward(rows, rows) BY RankFact DEF Onward
<1>6. user = "driver" => /\ Follows(c, rows) /\ (page = "manage" => Behind(view.trip, view.booking, rows))
                         /\ page = "manage" /\ c.here => Reading(c, view)
  BY <1>2 DEF ManageInv, HereIn
<1>7. CASE Verdict(rows, q) # "ok"
  <2> DEFINE v == Verdict(rows, q)
             g == [c.got EXCEPT !.verdict = v]
             x == [c EXCEPT !.asks = {}, !.got = g]
  <2>1. v \in {"seats", "refused"} BY <1>1, <1>7, VerdictType
  <2>2. rows' = rows BY <1>0, <1>7
  <2>3. calls' = [calls EXCEPT ![k] = Gone([c EXCEPT !.asks = {}, !.got.verdict = v])] BY <1>0, <1>7
  <2>4. calls' = [calls EXCEPT ![k] = Gone(x)] BY <2>3, <1>2
  <2>5. g \in GotType /\ g.verdict = v /\ g.trip = c.got.trip /\ g.booking = c.got.booking
    <3> HIDE DEF v
    <3> QED BY <1>2, <2>1 DEF GotType
  <2> HIDE DEF v, g
  <2>6. x \in CallType /\ SameCall(c, x) /\ x.asks = {} /\ x.got = g BY <1>1, <2>5 DEF CallType, SameCall
  <2> HIDE DEF x
  <2>7. Asking(x) BY <2>6 DEF Asking
  <2>8. user = "driver" => Follows(x, rows)
    BY <1>6, <2>1, <2>5, <2>6 DEF Follows, Decided
  <2>9. Reading(x, view) BY <2>1, <2>5, <2>6 DEF Reading
  <2> HIDE DEF c
  <2> QED BY <1>2, <1>3, <1>5, <2>2, <2>4, <2>6, <2>7, <2>8, <2>9, AnswerKeeps DEF c
<1>8. CASE Verdict(rows, q) = "ok"
  <2> DEFINE more == IF q.op = "rate" THEN {Req("insert", 1, 0)} ELSE c.asks \ {q}
             g == Answer(c.got, q, rows')
             x == [c EXCEPT !.asks = more, !.got = g]
  <2>1. rows' = Applied(rows, q) BY <1>0, <1>8
  <2>3. calls' = [calls EXCEPT ![k] = Gone(x)] BY <1>0, <1>8
  <2>4. RowsInv(rows') BY <1>1, <1>2, <1>8, <2>1, VerdictFact, RowsKeep
  <2>5. user = "driver" => Onward(rows, rows') BY <1>1, <1>2, <1>8, <2>1, VerdictFact, RowsOnward
  <2>6. /\ g \in GotType /\ g.verdict = c.got.verdict
        /\ g.trip.status \in {c.got.trip.status, rows'.trip.status}
        /\ \A b \in Bookings : g.booking[b] \in {c.got.booking[b], rows'.booking[b]}
        /\ q.op \in {"trip"} \cup DOMAIN From => g.trip = rows'.trip
        /\ q.op = "bookings" => g.booking = rows'.booking
    BY <1>1, <1>2, <2>4, AnswerFact DEF RowsInv
  <2>7. /\ more \subseteq Requests /\ (q.op # "rate" => more = c.asks \ {q})
        /\ (q.op = "rate" => \A y \in more : y.op = "insert")
    <3>1. Req("insert", 1, 0) \in Requests /\ Req("insert", 1, 0).op = "insert"
      BY BoundsFact DEF Req, Requests
    <3> HIDE DEF c
    <3> QED BY <1>1, <3>1 DEF CallType
  <2> HIDE DEF more, g
  <2>8. x \in CallType /\ SameCall(c, x) /\ x.asks = more /\ x.got = g
    BY <1>1, <2>6, <2>7 DEF CallType, SameCall
  <2> HIDE DEF x
  <2>9. Asking(x)
    <3>1. q.op = "rate" => c.at = "sent" /\ c.fn = "rate"
      BY <1>1, <1>2, FromFact DEF OpsOf, Reads, CallType, Changes
    <3>2. "insert" \in OpsOf("rate") BY DEF OpsOf
    <3> QED BY <1>2, <2>7, <2>8, <3>1, <3>2 DEF Asking, SameCall
  <2>10. ASSUME user = "driver" PROVE Follows(x, rows')
    <3>1. Behind(c.got.trip, c.got.booking, rows') BY <1>4, <1>6, <2>5, <2>10 DEF Follows
    <3>2. Behind(g.trip, g.booking, rows')
      BY <2>6, <3>1, RankFact DEF Behind
    <3>3. Decided(x, rows')
      <4> SUFFICES ASSUME x.fn = "decide", x.got.verdict = "ok"
                   PROVE  /\ (x.at = "sent" /\ x.asks = {}) \/ x.at = "reload"
                                => rows'.booking[x.b] \notin {"none", "pending"}
                          /\ x.at = "reload" /\ (\A y \in x.asks : y.op # "bookings")
                                => x.got.booking[x.b] # "pending"
        BY DEF Decided
      <4>1. c.fn = "decide" /\ c.got.verdict = "ok" /\ c.b = x.b /\ x.b \in Bookings /\ c.at = x.at
        BY <2>6, <2>8 DEF SameCall, CallType
      <4>2. CASE x.at = "sent"
        <5>1. q.op \in {"accept", "reject"} /\ q.b = x.b BY <1>1, <4>1, <4>2 DEF OpsOf
        <5>2. rows'.booking[q.b] \in {"accepted", "ended"}
          <6>1. rows.booking \in BookingType /\ rows.trip \in TripType BY <1>2 DEF RowsType
          <6>2. CASE q.op = "accept"
            <7>1. rows' = [rows EXCEPT !.booking[q.b] = "accepted"] BY <1>1, <2>1, <6>2, AppliedFact
            <7> QED BY <1>2, <4>1, <5>1, <6>1, <7>1 DEF RowsType, BookingType
          <6>3. CASE q.op = "reject"
            <7>1. rows' = Freed(rows, q.b) BY <1>1, <2>1, <6>3, AppliedFact
            <7> QED BY <1>2, <4>1, <5>1, <6>1, <7>1 DEF RowsType, BookingType, Freed
          <6> QED BY <5>1, <6>2, <6>3
        <5> QED BY <4>2, <5>1, <5>2
      <4>3. CASE x.at = "reload"
        <5>1. Decided(c, rows) BY <1>6, <2>10 DEF Follows
        <5>2. rows.booking[x.b] \notin {"none", "pending"} BY <4>1, <4>3, <5>1 DEF Decided
        <5>3. rows'.booking[x.b] \notin {"none", "pending"} BY <2>5, <2>10, <4>1, <5>2 DEF Onward
        <5>4. q.op # "rate" BY <1>1, <2>10
        <5>5. ASSUME \A y \in x.asks : y.op # "bookings" PROVE g.booking[x.b] # "pending"
          <6>1. CASE q.op = "bookings" BY <2>6, <5>3, <6>1
          <6>2. CASE q.op # "bookings"
            <7>1. \A y \in c.asks : y.op # "bookings" BY <2>7, <2>8, <5>4, <5>5, <6>2
            <7>2. c.got.booking[x.b] # "pending" BY <4>1, <4>3, <5>1, <7>1 DEF Decided
            <7> QED BY <2>6, <4>1, <5>3, <7>2
          <6> QED BY <6>1, <6>2
        <5> QED BY <2>8, <4>3, <5>3, <5>5
      <4> QED BY <4>2, <4>3
    <3> QED BY <2>8, <3>2, <3>3 DEF Follows
  <2>11. ASSUME user = "driver", page = "manage", x.here PROVE Reading(x, view)
    <3> SUFFICES ASSUME g.verdict = "ok"
                 PROVE  /\ ReadsTrip(x) /\ (\A y \in more : y.op \notin {"trip"} \cup DOMAIN From)
                             => Rank(view.trip.status) <= Rank(g.trip.status)
                        /\ ReadsBookings(x) /\ (\A y \in more : y.op # "bookings")
                             => \A b \in Bookings : Rank(view.booking[b]) <= Rank(g.booking[b])
      BY <2>8 DEF Reading
    <3>1. Reading(c, view) /\ q.op # "rate" /\ more = c.asks \ {q}
      BY <1>1, <1>6, <2>7, <2>8, <2>11 DEF SameCall
    <3>2. (ReadsTrip(x) <=> ReadsTrip(c)) /\ (ReadsBookings(x) <=> ReadsBookings(c))
      BY <2>8 DEF ReadsTrip, ReadsBookings, SameCall
    <3>3. Behind(view.trip, view.booking, rows') BY <1>4, <1>6, <2>5, <2>11
    <3>4. ASSUME ReadsTrip(c), \A y \in more : y.op \notin {"trip"} \cup DOMAIN From
          PROVE  Rank(view.trip.status) <= Rank(g.trip.status)
      <4>1. CASE q.op \in {"trip"} \cup DOMAIN From BY <2>6, <3>3, <4>1 DEF Behind
      <4>2. CASE q.op \notin {"trip"} \cup DOMAIN From
        <5>1. Rank(view.trip.status) <= Rank(c.got.trip.status)
          BY <2>6, <3>1, <3>4, <4>2 DEF Reading
        <5> QED BY <2>6, <3>3, <5>1 DEF Behind
      <4> QED BY <4>1, <4>2
    <3>5. ASSUME ReadsBookings(c), \A y \in more : y.op # "bookings", NEW b \in Bookings
          PROVE  Rank(view.booking[b]) <= Rank(g.booking[b])
      <4>1. CASE q.op = "bookings" BY <2>6, <3>3, <4>1 DEF Behind
      <4>2. CASE q.op # "bookings"
        <5>1. Rank(view.booking[b]) <= Rank(c.got.booking[b])
          BY <2>6, <3>1, <3>5, <4>2 DEF Reading
        <5>2. g.booking[b] \in {c.got.booking[b], rows'.booking[b]} BY <2>6
        <5> QED BY <3>3, <5>1, <5>2 DEF Behind
      <4> QED BY <4>1, <4>2
    <3> QED BY <3>2, <3>4, <3>5
  <2> HIDE DEF c
  <2> QED BY <1>2, <1>3, <2>3, <2>4, <2>5, <2>8, <2>9, <2>10, <2>11, AnswerKeeps DEF c
<1> QED BY <1>7, <1>8

\* An answer is lost, the server having acted or not.
LEMMA LoseKeeps ==
    ASSUME PagesInv, ManageInv, NEW k \in InUse, Lose(k)
    PROVE  PagesInv' /\ ManageInv'
<1> DEFINE c == calls[k]
           g == [c.got EXCEPT !.verdict = "lost"]
           x == [c EXCEPT !.asks = {}, !.got = g]
<1>1. /\ c \in CallType /\ CallInv(c, page, user) /\ c.got \in GotType /\ k \in Slots /\ c.fn # "none"
      /\ RowsInv(rows) /\ rows \in RowsType
  BY DEF PagesInv, RowsInv, CallInv, InUse, CallType
<1>2. UNCHANGED <<user, page, view>> BY DEF Lose
<1>3. calls' = [calls EXCEPT ![k] = Gone(x)] BY DEF Lose
<1>4. RowsInv(rows') /\ (user = "driver" => Onward(rows, rows'))
  <2>1. CASE rows' = rows BY <1>1, <2>1, RankFact DEF Onward
  <2>2. ASSUME NEW q \in c.asks, Verdict(rows, q) = "ok", rows' = Applied(rows, q)
        PROVE  RowsInv(rows') /\ (user = "driver" => Onward(rows, rows'))
    <3>1. q \in Requests /\ (user = "driver" => q.op # "create") BY AskingFact
    <3> QED BY <1>1, <2>2, <3>1, VerdictFact, RowsKeep, RowsOnward
  <2> QED BY <2>1, <2>2 DEF Lose
<1>5. g \in GotType /\ g.verdict = "lost" /\ g.trip = c.got.trip /\ g.booking = c.got.booking
  BY <1>1 DEF GotType
<1> HIDE DEF g
<1>6. x \in CallType /\ SameCall(c, x) /\ x.asks = {} /\ x.got = g BY <1>1, <1>5 DEF CallType, SameCall
<1> HIDE DEF x
<1>7. Asking(x) BY <1>6 DEF Asking
<1>8. user = "driver" => Follows(x, rows')
  <2>1. user = "driver" => Behind(c.got.trip, c.got.booking, rows) BY <1>1 DEF ManageInv, Follows
  <2> QED BY <1>4, <1>5, <1>6, <2>1, RankFact DEF Follows, Decided, Behind, Onward
<1>9. Reading(x, view) BY <1>5, <1>6 DEF Reading
<1> HIDE DEF c
<1> QED BY <1>2, <1>3, <1>4, <1>6, <1>7, <1>8, <1>9, AnswerKeeps DEF c

\* Other people act.
LEMMA OthersKeep ==
    ASSUME PagesInv, ManageInv, SomeoneActs \/ OthersBook \/ PassengersBook
    PROVE  PagesInv' /\ ManageInv'
<1>1. /\ RowsInv(rows) /\ rows \in RowsType /\ rows.trip \in TripType /\ rows.booking \in BookingType
      /\ rows.trip.avail \in 0..Capacity
  BY DEF PagesInv, RowsInv, RowsType, TripType
<1>2. RowsInv(rows') /\ (user = "driver" => Onward(rows, rows'))
  <2>1. CASE SomeoneActs
    <3> PICK q \in WorldRequests : Verdict(rows, q) = "ok" /\ rows' = Applied(rows, q)
      BY <2>1 DEF SomeoneActs
    <3>1. q \in Requests /\ q.op # "create"
      BY BoundsFact, FromFact DEF WorldRequests, Requests
    <3> QED BY <1>1, <3>1, VerdictFact, RowsKeep, RowsOnward
  <2>2. CASE OthersBook
    <3> DEFINE t == [rows.trip EXCEPT !.avail = @ - 1]
    <3>1. /\ user = "passenger" /\ rows.trip.status = "open" /\ rows.trip.avail > 0
          /\ rows' = [rows EXCEPT !.trip = t]
      BY <2>2 DEF OthersBook
    <3>2. t \in TripType /\ t.avail = rows.trip.avail - 1 /\ t.status = "open"
      BY <1>1, <3>1, PagesAssumption DEF TripType
    <3> HIDE DEF t
    <3>3. rows' \in RowsType /\ rows'.trip = t /\ rows'.booking = rows.booking /\ rows'.seats = rows.seats
      BY <1>1, <3>1, <3>2 DEF RowsType
    <3>4. Held(rows') = Held(rows) /\ Cardinality(Held(rows)) \in Nat BY <3>3, HeldSame, HeldFinite
    <3>5. t.avail + Cardinality(Held(rows)) <= Capacity
      BY <1>1, <3>2, <3>4, PagesAssumption DEF RowsInv
    <3> QED BY <1>1, <3>1, <3>2, <3>3, <3>4, <3>5 DEF RowsInv
  <2>3. CASE PassengersBook
    <3> PICK b \in Unused(rows), n \in 1..rows.trip.avail : rows' = Applied(rows, Req("create", b, n))
      BY <2>3 DEF PassengersBook
    <3>1. rows.trip.status = "open" BY <2>3 DEF PassengersBook
    <3>2. b \in Bookings /\ rows.booking[b] = "none" /\ n \in 0..Capacity /\ n <= rows.trip.avail
      BY <1>1, PagesAssumption DEF Unused
    <3> DEFINE q == Req("create", b, n)
    <3>3. q \in Requests /\ q.op = "create" /\ q.b = b /\ q.n = n
      BY <3>2 DEF Req, Requests
    <3> HIDE DEF q
    <3>4. Allowed(rows, q) BY <3>1, <3>2, <3>3, FromFact DEF Allowed
    <3> QED BY <1>1, <3>2, <3>3, <3>4, RowsKeep, RowsOnward DEF q
  <2> QED BY <2>1, <2>2, <2>3
<1>3. UNCHANGED <<user, page, view, calls>> BY DEF SomeoneActs, OthersBook, PassengersBook
<1> QED BY <1>2, <1>3, WorldKeeps

-----------------------------------------------------------------------------
(* What the functions of the pages have in common *)

\* What the helpers change of the fields.
LEMMA FieldsFact ==
    ASSUME NEW v, v \in ViewType
    PROVE  /\ Loaded(v) \in ViewType /\ Loaded(v) = [v EXCEPT !.loading = FALSE]
           /\ Fail(v) \in ViewType /\ Fail(v) = [v EXCEPT !.told = "error"]
           /\ Done(v) \in ViewType /\ Done(v) = [v EXCEPT !.busy = FALSE]
           /\ Start(v) \in ViewType /\ Start(v).loading /\ Start(v).told = "none"
           /\ Start(v).busy = v.busy /\ Start(v).seats = v.seats /\ Start(v).trip = v.trip
           /\ Start(v).booking = v.booking /\ Start(v).edit = v.edit
BY DEF Loaded, Fail, Done, Start, ViewType

\* The name of a page tells whose phone it is.
LEMMA WhoseFact ==
    ASSUME PagesInv
    PROVE  /\ page \in DriverPageNames <=> user = "driver"
           /\ page \in PassengerPageNames <=> user = "passenger"
           /\ user \in {"passenger", "driver"}
<1>1. user \in {"passenger", "driver"} BY PagesAssumption DEF PagesInv
<1>2. page \in PagesOf(user) BY DEF PagesInv
<1> QED BY <1>1, <1>2 DEF PagesOf, PassengerPageNames, DriverPageNames

\* One function here, on a page that has one at a time, is the only one.
LEMMA AloneFact ==
    ASSUME PagesInv, NEW k \in InUse, calls[k].here
    PROVE  /\ k \in Slots /\ k \in HereIn(calls) /\ Blocks(calls[k], page, view)
           /\ page \in Single => \A j \in HereIn(calls) : j = k
           /\ calls[k].fn = "load" \/ calls[k].fn \in ChangesOf(page)
           /\ calls[k] \in CallType
BY DEF PagesInv, OneAtATime, HereIn, InUse, CallInv

\* A function ends.
LEMMA ReturnKeeps ==
    ASSUME PagesInv, ManageInv, NEW k \in InUse, NEW v \in ViewType, Return(k, v),
           page \in Single => calls[k].here \/ v = view,
           page = "book" => SeatsInv(v),
           page = "manage" => Behind(v.trip, v.booking, rows)
    PROVE  PagesInv' /\ ManageInv'
<1> DEFINE c == Idle
<1>1. k \in Slots BY DEF InUse
<1>2. Turns(k, c, v) BY DEF Return, Turns
<1>3. c \in CallType /\ c.fn = "none" /\ c.got = Nothing BY IdleFact
<1>4. CallInv(c, page, user) BY <1>3 DEF CallInv
<1>5. Follows(c, rows)
  <2>1. \A x : Rank("absent") <= Rank(x) /\ Rank("none") <= Rank(x) BY RankFact
  <2> QED BY <1>3, <2>1, NothingFact, TripFact, NoBookingsFact DEF Follows, Decided, Behind
<1>6. page \in Single => v = view \/ \A j \in HereIn(calls) : j = k BY AloneFact
<1> HIDE DEF c
<1>7. TurnsWell(k, c, v) BY <1>3, <1>4, <1>5, <1>6 DEF TurnsWell, c
<1> QED BY <1>1, <1>2, <1>7, TurnKeeps

\* A function goes on to read something.
Resumed(k, at, asks) == [calls[k] EXCEPT !.at = at, !.asks = asks, !.got = Nothing]
\* On a page that is blocked meanwhile, it awaits what the page may await.
LEMMA AwaitKeeps ==
    ASSUME PagesInv, ManageInv, NEW k \in InUse, NEW at \in Awaits \ {"sent"}, NEW asks \in SUBSET Requests,
           NEW v \in ViewType, Await(k, at, asks, v), calls[k].here, \A q \in asks : q.op \in Reads,
           page = "book" => at \in {"trip", "details"} /\ v.loading /\ (calls[k].fn = "load" => ~v.busy)
                            /\ SeatsInv(v),
           page = "manage" =>
              /\ \/ calls[k].fn = "load" /\ at = "stops" /\ v.loading /\ ~v.busy
                 \/ /\ calls[k].fn = "decide" /\ at = "reload" /\ v.busy /\ ~v.loading
                    /\ rows.booking[calls[k].b] \notin {"none", "pending"}
                    /\ \E q \in asks : q.op = "trip"
                    /\ \E q \in asks : q.op = "bookings"
              /\ Behind(v.trip, v.booking, rows)
    PROVE  PagesInv' /\ ManageInv'
<1> DEFINE c == Resumed(k, at, asks)
<1>1. /\ k \in Slots /\ calls[k] \in CallType /\ CallInv(calls[k], page, user) /\ calls[k].fn # "none"
      /\ calls \in [Slots -> CallType]
  BY DEF InUse, PagesInv
<1>2. Turns(k, c, v) BY <1>1 DEF Await, Turns, Resumed
<1>3. /\ c \in CallType /\ c.fn = calls[k].fn /\ c.at = at /\ c.b = calls[k].b /\ c.asks = asks
      /\ c.got = Nothing /\ c.here
  BY <1>1, NothingFact DEF CallType, Resumed
<1> HIDE DEF c
<1>4. CallInv(c, page, user) BY <1>1, <1>3 DEF CallInv, Asking
<1>5. page \in Single => \A j \in HereIn(calls) : j = k BY AloneFact
<1>6. Blocks(c, page, v) BY <1>3 DEF Blocks
<1>7. user = "driver" => c.fn \in {"load", "mutate", "decide", "update", "publish"}
  BY <1>1, <1>3 DEF CallInv, CallType, Changes
<1>8. user = "driver" => Follows(c, rows)
  <2>1. \A x : Rank("absent") <= Rank(x) /\ Rank("none") <= Rank(x) BY RankFact
  <2>2. Behind(c.got.trip, c.got.booking, rows)
    BY <1>3, <2>1, NothingFact, TripFact, NoBookingsFact DEF Behind
  <2>3. ASSUME c.fn = "decide" PROVE page = "manage"
    <3>1. calls[k].fn \in ChangesOf(page) BY <1>3, <2>3, AloneFact
    <3> QED BY <1>3, <2>3, <3>1 DEF ChangesOf
  <2>4. Decided(c, rows) BY <1>3, <2>3 DEF Decided
  <2> QED BY <2>2, <2>4 DEF Follows
<1>9. page = "manage" => Reading(c, v) BY <1>3 DEF Reading, ReadsTrip, ReadsBookings
<1>10. TurnsWell(k, c, v) BY <1>4, <1>5, <1>6, <1>8, <1>9 DEF TurnsWell
<1> QED BY <1>1, <1>2, <1>10, TurnKeeps

\* A function goes on with what it has read.
LEMMA KeepKeeps ==
    ASSUME PagesInv, ManageInv, user = "passenger", page \notin Single, NEW k \in InUse,
           NEW at \in Awaits \ {"sent"}, Keep(k, at), calls[k].here, calls[k].asks = {}
    PROVE  PagesInv' /\ ManageInv'
<1> DEFINE c == [calls[k] EXCEPT !.at = at]
<1>1. /\ k \in Slots /\ calls[k] \in CallType /\ CallInv(calls[k], page, user) /\ calls[k].fn # "none"
      /\ calls \in [Slots -> CallType] /\ view \in ViewType
  BY DEF InUse, PagesInv
<1>2. Turns(k, c, view) BY <1>1 DEF Keep, Turns
<1>3. /\ c \in CallType /\ c.fn = calls[k].fn /\ c.at = at /\ c.b = calls[k].b /\ c.asks = {} /\ c.here
  BY <1>1 DEF CallType
<1> HIDE DEF c
<1>4. CallInv(c, page, user) BY <1>1, <1>3 DEF CallInv, Asking
<1>5. TurnsWell(k, c, view) BY <1>1, <1>4 DEF TurnsWell, Blocks, Single
<1> QED BY <1>1, <1>2, <1>5, TurnKeeps

\* The requests that are sent.
LEMMA RequestFact ==
    ASSUME NEW b \in Bookings, NEW n \in 0..Capacity
    PROVE  /\ \A op \in Reads \cup {"create", "cancel", "rate", "accept", "reject", "update", "publish"} \cup DOMAIN From :
                 /\ Req(op, b, n) \in Requests /\ Req(op, b, n).op = op
                 /\ Req(op, b, n).b = b /\ Req(op, b, n).n = n
           /\ \A op \in Reads \cup DOMAIN From : Get(op) \in Requests /\ Get(op).op = op
BY BoundsFact DEF Req, Get, Requests

-----------------------------------------------------------------------------
(* The passenger's pages *)

\* A page of the passenger opens.
LEMMA PassengerOpenKeeps ==
    ASSUME PagesInv, ManageInv, user = "passenger", NEW p \in PassengerPageNames, NEW focus \in Bookings,
           NEW ahead \in BOOLEAN, NEW others, PageOpens(p, focus, ahead, others),
           \A k \in Slots : others[k] = calls[k] \/ others[k] = Idle
    PROVE  PagesInv' /\ ManageInv'
<1> DEFINE w == Start(Fresh)
           v == [w EXCEPT !.focus = focus, !.ahead = ahead]
<1>1. /\ w \in ViewType /\ w.loading /\ ~w.busy /\ w.trip = NoTrip /\ w.booking = NoBookings /\ w.seats = 1
  BY FreshFact, FieldsFact
<1> HIDE DEF w
<1>2. /\ v \in ViewType /\ v.loading /\ ~v.busy /\ v.trip = NoTrip /\ v.booking = NoBookings /\ v.seats = 1
  BY <1>1 DEF ViewType
<1>3. /\ Req("search", 1, IF ahead THEN 1 ELSE 0) \in Requests
      /\ Req("search", 1, IF ahead THEN 1 ELSE 0).op = "search"
      /\ Req("booking", focus, 0) \in Requests /\ Req("booking", focus, 0).op = "booking"
      /\ \A op \in Reads : Get(op) \in Requests /\ Get(op).op = op
  BY BoundsFact, RequestFact DEF Reads
<1> DEFINE Well(at, asks) == OpensWell(p, v, at, asks, others)
<1>4. p \in PagesOf(user) BY DEF PagesOf
<1>5. ASSUME NEW at \in Awaits \ {"sent"}, NEW asks \in SUBSET Requests, \A q \in asks : q.op \in Reads,
             p = "book" => at = "trip" /\ asks # {},
             Open(p, v, at, asks, others)
      PROVE  PagesInv' /\ ManageInv'
  <2>1. p # "manage" BY DEF PassengerPageNames
  <2>2. OpensWell(p, v, at, asks, others) BY <1>2, <1>4, <1>5, <2>1 DEF OpensWell, Single
  <2> HIDE DEF v
  <2> QED BY <1>5, <2>2, OpenKeeps
<1>6. CASE p = "search"
  <2>1. Open(p, v, "details", {}, others) BY <1>6 DEF PageOpens, w
  <2> QED BY <1>5, <1>6, <2>1 DEF Awaits
<1>7. CASE p = "results"
  <2>1. Open(p, v, "trips", {Req("search", 1, IF ahead THEN 1 ELSE 0)}, others) BY <1>7 DEF PageOpens, w
  <2> QED BY <1>3, <1>5, <1>7, <2>1 DEF Awaits, Reads
<1>8. CASE p = "book"
  <2>1. Open(p, v, "trip", {Get("trip")}, others) BY <1>8 DEF PageOpens, w
  <2> QED BY <1>3, <1>5, <1>8, <2>1 DEF Awaits, Reads
<1>9. CASE p = "bookings"
  <2>1. Open(p, v, "bookings", {Get("bookings")}, others) BY <1>9 DEF PageOpens, w
  <2> QED BY <1>3, <1>5, <1>9, <2>1 DEF Awaits, Reads
<1>10. CASE p = "detail"
  <2>1. Open(p, v, "bookings", {Req("booking", focus, 0)}, others) BY <1>10 DEF PageOpens, w
  <2> QED BY <1>3, <1>5, <1>10, <2>1 DEF Awaits, Reads
<1>11. CASE p = "rate"
  <2>1. Open(p, v, "eligible", {Get("status"), Get("bookings")}, others) BY <1>11 DEF PageOpens, w
  <2> QED BY <1>3, <1>5, <1>11, <2>1 DEF Awaits, Reads
<1> QED BY <1>6, <1>7, <1>8, <1>9, <1>10, <1>11 DEF PassengerPageNames

\* The passenger goes to another page.
LEMMA NavigationKeeps ==
    ASSUME PagesInv, ManageInv, Navigate \/ OpenTrip \/ HandleCardAction \/ OpenRateDriver
    PROVE  PagesInv' /\ ManageInv'
<1>1. view.focus \in Bookings /\ view.ahead \in BOOLEAN BY DEF PagesInv, ViewType
<1>2. user = "passenger" BY DEF Navigate, OpenTrip, HandleCardAction, OpenRateDriver, On
<1>3. page \in PassengerPageNames BY <1>2, WhoseFact
<1>4. CASE Navigate
  <2>1. PICK p \in Navigation[page] : PageOpens(p, view.focus, view.ahead, calls) BY <1>4 DEF Navigate
  <2>2. p \in PassengerPageNames BY <1>3 DEF Navigation, PassengerPageNames
  <2> QED BY <1>1, <1>2, <2>1, <2>2, PassengerOpenKeeps
<1>5. CASE OpenTrip
  <2>1. PageOpens("book", 1, view.ahead, calls) BY <1>5 DEF OpenTrip
  <2> QED BY <1>1, <1>2, <2>1, BoundsFact, PassengerOpenKeeps DEF PassengerPageNames
<1>6. CASE HandleCardAction
  <2>1. PICK b \in Bookings : PageOpens("rate", b, FALSE, calls) \/ PageOpens("detail", b, FALSE, calls)
    BY <1>6 DEF HandleCardAction
  <2> QED BY <1>2, <2>1, PassengerOpenKeeps DEF PassengerPageNames
<1>7. CASE OpenRateDriver
  <2>1. PageOpens("rate", view.focus, FALSE, calls) BY <1>7 DEF OpenRateDriver
  <2> QED BY <1>1, <1>2, <2>1, PassengerOpenKeeps DEF PassengerPageNames
<1> QED BY <1>4, <1>5, <1>6, <1>7

\* A search opens the results, or is refused for want of stops.
LEMMA SearchKeeps ==
    ASSUME PagesInv, ManageInv, SearchTrips
    PROVE  PagesInv' /\ ManageInv'
<1>1. page = "search" BY DEF SearchTrips
<1>2. user = "passenger" BY <1>1, WhoseFact DEF PassengerPageNames
<1>3. view \in ViewType BY DEF PagesInv
<1>4. CASE view.details
  <2>1. PICK ahead \in BOOLEAN : PageOpens("results", 1, ahead, calls) BY <1>4 DEF SearchTrips
  <2> QED BY <1>2, <2>1, BoundsFact, PassengerOpenKeeps DEF PassengerPageNames
<1>5. CASE ~view.details
  <2>1. view' = Fail(view) /\ UNCHANGED <<user, rows, page, calls>> BY <1>5 DEF SearchTrips
  <2>2. view' \in ViewType /\ view' = [view EXCEPT !.told = "error"] BY <1>3, <2>1, FieldsFact
  <2>3. /\ view'.loading = view.loading /\ view'.busy = view.busy /\ view'.trip = view.trip
        /\ view'.booking = view.booking
    BY <1>3, <2>2 DEF ViewType
  <2> QED BY <1>1, <2>1, <2>2, <2>3, ViewKeeps
<1> QED BY <1>4, <1>5

\* The stepper stays between one seat and those that are left.
LEMMA StepperKeeps ==
    ASSUME PagesInv, ManageInv, ChangeSeats
    PROVE  PagesInv' /\ ManageInv'
<1>1. page = "book" /\ ~view.loading /\ view \in ViewType /\ SeatsInv(view)
  BY DEF PagesInv, ChangeSeats, On
<1>2. view.seats \in 0..Capacity /\ view.trip.avail \in 0..Capacity BY <1>1 DEF ViewType, TripType
<1>3. PICK n \in 0..Capacity :
        /\ view' = [view EXCEPT !.seats = n]
        /\ \/ view.seats > 1 /\ n = IF view.seats > view.trip.avail THEN view.trip.avail ELSE view.seats - 1
           \/ view.seats < view.trip.avail /\ n = view.seats + 1
  <2>1. CASE view.seats > 1 /\ view' = [view EXCEPT !.seats = IF @ > view.trip.avail THEN view.trip.avail ELSE @ - 1]
    <3> DEFINE n == IF view.seats > view.trip.avail THEN view.trip.avail ELSE view.seats - 1
    <3>1. n \in 0..Capacity BY <1>2, <2>1, PagesAssumption
    <3>2. view' = [view EXCEPT !.seats = n] BY <2>1
    <3> QED BY <2>1, <3>1, <3>2
  <2>2. CASE view.seats < view.trip.avail /\ view' = [view EXCEPT !.seats = @ + 1]
    <3> DEFINE n == view.seats + 1
    <3>1. n \in 0..Capacity BY <1>2, <2>2, PagesAssumption
    <3>2. view' = [view EXCEPT !.seats = n] BY <2>2
    <3> QED BY <2>2, <3>1, <3>2
  <2> QED BY <2>1, <2>2 DEF ChangeSeats
<1>4. /\ view' \in ViewType /\ view'.loading = view.loading /\ view'.busy = view.busy
      /\ view'.trip = view.trip /\ view'.booking = view.booking /\ view'.seats = n /\ view'.told = view.told
  BY <1>1, <1>3 DEF ViewType
<1>5. SeatsInv(view')
  BY <1>1, <1>2, <1>3, <1>4, PagesAssumption DEF SeatsInv
<1>6. UNCHANGED <<user, rows, page, calls>> BY DEF ChangeSeats
<1> QED BY <1>4, <1>5, <1>6, ViewKeeps

\* A page that is blocked while its function runs.
LEMMA BusyFact ==
    ASSUME NEW v, v \in ViewType
    PROVE  LET w == [v EXCEPT !.busy = TRUE, !.told = "none"]
           IN /\ w \in ViewType /\ w.busy /\ w.told = "none" /\ w.loading = v.loading /\ w.trip = v.trip
              /\ w.booking = v.booking /\ w.seats = v.seats
BY DEF ViewType

\* A change is sent from the booking form, from the page of a booking, or from that of a rating.
LEMMA PassengerSendKeeps ==
    ASSUME PagesInv, ManageInv, RequestBooking \/ CancelBooking \/ SubmitRating
    PROVE  PagesInv' /\ ManageInv'
<1> DEFINE v == [view EXCEPT !.busy = TRUE, !.told = "none"]
<1>1. view \in ViewType /\ view.focus \in Bookings /\ view.seats \in 0..Capacity /\ view.trip.avail \in 0..Capacity
  BY DEF PagesInv, ViewType, TripType
<1>2. user = "passenger" BY DEF RequestBooking, CancelBooking, SubmitRating, On
<1>3. v \in ViewType /\ v.busy /\ v.loading = view.loading /\ v.trip = view.trip /\ v.seats = view.seats
  BY <1>1, BusyFact
<1>4. CASE RequestBooking
  <2>1. page = "book" /\ ~view.loading /\ ~view.busy /\ view.trip.avail >= 1
    BY <1>4 DEF RequestBooking, On, Requestable
  <2>2. PICK b \in Unused(rows) : Begin("request", "sent", b, {Req("create", b, view.seats)}, v)
    BY <1>4 DEF RequestBooking
  <2> DEFINE q == Req("create", b, view.seats)
  <2>3. b \in Bookings /\ q \in Requests /\ q.op = "create" BY <1>1, RequestFact DEF Unused
  <2> HIDE DEF q, v
  <2>4. SeatsInv(view) BY <2>1 DEF PagesInv
  <2>5. SeatsInv(v) BY <1>1, <1>3, <2>1, <2>4, PagesAssumption DEF SeatsInv
  <2> DEFINE c == NewCall("request", "sent", b, {q})
  <2>6. c.fn = "request" /\ c.at = "sent" /\ c.asks = {q}
    BY <2>3, NewCallFact DEF Changes, Awaits
  <2> HIDE DEF c
  <2>7. Asking(c) BY <2>3, <2>6 DEF Asking, OpsOf
  <2>8. Blocks(c, page, v) BY <1>3, <2>1, <2>6 DEF Blocks
  <2>9. Begin("request", "sent", b, {q}, v) BY <2>2 DEF q
  <2>10. {q} \in SUBSET Requests /\ {q} # {} /\ "request" \in ChangesOf(page) BY <2>1, <2>3 DEF ChangesOf
  <2> QED BY <1>2, <1>3, <2>1, <2>3, <2>5, <2>7, <2>8, <2>9, <2>10, BeginKeeps DEF Changes, Awaits, c
<1>5. CASE CancelBooking
  <2>1. page = "detail" BY <1>5 DEF CancelBooking, On
  <2> DEFINE q == Req("cancel", view.focus, 0)
  <2>2. Begin("cancel", "sent", view.focus, {q}, v) BY <1>5 DEF CancelBooking
  <2>3. q \in Requests /\ q.op = "cancel" BY <1>1, BoundsFact, RequestFact
  <2> HIDE DEF q, v
  <2> DEFINE c == NewCall("cancel", "sent", view.focus, {q})
  <2>4. c.fn = "cancel" /\ c.at = "sent" /\ c.asks = {q}
    BY <1>1, <2>3, NewCallFact DEF Changes, Awaits
  <2> HIDE DEF c
  <2>5. Asking(c) BY <2>3, <2>4 DEF Asking, OpsOf
  <2>6. {q} \in SUBSET Requests /\ {q} # {} /\ "cancel" \in ChangesOf(page) BY <2>1, <2>3 DEF ChangesOf
  <2> QED BY <1>1, <1>2, <1>3, <2>1, <2>2, <2>5, <2>6, BeginKeeps DEF Changes, Awaits, Single, c
<1>6. CASE SubmitRating
  <2>1. page = "rate" BY <1>6 DEF SubmitRating, On
  <2> DEFINE q == Req("rate", 1, 0)
  <2>2. Begin("rate", "sent", 1, {q}, v) BY <1>6 DEF SubmitRating
  <2>3. q \in Requests /\ q.op = "rate" BY BoundsFact, RequestFact
  <2> HIDE DEF q, v
  <2> DEFINE c == NewCall("rate", "sent", 1, {q})
  <2>4. c.fn = "rate" /\ c.at = "sent" /\ c.asks = {q}
    BY <2>3, BoundsFact, NewCallFact DEF Changes, Awaits
  <2> HIDE DEF c
  <2>5. Asking(c) BY <2>3, <2>4 DEF Asking, OpsOf
  <2>6. {q} \in SUBSET Requests /\ {q} # {} /\ "rate" \in ChangesOf(page) BY <2>1, <2>3 DEF ChangesOf
  <2> QED BY <1>2, <1>3, <2>1, <2>2, <2>5, <2>6, BoundsFact, BeginKeeps DEF Changes, Awaits, Single, c
<1> QED BY <1>4, <1>5, <1>6

\* The list and the page of a booking poll.
LEMMA PollKeeps ==
    ASSUME PagesInv, ManageInv, Poll
    PROVE  PagesInv' /\ ManageInv'
<1> DEFINE v == [view EXCEPT !.told = "none"]
           q == IF page = "bookings" THEN Get("bookings") ELSE Req("booking", view.focus, 0)
<1>1. view \in ViewType /\ view.focus \in Bookings BY DEF PagesInv, ViewType
<1>2. v \in ViewType BY <1>1 DEF ViewType
<1>3. q \in Requests /\ q.op \in Reads BY <1>1, BoundsFact, RequestFact DEF Reads
<1>4. user = "passenger" /\ page \in {"bookings", "detail"} BY DEF Poll, Polling
<1>5. Begin("load", "bookings", 1, {q}, v) BY DEF Poll
<1> HIDE DEF v, q
<1> DEFINE c == NewCall("load", "bookings", 1, {q})
<1>6. c.fn = "load" /\ c.at = "bookings" /\ c.asks = {q}
  BY <1>3, BoundsFact, NewCallFact DEF Awaits
<1> HIDE DEF c
<1>7. Asking(c) BY <1>3, <1>6 DEF Asking
<1>8. {q} \in SUBSET Requests /\ {q} # {} BY <1>3
<1> QED BY <1>2, <1>4, <1>5, <1>7, <1>8, BoundsFact, BeginKeeps DEF Awaits, Single, c

\* A page that is not blocked by its functions: one ends, or goes on to read.
LEMMA PlainKeeps ==
    ASSUME PagesInv, ManageInv, page \notin Single, NEW k \in InUse, NEW v \in ViewType,
           \/ Return(k, v)
           \/ /\ calls[k].here
              /\ \E at \in Awaits \ {"sent"}, asks \in SUBSET Requests :
                    (\A q \in asks : q.op \in Reads) /\ Await(k, at, asks, v)
    PROVE  PagesInv' /\ ManageInv'
BY ReturnKeeps, AwaitKeeps DEF Single

\* What an answer carries is typed.
LEMMA GotFact ==
    ASSUME PagesInv, NEW k \in InUse
    PROVE  /\ calls[k] \in CallType /\ calls[k].got \in GotType
           /\ calls[k].got.trip \in TripType /\ calls[k].got.booking \in BookingType
           /\ calls[k].got.rated \in 0..1 /\ calls[k].b \in Bookings /\ calls[k].got.trip.total \in 0..Capacity
           /\ view \in ViewType
BY DEF PagesInv, InUse, CallType, GotType, TripType

\* What is shown of an answer.
LEMMA ShowsFact ==
    ASSUME NEW v, v \in ViewType
    PROVE  /\ [v EXCEPT !.details = TRUE] \in ViewType
           /\ [v EXCEPT !.details = FALSE, !.rated = 0] \in ViewType
           /\ \A t \in TripType :
                /\ [v EXCEPT !.trip = t] \in ViewType
                /\ [v EXCEPT !.trip = t, !.details = FALSE, !.rated = 0] \in ViewType
                /\ \A bs \in BookingType : [v EXCEPT !.trip = t, !.booking = bs] \in ViewType
           /\ \A bs \in BookingType :
                [v EXCEPT !.booking = bs] \in ViewType /\ [v EXCEPT !.booking = bs, !.told = "none"] \in ViewType
           /\ \A n \in 0..1 :
                [v EXCEPT !.rated = n] \in ViewType /\ [v EXCEPT !.details = TRUE, !.rated = n] \in ViewType
<1>1. [v EXCEPT !.details = TRUE] \in ViewType BY DEF ViewType
<1>2. ASSUME NEW w \in ViewType PROVE [w EXCEPT !.details = FALSE, !.rated = 0] \in ViewType
  <2> DEFINE y == [w EXCEPT !.details = FALSE]
             z == [y EXCEPT !.rated = 0]
  <2>1. y \in ViewType BY DEF ViewType
  <2> HIDE DEF y
  <2>2. z \in ViewType BY <2>1 DEF ViewType
  <2> HIDE DEF z
  <2>3. [w EXCEPT !.details = FALSE, !.rated = 0] = z BY DEF y, z
  <2> QED BY <2>2, <2>3
<1>t. ASSUME NEW t \in TripType
      PROVE  /\ [v EXCEPT !.trip = t] \in ViewType
             /\ [v EXCEPT !.trip = t, !.details = FALSE, !.rated = 0] \in ViewType
             /\ \A bs \in BookingType : [v EXCEPT !.trip = t, !.booking = bs] \in ViewType
  <2>1. [v EXCEPT !.trip = t] \in ViewType BY DEF ViewType
  <2> DEFINE w == [v EXCEPT !.trip = t]
             z == [w EXCEPT !.details = FALSE, !.rated = 0]
  <2>2. [v EXCEPT !.trip = t, !.details = FALSE, !.rated = 0] \in ViewType
    <3> HIDE DEF w
    <3>1. z \in ViewType BY <1>2, <2>1 DEF w
    <3> HIDE DEF z
    <3>2. [v EXCEPT !.trip = t, !.details = FALSE, !.rated = 0] = z BY DEF w, z
    <3> QED BY <3>1, <3>2
  <2>3. ASSUME NEW bs \in BookingType PROVE [v EXCEPT !.trip = t, !.booking = bs] \in ViewType
    BY DEF ViewType
  <2> QED BY <2>1, <2>2, <2>3
<1>3. ASSUME NEW bs \in BookingType
      PROVE  [v EXCEPT !.booking = bs] \in ViewType /\ [v EXCEPT !.booking = bs, !.told = "none"] \in ViewType
  BY DEF ViewType
<1>4. ASSUME NEW n \in 0..1
      PROVE  [v EXCEPT !.rated = n] \in ViewType /\ [v EXCEPT !.details = TRUE, !.rated = n] \in ViewType
  BY DEF ViewType
<1> QED BY <1>1, <1>2, <1>3, <1>4, <1>t

\* The search and the results are loaded.
LEMMA SearchLoadsKeep ==
    ASSUME PagesInv, ManageInv, NEW k \in InUse, SearchLoaded(k) \/ ResultsLoad(k)
    PROVE  PagesInv' /\ ManageInv'
<1>1. calls[k].got.trip \in TripType /\ view \in ViewType BY GotFact
<1>2. CASE SearchLoaded(k)
  <2> DEFINE w == IF Failed(k) THEN Fail(view) ELSE [view EXCEPT !.details = TRUE]
  <2>1. page = "search" /\ Return(k, Loaded(w)) BY <1>2 DEF SearchLoaded
  <2>2. w \in ViewType BY <1>1, FieldsFact, ShowsFact, NoBookingsFact
  <2> HIDE DEF w
  <2>3. Loaded(w) \in ViewType BY <2>2, FieldsFact
  <2> QED BY <2>1, <2>3, PlainKeeps DEF Single
<1>3. CASE ResultsLoad(k)
  <2>0. page = "results" BY <1>3 DEF ResultsLoad
  <2>1. CASE Here(k, {"load"}, "trips") /\ Failed(k) /\ Return(k, Fail(Loaded(view)))
    <3>1. Fail(Loaded(view)) \in ViewType
      <4>1. Loaded(view) \in ViewType BY <1>1, FieldsFact
      <4> QED BY <4>1, FieldsFact
    <3> QED BY <2>0, <2>1, <3>1, PlainKeeps DEF Single
  <2>2. CASE Here(k, {"load"}, "trips") /\ Keep(k, "details")
    BY <2>0, <2>2, KeepKeeps DEF Single, Here, Ready, Awaits
  <2>3. CASE Here(k, {"load"}, "details")
             /\ Return(k, Loaded(IF Failed(k) THEN Fail(view) ELSE [view EXCEPT !.trip = calls[k].got.trip]))
    <3> DEFINE w == IF Failed(k) THEN Fail(view) ELSE [view EXCEPT !.trip = calls[k].got.trip]
    <3>1. w \in ViewType BY <1>1, FieldsFact, ShowsFact, NoBookingsFact
    <3> HIDE DEF w
    <3>2. Loaded(w) \in ViewType BY <3>1, FieldsFact
    <3> QED BY <2>0, <2>3, <3>2, PlainKeeps DEF Single, w
  <2> QED BY <1>3, <2>1, <2>2, <2>3 DEF ResultsLoad
<1> QED BY <1>2, <1>3

\* The list of bookings is loaded.
LEMMA BookingsLoadKeeps ==
    ASSUME PagesInv, ManageInv, NEW k \in InUse, BookingsLoad(k)
    PROVE  PagesInv' /\ ManageInv'
<1>1. calls[k].got.booking \in BookingType /\ view \in ViewType BY GotFact
<1>2. page = "bookings" BY DEF BookingsLoad
<1>3. Loaded(view) \in ViewType BY <1>1, FieldsFact
<1>4. Fail(Loaded(view)) \in ViewType BY <1>3, FieldsFact
<1>5. CASE Here(k, {"load"}, "bookings") /\ Return(k, Fail(Loaded(view)))
  BY <1>2, <1>4, <1>5, PlainKeeps DEF Single
<1>6. CASE Here(k, {"load"}, "bookings") /\ Keep(k, "times")
  BY <1>2, <1>6, KeepKeeps DEF Single, Here, Ready, Awaits
<1>7. CASE Here(k, {"load"}, "times") /\ Detail(k, "details", [view EXCEPT !.booking = calls[k].got.booking])
  <2> DEFINE v == [view EXCEPT !.booking = calls[k].got.booking]
  <2>1. v \in ViewType BY <1>1, TripFact, ShowsFact
  <2>2. Await(k, "details", {}, v) /\ calls[k].here BY <1>7 DEF Detail, Here
  <2> HIDE DEF v
  <2> QED BY <1>2, <2>1, <2>2, PlainKeeps DEF Single, Awaits
<1>8. CASE Here(k, {"load"}, "details") /\ Return(k, Loaded(view))
  BY <1>2, <1>3, <1>8, PlainKeeps DEF Single
<1> QED BY <1>5, <1>6, <1>7, <1>8 DEF BookingsLoad

\* The page of a booking is loaded, or loads again after a cancellation.
LEMMA DetailLoadKeeps ==
    ASSUME PagesInv, ManageInv, NEW k \in InUse, DetailLoad(k)
    PROVE  PagesInv' /\ ManageInv'
<1> DEFINE Ends(v) == IF calls[k].fn = "cancel" THEN Done(Loaded(v)) ELSE Loaded(v)
           got == calls[k].got
           shown == [view EXCEPT !.booking = got.booking]
           fns == {"load", "cancel"}
<1>1. view \in ViewType /\ got.booking \in BookingType /\ got.trip \in TripType /\ got.rated \in 0..1
  BY GotFact
<1>2. page = "detail" BY DEF DetailLoad
<1>3. ASSUME NEW v, v \in ViewType PROVE Ends(v) \in ViewType
  <2>1. Loaded(v) \in ViewType BY <1>3, FieldsFact
  <2>2. Done(Loaded(v)) \in ViewType BY <2>1, FieldsFact
  <2> QED BY <2>1, <2>2
<1>4. /\ shown \in ViewType /\ Fail(view) \in ViewType /\ [view EXCEPT !.trip = NoTrip, !.details = FALSE, !.rated = 0] \in ViewType
      /\ [view EXCEPT !.trip = got.trip] \in ViewType /\ [view EXCEPT !.details = FALSE, !.rated = 0] \in ViewType
      /\ [view EXCEPT !.details = TRUE] \in ViewType /\ [view EXCEPT !.rated = got.rated] \in ViewType
  BY <1>1, TripFact, FieldsFact, ShowsFact
<1>5. Fail(shown) \in ViewType BY <1>4, FieldsFact
<1>6. /\ {Get("status")} \in SUBSET Requests /\ \A q \in {Get("status")} : q.op \in Reads
      /\ {Get("ratings")} \in SUBSET Requests /\ \A q \in {Get("ratings")} : q.op \in Reads
  BY BoundsFact, RequestFact DEF Reads
<1>7. \A at : Here(k, fns, at) => calls[k].here BY DEF Here
<1> HIDE DEF Ends, shown
<1>8. CASE /\ Here(k, fns, "bookings")
           /\ \/ Return(k, Ends(Fail(view))) \/ Return(k, Ends(Fail(shown)))
              \/ Await(k, "trip", {Get("status")}, shown)
  BY <1>2, <1>3, <1>4, <1>5, <1>6, <1>7, <1>8, PlainKeeps DEF Single, Awaits
<1>9. CASE /\ Here(k, fns, "trip")
           /\ \/ Return(k, Ends([view EXCEPT !.trip = NoTrip, !.details = FALSE, !.rated = 0]))
              \/ Await(k, "details", {}, [view EXCEPT !.trip = got.trip])
  BY <1>2, <1>3, <1>4, <1>7, <1>9, PlainKeeps DEF Single, Awaits
<1>10. CASE /\ Here(k, fns, "details")
            /\ \/ Return(k, Ends([view EXCEPT !.details = FALSE, !.rated = 0]))
               \/ Await(k, "ratings", {Get("ratings")}, [view EXCEPT !.details = TRUE])
  BY <1>2, <1>3, <1>4, <1>6, <1>7, <1>10, PlainKeeps DEF Single, Awaits
<1>11. CASE /\ Here(k, fns, "ratings")
            /\ Return(k, Ends(IF Failed(k) THEN Fail(view) ELSE [view EXCEPT !.rated = got.rated]))
  BY <1>2, <1>3, <1>4, <1>11, PlainKeeps DEF Single
<1> QED BY <1>8, <1>9, <1>10, <1>11 DEF DetailLoad, Detail, Ends, shown

\* The rating form is loaded.
LEMMA RateLoadKeeps ==
    ASSUME PagesInv, ManageInv, NEW k \in InUse, RateLoad(k)
    PROVE  PagesInv' /\ ManageInv'
<1> DEFINE got == calls[k].got
<1>1. view \in ViewType /\ got.trip \in TripType /\ got.rated \in 0..1 BY GotFact
<1>2. page = "rate" BY DEF RateLoad
<1>3. /\ [view EXCEPT !.trip = NoTrip] \in ViewType /\ [view EXCEPT !.trip = got.trip] \in ViewType
      /\ [view EXCEPT !.details = TRUE, !.rated = got.rated] \in ViewType /\ Fail(view) \in ViewType
      /\ Loaded(view) \in ViewType
  BY <1>1, TripFact, NoBookingsFact, FieldsFact, ShowsFact
<1>4. Fail(Loaded(view)) \in ViewType BY <1>3, FieldsFact
<1>5. \A v : v \in ViewType => Loaded(v) \in ViewType BY FieldsFact
<1>6. {Get("ratings")} \in SUBSET Requests /\ \A q \in {Get("ratings")} : q.op \in Reads
  BY BoundsFact, RequestFact DEF Reads
<1>7. CASE /\ Here(k, {"load"}, "eligible")
           /\ \/ Return(k, Fail(Loaded(view))) \/ Return(k, Loaded([view EXCEPT !.trip = NoTrip]))
              \/ Await(k, "ratings", {Get("ratings")}, [view EXCEPT !.trip = got.trip])
  BY <1>2, <1>3, <1>4, <1>5, <1>6, <1>7, PlainKeeps DEF Single, Awaits, Here
<1>8. CASE /\ Here(k, {"load"}, "ratings")
           /\ Return(k, Loaded(IF Failed(k) THEN Fail(view)
                               ELSE [view EXCEPT !.details = TRUE, !.rated = got.rated]))
  BY <1>2, <1>3, <1>5, <1>8, PlainKeeps DEF Single
<1> QED BY <1>7, <1>8 DEF RateLoad

\* A rating, or a cancellation, is answered.
LEMMA PassengerAnsweredKeeps ==
    ASSUME PagesInv, ManageInv, NEW k \in InUse, Rated(k) \/ Cancelled(k)
    PROVE  PagesInv' /\ ManageInv'
<1>1. view \in ViewType /\ calls[k].got.booking \in BookingType /\ view.focus \in Bookings
  BY GotFact DEF ViewType
<1>2. calls[k].here /\ calls[k].fn \in {"rate", "cancel"} BY DEF Rated, Cancelled, Here, Ready
<1>3. page \notin Single BY <1>2, AloneFact DEF Single, ChangesOf
<1>4. /\ Fail(view) \in ViewType /\ [view EXCEPT !.rated = 1] \in ViewType
      /\ [view EXCEPT !.booking = calls[k].got.booking, !.told = "none"] \in ViewType
  <2>1. 1 \in 0..1 OBVIOUS
  <2> QED BY <1>1, <2>1, FieldsFact, ShowsFact
<1>5. \A v : v \in ViewType => Done(v) \in ViewType BY FieldsFact
<1>6. CASE Rated(k) BY <1>3, <1>4, <1>5, <1>6, PlainKeeps DEF Rated
<1>7. CASE Cancelled(k) /\ Failed(k) BY <1>3, <1>4, <1>5, <1>7, PlainKeeps DEF Cancelled
<1>8. CASE Cancelled(k) /\ ~Failed(k)
  <2> DEFINE q == Req("booking", view.focus, 0)
             v == [view EXCEPT !.booking = calls[k].got.booking, !.told = "none"]
  <2>1. q \in Requests /\ q.op \in Reads BY <1>1, BoundsFact, RequestFact DEF Reads
  <2>2. Await(k, "bookings", {q}, v) BY <1>8 DEF Cancelled
  <2> HIDE DEF q, v
  <2>3. {q} \in SUBSET Requests /\ \A y \in {q} : y.op \in Reads BY <2>1
  <2> QED BY <1>2, <1>3, <1>4, <2>2, <2>3, PlainKeeps DEF Awaits, v
<1> QED BY <1>6, <1>7, <1>8

\* The seats asked for are cut to those left, but never below one.
LEMMA ClippedFact ==
    ASSUME NEW v, v \in ViewType, v.seats >= 1
    PROVE  LET w == Clipped(v)
           IN /\ w \in ViewType /\ w.seats >= 1 /\ (w.seats <= 1 \/ w.seats <= w.trip.avail)
              /\ w.loading = v.loading /\ w.busy = v.busy /\ w.trip = v.trip
<1> DEFINE most == IF v.trip.avail > 1 THEN v.trip.avail ELSE 1
           n == IF v.seats > most THEN most ELSE v.seats
<1>1. v.trip.avail \in 0..Capacity /\ v.seats \in 0..Capacity BY DEF ViewType, TripType
<1>2. n \in 0..Capacity /\ n >= 1 /\ (n <= 1 \/ n <= v.trip.avail) BY <1>1, BoundsFact
<1>3. Clipped(v) = [v EXCEPT !.seats = n] BY DEF Clipped
<1> HIDE DEF n
<1> QED BY <1>2, <1>3 DEF ViewType

\* The booking form is loaded, or loads again once the seats asked for are gone.
LEMMA FormLoadKeeps ==
    ASSUME PagesInv, ManageInv, NEW k \in InUse, FormLoad(k)
    PROVE  PagesInv' /\ ManageInv'
<1> DEFINE Ends(v) == IF calls[k].fn = "request" THEN Done(Loaded(v)) ELSE Loaded(v)
           fns == {"load", "request"}
<1>1. page = "book" BY DEF FormLoad
<1>2. /\ view \in ViewType /\ calls[k].got.trip \in TripType /\ view.seats \in 0..Capacity
      /\ view.trip.avail \in 0..Capacity /\ SeatsInv(view)
  BY <1>1, GotFact DEF PagesInv, ViewType, TripType
<1>3. calls[k].here /\ calls[k].fn \in fns /\ calls[k].at \in {"trip", "details"} BY DEF FormLoad, Here, Ready
<1>4. view.loading /\ (calls[k].fn = "load" => ~view.busy) /\ view.seats >= 1
  BY <1>1, <1>2, <1>3, AloneFact DEF Blocks, SeatsInv
<1>5. ASSUME NEW v, v \in ViewType, v.seats >= 1, v.busy = view.busy,
             v.told = "error" \/ v.seats <= 1 \/ v.seats <= v.trip.avail, Return(k, Ends(v))
      PROVE  PagesInv' /\ ManageInv'
  <2>1. Loaded(v) \in ViewType /\ Loaded(v) = [v EXCEPT !.loading = FALSE] BY <1>5, FieldsFact
  <2>2. Done(Loaded(v)) \in ViewType /\ Done(Loaded(v)) = [Loaded(v) EXCEPT !.busy = FALSE] BY <2>1, FieldsFact
  <2> DEFINE w == Ends(v)
  <2>3. w \in ViewType /\ ~w.loading /\ ~w.busy /\ w.seats = v.seats /\ w.told = v.told /\ w.trip = v.trip
    <3>1. CASE calls[k].fn = "request" BY <1>5, <2>1, <2>2, <3>1 DEF ViewType
    <3>2. CASE calls[k].fn # "request" BY <1>3, <1>4, <1>5, <2>1, <3>2 DEF ViewType
    <3> QED BY <3>1, <3>2
  <2> HIDE DEF w
  <2>4. SeatsInv(w) BY <1>5, <2>3, PagesAssumption DEF SeatsInv, ViewType
  <2>5. Return(k, w) BY <1>5 DEF w
  <2> QED BY <1>1, <1>3, <2>3, <2>4, <2>5, ReturnKeeps
<1>6. ASSUME Return(k, Ends(Fail(view))) PROVE PagesInv' /\ ManageInv'
  <2> DEFINE v == Fail(view)
  <2>1. v \in ViewType /\ v = [view EXCEPT !.told = "error"] BY <1>2, FieldsFact
  <2> HIDE DEF v
  <2>2. v.told = "error" /\ v.seats = view.seats /\ v.busy = view.busy BY <1>2, <2>1 DEF ViewType
  <2>3. Return(k, Ends(v)) BY <1>6 DEF v
  <2> HIDE DEF Ends
  <2> QED BY <1>4, <1>5, <2>1, <2>2, <2>3
<1>7. ASSUME Detail(k, "details", [view EXCEPT !.trip = calls[k].got.trip]) PROVE PagesInv' /\ ManageInv'
  <2> DEFINE v == [view EXCEPT !.trip = calls[k].got.trip]
  <2>1. v \in ViewType /\ v.loading /\ v.busy = view.busy /\ v.seats = view.seats
    BY <1>2, <1>4 DEF ViewType
  <2>2. Await(k, "details", {}, v) BY <1>7 DEF Detail
  <2> HIDE DEF v
  <2>3. SeatsInv(v) BY <1>4, <2>1 DEF SeatsInv
  <2> QED BY <1>1, <1>3, <1>4, <2>1, <2>2, <2>3, AwaitKeeps DEF Awaits
<1>8. ASSUME Return(k, Ends(Clipped(view))) PROVE PagesInv' /\ ManageInv'
  <2> DEFINE v == Clipped(view)
  <2>1. /\ v \in ViewType /\ v.seats >= 1 /\ (v.seats <= 1 \/ v.seats <= v.trip.avail) /\ v.busy = view.busy
    BY <1>2, <1>4, ClippedFact
  <2>2. Return(k, Ends(v)) BY <1>8 DEF v
  <2> HIDE DEF v, Ends
  <2> QED BY <1>5, <2>1, <2>2
<1> HIDE DEF Ends
<1> QED BY <1>6, <1>7, <1>8 DEF FormLoad, Ends

\* A booking is made, or refused.
LEMMA RequestedKeeps ==
    ASSUME PagesInv, ManageInv, NEW k \in InUse, Requested(k)
    PROVE  PagesInv' /\ ManageInv'
<1> DEFINE c == calls[k]
<1>1. c.fn = "request" /\ c.at = "sent" /\ c.asks = {} /\ user = "passenger" BY DEF Requested, Ready
<1>2. c \in CallType /\ CallInv(c, page, user) /\ c.b \in Bookings /\ c.got \in GotType /\ k \in Slots
      /\ view \in ViewType
  BY GotFact DEF PagesInv, InUse
<1>3. page # "manage" BY <1>1, WhoseFact DEF DriverPageNames
<1>4. CASE ~Failed(k) /\ ~(page = "detail" /\ view.focus = c.b)
  <2>1. PageOpens("detail", c.b, FALSE, [calls EXCEPT ![k] = Idle]) BY <1>4 DEF Requested, Failed
  <2>2. \A j \in Slots : [calls EXCEPT ![k] = Idle][j] = calls[j] \/ [calls EXCEPT ![k] = Idle][j] = Idle
    BY DEF PagesInv
  <2> QED BY <1>1, <1>2, <2>1, <2>2, PassengerOpenKeeps DEF PassengerPageNames
<1>5. CASE ~Failed(k) /\ page = "detail" /\ view.focus = c.b
  <2>1. Return(k, view) BY <1>5 DEF Requested, Failed
  <2> QED BY <1>2, <1>5, <2>1, ReturnKeeps DEF Single
<1>6. CASE Failed(k)
  <2>1. c.here BY <1>1, <1>2, <1>6 DEF CallInv, Away, Failed
  <2>2. page = "book" BY <1>1, <2>1, AloneFact DEF ChangesOf
  <2>3. view.busy /\ ~view.loading BY <1>1, <2>1, <2>2, AloneFact DEF Blocks
  <2>4. view.seats >= 1 /\ view.seats \in 0..Capacity
    BY <1>2, <2>2, <2>3 DEF PagesInv, SeatsInv, ViewType
  <2>5. CASE c.got.verdict = "seats"
    <3> DEFINE v == Start(view)
               q == Get("trip")
    <3>1. Await(k, "trip", {q}, v) BY <1>6, <2>5 DEF Requested
    <3>2. v \in ViewType /\ v.loading /\ v.seats = view.seats BY <1>2, FieldsFact
    <3>3. q \in Requests /\ q.op \in Reads BY BoundsFact, RequestFact DEF Reads
    <3> HIDE DEF v, q
    <3>4. SeatsInv(v) BY <2>4, <3>2 DEF SeatsInv
    <3>5. {q} \in SUBSET Requests /\ \A y \in {q} : y.op \in Reads BY <3>3
    <3> QED BY <1>1, <2>1, <2>2, <3>1, <3>2, <3>4, <3>5, AwaitKeeps DEF Awaits
  <2>6. CASE c.got.verdict \in {"refused", "lost"}
    <3> DEFINE w == Fail(view)
               v == Done(w)
    <3>1. Return(k, v) BY <1>6, <2>6 DEF Requested
    <3>2. w \in ViewType /\ w = [view EXCEPT !.told = "error"] BY <1>2, FieldsFact
    <3> HIDE DEF w
    <3>3. v \in ViewType /\ v = [w EXCEPT !.busy = FALSE] BY <3>2, FieldsFact
    <3> HIDE DEF v
    <3>4. v.told = "error" /\ v.seats = view.seats /\ ~v.busy /\ ~v.loading
      BY <1>2, <2>3, <3>2, <3>3 DEF ViewType
    <3>5. SeatsInv(v) BY <2>4, <3>4 DEF SeatsInv
    <3> QED BY <1>3, <2>1, <3>1, <3>3, <3>5, ReturnKeeps
  <2> QED BY <1>2, <1>6, <2>5, <2>6 DEF GotType, Failed
<1> QED BY <1>4, <1>5, <1>6

-----------------------------------------------------------------------------
(* The driver's pages *)

\* A page of the driver opens.
LEMMA DriverOpenKeeps ==
    ASSUME PagesInv, ManageInv, user = "driver", NEW p \in DriverPageNames, NEW v, v \in ViewType,
           ~v.busy, v.trip = NoTrip, v.booking = NoBookings, v.seats = 1,
           NEW others, DriverPageOpens(p, v, others),
           \A k \in Slots : others[k] = calls[k] \/ others[k] = Idle
    PROVE  PagesInv' /\ ManageInv'
<1>1. p \in PagesOf(user) /\ p # "book" BY DEF PagesOf, DriverPageNames
<1> DEFINE w == Start(v)
           x == [v EXCEPT !.seats = Capacity]
<1>2. /\ w \in ViewType /\ w.loading /\ ~w.busy /\ w.trip = NoTrip /\ w.booking = NoBookings /\ w.seats = 1
  BY FieldsFact
<1>3. x \in ViewType /\ ~x.busy /\ x.trip = NoTrip /\ x.booking = NoBookings
  BY PagesAssumption DEF ViewType
<1>4. \A op \in {"trip", "bookings"} : Get(op) \in Requests /\ Get(op).op = op
  BY BoundsFact, RequestFact DEF Reads
<1> HIDE DEF w, x
<1>5. CASE p = "trips"
  <2>1. Open(p, w, "details", {}, others) BY <1>5 DEF DriverPageOpens, w
  <2>2. OpensWell(p, w, "details", {}, others) BY <1>1, <1>2, <1>5 DEF OpensWell, Single, Awaits
  <2> QED BY <2>1, <2>2, OpenKeeps
<1>6. CASE p = "manage"
  <2> DEFINE asks == {Get("trip"), Get("bookings")}
  <2>1. Open(p, w, "all", asks, others) BY <1>6 DEF DriverPageOpens, w
  <2>2. asks \subseteq Requests /\ (\A q \in asks : q.op \in Reads) /\ asks # {}
        /\ Get("trip") \in asks /\ Get("bookings") \in asks
    BY <1>4 DEF Reads
  <2> HIDE DEF asks
  <2>3. OpensWell(p, w, "all", asks, others) BY <1>1, <1>2, <1>6, <2>2 DEF OpensWell, Awaits
  <2> QED BY <2>1, <2>3, OpenKeeps
<1>7. CASE p = "form"
  <2>1. Open(p, x, "details", {}, others) BY <1>7 DEF DriverPageOpens, x
  <2>2. OpensWell(p, x, "details", {}, others) BY <1>1, <1>3, <1>7 DEF OpensWell, Single, Awaits
  <2> QED BY <2>1, <2>2, OpenKeeps
<1> QED BY <1>5, <1>6, <1>7 DEF DriverPageNames

\* The driver goes to another page.
LEMMA DriverNavigationKeeps ==
    ASSUME PagesInv, ManageInv, CreateTrip \/ OpenCard \/ EditTrip \/ Back
    PROVE  PagesInv' /\ ManageInv'
<1>1. user = "driver" BY DEF CreateTrip, OpenCard, EditTrip, Back, At
<1> DEFINE f == Fresh
<1>2. f \in ViewType /\ ~f.busy /\ f.trip = NoTrip /\ f.booking = NoBookings /\ f.seats = 1 BY FreshFact
<1>3. \A p : Opens(p) => DriverPageOpens(p, f, calls) BY DEF Opens
<1>4. CASE CreateTrip \/ OpenCard \/ Back
  <2>1. PICK p \in DriverPageNames : Opens(p) BY <1>4 DEF CreateTrip, OpenCard, Back, DriverPageNames
  <2>2. DriverPageOpens(p, f, calls) BY <1>3, <2>1
  <2> HIDE DEF f
  <2> QED BY <1>1, <1>2, <2>2, DriverOpenKeeps
<1>5. CASE EditTrip
  <2> DEFINE v == [f EXCEPT !.edit = TRUE]
  <2>1. DriverPageOpens("form", v, calls) BY <1>5 DEF EditTrip
  <2> HIDE DEF f
  <2>2. v \in ViewType /\ ~v.busy /\ v.trip = NoTrip /\ v.booking = NoBookings /\ v.seats = 1
    BY <1>2 DEF ViewType
  <2> HIDE DEF v
  <2> QED BY <1>1, <2>1, <2>2, DriverOpenKeeps DEF DriverPageNames
<1> QED BY <1>4, <1>5

\* A change is sent from the page of a trip.
LEMMA ManageSendKeeps ==
    ASSUME PagesInv, ManageInv, Mutate \/ MutateBooking
    PROVE  PagesInv' /\ ManageInv'
<1> DEFINE v == Busy
<1>1. page = "manage" /\ user = "driver" /\ ~view.loading /\ ~view.busy
  BY DEF Mutate, MutateBooking, Controls, At
<1>2. view \in ViewType BY DEF PagesInv
<1>3. v \in ViewType /\ v.busy /\ v.loading = view.loading /\ v.trip = view.trip /\ v.booking = view.booking
  BY <1>2, BusyFact DEF Busy
<1>4. CASE Mutate
  <2>1. PICK op \in DOMAIN From : Begin("mutate", "sent", 1, {Get(op)}, v) BY <1>4 DEF Mutate
  <2> DEFINE q == Get(op)
  <2>2. q \in Requests /\ q.op = op BY BoundsFact, RequestFact
  <2> HIDE DEF q, v
  <2> DEFINE c == NewCall("mutate", "sent", 1, {q})
  <2>3. c.fn = "mutate" /\ c.at = "sent" /\ c.asks = {q}
    BY <2>2, BoundsFact, NewCallFact DEF Changes, Awaits
  <2> HIDE DEF c
  <2>4. Asking(c) BY <2>2, <2>3 DEF Asking, OpsOf
  <2>5. Blocks(c, page, v) BY <1>1, <1>3, <2>3 DEF Blocks
  <2>6. Begin("mutate", "sent", 1, {q}, v) BY <2>1 DEF q
  <2>7. /\ {q} \in SUBSET Requests /\ {q} # {} /\ "mutate" \in ChangesOf(page)
        /\ \A y \in {q} : y.op \in DOMAIN From
    BY <1>1, <2>2 DEF ChangesOf
  <2> QED BY <1>1, <1>3, <2>4, <2>5, <2>6, <2>7, BoundsFact, BeginKeeps DEF Changes, Awaits, c
<1>5. CASE MutateBooking
  <2>1. PICK b \in Bookings, op \in {"accept", "reject"} : Begin("decide", "sent", b, {Req(op, b, 0)}, v)
    BY <1>5 DEF MutateBooking
  <2> DEFINE q == Req(op, b, 0)
  <2>2. q \in Requests /\ q.op = op /\ q.b = b BY BoundsFact, RequestFact
  <2> HIDE DEF q, v
  <2> DEFINE c == NewCall("decide", "sent", b, {q})
  <2>3. c.fn = "decide" /\ c.at = "sent" /\ c.asks = {q} /\ c.b = b
    BY <2>2, NewCallFact DEF Changes, Awaits
  <2> HIDE DEF c
  <2>4. Asking(c) BY <2>2, <2>3 DEF Asking, OpsOf
  <2>5. Blocks(c, page, v) BY <1>1, <1>3, <2>3 DEF Blocks
  <2>6. Begin("decide", "sent", b, {q}, v) BY <2>1 DEF q
  <2>7. {q} \in SUBSET Requests /\ {q} # {} /\ "decide" \in ChangesOf(page) BY <1>1, <2>2 DEF ChangesOf
  <2> QED BY <1>1, <1>3, <2>4, <2>5, <2>6, <2>7, BeginKeeps DEF Changes, Awaits, c
<1> QED BY <1>4, <1>5

\* The form of a trip is filled in by hand, and sent.
LEMMA FormKeeps ==
    ASSUME PagesInv, ManageInv, FormSeats \/ Submit
    PROVE  PagesInv' /\ ManageInv'
<1>1. page = "form" /\ user = "driver" BY DEF FormSeats, Submit, At
<1>2. view \in ViewType /\ view.seats \in 0..Capacity BY DEF PagesInv, ViewType
<1>3. CASE FormSeats
  <2>1. PICK n \in 1..Capacity : view' = [view EXCEPT !.seats = n] BY <1>3 DEF FormSeats
  <2>2. n \in 0..Capacity BY PagesAssumption
  <2>3. /\ view' \in ViewType /\ view'.loading = view.loading /\ view'.busy = view.busy
        /\ view'.trip = view.trip /\ view'.booking = view.booking
    BY <1>2, <2>1, <2>2 DEF ViewType
  <2>4. UNCHANGED <<user, rows, page, calls>> BY <1>3 DEF FormSeats
  <2> QED BY <1>1, <2>3, <2>4, ViewKeeps
<1>4. CASE Submit /\ ~view.details
  <2>1. view' = Fail(view) /\ UNCHANGED <<user, rows, page, calls>> BY <1>4 DEF Submit
  <2>2. view' \in ViewType /\ view' = [view EXCEPT !.told = "error"] BY <1>2, <2>1, FieldsFact
  <2>3. /\ view'.loading = view.loading /\ view'.busy = view.busy /\ view'.trip = view.trip
        /\ view'.booking = view.booking
    BY <1>2, <2>2 DEF ViewType
  <2> QED BY <1>1, <2>1, <2>2, <2>3, ViewKeeps
<1>5. CASE Submit /\ view.details
  <2> DEFINE v == Busy
             op == IF view.edit THEN "update" ELSE "publish"
             q == Req(op, 1, view.seats)
  <2>1. Begin(op, "sent", 1, {q}, v) BY <1>5 DEF Submit
  <2>2. v \in ViewType BY <1>2, BusyFact DEF Busy
  <2>3. op \in {"update", "publish"} OBVIOUS
  <2>4. q \in Requests /\ q.op = op BY <1>2, <2>3, BoundsFact, RequestFact
  <2> HIDE DEF op, q, v
  <2> DEFINE c == NewCall(op, "sent", 1, {q})
  <2>5. c.fn = op /\ c.at = "sent" /\ c.asks = {q}
    BY <2>3, <2>4, BoundsFact, NewCallFact DEF Changes, Awaits
  <2> HIDE DEF c
  <2>6. Asking(c) BY <2>3, <2>4, <2>5 DEF Asking, OpsOf
  <2>7. {q} \in SUBSET Requests /\ {q} # {} /\ op \in ChangesOf(page) BY <1>1, <2>3, <2>4 DEF ChangesOf
  <2> QED BY <1>1, <2>1, <2>2, <2>3, <2>6, <2>7, BoundsFact, BeginKeeps DEF Changes, Awaits, Single, c
<1> QED BY <1>3, <1>4, <1>5

\* The list of trips, and the form of a trip, are loaded.
LEMMA DriverLoadsKeep ==
    ASSUME PagesInv, ManageInv, NEW k \in InUse, TripsLoad(k) \/ FormFilled(k)
    PROVE  PagesInv' /\ ManageInv'
<1>1. /\ view \in ViewType /\ calls[k].got.trip \in TripType /\ calls[k].got.trip.total \in 0..Capacity
  BY GotFact
<1>2. page \notin Single /\ calls[k].here BY DEF TripsLoad, FormFilled, Single, Mine
<1>3. {Get("trip")} \in SUBSET Requests /\ \A q \in {Get("trip")} : q.op \in Reads
  BY BoundsFact, RequestFact DEF Reads
<1>4. CASE TripsLoad(k)
  <2>1. Fail(view) \in ViewType /\ [view EXCEPT !.trip = calls[k].got.trip] \in ViewType
        /\ Loaded(view) \in ViewType
    BY <1>1, FieldsFact, ShowsFact
  <2>2. Fail(Loaded(view)) \in ViewType BY <2>1, FieldsFact
  <2>3. \A v : v \in ViewType => Loaded(v) \in ViewType BY FieldsFact
  <2>4. CASE Mine(k, {"load"}, "details") /\ (Return(k, Fail(Loaded(view))) \/ Await(k, "trip", {Get("trip")}, view))
    BY <1>1, <1>2, <1>3, <2>2, <2>4, PlainKeeps DEF Awaits
  <2>5. CASE Return(k, Loaded(IF Failed(k) THEN Fail(view) ELSE [view EXCEPT !.trip = calls[k].got.trip]))
    BY <1>2, <2>1, <2>3, <2>5, PlainKeeps
  <2> QED BY <1>4, <2>4, <2>5 DEF TripsLoad
<1>5. CASE FormFilled(k)
  <2> DEFINE v == [view EXCEPT !.details = TRUE]
             w == [view EXCEPT !.details = TRUE, !.seats = calls[k].got.trip.total]
  <2>1. v \in ViewType /\ w \in ViewType BY <1>1 DEF ViewType
  <2>2. \/ Return(k, view) \/ Await(k, "trip", {Get("trip")}, view)
        \/ Await(k, "stops", {}, v) \/ Await(k, "stops", {}, w)
    BY <1>5 DEF FormFilled, Detail
  <2> HIDE DEF v, w
  <2> QED BY <1>1, <1>2, <1>3, <2>1, <2>2, PlainKeeps DEF Awaits
<1> QED BY <1>4, <1>5

\* A change of a trip's data is answered.
LEMMA SubmittedKeeps ==
    ASSUME PagesInv, ManageInv, NEW k \in InUse, Submitted(k)
    PROVE  PagesInv' /\ ManageInv'
<1> DEFINE c == calls[k]
           target == IF c.fn = "update" THEN "manage" ELSE "trips"
           f == Fresh
<1>1. c.fn \in {"update", "publish"} /\ c.at = "sent" /\ c.asks = {} BY DEF Submitted, Ready
<1>2. c \in CallType /\ CallInv(c, page, user) /\ k \in Slots /\ view \in ViewType /\ c.fn # "none"
  BY <1>1 DEF PagesInv, InUse
<1>3. user = "driver" BY <1>1, <1>2 DEF CallInv
<1>4. page # "book" BY <1>3, WhoseFact DEF PassengerPageNames
<1>5. CASE Failed(k)
  <2>1. Return(k, Done(Fail(view))) BY <1>5 DEF Submitted
  <2>2. c.here BY <1>1, <1>2, <1>5 DEF CallInv, Away, Failed
  <2>3. page = "form" BY <1>1, <2>2, AloneFact DEF ChangesOf
  <2>4. Fail(view) \in ViewType BY <1>2, FieldsFact
  <2>5. Done(Fail(view)) \in ViewType BY <2>4, FieldsFact
  <2> QED BY <2>1, <2>3, <2>5, PlainKeeps DEF Single
<1>6. CASE ~Failed(k) /\ page = target
  <2>1. Return(k, view) BY <1>6 DEF Submitted
  <2>2. page = "manage" => Behind(view.trip, view.booking, rows) BY <1>3 DEF ManageInv
  <2> QED BY <1>2, <1>4, <2>1, <2>2, ReturnKeeps
<1>7. CASE ~Failed(k) /\ page # target
  <2> DEFINE others == [calls EXCEPT ![k] = Idle]
  <2>1. DriverPageOpens(target, f, others) BY <1>7 DEF Submitted
  <2>2. \A j \in Slots : others[j] = calls[j] \/ others[j] = Idle BY DEF PagesInv
  <2>3. f \in ViewType /\ ~f.busy /\ f.trip = NoTrip /\ f.booking = NoBookings /\ f.seats = 1 BY FreshFact
  <2>4. target \in DriverPageNames BY DEF DriverPageNames
  <2> HIDE DEF others, target, f
  <2> QED BY <1>3, <2>1, <2>2, <2>3, <2>4, DriverOpenKeeps
<1> QED BY <1>5, <1>6, <1>7

\* What the page of a trip shows next, at the end of one of its functions.
ManageShown(k, v) ==
    /\ v \in ViewType
    /\ \/ v.trip = view.trip
       \/ v.trip = calls[k].got.trip /\ ~Failed(k) /\ (ReadsTrip(calls[k]))
    /\ \/ v.booking = view.booking
       \/ v.booking = calls[k].got.booking /\ ~Failed(k) /\ ReadsBookings(calls[k])

\* It is no earlier than what is shown, and no later than what the server has.
LEMMA ManageForward ==
    ASSUME PagesInv, ManageInv, page = "manage", NEW k \in InUse, calls[k].here, calls[k].asks = {},
           NEW v, ManageShown(k, v)
    PROVE  /\ Behind(v.trip, v.booking, rows)
           /\ Rank(view.trip.status) <= Rank(v.trip.status)
           /\ \A b \in Bookings : Rank(view.booking[b]) <= Rank(v.booking[b])
<1>1. user = "driver" BY WhoseFact DEF DriverPageNames
<1>2. k \in HereIn(calls) /\ k \in Slots BY AloneFact
<1>3. Behind(view.trip, view.booking, rows) BY <1>1 DEF ManageInv
<1>4. Behind(calls[k].got.trip, calls[k].got.booking, rows) BY <1>1, <1>2 DEF ManageInv, Follows
<1>5. Reading(calls[k], view) BY <1>1, <1>2 DEF ManageInv
<1>6. v.trip = view.trip \/ Rank(view.trip.status) <= Rank(v.trip.status)
  BY <1>5 DEF ManageShown, Reading, Failed
<1>7. v.booking = view.booking \/ \A b \in Bookings : Rank(view.booking[b]) <= Rank(v.booking[b])
  BY <1>5 DEF ManageShown, Reading, Failed
<1>8. Behind(v.trip, v.booking, rows) BY <1>3, <1>4 DEF Behind, ManageShown
<1> QED BY <1>6, <1>7, <1>8, RankFact

\* What the functions of the page of a trip show: what they have read, or what was shown.
LEMMA ManageShows ==
    ASSUME PagesInv, ManageInv, NEW k \in InUse, ManageLoad(k) \/ Mutated(k) \/ BookingMutated(k)
    PROVE  /\ page = "manage" /\ user = "driver" /\ calls[k].here /\ calls[k].asks = {}
           /\ \E v : /\ ManageShown(k, v)
                     /\ \/ Return(k, v)
                        \/ Await(k, "stops", {}, v) /\ calls[k].fn = "load" /\ v.loading = view.loading
                             /\ v.busy = view.busy
                        \/ /\ Await(k, "reload", {Get("trip"), Get("bookings")}, v)
                           /\ calls[k].fn = "decide" /\ calls[k].at = "sent" /\ ~Failed(k)
                           /\ v = view
<1> DEFINE c == calls[k]
<1>1. c.here /\ c.asks = {} /\ user = "driver" /\ c.fn \in {"load", "mutate", "decide"}
  BY DEF ManageLoad, Mutated, BookingMutated, Mine, Ready
<1>2. page = "manage"
  <2>1. CASE ManageLoad(k) BY <2>1 DEF ManageLoad
  <2>2. CASE Mutated(k) \/ BookingMutated(k)
    <3>1. c.fn \in {"mutate", "decide"} BY <2>2 DEF Mutated, BookingMutated, Mine, Ready
    <3>2. c.fn \in ChangesOf(page) BY <1>1, <3>1, AloneFact
    <3> QED BY <3>1, <3>2 DEF ChangesOf
  <2> QED BY <2>1, <2>2
<1>3. view \in ViewType /\ c.got.trip \in TripType /\ c.got.booking \in BookingType BY GotFact
<1>4. \A v : v \in ViewType =>
        /\ Loaded(v) \in ViewType /\ Loaded(v).trip = v.trip /\ Loaded(v).booking = v.booking
        /\ Fail(v) \in ViewType /\ Fail(v).trip = v.trip /\ Fail(v).booking = v.booking
        /\ Done(v) \in ViewType /\ Done(v).trip = v.trip /\ Done(v).booking = v.booking
  BY DEF Loaded, Fail, Done, ViewType
<1>5. CASE ManageLoad(k)
  <2>1. CASE Return(k, Fail(Loaded(view)))
    BY <1>1, <1>2, <1>3, <1>4, <2>1 DEF ManageShown
  <2>2. CASE /\ Mine(k, {"load"}, "all") /\ ~Failed(k)
             /\ Detail(k, "stops", [view EXCEPT !.trip = c.got.trip, !.booking = c.got.booking])
    <3> DEFINE v == [view EXCEPT !.trip = c.got.trip, !.booking = c.got.booking]
    <3>1. /\ v \in ViewType /\ v.trip = c.got.trip /\ v.booking = c.got.booking
          /\ v.loading = view.loading /\ v.busy = view.busy
      BY <1>3 DEF ViewType
    <3>2. Await(k, "stops", {}, v) BY <2>2 DEF Detail
    <3> HIDE DEF v
    <3>3. c.fn = "load" /\ c.at = "all" BY <2>2 DEF Mine, Ready
    <3>4. ManageShown(k, v) BY <2>2, <3>1, <3>3 DEF ManageShown, ReadsTrip, ReadsBookings
    <3> QED BY <1>1, <1>2, <3>1, <3>2, <3>3, <3>4
  <2>3. CASE Return(k, Loaded(IF Failed(k) THEN Fail(view) ELSE view))
    <3> DEFINE w == IF Failed(k) THEN Fail(view) ELSE view
    <3>1. w \in ViewType /\ w.trip = view.trip /\ w.booking = view.booking BY <1>3, <1>4
    <3> HIDE DEF w
    <3> QED BY <1>1, <1>2, <1>4, <2>3, <3>1 DEF ManageShown, w
  <2> QED BY <1>5, <2>1, <2>2, <2>3 DEF ManageLoad
<1>6. CASE Mutated(k)
  <2> DEFINE w == IF Failed(k) THEN Fail(view) ELSE [view EXCEPT !.trip = c.got.trip]
  <2>1. Return(k, Done(w)) /\ c.fn = "mutate" BY <1>6 DEF Mutated, Mine, Ready
  <2>2. /\ w \in ViewType /\ w.booking = view.booking
        /\ w.trip = view.trip \/ (w.trip = c.got.trip /\ ~Failed(k))
    <3>1. CASE Failed(k) BY <1>3, <1>4, <3>1
    <3>2. CASE ~Failed(k) BY <1>3, <3>2 DEF ViewType
    <3> QED BY <3>1, <3>2
  <2> HIDE DEF w
  <2>3. ManageShown(k, Done(w)) BY <1>4, <2>1, <2>2 DEF ManageShown, ReadsTrip
  <2> QED BY <1>1, <1>2, <2>1, <2>3
<1>7. CASE BookingMutated(k)
  <2>1. CASE Return(k, Done(Fail(view))) BY <1>1, <1>2, <1>3, <1>4, <2>1 DEF ManageShown
  <2>2. CASE Mine(k, {"decide"}, "sent") /\ ~Failed(k) /\ Await(k, "reload", {Get("trip"), Get("bookings")}, view)
    BY <1>1, <1>2, <1>3, <2>2 DEF ManageShown, Mine, Ready
  <2>3. CASE /\ Mine(k, {"decide"}, "reload")
             /\ Return(k, Done(IF Failed(k) THEN Fail(view) ELSE ReloadShown(k)))
    <3> DEFINE w == IF Failed(k) THEN Fail(view) ELSE ReloadShown(k)
    <3>1. \/ w \in ViewType /\ w.trip = view.trip /\ w.booking = view.booking
          \/ w \in ViewType /\ w.trip = c.got.trip /\ w.booking = c.got.booking /\ ~Failed(k)
      <4>1. CASE Failed(k) BY <1>3, <1>4, <4>1
      <4>2. CASE ~Failed(k) BY <1>3, <4>2 DEF ViewType, ReloadShown
      <4> QED BY <4>1, <4>2
    <3>2. c.at = "reload" BY <2>3 DEF Mine, Ready
    <3> HIDE DEF w
    <3>3. ManageShown(k, Done(w)) BY <1>4, <3>1, <3>2 DEF ManageShown, ReadsTrip, ReadsBookings
    <3> QED BY <1>1, <1>2, <2>3, <3>3 DEF w
  <2> QED BY <1>7, <2>1, <2>2, <2>3 DEF BookingMutated
<1> QED BY <1>5, <1>6, <1>7

\* The functions of the page of a trip.
LEMMA ManageKeeps ==
    ASSUME PagesInv, ManageInv, NEW k \in InUse, ManageLoad(k) \/ Mutated(k) \/ BookingMutated(k)
    PROVE  PagesInv' /\ ManageInv'
<1>1. page = "manage" /\ user = "driver" /\ calls[k].here /\ calls[k].asks = {} BY ManageShows
<1>2. PICK v : /\ ManageShown(k, v)
               /\ \/ Return(k, v)
                  \/ Await(k, "stops", {}, v) /\ calls[k].fn = "load" /\ v.loading = view.loading
                       /\ v.busy = view.busy
                  \/ /\ Await(k, "reload", {Get("trip"), Get("bookings")}, v)
                     /\ calls[k].fn = "decide" /\ calls[k].at = "sent" /\ ~Failed(k)
                     /\ v = view
  BY ManageShows
<1>3. v \in ViewType /\ Behind(v.trip, v.booking, rows) BY <1>1, <1>2, ManageForward DEF ManageShown
<1>4. CASE Return(k, v) BY <1>1, <1>3, <1>4, ReturnKeeps
<1>5. CASE Await(k, "stops", {}, v) /\ calls[k].fn = "load" /\ v.loading = view.loading /\ v.busy = view.busy
  <2>1. v.loading /\ ~v.busy BY <1>1, <1>5, AloneFact DEF Blocks
  <2> QED BY <1>1, <1>3, <1>5, <2>1, AwaitKeeps DEF Awaits
<1>6. CASE /\ Await(k, "reload", {Get("trip"), Get("bookings")}, v)
           /\ calls[k].fn = "decide" /\ calls[k].at = "sent" /\ ~Failed(k) /\ v = view
  <2> DEFINE asks == {Get("trip"), Get("bookings")}
  <2>1. /\ asks \in SUBSET Requests /\ \A q \in asks : q.op \in Reads
        /\ (\E q \in asks : q.op = "trip") /\ (\E q \in asks : q.op = "bookings")
    BY BoundsFact, RequestFact DEF Reads
  <2>2. Await(k, "reload", asks, v) BY <1>6
  <2>3. v.busy /\ ~v.loading BY <1>1, <1>6, AloneFact DEF Blocks
  <2>4. Decided(calls[k], rows) BY <1>1, AloneFact DEF ManageInv, Follows
  <2>5. rows.booking[calls[k].b] \notin {"none", "pending"} BY <1>1, <1>6, <2>4 DEF Decided, Failed
  <2> HIDE DEF asks
  <2> QED BY <1>1, <1>3, <1>6, <2>1, <2>2, <2>3, <2>5, AwaitKeeps DEF Awaits
<1> QED BY <1>2, <1>4, <1>5, <1>6

-----------------------------------------------------------------------------
(* The invariant *)

\* A page is open from the start.
LEMMA PagesInit == Init => PagesInv /\ ManageInv
<1> SUFFICES ASSUME Init PROVE PagesInv /\ ManageInv OBVIOUS
<1> DEFINE t == IF user = "passenger" THEN Published(Capacity) ELSE NoTrip
           ss == [b \in Bookings |-> 0]
           c == [Idle EXCEPT !.fn = "load", !.at = "details"]
           bs == NoBookings
<1>1. /\ rows = [trip |-> t, booking |-> bs, seats |-> ss, rated |-> 0]
      /\ user \in Users /\ page = IF user = "passenger" THEN "search" ELSE "trips"
      /\ view = Start(Fresh) /\ calls = [k \in Slots |-> IF k = 1 THEN c ELSE Idle]
  BY DEF Init
<1>2. t \in TripType /\ t.avail \in 0..Capacity /\ t.status # "none"
  BY TripFact, PagesAssumption DEF NoTrip
<1>3. bs \in BookingType /\ \A b \in Bookings : bs[b] = "none" BY NoBookingsFact
<1>4. ss \in [Bookings -> 0..Capacity] /\ \A b \in Bookings : ss[b] = 0 BY BoundsFact
<1>5. c = NewCall("load", "details", 1, {})
  <2> DEFINE i == Idle
  <2>1. i \in CallType /\ i.b = 1 /\ i.asks = {} BY IdleFact DEF Idle
  <2>2. NewCall("load", "details", 1, {}) = [i EXCEPT !.fn = "load", !.at = "details", !.b = 1, !.asks = {}]
    BY DEF NewCall
  <2> HIDE DEF i
  <2>3. [i EXCEPT !.fn = "load", !.at = "details", !.b = 1, !.asks = {}]
          = [i EXCEPT !.fn = "load", !.at = "details"]
    BY <2>1 DEF CallType
  <2> QED BY <2>2, <2>3 DEF i
<1> HIDE DEF c
<1>6. c \in CallType /\ c.fn = "load" /\ c.at = "details" /\ c.asks = {} /\ c.here /\ c.got = Nothing
  BY <1>5, BoundsFact, NewCallFact DEF Awaits
<1>7. user \in {"passenger", "driver"} /\ page \in PagesOf(user) /\ page \notin Single
  BY <1>1, PagesAssumption DEF PagesOf, PassengerPageNames, DriverPageNames, Single
<1> HIDE DEF t, ss, bs
<1>8. RowsInv(rows)
  <2>1. rows \in RowsType /\ rows.trip = t /\ rows.booking = bs /\ rows.seats = ss
    BY <1>1, <1>2, <1>3, <1>4 DEF RowsType
  <2>2. Cardinality(Held(rows)) = 0 BY <1>4, <2>1, HeldNone
  <2> QED BY <1>2, <1>3, <1>4, <2>1, <2>2, PagesAssumption DEF RowsInv
<1>9. view \in ViewType BY <1>1, FreshFact, FieldsFact
<1>10. \A k \in Slots : calls[k] = c \/ calls[k] = Idle BY <1>1
<1>11. calls \in [Slots -> CallType] BY <1>1, <1>6, IdleFact
<1>12. CallInv(c, page, user) /\ CallInv(Idle, page, user) BY <1>6, IdleFact DEF CallInv, Asking
<1>13. \A k \in Slots : CallInv(calls[k], page, user) BY <1>10, <1>12
<1>14. OneAtATime(calls, page) /\ \A x : Blocks(x, page, view) BY <1>7 DEF OneAtATime, Blocks, Single
<1>15. PagesInv BY <1>1, <1>7, <1>8, <1>9, <1>11, <1>13, <1>14 DEF PagesInv, Single
<1>16. Follows(c, rows) /\ Follows(Idle, rows)
  <2>1. \A x : Rank("absent") <= Rank(x) /\ Rank("none") <= Rank(x) BY RankFact
  <2>2. Behind(NoTrip, NoBookings, rows) BY <2>1, TripFact, NoBookingsFact DEF Behind
  <2> QED BY <1>6, <2>2, IdleFact, NothingFact DEF Follows, Decided
<1>17. ManageInv BY <1>7, <1>10, <1>16 DEF ManageInv, Single
<1> QED BY <1>15, <1>17

\* Every step keeps it.
LEMMA PagesStep ==
    ASSUME PagesInv, ManageInv, [Next]_vars
    PROVE  PagesInv' /\ ManageInv'
<1>1. CASE UNCHANGED vars
  BY <1>1 DEF vars, PagesInv, ManageInv, HereIn
<1>2. CASE SomeoneActs \/ OthersBook \/ PassengersBook BY <1>2, OthersKeep
<1>3. CASE Navigate \/ OpenTrip \/ HandleCardAction \/ OpenRateDriver BY <1>3, NavigationKeeps
<1>4. CASE SearchTrips BY <1>4, SearchKeeps
<1>5. CASE ChangeSeats BY <1>5, StepperKeeps
<1>6. CASE RequestBooking \/ CancelBooking \/ SubmitRating BY <1>6, PassengerSendKeeps
<1>7. CASE Poll BY <1>7, PollKeeps
<1>8. CASE CreateTrip \/ OpenCard \/ EditTrip \/ Back BY <1>8, DriverNavigationKeeps
<1>9. CASE Mutate \/ MutateBooking BY <1>9, ManageSendKeeps
<1>10. CASE FormSeats \/ Submit BY <1>10, FormKeeps
<1>11. ASSUME NEW k \in InUse, Serve(k) \/ Lose(k) \/ Continue(k) PROVE PagesInv' /\ ManageInv'
  <2>1. CASE Serve(k) BY <2>1, ServeKeeps
  <2>2. CASE Lose(k) BY <2>2, LoseKeeps
  <2>3. CASE SearchLoaded(k) \/ ResultsLoad(k) BY <2>3, SearchLoadsKeep
  <2>4. CASE FormLoad(k) BY <2>4, FormLoadKeeps
  <2>5. CASE Requested(k) BY <2>5, RequestedKeeps
  <2>6. CASE BookingsLoad(k) BY <2>6, BookingsLoadKeeps
  <2>7. CASE DetailLoad(k) BY <2>7, DetailLoadKeeps
  <2>8. CASE Rated(k) \/ Cancelled(k) BY <2>8, PassengerAnsweredKeeps
  <2>9. CASE RateLoad(k) BY <2>9, RateLoadKeeps
  <2>10. CASE TripsLoad(k) \/ FormFilled(k) BY <2>10, DriverLoadsKeep
  <2>11. CASE ManageLoad(k) \/ Mutated(k) \/ BookingMutated(k) BY <2>11, ManageKeeps
  <2>12. CASE Submitted(k) BY <2>12, SubmittedKeeps
  <2> QED BY <1>11, <2>1, <2>2, <2>3, <2>4, <2>5, <2>6, <2>7, <2>8, <2>9, <2>10, <2>11, <2>12
        DEF Continue, PassengerContinues, DriverContinues
<1> QED BY <1>1, <1>2, <1>3, <1>4, <1>5, <1>6, <1>7, <1>8, <1>9, <1>10, <1>11
      DEF Next, PassengerTaps, DriverTaps

\* The pages, the calls and the rows are as they may be in every state.
THEOREM PagesInvariant == Spec => [](PagesInv /\ ManageInv)
<1>1. PagesInv /\ ManageInv /\ [Next]_vars => PagesInv' /\ ManageInv' BY PagesStep
<1> QED BY <1>1, PagesInit, PTL DEF Spec

-----------------------------------------------------------------------------
(* What follows in every state *)

\* The rows, the calls and the fields on display keep their shape.
THEOREM PagesTyped == Spec => []PagesTypeOK
<1>1. PagesInv => PagesTypeOK
  <2> SUFFICES ASSUME PagesInv PROVE PagesTypeOK OBVIOUS
  <2>1. rows \in RowsType /\ view \in ViewType /\ user \in Users /\ calls \in [Slots -> CallType]
    BY DEF PagesInv, RowsInv
  <2>2. /\ rows.trip \in TripType /\ rows.booking \in BookingType /\ rows.seats \in [Bookings -> 0..Capacity]
        /\ rows.rated \in 0..1
    BY <2>1 DEF RowsType
  <2>3. \A k \in Slots : calls[k].asks \subseteq Requests
                         /\ calls[k].got.verdict \in {"ok", "seats", "refused", "lost"}
    BY <2>1 DEF CallType, GotType
  <2>4. /\ view.trip.status \in TripStates /\ view.booking \in BookingType
        /\ view.seats \in 0..Capacity /\ view.focus \in Bookings
    BY <2>1 DEF ViewType, TripType
  <2> QED BY <2>1, <2>2, <2>3, <2>4 DEF PagesTypeOK, TripPagesTypes, TripType, BookingType
<1> QED BY <1>1, PagesInvariant, PTL

\* A driver's rating is stored once, however often it is sent: the second of two that were checked
\* before either was stored is refused by the unique index.
THEOREM RatedOnceHolds == Spec => []RatedOnce
<1>1. PagesInv => RatedOnce BY DEF PagesInv, RowsInv, RowsType, RatedOnce
<1> QED BY <1>1, PagesInvariant, PTL

\* A booking form that can be sent asks for one seat at least and for no more than it says are left,
\* whatever was booked by others while it was loaded, filled in, refused and loaded again.
THEOREM SeatsOfferedHolds == Spec => []SeatsOffered
<1>1. PagesInv => SeatsOffered
  <2> SUFFICES ASSUME PagesInv, page = "book", ~view.loading, Requestable(view), view.told # "error"
               PROVE  view.seats \in 1..view.trip.avail
    BY DEF SeatsOffered
  <2>1. SeatsInv(view) /\ view.seats \in Nat /\ view.trip.avail \in Nat
    BY PagesAssumption DEF PagesInv, ViewType, TripType
  <2> QED BY <2>1 DEF SeatsInv, Requestable
<1> QED BY <1>1, PagesInvariant, PTL

-----------------------------------------------------------------------------
(* What follows for every step *)

\* An answer, or its loss, does not end a call whose page is open.
LEMMA AnswerStays ==
    ASSUME PagesInv, NEW k \in InUse, Serve(k) \/ Lose(k), NEW j \in Slots, calls[j].here
    PROVE  calls'[j].fn = calls[j].fn /\ view' = view
<1>1. calls[k] \in CallType /\ k \in Slots /\ calls \in [Slots -> CallType] BY DEF PagesInv, InUse
<1>2. view' = view BY DEF Serve, Lose
<1>3. \E asks, g : calls' = [calls EXCEPT ![k] = Gone([calls[k] EXCEPT !.asks = asks, !.got = g])]
  <2>1. CASE Lose(k)
    <3> DEFINE g == [calls[k].got EXCEPT !.verdict = "lost"]
    <3>1. calls' = [calls EXCEPT ![k] = Gone([calls[k] EXCEPT !.asks = {}, !.got = g])]
      BY <1>1, <2>1 DEF Lose, CallType
    <3> QED BY <3>1
  <2>2. CASE Serve(k)
    <3> DEFINE c == calls[k]
    <3>1. PICK q \in calls[k].asks :
            LET verdict == Verdict(rows, q)
                more == IF q.op = "rate" THEN {Req("insert", 1, 0)} ELSE c.asks \ {q}
            IN calls' = [calls EXCEPT ![k] =
                  Gone(IF verdict = "ok" THEN [c EXCEPT !.asks = more, !.got = Answer(c.got, q, rows')]
                       ELSE [c EXCEPT !.asks = {}, !.got.verdict = verdict])]
      BY <2>2, Zenon DEF Serve
    <3>2. CASE Verdict(rows, q) = "ok" BY <3>1, <3>2
    <3>3. CASE Verdict(rows, q) # "ok"
      <4> DEFINE v == Verdict(rows, q)
                 g == [c.got EXCEPT !.verdict = v]
      <4>1. calls' = [calls EXCEPT ![k] = Gone([c EXCEPT !.asks = {}, !.got.verdict = v])] BY <3>1, <3>3
      <4>2. calls' = [calls EXCEPT ![k] = Gone([c EXCEPT !.asks = {}, !.got = g])] BY <1>1, <4>1
      <4> QED BY <4>2
    <3> QED BY <3>2, <3>3
  <2> QED BY <2>1, <2>2
<1>4. PICK asks, g : calls' = [calls EXCEPT ![k] = Gone([calls[k] EXCEPT !.asks = asks, !.got = g])] BY <1>3
<1> DEFINE x == [calls[k] EXCEPT !.asks = asks, !.got = g]
<1>5. x.fn = calls[k].fn /\ x.here = calls[k].here BY <1>1 DEF CallType
<1> HIDE DEF x
<1>6. calls[k].here => Gone(x) = x BY <1>5 DEF Gone
<1>7. calls' = [calls EXCEPT ![k] = Gone(x)] BY <1>4 DEF x
<1> QED BY <1>1, <1>2, <1>5, <1>6, <1>7

\* While the page of a trip stays open, only its own functions change what it shows and end a decision.
LEMMA ManageStays ==
    ASSUME PagesInv, ManageInv, [Next]_vars, page = "manage", page' = "manage"
    PROVE  \/ /\ view'.trip = view.trip /\ view'.booking = view.booking
              /\ \A k \in Slots : calls[k].fn = "decide" /\ calls[k].here => calls'[k].fn = "decide"
           \/ \E k \in InUse : ManageLoad(k) \/ Mutated(k) \/ BookingMutated(k)
<1>1. user = "driver" /\ view \in ViewType /\ calls \in [Slots -> CallType]
  BY WhoseFact DEF PagesInv, DriverPageNames
<1>2. CASE UNCHANGED vars BY <1>2 DEF vars
<1>3. CASE SomeoneActs \/ OthersBook \/ PassengersBook BY <1>3 DEF SomeoneActs, OthersBook, PassengersBook
<1>4. ~PassengerTaps /\ ~Poll
  BY <1>1 DEF PassengerTaps, Poll, Navigate, OpenTrip, HandleCardAction, OpenRateDriver, SearchTrips,
              ChangeSeats, RequestBooking, CancelBooking, SubmitRating, On
<1>5. \A p, v, at, asks, others : Open(p, v, at, asks, others) => page' = p BY DEF Open
<1>6. ~CreateTrip /\ ~OpenCard /\ ~EditTrip /\ ~Back
  BY <1>5 DEF CreateTrip, OpenCard, EditTrip, Back, At, Opens, DriverPageOpens
<1>7. ~FormSeats /\ ~Submit BY DEF FormSeats, Submit, At
<1>8. CASE Mutate \/ MutateBooking
  <2> DEFINE v == Busy
  <2>1. v.trip = view.trip /\ v.booking = view.booking BY <1>1, BusyFact DEF Busy
  <2>2. \E fn, b, asks : Begin(fn, "sent", b, asks, v)
    <3>1. CASE Mutate BY <3>1 DEF Mutate
    <3>2. CASE MutateBooking BY <3>2 DEF MutateBooking
    <3> QED BY <1>8, <3>1, <3>2
  <2> HIDE DEF v
  <2>3. PICK fn, b, asks : Begin(fn, "sent", b, asks, v) BY <2>2
  <2>4. PICK k \in Slots : k \notin InUse /\ Turns(k, NewCall(fn, "sent", b, asks), v) BY <2>3, BeginFact
  <2>5. \A j \in Slots : calls[j].fn = "decide" => j # k BY <2>4 DEF InUse
  <2>6. view' = v /\ calls' = [calls EXCEPT ![k] = NewCall(fn, "sent", b, asks)] BY <2>4 DEF Turns
  <2> QED BY <1>1, <2>1, <2>4, <2>5, <2>6
<1>9. ASSUME NEW k \in InUse, Serve(k) \/ Lose(k)
      PROVE  /\ view'.trip = view.trip /\ view'.booking = view.booking
             /\ \A j \in Slots : calls[j].fn = "decide" /\ calls[j].here => calls'[j].fn = "decide"
  <2>1. view' = view BY <1>9 DEF Serve, Lose
  <2> QED BY <1>9, <2>1, AnswerStays
<1>10. ASSUME NEW k \in InUse, Submitted(k)
       PROVE  /\ view'.trip = view.trip /\ view'.booking = view.booking
              /\ \A j \in Slots : calls[j].fn = "decide" /\ calls[j].here => calls'[j].fn = "decide"
  <2> DEFINE target == IF calls[k].fn = "update" THEN "manage" ELSE "trips"
  <2>1. calls[k].fn \in {"update", "publish"} /\ k \in Slots BY <1>10 DEF Submitted, Ready, InUse
  <2>2. \/ Return(k, Done(Fail(view))) \/ Return(k, view)
        \/ page # target /\ DriverPageOpens(target, Fresh, [calls EXCEPT ![k] = Idle])
    BY <1>10 DEF Submitted
  <2>3. ~(page # target /\ DriverPageOpens(target, Fresh, [calls EXCEPT ![k] = Idle]))
    BY <1>5 DEF DriverPageOpens
  <2>4. Done(Fail(view)).trip = view.trip /\ Done(Fail(view)).booking = view.booking
    <3> DEFINE w == Fail(view)
    <3>1. w \in ViewType /\ w.trip = view.trip /\ w.booking = view.booking BY <1>1 DEF Fail, ViewType
    <3> HIDE DEF w
    <3>2. Done(w).trip = w.trip /\ Done(w).booking = w.booking BY <3>1 DEF Done, ViewType
    <3> QED BY <3>1, <3>2 DEF w
  <2>5. /\ calls' = [calls EXCEPT ![k] = Idle] /\ (view' = view \/ view' = Done(Fail(view)))
    BY <2>2, <2>3 DEF Return
  <2> QED BY <1>1, <2>1, <2>4, <2>5
<1>11. ASSUME NEW k \in InUse, Continue(k)
       PROVE  Submitted(k) \/ ManageLoad(k) \/ Mutated(k) \/ BookingMutated(k)
  <2>1. ~PassengerContinues(k)
    BY <1>1 DEF PassengerContinues, SearchLoaded, ResultsLoad, FormLoad, Requested, BookingsLoad,
                DetailLoad, Cancelled, RateLoad, Rated, Here
  <2>2. ~TripsLoad(k) /\ ~FormFilled(k) BY DEF TripsLoad, FormFilled
  <2> QED BY <1>11, <2>1, <2>2 DEF Continue, DriverContinues
<1> QED BY <1>2, <1>3, <1>4, <1>6, <1>7, <1>8, <1>9, <1>10, <1>11 DEF Next, DriverTaps

\* What the page of a trip shows of the trip and of a booking never goes back to an earlier state: no
\* answer of one of its functions overwrites what a later one has shown.
THEOREM ManagedForwardHolds == Spec => ManagedForward
<1> DEFINE Forward ==
      page = "manage" /\ page' = "manage" =>
          /\ Rank(view.trip.status) <= Rank(view'.trip.status)
          /\ \A b \in Bookings : Rank(view.booking[b]) <= Rank(view'.booking[b])
<1>1. ASSUME PagesInv, ManageInv, [Next]_vars PROVE Forward
  <2> SUFFICES ASSUME page = "manage", page' = "manage"
               PROVE  /\ Rank(view.trip.status) <= Rank(view'.trip.status)
                      /\ \A b \in Bookings : Rank(view.booking[b]) <= Rank(view'.booking[b])
    OBVIOUS
  <2>1. CASE view'.trip = view.trip /\ view'.booking = view.booking BY <2>1, RankFact
  <2>2. ASSUME NEW k \in InUse, ManageLoad(k) \/ Mutated(k) \/ BookingMutated(k)
        PROVE  /\ Rank(view.trip.status) <= Rank(view'.trip.status)
               /\ \A b \in Bookings : Rank(view.booking[b]) <= Rank(view'.booking[b])
    <3>1. calls[k].here /\ calls[k].asks = {} BY <1>1, <2>2, ManageShows
    <3>2. PICK v : ManageShown(k, v) /\ view' = v BY <1>1, <2>2, ManageShows DEF Return, Await
    <3> QED BY <1>1, <3>1, <3>2, ManageForward
  <2> QED BY <1>1, <2>1, <2>2, ManageStays
<1> HIDE DEF Forward
<1>2. PagesInv /\ ManageInv /\ [Next]_vars => [Forward]_vars BY <1>1
<1>3. Spec => [][Forward]_vars BY <1>2, PagesInvariant, PTL DEF Spec
<1> QED BY <1>3 DEF ManagedForward, Forward

\* When a decision has been answered and the page of the trip is free again without an error, the
\* booking is no longer shown as pending.
THEOREM DecisionShownHolds == Spec => DecisionShown
<1> DEFINE Answered ==
      \A k \in Slots : calls[k].fn = "decide" /\ calls[k].here /\ calls'[k] = Idle /\ page' = "manage"
          => view'.told = "error" \/ view'.booking[calls[k].b] # "pending"
<1>1. ASSUME PagesInv, ManageInv, [Next]_vars PROVE Answered
  <2> SUFFICES ASSUME NEW k \in Slots, calls[k].fn = "decide", calls[k].here, calls'[k] = Idle, page' = "manage"
               PROVE  view'.told = "error" \/ view'.booking[calls[k].b] # "pending"
    OBVIOUS
  <2>1. k \in InUse BY DEF InUse
  <2>2. page = "manage"
    <3>1. calls[k].fn \in ChangesOf(page) BY <1>1, <2>1, AloneFact
    <3> QED BY <3>1 DEF ChangesOf
  <2>3. calls'[k].fn # "decide" BY IdleFact
  <2>4. PICK j \in InUse : ManageLoad(j) \/ Mutated(j) \/ BookingMutated(j)
    BY <1>1, <2>2, <2>3, ManageStays
  <2>5. j = k
    <3>1. calls[j].here BY <1>1, <2>4, ManageShows
    <3> QED BY <1>1, <2>1, <2>2, <3>1, AloneFact DEF Single
  <2>6. BookingMutated(k) BY <2>4, <2>5 DEF ManageLoad, Mutated, Mine, Ready
  <2>7. view \in ViewType /\ calls[k] \in CallType /\ calls \in [Slots -> CallType] BY <1>1 DEF PagesInv
  <2>8. \A v : v \in ViewType => /\ Fail(v) \in ViewType /\ Fail(v).told = "error"
                                 /\ Done(v).told = v.told /\ Done(v).booking = v.booking
    BY DEF Fail, Done, ViewType
  <2>9. CASE Return(k, Done(Fail(view))) BY <2>7, <2>8, <2>9 DEF Return
  <2>10. CASE Await(k, "reload", {Get("trip"), Get("bookings")}, view)
    <3>1. calls'[k].fn = calls[k].fn BY <2>7, <2>10 DEF Await, CallType
    <3> QED BY <2>3, <3>1
  <2>11. CASE Mine(k, {"decide"}, "reload") /\ ~Failed(k) /\ Return(k, Done(ReloadShown(k)))
    <3>1. calls[k].got.trip \in TripType /\ calls[k].got.booking \in BookingType BY <1>1, <2>1, GotFact
    <3> DEFINE w == ReloadShown(k)
    <3>2. w \in ViewType /\ w.booking = calls[k].got.booking BY <2>7, <3>1 DEF ReloadShown, ViewType
    <3> HIDE DEF w
    <3>3. view' = Done(w) BY <2>11 DEF Return, w
    <3>4. calls[k].at = "reload" /\ calls[k].asks = {} /\ user = "driver" BY <2>11 DEF Mine, Ready
    <3>5. Decided(calls[k], rows) BY <1>1, <3>4 DEF ManageInv, Follows
    <3>6. calls[k].got.booking[calls[k].b] # "pending" BY <2>11, <3>4, <3>5 DEF Decided, Failed
    <3> QED BY <2>8, <3>2, <3>3, <3>6
  <2> QED BY <2>6, <2>9, <2>10, <2>11 DEF BookingMutated
<1> HIDE DEF Answered
<1>2. PagesInv /\ ManageInv /\ [Next]_vars => [Answered]_vars BY <1>1
<1>3. Spec => [][Answered]_vars BY <1>2, PagesInvariant, PTL DEF Spec
<1> QED BY <1>3 DEF DecisionShown, Answered
=============================================================================
