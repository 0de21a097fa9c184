------------------------------- MODULE Alerts -------------------------------
(***************************************************************************)
(* Notifications on one phone, whoever is signed in on it: the watcher     *)
(* that asks for them every eight seconds, the badge, the page that lists  *)
(* them, and the push token by which the server reaches the phone.         *)
(*                                                                         *)
(* A list is that of the account whose token it was asked with; it may be  *)
(* answered late, and the badge shows the one that arrived last.  The      *)
(* watcher and what it knows outlive a sign-out, and the token stays       *)
(* registered.  Pushes come on top; the badge counts them too.             *)
(***************************************************************************)
EXTENDS SignIn

CONSTANTS
    Builds,   \* whether native push is enabled in the build
    MaxNote,  \* bound: notifications
    MaxAsk    \* bound: requests for notifications in flight, one of them the watcher's

ASSUME AlertsAssumption == Builds \subseteq BOOLEAN /\ {MaxNote, MaxAsk} \subseteq Nat \ {0}

VARIABLES
    native,   \* the build
    rows,     \* the server's notifications, to whom and which are read; whose this phone's token is
    watcher,  \* the timer runs, primed, what is known to be unread
    asked,    \* requests for notifications in flight
    badge,    \* the number unreadCount$ shows
    toasts,   \* notifications announced by the watcher that may still be opened
    noticed,  \* how often each was announced since the sign-in; for the properties only
    list,     \* the page of notifications and what it shows as unread
    regs,     \* registrations of the token in flight, by account
    pushes    \* notifications on their way through Firebase

alertVars == <<native, rows, watcher, asked, badge, toasts, noticed, list, regs, pushes>>

Notes == 1..MaxNote
Asks == 1..MaxAsk
Current == session.who
UnreadAll(who) == {n \in Notes : rows.to[n] = who}  \* mutant: read or not
Unread(who) == {n \in Notes : rows.to[n] = who} \ rows.read

-----------------------------------------------------------------------------
(* Requests: "poll" of the watcher, "page", "count" (refreshUnreadCount), and markRead: "mark" from a
   toast, "open" from the page *)

NoAsk == [fn |-> "none", n |-> 1, as |-> 0, at |-> "", got |-> {}]
Out == {k \in Asks : asked[k].fn # "none"}
\* The first place that is free for a poll, the last one for another: any would do.
Asked(cs, fn, n, who) ==
    LET free == {j \in Asks : cs[j] = NoAsk}
        k == CHOOSE i \in free : \A j \in free : IF fn = "poll" THEN i <= j ELSE i >= j
    IN [cs EXCEPT ![k] = [NoAsk EXCEPT !.fn = fn, !.n = n, !.as = who, !.at = "sent"]]
IsPollingNever == FALSE  \* mutant: no isPolling
IsPolling == \E k \in Out : asked[k].fn = "poll"
Spare == Out # Asks /\ Cardinality({k \in Out : asked[k].fn # "poll"}) < MaxAsk - 1
Drop(k) == asked' = [asked EXCEPT ![k] = NoAsk]

NoList == [open |-> FALSE, unread |-> {}]
\* Of a page that is left its loads still set the badge; what it opens still navigates.
PageGone(cs) == [k \in Asks |-> IF cs[k].fn = "page" THEN [cs[k] EXCEPT !.fn = "count"] ELSE cs[k]]

\* The server answers for the account that asked; only its own notifications are marked.
Owns(q) == rows.to[q.n] = q.as
Marks(q) == IF q.fn \in {"mark", "open"} /\ Owns(q) THEN [rows EXCEPT !.read = @ \cup {q.n}] ELSE rows
Serve(k) ==
    LET q == asked[k]
    IN /\ q.at = "sent" /\ (q.fn \in {"mark", "open"} => Owns(q))
       /\ rows' = Marks(q)
       /\ asked' = [asked EXCEPT ![k].at = "back",
                                 ![k].got = IF q.fn \in {"mark", "open"} THEN {} ELSE Unread(q.as)]
       /\ UNCHANGED <<native, watcher, badge, toasts, noticed, list, regs, pushes>>
\* It refuses, or the connection drops before it has acted or after: nobody shows an error but the
\* page, and what was opened from the page is navigated to.
Fail(k) ==
    /\ asked[k].at = "sent"
    /\ rows' \in {rows, Marks(asked[k])}
    /\ IF asked[k].fn = "open" THEN asked' = PageGone([asked EXCEPT ![k] = NoAsk]) /\ list' = NoList
       ELSE Drop(k) /\ UNCHANGED list
    /\ UNCHANGED <<native, watcher, badge, toasts, noticed, regs, pushes>>

-----------------------------------------------------------------------------
(* The watcher and the badge *)

\* list() sets the badge before whoever asked goes on.
Announced(new) == [n \in Notes |-> IF n \in new /\ noticed[n] < 2 THEN noticed[n] + 1 ELSE noticed[n]]
Polled(k) ==
    /\ asked[k].fn = "poll" /\ asked[k].at = "back"
    /\ Drop(k)
    /\ badge' = Cardinality(asked[k].got)
    /\ watcher' = [watcher EXCEPT !.primed = TRUE, !.known = asked[k].got]
    /\ LET new == IF watcher.primed THEN asked[k].got \ watcher.known ELSE {}
       IN toasts' = toasts \cup new /\ noticed' = Announced(new)
    /\ UNCHANGED <<native, rows, list, regs, pushes>>
Poll ==
    /\ watcher.on /\ Current # 0 /\ ~IsPolling /\ Out # Asks
    /\ asked' = Asked(asked, "poll", 1, Current)
    /\ UNCHANGED <<native, rows, watcher, badge, toasts, noticed, list, regs, pushes>>
Counted(k) ==
    /\ asked[k].fn = "count" /\ asked[k].at = "back"
    /\ Drop(k)
    /\ badge' = Cardinality(asked[k].got)
    /\ UNCHANGED <<native, rows, watcher, toasts, noticed, list, regs, pushes>>

-----------------------------------------------------------------------------
(* The page of notifications, and notifications that are opened *)

EnterPage ==
    /\ ~list.open /\ Current # 0 /\ Spare
    /\ list' = [NoList EXCEPT !.open = TRUE]
    /\ asked' = Asked(asked, "page", 1, Current)
    /\ UNCHANGED <<native, rows, watcher, badge, toasts, noticed, regs, pushes>>
\* The refresh button, and every thirty seconds.
Load ==
    /\ list.open /\ Spare
    /\ asked' = Asked(asked, "page", 1, Current)
    /\ UNCHANGED <<native, rows, watcher, badge, toasts, noticed, list, regs, pushes>>
Listed(k) ==
    /\ asked[k].fn = "page" /\ asked[k].at = "back"
    /\ Drop(k)
    /\ badge' = Cardinality(asked[k].got)
    /\ list' = [list EXCEPT !.unread = asked[k].got]
    /\ UNCHANGED <<native, rows, watcher, toasts, noticed, regs, pushes>>
LeavePage ==
    /\ list.open
    /\ list' = NoList /\ asked' = PageGone(asked)
    /\ UNCHANGED <<native, rows, watcher, badge, toasts, noticed, regs, pushes>>

\* openNotification of the page waits for the mark and then leaves; that of a toast leaves at once.
OpenNotification ==
    /\ list.open /\ Spare
    /\ \E n \in list.unread : asked' = Asked(asked, "open", n, Current)
    /\ UNCHANGED <<native, rows, watcher, badge, toasts, noticed, list, regs, pushes>>
OpenToast ==
    /\ Spare
    /\ \E n \in toasts :
          /\ toasts' = toasts \ {n}
          /\ asked' = PageGone(Asked(asked, "mark", n, Current))
    /\ list' = NoList
    /\ UNCHANGED <<native, rows, watcher, badge, noticed, regs, pushes>>
Marked(k) ==
    /\ asked[k].fn \in {"mark", "open"} /\ asked[k].at = "back"
    /\ LET cs == IF Current # 0 THEN Asked([asked EXCEPT ![k] = NoAsk], "count", 1, Current)
                 ELSE [asked EXCEPT ![k] = NoAsk]
       IN IF asked[k].fn = "open" THEN asked' = PageGone(cs) /\ list' = NoList
          ELSE asked' = cs /\ UNCHANGED list
    /\ UNCHANGED <<native, rows, watcher, badge, toasts, noticed, regs, pushes>>

-----------------------------------------------------------------------------
(* The push token *)

RegistersNever(who) == UNCHANGED regs  \* mutant: sessionStored$ does not register the token
Registers(who) == regs' = IF native THEN regs \cup {who} ELSE regs
Register(who) ==
    /\ who \in regs
    /\ rows' = [rows EXCEPT !.device = who]
    /\ regs' = regs \ {who}
    /\ UNCHANGED <<native, watcher, asked, badge, toasts, noticed, list, pushes>>
LoseRegistration ==
    /\ \E who \in regs : regs' = regs \ {who}
    /\ UNCHANGED <<native, rows, watcher, asked, badge, toasts, noticed, list, pushes>>

\* createAndSend: the row, then the tokens of its owner, then the push.
NoteArrives ==
    /\ \E n \in Notes, who \in Numbers :
          /\ rows.to[n] = 0 /\ \A i \in Notes : i < n => rows.to[i] # 0
          /\ rows' = [rows EXCEPT !.to[n] = who]
          /\ pushes' = IF rows.device = who THEN pushes \cup {n} ELSE pushes
    /\ UNCHANGED <<native, watcher, asked, badge, toasts, noticed, list, regs>>
\* Bound: a notification that was read and that nothing refers to any more is new again.
RecycleNote(n) ==
    /\ n \in rows.read \ (watcher.known \cup toasts \cup list.unread \cup pushes)
    /\ \A k \in Out : n \notin asked[k].got /\ (asked[k].fn \in {"mark", "open"} => asked[k].n # n)
    /\ rows' = [rows EXCEPT !.to[n] = 0, !.read = @ \ {n}]
    /\ noticed' = [noticed EXCEPT ![n] = 0]
    /\ UNCHANGED <<native, watcher, asked, badge, toasts, list, regs, pushes>>
\* The push is received, by whoever is signed in by then, or not; or Firebase finds the token stale,
\* and it is deleted whoever has registered it meanwhile.
PushEnds ==
    /\ \E n \in pushes : pushes' = pushes \ {n}
    /\ \/ badge' = badge + 1 /\ UNCHANGED rows
       \/ UNCHANGED <<badge, rows>>
       \/ rows' = [rows EXCEPT !.device = 0] /\ UNCHANGED badge
    /\ UNCHANGED <<native, watcher, asked, toasts, noticed, list, regs>>

-----------------------------------------------------------------------------
(* Sessions *)

\* A session is stored: start, unless the timer runs, and registerCurrentDevice.
SessionStored(who) ==
    /\ Registers(who)
    /\ watcher' = [watcher EXCEPT !.on = TRUE]
    /\ IF watcher.on \/ IsPolling THEN UNCHANGED asked
       ELSE Out # Asks /\ asked' = Asked(asked, "poll", 1, who)
SignsIn ==
    /\ Current = 0
    /\ \E who \in Numbers : session' = Claims(who, account[who]) /\ SessionStored(who)
    /\ noticed' = [n \in Notes |-> 0]
    /\ UNCHANGED <<native, rows, badge, toasts, list, pushes>>
SessionRenewed ==
    /\ native /\ Current # 0
    /\ SessionStored(Current)
    /\ UNCHANGED <<session, native, rows, badge, toasts, noticed, list, pushes>>
SignsOut ==
    /\ Current # 0
    /\ session' = Nobody
    /\ list' = NoList /\ asked' = PageGone(asked)
    /\ UNCHANGED <<native, rows, watcher, badge, toasts, noticed, regs, pushes>>

\* The app is closed and opened again: nothing is left but the session.
Opened(cs, who) == IF who = 0 THEN cs ELSE Asked(Asked(cs, "count", 1, who), "poll", 1, who)
Reopens ==
    /\ asked' = Opened([k \in Asks |-> NoAsk], Current)
    /\ watcher' = [on |-> Current # 0, primed |-> FALSE, known |-> {}]
    /\ badge' = 0 /\ toasts' = {} /\ noticed' = [n \in Notes |-> 0] /\ list' = NoList
    /\ IF Current # 0 THEN Registers(Current) ELSE UNCHANGED regs
    /\ UNCHANGED <<session, native, rows, pushes>>

AlertsInit ==
    /\ native \in Builds
    /\ rows = [to |-> [n \in Notes |-> 0], read |-> {}, device |-> 0]
    /\ watcher = [on |-> Current # 0, primed |-> FALSE, known |-> {}]
    /\ asked = Opened([k \in Asks |-> NoAsk], Current)
    /\ badge = 0 /\ toasts = {} /\ noticed = [n \in Notes |-> 0] /\ list = NoList
    /\ regs = {} /\ pushes = {}

Handle(k) == Polled(k) \/ Counted(k) \/ Listed(k) \/ Marked(k)
AlertsNext ==
    \/ SignsIn \/ SessionRenewed \/ SignsOut \/ Reopens
    \/ /\ UNCHANGED session
       /\ \/ Poll \/ EnterPage \/ Load \/ LeavePage \/ OpenNotification \/ OpenToast
          \/ NoteArrives \/ PushEnds \/ LoseRegistration
          \/ \E n \in Notes : RecycleNote(n)
          \/ \E who \in Numbers : Register(who)
          \/ \E k \in Out : Serve(k) \/ Fail(k) \/ Handle(k)
=============================================================================
