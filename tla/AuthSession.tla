----------------------------- MODULE AuthSession -----------------------------
(***************************************************************************)
(* One signed-in client and the authentication service.  The client keeps  *)
(* an access and a refresh token; every request that comes back with 401   *)
(* exchanges the refresh token for a new pair, on its own, and is sent     *)
(* once more.  The server looks a refresh token up, and revokes it and     *)
(* issues its successor in a later transaction.                            *)
(*                                                                         *)
(* A session stands for the pair of tokens issued together: the client     *)
(* writes and removes them in one synchronous piece of code.               *)
(***************************************************************************)
EXTENDS Integers, FiniteSets

CONSTANTS
    Sessions,    \* rows of refresh_tokens that may come to exist
    Requests,    \* requests the client has in flight at a time
    Rejectable,  \* requests a service may refuse, say because seats ran out
    Opening,     \* GET /auth/me of a page that checks the session when it opens
    Lossy,       \* requests that may lose their connection or meet a server error
    QuickLogin,  \* whether the user may log in again before the last requests ended
    None

ASSUME RequestAssumption ==
    /\ Rejectable \subseteq Requests
    /\ Opening \subseteq Requests
    /\ Lossy \subseteq Requests
    /\ QuickLogin \in BOOLEAN
    /\ None \notin Sessions

VARIABLES
    row,     \* table refresh_tokens: the state of every token
    live,    \* sessions whose access token has not expired
    stored,  \* the session in localStorage
    req      \* the requests

vars == <<row, live, stored, req>>

Quiet == [pc |-> "idle", access |-> None, token |-> None, new |-> None]

Rows == {"none", "valid", "revoked", "expired"}
Flights == [pc : {"idle", "sent", "refresh", "rotate", "answer", "resent"},
            access : Sessions \cup {None}, token : Sessions \cup {None},
            new : Sessions \cup {None}]

Init ==
    /\ row = [s \in Sessions |-> "none"]
    /\ live = {}
    /\ stored = None
    /\ req = [r \in Requests |-> Quiet]

Fresh == {s \in Sessions : row[s] = "none"}
\* Bound: every request in flight finds a row for the session it may ask for.
RowsLeft == Cardinality(Fresh) > Cardinality({r \in Requests : req[r].pc # "idle"})

Move(r, pc) == req' = [req EXCEPT ![r].pc = pc]
End(r) == req' = [req EXCEPT ![r] = Quiet]
clearSession == stored' = None

-----------------------------------------------------------------------------
(* The user *)

Login(s) ==
    /\ stored = None
    /\ QuickLogin \/ \A r \in Requests : req[r].pc = "idle"
    /\ s \in Fresh
    /\ RowsLeft
    /\ row' = [row EXCEPT ![s] = "valid"]
    /\ live' = live \cup {s}
    /\ stored' = s
    /\ UNCHANGED req

Logout ==
    /\ stored # None
    /\ clearSession
    /\ UNCHANGED <<row, live, req>>

-----------------------------------------------------------------------------
(* A request and the interceptor around it *)

Send(r) ==
    /\ req[r].pc = "idle"
    /\ stored # None
    /\ RowsLeft
    /\ req' = [req EXCEPT ![r] = [Quiet EXCEPT !.pc = "sent", !.access = stored]]
    /\ UNCHANGED <<row, live, stored>>

\* The error of the first attempt reaches the page, which may close the session.
GiveUp(r) ==
    /\ End(r)
    /\ IF r \in Opening THEN clearSession ELSE UNCHANGED stored
    /\ UNCHANGED <<row, live>>

Succeed(r) ==
    /\ req[r].pc \in {"sent", "resent"}
    /\ req[r].access \in live
    /\ End(r)
    /\ UNCHANGED <<row, live, stored>>

Reject(r) ==
    /\ r \in Rejectable
    /\ req[r].pc = "sent"
    /\ req[r].access \in live
    /\ GiveUp(r)

\* 401: the refresh token in localStorage now, if there is one, is exchanged.
Unauthorized(r) ==
    /\ req[r].pc = "sent"
    /\ req[r].access \notin live
    /\ IF stored = None THEN GiveUp(r)
       ELSE /\ req' = [req EXCEPT ![r].pc = "refresh", ![r].token = stored]
            /\ UNCHANGED <<row, live, stored>>

\* The error handler around the exchange also sees the errors of the second attempt.
AbandonAgain(r) == Move(r, "refresh") /\ UNCHANGED <<row, live, stored>>  \* mutant: it retries
Abandon(r) ==
    /\ End(r)
    /\ clearSession
    /\ UNCHANGED <<row, live>>

\* What the answer of an exchange leaves in localStorage.
StoresAccessOnly(r) == stored  \* mutant: the new refresh token is not kept
StoresMisread(r) == "undefined"  \* mutant: it reads a key the answer does not have
Stores(r) == req[r].new

StoreSession(r) ==
    /\ req[r].pc = "answer"
    /\ stored' = Stores(r)
    /\ req' = [req EXCEPT ![r].pc = "resent", ![r].access = req[r].new]
    /\ UNCHANGED <<row, live>>

RejectAgain(r) ==
    /\ r \in Rejectable
    /\ req[r].pc = "resent"
    /\ Abandon(r)

\* No answer arrives, or one without a status the interceptor looks at.  Lost
\* while the server rotates stands for its transaction failing; a lost answer
\* comes after the commit.
LoseConnection(r) ==
    /\ r \in Lossy
    /\ req[r].pc # "idle"
    /\ IF req[r].pc = "sent" THEN GiveUp(r) ELSE Abandon(r)

-----------------------------------------------------------------------------
(* POST /auth/refresh *)

\* The lookup's conditions: not revoked, not expired.
UsableLater(s) == row[s] = "expired"  \* mutant: expiry is compared the wrong way round
Usable(s) == row[s] = "valid"

FindToken(r) ==
    /\ req[r].pc = "refresh"
    /\ Usable(req[r].token)
    /\ Move(r, "rotate")
    /\ UNCHANGED <<row, live, stored>>

RefuseToken(r) ==
    /\ req[r].pc = "refresh"
    /\ ~Usable(req[r].token)
    /\ Abandon(r)

\* The transaction: the row found before is revoked, whatever happened to it since.
Rotate(r) ==
    /\ req[r].pc = "rotate"
    /\ \E s \in Fresh :
          /\ row' = [row EXCEPT ![req[r].token] = "revoked", ![s] = "valid"]
          /\ live' = live \cup {s}
          /\ req' = [req EXCEPT ![r].pc = "answer", ![r].new = s]
    /\ UNCHANGED stored

-----------------------------------------------------------------------------
(* Time *)

\* An access token outlives the request that is repeated with it right away.
ExpireAccess(s) ==
    /\ s \in live
    /\ \A r \in Requests : req[r].pc = "answer" => req[r].new # s
    /\ \A r \in Requests : req[r].pc = "resent" => req[r].access # s
    /\ live' = live \ {s}
    /\ UNCHANGED <<row, stored, req>>

\* A refresh token outlives the access token issued with it.
ExpireRefresh(s) ==
    /\ row[s] = "valid"
    /\ s \notin live
    /\ row' = [row EXCEPT ![s] = "expired"]
    /\ UNCHANGED <<live, stored, req>>

\* Bound: the row of a dead session that nobody holds any more makes room.
Forget(s) ==
    /\ row[s] \in {"revoked", "expired"}
    /\ s \notin live
    /\ s # stored
    /\ \A r \in Requests : s \notin {req[r].access, req[r].token, req[r].new}
    /\ row' = [row EXCEPT ![s] = "none"]
    /\ UNCHANGED <<live, stored, req>>

-----------------------------------------------------------------------------
(* Specification *)

Step(r) ==
    \/ Succeed(r) \/ Reject(r) \/ Unauthorized(r) \/ FindToken(r) \/ RefuseToken(r)
    \/ Rotate(r) \/ StoreSession(r) \/ RejectAgain(r)

Next ==
    \/ \E s \in Sessions : Login(s) \/ ExpireAccess(s) \/ ExpireRefresh(s) \/ Forget(s)
    \/ Logout
    \/ \E r \in Requests : Send(r) \/ Step(r) \/ LoseConnection(r)

Spec == Init /\ [][Next]_vars

\* Client and server get on with a request that was sent.  Users, connections and
\* the clock owe nothing.
FairSpec == Spec /\ \A r \in Requests : WF_vars(Step(r))

-----------------------------------------------------------------------------
(* Properties *)

\* The table, the client's storage and its requests have their shape.
TypeOK ==
    /\ row \in [Sessions -> Rows]
    /\ live \subseteq Sessions
    /\ stored \in Sessions \cup {None}
    /\ req \in [Requests -> Flights]

\* However requests, lost answers and logins overlap, the client never sits on a
\* revoked refresh token: when its token is revoked, the answer with the
\* successor is on its way and its arrival or its loss ends that state.
NotStranded ==
    stored # None /\ row[stored] = "revoked" =>
        \E r \in Requests : req[r].pc = "answer" /\ req[r].token = stored

\* The interceptor does not sign the user out while the refresh token it holds is
\* still good: only the user does.
StaysSignedIn ==
    [][stored # None /\ stored' = None /\ row[stored] = "valid" => req' = req]_vars

\* Every request comes to an end: an exchange is tried once and not for ever.
RequestsEnd == \A r \in Requests : req[r].pc # "idle" ~> req[r].pc = "idle"
=============================================================================
