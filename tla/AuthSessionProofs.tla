-------------------------- MODULE AuthSessionProofs --------------------------
(***************************************************************************)
(* However many requests refresh at once, and whatever is lost, the client *)
(* is never left with a revoked refresh token and nothing under way.       *)
(***************************************************************************)
EXTENDS AuthSession, TLAPS

Exchanging == {"refresh", "rotate", "answer"}

\* The session in localStorage was issued.
StoredIssued == stored # None => row[stored] # "none"

\* An exchange is about a token that was issued.
TokensIssued ==
    \A r \in Requests : req[r].pc \in Exchanging =>
        req[r].token \in Sessions /\ row[req[r].token] # "none"

\* A successor on its way to the client is nobody's yet: not revoked, not stored,
\* not being exchanged, not in another answer.
AnswersPrivate ==
    \A r \in Requests : req[r].pc = "answer" =>
        /\ req[r].new \in Sessions
        /\ row[req[r].new] \in {"valid", "expired"}
        /\ stored # req[r].new
        /\ \A q \in Requests : req[q].pc \in Exchanging => req[q].token # req[r].new
        /\ \A q \in Requests \ {r} : req[q].pc = "answer" => req[q].new # req[r].new

SessionInv == TypeOK /\ StoredIssued /\ TokensIssued /\ AnswersPrivate /\ NotStranded

-----------------------------------------------------------------------------

\* Nothing is issued or stored at first.
LEMMA InitSession == Init => SessionInv
  BY RequestAssumption
     DEF Init, Quiet, Rows, Flights, SessionInv, TypeOK, StoredIssued, TokensIssued,
         AnswersPrivate, NotStranded, Exchanging

\* A step that leaves the rows and moves request r on to something other than an
\* exchange, its answer or nothing at all, keeping or clearing the session.
LEMMA LeaveExchange ==
  ASSUME SessionInv, NEW r \in Requests, NEW flight \in Flights,
         flight.pc \notin Exchanging,
         req' = [req EXCEPT ![r] = flight], UNCHANGED row, live' \subseteq Sessions,
         \/ stored' = None
         \/ stored' = stored /\ req[r].pc # "answer"
  PROVE  SessionInv'
<1>1. /\ req'[r] = flight
      /\ \A q \in Requests \ {r} : req'[q] = req[q]
  BY DEF SessionInv, TypeOK
<1>2. TypeOK'
  BY DEF SessionInv, TypeOK
<1>3. StoredIssued' /\ TokensIssued'
  BY <1>1 DEF SessionInv, StoredIssued, TokensIssued
<1>4. AnswersPrivate'
  <2> SUFFICES ASSUME NEW q \in Requests, req'[q].pc = "answer"
               PROVE  /\ req'[q].new \in Sessions
                      /\ row'[req'[q].new] \in {"valid", "expired"}
                      /\ stored' # req'[q].new
                      /\ \A p \in Requests : req'[p].pc \in Exchanging => req'[p].token # req'[q].new
                      /\ \A p \in Requests \ {q} : req'[p].pc = "answer" => req'[p].new # req'[q].new
    BY DEF AnswersPrivate
  <2>1. q # r /\ req'[q] = req[q]
    BY <1>1 DEF Exchanging
  <2> QED BY <1>1, <2>1, RequestAssumption DEF SessionInv, AnswersPrivate, Exchanging
<1>5. NotStranded'
  BY <1>1 DEF SessionInv, NotStranded
<1> QED BY <1>2, <1>3, <1>4, <1>5 DEF SessionInv

\* Giving up, with or without closing the session, keeps the invariant.
LEMMA EndsKeep ==
  ASSUME SessionInv, NEW r \in Requests,
         Abandon(r) \/ (GiveUp(r) /\ req[r].pc = "sent")
  PROVE  SessionInv'
<1>1. Quiet \in Flights /\ Quiet.pc \notin Exchanging
  BY DEF Quiet, Flights, Exchanging
<1>2. live \subseteq Sessions
  BY DEF SessionInv, TypeOK
<1> QED BY <1>1, <1>2, LeaveExchange DEF Abandon, GiveUp, End, clearSession

\* A new login stores a session nobody else knows.
LEMMA LoginKeeps ==
  ASSUME SessionInv, NEW s \in Sessions, Login(s)
  PROVE  SessionInv'
<1>1. /\ row[s] = "none" /\ row'[s] = "valid"
      /\ \A t \in Sessions \ {s} : row'[t] = row[t]
      /\ stored' = s /\ req' = req
  BY DEF Login, Fresh, SessionInv, TypeOK
<1>2. TypeOK'
  BY DEF Login, SessionInv, TypeOK, Rows
<1>3. StoredIssued' /\ NotStranded'
  BY <1>1 DEF StoredIssued, NotStranded
<1>4. TokensIssued' /\ AnswersPrivate'
  BY <1>1 DEF SessionInv, TokensIssued, AnswersPrivate, Exchanging
<1> QED BY <1>2, <1>3, <1>4 DEF SessionInv

\* A logout removes the session and leaves answers under way alone.
LEMMA LogoutKeeps == SessionInv /\ Logout => SessionInv'
  BY RequestAssumption
     DEF Logout, clearSession, SessionInv, TypeOK, StoredIssued, TokensIssued, AnswersPrivate,
         NotStranded

\* Sending a request and its success concern no exchange.
LEMMA SendKeeps ==
  ASSUME SessionInv, NEW r \in Requests, Send(r) \/ Succeed(r)
  PROVE  SessionInv'
<1>1. CASE Send(r)
  <2>1. [Quiet EXCEPT !.pc = "sent", !.access = stored] \in Flights
    BY DEF Quiet, Flights, SessionInv, TypeOK
  <2>2. [Quiet EXCEPT !.pc = "sent", !.access = stored].pc \notin Exchanging
    BY DEF Quiet, Exchanging
  <2> QED BY <1>1, <2>1, <2>2, LeaveExchange DEF Send, SessionInv, TypeOK
<1>2. CASE Succeed(r)
  <2>1. Quiet \in Flights /\ Quiet.pc \notin Exchanging
    BY DEF Quiet, Flights, Exchanging
  <2> QED BY <1>2, <2>1, LeaveExchange DEF Succeed, End, SessionInv, TypeOK
<1> QED BY <1>1, <1>2

\* A 401 starts the exchange of the stored token, which no answer carries.
LEMMA UnauthorizedKeeps ==
  ASSUME SessionInv, NEW r \in Requests, Unauthorized(r)
  PROVE  SessionInv'
<1>1. CASE stored = None
  BY <1>1, EndsKeep DEF Unauthorized
<1>2. CASE stored # None
  <2>1. /\ req' = [req EXCEPT ![r].pc = "refresh", ![r].token = stored]
        /\ UNCHANGED <<row, live, stored>>
    BY <1>2 DEF Unauthorized
  <2>2. /\ req'[r].pc = "refresh" /\ req'[r].token = stored /\ req[r].pc = "sent"
        /\ \A q \in Requests \ {r} : req'[q] = req[q]
    BY <2>1 DEF Unauthorized, SessionInv, TypeOK, Flights
  <2>3. TypeOK' /\ stored \in Sessions
    BY <1>2, <2>1 DEF SessionInv, TypeOK, Flights
  <2>4. StoredIssued' /\ TokensIssued'
    BY <1>2, <2>1, <2>2, <2>3 DEF SessionInv, StoredIssued, TokensIssued
  <2>5. AnswersPrivate'
    <3> SUFFICES ASSUME NEW q \in Requests, req'[q].pc = "answer"
                 PROVE  /\ req[q].new \in Sessions
                        /\ row[req[q].new] \in {"valid", "expired"}
                        /\ stored # req[q].new
                        /\ \A p \in Requests : req'[p].pc \in Exchanging => req'[p].token # req[q].new
                        /\ \A p \in Requests \ {q} : req'[p].pc = "answer" => req'[p].new # req[q].new
      BY <2>1, <2>2 DEF AnswersPrivate
    <3>1. q # r /\ req[q].pc = "answer"
      BY <2>2
    <3>2. stored # req[q].new
      BY <3>1 DEF SessionInv, AnswersPrivate
    <3> QED BY <2>2, <3>1, <3>2 DEF SessionInv, AnswersPrivate
  <2>6. NotStranded'
    BY <2>1, <2>2 DEF SessionInv, NotStranded
  <2> QED BY <2>6, <2>3, <2>4, <2>5 DEF SessionInv
<1> QED BY <1>1, <1>2

\* The lookup of a token changes nothing but where the server is.
LEMMA FindTokenKeeps ==
  ASSUME SessionInv, NEW r \in Requests, FindToken(r)
  PROVE  SessionInv'
<1>1. /\ req[r].pc = "refresh" /\ req'[r].pc = "rotate" /\ req'[r].token = req[r].token
      /\ \A q \in Requests \ {r} : req'[q] = req[q]
      /\ UNCHANGED <<row, live, stored>>
  BY DEF FindToken, Move, SessionInv, TypeOK, Flights
<1>2. TypeOK'
  BY DEF FindToken, Move, SessionInv, TypeOK, Flights
<1>3. StoredIssued' /\ TokensIssued'
  BY <1>1 DEF SessionInv, StoredIssued, TokensIssued, Exchanging
<1>4. AnswersPrivate' /\ NotStranded'
  BY <1>1 DEF SessionInv, AnswersPrivate, NotStranded, Exchanging
<1> QED BY <1>2, <1>3, <1>4 DEF SessionInv

\* The rotation revokes a token that may be stored, with its successor in the
\* answer; the token it revokes is never one another answer carries.
LEMMA RotateKeeps ==
  ASSUME SessionInv, NEW r \in Requests, Rotate(r)
  PROVE  SessionInv'
<1> DEFINE old == req[r].token
<1>1. PICK s \in Fresh :
        /\ row' = [row EXCEPT ![old] = "revoked", ![s] = "valid"]
        /\ live' = live \cup {s}
        /\ req' = [req EXCEPT ![r].pc = "answer", ![r].new = s]
  BY DEF Rotate
<1>2. /\ s \in Sessions /\ row[s] = "none" /\ req[r].pc = "rotate" /\ stored' = stored
      /\ old \in Sessions /\ row[old] # "none"
  BY <1>1 DEF Rotate, Fresh, SessionInv, TokensIssued, Exchanging
<1>3. /\ row'[s] = "valid"
      /\ row'[old] = "revoked"
      /\ \A t \in Sessions \ {s, old} : row'[t] = row[t]
  BY <1>1, <1>2 DEF SessionInv, TypeOK, Rows
<1>4. /\ req'[r].pc = "answer" /\ req'[r].new = s /\ req'[r].token = old
      /\ \A q \in Requests \ {r} : req'[q] = req[q]
  BY <1>1 DEF SessionInv, TypeOK, Flights
<1>5. TypeOK'
  BY <1>1, <1>2 DEF SessionInv, TypeOK, Rows, Flights
<1>6. StoredIssued' /\ TokensIssued'
  BY <1>2, <1>3, <1>4, RequestAssumption DEF SessionInv, TypeOK, StoredIssued, TokensIssued, Exchanging
<1>7. AnswersPrivate'
  <2>1. ASSUME NEW q \in Requests \ {r}, req[q].pc = "answer"
        PROVE  req[q].new \in Sessions \ {s, old}
    BY <1>2, <2>1 DEF SessionInv, AnswersPrivate, Exchanging
  <2>2. ASSUME NEW q \in Requests, req[q].pc \in Exchanging
        PROVE  req[q].token # s
    BY <1>2, <2>2 DEF SessionInv, TokensIssued
  <2>3. stored # s
    BY <1>2, RequestAssumption DEF SessionInv, StoredIssued
  <2> QED BY <1>2, <1>3, <1>4, <2>1, <2>2, <2>3 DEF SessionInv, AnswersPrivate, Exchanging
<1>8. NotStranded'
  BY <1>2, <1>3, <1>4, RequestAssumption DEF SessionInv, TypeOK, StoredIssued, NotStranded
<1> QED BY <1>5, <1>6, <1>7, <1>8 DEF SessionInv

\* The answer replaces the stored token by one that is not revoked.
LEMMA StoreSessionKeeps ==
  ASSUME SessionInv, NEW r \in Requests, StoreSession(r)
  PROVE  SessionInv'
<1>1. /\ req[r].pc = "answer" /\ stored' = req[r].new /\ UNCHANGED <<row, live>>
      /\ req'[r].pc = "resent"
      /\ \A q \in Requests \ {r} : req'[q] = req[q]
  BY DEF StoreSession, Stores, SessionInv, TypeOK, Flights
<1>2. stored' \in Sessions /\ row'[stored'] \in {"valid", "expired"}
  BY <1>1 DEF SessionInv, AnswersPrivate
<1>3. TypeOK'
  BY <1>2 DEF StoreSession, Stores, SessionInv, TypeOK, Flights
<1>4. StoredIssued' /\ NotStranded'
  BY <1>2 DEF StoredIssued, NotStranded
<1>5. TokensIssued' /\ AnswersPrivate'
  BY <1>1 DEF SessionInv, TokensIssued, AnswersPrivate, Exchanging
<1> QED BY <1>3, <1>4, <1>5 DEF SessionInv

\* A lost connection gives up, quietly before the exchange and loudly after.
LEMMA LoseConnectionKeeps ==
  ASSUME SessionInv, NEW r \in Requests, LoseConnection(r)
  PROVE  SessionInv'
  BY EndsKeep DEF LoseConnection

\* The clock turns no token into a revoked one.
LEMMA TimeKeeps ==
  ASSUME SessionInv, NEW s \in Sessions, ExpireAccess(s) \/ ExpireRefresh(s)
  PROVE  SessionInv'
<1>1. CASE ExpireAccess(s)
  BY <1>1 DEF ExpireAccess, SessionInv, TypeOK, StoredIssued, TokensIssued, AnswersPrivate, NotStranded
<1>2. CASE ExpireRefresh(s)
  <2>1. /\ row'[s] = "expired" /\ row[s] = "valid"
        /\ \A t \in Sessions \ {s} : row'[t] = row[t]
        /\ UNCHANGED <<live, stored, req>>
    BY <1>2 DEF ExpireRefresh, SessionInv, TypeOK, Rows
  <2>2. TypeOK'
    BY <1>2 DEF ExpireRefresh, SessionInv, TypeOK, Rows
  <2>3. StoredIssued' /\ NotStranded'
    BY <2>1 DEF SessionInv, TypeOK, StoredIssued, NotStranded
  <2>4. TokensIssued' /\ AnswersPrivate'
    BY <2>1 DEF SessionInv, TokensIssued, AnswersPrivate, Exchanging
  <2> QED BY <2>2, <2>3, <2>4 DEF SessionInv
<1> QED BY <1>1, <1>2

\* A forgotten row is neither stored nor part of an exchange.
LEMMA ForgetKeeps ==
  ASSUME SessionInv, NEW s \in Sessions, Forget(s)
  PROVE  SessionInv'
<1>1. /\ \A t \in Sessions \ {s} : row'[t] = row[t]
      /\ s # stored
      /\ \A r \in Requests : s # req[r].token /\ s # req[r].new
      /\ UNCHANGED <<live, stored, req>>
  BY DEF Forget, SessionInv, TypeOK, Rows
<1>2. TypeOK'
  BY DEF Forget, SessionInv, TypeOK, Rows
<1>3. StoredIssued' /\ NotStranded'
  BY <1>1 DEF SessionInv, TypeOK, StoredIssued, NotStranded
<1>4. TokensIssued' /\ AnswersPrivate'
  BY <1>1 DEF SessionInv, TokensIssued, AnswersPrivate, Exchanging
<1> QED BY <1>2, <1>3, <1>4 DEF SessionInv

\* Every step keeps the invariant.
LEMMA NextKeepsSession == SessionInv /\ [Next]_vars => SessionInv'
<1> SUFFICES ASSUME SessionInv, [Next]_vars PROVE SessionInv'
  OBVIOUS
<1>1. CASE \E s \in Sessions : Login(s) \/ ExpireAccess(s) \/ ExpireRefresh(s) \/ Forget(s)
  BY <1>1, LoginKeeps, TimeKeeps, ForgetKeeps
<1>2. CASE Logout
  BY <1>2, LogoutKeeps
<1>3. CASE \E r \in Requests : Send(r) \/ Step(r) \/ LoseConnection(r)
  <2> PICK r \in Requests : Send(r) \/ Step(r) \/ LoseConnection(r)
    BY <1>3
  <2>1. CASE Send(r) \/ LoseConnection(r)
    BY <2>1, SendKeeps, LoseConnectionKeeps
  <2>2. CASE Step(r)
    <3>1. CASE Reject(r) \/ RefuseToken(r) \/ RejectAgain(r)
      BY <3>1, EndsKeep DEF Reject, RefuseToken, RejectAgain
    <3>2. CASE Succeed(r) \/ Unauthorized(r) \/ FindToken(r) \/ Rotate(r) \/ StoreSession(r)
      BY <3>2, SendKeeps, UnauthorizedKeeps, FindTokenKeeps, RotateKeeps, StoreSessionKeeps
    <3> QED BY <2>2, <3>1, <3>2 DEF Step
  <2> QED BY <2>1, <2>2
<1>4. CASE UNCHANGED vars
  BY <1>4 DEF vars, SessionInv, TypeOK, StoredIssued, TokensIssued, AnswersPrivate, NotStranded
<1> QED BY <1>1, <1>2, <1>3, <1>4 DEF Next

\* For any number of requests, sessions and failures, the client's refresh token
\* is revoked only while the answer with its successor is under way.
THEOREM NotStrandedHolds == Spec => []NotStranded
<1>1. SessionInv => NotStranded
  BY DEF SessionInv
<1> QED BY <1>1, InitSession, NextKeepsSession, PTL DEF Spec

\* The table of refresh tokens, the client's storage and its requests keep their
\* shape.
THEOREM SessionTypes == Spec => []TypeOK
<1>1. SessionInv => TypeOK
  BY DEF SessionInv
<1> QED BY <1>1, InitSession, NextKeepsSession, PTL DEF Spec
=============================================================================
