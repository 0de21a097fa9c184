------------------------------- MODULE SignIn -------------------------------
(***************************************************************************)
(* Signing in with a phone number: the pages for the number, the code and  *)
(* the profile, the page the app opens with, and the accounts.             *)
(*                                                                         *)
(* A function of a page runs on when its page is left, and the navigation  *)
(* it ends with happens wherever the user is by then.  The app may be      *)
(* closed and opened again at any moment; what is stored survives.  The    *)
(* claims of an access token, role and activity, are those of the account  *)
(* when the token was issued.  Somebody completes the profile of an        *)
(* account on another device.                                              *)
(***************************************************************************)
EXTENDS Integers, FiniteSets

CONSTANTS
    Numbers,     \* phone numbers; an account belongs to each
    Dialled,     \* those that are typed on this phone
    MaxRunning,  \* bound: functions of the pages in flight
    MaxComplete  \* bound: profiles that are completed

ASSUME SignInAssumption ==
    /\ Numbers \subseteq Nat \ {0} /\ Dialled \subseteq Numbers
    /\ {MaxRunning, MaxComplete} \subseteq Nat \ {0}

VARIABLES
    account,   \* the server's users: role and activity
    completed, \* how many profiles have been completed
    session,   \* what the stored access token says: whose it is, role, activity
    renewal,   \* an exchange of the stored token in flight, with the session it brings
    screen,    \* the page on display and its fields
    code,      \* the number the last code was sent to: Firebase's confirmation, 0 without one
    pending,   \* transport_pending_phone in sessionStorage, which survives a reload
    running    \* functions of the pages in flight

signInVars == <<account, completed, session, renewal, screen, code, pending, running>>

Roles == {"passenger", "driver"}
Runners == 1..MaxRunning
Nobody == [who |-> 0, role |-> "passenger", active |-> FALSE]
Homes == {"passengerHome", "driverHome"}  \* the driver's: the trips, the waiting page or the registration

-----------------------------------------------------------------------------
(* Accounts and tokens *)

\* createSession: the claims of a new token.
Claims(who, as) == [who |-> who, role |-> as.role, active |-> as.active]
Created == [role |-> "passenger", active |-> FALSE]

Completed(who, role) == [account EXCEPT ![who] = [role |-> role, active |-> TRUE]]

\* refresh: the account is read, and the session that is issued for it arrives later.
RenewedOld(s) == s  \* mutant: the claims of the old token are signed again
Renewed(s) == Claims(s.who, account[s.who])

-----------------------------------------------------------------------------
(* Functions of the pages *)

Rest == [fn |-> "none", at |-> "", number |-> 0, role |-> "passenger", got |-> Nobody, here |-> FALSE]
Running == {k \in Runners : running[k].fn # "none"}
Room == completed + Cardinality({k \in Running : running[k].at = "sent"}) < MaxComplete
Waits(k, at) == k \in Running /\ running[k].at = at

Blank(page, shown) == [page |-> page, shown |-> shown, loading |-> FALSE, told |-> FALSE]
Shows(k, s) == IF running[k].here THEN s ELSE screen
FreedScreen(s, failed) == [s EXCEPT !.loading = FALSE, !.told = failed]

\* A tap that starts fn; the page is blocked meanwhile.
Runs(fn, at, number, role, got) ==
    \E k \in Runners \ Running :
        /\ \A j \in Runners \ Running : k <= j
        /\ running' = [running EXCEPT ![k] = [fn |-> fn, at |-> at, number |-> number, role |-> role,
                                              got |-> got, here |-> TRUE]]
        /\ screen' = [screen EXCEPT !.loading = TRUE, !.told = FALSE]
Steps(k, at, got) ==
    /\ running' = [running EXCEPT ![k].at = at, ![k].got = got]
    /\ UNCHANGED screen
\* It fails: the page it belongs to shows an error, if it is still there.
Fails(k) ==
    /\ running' = [running EXCEPT ![k] = Rest]
    /\ screen' = Shows(k, FreedScreen(screen, TRUE))

\* Another page opens.  A function that goes on has lost its page.
LeavesBut(k) == [j \in Runners |-> IF j = k THEN Rest ELSE [running[j] EXCEPT !.here = FALSE]]
Opens(page, k) ==
    /\ screen' = IF page = screen.page THEN Shows(k, FreedScreen(screen, FALSE)) ELSE Blank(page, pending)
    /\ running' = IF page = screen.page THEN [running EXCEPT ![k] = Rest] ELSE LeavesBut(k)

\* goAfterAuth.  A driver's profile is read with the session that is stored by then.
GoAfterAuth(k, user) ==
    CASE ~user.active -> Opens("setup", k)
      [] user.active /\ user.role = "driver" -> Steps(k, "mine", user)
      [] user.active /\ user.role = "passenger" -> Opens("passengerHome", k)
\* Whatever comes of it, and an error too, the page is one of the driver's.
DriverHome(k) ==
    /\ Waits(k, "mine")
    /\ Opens("driverHome", k)
    /\ UNCHANGED <<account, completed, session, renewal, code, pending>>

-----------------------------------------------------------------------------
(* The pages *)

Back == [phone |-> "welcome", otp |-> "phone", setup |-> "otp"]
GoBack ==
    /\ screen.page \in DOMAIN Back
    /\ screen' = Blank(Back[screen.page], pending)
    /\ running' = [k \in Runners |-> [running[k] EXCEPT !.here = FALSE]]
    /\ UNCHANGED <<account, completed, session, renewal, code, pending>>
Continue ==
    /\ screen.page = "welcome"
    /\ screen' = Blank("phone", pending)
    /\ UNCHANGED <<account, completed, session, renewal, code, pending, running>>

On(page) == screen.page = page /\ ~screen.loading
\* sendCode, and resendCode for the number the page was opened with.
SendCode ==
    /\ \/ On("phone") /\ \E n \in Dialled : Runs("send", "sms", n, "passenger", Nobody)
       \/ On("otp") /\ screen.shown # 0 /\ Runs("resend", "sms", screen.shown, "passenger", Nobody)
    /\ UNCHANGED <<account, completed, session, renewal, code, pending>>
CodeSent(k) ==
    /\ Waits(k, "sms")
    /\ code' = running[k].number
    /\ pending' = IF running[k].fn = "send" THEN running[k].number ELSE pending
    /\ IF running[k].fn = "resend" \/ screen.page = "otp"
       THEN screen' = Shows(k, FreedScreen(screen, FALSE)) /\ running' = [running EXCEPT ![k] = Rest]
       ELSE screen' = Blank("otp", pending') /\ running' = LeavesBut(k)
    /\ UNCHANGED <<account, completed, session, renewal>>

\* verifyCode: the code is confirmed, the session is asked for, stored, and a page is opened.
VerifyCode ==
    /\ On("otp")
    /\ \/ code # 0 /\ Runs("verify", "confirm", code, "passenger", Nobody)
       \/ code = 0 /\ ~screen.told /\ screen' = [screen EXCEPT !.told = TRUE] /\ UNCHANGED running
    /\ UNCHANGED <<account, completed, session, renewal, code, pending>>
Confirmed(k) ==
    /\ Waits(k, "confirm")
    /\ Steps(k, "login", Claims(running[k].number, account[running[k].number]))
    /\ UNCHANGED <<account, completed, session, renewal, code, pending>>

\* completeProfile, for whoever the stored token is of; an active account is not refused.
CompleteProfile ==
    /\ On("setup") /\ session # Nobody /\ Room
    /\ \E role \in Roles : Runs("complete", "sent", session.who, role, Nobody)
    /\ UNCHANGED <<account, completed, session, renewal, code, pending>>
ProfileCompleted(k) ==
    /\ Waits(k, "sent")
    /\ account' = Completed(running[k].number, running[k].role)
    /\ completed' = completed + 1
    /\ Steps(k, "login", Claims(running[k].number, account'[running[k].number]))
    /\ UNCHANGED <<session, renewal, code, pending>>

\* storeSession, when an answer brings one, and then goAfterAuth.
StoreSession(k) ==
    /\ Waits(k, "login")
    /\ session' = running[k].got
    /\ pending' = IF running[k].fn = "verify" THEN 0 ELSE pending
    /\ GoAfterAuth(k, running[k].got)
    /\ UNCHANGED <<account, completed, renewal, code>>

-----------------------------------------------------------------------------
(* The page the app opens with: resolveSession *)

Landing ==
    /\ On("landing") /\ ~screen.told
    /\ IF session = Nobody THEN screen' = Blank("welcome", pending) /\ UNCHANGED running
       ELSE Runs("landing", "me", session.who, "passenger", Nobody)
    /\ UNCHANGED <<account, completed, session, renewal, code, pending>>
Me(k) ==
    /\ Waits(k, "me")
    /\ GoAfterAuth(k, Claims(running[k].number, account[running[k].number]))
    /\ UNCHANGED <<account, completed, session, renewal, code, pending>>
\* Any error clears the session.
LandingFailsStays(k) == Fails(k) /\ UNCHANGED session  \* mutant: the error leads nowhere
LandingFails(k) == Opens("welcome", k) /\ session' = Nobody

-----------------------------------------------------------------------------
(* Errors, renewals, restarts, other devices *)

\* A wrong code, a connection that drops before the server has acted or after, a token that cannot
\* be renewed.
Errs(k) ==
    /\ running[k].at \in {"sms", "confirm", "login", "sent", "me"}
    /\ IF running[k].at = "me" THEN LandingFails(k) ELSE Fails(k) /\ UNCHANGED session
    /\ UNCHANGED <<account, completed, renewal, code, pending>>

\* An access token has expired and a request exchanges it.  The answer is stored whatever has
\* happened meanwhile, also a logout.
Renew ==
    /\ session # Nobody /\ renewal = Nobody
    /\ renewal' = Renewed(session)
    /\ UNCHANGED <<account, completed, session, screen, code, pending, running>>
StoreRenewal ==
    /\ renewal # Nobody
    /\ renewal' = Nobody /\ session' = renewal
    /\ UNCHANGED <<account, completed, screen, code, pending, running>>

Logout ==
    /\ screen.page \in Homes
    /\ session' = Nobody
    /\ screen' = Blank("welcome", pending)
    /\ running' = [k \in Runners |-> [running[k] EXCEPT !.here = FALSE]]
    /\ UNCHANGED <<account, completed, renewal, code, pending>>

\* The app is closed and opened, or its page is loaded again.
Restart ==
    /\ screen' \in {Blank("landing", pending), Blank(screen.page, pending)}
    /\ code' = 0 /\ renewal' = Nobody /\ UNCHANGED pending
    /\ running' = [k \in Runners |-> Rest]
    /\ UNCHANGED <<account, completed, session>>

OtherDevice ==
    /\ \E n \in Dialled, role \in Roles :
          account[n] # [role |-> role, active |-> TRUE] /\ account' = Completed(n, role)
    /\ Room /\ completed' = completed + 1
    /\ UNCHANGED <<session, renewal, screen, code, pending, running>>

-----------------------------------------------------------------------------
SignInInit ==
    /\ account \in [Numbers -> {Created} \cup [role : Roles, active : {TRUE}]]
    /\ completed = 0
    /\ session \in {Nobody} \cup {Claims(n, account[n]) : n \in Dialled}
    /\ renewal = Nobody
    /\ screen = Blank("landing", 0)
    /\ code = 0 /\ pending = 0
    /\ running = [k \in Runners |-> Rest]

SignInTaps == GoBack \/ Continue \/ SendCode \/ VerifyCode \/ CompleteProfile \/ Logout \/ Restart
SignInContinues(k) ==
    CodeSent(k) \/ Confirmed(k) \/ ProfileCompleted(k) \/ StoreSession(k) \/ Me(k) \/ DriverHome(k)
SignInNext ==
    \/ SignInTaps \/ Landing \/ Renew \/ StoreRenewal \/ OtherDevice
    \/ \E k \in Running : SignInContinues(k) \/ Errs(k)
=============================================================================
