------------------------------ MODULE Account ------------------------------
(***************************************************************************)
(* The phone and the account: signing in, and the notifications of who is  *)
(* signed in.                                                              *)
(*                                                                         *)
(* The two share the stored session and nothing else: the pages of         *)
(* SignIn change it in many ways, and Alerts sees it appear, renewed and   *)
(* removed.  A behaviour is about one of the two, its subject; what it is  *)
(* not about does not move.                                                *)
(***************************************************************************)
EXTENDS Alerts

CONSTANT Subjects  \* of "signin" and "alerts"

ASSUME AccountAssumption == Subjects \subseteq {"signin", "alerts"}

VARIABLE subject

vars == <<subject, signInVars, alertVars>>

Init ==
    /\ subject \in Subjects
    /\ SignInInit /\ AlertsInit
    /\ \A n \in Numbers : subject = "alerts" \/ n \notin Dialled => account[n] = Created
    /\ subject = "signin" => native = FALSE

SignInStep(A) == subject = "signin" /\ A /\ UNCHANGED <<subject, alertVars>>
AlertsStep(A) ==
    /\ subject = "alerts" /\ A
    /\ UNCHANGED <<subject, account, completed, renewal, screen, code, pending, running>>

Requests(A) == AlertsStep(A /\ UNCHANGED session)
ServesOne(fn) == \E k \in Asks : asked[k].fn = fn /\ Serve(k)

Next == SignInStep(SignInNext) \/ AlertsStep(AlertsNext)

(***************************************************************************)
(* A request is answered or fails, and a page goes on when it is.  The     *)
(* connection holds again and again: what is asked for, registered or      *)
(* renewed over and over succeeds at last.  The timers of the watcher and  *)
(* of the page run.  Access tokens expire after twenty minutes, and the    *)
(* watcher's next request then exchanges the token.  A behaviour has one   *)
(* subject, so a conjunct may name an action of each.                      *)
(***************************************************************************)
Fairness ==
    /\ \A k \in Runners : WF_vars(SignInStep(SignInContinues(k)))
    /\ \A k \in Asks : WF_vars(Requests(Serve(k) \/ Fail(k) \/ Handle(k)))
    /\ WF_vars(SignInStep(Landing) \/ Requests(Poll))
    /\ WF_vars(Requests(Load))
    /\ WF_vars(SignInStep(Renew) \/ AlertsStep(SessionRenewed))
    /\ SF_vars(SignInStep(StoreRenewal) \/ Requests(Register(Current)))
    /\ SF_vars(SignInStep(\E k \in Runners : Me(k)) \/ Requests(ServesOne("poll")))
    /\ SF_vars(SignInStep(\E k \in Runners : DriverHome(k)) \/ Requests(ServesOne("page")))
Spec == Init /\ [][Next]_vars /\ Fairness

-----------------------------------------------------------------------------
(* Properties *)

\* The watcher announces a notification at most once while the same user is signed in and the app
\* stays open, however late and in whatever order its requests and the page's are answered.
NoticedOnce == \A n \in Notes : noticed[n] <= 1

\* The badge and the open list come to show what is unread for who is signed in, again and again,
\* whatever was answered late for the previous account and whatever pushes added to the badge, unless
\* the app is opened again and again.
BadgeRight ==
    \/ []<><<AlertsStep(Reopens)>>_vars
    \/ []<>(\/ subject = "signin" \/ session = Nobody
            \/ LET unread == {n \in Notes : rows.to[n] = session.who /\ n \notin rows.read}
               IN badge = Cardinality(unread) /\ (list.open => list.unread = unread))

\* In a build with push the server comes to know this phone as that of who is signed in, also after
\* the token was deleted as stale or registered late for the previous account.
DeviceFollows == []<>(~native \/ session = Nobody \/ rows.device = session.who)

\* The role and activity in the stored token come to be those of the account, although a token keeps
\* its claims until it is renewed and the profile may be completed elsewhere meanwhile.
RolesConverge ==
    []<>(subject = "alerts" \/ session = Nobody \/ session = Claims(session.who, account[session.who]))

\* The page the app opens with gives way, and a page that is blocked by what it does is freed, also
\* when the request fails or the answer comes after the user has left and come back.
Blocked == screen.page = "landing" \/ screen.loading
Resolves == subject = "signin" /\ Blocked ~> ~Blocked
=============================================================================
