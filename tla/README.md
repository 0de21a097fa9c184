# Minibus: verification project

Minibus lets drivers publish trips on fixed routes and passengers book seats on
them. `backend/` is a NestJS server with Prisma over PostgreSQL, `frontend/` an
Ionic/Angular app. This directory holds TLA+ models of the program, TLC
configurations that check them, and TLAPS proofs. `PROJECT.json` maps every
definition to the lines it translates and lists components, runs and hazards. Paths below are relative to
the repository root.

## Inventory

| Component | State | Operations | Interacts with |
|---|---|---|---|
| Bookings (`backend/src/bookings`) | table `bookings`: status, trip, passenger, seats, end of the hold | create, accept, reject, cancel, expiry job on an interval | locks the row of the trip and changes its seat count; calls notifications after the commit |
| Trips (`backend/src/trips`) | table `trips`: status, total and available seats, driver | create, update, start, complete, cancel, search, list | counts and completes bookings; notifications; reads the driver's approval |
| Notifications (`backend/src/notifications`) | tables `notifications`, `device_tokens` | notify of six events, mark read, register and delete a device | reads bookings and trips again after the commit; Firebase messaging |
| Drivers (`backend/src/drivers`) | table `drivers`: status, details, document URLs | register (again), add documents, read a profile | decisions of the admin service |
| Admin (`backend/src/admin`) | tables `drivers`, `routes`, `route_stops` | approve, reject, suspend; create and update routes and stops; listings | drivers; routes that trips and bookings refer to |
| Routes (`backend/src/routes`) | none of its own | list routes and stops | admin |
| Ratings (`backend/src/ratings`) | table `ratings` | rate a completed trip once, list | bookings and trips |
| Authentication (`backend/src/auth`) | tables `users`, `refresh_tokens` | Firebase login, refresh with rotation, complete the profile | guards of all controllers, the client's session |
| Client session (`frontend/src/app/auth-*.ts`) | access and refresh token in `localStorage` | log in, refresh after a 401 and repeat the request, log out | authentication service, every request |
| Client sign-in (`welcome`, `phone-entry`, `otp-verification`, `profile-setup`, `auth-landing`) | Firebase's confirmation, the pending phone in `sessionStorage` | send and verify a code, complete the profile, route by role | authentication service, the stored session |
| Client notifications (`push-notifications`, `notification-watcher`, `notification-navigation`, `notifications.page.ts`) | push token, unread ids known, poll in flight, badge, list | register, poll, announce, mark read, navigate | notifications service, session events |
| Client passenger and driver pages | their copy of the last answer, functions in flight | search, book, cancel, rate; publish, edit, run a trip, decide bookings | the services above over HTTP |
| Admin console (`admin.page.ts`) | lists, fields, the chosen route | load, create and save routes and stops, decide about drivers | admin service |
| Client driver onboarding | form, images | register, upload, wait | drivers service |

What is hard, and what makes each part correct:

* **Bookings and trips.** Requests of many clients and runs of the expiry job
  interleave at every database statement. Booking operations serialise on the
  row lock of their trip; trip operations check and write in separate
  statements. A statement can fail, a transaction can time out, the server can
  die. Correct means: seats are neither lost nor sold twice; a passenger has one
  active booking on a trip; an ended booking stays ended; every hold is decided
  or expires; a trip follows its documented life; nobody waits for a lock for
  ever; the other side hears of what happened, and only of what happened.
* **Driver onboarding.** Registration, uploads and the admin's decision each
  read the profile and write it later, and the form can be left while its submit
  goes on. Correct means: only a driver with
  documents is approved, an approved profile does not change under the admin,
  uploaded documents are kept, no driver is left in a state nobody can end.
* **Sessions.** A refresh token is read and then revoked; the client refreshes
  for each request that got a 401. Correct means: a token is exchanged once, an
  expired access token does not sign the user out, a logout lasts.
* **Notifications on the phone.** Tokens found stale are deleted after a push that
  was under way while the device registered again; polls and lists are answered
  late and for the account that was signed in before. Correct means: a
  notification is announced once, and the badge and the registered device come
  to be those of who is signed in.
* **Signing in.** Functions of a page run on when it is left, share one
  confirmation, and navigate when they end. Correct means: no page stays
  blocked, and the role in the token comes to be that of the account.
* **Pages.** Loads, polls and taps overlap, and an answer may be old or never
  come. Correct means: what is shown does not go back and catches up, a button
  comes back, nothing is rated twice, and no more seats are asked for than
  are shown as free.
* **Console.** Stops are re-ordered while bookings check their order, by
  functions that overlap and repeat themselves. Correct means: stops of a route
  keep distinct places, rides go forward, the spinner goes.

## Modules

| Module | What it is |
|---|---|
| `SeatLedger` | abstract specification of seat accounting: claims on the seats of trips, without locks or requests |
| `TripBooking`, `MCTripBooking` | bookings, trips, the expiry job and their notifications, one action per database statement or transaction |
| `TripBookingProofs` | the inductive invariant `CoreInv`, type correctness, lock discipline |
| `TripHistoryProofs` | the life of a booking: one active booking, ended bookings, bookings on open trips; the life of a process: notifications are true, and none is forgotten |
| `TripSeatProofs` | seats are conserved; `TripBooking` implements `SeatLedger`; the documented life of a trip while its operations do not overlap |
| `AuthSession`, `MCAuthSession` | one signed-in client, its interceptor and stored tokens, composed with refresh rotation on the server |
| `AuthSessionProofs` | no revoked refresh token is kept; types |
| `DriverOnboarding`, `MCDriverOnboarding` | the driver's registration and waiting pages composed with registration, uploads and the admin's decisions |
| `DriverOnboardingProofs` | the reasons shown are current; types and unique identifiers; approvals and uploads while requests about one driver do not overlap |
| `TripPages` | what the pages about a trip have in common: rows, requests, calls in flight, ratings |
| `PassengerPages`, `DriverPages` | the pages of one side, each an extension of `TripPages` |
| `TripClient`, `MCTripClient` | the composition: one phone, the server, and everybody else who acts on the trip |
| `TripClientProofs` | types; one rating; seats on the form; what the driver's page shows does not go back |
| `AdminConsole`, `MCAdminConsole` | the admin console, the tables it manages, another admin, and a rider who reads the stops |
| `AdminConsoleProofs` | stops keep distinct places, rides go forward, the number for a new stop is past those on display; types |
| `SignIn` | signing in: pages, the confirmation and session they share, accounts and the claims of tokens |
| `Alerts` | watcher, badge, list, toasts, read marks, push tokens, whoever is signed in |
| `Account`, `MCAccount` | the composition of the two over the stored session |
| `AccountProofs` | a notification is announced once |

Each server handler is modelled at full grain in one module and as an atomic
operation where another component only calls it: `TripPages` uses the results of
the operations of `TripBooking`, `AdminConsole` decides about a driver in one step
where `DriverOnboarding` has the statements, `SignIn` renews a token in two steps
where `AuthSession` has the rotation.

### TripBooking and the code

State. `trip` and `booking` are the tables, reduced to the columns the control
depends on; `hold` stands for `hold_expires_at` against the clock (`running`,
`lapsed`, or `none` once the column no longer matters). `notes` is the table of notifications.
`lock[t]` is the transaction that has the row of trip `t` locked. `proc[p]` is a
request (`Handlers`) or a run of the job (`Sweeps`) in flight: `pc` is where it
awaits, the other fields are the local variables it uses afterwards. `approved`
is the set of drivers with status `approved`. `clobbered` is a history variable:
the trips an edit resized while seats were held.

Actions.

| Code | Actions |
|---|---|
| `createBooking`, `acceptBooking`, `rejectBooking`, `cancelBooking` | `CallCreateBooking` / `CallOnBooking` (guard and controller), `LockTrip` (`SELECT ... FOR UPDATE`), then the rest of the transaction up to its commit as one action of that name, or `Refuse` when a check throws, and `NotifyBooking` after the commit |
| `withLockedTripSeatMutation`, `assertSeatBounds` | `LockTrip`, `CommitSeats`, `SeatBounds`, `Unlock` |
| `onModuleInit`, `expirePendingBookings` | `StartSweep` (reads a batch), `TakeLapsed` (next booking), `LockTrip`, `ExpireBooking` / `SkipBooking` / `AbandonSweep` |
| `createTrip` | `CallCreateTrip`, `CreateTrip` |
| `updateTrip` | `CallOnTrip`, `ReadOwnedTrip`, `CountActive`, `UpdateTrip`: three statements without a lock |
| `startTrip`, `cancelTrip`, `completeTrip` | `CallOnTrip`, `ReadOwnedTrip`, then `StartTrip`, `CancelTrip` or `CompleteTrip`, then `ReadAudience` and `NotifyTrip` per passenger |
| admin decisions | `DecideDriver`, the environment's |
| a rejected statement, a transaction time-out, the process ending | `Fail`, `Throw` |

The transaction of a booking operation is one action from the row it locked to
its commit: everything it reads and writes besides is protected by that lock, as
`LockDiscipline` and the history properties state. The statements of a trip
operation are separate actions, and its `UPDATE` waits for the row (`RowFree`).
A rejected promise of the expiry job is awaited by nobody. With a Sentry DSN the
SDK installs a handler for it and only the rest of the batch is dropped; without
one Node ends the process, which ends every request (`Monitored`).

Left out: prices, dates, pagination and the text of notifications; stops and
their order are in `AdminConsole`, pushes to devices in `Alerts`, the search, which
only reads, in `TripPages`. The partial
unique index on active bookings is left out on purpose: `OneActiveBooking` shows
that the check under the lock is enough without it.

### AuthSession and the code

State. `row` is the state of each row of the table `refresh_tokens`. A session stands for the two tokens issued together, because
`storeSession` and `clearSession` write and remove both in one synchronous piece
of code. `live` are the sessions whose access token has not expired, `stored` is
what `localStorage` holds, `req[r]` is an HTTP request inside the interceptor: the
access token it was sent with, the refresh token it exchanges, the session it was
given.

| Code | Actions |
|---|---|
| `loginWithFirebase` and the client's `firebaseLogin` | `Login` |
| `logout` of the profile page | `Logout` |
| `authRefreshInterceptor` | `Send`, `Succeed`, `Reject`, `Unauthorized` (401: start the exchange), `StoreSession` (answer of the exchange, the request is repeated), `RejectAgain`, `Abandon` (the `catchError` around both) |
| `AuthLandingPage.resolveSession` | requests in `Opening`: their error clears the session (`GiveUp`) |
| `AuthService.refresh` | `FindToken` / `RefuseToken` (the query), `Rotate` (the transaction) |
| time, the network | `ExpireAccess`, `ExpireRefresh`, `LoseConnection` |

A lost connection before `Rotate` stands for a request or a transaction that
failed, one after it for an answer lost after the commit.

### DriverOnboarding and the code

State. `driver` is the table, with the form's identifiers reduced to one value;
`files` are the images on disk; `proc[h]` is a request, `seen` the profile it read;
`submit[s]` is a call of the form's `submit` that runs, with the request it awaits;
`page[u]` is where user `u`'s client is, `seen` what its waiting page loaded, `form`
the submit that disables the form on display;
`acked` is a history variable: the images whose upload succeeded since the last
registration.

| Code | Actions |
|---|---|
| `driver-pending-approval.page.ts`, the guard and `goAfterDriverAuth`; `goBack` of the form | `OpenPage`, `OpenForm` |
| `driver-registration.page.ts`, `submit` | `Submit`, `Upload`, then `Answer` inside the handlers' actions, which lets the submit go on, end (`Fails`) or navigate (`Leaves`) |
| `registerDriver` | `ReadProfile`, `RegisterDriver` |
| `uploadDocuments`, `addDocuments` | `Upload` or `UploadElsewhere` (files on disk), `ReadProfile`, `AddDocuments` |
| `approveDriver` | `Decide`, `ReadProfile`, `ApproveDriver` |
| `suspendDriver`, `rejectDriver` | `Decide`, `SetDriverStatus` (one statement, nothing read first) |
| the network, the app's end | `Disconnect`, `Close` |

`OpenPage` is allowed at any moment, because the back button of the form is live
while `submit` runs (`driver-registration.page.ts:24`, `:202`) and `submit` goes on
when its page is gone: it uploads, and navigates to the waiting page at its end.
A form that is opened again is a fresh one and knows nothing of it, so several
submits of one driver may run; one that Ionic still had would be disabled until
its submit ends, which is one of these behaviours.

`TripBooking` sees the decisions as its environment action `DecideDriver`, which
allows every change of a driver's approval this module can make.

### TripPages, PassengerPages, DriverPages and the code

State. `rows` is what the server knows of one trip: its status and seats, the
bookings on it with the seats they hold, the rating. `page` is the page on display,
`view` its fields, `calls[k]` a function of a page in flight: what it awaits
(`asks`), what has been answered (`got`), whether its page is still there (`here`).

| Code | Actions |
|---|---|
| any request | `Serve` (the handler's checks and writes), `Lose` (the answer is lost before or after them) |
| a navigation, `ionViewWillEnter` | `Open`, which starts the page's load; a page that is left is gone with its fields, its changes still take effect |
| `passenger-search`, `passenger-trip-results` | `SearchTrips`, `OpenTrip`, continuations `SearchLoaded`, `ResultsLoad` |
| `passenger-trip-booking` | `FormLoad` (clips the seats chosen), `ChangeSeats`, `RequestBooking`, `Requested` |
| `passenger-bookings`, `passenger-booking-detail` | `BookingsLoad`, `DetailLoad`, `Poll` every thirty seconds, `CancelBooking`, `Cancelled`, `OpenRateDriver` |
| `rate-driver`, `createRating` | `RateLoad`, `SubmitRating`, `Rated`; the check and the insert of the server are two steps |
| `driver-trips`, `driver-trip-form` | `TripsLoad`, `CreateTrip`, `FormFilled`, `FormSeats`, `Submit`, `Submitted` |
| `driver-trip-detail` | `ManageLoad`, `Mutate` / `Mutated` (trip operations), `MutateBooking` / `BookingMutated` (decisions, which reload), `EditTrip` |
| everybody else | `SomeoneActs`, `OthersBook`, `PassengersBook` |

Abstractions. Rejected, cancelled and expired bookings are "ended", because only
labels tell them apart; what is displayed and never awaited ("details") is one
kind of request. Ionic keeps pages it leaves in a cache; here each entry opens a
fresh one, and Angular's ignoring of a navigation to the same address is modelled. There is one trip: when the answer of
a publication is lost and the driver submits again the code creates a second
trip, which the model does not follow. A poll is not lost and starts only after
the first load.

### AdminConsole and the code

State. `rows` are routes, stops (route and place), one driver and whether
documents are stored; `view` the fields of the page; `calls` its functions in flight; `rider`
a search or booking that has read one of its two stops.

| Code | Actions |
|---|---|
| `ngOnInit`, `loadAll` | `Enter`, `LoadAll`, `Me` (first request), then `ListsArrive` |
| `selectRoute`, `loadStops`, `nextStopOrder` | `SelectRoute`, `StopsArrive` (`ShowStops`, `NextStopOrder`) |
| `createRoute`, `saveRoute`, `toggleRoute`, `createStop`, `saveStop`, `toggleStop`, `approveDriver`, ... | `CreateRoute`, `SaveRoute`, `CreateStop`, `SaveStop`, `Decide`, then `Mutated`, which reloads |
| `devLogin`, `logout` | `DevLogin`, `LoggedIn`, `Logout` |
| `AdminService` | `Serve` (`Verdict`, `Applied`, `Answer`); a lost connection is `Lose` |
| `createBooking`, `searchTrips`: the order of the stops | `ReadPickup`, `ReadDropoff` |
| another admin, the driver | `OtherAdmin`, `DriverActs` |

A behaviour is about one subject, `routes`, `stops`, `driver` or `rider`, because
the sections share only `loadAll`; the session matters to the first and third. With a rider
the console rests, and `OtherAdmin` moves the stops. `DriverActs` is the driver registering,
with or without documents afterwards. An edit of a field
and its save are one step; whether a stop is active, pagination and titles are
left out.

### SignIn, Alerts, Account and the code

State. `account` are the users with role and activity; `session` what the stored
access token claims; `screen` the page and its fields; `running` the functions of
the pages in flight, with `here` while their page is displayed; `code` the number
of Firebase's shared `confirmation`; `pending` the number kept in `sessionStorage`.
`rows` are notifications, read marks and whose account this phone's push token is
registered with; `watcher`, `asked`, `badge`, `toasts`, `list` and `regs` are the client's,
`pushes` those on their way; `noticed` counts announcements and is a history variable.

| Code | Actions |
|---|---|
| `welcome`, `phone-entry`, `otp-verification`, `profile-setup` | `Continue`, `SendCode` / `CodeSent`, `VerifyCode` / `Confirmed`, `CompleteProfile` / `ProfileCompleted`, `GoBack`; `Errs` when a request fails |
| `storeSession`, `AuthFlowService` | `StoreSession`, `GoAfterAuth`, `DriverHome` |
| `auth-landing.page.ts` | `Landing`, `Me`, `LandingFails` |
| `refresh`, `logout`, the app opened again, another device | `Renew`, `StoreRenewal`, `Logout`, `Restart`, `OtherDevice` |
| `notification-watcher.service.ts` | `Poll`, `Polled`, `SessionStored`, `OpenToast` |
| `notifications.page.ts`, the badge | `EnterPage`, `Load`, `Listed`, `LeavePage`, `OpenNotification`, `Marked`, `Counted` |
| `push-notifications.service.ts`, `createAndSend` | `Register`, `LoseRegistration`, `NoteArrives`, `PushEnds` (may find the token stale and delete it) |
| the session's events | `SignsIn`, `SessionRenewed`, `SignsOut`, `Reopens` |

`subject` says which of the two a behaviour is about: they share nothing but the
stored session, which `Alerts` follows by `SignsIn`, `SessionRenewed` and `SignsOut`.
Dismissing a toast is left out, all toasts of a poll are presented at once, the
list is not cut off at a hundred rows, and its two requests are one. Builds that
receive pushes (`native`) and those that do not have the same pages and toasts.

## Runs

| Run | Expected | What it shows |
|---|---|---|
| `BookingRace` | pass | two requests and two overlapping runs of the job over one trip of two seats, parties of one and two: `SeatsConserved`, `OneActiveBooking`, `SettledBookings`, `DecisionsAnnounced`, and the code implements `SeatLedger` |
| `TripRace` | pass | two requests mix bookings, decisions and all trip operations, edits under bookings and the aborted runs of the job that follow included: `TypeOK` with the CHECK constraint on seats, `LockDiscipline`, `NotesTruthful`, `BookedWhileOpen` |
| `SerialTrips` | pass | one request at a time beside the job, all endpoints, statements that fail, errors of the job that end the server: the ledger and the documented life of a trip hold, so each check is right and only their interleaving is not |
| `HoldExpiry` | pass | liveness: every hold is decided or expires although handlers die with the row locked and approvals change; every request ends |
| `Oversell` | violation | `updateTrip` counts, a booking commits, the edit resets the count: seats are sold twice |
| `ManyRequests` | pass | two requests, refusals, losses, logins that overtake: `NotStranded`; and every request ends |
| `ConcurrentRefresh` | violation | the loser of two exchanges clears the winner's session |
| `SerialOnboarding` | pass | one request at a time, steady connections, a second client that uploads: and forms left while their submit runs: approvals have documents, approved profiles stay, uploads accumulate, who waits can be approved |
| `OnboardingRace` | pass | overlapping requests of two drivers, lost connections: the reason shown is that of the decision in force |
| `TripClient` | pass | the pages of a passenger or a driver while the other side acts: `RatedOnce`, `SeatsOffered`, `ManagedForward`, `DecisionShown`; and pages catch up (`CatchesUp`, `PromptGoes`), buttons come back (`TapsEnd`) |
| `AdminConsole` | pass | overlapping functions, lost answers, a second admin: `OrdersUnique`, `BookedForward`, `NextFree`; and the spinner goes (`LoadingEnds`) |
| `Account` | pass | two accounts on one phone: `NoticedOnce`; and badge, device, role and page converge (`BadgeRight`, `DeviceFollows`, `RolesConverge`, `Resolves`) |

Bounds of `TripBooking`. One trip is enough for every property here because no
operation reads two trips and the locks are per row; the proofs cover any
number. Two bookings by two passengers are the least with which seats are
contended, a passenger can meet an own earlier booking, two runs of the job meet
over one booking and a batch of one leaves a booking out. Two requests give every
pair of interleaved handlers; that more of them change nothing is proved for the
safety properties. Parties of 1 and 2 make a booking fit exactly, fit
with another, and not fit. Edits to 1 and 3 shrink and grow a trip of 2, 0 leaves
seats out of the edit; shrinking alone makes commits fail the bounds check. `RowsLeft` bounds inserts by the rows that are left.
`BookingRace` and `TripRace` have no failures: `SerialTrips` and `HoldExpiry` have, and
the proofs allow every failure. Deadlock is checked in every run: clients can
always call, read-only or refused requests included.

Bounds of `AuthSession`. Two requests are the least that share a token. Four
sessions leave a successor for each (`RowsLeft`), and `Forget` makes the rows of
dead sessions free again, so a run has no last login. An access token outlives the
request that is repeated with it at once (`ExpireAccess`), and the refresh token
outlives the access token, as the defaults of 20 minutes and 30 days say.

Bounds of `DriverOnboarding`. Two requests give every pair of handlers; two
drivers clash over identifiers. The form uploads two images at a time; four let two
uploads differ, and `RecycleImage` makes images nobody refers to new again. Two
submits (`Submits`) let one that was left meet its successor or another driver's.

Bounds of `TripClient`. Two functions in flight (`MaxCall`) let a load or poll meet
another or a change; a third would wait like the second. One booking is enough for a passenger,
whose pages follow one at a time, and for the driver's page, whose decisions are
per booking; two seats let the form be clipped.

Bounds of `AdminConsole`. Two routes let a function end after another route was
chosen; two stops on two places (three for the rider) collide, swap and leave a
gap; two functions overlap. There are at least as many places as stops.

Bounds of `Account`. Two accounts, one of which is dialled while somebody else completes
profiles elsewhere (`MaxComplete`); two functions of pages in flight. There
is one notification at a time; once it was read and nothing refers to it any more
`RecycleNote` makes it new again, so arrivals never end. Two requests, one
of them the watcher's, let a late answer of the previous account meet the next, and
a push meet a load or a read mark.

Fairness (`FairSpec` of `TripBooking`). `SF` on the steps of each request: Node resumes every
continuation and PostgreSQL grants a row lock in the order of arrival, so a
waiter whose lock is free again and again gets it; weak fairness would let
others overtake it for ever, which the lock queue excludes. `SF` on the steps of
each run of the job, start included: `setInterval` keeps firing. `WF` on
`HoldLapses`: time passes. No fairness is assumed of clients, admins or faults.

Fairness (`FairSpec` of `AuthSession`): `WF` on the steps of each request, since
nothing but its own continuation or the server's answer is awaited; none on the
user, the clock or lost connections.

Fairness (`FairSpec` of `TripClient` and `AdminConsole`): `WF` on serving the requests of
each function and on its continuation, and on the poll's timer. Losing a
connection counts as an end of its request, so nothing hangs; users and other
people need not act.

Fairness (`Spec` of `Account`): `WF` on every request being answered or failing and
being handled, on the timers, and on the renewal that the next request after the
expiry of an access token starts; `SF` on what is tried over and over and needs a
connection that holds (storing a renewal, registering the phone, a poll, a load,
the landing check), which is the assumption that the network works again and
again. `BadgeRight` excepts apps that are opened again for ever, because each
opening starts from a fresh badge.

## Proofs

TLAPS proves, for any sets of trips, bookings, users, requests and runs of the
job, and any seat numbers the assumptions `SeatInputsAssumption`, `BatchAssumption`,
`EndpointAssumption` and `ActorAssumption` allow:

* `CoreInvariant`: `Spec => []CoreInv`. `CoreInv` is `TypeOK` strengthened by what
  the handlers rely on: a booking that exists refers to a trip that exists
  (`RowsLinked`), a request in flight refers to rows that exist and that fit each
  other (`RequestsValid`, `TripRequestsValid`, `TodoExists`, `NotifiesBooking`,
  `SweepsExpire`), and `LockDiscipline`. `TypeOK` alone is not inductive: that a
  commit stays within the CHECK constraint needs the row read under the lock to
  be the row of the table, which needs the locks to exclude each other, which
  needs every request to hold the lock of its own trip. `TypeCorrect` and
  `LockDisciplineHolds` follow.
* `SeatsConservedHolds`: with `SeatInv` on top of `CoreInv`. The held seats are a
  union of blocks, one per booking; lemmas compute their number as one booking
  is added, removed or left alone, and each action is matched with one of them.
* `OneActiveBookingHolds`, `SettledBookingsHolds`, `BookedWhileOpenHolds`: from
  `StepsAreLife`, which says that each step leaves a booking alone, creates it
  on an open trip for a passenger without an active one, lets its hold lapse, or
  decides it while it is active.
* `NotesTruthfulHolds`: what a notification claims of a booking has to stay true
  until it is written and ever after. `NoteInv` says of each process on its way
  to a notification that the booking is in one of the statuses that bear out what it is going to say
  (`NoteReady`). It is kept because bookings only move forward (`ClaimsLast`, from
  `StepsAreLife`), because the driver of a trip is set once (`DriversStay`), and because
  processes only come to that point by a commit or by choosing their audience
  (`StepsAreProcLife`).
* `DecisionsAnnouncedHolds`, when `Faults = {}` and `Monitored`: a decision is carried by
  the handler that committed it (`DecisionCarried`), and that handler does nothing
  before it has announced it (`NotifierWaits`).
* `LedgerImplemented`: `Spec /\ []NoneClobbered => SeatLedgerRefined`. Every step maps
  to a step or a stutter of `SeatLedger`: a booking to `Take`, which fits because of
  `SeatInv`; a rejection, cancellation or expiry to `GiveBack`; a publication or an edit to
  `Offer`; everything else, the completion of a trip included, to a stutter. The
  condition is that no edit resizes a trip under its bookings; faults and all
  interleavings are allowed. So the unlocked `updateTrip` is the only operation
  that can break the accounting, which the run `Oversell` shows it does.
  `LedgerWithoutResizing` has no condition but that edits leave the number of seats alone.
* `NotStrandedHolds` and `SessionTypes` for any number of requests and sessions,
  with every failure allowed. `SessionInv` adds to `TypeOK` and `NotStranded` that
  stored, exchanged and new sessions have rows (`StoredIssued`, `TokensIssued`)
  and that a session on its way is not revoked and known to nobody else
  (`AnswersPrivate`). Without the last one `NotStranded` is not inductive: a
  session just stored could have been revoked by another request already.
* `ReasonsCurrentHolds` and `OnboardingTypes` for any number of drivers, images
  and requests. `OnboardingInv` adds `CallsValid`: a handler past its check writes
  to a profile that exists, because profiles are never deleted. Every write to the
  table is one use of the lemma `WriteKeeps`.
* `OrdersUniqueHolds` and `BookedForwardHolds` for any number of routes, stops,
  places and overlapping functions, by `ConsoleInvariant`. `ConsoleInv` adds the shape of the
  tables (`RowsFormed`), that requests in flight are of known kinds and that a
  change is awaited by a function that sends one (`CallsFormed`), and what the first read
  of a rider's request is worth while stops moved not at all or once
  (`RiderInv`). A write changes at most one stop (`AppliedOne`) and passes the unique
  index (`AppliedUnique`).
* `ConsoleTyped` and `NextFreeHolds`, by `NextInvariant`. `ShapeInv` says that rows, page and
  requests are of known kinds, that routes on display or read are still there, because
  none goes away, and that there is a free row for each route that is being created
  (`Room`), without which the server's choice of one would be undefined. `NextInv` says that the number is
  past the stops on display, or an error is shown, or a function in flight will count
  again. That the greatest place exists follows from the well-foundedness of strict
  inclusion on finite sets, not from induction over data.
* `ApprovedWithDocumentsApart`, `UploadsKeptApart`, `ApprovedFixedApart`: the three
  properties of `SerialOnboarding` under `[]RequestsApart`, that is, while no two requests about
  the same driver overlap; requests about different drivers, lost connections and
  everything the clients do are allowed. The condition is what the code needs: under "Known races" are
  the overlaps that break each of them. `ApartInv` says that what a handler read is
  still the profile when it writes (`SeenCurrent`). `NoDeadEndApart` needs `Unsteady = {}` besides, as the
  run does, and `ImageAssumption`, that there are finitely many images, because documents are counted.
  It covers forms that were left and any number of submits: `WaitInv` says that each submit awaits a
  request of its own kind and driver (`RunsWait`), so that every registration in flight has a submit to
  send its documents (`Awaited`), and a pending profile without enough of them has one that still runs
  (`Documented`).
* `TripLifecycleApart`, `LedgerApart`, `NoOversellApart`: in the same way for `TripBooking` under
  `[]TripsApart`: no two operations on one trip overlap, and no booking of a trip
  overlaps the part of an edit between its count and its write. Decisions,
  cancellations, the job and faults overlap everything. `TripsApartInv` says that a check still holds
  when its write comes (`ChecksHold`), that a booking is only completed with its trip, and that
  no edit resizes a trip under its bookings.
  Both conditions hold of any server that handles one request at a time
  (`OneHandlerApart`, `OneHandlerTripsApart`), which is what the serial runs check; the theorems say that
  no more than the overlaps on one row has to be excluded.
* `NoticedOnceHolds` for any number of accounts, notifications, functions and
  requests, by `NoticedInvariant`. What was announced to who is signed in is known to the
  watcher or has been read (`CurrentKnown`). A late answer replaces what is known, so
  `NoticedInv` says of the poll in flight, of which there is one at most (`OnePoll`), that what
  it lists again is known and what it no longer lists has been read, and that while it is
  another account's nothing has been announced to who is signed in (`PollKnown`).
* `PagesTyped`, `RatedOnceHolds`, `SeatsOfferedHolds`, `ManagedForwardHolds`, `DecisionShownHolds` for any
  number of bookings, seats and functions in flight, by `PagesInvariant`. `PagesInv`: the rows
  agree with each other (`RowsInv`), a function whose page was left touches no field
  (`CallInv`), and the form and the trip page run one function at a time, because
  their buttons are disabled meanwhile (`OneAtATime`); with this the seats on the form are within what the last load
  showed (`SeatsInv`). `ManageInv`: in the order of their lives, what the page shows is no later than what any function in flight has read,
  and both are no later than the rows, so that no answer can turn the page back.

Only model-checked: all liveness properties, because TLAPS has no support for fairness
and `ENABLED` here. No definition is recursive, so no proof needs induction over data.

## Findings

The two runs marked "violation" are behaviours of the code that its documents
exclude; `PROJECT.json` quotes the lines.

* `Oversell`: `updateTrip` (`trips.service.ts:110-150`) changes the seat count
  outside `withLockedTripSeatMutation`. The same edit under a pending booking
  makes every later rejection, cancellation and expiry of it fail the bounds
  check, so `HoldsSettle` fails when `updateTrip` is among the endpoints.
* `ConcurrentRefresh`: the `catchError` of the interceptor
  (`auth-refresh.interceptor.ts:38`) clears the session on every error and also
  sees those of the repeated request. `StaysSignedIn` fails in the same way with
  one request, when that is refused after the exchange (`Rejectable`) or loses its
  connection during it (`Lossy`).

### Known races

Behaviours the passing runs leave out. Each is reproduced by the change of the run named.

* Checks in one statement whose write in a later one does not repeat them:
  `TripLifecycle` under `TripRace` (two trip operations both pass their check);
  `ApprovedFixed` under `OnboardingRace` (a stale registration or upload takes an
  approval away); `ApprovedWithDocuments` and `UploadsKept` in `SerialOnboarding` with two
  handlers (a registration between the read and the write of an approval; two
  uploads that read the same list). Two exchanges of one refresh token both
  succeed for the same reason (`auth.service.ts:73-98`).
* `NoDeadEnd` in `SerialOnboarding` with a driver in `Unsteady`: the registration is confirmed,
  the upload never happens, and the waiting page offers a pending driver no way
  back to the form. A driver who left the form during its submit is not even told:
  the waiting page shows "pending" before the upload, and the error of the upload
  goes to the form.
* A passenger whose booking is pending when the trip is cancelled is not told when
  the job expires the booking before `notifyTripCancelled` looks for its audience
  (`notifications.service.ts:192`), which it does after the commit.
* A pending booking of a completed trip can still be accepted
  (`bookings.service.ts:166`), and the trip then be rated.
* `BookedForward` allows for two moves of stops between the two reads of a
  booking (`moves = 2`): then a ride may be booked that was never forward.

### What the documents say otherwise

Noticed while reading; no run is about them.

* After a lost race for seats the booking page sets `raceMessage` and then reloads, and
  the load clears it (`passenger-trip-booking.page.ts:268`, `:224`); `specs/agent-ui-04-booking-flow.md:20`
  wants it shown. Messages of this kind are not in the model.
* A logout leaves the push token registered: nothing that is routed calls
  `unregisterCurrentDevice`; `specs/agent-ui-05-notifications.md:12` has it deleted. `DeviceFollows` therefore
  speaks of who is signed in only. The watcher is not stopped either, and what is
  unread for the next account is announced as new.
* A code that is sent late replaces the confirmation that the page for the code
  uses, which then shows another number than it confirms.
* `completeProfile` changes the role of an active account too (`auth.service.ts:112`);
  `specs/agent-ui-01-auth-screens.md:20` calls the choice permanent.
* An exchange that is answered after a logout stores a session again
  (`auth-api.service.ts:117`); no document says what a logout promises.
* The edit form looks for an `Error` where `HttpClient` throws an `HttpErrorResponse`
  (`driver-trip-form.page.ts:366`), so its message about blocked edits is never shown.
* In the console a failed toggle leaves the flag flipped and the next save of the
  row writes it (`admin.page.ts:697`), and a repeated tap creates a route twice (`:672`).

## Not modelled

* `home.page.ts`, the earlier console: no route leads to it.
* Presentation components, styles, translations, the text of notifications,
  paging, prices and dates: no control depends on them.
* The driver's profile page but for its logout, and the passenger's but for the
  same: they display what they read.
* Bootstrap beyond the intervals and handlers `TripBooking` uses, build files, the
  Android shell, generated Prisma code.
* Firebase (verification, messaging), PostgreSQL and Angular's router are modelled
  from how the code uses them, and marked external in `PROJECT.json`.

What is left to do: statement-level models of two updates of a stop and of profile
completion, which are atomic here; more than one trip per phone.
