-------------------------- MODULE DriverOnboarding ---------------------------
(***************************************************************************)
(* How a driver gets approved: the registration page of the client sends   *)
(* the details and then the document images, an admin decides, and the     *)
(* waiting page shows the driver where things stand.  The form can be left *)
(* while its submit function runs, which then goes on by itself.  Each     *)
(* handler of the server reads the profile in one statement and writes it  *)
(* in a later one, so a decision, a registration and an upload overlap.    *)
(***************************************************************************)
EXTENDS Integers, FiniteSets

CONSTANTS
    Users,        \* active accounts with the role driver
    Details,      \* what a registration form may say: unique identifiers and car
    Images,       \* image files that may be uploaded
    UploadSizes,  \* images an upload from elsewhere may have
    Handlers,     \* HTTP requests in flight at a time
    Submits,      \* calls of submit that run at a time
    Unsteady,     \* users whose connection or app may fail while a submit runs
    Elsewhere,    \* users who also upload from another client of the same endpoint
    None

Decisions == {"approve", "reject", "suspend"}

ASSUME UploadAssumption == UploadSizes \subseteq Nat \ {0}
ASSUME UserAssumption == Unsteady \subseteq Users /\ Elsewhere \subseteq Users
ASSUME NoneAssumption == None \notin Users \cup Details \cup Handlers \cup Submits
ASSUME ImageAssumption == IsFiniteSet(Images)

VARIABLES
    driver,  \* table drivers, by user
    files,   \* files under uploads/driver-documents
    proc,    \* requests in flight
    submit,  \* calls of submit that run, on the form or after it was left
    page,    \* the page of every user's client
    acked    \* history: images whose upload was confirmed since the last registration

vars == <<driver, files, proc, submit, page, acked>>

Statuses == {"none", "pending", "approved", "rejected", "suspended"}
Profiles == [status : Statuses, details : Details \cup {None}, docs : SUBSET Images,
             reason : {"none", "rejected", "suspended"}]
NoProfile == [status |-> "none", details |-> None, docs |-> {}, reason |-> "none"]

Idle == [pc |-> "idle", op |-> "none", user |-> None, details |-> None, docs |-> {},
         seen |-> NoProfile]
Processes == [pc : {"idle", "read", "write"},
              op : Decisions \cup {"register", "documents", "none"},
              user : Users \cup {None}, details : Details \cup {None},
              docs : SUBSET Images, seen : Profiles]

\* at: how far a submit is; request: the one it waits for.
Runs == [at : {"none", "registering", "registered", "uploading"},
         user : Users \cup {None}, request : Handlers \cup {None}]
NoRun == [at |-> "none", user |-> None, request |-> None]

\* seen: the status the waiting page loaded; form: the submit that disables the form.
Pages == [at : {"closed", "waiting", "form", "trips"}, seen : Statuses,
          form : Submits \cup {None}]
Closed == [at |-> "closed", seen |-> "none", form |-> None]

Init ==
    /\ driver = [u \in Users |-> NoProfile]
    /\ files = {}
    /\ proc = [h \in Handlers |-> Idle]
    /\ submit = [s \in Submits |-> NoRun]
    /\ page = [u \in Users |-> Closed]
    /\ acked = [u \in Users |-> {}]

-----------------------------------------------------------------------------
(* The client *)

\* The waiting page when it loaded that status.
Loaded(status) == [at |-> IF status = "approved" THEN "trips" ELSE "waiting",
                   seen |-> status, form |-> None]

\* The app opens, the driver refreshes the waiting page or goes back to it, also
\* from a form whose submit runs: it loads the profile, and takes an error of any
\* kind for a missing one.
OpenPage(u) ==
    /\ \E status \in {driver[u].status} \cup (IF u \in Unsteady THEN {"none"} ELSE {}) :
          page' = [page EXCEPT ![u] = Loaded(status)]
    /\ UNCHANGED <<driver, files, proc, submit, acked>>

\* The waiting page offers the form to a driver without a profile or with a refused one.
OffersForm(u) == page[u].at = "waiting" /\ page[u].seen \in {"none", "rejected", "suspended"}

\* The form opens anew and knows nothing of an earlier submit.
OpenForm(u) ==
    /\ OffersForm(u)
    /\ page' = [page EXCEPT ![u].at = "form"]
    /\ UNCHANGED <<driver, files, proc, submit, acked>>

\* Submit s of user u sends a request that starts in handler h.
Request(h, s, u, at, call) ==
    /\ proc[h].pc = "idle"
    /\ proc' = [proc EXCEPT ![h] = call]
    /\ submit' = [submit EXCEPT ![s] = [at |-> at, user |-> u, request |-> h]]

Submit(h, s, u) ==
    /\ page[u].at = "form" /\ page[u].form = None
    /\ submit[s].at = "none"
    /\ page' = [page EXCEPT ![u].form = s]
    /\ \E d \in Details :
          Request(h, s, u, "registering",
                  [Idle EXCEPT !.pc = "read", !.op = "register", !.user = u, !.details = d])
    /\ UNCHANGED <<driver, files, acked>>

\* The images are on disk before the handler looks at the profile.
UploadCall(u, docs) ==
    [Idle EXCEPT !.pc = "read", !.op = "documents", !.user = u, !.docs = docs]

\* The form had a picture of the identity card and one of the licence.
Upload(h, s, u) ==
    /\ submit[s].at = "registered" /\ submit[s].user = u
    /\ \E docs \in SUBSET (Images \ files) :
          /\ Cardinality(docs) = 2
          /\ files' = files \cup docs
          /\ Request(h, s, u, "uploading", UploadCall(u, docs))
    /\ UNCHANGED <<driver, page, acked>>

UploadElsewhere(h, u) ==
    /\ u \in Elsewhere
    /\ proc[h].pc = "idle"
    /\ \E docs \in SUBSET (Images \ files) :
          /\ Cardinality(docs) \in UploadSizes
          /\ files' = files \cup docs
          /\ proc' = [proc EXCEPT ![h] = UploadCall(u, docs)]
    /\ UNCHANGED <<driver, submit, page, acked>>

\* The calls of submit after which it leaves for the waiting page.
LastCallsBoth == {"registering", "uploading"}  \* mutant: it leaves before the upload
LastCalls == {"uploading"}

\* A submit that failed ends; its form, if it is still there, can be sent again.
Fails(s) ==
    /\ submit' = [submit EXCEPT ![s] = NoRun]
    /\ page' = [u \in Users |-> IF page[u].form = s THEN [page[u] EXCEPT !.form = None]
                               ELSE page[u]]

\* A submit that succeeded opens the waiting page, which loads the profile unless
\* the driver is there already.
Leaves(s, status) ==
    /\ submit' = [submit EXCEPT ![s] = NoRun]
    /\ page' = IF page[submit[s].user].at = "waiting" THEN page
               ELSE [page EXCEPT ![submit[s].user] = Loaded(status)]

\* The answer of h reaches the submit that still waits for it.
Answer(h, ok, status) ==
    \/ /\ \A s \in Submits : submit[s].request # h
       /\ UNCHANGED <<submit, page>>
    \/ \E s \in Submits :
          /\ submit[s].request = h
          /\ \/ ~ok /\ Fails(s)
             \/ ok /\ submit[s].at \in LastCalls /\ Leaves(s, status)
             \/ /\ ok /\ submit[s].at \notin LastCalls
                /\ submit' = [submit EXCEPT ![s].at = "registered", ![s].request = None]
                /\ page' = page

\* The connection drops while a submit waits, or before its upload leaves; a
\* request the server has goes on without it.
Disconnect(s) ==
    /\ submit[s].user \in Unsteady
    /\ Fails(s)
    /\ UNCHANGED <<driver, files, proc, acked>>

\* The app is closed in the middle, and what it runs is gone.
Close(u) ==
    /\ u \in Unsteady
    /\ page' = [page EXCEPT ![u] = Closed]
    /\ submit' = [s \in Submits |-> IF submit[s].user = u THEN NoRun ELSE submit[s]]
    /\ UNCHANGED <<driver, files, proc, acked>>

-----------------------------------------------------------------------------
(* The server *)

Finish(h) == proc' = [proc EXCEPT ![h] = Idle]
Refuse(h) ==
    /\ Finish(h)
    /\ Answer(h, FALSE, driver[proc[h].user].status)
    /\ UNCHANGED <<driver, files, acked>>

MayChangeAny(row) == TRUE  \* mutant: approved profiles are not protected
MayChange(row) == row.status # "approved"

HasProfileAny(row) == TRUE  \* mutant: nobody asks whether there is a profile
HasProfile(row) == row.status # "none"

EnoughOne(docs) == Cardinality(docs) >= 1  \* mutant: one document will do
Enough(docs) == Cardinality(docs) >= 2

MayProceed(op, row) ==
    CASE op = "register"  -> MayChange(row)
      [] op = "documents" -> HasProfile(row) /\ MayChange(row)
      [] op = "approve"   -> HasProfile(row) /\ Enough(row.docs)

\* registerDriver, addDocuments and approveDriver read the profile and check it.
ReadProfile(h) ==
    /\ proc[h].pc = "read"
    /\ LET row == driver[proc[h].user] IN
       IF MayProceed(proc[h].op, row)
       THEN /\ proc' = [proc EXCEPT ![h].pc = "write", ![h].seen = row]
            /\ UNCHANGED <<driver, files, submit, page, acked>>
       ELSE Refuse(h)

Writes(h, op) == proc[h].pc = "write" /\ proc[h].op = op

\* The unique identifiers of a profile, enforced by the table.
IdentifiersFree(u, d) == \A v \in Users \ {u} : driver[v].details # d

\* A first registration inserts, a later one updates, whatever became of the row.
RegisterDriver(h) ==
    LET u == proc[h].user  d == proc[h].details IN
    /\ Writes(h, "register")
    /\ IF IdentifiersFree(u, d) /\ (proc[h].seen.status = "none" => driver[u].status = "none")
       THEN /\ driver' = [driver EXCEPT ![u] = [status |-> "pending", details |-> d,
                                                docs |-> {}, reason |-> "none"]]
            /\ acked' = [acked EXCEPT ![u] = {}]
            /\ Answer(h, TRUE, "pending")
            /\ Finish(h)
            /\ UNCHANGED files
       ELSE Refuse(h)

\* The documents a profile has after an upload: those read before, and the new ones.
NextDocsOnly(seen, docs) == docs  \* mutant: the new ones replace the others
NextDocs(seen, docs) == seen.docs \cup docs

\* After a rejection or suspension, as read before, the profile is up for review again.
ReopenedReason(row, seen) ==  \* mutant: the old reason stays
    IF seen.status \in {"rejected", "suspended"} THEN [row EXCEPT !.status = "pending"] ELSE row
Reopened(row, seen) ==
    IF seen.status \in {"rejected", "suspended"}
    THEN [row EXCEPT !.status = "pending", !.reason = "none"] ELSE row

AddDocuments(h) ==
    LET u == proc[h].user  seen == proc[h].seen IN
    /\ Writes(h, "documents")
    /\ driver' = [driver EXCEPT ![u] =
                    Reopened([@ EXCEPT !.docs = NextDocs(seen, proc[h].docs)], seen)]
    /\ acked' = [acked EXCEPT ![u] = @ \cup proc[h].docs]
    /\ Answer(h, TRUE, driver'[u].status)
    /\ Finish(h)
    /\ UNCHANGED files

\* An admin decides about a profile.  Rejecting and suspending read nothing first.
Decide(h, u, op) ==
    /\ proc[h].pc = "idle"
    /\ driver[u].status # "none"
    /\ proc' = [proc EXCEPT ![h] = [Idle EXCEPT !.pc = IF op = "approve" THEN "read" ELSE "write",
                                                !.op = op, !.user = u]]
    /\ UNCHANGED <<driver, files, submit, page, acked>>

ApproveDriver(h) ==
    /\ Writes(h, "approve")
    /\ driver' = [driver EXCEPT ![proc[h].user].status = "approved",
                                ![proc[h].user].reason = "none"]
    /\ Finish(h)
    /\ UNCHANGED <<files, submit, page, acked>>

\* A rejection has a reason, a suspension may have one.
SetDriverStatus(h, op, status) ==
    /\ Writes(h, op)
    /\ \E reason \in {status} \cup (IF op = "suspend" THEN {"none"} ELSE {}) :
          driver' = [driver EXCEPT ![proc[h].user].status = status,
                                   ![proc[h].user].reason = reason]
    /\ Finish(h)
    /\ UNCHANGED <<files, submit, page, acked>>

-----------------------------------------------------------------------------
(* Specification *)

\* Bound: an image no profile, request or confirmation refers to is new again.
RecycleImage(i) ==
    /\ i \in files
    /\ \A u \in Users : i \notin driver[u].docs \cup acked[u]
    /\ \A h \in Handlers : i \notin proc[h].docs \cup proc[h].seen.docs
    /\ files' = files \ {i}
    /\ UNCHANGED <<driver, proc, submit, page, acked>>

Client(u) ==
    \/ OpenPage(u) \/ OpenForm(u) \/ Close(u)
    \/ \E h \in Handlers, s \in Submits : Submit(h, s, u) \/ Upload(h, s, u)
    \/ \E h \in Handlers : UploadElsewhere(h, u)
Server(h) ==
    \/ ReadProfile(h) \/ RegisterDriver(h) \/ AddDocuments(h) \/ ApproveDriver(h)
    \/ SetDriverStatus(h, "reject", "rejected") \/ SetDriverStatus(h, "suspend", "suspended")

Next ==
    \/ \E u \in Users : Client(u)
    \/ \E s \in Submits : Disconnect(s)
    \/ \E h \in Handlers : Server(h)
    \/ \E h \in Handlers, u \in Users, op \in Decisions : Decide(h, u, op)
    \/ \E i \in Images : RecycleImage(i)

Spec == Init /\ [][Next]_vars

-----------------------------------------------------------------------------
(* Properties *)

\* Profiles, requests and pages have their shape; only a registration makes a
\* profile, and no two profiles share an identifier.
TypeOK ==
    /\ driver \in [Users -> Profiles]
    /\ \A u \in Users : driver[u].status = "none" \/ driver[u].details = None =>
          driver[u] = NoProfile
    /\ \A u, v \in Users : driver[u].details = driver[v].details =>
          u = v \/ driver[u].details = None
    /\ files \subseteq Images
    /\ proc \in [Handlers -> Processes]
    /\ submit \in [Submits -> Runs]
    /\ page \in [Users -> Pages]
    /\ acked \in [Users -> SUBSET Images]

\* The reason a driver is shown is that of the decision in force, and a rejected
\* driver is always shown one, whatever registrations and uploads overlap with
\* the decisions.
ReasonsCurrent ==
    \A u \in Users :
        /\ driver[u].reason # "none" => driver[u].status = driver[u].reason
        /\ driver[u].status = "rejected" => driver[u].reason = "rejected"

\* Whoever is approved has at least two documents on file.
ApprovedWithDocuments ==
    \A u \in Users : driver[u].status = "approved" => Cardinality(driver[u].docs) >= 2

\* The driver cannot change an approved profile: while it stays approved it stays
\* as it is, and only a suspension or a rejection ends the approval.
ApprovedFixed ==
    [][\A u \in Users :
          driver[u].status = "approved" =>
             \/ driver'[u] = driver[u]
             \/ /\ driver'[u].status \in {"rejected", "suspended"}
                /\ driver'[u].details = driver[u].details
                /\ driver'[u].docs = driver[u].docs]_vars

\* Images whose upload was confirmed are on the profile until the driver registers
\* again, however many uploads it took.
UploadsKept == \A u \in Users : acked[u] \subseteq driver[u].docs

\* A driver on the waiting page who sees "pending" waits for an admin who can
\* approve: the profile has enough documents, unless a submit of that driver, which
\* may run on after its form was left, is still about to send them.
NoDeadEnd ==
    \A u \in Users :
        /\ page[u].at = "waiting" /\ page[u].seen = "pending" /\ driver[u].status = "pending"
        /\ \A s \in Submits : submit[s].user # u
        => Cardinality(driver[u].docs) >= 2
=============================================================================
