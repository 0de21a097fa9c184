----------------------- MODULE DriverOnboardingProofs ------------------------
(***************************************************************************)
(* Proofs about DriverOnboarding: the table keeps its shape and the reason *)
(* a driver is shown is that of the decision in force.  As long as no two  *)
(* requests about one driver overlap, approved drivers have their          *)
(* documents, confirmed uploads are kept and nobody waits in vain.         *)
(***************************************************************************)
EXTENDS DriverOnboarding, FiniteSetTheorems, TLAPS

\* A request in flight is for somebody; once its handler checked that there is
\* a profile, there is one: profiles are never deleted.
CallsValid ==
    \A h \in Handlers :
        proc[h].pc # "idle" =>
            /\ proc[h].user \in Users
            /\ proc[h].op = "register" => proc[h].details \in Details
            /\ proc[h].op \in Decisions \/ (proc[h].op = "documents" /\ proc[h].pc = "write") =>
                  driver[proc[h].user].status # "none"

OnboardingInv == TypeOK /\ ReasonsCurrent /\ CallsValid

\* Nobody has a profile at first.
LEMMA InitOnboarding == Init => OnboardingInv
  BY NoneAssumption
     DEF Init, OnboardingInv, TypeOK, ReasonsCurrent, CallsValid, Profiles, NoProfile,
         Statuses, Processes, Idle, Runs, NoRun, Pages, Closed

\* Submits and pages in shape.
ClientTyped == submit \in [Submits -> Runs] /\ page \in [Users -> Pages]

\* A submit that fails leaves every page in shape.
LEMMA FailsTyped ==
    ASSUME TypeOK, NEW s \in Submits, Fails(s)
    PROVE  ClientTyped'
  <1>1. submit \in [Submits -> Runs] /\ NoRun \in Runs
    BY DEF TypeOK, Runs, NoRun
  <1>2. submit' \in [Submits -> Runs]
    BY <1>1 DEF Fails
  <1>3. \A u \in Users : page[u] \in Pages /\ [page[u] EXCEPT !.form = None] \in Pages
    BY DEF TypeOK, Pages
  <1>4. page' \in [Users -> Pages]
    BY <1>3 DEF Fails
  <1> QED
    BY <1>2, <1>4 DEF ClientTyped

\* So does the answer to a request.
LEMMA AnswerTyped ==
    ASSUME TypeOK, NEW h \in Handlers, NEW ok \in BOOLEAN, NEW status \in Statuses,
           Answer(h, ok, status)
    PROVE  ClientTyped'
  <1>1. Loaded(status) \in Pages /\ NoRun \in Runs
    BY DEF Loaded, Pages, Runs, NoRun
  <1>2. submit \in [Submits -> Runs] /\ page \in [Users -> Pages]
    BY DEF TypeOK
  <1>3. CASE UNCHANGED <<submit, page>>
    BY <1>2, <1>3 DEF ClientTyped
  <1>4. ASSUME NEW s \in Submits, Fails(s)
        PROVE  ClientTyped'
    BY <1>4, FailsTyped
  <1>5. ASSUME NEW s \in Submits, Leaves(s, status)
        PROVE  ClientTyped'
    BY <1>1, <1>2, <1>5 DEF Leaves, ClientTyped
  <1>6. ASSUME NEW s \in Submits, page' = page,
               submit' = [submit EXCEPT ![s].at = "registered", ![s].request = None]
        PROVE  ClientTyped'
    <2>1. [submit[s] EXCEPT !.at = "registered", !.request = None] \in Runs
      BY <1>2 DEF Runs
    <2> QED
      BY <1>2, <1>6, <2>1 DEF ClientTyped
  <1> QED
    BY <1>3, <1>4, <1>5, <1>6 DEF Answer

\* A refused request changes no profile.
LEMMA RefuseKeeps ==
    ASSUME OnboardingInv, NEW h \in Handlers, proc[h].pc # "idle", Refuse(h)
    PROVE  OnboardingInv'
  <1>1. proc[h].user \in Users /\ driver[proc[h].user].status \in Statuses
    BY DEF OnboardingInv, CallsValid, TypeOK, Profiles
  <1>2. ClientTyped'
    BY <1>1, AnswerTyped DEF OnboardingInv, Refuse
  <1> QED
    BY <1>2 DEF ClientTyped, Refuse, Finish, OnboardingInv, TypeOK, ReasonsCurrent, CallsValid, Processes,
                Idle, Profiles, NoProfile, Statuses

\* What the client does on its own touches submits and pages only.
LEMMA PageKeeps ==
    ASSUME OnboardingInv,
           \/ \E u \in Users : OpenPage(u) \/ OpenForm(u) \/ Close(u)
           \/ \E s \in Submits : Disconnect(s)
    PROVE  OnboardingInv'
  <1>1. TypeOK /\ NoRun \in Runs /\ Closed \in Pages
    BY DEF OnboardingInv, Runs, NoRun, Pages, Closed, Statuses
  <1>2. CASE \E u \in Users : OpenPage(u)
    <2>1. PICK u \in Users, status \in Statuses :
             page' = [page EXCEPT ![u] = Loaded(status)] /\ submit' = submit
      BY <1>1, <1>2 DEF OpenPage, TypeOK, Profiles, Statuses
    <2>2. Loaded(status) \in Pages
      BY DEF Loaded, Pages
    <2> QED
      BY <1>1, <1>2, <2>1, <2>2 DEF OpenPage, OnboardingInv, TypeOK, ReasonsCurrent, CallsValid
  <1>3. CASE \E u \in Users : OpenForm(u)
    <2>1. ClientTyped'
      BY <1>1, <1>3 DEF OpenForm, TypeOK, Pages, ClientTyped
    <2> QED
      BY <1>3, <2>1 DEF OpenForm, ClientTyped, OnboardingInv, TypeOK, ReasonsCurrent, CallsValid
  <1>4. CASE \E u \in Users : Close(u)
    <2>1. ClientTyped'
      BY <1>1, <1>4 DEF Close, TypeOK, ClientTyped
    <2> QED
      BY <1>4, <2>1 DEF Close, ClientTyped, OnboardingInv, TypeOK, ReasonsCurrent, CallsValid
  <1>5. CASE \E s \in Submits : Disconnect(s)
    <2>1. ClientTyped'
      BY <1>1, <1>5, FailsTyped DEF Disconnect
    <2> QED
      BY <1>5, <2>1 DEF Disconnect, ClientTyped, OnboardingInv, TypeOK, ReasonsCurrent, CallsValid
  <1> QED
    BY <1>2, <1>3, <1>4, <1>5

\* A request that starts is for a user, and a decision for one with a profile.
LEMMA CallKeeps ==
    ASSUME OnboardingInv, NEW u \in Users, NEW h \in Handlers,
           \/ \E s \in Submits : Submit(h, s, u) \/ Upload(h, s, u)
           \/ UploadElsewhere(h, u)
           \/ \E op \in Decisions : Decide(h, u, op)
    PROVE  OnboardingInv'
  <1>1. CASE \E s \in Submits : Submit(h, s, u)
    <2>1. PICK s \in Submits, d \in Details :
             /\ Submit(h, s, u)
             /\ Request(h, s, u, "registering",
                        [Idle EXCEPT !.pc = "read", !.op = "register", !.user = u, !.details = d])
      BY <1>1 DEF Submit
    <2>2. proc' \in [Handlers -> Processes]
      BY <2>1 DEF OnboardingInv, TypeOK, Request, Idle, Processes, Profiles, NoProfile,
                  Statuses, Decisions
    <2>3. submit' \in [Submits -> Runs]
      BY <2>1 DEF OnboardingInv, TypeOK, Request, Runs
    <2>4. page' \in [Users -> Pages]
      BY <2>1 DEF Submit, OnboardingInv, TypeOK, Pages
    <2> QED
      BY <2>1, <2>2, <2>3, <2>4 DEF Submit, Request, Idle, OnboardingInv, TypeOK, ReasonsCurrent,
                              CallsValid, Decisions
  <1>2. CASE (\E s \in Submits : Upload(h, s, u)) \/ UploadElsewhere(h, u)
    <2>1. PICK docs \in SUBSET (Images \ files) :
             /\ files' = files \cup docs
             /\ proc' = [proc EXCEPT ![h] = UploadCall(u, docs)]
      BY <1>2 DEF Upload, UploadElsewhere, Request
    <2>2. page' \in [Users -> Pages] /\ submit' \in [Submits -> Runs]
      BY <1>2 DEF Upload, UploadElsewhere, Request, OnboardingInv, TypeOK, Runs
    <2>3. proc' \in [Handlers -> Processes]
      BY <2>1 DEF OnboardingInv, TypeOK, UploadCall, Idle, Processes, Profiles, NoProfile,
                  Statuses, Decisions
    <2>4. UNCHANGED <<driver, acked>>
      BY <1>2 DEF Upload, UploadElsewhere
    <2> QED
      BY <2>1, <2>2, <2>3, <2>4 DEF UploadCall, Idle, OnboardingInv, TypeOK, ReasonsCurrent,
                                    CallsValid, Decisions
  <1>3. ASSUME NEW op \in Decisions, Decide(h, u, op)
        PROVE  OnboardingInv'
    <2>1. proc' \in [Handlers -> Processes]
      BY <1>3 DEF Decide, OnboardingInv, TypeOK, Idle, Processes, Profiles, NoProfile,
                  Statuses, Decisions
    <2> QED
      BY <1>3, <2>1 DEF Decide, Idle, OnboardingInv, TypeOK, ReasonsCurrent, CallsValid,
                        Decisions
  <1> QED
    BY <1>1, <1>2, <1>3

\* The check before a write: what it read is a profile, or there is none.
LEMMA ReadKeeps ==
    ASSUME OnboardingInv, NEW h \in Handlers, ReadProfile(h)
    PROVE  OnboardingInv'
  <1>1. CASE MayProceed(proc[h].op, driver[proc[h].user])
    <2>1. /\ proc[h].pc = "read"
          /\ proc' = [proc EXCEPT ![h].pc = "write", ![h].seen = driver[proc[h].user]]
          /\ UNCHANGED <<driver, files, submit, page, acked>>
      BY <1>1 DEF ReadProfile
    <2>2. proc[h].user \in Users
      BY <2>1 DEF OnboardingInv, CallsValid
    <2>3. proc' \in [Handlers -> Processes]
      <3>1. driver[proc[h].user] \in Profiles /\ proc[h] \in Processes
        BY <2>2 DEF OnboardingInv, TypeOK
      <3>2. [proc[h] EXCEPT !.pc = "write", !.seen = driver[proc[h].user]] \in Processes
        BY <3>1 DEF Processes
      <3> QED
        BY <2>1, <3>2 DEF OnboardingInv, TypeOK
    <2>4. proc[h].op = "documents" => driver[proc[h].user].status # "none"
      BY <1>1 DEF MayProceed, HasProfile
    <2> QED
      BY <2>1, <2>2, <2>3, <2>4 DEF OnboardingInv, TypeOK, ReasonsCurrent, CallsValid
  <1>2. CASE ~MayProceed(proc[h].op, driver[proc[h].user])
    BY <1>2, RefuseKeeps DEF ReadProfile
  <1> QED
    BY <1>1, <1>2

\* A handler that ends with a profile written, seen from every other one.
LEMMA WriteKeeps ==
    ASSUME OnboardingInv, NEW h \in Handlers, NEW u \in Users, NEW profile \in Profiles,
           profile.status # "none", profile.details # None,
           \A v \in Users \ {u} : driver[v].details # profile.details,
           profile.reason # "none" => profile.status = profile.reason,
           profile.status = "rejected" => profile.reason = "rejected",
           driver' = [driver EXCEPT ![u] = profile],
           Finish(h), files' = files,
           ClientTyped', acked' \in [Users -> SUBSET Images]
    PROVE  OnboardingInv'
  <1>1. driver' \in [Users -> Profiles]
    BY DEF OnboardingInv, TypeOK
  <1>2. proc' \in [Handlers -> Processes]
    BY DEF OnboardingInv, TypeOK, Finish, Idle, Processes, Profiles, NoProfile, Statuses
  <1>3. \A v \in Users : /\ driver'[v].status = "none" \/ driver'[v].details = None =>
                              driver'[v] = NoProfile
                         /\ driver[v].status # "none" => driver'[v].status # "none"
    BY DEF OnboardingInv, TypeOK
  <1>4. \A v, w \in Users : driver'[v].details = driver'[w].details =>
                              v = w \/ driver'[v].details = None
    BY DEF OnboardingInv, TypeOK
  <1>5. TypeOK'
    BY <1>1, <1>2, <1>3, <1>4 DEF OnboardingInv, TypeOK, ClientTyped
  <1>6. ReasonsCurrent'
    BY DEF OnboardingInv, TypeOK, ReasonsCurrent
  <1>7. CallsValid'
    BY <1>3 DEF OnboardingInv, TypeOK, CallsValid, Finish, Idle
  <1> QED
    BY <1>5, <1>6, <1>7 DEF OnboardingInv

\* A registration starts over: pending, without documents and without a reason.
LEMMA RegisterKeeps ==
    ASSUME OnboardingInv, NEW h \in Handlers, RegisterDriver(h)
    PROVE  OnboardingInv'
  <1> DEFINE u == proc[h].user
             d == proc[h].details
             profile == [status |-> "pending", details |-> d, docs |-> {}, reason |-> "none"]
  <1>1. proc[h].pc = "write" /\ proc[h].op = "register" /\ u \in Users /\ d \in Details
    BY DEF RegisterDriver, Writes, OnboardingInv, CallsValid
  <1>2. CASE IdentifiersFree(u, d) /\ (proc[h].seen.status = "none" => driver[u].status = "none")
    <2>1. /\ driver' = [driver EXCEPT ![u] = profile]
          /\ acked' = [acked EXCEPT ![u] = {}]
          /\ Answer(h, TRUE, "pending")
          /\ Finish(h)
          /\ files' = files
      BY <1>2 DEF RegisterDriver
    <2>2. ClientTyped'
      BY <2>1, AnswerTyped DEF OnboardingInv, Statuses
    <2>3. profile \in Profiles /\ acked' \in [Users -> SUBSET Images]
      BY <1>1, <2>1 DEF OnboardingInv, TypeOK, Profiles, Statuses
    <2>4. \A v \in Users \ {u} : driver[v].details # profile.details
      BY <1>2 DEF IdentifiersFree
    <2>5. d # None
      BY <1>1, NoneAssumption
    <2> HIDE DEF u, d
    <2> QED
      BY <1>1, <2>1, <2>2, <2>3, <2>4, <2>5, WriteKeeps
  <1>3. CASE ~(IdentifiersFree(u, d) /\ (proc[h].seen.status = "none" => driver[u].status = "none"))
    BY <1>1, <1>3, RefuseKeeps DEF RegisterDriver
  <1> QED
    BY <1>2, <1>3

\* An upload that reopens a refused profile removes the reason with the status.
LEMMA DocumentsKeep ==
    ASSUME OnboardingInv, NEW h \in Handlers, AddDocuments(h)
    PROVE  OnboardingInv'
  <1> DEFINE u == proc[h].user
             seen == proc[h].seen
             profile == Reopened([driver[u] EXCEPT !.docs = NextDocs(seen, proc[h].docs)], seen)
  <1>1. proc[h].pc = "write" /\ u \in Users /\ driver[u].status # "none"
    BY DEF AddDocuments, Writes, OnboardingInv, CallsValid
  <1>2. proc[h] \in Processes /\ driver[u] \in Profiles /\ seen \in Profiles
    BY <1>1 DEF OnboardingInv, TypeOK, Processes
  <1>3. /\ driver' = [driver EXCEPT ![u] = profile]
        /\ acked' = [acked EXCEPT ![u] = @ \cup proc[h].docs]
        /\ Answer(h, TRUE, driver'[u].status)
        /\ Finish(h)
        /\ files' = files
    BY <1>1 DEF AddDocuments, OnboardingInv, TypeOK
  <1>4. /\ profile \in Profiles
        /\ profile.details = driver[u].details
        /\ \/ profile.status = driver[u].status /\ profile.reason = driver[u].reason
           \/ profile.status = "pending" /\ profile.reason = "none"
    BY <1>2 DEF Reopened, NextDocs, Profiles, Processes, Statuses
  <1>5. driver'[u] = profile
    BY <1>1, <1>3 DEF OnboardingInv, TypeOK
  <1>6. ClientTyped'
    <2>1. profile.status \in Statuses
      BY <1>4 DEF Profiles
    <2> QED
      BY <1>3, <1>5, <2>1, AnswerTyped DEF OnboardingInv
  <1>7. acked' \in [Users -> SUBSET Images]
    BY <1>2, <1>3 DEF OnboardingInv, TypeOK, Processes
  <1>8. driver[u].details # None
    BY <1>1 DEF OnboardingInv, TypeOK, NoProfile
  <1>9. \A v \in Users \ {u} : driver[v].details # driver[u].details
    BY <1>1, <1>8 DEF OnboardingInv, TypeOK
  <1>10. /\ driver[u].reason # "none" => driver[u].status = driver[u].reason
         /\ driver[u].status = "rejected" => driver[u].reason = "rejected"
    BY <1>1 DEF OnboardingInv, ReasonsCurrent
  <1> HIDE DEF u, profile
  <1> QED
    BY <1>1, <1>3, <1>4, <1>6, <1>7, <1>8, <1>9, <1>10, WriteKeeps

\* Each decision writes the status together with the reason.
LEMMA DecisionKeeps ==
    ASSUME OnboardingInv, NEW h \in Handlers,
           \/ ApproveDriver(h)
           \/ SetDriverStatus(h, "reject", "rejected")
           \/ SetDriverStatus(h, "suspend", "suspended")
    PROVE  OnboardingInv'
  <1> DEFINE u == proc[h].user
  <1>1. u \in Users /\ driver[u].status # "none"
    BY DEF ApproveDriver, SetDriverStatus, Writes, OnboardingInv, CallsValid, Decisions
  <1>2. driver[u] \in Profiles /\ driver[u].details # None
    BY <1>1 DEF OnboardingInv, TypeOK, NoProfile
  <1>3. \A v \in Users \ {u} : driver[v].details # driver[u].details
    BY <1>1, <1>2 DEF OnboardingInv, TypeOK
  <1>4. PICK status \in {"approved", "rejected", "suspended"},
             reason \in {"none", "rejected", "suspended"} :
          /\ driver' = [driver EXCEPT ![u].status = status, ![u].reason = reason]
          /\ reason # "none" => status = reason
          /\ status = "rejected" => reason = "rejected"
    BY DEF ApproveDriver, SetDriverStatus
  <1> DEFINE profile == [driver[u] EXCEPT !.status = status, !.reason = reason]
  <1>5. /\ profile \in Profiles
        /\ profile.details = driver[u].details
        /\ profile.status = status /\ profile.reason = reason
    BY <1>2 DEF Profiles, Statuses
  <1>6. driver' = [driver EXCEPT ![u] = profile]
    BY <1>1, <1>4 DEF OnboardingInv, TypeOK
  <1>7. Finish(h) /\ UNCHANGED <<files, submit, page, acked>>
    BY DEF ApproveDriver, SetDriverStatus
  <1>8. ClientTyped' /\ acked' \in [Users -> SUBSET Images]
    BY <1>7 DEF OnboardingInv, TypeOK, ClientTyped
  <1>9. /\ profile.status # "none" /\ profile.details # None
        /\ \A v \in Users \ {u} : driver[v].details # profile.details
        /\ profile.reason # "none" => profile.status = profile.reason
        /\ profile.status = "rejected" => profile.reason = "rejected"
    BY <1>2, <1>3, <1>4, <1>5
  <1> HIDE DEF u, profile
  <1> QED
    BY <1>1, <1>5, <1>6, <1>7, <1>8, <1>9, WriteKeeps

\* Every step keeps the invariant.
LEMMA NextKeepsOnboarding == OnboardingInv /\ [Next]_vars => OnboardingInv'
  <1> SUFFICES ASSUME OnboardingInv, [Next]_vars
               PROVE  OnboardingInv'
    OBVIOUS
  <1>1. ASSUME NEW u \in Users, Client(u) PROVE OnboardingInv'
    BY <1>1, PageKeeps, CallKeeps DEF Client
  <1>2. ASSUME NEW h \in Handlers, Server(h) PROVE OnboardingInv'
    BY <1>2, ReadKeeps, RegisterKeeps, DocumentsKeep, DecisionKeeps DEF Server
  <1>3. ASSUME NEW h \in Handlers, NEW u \in Users, NEW op \in Decisions, Decide(h, u, op)
        PROVE  OnboardingInv'
    BY <1>3, CallKeeps
  <1>4. ASSUME NEW i \in Images, RecycleImage(i) PROVE OnboardingInv'
    BY <1>4 DEF RecycleImage, OnboardingInv, TypeOK, ReasonsCurrent, CallsValid
  <1>5. CASE UNCHANGED vars
    BY <1>5 DEF vars, OnboardingInv, TypeOK, ReasonsCurrent, CallsValid
  <1>6. ASSUME NEW s \in Submits, Disconnect(s) PROVE OnboardingInv'
    BY <1>6, PageKeeps
  <1> QED
    BY <1>1, <1>2, <1>3, <1>4, <1>5, <1>6 DEF Next

\* The reason shown to a driver is that of the decision in force, and whoever is
\* rejected is shown one, for any number of drivers and overlapping requests.
THEOREM ReasonsCurrentHolds == Spec => []ReasonsCurrent
  <1>1. OnboardingInv => ReasonsCurrent
    BY DEF OnboardingInv
  <1> QED
    BY <1>1, InitOnboarding, NextKeepsOnboarding, PTL DEF Spec

\* Profiles, requests and pages keep their shape, profiles come from registrations
\* only, and identifiers stay unique.
THEOREM OnboardingTypes == Spec => []TypeOK
  <1>1. OnboardingInv => TypeOK
    BY DEF OnboardingInv
  <1> QED
    BY <1>1, InitOnboarding, NextKeepsOnboarding, PTL DEF Spec

-----------------------------------------------------------------------------
(* Requests about one driver that do not overlap *)

\* No two requests about the same driver are in flight; those about different
\* drivers overlap as they like.
RequestsApart ==
    \A g, h \in Handlers :
        proc[g].pc # "idle" /\ proc[h].pc # "idle" /\ proc[g].user = proc[h].user => g = h

Checked == {"register", "documents", "approve"}

\* What a handler read and checked is still the profile when it writes.
SeenCurrent ==
    \A h \in Handlers :
        proc[h].pc = "write" /\ proc[h].op \in Checked =>
            /\ proc[h].seen = driver[proc[h].user]
            /\ MayProceed(proc[h].op, proc[h].seen)

ApartInv == SeenCurrent /\ ApprovedWithDocuments /\ UploadsKept

\* A handler writes the profile of its user, and no other handler looked at that one.
LEMMA OwnWriteSeen ==
    ASSUME OnboardingInv, SeenCurrent, RequestsApart, NEW h \in Handlers,
           proc[h].pc = "write", Finish(h), NEW profile,
           driver' = [driver EXCEPT ![proc[h].user] = profile]
    PROVE  SeenCurrent'
  <1> SUFFICES ASSUME NEW g \in Handlers, proc'[g].pc = "write", proc'[g].op \in Checked
               PROVE  /\ proc'[g].seen = driver'[proc'[g].user]
                      /\ MayProceed(proc'[g].op, proc'[g].seen)
    BY DEF SeenCurrent
  <1>1. g # h /\ proc'[g] = proc[g]
    BY DEF Finish, Idle, OnboardingInv, TypeOK
  <1>2. proc[g].user \in Users /\ proc[g].user # proc[h].user
    BY <1>1 DEF RequestsApart, OnboardingInv, CallsValid
  <1>3. driver'[proc[g].user] = driver[proc[g].user]
    BY <1>2 DEF OnboardingInv, TypeOK
  <1> QED
    BY <1>1, <1>3 DEF SeenCurrent

\* A refused request, or one that only starts, concerns no profile.
LEMMA SameDriversApart ==
    ASSUME OnboardingInv, ApartInv, UNCHANGED <<driver, acked>>,
           \A h \in Handlers : proc'[h].pc = "write" /\ proc'[h].op \in Checked =>
               \/ proc'[h] = proc[h]
               \/ /\ proc'[h].seen = driver[proc'[h].user]
                  /\ MayProceed(proc'[h].op, proc'[h].seen)
    PROVE  ApartInv'
  BY DEF ApartInv, SeenCurrent, ApprovedWithDocuments, UploadsKept

\* Requests that start have read nothing yet, and a decision that starts at its
\* write reads nothing.
LEMMA ClientApart ==
    ASSUME OnboardingInv, ApartInv, NEW u \in Users, Client(u)
    PROVE  ApartInv'
  <1>1. UNCHANGED <<driver, acked>>
    BY DEF Client, OpenPage, OpenForm, Close, Submit, Upload, UploadElsewhere
  <1>2. ASSUME NEW h \in Handlers, proc'[h] # proc[h]
        PROVE  proc'[h].pc = "read"
    <2>1. CASE OpenPage(u) \/ OpenForm(u) \/ Close(u)
      BY <1>2, <2>1 DEF OpenPage, OpenForm, Close
    <2>2. ASSUME NEW g \in Handlers, NEW s \in Submits, Submit(g, s, u)
          PROVE  proc'[h].pc = "read"
      BY <1>2, <2>2 DEF Submit, Request, Idle, OnboardingInv, TypeOK
    <2>3. ASSUME NEW g \in Handlers,
                 (\E s \in Submits : Upload(g, s, u)) \/ UploadElsewhere(g, u)
          PROVE  proc'[h].pc = "read"
      BY <1>2, <2>3 DEF Upload, UploadElsewhere, Request, UploadCall, Idle, OnboardingInv, TypeOK
    <2> QED
      BY <2>1, <2>2, <2>3 DEF Client
  <1> QED
    BY <1>1, <1>2, SameDriversApart

\* A decision that starts.
LEMMA DecideApart ==
    ASSUME OnboardingInv, ApartInv, NEW h \in Handlers, NEW u \in Users, NEW op \in Decisions,
           Decide(h, u, op)
    PROVE  ApartInv'
  <1>1. \A g \in Handlers : proc'[g].pc = "write" /\ proc'[g].op \in Checked => proc'[g] = proc[g]
    BY DEF Decide, Idle, Checked, Decisions, OnboardingInv, TypeOK
  <1> QED
    BY <1>1, SameDriversApart DEF Decide

\* A refused request writes nothing.
LEMMA RefuseApart ==
    ASSUME OnboardingInv, ApartInv, NEW h \in Handlers, Refuse(h)
    PROVE  ApartInv'
  <1>1. \A g \in Handlers : proc'[g].pc = "write" => proc'[g] = proc[g]
    BY DEF Refuse, Finish, Idle, OnboardingInv, TypeOK
  <1> QED
    BY <1>1, SameDriversApart DEF Refuse

\* The read and check of a handler is what its write relies on.
LEMMA ReadApart ==
    ASSUME OnboardingInv, ApartInv, NEW h \in Handlers, ReadProfile(h)
    PROVE  ApartInv'
  <1>1. CASE MayProceed(proc[h].op, driver[proc[h].user])
    <2>1. /\ proc' = [proc EXCEPT ![h].pc = "write", ![h].seen = driver[proc[h].user]]
          /\ UNCHANGED <<driver, acked>>
      BY <1>1 DEF ReadProfile
    <2>2. /\ \A g \in Handlers \ {h} : proc'[g] = proc[g]
          /\ proc'[h].seen = driver[proc[h].user]
          /\ proc'[h].user = proc[h].user /\ proc'[h].op = proc[h].op
      BY <2>1 DEF OnboardingInv, TypeOK, Processes
    <2> QED
      BY <1>1, <2>1, <2>2, SameDriversApart
  <1>2. CASE ~MayProceed(proc[h].op, driver[proc[h].user])
    BY <1>2, RefuseApart DEF ReadProfile
  <1> QED
    BY <1>1, <1>2

\* A registration starts without documents, but is pending.
LEMMA RegisterApart ==
    ASSUME OnboardingInv, ApartInv, RequestsApart, NEW h \in Handlers, RegisterDriver(h)
    PROVE  ApartInv'
  <1> DEFINE u == proc[h].user
             profile == [status |-> "pending", details |-> proc[h].details,
                         docs |-> {}, reason |-> "none"]
  <1>1. proc[h].pc = "write" /\ u \in Users
    BY DEF RegisterDriver, Writes, OnboardingInv, CallsValid
  <1>2. CASE Refuse(h)
    BY <1>2, RefuseApart
  <1>3. CASE ~Refuse(h)
    <2>1. /\ driver' = [driver EXCEPT ![u] = profile]
          /\ acked' = [acked EXCEPT ![u] = {}]
          /\ Finish(h)
      BY <1>3 DEF RegisterDriver
    <2>2. SeenCurrent'
      BY <1>1, <2>1, OwnWriteSeen DEF ApartInv
    <2>3. ApprovedWithDocuments' /\ UploadsKept'
      BY <1>1, <2>1 DEF ApartInv, ApprovedWithDocuments, UploadsKept, OnboardingInv, TypeOK
    <2> QED
      BY <2>2, <2>3 DEF ApartInv
  <1> QED
    BY <1>2, <1>3

\* An upload adds to the documents the profile has, and not to an approved profile.
LEMMA DocumentsApart ==
    ASSUME OnboardingInv, ApartInv, RequestsApart, NEW h \in Handlers, AddDocuments(h)
    PROVE  /\ ApartInv'
           /\ driver[proc[h].user].status # "approved"
           /\ \A u \in Users : driver[u].docs \subseteq driver'[u].docs
           /\ proc[h].docs \subseteq driver'[proc[h].user].docs
  <1> DEFINE u == proc[h].user
             seen == proc[h].seen
             profile == Reopened([driver[u] EXCEPT !.docs = NextDocs(seen, proc[h].docs)], seen)
  <1>1. /\ proc[h].pc = "write" /\ proc[h].op = "documents" /\ u \in Users
        /\ driver[u] \in Profiles
    BY DEF AddDocuments, Writes, OnboardingInv, CallsValid, TypeOK
  <1>2. seen = driver[u] /\ driver[u].status # "approved"
    BY <1>1 DEF ApartInv, SeenCurrent, Checked, MayProceed, MayChange
  <1>3. /\ driver' = [driver EXCEPT ![u] = profile]
        /\ acked' = [acked EXCEPT ![u] = @ \cup proc[h].docs]
        /\ Finish(h)
    BY <1>1 DEF AddDocuments, OnboardingInv, TypeOK
  <1>4. /\ profile.docs = driver[u].docs \cup proc[h].docs
        /\ profile.status # "approved"
    BY <1>1, <1>2 DEF Reopened, NextDocs, Profiles
  <1>5. SeenCurrent'
    BY <1>1, <1>3, OwnWriteSeen DEF ApartInv
  <1>6. driver'[u] = profile /\ \A v \in Users \ {u} : driver'[v] = driver[v]
    BY <1>1, <1>3 DEF OnboardingInv, TypeOK
  <1>7. acked'[u] = acked[u] \cup proc[h].docs /\ \A v \in Users \ {u} : acked'[v] = acked[v]
    BY <1>1, <1>3 DEF OnboardingInv, TypeOK
  <1> HIDE DEF u, profile
  <1>8. ApprovedWithDocuments' /\ UploadsKept'
    BY <1>4, <1>6, <1>7 DEF ApartInv, ApprovedWithDocuments, UploadsKept
  <1> QED
    BY <1>2, <1>4, <1>5, <1>6, <1>8 DEF ApartInv, u

\* What a step does that changes profiles by a decision only.
OnlyDecided ==
    \A u \in Users :
        /\ driver'[u].docs = driver[u].docs
        /\ driver'[u].details = driver[u].details
        /\ driver[u].status = "none" => driver'[u] = driver[u]
        /\ \/ driver'[u] = driver[u]
           \/ driver'[u].status \in {"rejected", "suspended"}
           \/ driver'[u].status = "approved" /\ driver'[u].reason = "none"

\* A decision leaves the documents alone, and an approval follows a count of them.
LEMMA DecisionApart ==
    ASSUME OnboardingInv, ApartInv, RequestsApart, NEW h \in Handlers,
           \/ ApproveDriver(h)
           \/ SetDriverStatus(h, "reject", "rejected")
           \/ SetDriverStatus(h, "suspend", "suspended")
    PROVE  ApartInv' /\ OnlyDecided
  <1> DEFINE u == proc[h].user
  <1>1. proc[h].pc = "write" /\ u \in Users /\ driver[u] \in Profiles /\ driver[u].status # "none"
    BY DEF ApproveDriver, SetDriverStatus, Writes, OnboardingInv, CallsValid, TypeOK, Decisions
  <1>2. PICK status \in {"approved", "rejected", "suspended"},
             reason \in {"none", "rejected", "suspended"} :
          /\ driver' = [driver EXCEPT ![u].status = status, ![u].reason = reason]
          /\ status = "approved" => ApproveDriver(h) /\ reason = "none"
    BY DEF ApproveDriver, SetDriverStatus
  <1> DEFINE profile == [driver[u] EXCEPT !.status = status, !.reason = reason]
  <1>3. driver' = [driver EXCEPT ![u] = profile]
    BY <1>1, <1>2 DEF OnboardingInv, TypeOK
  <1>4. /\ profile.status = status /\ profile.reason = reason
        /\ profile.docs = driver[u].docs /\ profile.details = driver[u].details
    BY <1>1 DEF Profiles
  <1>5. Finish(h) /\ acked' = acked
    BY DEF ApproveDriver, SetDriverStatus
  <1>6. SeenCurrent'
    BY <1>1, <1>3, <1>5, OwnWriteSeen DEF ApartInv
  <1>7. status = "approved" => Cardinality(driver[u].docs) >= 2
    BY <1>2 DEF ApproveDriver, Writes, ApartInv, SeenCurrent, Checked, MayProceed, Enough
  <1>8. driver'[u] = profile /\ \A v \in Users \ {u} : driver'[v] = driver[v]
    BY <1>1, <1>3 DEF OnboardingInv, TypeOK
  <1> HIDE DEF u, profile
  <1>9. ApprovedWithDocuments' /\ UploadsKept'
    BY <1>4, <1>5, <1>7, <1>8 DEF ApartInv, ApprovedWithDocuments, UploadsKept
  <1> QED
    BY <1>1, <1>2, <1>4, <1>6, <1>8, <1>9 DEF ApartInv, OnlyDecided

\* A profile that is approved stays as it is or loses the approval by a decision.
ApprovalKept ==
    \A u \in Users :
        driver[u].status = "approved" =>
           \/ driver'[u] = driver[u]
           \/ /\ driver'[u].status \in {"rejected", "suspended"}
              /\ driver'[u].details = driver[u].details
              /\ driver'[u].docs = driver[u].docs

\* A registration is refused for an approved profile.
LEMMA RegisterApproval ==
    ASSUME OnboardingInv, ApartInv, NEW h \in Handlers, RegisterDriver(h)
    PROVE  ApprovalKept
  <1>1. /\ proc[h].user \in Users
        /\ driver[proc[h].user].status # "approved"
    BY DEF RegisterDriver, Writes, OnboardingInv, CallsValid, ApartInv, SeenCurrent, Checked,
           MayProceed, MayChange
  <1>2. \A v \in Users \ {proc[h].user} : driver'[v] = driver[v]
    BY DEF RegisterDriver, Refuse, OnboardingInv, TypeOK
  <1> QED
    BY <1>1, <1>2 DEF ApprovalKept

\* Every step with no two requests about one driver keeps the invariant, and an
\* approved profile.
LEMMA NextKeepsApart ==
    OnboardingInv /\ ApartInv /\ RequestsApart /\ OnboardingInv' /\ [Next]_vars =>
        ApartInv' /\ ApprovalKept
  <1> SUFFICES ASSUME OnboardingInv, ApartInv, RequestsApart, OnboardingInv', [Next]_vars
               PROVE  ApartInv' /\ ApprovalKept
    OBVIOUS
  <1> DEFINE Kept == driver' = driver
  <1>1. Kept => ApprovalKept
    BY DEF ApprovalKept
  <1>2. ASSUME NEW u \in Users, Client(u) PROVE ApartInv' /\ Kept
    BY <1>2, ClientApart DEF Client, OpenPage, OpenForm, Close, Submit, Upload, UploadElsewhere
  <1>3. ASSUME NEW h \in Handlers, NEW u \in Users, NEW op \in Decisions, Decide(h, u, op)
        PROVE  ApartInv' /\ Kept
    BY <1>3, DecideApart DEF Decide
  <1>4. ASSUME NEW h \in Handlers, Server(h) PROVE ApartInv' /\ ApprovalKept
    <2>1. CASE ReadProfile(h)
      <3>1. Kept
        BY <2>1 DEF ReadProfile, Refuse
      <3> QED
        BY <1>1, <2>1, <3>1, ReadApart
    <2>2. CASE RegisterDriver(h)
      BY <2>2, RegisterApart, RegisterApproval
    <2>3. CASE AddDocuments(h)
      <3>1. \A v \in Users \ {proc[h].user} : driver'[v] = driver[v]
        BY <2>3 DEF AddDocuments, OnboardingInv, TypeOK
      <3> QED
        BY <2>3, <3>1, DocumentsApart DEF ApprovalKept
    <2>4. CASE \/ ApproveDriver(h)
               \/ SetDriverStatus(h, "reject", "rejected")
               \/ SetDriverStatus(h, "suspend", "suspended")
      <3>0. ApartInv' /\ OnlyDecided
        BY <2>4, DecisionApart
      <3>1. ASSUME NEW u \in Users, driver[u].status = "approved",
                   driver'[u].status = "approved", driver'[u].reason = "none"
            PROVE  driver'[u] = driver[u]
        <4>1. /\ driver[u] \in Profiles /\ driver'[u] \in Profiles
              /\ driver[u].reason = "none"
          BY <3>1 DEF OnboardingInv, TypeOK, ReasonsCurrent, Profiles
        <4>2. driver'[u].docs = driver[u].docs /\ driver'[u].details = driver[u].details
          BY <3>0 DEF OnlyDecided
        <4> QED
          BY <3>1, <4>1, <4>2 DEF Profiles
      <3> QED
        BY <3>0, <3>1 DEF OnlyDecided, ApprovalKept
    <2> QED
      BY <1>4, <2>1, <2>2, <2>3, <2>4 DEF Server
  <1>5. ASSUME NEW i \in Images, RecycleImage(i) PROVE ApartInv' /\ Kept
    BY <1>5, SameDriversApart DEF RecycleImage
  <1>6. CASE UNCHANGED vars
    BY <1>6, SameDriversApart, <1>1 DEF vars
  <1>7. ASSUME NEW s \in Submits, Disconnect(s) PROVE ApartInv' /\ Kept
    BY <1>7, SameDriversApart DEF Disconnect
  <1> QED
    BY <1>1, <1>2, <1>3, <1>4, <1>5, <1>6, <1>7 DEF Next

\* A server that handles one request at a time never lets two overlap.
LEMMA OneHandlerApart == (\A g, h \in Handlers : g = h) => RequestsApart
  BY DEF RequestsApart

\* Nobody is approved or has uploaded anything at first.
LEMMA InitApart == Init => ApartInv
  BY DEF Init, ApartInv, SeenCurrent, ApprovedWithDocuments, UploadsKept, Idle, NoProfile

\* The invariant of behaviours in which requests about one driver do not overlap.
LEMMA ApartInvariant == Spec /\ []RequestsApart => [](OnboardingInv /\ ApartInv)
  <1>1. Init => OnboardingInv /\ ApartInv
    BY InitOnboarding, InitApart
  <1>2. /\ OnboardingInv /\ ApartInv /\ RequestsApart /\ RequestsApart' /\ [Next]_vars
        => (OnboardingInv /\ ApartInv)'
    BY NextKeepsOnboarding, NextKeepsApart
  <1> QED
    BY <1>1, <1>2, PTL DEF Spec

\* Whoever is approved has two documents on file, for any number of drivers,
\* admins and overlapping requests, unless two requests about one driver overlap.
THEOREM ApprovedWithDocumentsApart == Spec /\ []RequestsApart => []ApprovedWithDocuments
  <1>1. ApartInv => ApprovedWithDocuments
    BY DEF ApartInv
  <1> QED
    BY <1>1, ApartInvariant, PTL

\* Images whose upload was confirmed stay on the profile until the driver
\* registers again, unless two requests about one driver overlap.
THEOREM UploadsKeptApart == Spec /\ []RequestsApart => []UploadsKept
  <1>1. ApartInv => UploadsKept
    BY DEF ApartInv
  <1> QED
    BY <1>1, ApartInvariant, PTL

\* An approved profile stays as it is until an admin suspends or rejects it,
\* unless two requests about one driver overlap.
THEOREM ApprovedFixedApart == Spec /\ []RequestsApart => ApprovedFixed
  <1>1. OnboardingInv /\ ApartInv /\ RequestsApart /\ [Next]_vars => [ApprovalKept]_vars
    BY NextKeepsOnboarding, NextKeepsApart
  <1>2. ApprovedFixed <=> [][ApprovalKept]_vars
    BY PTL DEF ApprovedFixed, ApprovalKept
  <1> QED
    BY <1>1, <1>2, ApartInvariant, PTL DEF Spec

-----------------------------------------------------------------------------
(* Submits, and the driver whose connection holds *)

Asks(call, u, op) == call.pc # "idle" /\ call.op = op /\ call.user = u

\* A submit that waits does so for a request of its own, and for no other submit's.
RunsWait ==
    \A s \in Submits :
        /\ submit[s].at = "none" => submit[s].user = None
        /\ submit[s].at # "none" => submit[s].user \in Users
        /\ submit[s].at \in {"none", "registered"} => submit[s].request = None
        /\ submit[s].at = "registering" =>
              /\ submit[s].request \in Handlers
              /\ Asks(proc[submit[s].request], submit[s].user, "register")
        /\ submit[s].at = "uploading" =>
              /\ submit[s].request \in Handlers
              /\ Asks(proc[submit[s].request], submit[s].user, "documents")
              /\ Cardinality(proc[submit[s].request].docs) = 2
        /\ \A r \in Submits : submit[r].request = submit[s].request /\ r # s =>
              submit[s].request = None

\* While the connection of a driver holds, every registration is a submit's.
Awaited ==
    \A h \in Handlers, u \in Users \ Unsteady :
        Asks(proc[h], u, "register") =>
            \E s \in Submits : submit[s].at = "registering" /\ submit[s].request = h

\* A submit of u that has registered and not yet uploaded.
Sending(s, u) == submit[s].user = u /\ submit[s].at \in {"registered", "uploading"}

\* A profile without its documents is about to get them from a submit.
Documented ==
    \A u \in Users \ Unsteady :
        \/ driver[u].status = "none"
        \/ Cardinality(driver[u].docs) >= 2
        \/ \E s \in Submits : Sending(s, u)

WaitInv == RunsWait /\ Awaited /\ Documented

\* What an answer does to the submits.
LEMMA AnswerRuns ==
    ASSUME OnboardingInv, RunsWait, NEW h \in Handlers, NEW ok \in BOOLEAN, NEW status,
           Answer(h, ok, status), NEW s \in Submits
    PROVE  IF submit[s].request # h THEN submit'[s] = submit[s]
           ELSE IF ok /\ submit[s].at \notin LastCalls
           THEN /\ submit'[s].at = "registered" /\ submit'[s].request = None
                /\ submit'[s].user = submit[s].user
           ELSE submit'[s] = NoRun
  <1>1. submit \in [Submits -> Runs] /\ h # None
    BY NoneAssumption DEF OnboardingInv, TypeOK
  <1>2. CASE \A r \in Submits : submit[r].request # h
    BY <1>2 DEF Answer
  <1>3. ASSUME NEW r \in Submits, submit[r].request = h,
               \/ ~ok /\ Fails(r)
               \/ ok /\ submit[r].at \in LastCalls /\ Leaves(r, status)
        PROVE  IF submit[s].request # h THEN submit'[s] = submit[s]
               ELSE ~(ok /\ submit[s].at \notin LastCalls) /\ submit'[s] = NoRun
    <2>1. submit' = [submit EXCEPT ![r] = NoRun]
      BY <1>3 DEF Fails, Leaves
    <2>2. submit[s].request = h => s = r
      BY <1>1, <1>3 DEF RunsWait
    <2> QED
      BY <1>1, <1>3, <2>1, <2>2
  <1>4. ASSUME NEW r \in Submits, submit[r].request = h, ok, submit[r].at \notin LastCalls,
               submit' = [submit EXCEPT ![r].at = "registered", ![r].request = None]
        PROVE  IF submit[s].request # h THEN submit'[s] = submit[s]
               ELSE /\ submit'[s].at = "registered" /\ submit'[s].request = None
                    /\ submit'[s].user = submit[s].user /\ submit[s].at \notin LastCalls
    <2>1. submit[s].request = h => s = r
      BY <1>1, <1>4 DEF RunsWait
    <2> QED
      BY <1>1, <1>4, <2>1 DEF Runs
  <1> QED
    BY <1>2, <1>3, <1>4 DEF Answer

\* A submit and the request it waits for belong together until the answer.
LEMMA AnswerWaits ==
    ASSUME OnboardingInv, RunsWait, Awaited, NEW h \in Handlers, NEW ok \in BOOLEAN, NEW status,
           Finish(h), Answer(h, ok, status)
    PROVE  RunsWait' /\ Awaited'
  <1>1. proc'[h].pc = "idle" /\ \A g \in Handlers \ {h} : proc'[g] = proc[g]
    BY DEF Finish, Idle, OnboardingInv, TypeOK
  <1>2. ASSUME NEW s \in Submits
        PROVE  \/ submit[s].request # h /\ submit'[s] = submit[s]
               \/ submit'[s].at = "none" /\ submit'[s].user = None /\ submit'[s].request = None
               \/ /\ submit'[s].at = "registered" /\ submit'[s].request = None
                  /\ submit'[s].user = submit[s].user /\ submit[s].request = h
    BY AnswerRuns DEF NoRun
  <1>3. \A s \in Submits : submit[s].request = h => submit[s].user \in Users
    BY NoneAssumption DEF RunsWait
  <1>4. RunsWait'
    BY <1>1, <1>2, <1>3 DEF RunsWait, Asks
  <1>5. ASSUME NEW g \in Handlers, NEW u \in Users \ Unsteady, Asks(proc'[g], u, "register")
        PROVE  \E s \in Submits : submit'[s].at = "registering" /\ submit'[s].request = g
    <2>1. g # h /\ Asks(proc[g], u, "register")
      BY <1>1, <1>5 DEF Asks
    <2>2. PICK s \in Submits : submit[s].at = "registering" /\ submit[s].request = g
      BY <2>1 DEF Awaited
    <2> QED
      BY <2>1, <2>2, AnswerRuns
  <1> QED
    BY <1>4, <1>5 DEF Awaited

\* Requests that are no submit's, and steps that leave what a submit waits for alone.
LEMMA OtherRequestWaits ==
    ASSUME OnboardingInv, RunsWait, Awaited, submit' = submit,
           \A g \in Handlers :
               \/ proc'[g] = proc[g]
               \/ /\ proc[g].pc = "read" /\ proc'[g].pc = "write" /\ proc'[g].op = proc[g].op
                  /\ proc'[g].user = proc[g].user /\ proc'[g].docs = proc[g].docs
               \/ /\ proc[g].pc = "idle" \/ proc[g].op \in Decisions
                  /\ proc'[g].pc = "idle" \/ proc'[g].op \in Decisions \cup {"documents"}
    PROVE  RunsWait' /\ Awaited'
  <1>1. \A g \in Handlers, u \in Users :
           /\ Asks(proc[g], u, "register") => Asks(proc'[g], u, "register")
           /\ Asks(proc[g], u, "documents") =>
                 Asks(proc'[g], u, "documents") /\ proc'[g].docs = proc[g].docs
           /\ Asks(proc'[g], u, "register") => Asks(proc[g], u, "register")
    BY DEF Asks, Decisions
  <1>2. RunsWait'
    BY <1>1 DEF RunsWait
  <1>3. Awaited'
    BY <1>1 DEF Awaited
  <1> QED
    BY <1>2, <1>3

\* Submits that end because the connection drops or the app is closed.
LEMMA EndedWait ==
    ASSUME OnboardingInv, WaitInv, UNCHANGED <<driver, proc>>,
           \A s \in Submits : \/ submit'[s] = submit[s]
                              \/ submit[s].user \in Unsteady /\ submit'[s] = NoRun
    PROVE  WaitInv'
  <1>1. RunsWait'
    BY DEF WaitInv, RunsWait, NoRun
  <1>2. \A s \in Submits, u \in Users \ Unsteady : submit[s].user = u => submit'[s] = submit[s]
    OBVIOUS
  <1>3. Awaited'
    BY <1>2 DEF WaitInv, Awaited, RunsWait, Asks
  <1>4. Documented'
    BY <1>2 DEF WaitInv, Documented, Sending
  <1> QED
    BY <1>1, <1>3, <1>4 DEF WaitInv

\* A submit that starts a request.
LEMMA RequestWaits ==
    ASSUME OnboardingInv, RunsWait, Awaited, NEW h \in Handlers, NEW s \in Submits, NEW u \in Users,
           NEW call, Request(h, s, u, submit'[s].at, call),
           call.pc # "idle", call.user = u,
           \/ /\ submit[s].at = "none" /\ submit'[s].at = "registering" /\ call.op = "register"
           \/ /\ submit[s].at = "registered" /\ submit'[s].at = "uploading"
              /\ call.op = "documents" /\ Cardinality(call.docs) = 2
    PROVE  RunsWait' /\ Awaited'
  <1>1. /\ proc[h].pc = "idle" /\ proc'[h] = call
        /\ \A g \in Handlers \ {h} : proc'[g] = proc[g]
        /\ submit'[s].user = u /\ submit'[s].request = h
        /\ \A r \in Submits \ {s} : submit'[r] = submit[r]
    BY DEF Request, OnboardingInv, TypeOK
  <1>2. h # None /\ None \notin Users
    BY NoneAssumption
  <1>3. \A r \in Submits : submit[r].request # h
    BY <1>1, <1>2 DEF RunsWait, Asks, OnboardingInv, TypeOK, Runs
  <1>4. RunsWait'
    BY <1>1, <1>2, <1>3 DEF RunsWait, Asks
  <1>5. ASSUME NEW g \in Handlers, NEW v \in Users \ Unsteady, Asks(proc'[g], v, "register")
        PROVE  \E r \in Submits : submit'[r].at = "registering" /\ submit'[r].request = g
    <2>1. CASE g = h
      BY <1>1, <1>5, <2>1 DEF Asks
    <2>2. CASE g # h
      <3>1. PICK r \in Submits : submit[r].at = "registering" /\ submit[r].request = g
        BY <1>1, <1>5, <2>2 DEF Awaited
      <3> QED
        BY <1>1, <3>1
    <2> QED
      BY <2>1, <2>2
  <1> QED
    BY <1>4, <1>5 DEF Awaited

\* What the client of a driver does.
LEMMA ClientWaits ==
    ASSUME OnboardingInv, WaitInv, NEW v \in Users, Client(v)
    PROVE  WaitInv'
  <1>1. driver' = driver
    BY DEF Client, OpenPage, OpenForm, Close, Submit, Upload, UploadElsewhere
  <1>2. CASE OpenPage(v) \/ OpenForm(v) \/ Close(v)
    <2>1. \A s \in Submits : \/ submit'[s] = submit[s]
                             \/ submit[s].user \in Unsteady /\ submit'[s] = NoRun
      BY <1>2 DEF OpenPage, OpenForm, Close
    <2> QED
      BY <1>1, <1>2, <2>1, EndedWait DEF OpenPage, OpenForm, Close
  <1>3. ASSUME NEW h \in Handlers, NEW s \in Submits, Submit(h, s, v) PROVE WaitInv'
    <2>1. PICK d \in Details :
             Request(h, s, v, "registering",
                     [Idle EXCEPT !.pc = "read", !.op = "register", !.user = v, !.details = d])
      BY <1>3 DEF Submit
    <2> DEFINE call == [Idle EXCEPT !.pc = "read", !.op = "register", !.user = v, !.details = d]
    <2>2. call.pc # "idle" /\ call.user = v /\ call.op = "register"
      BY DEF Idle
    <2>3. /\ submit[s].at = "none" /\ submit'[s].at = "registering"
          /\ \A r \in Submits \ {s} : submit'[r] = submit[r]
      BY <1>3, <2>1 DEF Submit, Request, OnboardingInv, TypeOK
    <2>4. Request(h, s, v, submit'[s].at, call)
      BY <2>1, <2>3
    <2> HIDE DEF call
    <2>5. RunsWait' /\ Awaited'
      BY <2>2, <2>3, <2>4, RequestWaits DEF WaitInv
    <2>6. Documented'
      BY <1>1, <2>3 DEF WaitInv, Documented, Sending
    <2> QED
      BY <2>5, <2>6 DEF WaitInv
  <1>4. ASSUME NEW h \in Handlers, NEW s \in Submits, Upload(h, s, v) PROVE WaitInv'
    <2>1. PICK docs \in SUBSET (Images \ files) :
             Cardinality(docs) = 2 /\ Request(h, s, v, "uploading", UploadCall(v, docs))
      BY <1>4 DEF Upload
    <2> DEFINE call == UploadCall(v, docs)
    <2>2. /\ call.pc # "idle" /\ call.user = v /\ call.op = "documents"
          /\ Cardinality(call.docs) = 2
      BY <2>1 DEF UploadCall, Idle
    <2>3. /\ submit[s].at = "registered" /\ submit[s].user = v
          /\ submit'[s].at = "uploading" /\ submit'[s].user = v
          /\ \A r \in Submits \ {s} : submit'[r] = submit[r]
      BY <1>4, <2>1 DEF Upload, Request, OnboardingInv, TypeOK
    <2>4. Request(h, s, v, submit'[s].at, call)
      BY <2>1, <2>3
    <2> HIDE DEF call
    <2>5. RunsWait' /\ Awaited'
      BY <2>2, <2>3, <2>4, RequestWaits DEF WaitInv
    <2>6. Documented'
      BY <1>1, <2>3 DEF WaitInv, Documented, Sending
    <2> QED
      BY <2>5, <2>6 DEF WaitInv
  <1>5. ASSUME NEW h \in Handlers, UploadElsewhere(h, v) PROVE WaitInv'
    <2>1. /\ proc[h].pc = "idle" /\ proc'[h].op = "documents" /\ submit' = submit
          /\ \A g \in Handlers \ {h} : proc'[g] = proc[g]
      BY <1>5 DEF UploadElsewhere, UploadCall, Idle, OnboardingInv, TypeOK
    <2>2. RunsWait' /\ Awaited'
      BY <2>1, OtherRequestWaits DEF WaitInv
    <2>3. Documented'
      BY <1>1, <2>1 DEF WaitInv, Documented, Sending
    <2> QED
      BY <2>2, <2>3 DEF WaitInv
  <1> QED
    BY <1>2, <1>3, <1>4, <1>5 DEF Client

\* A refused request ends its submit; an upload is refused only without a profile
\* or with an approved one, which has its documents.
LEMMA RefuseWaits ==
    ASSUME OnboardingInv, ApartInv, WaitInv, NEW h \in Handlers, Refuse(h),
           proc[h].op = "documents" => /\ proc[h].user \in Users
                                       /\ driver[proc[h].user].status \in {"none", "approved"}
    PROVE  WaitInv'
  <1>1. Finish(h) /\ Answer(h, FALSE, driver[proc[h].user].status) /\ driver' = driver
    BY DEF Refuse
  <1>2. RunsWait' /\ Awaited'
    BY <1>1, AnswerWaits DEF WaitInv
  <1>3. ASSUME NEW u \in Users \ Unsteady, driver[u].status # "none",
               ~(Cardinality(driver[u].docs) >= 2)
        PROVE  \E s \in Submits : Sending(s, u)'
    <2>1. PICK s \in Submits : Sending(s, u)
      BY <1>3 DEF WaitInv, Documented
    <2>2. submit[s].request # h
      <3>1. ASSUME submit[s].request = h PROVE FALSE
        <4>1. proc[h].op = "documents" /\ proc[h].user = u
          BY <2>1, <3>1, NoneAssumption DEF Sending, WaitInv, RunsWait, Asks
        <4>2. driver[u].status = "approved"
          BY <1>3, <4>1
        <4> QED
          BY <1>3, <4>2 DEF ApartInv, ApprovedWithDocuments
      <3> QED
        BY <3>1
    <2>3. submit'[s] = submit[s]
      BY <1>1, <2>2, AnswerRuns DEF WaitInv
    <2> QED
      BY <2>1, <2>3 DEF Sending
  <1>4. Documented'
    BY <1>1, <1>3 DEF Documented
  <1> QED
    BY <1>2, <1>4 DEF WaitInv

\* The check of a handler.
LEMMA ReadWaits ==
    ASSUME OnboardingInv, ApartInv, WaitInv, NEW h \in Handlers, ReadProfile(h)
    PROVE  WaitInv'
  <1>1. CASE MayProceed(proc[h].op, driver[proc[h].user])
    <2>1. /\ proc[h].pc = "read"
          /\ proc' = [proc EXCEPT ![h].pc = "write", ![h].seen = driver[proc[h].user]]
          /\ submit' = submit /\ driver' = driver
      BY <1>1 DEF ReadProfile
    <2>2. /\ \A g \in Handlers \ {h} : proc'[g] = proc[g]
          /\ proc'[h].pc = "write" /\ proc'[h].op = proc[h].op
          /\ proc'[h].user = proc[h].user /\ proc'[h].docs = proc[h].docs
      BY <2>1 DEF OnboardingInv, TypeOK, Processes
    <2>3. RunsWait' /\ Awaited'
      BY <2>1, <2>2, OtherRequestWaits DEF WaitInv
    <2>4. Documented'
      BY <2>1 DEF WaitInv, Documented, Sending
    <2> QED
      BY <2>3, <2>4 DEF WaitInv
  <1>2. CASE ~MayProceed(proc[h].op, driver[proc[h].user])
    <2>1. Refuse(h) /\ proc[h].pc = "read"
      BY <1>2 DEF ReadProfile
    <2>2. proc[h].op = "documents" => /\ proc[h].user \in Users
                                      /\ driver[proc[h].user].status \in {"none", "approved"}
      BY <1>2, <2>1 DEF MayProceed, HasProfile, MayChange, OnboardingInv, CallsValid
    <2> QED
      BY <2>1, <2>2, RefuseWaits
  <1> QED
    BY <1>1, <1>2

\* After a registration its submit is about to send the documents.
LEMMA RegisterWaits ==
    ASSUME OnboardingInv, ApartInv, WaitInv, NEW h \in Handlers, RegisterDriver(h)
    PROVE  WaitInv'
  <1>1. Asks(proc[h], proc[h].user, "register") /\ proc[h].op # "documents"
    BY DEF RegisterDriver, Writes, Asks
  <1>2. CASE Refuse(h)
    BY <1>1, <1>2, RefuseWaits
  <1>3. CASE ~Refuse(h)
    <2>1. /\ Finish(h) /\ Answer(h, TRUE, "pending")
          /\ \A v \in Users \ {proc[h].user} : driver'[v] = driver[v]
      BY <1>3 DEF RegisterDriver, OnboardingInv, TypeOK
    <2>2. RunsWait' /\ Awaited'
      BY <2>1, AnswerWaits DEF WaitInv
    <2>3. ASSUME NEW u \in Users \ Unsteady
          PROVE  \/ driver'[u].status = "none"
                 \/ Cardinality(driver'[u].docs) >= 2
                 \/ \E s \in Submits : Sending(s, u)'
      <3>1. CASE u = proc[h].user
        <4>1. PICK s \in Submits : submit[s].at = "registering" /\ submit[s].request = h
          BY <1>1, <3>1 DEF WaitInv, Awaited
        <4>2. submit[s].user = u
          BY <3>1, <4>1 DEF WaitInv, RunsWait, Asks
        <4>3. submit'[s].at = "registered" /\ submit'[s].user = u
          BY <2>1, <4>1, <4>2, AnswerRuns DEF WaitInv, LastCalls
        <4> QED
          BY <4>3 DEF Sending
      <3>2. CASE u # proc[h].user
        <4>1. driver'[u] = driver[u]
          BY <2>1, <3>2
        <4>2. ASSUME NEW s \in Submits, Sending(s, u) PROVE Sending(s, u)'
          <5>1. submit[s].request # h
            BY <1>1, <4>2, NoneAssumption DEF Sending, WaitInv, RunsWait, Asks
          <5>2. submit'[s] = submit[s]
            BY <2>1, <5>1, AnswerRuns DEF WaitInv
          <5> QED
            BY <4>2, <5>2 DEF Sending
        <4> QED
          BY <4>1, <4>2 DEF WaitInv, Documented
      <3> QED
        BY <3>1, <3>2
    <2>4. Documented'
      BY <2>3 DEF Documented
    <2> QED
      BY <2>2, <2>4 DEF WaitInv
  <1> QED
    BY <1>2, <1>3

\* A profile that has enough documents has them still.
LEMMA EnoughStays ==
    ASSUME OnboardingInv', NEW u \in Users, NEW docs \in SUBSET driver'[u].docs,
           Cardinality(docs) >= 2
    PROVE  Cardinality(driver'[u].docs) >= 2
  <1>1. driver'[u].docs \subseteq Images
    BY DEF OnboardingInv, TypeOK, Profiles
  <1>2. IsFiniteSet(driver'[u].docs)
    BY <1>1, ImageAssumption, FS_Subset
  <1>3. /\ Cardinality(docs) <= Cardinality(driver'[u].docs)
        /\ Cardinality(docs) \in Nat /\ Cardinality(driver'[u].docs) \in Nat
    BY <1>2, FS_Subset, FS_CardinalityType
  <1> QED
    BY <1>3

\* The upload of a submit has two images, and a profile never loses one to an upload.
LEMMA DocumentsWait ==
    ASSUME OnboardingInv, OnboardingInv', ApartInv, RequestsApart, WaitInv,
           NEW h \in Handlers, AddDocuments(h)
    PROVE  WaitInv'
  <1>1. /\ proc[h].op = "documents" /\ proc[h].pc = "write" /\ proc[h].user \in Users
        /\ driver[proc[h].user].status # "none"
        /\ Finish(h) /\ Answer(h, TRUE, driver'[proc[h].user].status)
        /\ \A v \in Users \ {proc[h].user} : driver'[v] = driver[v]
    BY DEF AddDocuments, Writes, OnboardingInv, CallsValid, TypeOK
  <1>2. RunsWait' /\ Awaited'
    BY <1>1, AnswerWaits DEF WaitInv
  <1>3. /\ \A u \in Users : driver[u].docs \subseteq driver'[u].docs
        /\ proc[h].docs \subseteq driver'[proc[h].user].docs
    BY DocumentsApart
  <1>4. ASSUME NEW u \in Users \ Unsteady
        PROVE  \/ driver'[u].status = "none"
               \/ Cardinality(driver'[u].docs) >= 2
               \/ \E s \in Submits : Sending(s, u)'
    <2>1. CASE driver[u].status = "none"
      BY <1>1, <2>1
    <2>2. CASE Cardinality(driver[u].docs) >= 2
      BY <1>3, <2>2, EnoughStays
    <2>3. ASSUME NEW s \in Submits, Sending(s, u)
          PROVE  Cardinality(driver'[u].docs) >= 2 \/ Sending(s, u)'
      <3>1. CASE submit[s].request = h
        <4>1. u = proc[h].user /\ Cardinality(proc[h].docs) = 2
          BY <2>3, <3>1, NoneAssumption DEF Sending, WaitInv, RunsWait, Asks
        <4>2. Cardinality(driver'[u].docs) >= 2
          BY <1>3, <4>1, EnoughStays
        <4> QED
          BY <4>2
      <3>2. CASE submit[s].request # h
        <4>1. submit'[s] = submit[s]
          BY <1>1, <3>2, AnswerRuns DEF WaitInv
        <4> QED
          BY <2>3, <4>1 DEF Sending
      <3> QED
        BY <3>1, <3>2
    <2> QED
      BY <2>1, <2>2, <2>3 DEF WaitInv, Documented
  <1>5. Documented'
    BY <1>4 DEF Documented
  <1> QED
    BY <1>2, <1>5 DEF WaitInv

\* Decisions end no submit and remove no document.
LEMMA DecisionWaits ==
    ASSUME OnboardingInv, ApartInv, RequestsApart, WaitInv, NEW h \in Handlers,
           \/ ApproveDriver(h)
           \/ SetDriverStatus(h, "reject", "rejected")
           \/ SetDriverStatus(h, "suspend", "suspended")
    PROVE  WaitInv'
  <1>1. /\ proc[h].op \in Decisions /\ proc'[h].pc = "idle" /\ submit' = submit
        /\ \A g \in Handlers \ {h} : proc'[g] = proc[g]
    BY DEF ApproveDriver, SetDriverStatus, Writes, Finish, Idle, Decisions, OnboardingInv, TypeOK
  <1>2. RunsWait' /\ Awaited'
    BY <1>1, OtherRequestWaits DEF WaitInv
  <1>3. OnlyDecided
    BY DecisionApart
  <1>4. Documented'
    BY <1>1, <1>3 DEF OnlyDecided, WaitInv, Documented, Sending
  <1> QED
    BY <1>2, <1>4 DEF WaitInv

\* Every step keeps it, while no two requests about one driver overlap.
LEMMA NextKeepsWaiting ==
    OnboardingInv /\ OnboardingInv' /\ ApartInv /\ RequestsApart /\ WaitInv /\ [Next]_vars
    => WaitInv'
  <1> SUFFICES ASSUME OnboardingInv, OnboardingInv', ApartInv, RequestsApart, WaitInv, [Next]_vars
               PROVE  WaitInv'
    OBVIOUS
  <1>1. ASSUME NEW u \in Users, Client(u) PROVE WaitInv'
    BY <1>1, ClientWaits
  <1>2. ASSUME NEW s \in Submits, Disconnect(s) PROVE WaitInv'
    <2>1. \A r \in Submits : \/ submit'[r] = submit[r]
                             \/ submit[r].user \in Unsteady /\ submit'[r] = NoRun
      BY <1>2 DEF Disconnect, Fails, OnboardingInv, TypeOK
    <2> QED
      BY <1>2, <2>1, EndedWait DEF Disconnect
  <1>3. ASSUME NEW h \in Handlers, Server(h) PROVE WaitInv'
    BY <1>3, ReadWaits, RegisterWaits, DocumentsWait, DecisionWaits DEF Server
  <1>4. ASSUME NEW h \in Handlers, NEW u \in Users, NEW op \in Decisions, Decide(h, u, op)
        PROVE  WaitInv'
    <2>1. /\ proc[h].pc = "idle" /\ proc'[h].op \in Decisions
          /\ submit' = submit /\ driver' = driver
          /\ \A g \in Handlers \ {h} : proc'[g] = proc[g]
      BY <1>4 DEF Decide, Idle, OnboardingInv, TypeOK
    <2>2. RunsWait' /\ Awaited'
      BY <2>1, OtherRequestWaits DEF WaitInv
    <2>3. Documented'
      BY <2>1 DEF WaitInv, Documented, Sending
    <2> QED
      BY <2>2, <2>3 DEF WaitInv
  <1>5. ASSUME NEW i \in Images, RecycleImage(i) PROVE WaitInv'
    BY <1>5 DEF RecycleImage, WaitInv, RunsWait, Awaited, Documented, Sending
  <1>6. CASE UNCHANGED vars
    BY <1>6 DEF vars, WaitInv, RunsWait, Awaited, Documented, Sending
  <1> QED
    BY <1>1, <1>2, <1>3, <1>4, <1>5, <1>6 DEF Next

\* A driver whose connection holds never waits in front of a profile that cannot be
\* approved once that driver's submits have ended, wherever they were left, unless
\* two requests about one driver overlap.
LEMMA SteadyNeverStuck ==
    Spec /\ []RequestsApart =>
        [](\A u \in Users \ Unsteady :
              /\ page[u].at = "waiting" /\ page[u].seen = "pending" /\ driver[u].status = "pending"
              /\ \A s \in Submits : submit[s].user # u
              => Cardinality(driver[u].docs) >= 2)
  <1>1. Init => WaitInv
    BY NoneAssumption DEF Init, WaitInv, RunsWait, Awaited, Asks, Documented, Idle, NoRun, NoProfile
  <1>2. OnboardingInv /\ ApartInv /\ RequestsApart /\ WaitInv /\ [Next]_vars => WaitInv'
    BY NextKeepsOnboarding, NextKeepsWaiting
  <1>3. WaitInv =>
           \A u \in Users \ Unsteady :
              /\ page[u].at = "waiting" /\ page[u].seen = "pending" /\ driver[u].status = "pending"
              /\ \A s \in Submits : submit[s].user # u
              => Cardinality(driver[u].docs) >= 2
    BY DEF WaitInv, Documented, Sending
  <1> QED
    BY <1>1, <1>2, <1>3, ApartInvariant, PTL DEF Spec

\* While connections hold and apps stay open, nobody whose submits have ended waits
\* for an approval that the admin would be refused, whether the form was left while
\* its submit ran or not, unless two requests about one driver overlap.
THEOREM NoDeadEndApart == Unsteady = {} => (Spec /\ []RequestsApart => []NoDeadEnd)
  <1> SUFFICES ASSUME Unsteady = {}
               PROVE  Spec /\ []RequestsApart => []NoDeadEnd
    OBVIOUS
  <1>1. (\A u \in Users \ Unsteady :
              /\ page[u].at = "waiting" /\ page[u].seen = "pending" /\ driver[u].status = "pending"
              /\ \A s \in Submits : submit[s].user # u
              => Cardinality(driver[u].docs) >= 2) => NoDeadEnd
    BY DEF NoDeadEnd
  <1> QED
    BY <1>1, SteadyNeverStuck, PTL
=============================================================================
