---------------------------- MODULE AccountProofs ----------------------------
(***************************************************************************)
(* Proofs about Account: a notification is announced once.                 *)
(*                                                                         *)
(* The watcher has one request in flight, and what it has announced it     *)
(* knows or it has been read.  A request that was sent for the previous    *)
(* account is still answered; until then nothing of the new one's has been *)
(* announced, so that the watcher may forget it.                           *)
(***************************************************************************)
EXTENDS Account, TLAPS

People == Numbers \cup {0}
AskType == [fn : {"none", "poll", "page", "count", "mark", "open"}, n : Notes, as : People,
            at : {"", "sent", "back"}, got : SUBSET Notes]
RowsType == [to : [Notes -> People], read : SUBSET Notes, device : People]

\* What the actions of Alerts need of their variables' types.
Formed ==
    /\ rows \in RowsType /\ asked \in [Asks -> AskType]
    /\ watcher \in [on : BOOLEAN, primed : BOOLEAN, known : SUBSET Notes]
    /\ toasts \subseteq Notes /\ regs \subseteq Numbers
    /\ list \in [open : BOOLEAN, unread : SUBSET Notes]
AlertsFormed == Formed /\ noticed \in [Notes -> 0..1] /\ (subject = "alerts" => Current \in People)

-----------------------------------------------------------------------------
(* The inductive invariant *)

Polls == {k \in Asks : asked[k].fn = "poll"}
NoticedOf(who) == {n \in Notes : noticed[n] = 1 /\ rows.to[n] = who}

\* isPolling: the watcher waits for one answer at most.
OnePoll == \A j, k \in Polls : j = k
\* A notification is announced that has been sent.
NoticedSent == \A n \in Notes : rows.to[n] = 0 => noticed[n] = 0
\* What was announced to who is signed in is known to the watcher or has been read.
Known(who) == \A n \in NoticedOf(who) : n \in watcher.known \/ n \in rows.read
CurrentKnown == Current # 0 => Known(Current)
\* An answer lists what is unread of who asked; what it lists again is known, and what it has
\* stopped to list has been read.
Answers(k) == \A n \in asked[k].got : rows.to[n] = asked[k].as
AnswersKnown(k) ==
    \A n \in NoticedOf(asked[k].as) : IF n \in asked[k].got THEN n \in watcher.known ELSE n \in rows.read
\* While the watcher waits for another's answer, nothing has been announced to who is signed in.
StillQuiet(k) == Current # 0 /\ asked[k].as # Current => NoticedOf(Current) = {}
PollKnown ==
    \A k \in Polls :
        /\ asked[k].as # 0 /\ Known(asked[k].as) /\ Answers(k)
        /\ (asked[k].at = "back" => AnswersKnown(k))
        /\ StillQuiet(k)
Primed == \A n \in Notes : noticed[n] = 1 => watcher.primed
SignInQuiet == subject = "signin" => \A n \in Notes : noticed[n] = 0

PollInv == OnePoll /\ NoticedSent /\ CurrentKnown /\ PollKnown /\ Primed
NoticedInv == subject \in Subjects /\ AlertsFormed /\ PollInv /\ SignInQuiet

-----------------------------------------------------------------------------
(* Requests *)

NewAsk(fn, n, who) == [NoAsk EXCEPT !.fn = fn, !.n = n, !.as = who, !.at = "sent"]

\* The bounds are positive.
LEMMA BoundsFact == 1 \in Notes /\ Notes \subseteq Nat /\ 0 \notin Numbers
BY AlertsAssumption, SignInAssumption DEF Notes

\* No request is formed.
LEMMA NoAskFact == NoAsk \in AskType /\ NoAsk.fn = "none" /\ NoAsk.got = {}
<1>1. NoAsk \in [fn : {"none", "poll", "page", "count", "mark", "open"}, n : Notes, as : People,
                 at : {"", "sent", "back"}, got : SUBSET Notes]
  BY BoundsFact, Zenon DEF NoAsk, People
<1> QED BY <1>1, Zenon DEF AskType, NoAsk

\* A request as it is sent.
LEMMA NewAskFact ==
    ASSUME NEW fn \in {"poll", "page", "count", "mark", "open"}, NEW n \in Notes, NEW who \in People
    PROVE  /\ NewAsk(fn, n, who) \in AskType
           /\ NewAsk(fn, n, who).fn = fn /\ NewAsk(fn, n, who).as = who
           /\ NewAsk(fn, n, who).at = "sent" /\ NewAsk(fn, n, who).got = {}
<1> DEFINE q == NoAsk
<1>1. q \in AskType /\ q.got = {} BY NoAskFact
<1> HIDE DEF q
<1>2. NewAsk(fn, n, who) = [q EXCEPT !.fn = fn, !.n = n, !.as = who, !.at = "sent"] BY DEF NewAsk, q
<1> QED BY <1>1, <1>2 DEF AskType

\* ds is cs but for one request, q, if that.
Puts(cs, ds, q) ==
    /\ \A j \in Asks : ds[j] = cs[j] \/ ds[j] = q
    /\ \A i, j \in Asks : ds[i] # cs[i] /\ ds[j] # cs[j] => i = j

\* A request takes the place of none.
LEMMA AskedFact ==
    ASSUME NEW cs \in [Asks -> AskType],
           NEW fn \in {"poll", "page", "count", "mark", "open"}, NEW n \in Notes, NEW who \in People
    PROVE  /\ Asked(cs, fn, n, who) \in [Asks -> AskType]
           /\ Puts(cs, Asked(cs, fn, n, who), NewAsk(fn, n, who))
<1> DEFINE free == {j \in Asks : cs[j] = NoAsk}
           k == CHOOSE i \in free : \A j \in free : IF fn = "poll" THEN i <= j ELSE i >= j
<1>1. Asked(cs, fn, n, who) = [cs EXCEPT ![k] = NewAsk(fn, n, who)] BY Zenon DEF Asked, NewAsk
<1>2. NewAsk(fn, n, who) \in AskType BY NewAskFact
<1> HIDE DEF k
<1> QED BY <1>1, <1>2 DEF Puts

\* The polls in flight are among those of cs, as they were.
PollsKept(cs, ds) == \A k \in Asks : ds[k].fn = "poll" => ds[k] = cs[k]

\* A page that is left keeps the polls.
LEMMA PageGoneFact ==
    ASSUME NEW cs \in [Asks -> AskType]
    PROVE  PageGone(cs) \in [Asks -> AskType] /\ PollsKept(cs, PageGone(cs))
BY DEF PageGone, AskType, PollsKept

\* A request that is no poll keeps the polls.
LEMMA AskedKeeps ==
    ASSUME NEW cs \in [Asks -> AskType], NEW fn \in {"poll", "page", "count", "mark", "open"}, fn # "poll",
           NEW n \in Notes, NEW who \in People
    PROVE  Asked(cs, fn, n, who) \in [Asks -> AskType] /\ PollsKept(cs, Asked(cs, fn, n, who))
<1>1. NewAsk(fn, n, who).fn = fn BY NewAskFact
<1>2. Asked(cs, fn, n, who) \in [Asks -> AskType]
  BY AskedFact
<1>3. Puts(cs, Asked(cs, fn, n, who), NewAsk(fn, n, who))
  BY AskedFact
<1> QED BY <1>1, <1>2, <1>3 DEF PollsKept, Puts

\* A request that is answered or fails keeps the other polls.
LEMMA DropKeeps ==
    ASSUME NEW cs \in [Asks -> AskType], NEW k \in Asks
    PROVE  [cs EXCEPT ![k] = NoAsk] \in [Asks -> AskType] /\ PollsKept(cs, [cs EXCEPT ![k] = NoAsk])
<1> DEFINE q == NoAsk
<1>1. q \in AskType /\ q.fn = "none" BY NoAskFact
<1> HIDE DEF q
<1>2. [cs EXCEPT ![k] = q] \in [Asks -> AskType] BY <1>1
<1>3. PollsKept(cs, [cs EXCEPT ![k] = q]) BY <1>1 DEF PollsKept
<1> QED BY <1>2, <1>3 DEF q

\* Two changes that keep the polls keep them.
LEMMA KeepsTwice ==
    ASSUME NEW cs, NEW ds, NEW es, PollsKept(cs, ds), PollsKept(ds, es)
    PROVE  PollsKept(cs, es)
BY DEF PollsKept

-----------------------------------------------------------------------------
(* Steps that announce nothing *)

\* Notifications are read for good, and stay who they were sent to.
RowsGrow ==
    /\ rows.read \subseteq rows'.read
    /\ \A n \in Notes : rows.to[n] # 0 => rows'.to[n] = rows.to[n]
\* What the watcher knows, its requests and what was announced stay; who is signed in may sign out.
Quiet ==
    /\ RowsGrow /\ PollsKept(asked, asked')
    /\ noticed' = noticed /\ watcher'.known = watcher.known /\ watcher'.primed = watcher.primed
    /\ Current' \in {Current, 0}

\* What was announced to a person stays that person's.
LEMMA NoticedOfKept ==
    ASSUME AlertsFormed, NoticedSent, Quiet, NEW who, who # 0
    PROVE  NoticedOf(who)' = NoticedOf(who)
<1>1. \A n \in Notes : noticed[n] = 1 => rows'.to[n] = rows.to[n]
  BY DEF NoticedSent, Quiet, RowsGrow
<1>2. \A n \in Notes : rows'.to[n] = who /\ noticed[n] = 1 => rows.to[n] = who
  BY <1>1
<1> QED BY <1>1, <1>2 DEF NoticedOf, Quiet

\* A quiet step keeps the invariant.
LEMMA QuietKeeps ==
    ASSUME AlertsFormed, AlertsFormed', PollInv, Quiet
    PROVE  PollInv'
<1> USE DEF PollInv, Quiet
<1>1. OnePoll' BY DEF OnePoll, Polls, PollsKept
<1>2. NoticedSent'
  BY DEF NoticedSent, RowsGrow, AlertsFormed, RowsType, People
<1>3. Primed' BY DEF Primed
<1>4. \A who : who # 0 => NoticedOf(who)' = NoticedOf(who) BY NoticedOfKept
<1>5. \A who : who # 0 /\ Known(who) => Known(who)'
  BY <1>4 DEF Known, RowsGrow
<1>6. CurrentKnown' BY <1>5 DEF CurrentKnown
<1>7. ASSUME NEW k \in Polls'
      PROVE  (/\ asked[k].as # 0 /\ Known(asked[k].as) /\ Answers(k)
              /\ (asked[k].at = "back" => AnswersKnown(k))
              /\ StillQuiet(k))'
  <2>1. k \in Polls /\ asked'[k] = asked[k] BY <1>7 DEF Polls, PollsKept
  <2> DEFINE q == asked[k]
  <2>2. /\ q.as # 0 /\ Known(q.as) /\ Answers(k)
        /\ (q.at = "back" => AnswersKnown(k))
        /\ StillQuiet(k)
    BY <2>1 DEF PollKnown
  <2>3. q \in AskType /\ q.got \subseteq Notes BY <2>1 DEF AlertsFormed, Formed, AskType, Polls
  <2>4. NoticedOf(q.as)' = NoticedOf(asked[k].as) BY <1>4, <2>1, <2>2
  <2>5. Known(asked[k].as)' BY <1>5, <2>1, <2>2
  <2>6. Answers(k)' BY <2>1, <2>2, <2>3 DEF Answers, RowsGrow
  <2>7. (asked[k].at = "back" => AnswersKnown(k))' BY <2>1, <2>2, <2>4 DEF AnswersKnown, RowsGrow
  <2>8. StillQuiet(k)' BY <1>4, <2>1, <2>2 DEF StillQuiet
  <2> QED BY <2>1, <2>2, <2>5, <2>6, <2>7, <2>8
<1>8. PollKnown' BY <1>7 DEF PollKnown
<1> QED BY <1>1, <1>2, <1>3, <1>6, <1>8

-----------------------------------------------------------------------------
(* Answers of the server, and what the pages do *)

\* The closed page.
LEMMA NoListFact ==
    /\ NoList \in [open : BOOLEAN, unread : SUBSET Notes]
    /\ [NoList EXCEPT !.open = TRUE] \in [open : BOOLEAN, unread : SUBSET Notes]
<1> DEFINE l == [open |-> FALSE, unread |-> {}]
<1>1. l \in [open : BOOLEAN, unread : SUBSET Notes] BY Zenon
<1> HIDE DEF l
<1> QED BY <1>1 DEF NoList, l

\* Marking a notification leaves to whom the notifications are.
LEMMA MarksFact ==
    ASSUME Formed, NEW k \in Asks
    PROVE  /\ Marks(asked[k]) \in RowsType
           /\ rows.read \subseteq Marks(asked[k]).read /\ Marks(asked[k]).to = rows.to
BY DEF Formed, Marks, RowsType, AskType, Owns

\* A request that is answered is formed still.
LEMMA ServedFact ==
    ASSUME Formed, NEW k \in Asks, Serve(k)
    PROVE  /\ asked' \in [Asks -> AskType]
           /\ asked'[k].fn = asked[k].fn /\ asked'[k].as = asked[k].as /\ asked'[k].at = "back"
           /\ \A j \in Asks : j # k => asked'[j] = asked[j]
           /\ asked[k].fn = "poll" => asked'[k].got = Unread(asked[k].as)
<1> DEFINE got == IF asked[k].fn \in {"mark", "open"} THEN {} ELSE Unread(asked[k].as)
<1>1. asked' = [asked EXCEPT ![k].at = "back", ![k].got = got] BY DEF Serve
<1>2. got \in SUBSET Notes BY DEF Unread
<1>3. asked[k].fn = "poll" => got = Unread(asked[k].as) OBVIOUS
<1> HIDE DEF got
<1> QED BY <1>1, <1>2, <1>3 DEF Formed, AskType

\* Serving a request that is no poll is quiet.
LEMMA ServeQuiet ==
    ASSUME Formed, NEW k \in Asks, Serve(k), UNCHANGED session, asked[k].fn # "poll"
    PROVE  Quiet
<1>1. PollsKept(asked, asked') BY ServedFact DEF PollsKept
<1>2. RowsGrow BY MarksFact DEF Serve, RowsGrow
<1> QED BY <1>1, <1>2 DEF Quiet, Current, Serve

\* So is its failure, whatever it was.
LEMMA FailQuiet ==
    ASSUME Formed, NEW k \in Asks, Fail(k), UNCHANGED session
    PROVE  Formed' /\ Quiet
<1> DEFINE cs == [asked EXCEPT ![k] = NoAsk]
<1>1. cs \in [Asks -> AskType] /\ PollsKept(asked, cs) BY DropKeeps DEF Formed
<1>2. PageGone(cs) \in [Asks -> AskType] /\ PollsKept(cs, PageGone(cs)) BY <1>1, PageGoneFact
<1>3. asked' = PageGone(cs) \/ asked' = cs BY DEF Fail, Drop
<1>4. asked' \in [Asks -> AskType] /\ PollsKept(asked, asked') BY <1>1, <1>2, <1>3, KeepsTwice
<1>5. RowsGrow /\ rows' \in RowsType BY MarksFact DEF Fail, RowsGrow, Formed
<1>6. list' \in [open : BOOLEAN, unread : SUBSET Notes] BY NoListFact DEF Fail, Formed
<1> QED BY <1>4, <1>5, <1>6 DEF Quiet, Current, Formed, Fail

\* The answers to the page and to the badge.
LEMMA ShownQuiet ==
    ASSUME Formed, NEW k \in Asks, Counted(k) \/ Listed(k), UNCHANGED session
    PROVE  Formed' /\ Quiet
<1>1. asked' = [asked EXCEPT ![k] = NoAsk] BY DEF Counted, Listed, Drop
<1>2. asked' \in [Asks -> AskType] /\ PollsKept(asked, asked') BY <1>1, DropKeeps DEF Formed
<1>3. RowsGrow BY DEF Counted, Listed, RowsGrow
<1>4. list' \in [open : BOOLEAN, unread : SUBSET Notes] BY DEF Counted, Listed, Formed, AskType
<1>5. UNCHANGED <<rows, watcher, toasts, regs, noticed>> BY DEF Counted, Listed
<1> QED BY <1>2, <1>3, <1>4, <1>5 DEF Quiet, Current, Formed

\* The answer to a mark, after which the badge is asked for.
LEMMA MarkedQuiet ==
    ASSUME Formed, NEW k \in Asks, Marked(k), UNCHANGED session, Current \in People
    PROVE  Formed' /\ Quiet
<1> DEFINE ds == [asked EXCEPT ![k] = NoAsk]
           cs == IF Current # 0 THEN Asked(ds, "count", 1, Current) ELSE ds
<1>1. ds \in [Asks -> AskType] /\ PollsKept(asked, ds) BY DropKeeps DEF Formed
<1>2. /\ Asked(ds, "count", 1, Current) \in [Asks -> AskType]
      /\ PollsKept(ds, Asked(ds, "count", 1, Current))
  BY <1>1, AskedKeeps, BoundsFact
<1>3. asked' = PageGone(cs) \/ asked' = cs BY DEF Marked
<1> HIDE DEF ds
<1>4. cs \in [Asks -> AskType] /\ PollsKept(asked, cs) BY <1>1, <1>2, KeepsTwice
<1> HIDE DEF cs
<1>5. PageGone(cs) \in [Asks -> AskType] /\ PollsKept(cs, PageGone(cs)) BY <1>4, PageGoneFact
<1>6. asked' \in [Asks -> AskType] /\ PollsKept(asked, asked') BY <1>3, <1>4, <1>5, KeepsTwice
<1>7. UNCHANGED <<rows, watcher, toasts, regs, noticed>> BY DEF Marked
<1>8. list' \in [open : BOOLEAN, unread : SUBSET Notes] BY NoListFact DEF Marked, Formed
<1> QED BY <1>6, <1>7, <1>8 DEF Quiet, Current, Formed, RowsGrow

\* What the user does on the page and with a toast.
PageTap == EnterPage \/ Load \/ LeavePage \/ OpenNotification \/ OpenToast
\* Tapping leaves the polls alone.
LEMMA TapsQuiet ==
    ASSUME Formed, PageTap, UNCHANGED session, Current \in People
    PROVE  Formed' /\ Quiet
<1>1. \A fn \in {"poll", "page", "count", "mark", "open"}, n \in Notes : fn # "poll" =>
         /\ Asked(asked, fn, n, Current) \in [Asks -> AskType]
         /\ PollsKept(asked, Asked(asked, fn, n, Current))
  BY AskedKeeps DEF Formed
<1>2. \A n \in Notes :
         /\ PageGone(Asked(asked, "mark", n, Current)) \in [Asks -> AskType]
         /\ PollsKept(asked, PageGone(Asked(asked, "mark", n, Current)))
  <2> TAKE n \in Notes
  <2> DEFINE cs == Asked(asked, "mark", n, Current)
  <2>1. cs \in [Asks -> AskType] /\ PollsKept(asked, cs) BY <1>1
  <2> HIDE DEF cs
  <2>2. PageGone(cs) \in [Asks -> AskType] /\ PollsKept(cs, PageGone(cs)) BY <2>1, PageGoneFact
  <2>3. PollsKept(asked, PageGone(cs)) BY <2>1, <2>2, KeepsTwice
  <2> QED BY <2>2, <2>3 DEF cs
<1>3. PageGone(asked) \in [Asks -> AskType] /\ PollsKept(asked, PageGone(asked))
  BY PageGoneFact DEF Formed
<1>4. asked' \in [Asks -> AskType] /\ PollsKept(asked, asked')
  <2>1. CASE EnterPage BY <2>1, <1>1, BoundsFact DEF EnterPage
  <2>2. CASE Load BY <2>2, <1>1, BoundsFact DEF Load
  <2>3. CASE LeavePage BY <2>3, <1>3 DEF LeavePage
  <2>4. CASE OpenNotification BY <2>4, <1>1 DEF OpenNotification, Formed
  <2>5. CASE OpenToast BY <2>5, <1>2 DEF OpenToast, Formed
  <2> QED BY <2>1, <2>2, <2>3, <2>4, <2>5 DEF PageTap
<1>5. UNCHANGED <<rows, watcher, regs, noticed>> /\ toasts' \subseteq Notes
  BY DEF PageTap, EnterPage, Load, LeavePage, OpenNotification, OpenToast, Formed
<1>6. list' \in [open : BOOLEAN, unread : SUBSET Notes]
  BY NoListFact DEF PageTap, EnterPage, Load, LeavePage, OpenNotification, OpenToast, Formed
<1> QED BY <1>4, <1>5, <1>6 DEF Quiet, Current, Formed, RowsGrow

-----------------------------------------------------------------------------
(* What happens elsewhere, and sessions that end or go on *)

\* The server's side: a token that is registered, a notification, a push.
Elsewhere == LoseRegistration \/ NoteArrives \/ PushEnds \/ \E who \in Numbers : Register(who)
\* Neither does it touch a poll.
LEMMA ElsewhereQuiet ==
    ASSUME Formed, Elsewhere, UNCHANGED session
    PROVE  Formed' /\ Quiet
<1>1. UNCHANGED <<watcher, asked, toasts, noticed, list>>
  BY DEF Elsewhere, LoseRegistration, NoteArrives, PushEnds, Register
<1>2. regs' \subseteq Numbers
  BY DEF Elsewhere, LoseRegistration, NoteArrives, PushEnds, Register, Formed
<1>3. rows' \in RowsType /\ RowsGrow
  <2>1. CASE LoseRegistration BY <2>1 DEF LoseRegistration, Formed, RowsGrow
  <2>2. CASE NoteArrives BY <2>2 DEF NoteArrives, Formed, RowsGrow, RowsType, People
  <2>3. CASE PushEnds BY <2>3 DEF PushEnds, Formed, RowsGrow, RowsType, People
  <2>4. CASE \E who \in Numbers : Register(who)
    BY <2>4 DEF Register, Formed, RowsGrow, RowsType, People
  <2> QED BY <2>1, <2>2, <2>3, <2>4 DEF Elsewhere
<1>4. PollsKept(asked, asked') BY <1>1 DEF PollsKept
<1> QED BY <1>1, <1>2, <1>3, <1>4 DEF Formed, Quiet, Current

\* A notification that nothing refers to any more is announced like a new one, but what was
\* announced of the others stays known.
LEMMA RecycleKeeps ==
    ASSUME AlertsFormed, PollInv, UNCHANGED session, NEW m \in Notes, RecycleNote(m)
    PROVE  Formed' /\ noticed' \in [Notes -> 0..1] /\ PollInv' /\ Current' = Current
<1>1. /\ rows' = [rows EXCEPT !.to[m] = 0, !.read = @ \ {m}]
      /\ noticed' = [noticed EXCEPT ![m] = 0]
      /\ UNCHANGED <<watcher, asked, toasts, list, regs>>
      /\ \A k \in Polls : m \notin asked[k].got
  BY DEF RecycleNote, Polls, Out
<1>2. Formed' BY <1>1 DEF AlertsFormed, Formed, RowsType, People
<1>3. noticed' \in [Notes -> 0..1] BY <1>1 DEF AlertsFormed
<1>4. Current' = Current BY DEF Current
<1>5. /\ rows'.to[m] = 0 /\ noticed'[m] = 0
      /\ \A n \in Notes \ {m} : rows'.to[n] = rows.to[n] /\ noticed'[n] = noticed[n]
      /\ \A n \in Notes \ {m} : n \in rows.read => n \in rows'.read
  BY <1>1 DEF AlertsFormed, Formed, RowsType
<1>6. \A who : NoticedOf(who)' \subseteq NoticedOf(who) \ {m} BY <1>5 DEF NoticedOf
<1>7. NoticedOf(Current)' \subseteq NoticedOf(Current) BY <1>4, <1>6
<1>8. \A who : Known(who) => Known(who)' BY <1>1, <1>5, <1>6 DEF Known, NoticedOf
<1>9. OnePoll' /\ NoticedSent' /\ Primed'
  BY <1>1, <1>5 DEF PollInv, OnePoll, Polls, NoticedSent, Primed
<1>10. CurrentKnown' BY <1>4, <1>8 DEF PollInv, CurrentKnown
<1>11. ASSUME NEW k \in Polls'
       PROVE  (/\ asked[k].as # 0 /\ Known(asked[k].as) /\ Answers(k)
               /\ (asked[k].at = "back" => AnswersKnown(k))
               /\ StillQuiet(k))'
  <2>1. k \in Polls /\ asked'[k] = asked[k] BY <1>1, <1>11 DEF Polls
  <2>2. /\ asked[k].as # 0 /\ Known(asked[k].as) /\ Answers(k)
        /\ (asked[k].at = "back" => AnswersKnown(k))
        /\ StillQuiet(k)
    BY <2>1 DEF PollInv, PollKnown
  <2>3. asked[k].got \subseteq Notes \ {m}
    BY <1>1, <2>1 DEF AlertsFormed, Formed, AskType, Polls
  <2>4. Known(asked[k].as)' BY <1>8, <2>1, <2>2
  <2>5. Answers(k)' BY <1>5, <2>1, <2>2, <2>3 DEF Answers
  <2>6. NoticedOf(asked[k].as)' \subseteq NoticedOf(asked[k].as) \ {m} BY <1>6, <2>1
  <2>7. (asked[k].at = "back" => AnswersKnown(k))'
    BY <1>1, <1>5, <2>1, <2>2, <2>6 DEF AnswersKnown, NoticedOf
  <2>8. StillQuiet(k)' BY <1>4, <1>7, <2>1, <2>2 DEF StillQuiet
  <2> QED BY <2>1, <2>2, <2>4, <2>5, <2>7, <2>8
<1>12. PollKnown' BY <1>11 DEF PollKnown
<1> QED BY <1>2, <1>3, <1>4, <1>9, <1>10, <1>12 DEF PollInv

\* A sign-out: the watcher goes on.
LEMMA SignsOutQuiet ==
    ASSUME Formed, SignsOut
    PROVE  Formed' /\ Quiet /\ Current' = 0
<1>1. asked' \in [Asks -> AskType] /\ PollsKept(asked, asked') BY PageGoneFact DEF Formed, SignsOut
<1>2. list' \in [open : BOOLEAN, unread : SUBSET Notes] BY NoListFact DEF SignsOut
<1>3. Current' = 0 BY DEF SignsOut, Current, Nobody
<1>4. UNCHANGED <<rows, watcher, toasts, regs, noticed>> BY DEF SignsOut
<1> QED BY <1>1, <1>2, <1>3, <1>4 DEF Formed, Quiet, RowsGrow

-----------------------------------------------------------------------------
(* The watcher's request *)

\* It asks for who is signed in, when it waits for no answer.
Sends ==
    /\ ~IsPolling /\ asked' = Asked(asked, "poll", 1, Current) /\ Current \in Numbers
    /\ UNCHANGED <<rows, noticed>> /\ Current' = Current
    /\ watcher'.known = watcher.known /\ watcher'.primed = watcher.primed

\* Without a request of the watcher in flight there is none.
LEMMA NotPolling ==
    ASSUME ~IsPolling
    PROVE  Polls = {}
BY DEF IsPolling, Out, Polls

\* Sending it keeps the invariant.
LEMMA SendKeeps ==
    ASSUME AlertsFormed, PollInv, Sends
    PROVE  asked' \in [Asks -> AskType] /\ PollInv'
<1> DEFINE q == NewAsk("poll", 1, Current)
<1>1. Current \in People /\ Current # 0 /\ 1 \in Notes BY BoundsFact DEF Sends, People
<1>2. q \in AskType /\ q.fn = "poll" /\ q.as = Current /\ q.at = "sent" /\ q.got = {}
  BY <1>1, NewAskFact
<1>3. asked' \in [Asks -> AskType] /\ Puts(asked, asked', q)
  BY <1>1, AskedFact DEF Sends, AlertsFormed, Formed
<1> HIDE DEF q
<1>4. \A k \in Polls' : asked'[k] = q /\ asked[k] # q
  BY <1>3, NotPolling, <1>2 DEF Sends, Polls, Puts
<1>5. OnePoll' BY <1>3, <1>4 DEF OnePoll, Puts, Polls
<1>6. NoticedSent' /\ Primed' /\ CurrentKnown'
  BY DEF PollInv, NoticedSent, Primed, CurrentKnown, Known, NoticedOf, Sends
<1>7. PollKnown'
  <2> SUFFICES ASSUME NEW k \in Polls'
               PROVE  (/\ asked[k].as # 0 /\ Known(asked[k].as) /\ Answers(k)
                       /\ (asked[k].at = "back" => AnswersKnown(k))
                       /\ StillQuiet(k))'
    BY DEF PollKnown
  <2>1. asked'[k] = q BY <1>4
  <2>2. Known(asked[k].as)'
    BY <1>1, <1>2, <2>1 DEF Known, CurrentKnown, PollInv, NoticedOf, Sends
  <2>3. Answers(k)' BY <1>2, <2>1 DEF Answers
  <2>4. StillQuiet(k)' BY <1>2, <2>1 DEF StillQuiet, Sends
  <2> QED BY <1>1, <1>2, <2>1, <2>2, <2>3, <2>4
<1> QED BY <1>3, <1>5, <1>6, <1>7 DEF PollInv

\* The server answers it with what is unread.
LEMMA ServePollKeeps ==
    ASSUME AlertsFormed, PollInv, UNCHANGED session, NEW p \in Asks, Serve(p), asked[p].fn = "poll"
    PROVE  PollInv'
<1>1. /\ asked' \in [Asks -> AskType]
      /\ asked'[p].fn = asked[p].fn /\ asked'[p].as = asked[p].as /\ asked'[p].at = "back"
      /\ \A j \in Asks : j # p => asked'[j] = asked[j]
      /\ asked'[p].got = Unread(asked[p].as)
  BY ServedFact DEF AlertsFormed
<1>2. rows' = rows BY DEF Serve, Marks
<1>3. UNCHANGED <<noticed, watcher>> /\ Current' = Current BY DEF Serve, Current
<1>4. Polls' = Polls BY <1>1 DEF Polls
<1>5. OnePoll' BY <1>4 DEF OnePoll, PollInv
<1>6. NoticedSent' /\ Primed' /\ CurrentKnown'
  BY <1>2, <1>3 DEF PollInv, NoticedSent, Primed, CurrentKnown, Known, NoticedOf
<1>7. \A k \in Polls : k = p BY DEF PollInv, OnePoll, Polls
<1>8. PollKnown'
  <2> SUFFICES ASSUME NEW k \in Polls'
               PROVE  (/\ asked[k].as # 0 /\ Known(asked[k].as) /\ Answers(k)
                       /\ (asked[k].at = "back" => AnswersKnown(k))
                       /\ StillQuiet(k))'
    BY DEF PollKnown
  <2>1. k = p /\ k \in Polls BY <1>4, <1>7
  <2>2. asked[p].as # 0 /\ Known(asked[p].as) /\ StillQuiet(p) BY <2>1 DEF PollKnown, PollInv
  <2>3. Known(asked[k].as)' BY <1>1, <1>2, <1>3, <2>1, <2>2 DEF Known, NoticedOf
  <2>4. Answers(k)' BY <1>1, <1>2, <2>1 DEF Answers, Unread
  <2>5. AnswersKnown(k)'
    BY <1>1, <1>2, <1>3, <2>1, <2>2 DEF AnswersKnown, Known, NoticedOf, Unread
  <2>6. StillQuiet(k)' BY <1>1, <1>2, <1>3, <2>1, <2>2 DEF StillQuiet, NoticedOf
  <2> QED BY <1>1, <2>1, <2>2, <2>3, <2>4, <2>5, <2>6
<1> QED BY <1>5, <1>6, <1>8 DEF PollInv

\* The watcher takes the answer, and announces what it does not know.
LEMMA PolledKeeps ==
    ASSUME AlertsFormed, PollInv, UNCHANGED session, NEW p \in Asks, Polled(p)
    PROVE  Formed' /\ noticed' \in [Notes -> 0..1] /\ PollInv'
<1> DEFINE q == asked[p]
           new == IF watcher.primed THEN q.got \ watcher.known ELSE {}
<1>1. q \in AskType /\ q.got \subseteq Notes /\ p \in Polls /\ q.at = "back"
  BY DEF Polled, AlertsFormed, Formed, AskType, Polls
<1>2. q.as # 0 /\ Answers(p) /\ AnswersKnown(p) /\ StillQuiet(p)
  BY <1>1 DEF PollInv, PollKnown
<1>3. /\ asked' = [asked EXCEPT ![p] = NoAsk] /\ noticed' = Announced(new)
      /\ watcher' = [watcher EXCEPT !.primed = TRUE, !.known = q.got]
      /\ toasts' = toasts \cup new /\ UNCHANGED <<rows, list, regs>> /\ Current' = Current
  BY DEF Polled, Drop, Current
<1>4. new \subseteq q.got /\ new \cap watcher.known = {} OBVIOUS
<1>5. \A n \in new : noticed[n] = 0
  BY <1>1, <1>2, <1>4 DEF Answers, AnswersKnown, NoticedOf, AlertsFormed
<1> HIDE DEF new
<1>6. /\ noticed' \in [Notes -> 0..1]
      /\ \A n \in Notes : noticed'[n] = IF n \in new THEN 1 ELSE noticed[n]
  BY <1>1, <1>3, <1>4, <1>5 DEF Announced, AlertsFormed
<1>7. watcher' \in [on : BOOLEAN, primed : BOOLEAN, known : SUBSET Notes]
  BY <1>1, <1>3 DEF AlertsFormed, Formed
<1>8. asked' \in [Asks -> AskType] /\ PollsKept(asked, asked')
  BY <1>3, DropKeeps DEF AlertsFormed, Formed
<1>9. Formed' BY <1>1, <1>3, <1>4, <1>7, <1>8 DEF AlertsFormed, Formed
<1>10. Polls' = {}
  <2> SUFFICES ASSUME NEW k \in Polls' PROVE FALSE OBVIOUS
  <2>1. k \in Polls /\ asked'[k] = asked[k] BY <1>8 DEF Polls, PollsKept
  <2>2. k = p BY <1>1, <2>1 DEF PollInv, OnePoll
  <2>3. asked'[k].fn = "none" BY <1>3, <2>2, NoAskFact DEF AlertsFormed, Formed
  <2> QED BY <2>3 DEF Polls
<1>11. OnePoll' /\ PollKnown' BY <1>10 DEF OnePoll, PollKnown
<1>12. NoticedSent'
  BY <1>1, <1>2, <1>3, <1>4, <1>6 DEF NoticedSent, PollInv, Answers
<1>13. Primed' BY <1>3, <1>7 DEF Primed, AlertsFormed, Formed
<1>14. CurrentKnown'
  <2> SUFFICES ASSUME Current # 0, NEW n \in Notes, noticed'[n] = 1, rows.to[n] = Current
               PROVE  n \in q.got \/ n \in rows.read
    BY <1>3, <1>13 DEF CurrentKnown, Known, NoticedOf, AlertsFormed, Formed
  <2>1. CASE q.as = Current
    BY <2>1, <1>2, <1>4, <1>6 DEF AnswersKnown, NoticedOf
  <2>2. CASE q.as # Current
    BY <2>2, <1>2, <1>4, <1>6 DEF StillQuiet, Answers, NoticedOf
  <2> QED BY <2>1, <2>2
<1> QED BY <1>6, <1>9, <1>11, <1>12, <1>13, <1>14 DEF PollInv

-----------------------------------------------------------------------------
(* Sessions that begin, and the app that is opened *)

\* Nothing has been announced, and nothing waits for an answer it should not have.
Fresh ==
    /\ noticed = [n \in Notes |-> 0] /\ OnePoll
    /\ \A k \in Polls : asked[k].as # 0 /\ Answers(k)

\* That is enough.
LEMMA FreshFact ==
    ASSUME Fresh
    PROVE  PollInv
<1>1. \A n \in Notes : noticed[n] = 0 BY DEF Fresh
<1>2. \A who : NoticedOf(who) = {} BY <1>1 DEF NoticedOf
<1> QED BY <1>1, <1>2 DEF Fresh, PollInv, NoticedSent, CurrentKnown, PollKnown, Primed, Known,
       AnswersKnown, StillQuiet

\* So it is after a step.
LEMMA FreshNext ==
    ASSUME Fresh'
    PROVE  PollInv'
BY FreshFact, PTL

\* The app has just been opened.
JustOpened ==
    /\ Current \in People /\ asked = Opened([k \in Asks |-> NoAsk], Current)
    /\ noticed = [n \in Notes |-> 0]

\* What it asks for then.
OpenedWell == asked \in [Asks -> AskType] /\ Fresh
\* An app that has just been opened asks for that, and for nothing else.
LEMMA OpenedFact ==
    ASSUME JustOpened
    PROVE  OpenedWell
<1> DEFINE who == Current
<1>0. who \in People BY DEF JustOpened
<1> DEFINE none == [k \in Asks |-> NoAsk]
           cs == Asked(none, "count", 1, who)
           q == NewAsk("poll", 1, who)
<1>1. none \in [Asks -> AskType] /\ \A k \in Asks : none[k].fn # "poll" BY NoAskFact
<1>2. q.fn = "poll" /\ q.as = who /\ q.got = {} BY <1>0, NewAskFact, BoundsFact
<1> HIDE DEF none
<1>3. cs \in [Asks -> AskType] /\ PollsKept(none, cs) BY <1>0, <1>1, AskedKeeps, BoundsFact
<1> HIDE DEF cs
<1>4. Asked(cs, "poll", 1, who) \in [Asks -> AskType] /\ Puts(cs, Asked(cs, "poll", 1, who), q)
  BY <1>0, <1>3, AskedFact, BoundsFact
<1> HIDE DEF q
<1>5. \A k \in Asks : cs[k].fn # "poll" BY <1>1, <1>3 DEF PollsKept
<1>6. asked = IF who = 0 THEN none ELSE Asked(cs, "poll", 1, who) BY DEF JustOpened, Opened, none, cs
<1>7. asked \in [Asks -> AskType] BY <1>1, <1>4, <1>6
<1>8. \A k \in Polls : who # 0 /\ asked[k] = q /\ asked[k] # cs[k]
  BY <1>1, <1>2, <1>4, <1>5, <1>6 DEF Polls, Puts
<1>9. OnePoll BY <1>4, <1>6, <1>8 DEF OnePoll, Puts, Polls
<1> QED BY <1>2, <1>7, <1>8, <1>9 DEF JustOpened, Fresh, Answers, OpenedWell

\* So it is after a step.
LEMMA OpenedNext ==
    ASSUME JustOpened'
    PROVE  OpenedWell'
BY OpenedFact, PTL

\* The watcher's timer and what it knows, as a session is stored.
LEMMA StoredFact ==
    ASSUME Formed, NEW who \in Numbers, SessionStored(who)
    PROVE  /\ regs' \subseteq Numbers /\ watcher' \in [on : BOOLEAN, primed : BOOLEAN, known : SUBSET Notes]
           /\ watcher'.known = watcher.known /\ watcher'.primed = watcher.primed
           /\ asked' = asked \/ (~IsPolling /\ asked' = Asked(asked, "poll", 1, who))
BY DEF Formed, SessionStored, Registers

\* Somebody signs in.
LEMMA SignsInKeeps ==
    ASSUME AlertsFormed, PollInv, SignsIn
    PROVE  Formed' /\ noticed' = [n \in Notes |-> 0] /\ PollInv' /\ Current' \in People
<1> PICK who \in Numbers : session' = Claims(who, account[who]) /\ SessionStored(who) BY DEF SignsIn
<1>1. Current' = who /\ who \in People /\ who # 0 BY BoundsFact DEF Current, Claims, People
<1>2. /\ noticed' = [n \in Notes |-> 0] /\ UNCHANGED <<rows, toasts, list>> BY DEF SignsIn
<1>3. /\ regs' \subseteq Numbers /\ watcher' \in [on : BOOLEAN, primed : BOOLEAN, known : SUBSET Notes]
      /\ asked' = asked \/ (~IsPolling /\ asked' = Asked(asked, "poll", 1, who))
  BY StoredFact DEF AlertsFormed
<1> DEFINE q == NewAsk("poll", 1, who)
<1>4. q \in AskType /\ q.fn = "poll" /\ q.as = who /\ q.got = {} BY <1>1, NewAskFact, BoundsFact
<1>5. /\ Asked(asked, "poll", 1, who) \in [Asks -> AskType]
      /\ Puts(asked, Asked(asked, "poll", 1, who), q)
  BY <1>1, AskedFact, BoundsFact DEF AlertsFormed, Formed
<1> HIDE DEF q
<1>6. asked' \in [Asks -> AskType] BY <1>3, <1>5 DEF AlertsFormed, Formed
<1>7. /\ OnePoll'
      /\ \A k \in Polls' : asked'[k].as # 0 /\ Answers(k)'
  <2>1. CASE asked' = asked
    BY <2>1, <1>2 DEF PollInv, OnePoll, PollKnown, Polls, Answers
  <2>2. CASE ~IsPolling /\ asked' = Asked(asked, "poll", 1, who)
    <3>1. \A k \in Polls' : asked'[k] = q /\ asked[k] # q
      BY <1>4, <1>5, <2>2, NotPolling DEF Polls, Puts
    <3>2. OnePoll' BY <1>5, <2>2, <3>1 DEF OnePoll, Puts, Polls
    <3> QED BY <1>1, <1>4, <3>1, <3>2 DEF Answers
  <2> QED BY <1>3, <2>1, <2>2
<1>8. Fresh' BY <1>2, <1>7 DEF Fresh
<1> QED BY <1>1, <1>2, <1>3, <1>6, <1>8, FreshNext DEF Formed, AlertsFormed

\* A token is renewed, and the watcher started if it was not.
LEMMA RenewedKeeps ==
    ASSUME AlertsFormed, PollInv, SessionRenewed, Current \in People
    PROVE  Formed' /\ noticed' \in [Notes -> 0..1] /\ PollInv'
<1>1. Current \in Numbers /\ Current' = Current BY DEF SessionRenewed, People, Current
<1>2. UNCHANGED <<rows, toasts, noticed, list>> BY DEF SessionRenewed
<1>3. /\ regs' \subseteq Numbers /\ watcher' \in [on : BOOLEAN, primed : BOOLEAN, known : SUBSET Notes]
      /\ watcher'.known = watcher.known /\ watcher'.primed = watcher.primed
      /\ asked' = asked \/ (~IsPolling /\ asked' = Asked(asked, "poll", 1, Current))
  BY <1>1, StoredFact DEF SessionRenewed, AlertsFormed
<1>4. asked' = asked \/ Sends BY <1>1, <1>2, <1>3 DEF Sends
<1>5. asked' \in [Asks -> AskType] BY <1>4, SendKeeps DEF AlertsFormed, Formed
<1>6. Formed' BY <1>2, <1>3, <1>5 DEF Formed, AlertsFormed
<1>7. CASE asked' = asked
  <2>1. Quiet BY <1>1, <1>2, <1>3, <1>7 DEF Quiet, RowsGrow, PollsKept
  <2>2. AlertsFormed' BY <1>1, <1>2, <1>6 DEF AlertsFormed
  <2> QED BY <2>1, <2>2, <1>6, QuietKeeps DEF AlertsFormed
<1>8. CASE Sends BY <1>2, <1>6, <1>8, SendKeeps DEF AlertsFormed
<1> QED BY <1>4, <1>7, <1>8

\* The app is opened.
LEMMA ReopensKeeps ==
    ASSUME AlertsFormed, Reopens, Current \in People
    PROVE  Formed' /\ noticed' = [n \in Notes |-> 0] /\ PollInv' /\ Current' = Current
<1>1. Current' = Current BY DEF Reopens, Current
<1>2. noticed' = [n \in Notes |-> 0] BY DEF Reopens
<1>3. JustOpened' BY <1>1 DEF Reopens, JustOpened
<1>4. asked' \in [Asks -> AskType] /\ Fresh' BY <1>3, OpenedNext DEF OpenedWell
<1>5. regs' \subseteq Numbers BY DEF Reopens, Registers, AlertsFormed, Formed, People
<1>6. watcher' \in [on : BOOLEAN, primed : BOOLEAN, known : SUBSET Notes] BY DEF Reopens
<1>7. list' \in [open : BOOLEAN, unread : SUBSET Notes] /\ toasts' \subseteq Notes /\ rows' = rows
  BY NoListFact DEF Reopens
<1>8. PollInv' BY <1>4, FreshNext
<1> QED BY <1>1, <1>2, <1>4, <1>5, <1>6, <1>7, <1>8 DEF Formed, AlertsFormed

-----------------------------------------------------------------------------
(* The inductive invariant *)

\* It holds initially.
LEMMA NoticedInit == Init => NoticedInv
<1> SUFFICES ASSUME Init PROVE NoticedInv OBVIOUS
<1>1. subject \in Subjects BY DEF Init
<1>2. Current \in People
  <2>1. session = Nobody \/ \E n \in Dialled : session = Claims(n, account[n]) BY DEF Init, SignInInit
  <2>2. Dialled \subseteq Numbers BY SignInAssumption
  <2> QED BY <2>1, <2>2 DEF Current, People, Claims, Nobody
<1>3. noticed = [n \in Notes |-> 0] BY DEF Init, AlertsInit
<1>4. JustOpened BY <1>2 DEF Init, AlertsInit, JustOpened
<1>5. asked \in [Asks -> AskType] /\ Fresh BY <1>4, OpenedFact DEF OpenedWell
<1>6. Formed
  <2>1. rows \in RowsType
    <3> DEFINE to == [n \in Notes |-> 0]
    <3>1. to \in [Notes -> People] /\ 0 \in People BY DEF People
    <3>2. rows = [to |-> to, read |-> {}, device |-> 0] BY DEF Init, AlertsInit
    <3> HIDE DEF to
    <3> QED BY <3>1, <3>2 DEF RowsType
  <2>2. watcher \in [on : BOOLEAN, primed : BOOLEAN, known : SUBSET Notes] BY DEF Init, AlertsInit
  <2>3. toasts = {} /\ regs = {} /\ list = NoList BY DEF Init, AlertsInit
  <2> QED BY <1>5, <2>1, <2>2, <2>3, NoListFact DEF Formed
<1>7. AlertsFormed BY <1>2, <1>3, <1>6 DEF AlertsFormed
<1>8. PollInv BY <1>5, FreshFact
<1>9. SignInQuiet BY <1>3 DEF SignInQuiet
<1> QED BY <1>1, <1>7, <1>8, <1>9 DEF NoticedInv

\* The steps about the notifications.
LEMMA AlertsKeep ==
    ASSUME NoticedInv, AlertsStep(AlertsNext)
    PROVE  NoticedInv'
<1>1. subject = "alerts" /\ subject' = subject /\ AlertsNext BY DEF AlertsStep
<1>2. AlertsFormed /\ PollInv /\ Formed /\ Current \in People /\ noticed \in [Notes -> 0..1]
  BY <1>1 DEF NoticedInv, AlertsFormed
<1>3. ASSUME Formed', Quiet
      PROVE  Formed' /\ noticed' \in [Notes -> 0..1] /\ PollInv' /\ Current' \in People
  <2>1. Current' \in People /\ noticed' = noticed BY <1>2, <1>3 DEF Quiet, People
  <2>2. AlertsFormed' BY <1>2, <1>3, <2>1 DEF AlertsFormed
  <2> QED BY <1>2, <1>3, <2>1, <2>2, QuietKeeps
<1>4. Formed' /\ noticed' \in [Notes -> 0..1] /\ PollInv' /\ Current' \in People
  <2>1. CASE SignsIn
    <3>1. \A n \in Notes : 0 \in 0..1 OBVIOUS
    <3> QED BY <1>2, <2>1, <3>1, SignsInKeeps
  <2>2. CASE SessionRenewed
    BY <1>2, <2>2, RenewedKeeps DEF SessionRenewed, Current
  <2>3. CASE SignsOut BY <1>2, <1>3, <2>3, SignsOutQuiet
  <2>4. CASE Reopens BY <1>2, <2>4, ReopensKeeps
  <2>5. CASE UNCHANGED session /\ Poll
    <3>1. Current' = Current /\ Current \in Numbers BY <1>2, <2>5 DEF Current, People, Poll
    <3>2. Sends BY <2>5, <3>1 DEF Poll, Sends
    <3>3. asked' \in [Asks -> AskType] /\ PollInv' BY <1>2, <3>2, SendKeeps
    <3>4. UNCHANGED <<rows, watcher, toasts, noticed, list, regs>> BY <2>5 DEF Poll
    <3> QED BY <1>2, <3>1, <3>3, <3>4 DEF Formed
  <2>6. CASE UNCHANGED session /\ PageTap BY <1>2, <1>3, <2>6, TapsQuiet
  <2>7. CASE UNCHANGED session /\ Elsewhere BY <1>2, <1>3, <2>7, ElsewhereQuiet
  <2>8. CASE UNCHANGED session /\ \E k \in Out : Serve(k) \/ Fail(k) \/ Handle(k)
    <3> PICK k \in Asks : Serve(k) \/ Fail(k) \/ Handle(k) BY <2>8 DEF Out
    <3>1. CASE Serve(k)
      <4>1. Formed' BY <1>2, <3>1, ServedFact, MarksFact DEF Serve, Formed
      <4>2. CASE asked[k].fn = "poll"
        <5>1. PollInv' BY <1>2, <2>8, <3>1, <4>2, ServePollKeeps
        <5> QED BY <1>2, <2>8, <3>1, <4>1, <5>1 DEF Serve, Current
      <4>3. CASE asked[k].fn # "poll" BY <1>2, <1>3, <2>8, <3>1, <4>1, <4>3, ServeQuiet
      <4> QED BY <4>2, <4>3
    <3>2. CASE Fail(k) BY <1>2, <1>3, <2>8, <3>2, FailQuiet
    <3>3. CASE Counted(k) \/ Listed(k) BY <1>2, <1>3, <2>8, <3>3, ShownQuiet
    <3>4. CASE Marked(k) BY <1>2, <1>3, <2>8, <3>4, MarkedQuiet
    <3>5. CASE Polled(k)
      <4>1. Current' = Current BY <2>8 DEF Current
      <4> QED BY <1>2, <2>8, <3>5, <4>1, PolledKeeps
    <3> QED BY <3>1, <3>2, <3>3, <3>4, <3>5 DEF Handle
  <2>9. CASE UNCHANGED session /\ \E n \in Notes : RecycleNote(n)
    BY <1>2, <2>9, RecycleKeeps
  <2> QED BY <1>1, <2>1, <2>2, <2>3, <2>4, <2>5, <2>6, <2>7, <2>8, <2>9 DEF AlertsNext, PageTap, Elsewhere
<1>5. SignInQuiet'
  <2>1. subject' # "signin" BY <1>1
  <2> QED BY <2>1 DEF SignInQuiet
<1> QED BY <1>1, <1>4, <1>5 DEF NoticedInv, AlertsFormed

\* The steps about the sign-in announce nothing.
LEMMA SignInKeeps ==
    ASSUME NoticedInv, SignInStep(SignInNext)
    PROVE  NoticedInv'
<1>1. subject = "signin" /\ subject' = subject /\ UNCHANGED alertVars BY DEF SignInStep
<1>2. UNCHANGED <<rows, watcher, asked, toasts, noticed, list, regs>> BY <1>1 DEF alertVars
<1>3. noticed = [n \in Notes |-> 0]
  BY <1>1 DEF NoticedInv, SignInQuiet, AlertsFormed
<1>4. Fresh'
  BY <1>2, <1>3 DEF NoticedInv, PollInv, Fresh, OnePoll, PollKnown, Polls, Answers
<1>5. PollInv' BY <1>4, FreshNext
<1>6. AlertsFormed' BY <1>1, <1>2 DEF NoticedInv, AlertsFormed, Formed
<1>7. SignInQuiet' BY <1>2, <1>3 DEF SignInQuiet
<1> QED BY <1>1, <1>5, <1>6, <1>7 DEF NoticedInv

\* A step that changes nothing.
LEMMA StutterKeeps ==
    ASSUME NoticedInv, UNCHANGED vars
    PROVE  NoticedInv'
BY DEF vars, signInVars, alertVars, NoticedInv, AlertsFormed, Formed, PollInv, SignInQuiet, OnePoll,
       NoticedSent, CurrentKnown, PollKnown, Primed, Polls, NoticedOf, Known, Answers, AnswersKnown,
       StillQuiet, Current

\* It holds in every state.
THEOREM NoticedInvariant == Spec => []NoticedInv
<1>1. Init => NoticedInv BY NoticedInit
<1>2. NoticedInv /\ [Next]_vars => NoticedInv'
  BY AlertsKeep, SignInKeeps, StutterKeeps DEF Next
<1> QED BY <1>1, <1>2, PTL DEF Spec

\* A notification is announced once at most while the same user is signed in, whatever is answered
\* late and for whomever it was asked.
THEOREM NoticedOnceHolds == Spec => []NoticedOnce
<1>1. NoticedInv => NoticedOnce BY DEF NoticedInv, AlertsFormed, NoticedOnce
<1> QED BY <1>1, NoticedInvariant, PTL
=============================================================================
