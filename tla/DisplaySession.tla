--------------------------- MODULE DisplaySession ---------------------------
(* The projector of a lecture.  The teacher issues a display link; the browser *)
(* window that first opens it claims it for its profile; the window shows       *)
(* snapshots, hears of changes through a private channel, and reports what it   *)
(* has drawn, so that the teacher's badge can say that the display is in step.  *)
(* Channel messages are an acceleration that may be lost; the five-second poll  *)
(* is authoritative.  A runtime gate turns the channel off under running         *)
(* displays, which go on with snapshots only.                                    *)
EXTENDS Naturals, Sequences, FiniteSets, SequencesExt

CONSTANTS
    Links,          \* display links the teacher may issue
    Windows,        \* browser windows that may open them
    Profile,        \* window -> browser profile: its anonymous user
    None,           \* no link, window or user
    Events,         \* what may happen to links and windows in a run: a subset of
                    \* {"close", "revoke", "gate", "term", "reload", "reopen", "hide"}
    MaxPage,        \* pages of the deck
    MaxStamp,       \* bound on the changes of the live state
    MaxGeneration,  \* bound on the loads of a window
    MaxAnswers,     \* bound on the snapshot answers travelling to a window
    MaxReports      \* bound on the reports travelling

ASSUME DisplayAssumption ==
    /\ None \notin Links /\ None \notin Windows
    /\ \A w \in Windows : w \in DOMAIN Profile /\ Profile[w] # None
    /\ {MaxPage, MaxStamp, MaxGeneration, MaxAnswers} \subseteq Nat \ {0}
    /\ MaxReports \in Nat

VARIABLES
    gate,       \* display_realtime_runtime_gate.enabled
    lectureOpen, \* the lecture is open
    live,       \* lecture_live_state: the page, display_version and updated_at
    link,       \* the root and the Realtime binding of every link
    latest,     \* the link issued last
    window,     \* what each window shows and reports
    stored,     \* the launch kept in each window's sessionStorage
    answers,    \* snapshot answers on their way to each window, as they were asked
    signals,    \* channel messages on their way to each window
    reports     \* delivery reports on their way to the database

database == <<gate, lectureOpen, live, link, latest>>
displayVars == <<database, window, stored, answers, signals, reports>>

-----------------------------------------------------------------------------
(* Values.                                                                   *)

Users == {Profile[w] : w \in Windows}

Unissued == [root |-> "unissued", binding |-> "none", term |-> TRUE, user |-> None,
             generation |-> 0, connected |-> FALSE, fresh |-> FALSE,
             version |-> 0, page |-> 0, by |-> None]

\* "by" is a history variable: the window whose present load was acknowledged last.

NoSlide == [page |-> 0, version |-> 0, stamp |-> 0]
NoReport == [page |-> 0, stamp |-> 0]
NoLaunch == [link |-> None, generation |-> 0]

Shut == [phase |-> "shut", link |-> None, url |-> None, generation |-> 0,
         closed |-> FALSE, awake |-> TRUE,
         shown |-> NoSlide, drawn |-> FALSE, subscribed |-> FALSE,
         pending |-> NoReport, sending |-> NoReport, ready |-> FALSE, beating |-> FALSE]

\* "closed": the page shows the lecture as closed and synchronises no more.
\* "awake": the tab is visible, or hidden and still to synchronise once.
Loading(d, url, closed) ==
    [Shut EXCEPT !.phase = "claiming", !.link = d, !.url = url, !.closed = closed]

\* The terminal screen; an address that was not stripped is still there.
Ended(w) == [Shut EXCEPT !.phase = "ended", !.url = window[w].url]

DisplayInit ==
    /\ gate = TRUE
    /\ lectureOpen = TRUE
    /\ live = [page |-> 1, version |-> 1, stamp |-> 1]
    /\ link = [d \in Links |-> Unissued]
    /\ latest = None
    /\ window = [w \in Windows |-> Shut]
    /\ stored = [w \in Windows |-> NoLaunch]
    /\ answers = [w \in Windows |-> <<>>]
    /\ signals = [w \in Windows |-> {}]
    /\ reports = {}

-----------------------------------------------------------------------------
(* Who may do what, as the database decides it.                               *)

\* What every check of a running binding asks.
Running(d) == /\ gate /\ lectureOpen
              /\ link[d].root = "open" /\ link[d].binding = "open" /\ link[d].term

\* Mutant of Servable: that a link was ended is left to the channel to tell.
ServableWhenEnded(d) == lectureOpen /\ link[d].root # "unissued" /\ link[d].term

\* verify_and_claim_google_display_session_v1 up to the user: with the gate off,
\* a binding that was revoked for that reason still serves snapshots.
Servable(d) == /\ lectureOpen
               /\ link[d].root = "open" /\ link[d].term
               /\ link[d].binding \in {"none", IF gate THEN "open" ELSE "disabled"}

Claimable(d, u) == Servable(d) /\ link[d].user \in {None, u}

\* Mutant of Claimed: the last window that asks takes the link.
ClaimedByLast(d, u) == IF Servable(d) THEN [link EXCEPT ![d].user = u] ELSE link

\* The link as the first window that asks leaves it.
Claimed(d, u) == IF Claimable(d, u) THEN [link EXCEPT ![d].user = u] ELSE link

\* private Broadcast reaches the windows that are subscribed to the link's topic.
Signalled(ds, kind) ==
    [w \in Windows |-> IF window[w].subscribed /\ window[w].link \in ds
                       THEN signals[w] \cup {kind} ELSE signals[w]]

-----------------------------------------------------------------------------
(* The teacher, the operator and the clock.                                   *)

\* Mutant of Retired: a binding that was only disabled is forgotten.
RetiredOpen(l) == [l EXCEPT !.root = IF @ = "open" THEN "ended" ELSE @,
                            !.binding = IF @ = "open" THEN "ended" ELSE @]

\* A link that can never be used again.
Retired(l) == [l EXCEPT !.root = IF @ = "open" THEN "ended" ELSE @,
                        !.binding = IF @ \in {"open", "disabled"} THEN "ended" ELSE @]

\* Every new link replaces all earlier ones, with or without Realtime.
Issue(d, realtime) ==
    /\ lectureOpen
    /\ link[d].root = "unissued"
    /\ realtime => gate
    /\ link' = [e \in Links |->
                   IF e = d
                   THEN [Unissued EXCEPT !.root = "open",
                                         !.binding = IF realtime THEN "open" ELSE "none"]
                   ELSE Retired(link[e])]
    /\ latest' = d
    /\ signals' = Signalled({e \in Links : link[e].binding \in {"open", "disabled"}}, "closed")
    /\ UNCHANGED <<gate, lectureOpen, live, window, stored, answers, reports>>

RetireAll ==
    /\ link' = [d \in Links |-> Retired(link[d])]
    /\ signals' = Signalled({d \in Links : link[d].binding \in {"open", "disabled"}}, "closed")

CloseLecture ==
    /\ "close" \in Events
    /\ lectureOpen
    /\ lectureOpen' = FALSE
    /\ RetireAll
    /\ UNCHANGED <<gate, live, latest, window, stored, answers, reports>>

\* The Admin session that issued the link is revoked; a later link belongs to another.
RevokeAdmin ==
    /\ "revoke" \in Events
    /\ \E d \in Links : link[d].root = "open"
    /\ RetireAll
    /\ UNCHANGED <<gate, lectureOpen, live, latest, window, stored, answers, reports>>

DisableGate ==
    /\ "gate" \in Events
    /\ gate' = FALSE
    /\ link' = [d \in Links |-> IF link[d].binding = "open"
                                THEN [link[d] EXCEPT !.binding = "disabled"] ELSE link[d]]
    /\ signals' = Signalled({d \in Links : link[d].binding = "open"}, "disabled")
    /\ UNCHANGED <<lectureOpen, live, latest, window, stored, answers, reports>>

EnableGate ==
    /\ "gate" \in Events
    /\ gate' = TRUE
    /\ UNCHANGED <<lectureOpen, live, link, latest, window, stored, answers, signals, reports>>

\* The token, the hard stop or the Admin session behind a link runs out.
TermEnds(d) ==
    /\ "term" \in Events
    /\ link[d].root = "open" /\ link[d].term
    /\ link' = [link EXCEPT ![d].term = FALSE]
    /\ UNCHANGED <<gate, lectureOpen, live, latest, window, stored, answers, signals, reports>>

\* 25 seconds without a heartbeat.
GoesQuiet(d) ==
    /\ link[d].fresh
    /\ link' = [link EXCEPT ![d].fresh = FALSE]
    /\ UNCHANGED <<gate, lectureOpen, live, latest, window, stored, answers, signals, reports>>

\* Only claimed bindings are told of a change.
Announce == signals' = Signalled({d \in Links : Running(d) /\ link[d].user # None}, "changed")

TurnPage(p) ==
    /\ lectureOpen
    /\ p # live.page
    /\ live.stamp < MaxStamp
    /\ live' = [page |-> p, version |-> live.version + 1, stamp |-> live.stamp + 1]
    /\ Announce
    /\ UNCHANGED <<gate, lectureOpen, link, latest, window, stored, answers, reports>>

\* A comment, a poll, a participant: another version of the row, the same page.
OtherChange ==
    /\ lectureOpen
    /\ live.stamp < MaxStamp
    /\ live' = [live EXCEPT !.stamp = @ + 1]
    /\ Announce
    /\ UNCHANGED <<gate, lectureOpen, link, latest, window, stored, answers, reports>>

Administration ==
    \/ \E d \in Links : \/ \E realtime \in BOOLEAN : Issue(d, realtime)
                        \/ TermEnds(d)
                        \/ GoesQuiet(d)
    \/ CloseLecture \/ RevokeAdmin \/ DisableGate \/ EnableGate
    \/ \E p \in 1..MaxPage : TurnPage(p)
    \/ OtherChange

-----------------------------------------------------------------------------
(* A window is opened, claims its link, is hidden, reloaded or closed.         *)

Showing(w) == window[w].phase \in {"live", "fallback"}

\* Mutant of Reported: the render of the page is not looked at.
ReportedUndrawn(v) ==
    IF v.phase = "live" /\ v.subscribed /\ v.shown # NoSlide /\ v.awake
    THEN [v EXCEPT !.pending = [page |-> v.shown.page, stamp |-> v.shown.stamp]]
    ELSE v

\* The reporter of a live window takes up what is drawn, in a frame of its tab.
Reported(v) == IF v.phase = "live" /\ v.subscribed /\ v.drawn /\ v.awake
               THEN [v EXCEPT !.pending = [page |-> v.shown.page, stamp |-> v.shown.stamp]]
               ELSE v

\* The load of w goes: what it sent still travels, nobody waits for an answer.
Abandoned(w, v) == {IF m.window = w THEN [m EXCEPT !.window = v, !.awaited = FALSE] ELSE m :
                       m \in reports}

\* w shows v from now on; nothing of its previous load reaches it.
Leaves(w, v) ==
    /\ window' = [window EXCEPT ![w] = v]
    /\ answers' = [answers EXCEPT ![w] = <<>>]
    /\ signals' = [signals EXCEPT ![w] = {}]
    /\ reports' = Abandoned(w, None)
    /\ link' = [d \in Links |-> [link[d] EXCEPT !.by = IF @ = w THEN None ELSE @]]

\* What local storage may know of the lecture: a window of the profile saw it closed.
Restored == {FALSE, ~lectureOpen}

OpenLink(w, d) ==
    /\ window[w].phase = "shut"
    /\ link[d].root # "unissued"
    /\ \E closed \in Restored : window' = [window EXCEPT ![w] = Loading(d, d, closed)]
    /\ UNCHANGED <<database, stored, answers, signals, reports>>

\* readDisplayLaunch: the address first, then what is stored and has not run out.
Launch(w) ==
    IF window[w].url # None THEN window[w].url
    ELSE IF stored[w].link # None /\ link[stored[w].link].term THEN stored[w].link
    ELSE None

Reload(w) ==
    /\ "reload" \in Events
    /\ window[w].phase # "shut"
    /\ stored[w].generation < MaxGeneration
    /\ \E closed \in Restored :
          Leaves(w, IF Launch(w) = None THEN Ended(w)
                    ELSE Loading(Launch(w), window[w].url, closed))
    /\ stored' = IF Launch(w) = None THEN [stored EXCEPT ![w] = NoLaunch] ELSE stored
    /\ UNCHANGED <<gate, lectureOpen, live, latest>>

\* A hidden tab synchronises once more, or not at all, and then schedules nothing ...
Sleep(w) ==
    /\ "hide" \in Events
    /\ Showing(w) /\ window[w].awake
    /\ window' = [window EXCEPT ![w].awake = FALSE]
    /\ UNCHANGED <<database, stored, answers, signals, reports>>

\* ... until it is visible again, when the frame it was to draw is drawn, too.
Wake(w) ==
    /\ ~window[w].awake
    /\ window' = [window EXCEPT ![w] = Reported([@ EXCEPT !.awake = TRUE])]
    /\ UNCHANGED <<database, stored, answers, signals, reports>>

CloseTab(w) ==
    /\ "reopen" \in Events
    /\ window[w].phase # "shut"
    /\ Leaves(w, Shut)
    /\ stored' = [stored EXCEPT ![w] = NoLaunch]
    /\ UNCHANGED <<gate, lectureOpen, live, latest>>

\* persistClaimedDisplayLaunch: the generation counts the loads of one launch.
Persisted(w) ==
    [link |-> window[w].link,
     generation |-> IF stored[w].link = window[w].link THEN stored[w].generation + 1 ELSE 1]

\* claim-display-realtime-session and what the page makes of its answer: a session,
\* 409 (in use), or 503, after which it goes on with snapshots.
Claim(w) ==
    LET d == window[w].link
    IN  /\ window[w].phase = "claiming"
        /\ link' = Claimed(d, Profile[w])
        /\ \/ /\ Claimable(d, Profile[w]) /\ link[d].binding = "open"
              /\ stored' = [stored EXCEPT ![w] = Persisted(w)]
              /\ window' = [window EXCEPT ![w] = [@ EXCEPT !.phase = "live", !.url = None,
                                            !.generation = Persisted(w).generation]]
           \/ /\ Servable(d) /\ ~Claimable(d, Profile[w])
              /\ stored' = [stored EXCEPT ![w] = NoLaunch]
              /\ window' = [window EXCEPT ![w] = Ended(w)]
           \/ /\ ~Servable(d) \/ (Claimable(d, Profile[w]) /\ link[d].binding # "open")
              /\ window' = [window EXCEPT ![w].phase = "fallback"]
              /\ UNCHANGED stored
        /\ UNCHANGED <<gate, lectureOpen, live, latest, answers, signals, reports>>

\* The claim, or only its answer, is lost: the page gives up.
ClaimFails(w) ==
    /\ window[w].phase = "claiming"
    /\ link' \in {link, Claimed(window[w].link, Profile[w])}
    /\ stored' = [stored EXCEPT ![w] = NoLaunch]
    /\ window' = [window EXCEPT ![w] = Ended(w)]
    /\ UNCHANGED <<gate, lectureOpen, live, latest, answers, signals, reports>>

\* 503 before the database was asked: the snapshots alone, with a binding still open.
ClaimUnavailable(w) ==
    /\ window[w].phase = "claiming"
    /\ window' = [window EXCEPT ![w].phase = "fallback"]
    /\ UNCHANGED <<database, stored, answers, signals, reports>>

-----------------------------------------------------------------------------
(* Snapshots.                                                                 *)

\* operator-live-snapshot verifies, and claims, on every request, which names the
\* version of the display section that the window knows, or none if it is forced ...
Ask(w, forced) ==
    LET d == window[w].link
    IN  /\ Len(answers[w]) < MaxAnswers
        /\ link' = Claimed(d, Profile[w])
        /\ answers' = [answers EXCEPT ![w] = Append(@,
              [valid |-> Claimable(d, Profile[w]), late |-> FALSE, read |-> FALSE,
               known |-> IF forced THEN 0 ELSE window[w].shown.version,
               slide |-> NoSlide])]

\* ... and reads the lecture in a second transaction: of a lecture that was closed in
\* between, its terminal state alone.
Read(w, i) ==
    /\ answers[w][i].valid /\ ~answers[w][i].read
    /\ answers' = [answers EXCEPT ![w][i].read = TRUE,
                                  ![w][i].slide = IF lectureOpen THEN live ELSE NoSlide]
    /\ UNCHANGED <<database, window, stored, signals, reports>>

Terminal(a) == a.read /\ a.slide = NoSlide

Poll(w) ==
    /\ Showing(w)
    /\ window[w].awake /\ ~window[w].closed
    /\ Ask(w, FALSE)
    /\ UNCHANGED <<gate, lectureOpen, live, latest, window, stored, signals, reports>>

\* A change was announced: the display section is asked for at once.
Refresh(w) ==
    /\ window[w].phase = "live"
    /\ "changed" \in signals[w]
    /\ Ask(w, TRUE)
    /\ signals' = [signals EXCEPT ![w] = @ \ {"changed"}]
    /\ UNCHANGED <<gate, lectureOpen, live, latest, window, stored, reports>>

\* Nothing older than what is applied replaces it, a section whose version the request
\* named is left out, and a redrawn page is drawn anew.
Applied(v, a) ==
    IF a.slide.version # a.known /\ a.slide.version >= v.shown.version
    THEN Reported([v EXCEPT !.shown = a.slide, !.drawn = @ /\ a.slide.page = v.shown.page])
    ELSE v

Overtaken(w, i) ==
    [j \in 1..(Len(answers[w]) - 1) |->
        IF j < i THEN [answers[w][j] EXCEPT !.late = TRUE] ELSE answers[w][j + 1]]

Receive(w, i) ==
    /\ answers[w][i].read /\ ~Terminal(answers[w][i])
    /\ window' = [window EXCEPT ![w] = Applied(@, answers[w][i])]
    /\ answers' = [answers EXCEPT ![w] = Overtaken(w, i)]
    /\ UNCHANGED <<database, stored, signals, reports>>

\* The lecture is shown as closed, in a new epoch: what else travels is dropped.
ReceiveTerminal(w, i) ==
    /\ Terminal(answers[w][i])
    /\ window' = [window EXCEPT ![w].closed = TRUE]
    /\ answers' = [answers EXCEPT ![w] = <<>>]
    /\ UNCHANGED <<database, stored, signals, reports>>

\* The window ends for good, its timers and its channel with it.
Finishes(w) ==
    /\ window' = [window EXCEPT ![w] = Ended(w)]
    /\ stored' = [stored EXCEPT ![w] = NoLaunch]
    /\ answers' = [answers EXCEPT ![w] = <<>>]
    /\ signals' = [signals EXCEPT ![w] = {}]
    /\ reports' = Abandoned(w, w)
    /\ UNCHANGED database

\* "Display session has ended.", unless a newer answer was applied already.
ReceiveEnd(w, i) ==
    /\ ~answers[w][i].valid
    /\ ~answers[w][i].late
    /\ Finishes(w)

LoseAnswer(w, i) ==
    /\ answers' = [answers EXCEPT ![w] = RemoveAt(@, i)]
    /\ UNCHANGED <<database, window, stored, signals, reports>>

Draw(w) ==
    /\ Showing(w)
    /\ window[w].shown.version # 0
    /\ ~window[w].drawn
    /\ window' = [window EXCEPT ![w] = Reported([@ EXCEPT !.drawn = TRUE])]
    /\ UNCHANGED <<database, stored, answers, signals, reports>>

-----------------------------------------------------------------------------
(* The private channel.                                                       *)

\* display_realtime_access_allowed_v1, asked when a socket joins.
Subscribe(w) ==
    LET d == window[w].link
    IN  /\ window[w].phase = "live"
        /\ ~window[w].subscribed
        /\ Running(d) /\ link[d].user = Profile[w]
        /\ window' = [window EXCEPT ![w] = Reported([@ EXCEPT !.subscribed = TRUE])]
        /\ UNCHANGED <<database, stored, answers, signals, reports>>

Disconnect(w) ==
    /\ window[w].subscribed
    /\ window' = [window EXCEPT ![w].subscribed = FALSE]
    /\ signals' = [signals EXCEPT ![w] = {}]
    /\ UNCHANGED <<database, stored, answers, reports>>

LoseSignal(w) ==
    /\ \E kind \in signals[w] : signals' = [signals EXCEPT ![w] = @ \ {kind}]
    /\ UNCHANGED <<database, window, stored, answers, reports>>

\* The kill switch takes the session away and leaves the snapshots.
HearDisabled(w) ==
    /\ "disabled" \in signals[w]
    /\ window' = [window EXCEPT ![w] =
          [Shut EXCEPT !.phase = "fallback", !.link = window[w].link,
                       !.closed = window[w].closed, !.awake = window[w].awake,
                       !.shown = window[w].shown, !.drawn = window[w].drawn]]
    /\ signals' = [signals EXCEPT ![w] = {}]
    /\ reports' = Abandoned(w, w)
    /\ UNCHANGED <<database, stored, answers>>

\* The link was replaced or revoked, or the lecture ended.
HearClosed(w) == "closed" \in signals[w] /\ Finishes(w)

\* The window's own timer.
Expire(w) == window[w].phase = "live" /\ ~link[window[w].link].term /\ Finishes(w)

-----------------------------------------------------------------------------
(* Reports: createDisplaySessionReporter and ack_display_realtime_delivery_v1. *)

Report(w, action, r) ==
    [window |-> w, awaited |-> TRUE, link |-> window[w].link, user |-> Profile[w],
     generation |-> window[w].generation, action |-> action, page |-> r.page, stamp |-> r.stamp]

Send(m) == /\ Cardinality(reports) < MaxReports
           /\ reports' = reports \cup {m}

\* flushRender, at once or when its retry timer fires.
FlushRender(w) ==
    /\ window[w].pending # NoReport
    /\ window[w].sending = NoReport
    /\ Send(Report(w, "rendered", window[w].pending))
    /\ window' = [window EXCEPT ![w].sending = window[w].pending, ![w].pending = NoReport]
    /\ UNCHANGED <<database, stored, answers, signals>>

Heartbeat(w) ==
    /\ window[w].ready /\ ~window[w].beating
    /\ window[w].sending = NoReport
    /\ Send(Report(w, "heartbeat", NoReport))
    /\ window' = [window EXCEPT ![w].beating = TRUE]
    /\ UNCHANGED <<database, stored, answers, signals>>

Admitted(m) == Running(m.link) /\ link[m.link].user = m.user

\* Mutant of InStep: reports of older loads are taken too.
InStepAnyLoad(m) ==
    IF m.action = "heartbeat"
    THEN link[m.link].connected /\ m.generation = link[m.link].generation
    ELSE m.stamp = live.stamp /\ m.page = live.page

\* stale_generation, render_required, snapshot_stale.
InStep(m) ==
    IF m.action = "heartbeat"
    THEN link[m.link].connected /\ m.generation = link[m.link].generation
    ELSE /\ m.generation >= link[m.link].generation
         /\ m.stamp = live.stamp /\ m.page = live.page

Accepted(m) == Admitted(m) /\ InStep(m)

Recorded(m) ==
    IF m.action = "heartbeat"
    THEN [link[m.link] EXCEPT !.fresh = TRUE]
    ELSE [link[m.link] EXCEPT !.connected = TRUE, !.fresh = TRUE, !.version = live.version,
                              !.page = m.page, !.generation = m.generation, !.by = m.window]

\* A report that failed is sent again, unless a newer one waits.
Failed(v) == [v EXCEPT !.pending = IF @ = NoReport THEN v.sending ELSE @, !.sending = NoReport]

Answered(v, action, accepted) ==
    CASE action = "heartbeat" -> [v EXCEPT !.beating = FALSE]
      [] action = "rendered" /\ accepted -> [v EXCEPT !.sending = NoReport, !.ready = TRUE]
      [] OTHER -> Failed(v)

Execute(m) ==
    /\ link' = IF Accepted(m) THEN [link EXCEPT ![m.link] = Recorded(m)] ELSE link
    /\ window' = IF m.awaited
                 THEN [window EXCEPT ![m.window] = Answered(@, m.action, Accepted(m))]
                 ELSE window
    /\ reports' = reports \ {m}
    /\ UNCHANGED <<gate, lectureOpen, live, latest, stored, answers, signals>>

\* The answer does not come; the report may still be executed.
Timeout(m) ==
    /\ m.awaited
    /\ window' = [window EXCEPT ![m.window] = Answered(@, m.action, FALSE)]
    /\ reports' = (reports \ {m}) \cup {[m EXCEPT !.awaited = FALSE]}
    /\ UNCHANGED <<database, stored, answers, signals>>

LoseReport(m) ==
    /\ ~m.awaited
    /\ reports' = reports \ {m}
    /\ UNCHANGED <<database, window, stored, answers, signals>>

Display(w) ==
    \/ \E d \in Links : OpenLink(w, d)
    \/ Reload(w) \/ CloseTab(w) \/ Sleep(w) \/ Wake(w)
    \/ Claim(w) \/ ClaimFails(w) \/ ClaimUnavailable(w)
    \/ Poll(w) \/ Refresh(w) \/ Draw(w)
    \/ \E i \in DOMAIN answers[w] : \/ Read(w, i) \/ Receive(w, i) \/ ReceiveTerminal(w, i)
                                    \/ ReceiveEnd(w, i) \/ LoseAnswer(w, i)
    \/ Subscribe(w) \/ Disconnect(w) \/ LoseSignal(w)
    \/ HearDisabled(w) \/ HearClosed(w) \/ Expire(w)
    \/ FlushRender(w) \/ Heartbeat(w)

Delivery == \E m \in reports : Execute(m) \/ Timeout(m) \/ LoseReport(m)

DisplayNext == Administration \/ (\E w \in Windows : Display(w)) \/ Delivery

DisplaySpec == DisplayInit /\ [][DisplayNext]_displayVars

-----------------------------------------------------------------------------
(* Fairness.  The page polls every five seconds and draws as long as its tab is   *)
(* visible, joins its channel and flushes its reports as long as it lives; a       *)
(* request that is repeated for ever is answered at last, and what travels arrives *)
(* or is lost.  Nobody has to issue, open, reload, close or look at anything, and  *)
(* no channel message has to arrive.                                                *)

Served(w) == \E i \in DOMAIN answers[w] : Read(w, i)
InOrder(w) == \E i \in DOMAIN answers[w] : Receive(w, i) \/ ReceiveTerminal(w, i)
AtTheEnd(w) == \E i \in DOMAIN answers[w] : ReceiveEnd(w, i)
OutOfOrder(w) == \E i \in DOMAIN answers[w] :
                    answers[w][i].late /\ ~answers[w][i].valid /\ LoseAnswer(w, i)
Answers(w, action) == \E m \in reports :
                         m.window = w /\ m.awaited /\ m.action = action /\ Execute(m)
Vanishes == \E m \in reports : ~m.awaited /\ (Execute(m) \/ LoseReport(m))

DisplayFairness ==
    /\ \A w \in Windows :
          /\ WF_displayVars(Claim(w)) /\ WF_displayVars(Poll(w)) /\ WF_displayVars(Served(w))
          /\ WF_displayVars(window[w].awake /\ Draw(w))
          /\ SF_displayVars(InOrder(w)) /\ SF_displayVars(AtTheEnd(w))
          /\ WF_displayVars(OutOfOrder(w))
          /\ WF_displayVars(Subscribe(w))
          /\ SF_displayVars(FlushRender(w)) /\ SF_displayVars(Heartbeat(w))
          /\ SF_displayVars(Answers(w, "rendered")) /\ SF_displayVars(Answers(w, "heartbeat"))
    /\ WF_displayVars(Vanishes)

FairDisplaySpec == DisplaySpec /\ DisplayFairness

-----------------------------------------------------------------------------
(* Properties.                                                                *)

Slide == [page : 0..MaxPage, version : 0..MaxStamp, stamp : 0..MaxStamp]
Rendered == [page : 0..MaxPage, stamp : 0..MaxStamp]
Answer == [valid : BOOLEAN, late : BOOLEAN, read : BOOLEAN, known : 0..MaxStamp,
           slide : Slide]
Link == [root : {"unissued", "open", "ended"}, binding : {"none", "open", "disabled", "ended"},
         term : BOOLEAN, user : Users \cup {None}, generation : 0..MaxGeneration,
         connected : BOOLEAN, fresh : BOOLEAN, version : 0..MaxStamp, page : 0..MaxPage,
         by : Windows \cup {None}]
Window == [phase : {"shut", "claiming", "live", "fallback", "ended"},
           link : Links \cup {None}, url : Links \cup {None}, generation : 0..MaxGeneration,
           closed : BOOLEAN, awake : BOOLEAN,
           shown : Slide, drawn : BOOLEAN, subscribed : BOOLEAN, pending : Rendered,
           sending : Rendered, ready : BOOLEAN, beating : BOOLEAN]
Message == [window : Windows \cup {None}, awaited : BOOLEAN, link : Links, user : Users,
            generation : 1..MaxGeneration, action : {"rendered", "heartbeat"},
            page : 0..MaxPage, stamp : 0..MaxStamp]

\* The type invariant.
DisplayTypeOK ==
    /\ gate \in BOOLEAN /\ lectureOpen \in BOOLEAN
    /\ live \in Slide
    /\ link \in [Links -> Link]
    /\ latest \in Links \cup {None}
    /\ window \in [Windows -> Window]
    /\ stored \in [Windows -> [link : Links \cup {None}, generation : 0..MaxGeneration]]
    /\ answers \in [Windows -> Seq(Answer)]
    /\ signals \in [Windows -> SUBSET {"changed", "disabled", "closed"}]
    /\ reports \subseteq Message

\* One display per lecture: only the link issued last can be in use, and a binding that
\* could still serve anybody, by the channel or after the kill switch, belongs to it.
OneDisplay ==
    \A d \in Links : link[d].root = "open" \/ link[d].binding \in {"open", "disabled"}
                        => d = latest /\ link[d].root = "open" /\ lectureOpen

\* A slide is only ever seen in a window of the profile that claimed its link, also in
\* windows that lost the race for the claim or went on after the kill switch.
ShownToClaimant ==
    \A w \in Windows : window[w].shown # NoSlide => link[window[w].link].user = Profile[w]

\* A window only stops asking, as if the lecture were closed, when it is.
ClosedIsClosed == \A w \in Windows : window[w].closed => ~lectureOpen

DisplaysSound == DisplayTypeOK /\ OneDisplay /\ ShownToClaimant /\ ClosedIsClosed

\* get_google_admin_display_session_status_v1: what the teacher's badge says.
Badge ==
    IF latest = None \/ link[latest].binding = "none" THEN "none"
    ELSE LET l == link[latest]
         IN  IF l.root # "open" \/ l.binding # "open" \/ ~l.term \/ ~lectureOpen THEN "ended"
             ELSE IF ~l.connected THEN "waiting"
             ELSE IF ~l.fresh THEN "reconnecting"
             ELSE IF l.version = live.version /\ l.page = live.page THEN "synced"
             ELSE "connected"

\* "synced" is not a promise about messages: the load that was acknowledged last, while it
\* lives, has drawn the present page at the present version, whatever was late or repeated.
SyncedIsRendered ==
    \A w \in Windows :
        Badge = "synced" /\ link[latest].by = w
            => window[w].drawn /\ window[w].shown.page = live.page
                               /\ window[w].shown.version = live.version

\* Nothing that ended comes back, neither a link nor a binding, not even one that was only
\* disabled, whatever is switched on again, and the user of a link never changes.
LinksFinal ==
    [][\A d \in Links :
          /\ link[d].root = "ended" => link'[d].root = "ended"
          /\ link[d].binding = "ended" => link'[d].binding = "ended"
          /\ link[d].binding = "disabled" => link'[d].binding \in {"disabled", "ended"}
          /\ link[d].user # None => link'[d].user = link[d].user]_displayVars

\* A window whose link was replaced, revoked or has run out comes to its terminal screen,
\* or shows the lecture as closed, even if every message of the channel is lost; a tab that
\* is left hidden does when it is looked at again.
Doomed(w, d) == /\ window[w].link = d /\ Showing(w)
                /\ link[d].root = "ended" \/ ~link[d].term
                /\ window[w].awake /\ ~window[w].closed
WindowsEnd == \A w \in Windows : \A d \in Links : Doomed(w, d) ~> ~Doomed(w, d)

\* A load that shows the present snapshot in a visible tab, on a running channel, and was
\* not overtaken by a newer load is seen as synced, whichever reports and answers were lost.
Reporting(w) ==
    LET v == window[w]
    IN  /\ v.phase = "live" /\ v.subscribed /\ v.drawn /\ v.awake
        /\ v.shown.stamp = live.stamp
        /\ v.link = latest /\ Running(latest)
        /\ v.generation >= link[latest].generation
ReportsArrive == \A w \in Windows : Reporting(w) ~> (Badge = "synced" \/ ~Reporting(w))

\* docs/PHASE7_28_REQUIREMENTS_AND_DESIGN.md:172: disabling the gate "atomically blocks new
\* issue/claim/relay admission".
GateBlocksClaims == [][~gate => \A d \in Links : link'[d].user = link[d].user]_displayVars

\* docs/LECTURE_UX_FINAL_REQUIREMENTS_AND_IMPLEMENTATION_PLAN.md:375: "ACK after private
\* subscription, initial snapshot, and first PDF/view render."
FirstRender(w) == /\ window[w].phase = "live" /\ window[w].subscribed /\ window[w].drawn
                  /\ Running(window[w].link)
FirstRenderAcknowledged ==
    \A w \in Windows : FirstRender(w) ~> (window[w].ready \/ ~FirstRender(w))
=============================================================================
