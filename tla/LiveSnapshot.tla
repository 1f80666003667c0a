---------------------------- MODULE LiveSnapshot ----------------------------
(* The browser's copy of a lecture: CompassStateContext and its live snapshot *)
(* fence.  The database bumps the version of every section that changes;       *)
(* snapshots are asked for by a polling loop, by forced refreshes and by the   *)
(* route effect, travel independently, and may arrive in any order, after the  *)
(* lecture was left, or not at all.  Section versions are compared within a    *)
(* lecture; a lifecycle epoch discards what was asked before the scene changed.*)
(* Epochs and request numbers are only ever compared, so a request carries     *)
(* whether its epoch is current, and "sent" the order of the current ones.     *)
EXTENDS Integers, Sequences, FiniteSets, SequencesExt

CONSTANTS
    Lectures,       \* lecture sessions a student can join
    NoLecture,      \* no lecture joined
    Requests,       \* slots for snapshot requests in flight
    NoRequest,      \* no request
    Posts,          \* comments the student sends
    Likes,          \* likes the student sends
    CommentLimit,   \* newest comments in a snapshot (25 in the code)
    LikeLimit,      \* newest comments whose like totals it carries (5 in the code)
    MaxChanges,     \* bound on the changes of each lecture
    MaxMoves        \* bound on what the user does: join, leave, navigate, refresh,
                    \* comment and like

ASSUME SnapshotAssumption ==
    /\ NoLecture \notin Lectures
    /\ NoRequest \notin Requests
    /\ MaxChanges \in [Lectures -> Nat]
    /\ \E l \in Lectures : \A m \in Lectures : MaxChanges[m] <= MaxChanges[l]
    /\ {CommentLimit, LikeLimit, MaxMoves} \subseteq Nat
    /\ IsFiniteSet(Likes) /\ Posts \cap Likes = {}

VARIABLES
    server,     \* lecture -> what the database serves of it
    session,    \* the joined lecture and the status the browser knows
    live,       \* the route is one that synchronises
    effectDue,  \* a dependency of the route effect changed: it is to run
    awake,      \* the tab is visible, or hidden and still to synchronise once
    known,      \* requestedVersions of the fence
    applied,    \* appliedVersions of the fence
    sent,       \* requests of the current fence, in the order they were issued
    inFlight,   \* liveSnapshotInFlightRef
    loop,       \* the request the polling loop awaits
    requests,   \* the requests travelling
    display,    \* the slide shown: of which lecture, at which version
    comments,   \* the comments shown
    liked,      \* likedCommentIdsRef
    archive,    \* the archive fetch of a closed lecture: none, asked or shown
    ops,        \* the student's own comments and likes under way
    moves       \* how often the user moved, for the bound

scene == <<session, live, effectDue, awake>>
fence == <<known, applied, sent, inFlight, loop, requests>>
shown == <<display, comments, liked, archive>>
snapshotVars == <<server, scene, fence, shown, ops, moves>>

-----------------------------------------------------------------------------
(* Values.                                                                   *)

Sections == {"lecture", "comments", "likes", "pdf"}

\* A null version sorts below every version.
NoVersion == -1
NullVersions == [s \in Sections |-> NoVersion]

MaxComment == LET counts == {MaxChanges[l] : l \in Lectures}
              IN  CHOOSE n \in counts : \A m \in counts : m <= n
CommentIds == Lectures \X (1..MaxComment)
Ops == Posts \cup Likes

\* A comment the student sends has an id of its own until the database gives it one.
ASSUME IdAssumption == Ops \cap CommentIds = {}

\* The last n comments: numbers grow with the time of creation.
Newest(ids, n) == {c \in ids : Cardinality({d \in ids : d[2] > c[2]}) < n}

Card(c, likes, mine) == [id |-> c, pending |-> FALSE, likes |-> likes, mine |-> mine]
PendingCard(p) == [id |-> p, pending |-> TRUE, likes |-> 0, mine |-> FALSE]
Ids(cards) == {card.id : card \in cards}
Pending(cards) == {card \in cards : card.pending}

NoSession == [lecture |-> NoLecture, status |-> "none"]
NoDisplay == [lecture |-> NoLecture, version |-> NoVersion]

Unserved == [version |-> NullVersions, written |-> 0, visible |-> {},
             likes |-> <<>>, mine |-> {}]
Free == [busy |-> FALSE, lecture |-> NoLecture, current |-> FALSE, late |-> FALSE,
         all |-> FALSE, awaits |-> {}, known |-> NullVersions, snapshot |-> Unserved,
         participant |-> {}]
NoOp == [phase |-> "idle", lecture |-> NoLecture, current |-> FALSE,
         comment |-> <<>>, liked |-> {}]

Changes(l) == LET v == server[l].version
              IN  v["lecture"] + v["comments"] + v["likes"] + v["pdf"]
Open(l) == server[l].version["lecture"] = 0
ChangesLeft(l) == Changes(l) < MaxChanges[l]
MayChange(l) == Open(l) /\ ChangesLeft(l)

\* deriveLiveSessionCapabilities.
CanRunLiveSync == session.status = "open" /\ live

\* The page loads without a lecture or with the one restored from local storage.
SnapshotInit ==
    /\ server = [l \in Lectures |->
                    [version |-> [s \in Sections |-> 0], written |-> 0, visible |-> {},
                     likes |-> [c \in CommentIds |-> 0], mine |-> {}]]
    /\ \/ session = NoSession
       \/ \E l \in Lectures : session = [lecture |-> l, status |-> "open"]
    /\ live = TRUE
    /\ effectDue = TRUE
    /\ awake = TRUE
    /\ known = NullVersions
    /\ applied = NullVersions
    /\ sent = <<>>
    /\ inFlight = NoRequest
    /\ loop = NoRequest
    /\ requests = [r \in Requests |-> Free]
    /\ display = NoDisplay
    /\ comments = {}
    /\ liked = {}
    /\ archive = "none"
    /\ ops = [o \in Ops |-> NoOp]
    /\ moves = 0

-----------------------------------------------------------------------------
(* The database, moved by everybody else in the lecture.  Triggers bump the   *)
(* version of the section that changes.                                      *)

Bumped(row, s) == [row EXCEPT !.version[s] = @ + 1]

WithComment(row, l) ==
    LET c == <<l, row.written + 1>>
    IN  [Bumped(row, "comments") EXCEPT !.written = @ + 1, !.visible = @ \cup {c}]

WithLike(row, c) == [Bumped(row, "likes") EXCEPT !.likes[c] = @ + 1]

OtherComments(l) ==
    /\ MayChange(l)
    /\ server' = [server EXCEPT ![l] = WithComment(@, l)]

OtherLikes(l) ==
    /\ MayChange(l)
    /\ \E c \in server[l].visible : server' = [server EXCEPT ![l] = WithLike(@, c)]

\* Also the comments of a closed lecture, until its archive expires.
Moderate(l) ==
    LET row == server[l] IN
    /\ ChangesLeft(l)
    /\ \E i \in 1..row.written :
          server' = [server EXCEPT ![l] = [Bumped(row, "comments") EXCEPT
                        !.visible = SymDiff(row.visible, {<<l, i>>})]]

TurnPage(l) ==
    /\ MayChange(l)
    /\ server' = [server EXCEPT ![l] = Bumped(@, "pdf")]

CloseLecture(l) ==
    /\ MayChange(l)
    /\ server' = [server EXCEPT ![l] = Bumped(@, "lecture")]

OthersAct ==
    /\ \E l \in Lectures : \/ OtherComments(l) \/ OtherLikes(l) \/ Moderate(l)
                           \/ TurnPage(l) \/ CloseLecture(l)
    /\ UNCHANGED <<scene, fence, shown, ops>>

-----------------------------------------------------------------------------
(* Joining, leaving and moving between routes.                                *)

\* lifecycleRequestEpochRef.current += 1: what travels is of an older epoch.
Stale(pool) == [i \in DOMAIN pool |-> [pool[i] EXCEPT !.current = FALSE]]

\* Mutant of ResetFence: the next lecture inherits the versions of the last.
KeepFence ==
    /\ UNCHANGED <<known, applied>>
    /\ sent' = <<>>
    /\ inFlight' = NoRequest

ResetFence ==
    /\ known' = NullVersions
    /\ applied' = NullVersions
    /\ sent' = <<>>
    /\ inFlight' = NoRequest

Counted == moves < MaxMoves /\ moves' = moves + 1

\* The user acts in a tab that is visible.
UserMoves == awake /\ Counted

NoContent ==
    /\ display' = NoDisplay
    /\ comments' = {}
    /\ liked' = {}
    /\ archive' = "none"

\* selectLectureSession, after joinLectureByCode answered or an operator chose.
SelectLecture(l) ==
    /\ UserMoves
    /\ session.lecture # l
    /\ session' = [lecture |-> l, status |-> IF Open(l) THEN "open" ELSE "closed"]
    /\ effectDue' = TRUE
    /\ NoContent
    /\ ResetFence
    /\ requests' = Stale(requests)
    /\ ops' = Stale(ops)
    /\ UNCHANGED <<server, live, awake, loop>>

\* clearLectureSessionState.
LeaveLecture ==
    /\ UserMoves
    /\ session # NoSession
    /\ session' = NoSession
    /\ effectDue' = TRUE
    /\ NoContent
    /\ ResetFence
    /\ requests' = Stale(requests)
    /\ ops' = Stale(ops)
    /\ UNCHANGED <<server, live, awake, loop>>

\* A link inside the application: the provider and its state stay mounted.
Navigate ==
    /\ UserMoves
    /\ session # NoSession
    /\ live' = ~live
    /\ effectDue' = TRUE
    /\ archive' = IF archive = "asked" THEN "none" ELSE archive
    /\ UNCHANGED <<server, session, awake, fence, display, comments, liked, ops>>

\* The user leaves the tab: a hidden tab synchronises once, half a minute later,
\* or not at all, and then schedules nothing more ...
Sleep ==
    /\ UserMoves
    /\ CanRunLiveSync
    /\ awake' = FALSE
    /\ UNCHANGED <<server, session, live, effectDue, fence, shown, ops>>

\* ... until it is visible, or the hook is set up, again.
Wake ==
    /\ ~awake
    /\ awake' = TRUE
    /\ UNCHANGED <<server, session, live, effectDue, fence, shown, ops>>

\* A request leaves with the versions the fence knows, those forced left out.
Ask(forced, all) ==
    [busy |-> TRUE, lecture |-> session.lecture, current |-> TRUE, late |-> FALSE,
     all |-> all, awaits |-> {"snapshot"} \cup (IF all THEN {"participant"} ELSE {}),
     known |-> [s \in Sections |-> IF s \in forced THEN NoVersion ELSE known[s]],
     snapshot |-> Unserved, participant |-> {}]

\* The effects of the route, the session and the archive, which React runs
\* after the change: a new epoch, a new fence, and one full request or, for a
\* closed lecture, its archive.
RunEffect ==
    /\ effectDue
    /\ effectDue' = FALSE
    /\ loop' = NoRequest
    /\ ops' = Stale(ops)
    /\ known' = NullVersions
    /\ applied' = NullVersions
    /\ liked' = {}
    /\ IF CanRunLiveSync
       THEN \E r \in Requests :
               /\ ~requests[r].busy
               /\ requests' = [Stale(requests) EXCEPT
                     ![r] = [Ask(Sections, TRUE) EXCEPT !.known = NullVersions]]
               /\ sent' = <<r>>
               /\ inFlight' = r
               /\ archive' = "none"
       ELSE /\ requests' = Stale(requests)
            /\ sent' = <<>>
            /\ inFlight' = NoRequest
            /\ archive' = IF live /\ session.status = "closed" THEN "asked" ELSE "none"
    /\ UNCHANGED <<server, session, live, awake, display, comments>>

\* getArchive: every visible comment with its likes, and the last slide.
ArchiveArrives ==
    /\ archive = "asked"
    /\ archive' = "shown"
    /\ LET row == server[session.lecture] IN
          /\ comments' = {Card(c, row.likes[c], FALSE) : c \in row.visible}
          /\ display' = [lecture |-> session.lecture, version |-> row.version["pdf"]]
    /\ UNCHANGED <<server, scene, fence, liked, ops>>

-----------------------------------------------------------------------------
(* Snapshot requests.                                                         *)

\* Mutant of Released: the promise's "finally" is missing.
Held(slot, r) == slot

\* The end of a promise clears the references that hold it.
Released(slot, r) == IF slot = r THEN NoRequest ELSE slot

\* ... and its place in the order of the fence, of which it has one.
Without(s, r) ==
    IF r \in ToSet(s) THEN RemoveAt(s, CHOOSE i \in DOMAIN s : s[i] = r) ELSE s

Issue(r, forced, all) ==
    /\ ~requests[r].busy
    /\ requests' = [requests EXCEPT ![r] = Ask(forced, all)]
    /\ sent' = Append(sent, r)
    /\ inFlight' = r

\* runLiveSync: the loop asks once, or awaits what is already in flight.
Poll ==
    /\ CanRunLiveSync
    /\ awake
    /\ ~effectDue
    /\ loop = NoRequest
    /\ IF inFlight # NoRequest
       THEN /\ loop' = inFlight
            /\ UNCHANGED <<requests, sent, inFlight>>
       ELSE \E r \in Requests : Issue(r, {}, FALSE) /\ loop' = r
    /\ UNCHANGED <<server, scene, known, applied, shown, ops>>

\* refreshComments and the deadline timer never share what is in flight.
ForcedRefresh ==
    /\ Counted
    /\ session # NoSession
    /\ ~effectDue
    /\ \E r \in Requests :
          \/ Issue(r, {"comments", "likes"}, FALSE)
          \/ CanRunLiveSync /\ Issue(r, Sections, TRUE)
    /\ UNCHANGED <<server, scene, known, applied, loop, shown, ops>>

\* The public snapshot, or the bare terminal state of a closed lecture the
\* caller may no longer read.
AnswerSnapshot(r) ==
    LET q == requests[r]  row == server[q.lecture] IN
    /\ "snapshot" \in q.awaits
    /\ \/ requests' = [requests EXCEPT ![r].awaits = @ \ {"snapshot"},
                                       ![r].snapshot = row]
       \/ /\ ~Open(q.lecture)
          /\ requests' = [requests EXCEPT ![r].awaits = {}, ![r].snapshot = Unserved]
    /\ UNCHANGED <<server, scene, known, applied, sent, inFlight, loop, shown, ops>>

AnswerParticipant(r) ==
    LET q == requests[r] IN
    /\ "participant" \in q.awaits
    /\ requests' = [requests EXCEPT ![r].awaits = @ \ {"participant"},
                                    ![r].participant = server[q.lecture].mine]
    /\ UNCHANGED <<server, scene, known, applied, sent, inFlight, loop, shown, ops>>

Terminal(q) == q.snapshot = Unserved
Changed(q, s) == q.snapshot.version[s] \notin {NoVersion, q.known[s]}
\* Mutant of Current: a response of an older epoch is applied.
AnyEpoch(q) == TRUE

Current(q) == q.current
\* Mutant of IsFresh: the section is taken however old it is.
AnyVersion(v, s) == TRUE

IsFresh(v, s) == v[s] >= applied[s]
Closes(q) == Terminal(q) \/ (Changed(q, "lecture") /\ q.snapshot.version["lecture"] = 1)

\* mergeLiveStateVersions and advanceLiveStateVersions: the second lets a null
\* version through.
Merged(old, v) == [s \in Sections |-> IF old[s] > v[s] THEN old[s] ELSE v[s]]
Advanced(old, v) ==
    [s \in Sections |-> IF v[s] = NoVersion \/ old[s] <= v[s] THEN v[s] ELSE old[s]]

\* Comments and like totals of a snapshot: the comments replace all but the
\* pending ones; totals overwrite every card, 0 where a card has none.
CommentsAfter(q) ==
    LET row == q.snapshot
        base == IF Changed(q, "comments") /\ IsFresh(row.version, "comments")
                THEN Pending(comments)
                     \cup {Card(c, 0, FALSE) : c \in Newest(row.visible, CommentLimit)}
                ELSE comments
        totals == Newest(row.visible, LikeLimit)
    IN  IF Changed(q, "likes") /\ IsFresh(row.version, "likes")
        THEN {[card EXCEPT !.likes = IF card.id \in totals THEN row.likes[card.id] ELSE 0,
                           !.mine = q.all /\ card.id \in liked] : card \in base}
        ELSE base

MarkMine(cards, ids) == {[card EXCEPT !.mine = card.id \in ids] : card \in cards}

\* A terminal snapshot starts a new epoch and drops pending comments.
NewEpoch(pool) == Stale(pool)
WithoutPending(cards) == cards \ Pending(cards)

Before(r, q) == \E i, j \in DOMAIN sent : i < j /\ sent[i] = r /\ sent[j] = q

\* Everything the browser does with a snapshot, and the end of its promise.
Deliver(r) ==
    LET q == requests[r]
        v == q.snapshot.version
        mine == q.all /\ ~Terminal(q) /\ ~q.late
        cards == IF mine THEN MarkMine(CommentsAfter(q), q.participant)
                         ELSE CommentsAfter(q)
        rest == [i \in Requests |->
                    IF i = r THEN Free
                    ELSE IF Before(i, r) THEN [requests[i] EXCEPT !.late = TRUE]
                    ELSE requests[i]]
    IN
    /\ q.busy
    /\ q.awaits = {}
    /\ loop' = Released(loop, r)
    /\ inFlight' = Released(inFlight, r)
    /\ sent' = Without(sent, r)
    /\ IF ~Current(q)
       THEN /\ requests' = [requests EXCEPT ![r] = Free]
            /\ UNCHANGED <<scene, known, applied, shown, ops>>
       ELSE /\ session' = IF Closes(q) THEN [lecture |-> q.lecture, status |-> "closed"]
                          ELSE IF Changed(q, "lecture") /\ IsFresh(v, "lecture")
                          THEN [lecture |-> q.lecture, status |-> "open"]
                          ELSE session
            /\ effectDue' = (effectDue \/ session' # session)
            /\ display' = IF Changed(q, "pdf") /\ IsFresh(v, "pdf")
                          THEN [lecture |-> q.lecture, version |-> v["pdf"]]
                          ELSE display
            /\ comments' = IF Closes(q) THEN WithoutPending(cards) ELSE cards
            /\ liked' = IF mine THEN q.participant ELSE liked
            /\ known' = Advanced(known, v)
            /\ applied' = Merged(applied, v)
            /\ requests' = IF Closes(q) THEN NewEpoch(rest) ELSE rest
            /\ ops' = IF Closes(q) THEN NewEpoch(ops) ELSE ops
            /\ UNCHANGED <<live, awake, archive>>
    /\ UNCHANGED server

\* A timeout or an error: the promise rejects, the loop tries again later.
Fail(r) ==
    /\ requests[r].busy
    /\ requests' = [requests EXCEPT ![r] = Free]
    /\ loop' = Released(loop, r)
    /\ inFlight' = Released(inFlight, r)
    /\ sent' = Without(sent, r)
    /\ UNCHANGED <<server, scene, known, applied, shown, ops>>

-----------------------------------------------------------------------------
(* The student's own comments and likes.                                      *)

\* addComment: the pending card is shown before the insert is sent.
AddComment(p) ==
    /\ UserMoves
    /\ ops[p].phase = "idle"
    /\ CanRunLiveSync
    /\ comments' = comments \cup {PendingCard(p)}
    /\ ops' = [ops EXCEPT ![p] = [NoOp EXCEPT !.phase = "sent", !.current = TRUE,
                                              !.lecture = session.lecture]]
    /\ UNCHANGED <<server, scene, fence, display, liked, archive>>

InsertComment(p) ==
    LET l == ops[p].lecture IN
    /\ ops[p].phase = "sent"
    /\ MayChange(l)
    /\ server' = [server EXCEPT ![l] = WithComment(@, l)]
    /\ ops' = [ops EXCEPT ![p].phase = "saved",
                          ![p].comment = <<l, server[l].written + 1>>]
    /\ UNCHANGED <<scene, fence, shown>>

\* toggleCommentLike: only forward, and never twice on a card marked mine.
AddLike(k) ==
    /\ UserMoves
    /\ ops[k].phase = "idle"
    /\ CanRunLiveSync
    /\ \E card \in comments \ Pending(comments) :
          /\ ~card.mine
          /\ ops' = [ops EXCEPT ![k] = [NoOp EXCEPT !.phase = "sent", !.current = TRUE,
                                                    !.lecture = session.lecture,
                                                    !.comment = card.id]]
    /\ UNCHANGED <<server, scene, fence, shown>>

InsertLike(k) ==
    LET l == ops[k].lecture  c == ops[k].comment  row == server[l] IN
    /\ ops[k].phase = "sent"
    /\ ops' = [ops EXCEPT ![k].phase = "saved"]
    /\ \/ /\ c \in row.mine            \* the unique key: already liked
          /\ UNCHANGED server
       \/ /\ c \in row.visible \ row.mine
          /\ MayChange(l)
          /\ server' = [server EXCEPT ![l] = [WithLike(row, c) EXCEPT
                                                   !.mine = row.mine \cup {c}]]
    /\ UNCHANGED <<scene, fence, shown>>

Settled(p, c) == {card \in comments : card.id \notin {p, c}} \cup {Card(c, 0, FALSE)}

CommentAnswered(p) ==
    LET c == ops[p].comment IN
    /\ ops[p].phase = "saved"
    /\ IF ops[p].current
       THEN /\ comments' = Settled(p, c)
            /\ ops' = [ops EXCEPT ![p].phase = "refresh"]
       ELSE /\ ops' = [ops EXCEPT ![p] = [NoOp EXCEPT !.phase = "done"]]
            /\ UNCHANGED comments
    /\ UNCHANGED <<server, scene, fence, display, liked, archive>>

LikeAnswered(k) ==
    LET c == ops[k].comment IN
    /\ ops[k].phase = "saved"
    /\ IF ops[k].current
       THEN /\ liked' = liked \cup {c}
            /\ comments' = {IF card.id = c /\ ~card.mine
                            THEN [card EXCEPT !.mine = TRUE, !.likes = @ + 1]
                            ELSE card : card \in comments}
            /\ ops' = [ops EXCEPT ![k].phase = "refresh"]
       ELSE /\ ops' = [ops EXCEPT ![k] = [NoOp EXCEPT !.phase = "done"]]
            /\ UNCHANGED <<comments, liked>>
    /\ UNCHANGED <<server, scene, fence, display, archive>>

\* The insert is refused, or its answer is lost after it was done.
OpFails(o) ==
    /\ ops[o].phase \in {"sent", "saved"}
    /\ comments' = {card \in comments : card.id # o}
    /\ ops' = [ops EXCEPT ![o] = [NoOp EXCEPT !.phase = "done"]]
    /\ UNCHANGED <<server, scene, fence, display, liked, archive>>

\* refreshParticipantLiveState: read in one step, applied in a later one,
\* whatever the epoch is by then.
ReadParticipant(o) ==
    /\ ops[o].phase = "refresh"
    /\ ops' = [ops EXCEPT ![o].phase = "read", ![o].liked = server[ops[o].lecture].mine]
    /\ UNCHANGED <<server, scene, fence, shown>>

ApplyParticipant(o) ==
    /\ ops[o].phase = "read"
    /\ liked' = ops[o].liked
    /\ comments' = MarkMine(comments, ops[o].liked)
    /\ ops' = [ops EXCEPT ![o] = [NoOp EXCEPT !.phase = "done"]]
    /\ UNCHANGED <<server, scene, fence, display, archive>>

OpSteps ==
    \/ \E p \in Posts : InsertComment(p) \/ CommentAnswered(p)
    \/ \E k \in Likes : InsertLike(k) \/ LikeAnswered(k)
    \/ \E o \in Ops : OpFails(o) \/ ReadParticipant(o) \/ ApplyParticipant(o)

-----------------------------------------------------------------------------
UserActs ==
    \/ \E l \in Lectures : SelectLecture(l)
    \/ LeaveLecture
    \/ Navigate
    \/ Sleep
    \/ ForcedRefresh
    \/ \E p \in Posts : AddComment(p)
    \/ \E k \in Likes : AddLike(k)

BrowserActs ==
    \/ Wake
    \/ RunEffect
    \/ ArchiveArrives
    \/ Poll
    \/ \E r \in Requests :
          AnswerSnapshot(r) \/ AnswerParticipant(r) \/ Deliver(r) \/ Fail(r)

SnapshotNext ==
    \/ UserActs
    \/ (OthersAct \/ BrowserActs \/ OpSteps) /\ UNCHANGED moves

SnapshotSpec == SnapshotInit /\ [][SnapshotNext]_snapshotVars

\* The polling loop retries for as long as it is enabled, in a tab that is not left
\* hidden; React runs a due effect; and a network that keeps being tried answers in
\* the end: an answer and its delivery may fail, but not all of them for ever.
Answered(r) == AnswerSnapshot(r) \/ AnswerParticipant(r)

SnapshotFairness ==
    /\ WF_snapshotVars(Poll /\ UNCHANGED moves)
    /\ SF_snapshotVars(RunEffect /\ UNCHANGED moves)
    /\ SF_snapshotVars(\E r \in Requests : Answered(r) /\ UNCHANGED moves)
    /\ SF_snapshotVars(\E r \in Requests : Deliver(r) /\ UNCHANGED moves)

FairSnapshotSpec == SnapshotSpec /\ SnapshotFairness

-----------------------------------------------------------------------------
(* Properties.                                                                *)

Versions == [Sections -> NoVersion..MaxComment]
ShownIds == CommentIds \cup Posts
Served == [version : Versions, written : 0..MaxComment, visible : SUBSET CommentIds,
           likes : [CommentIds -> 0..MaxComment], mine : SUBSET CommentIds]
Cards == [id : ShownIds, pending : BOOLEAN, likes : 0..MaxComment + Cardinality(Likes),
          mine : BOOLEAN]

\* What every variable holds: sections at null or counted versions, at most one
\* card for a comment, and only travelling requests in the order of the fence.
SnapshotTypeOK ==
    /\ server \in [Lectures -> Served]
    /\ session \in [lecture : Lectures, status : {"open", "closed"}] \cup {NoSession}
    /\ {live, effectDue, awake} \subseteq BOOLEAN
    /\ {known, applied} \subseteq Versions
    /\ ToSet(sent) \subseteq {r \in Requests : requests[r].busy}
    /\ {inFlight, loop} \subseteq Requests \cup {NoRequest}
    /\ display \in [lecture : Lectures, version : 0..MaxComment] \cup {NoDisplay}
    /\ comments \subseteq Cards
    /\ \A a, b \in comments : a.id = b.id => a = b
    /\ liked \subseteq CommentIds
    /\ archive \in {"none", "asked", "shown"}

\* What a student sees only moves forward: the slide never goes back to an older
\* version of the same lecture, whatever order the responses of polls, forced
\* refreshes and earlier route effects arrive in (getLiveSnapshotFreshness and the
\* epoch check); and a lecture once shown as closed is never shown as open again,
\* not by an open response that was already travelling.
NeverBack ==
    [][display'.lecture = display.lecture => display'.version >= display.version]_display

ClosedForGood ==
    [][session.status = "closed" /\ session'.lecture = session.lecture
          => session'.status = "closed"]_session

OnlyForward == NeverBack /\ ClosedForGood

\* The fence and what is shown are well formed, a comment has one card, and what is
\* shown belongs to the joined lecture: a response asked for a lecture
\* that was left or switched away from changes nothing (the epoch check), and a
\* closed lecture shows no comment as being sent.
OwnLecture ==
    /\ display # NoDisplay => display.lecture = session.lecture
    /\ \A card \in comments : ~card.pending => card.id[1] = session.lecture

ClosedQuiet == session.status = "closed" => Pending(comments) = {}

ShownIsOwn == SnapshotTypeOK /\ OwnLecture /\ ClosedQuiet

\* A version the browser tells the server it knows is one it shows: otherwise
\* the server would leave the section out of every later snapshot.
KnownIsShown ==
    session # NoSession =>
      LET row == server[session.lecture] IN
      /\ known["pdf"] <= display.version
      /\ known["comments"] = row.version["comments"]
            => Newest(row.visible, CommentLimit) \subseteq Ids(comments)

\* A student who stays on the page of a lecture in a visible tab, or comes back to it,
\* learns that the lecture was closed.
CloseReaches ==
    \A l \in Lectures :
       (session.lecture = l /\ live /\ awake /\ ~Open(l))
          ~> (session # [lecture |-> l, status |-> "open"] \/ ~live \/ ~awake)
=============================================================================
