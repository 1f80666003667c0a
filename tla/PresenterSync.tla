---------------------------- MODULE PresenterSync ----------------------------
(* The Presenter Bridge on the teacher's machine, the network, and the         *)
(* connections in the database together.  The Bridge watches the slide show,   *)
(* takes a slide that stayed for two observations as stable, and sends the     *)
(* latest stable page through a dispatcher with one request in flight; beside  *)
(* it heartbeats keep the lease.  A request may be answered, be executed       *)
(* without its answer arriving, be executed much later, or get lost; the       *)
(* Bridge repeats it, gives up, faults, or dies.                              *)
EXTENDS PresenterConnection

CONSTANTS
    NoConnection,   \* no session in the Bridge
    MaxMisses       \* heartbeats in a row without an answer that end a session (3)

ASSUME BridgeAssumption == NoConnection \notin Connections /\ MaxMisses \in Nat \ {0}

VARIABLES
    slide,      \* the slide PowerPoint shows
    time,       \* how often it changed: the instant of an observation
    phase,      \* the coordinator: idle, claiming, active or stopping
    session,    \* the connection it works for
    tracker,    \* StablePresentationTracker: candidate slide and last stable page
    desired,    \* LatestOnlyPageDispatcher: the page to be sent next
    acknowledged,   \* the page acknowledged last, or 0
    unacknowledged, \* an attempt was made since whose outcome is not known
    envelope,   \* the update being sent
    reply,      \* what became of the current attempt to send it
    sequence,   \* the sequence of the last envelope
    beat,       \* a heartbeat awaits its answer
    misses,     \* transient failures of heartbeats in a row
    faulted,    \* connections a fault stop is queued for
    updates,    \* page updates travelling, with copies of several attempts
    calls       \* other requests travelling

dispatcher == <<desired, acknowledged, unacknowledged, envelope, reply, sequence>>
network == <<updates, calls>>
bridge == <<phase, session, tracker, dispatcher, beat, misses, faulted>>
show == <<slide, time>>
syncVars == <<connectionVars, show, bridge, network>>

NoState == [page |-> 0, at |-> 0]
States == [page : Pages, at : 0..MaxTime]
SamePage(left, right) == left # NoState /\ left.page = right.page

\* Mutant of NewTracker: Bind does not forget what an earlier session saw and reported.
UsedTracker == [candidate |-> 1, stable |-> 1]

NewTracker == [candidate |-> 0, stable |-> 0]

SyncInit ==
    /\ ConnectionInit
    /\ slide = 1 /\ time = 0
    /\ phase = "idle" /\ session = NoConnection
    /\ tracker = NewTracker
    /\ desired = NoState /\ acknowledged = 0 /\ unacknowledged = FALSE
    /\ envelope = NoState /\ reply = "none" /\ sequence = 0
    /\ beat = FALSE /\ misses = 0 /\ faulted = {}
    /\ updates = {} /\ calls = {}

\* PowerPoint moves to another slide.
Turn(page) ==
    /\ time < MaxTime
    /\ page # slide
    /\ slide' = page
    /\ time' = time + 1
    /\ UNCHANGED <<connectionVars, bridge, network>>

-----------------------------------------------------------------------------
(* A session begins: ActivateAsync holds the gate until the claim is answered. *)

\* The browser asks for the claim once the teacher confirmed.
StartClaim(c) ==
    /\ phase = "idle"
    /\ connection[c].state = "confirmed"
    /\ phase' = "claiming" /\ session' = c
    /\ calls' = calls \cup {<<"claim", c>>}
    /\ UNCHANGED <<connectionVars, show, tracker, dispatcher, beat, misses, faulted, updates>>

\* A new tracker, dispatcher and heartbeat.
NewRuntime ==
    /\ tracker' = NewTracker
    /\ desired' = NoState /\ acknowledged' = 0 /\ unacknowledged' = FALSE
    /\ envelope' = NoState /\ reply' = "none" /\ sequence' = 0
    /\ beat' = FALSE /\ misses' = 0

\* The claim is executed, in time or not; a second claim of the connection, which
\* carries another capability, is refused.
ClaimExecuted(c) ==
    /\ <<"claim", c>> \in calls
    /\ calls' = calls \ {<<"claim", c>>}
    /\ \/ /\ Claim(c)
          /\ \/ /\ phase = "claiming" /\ session = c
                /\ phase' = "active"
                /\ NewRuntime
                /\ UNCHANGED <<session, faulted>>
             \/ UNCHANGED bridge
       \/ ~MayAdvance(c, "confirmed") /\ UNCHANGED <<connectionVars, bridge>>
    /\ UNCHANGED <<show, updates>>

\* It is refused, or nothing comes back.
ClaimGivenUp ==
    /\ phase = "claiming"
    /\ phase' = "idle" /\ session' = NoConnection
    /\ UNCHANGED <<connectionVars, show, tracker, dispatcher, beat, misses, faulted, network>>

-----------------------------------------------------------------------------
(* StablePresentationTracker.Observe and LatestOnlyPageDispatcher.Submit.      *)

\* What the dispatcher wants to send after a page was submitted.
Submitted(state) ==
    IF \/ SamePage(desired, state)
       \/ desired = NoState /\ ~unacknowledged /\ acknowledged = state.page
    THEN desired ELSE state

Observe ==
    /\ phase = "active"
    /\ LET state == [page |-> slide, at |-> time] IN
       \/ /\ tracker.candidate # slide
          /\ tracker' = [tracker EXCEPT !.candidate = slide]
          /\ UNCHANGED desired
       \/ /\ tracker.candidate = slide
          /\ tracker.stable # slide
          /\ tracker' = [tracker EXCEPT !.stable = slide]
          /\ desired' = Submitted(state)
    /\ UNCHANGED <<connectionVars, show, phase, session, acknowledged, unacknowledged,
                   envelope, reply, sequence, beat, misses, faulted, network>>

-----------------------------------------------------------------------------
(* LatestOnlyPageDispatcher.RunAsync and RemotePageUpdateSink.                *)

Attempt(state, number) ==
    /\ envelope' = state /\ sequence' = number
    /\ reply' = "waiting"
    /\ unacknowledged' = TRUE
    /\ updates' = updates \cup {[connection |-> session, sequence |-> number,
                                 page |-> state.page, at |-> state.at]}

\* Mutant of Settled: what was acknowledged last is taken for what is shown.
SettledOnceAcknowledged == desired.page = acknowledged

Settled == ~unacknowledged /\ desired.page = acknowledged

TakeDesired ==
    /\ phase = "active"
    /\ envelope = NoState /\ desired # NoState
    /\ IF Settled
       THEN /\ desired' = NoState
            /\ UNCHANGED <<envelope, sequence, reply, unacknowledged, updates>>
       ELSE /\ sequence < MaxSequence
            /\ Attempt(desired, sequence + 1)
            /\ UNCHANGED desired
    /\ UNCHANGED <<connectionVars, show, phase, session, tracker, acknowledged, beat,
                   misses, faulted, calls>>

\* The same envelope once more, after the delay.
Resend ==
    /\ phase = "active"
    /\ envelope # NoState /\ reply = "none"
    /\ Attempt(envelope, sequence)
    /\ UNCHANGED <<connectionVars, show, phase, session, tracker, desired, acknowledged,
                   beat, misses, faulted, calls>>

\* An update is executed, in time or not, and a copy of it may be executed again; its
\* answer arrives, if it is awaited, or gets lost; one that puts the update off is as
\* good as none.
Awaited(m) ==
    phase = "active" /\ reply = "waiting" /\ m.connection = session /\ m.sequence = sequence

UpdateExecuted(m) ==
    /\ m \in updates
    /\ \E answer \in {"accepted", "refused", "limited"} :
          /\ ApplyPage(m, answer)
          /\ reply' \in {reply} \cup (IF Awaited(m) THEN {answer} \ {"limited"} ELSE {})
    /\ UNCHANGED <<show, phase, session, tracker, desired, acknowledged, unacknowledged,
                   envelope, sequence, beat, misses, faulted, network>>

UpdateAcknowledged ==
    /\ phase = "active" /\ reply = "accepted"
    /\ acknowledged' = envelope.page /\ unacknowledged' = FALSE
    /\ desired' = IF SamePage(desired, envelope) THEN NoState ELSE desired
    /\ envelope' = NoState /\ reply' = "none"
    /\ UNCHANGED <<connectionVars, show, phase, session, tracker, sequence, beat, misses,
                   faulted, network>>

\* No answer in time, or refused, which also stops the session.  A newer
\* page takes the place of the one that failed.
UpdateFailed ==
    /\ phase = "active" /\ reply \in {"waiting", "refused"}
    /\ reply' = "none"
    /\ envelope' = IF desired # NoState /\ ~SamePage(desired, envelope) THEN NoState
                   ELSE envelope
    /\ faulted' = IF reply = "refused" THEN faulted \cup {session} ELSE faulted
    /\ UNCHANGED <<connectionVars, show, phase, session, tracker, desired, acknowledged,
                   unacknowledged, sequence, beat, misses, network>>

-----------------------------------------------------------------------------
(* RunHeartbeatAsync.                                                        *)

SendHeartbeat ==
    /\ phase = "active" /\ ~beat /\ session \notin faulted
    /\ beat' = TRUE
    /\ calls' = calls \cup {<<"heartbeat", session>>}
    /\ UNCHANGED <<connectionVars, show, phase, session, tracker, dispatcher, misses,
                   faulted, updates>>

\* Mutant of Ended: the answer is not looked at.
NeverEnded(answer) == FALSE

Ended(answer) == answer = "inactive"

HeartbeatExecuted(c) ==
    /\ <<"heartbeat", c>> \in calls
    /\ calls' = calls \ {<<"heartbeat", c>>}
    /\ \E answer \in {"active", "inactive"} :
          /\ Heartbeat(c, answer)
          /\ \/ /\ phase = "active" /\ session = c /\ beat
                /\ beat' = FALSE /\ misses' = 0
                /\ faulted' = IF Ended(answer) THEN faulted \cup {c} ELSE faulted
             \/ UNCHANGED <<beat, misses, faulted>>
    /\ UNCHANGED <<show, phase, session, tracker, dispatcher, updates>>

\* Mutant of TooMany: failures are counted and nothing is made of them.
NeverTooMany(count) == FALSE

TooMany(count) == count >= MaxMisses

HeartbeatMissed ==
    /\ phase = "active" /\ beat
    /\ beat' = FALSE
    /\ misses' = IF TooMany(misses + 1) THEN 0 ELSE misses + 1
    /\ faulted' = IF TooMany(misses + 1) THEN faulted \cup {session} ELSE faulted
    /\ UNCHANGED <<connectionVars, show, phase, session, tracker, dispatcher, network>>

-----------------------------------------------------------------------------
(* A session ends.                                                           *)

\* PowerPoint is closed, another show is started, or the slides were changed.
ShowLost ==
    /\ phase = "active" /\ session \notin faulted
    /\ faulted' = faulted \cup {session}
    /\ UNCHANGED <<connectionVars, show, phase, session, tracker, dispatcher, beat, misses,
                   network>>

\* StopActiveSessionAsync: the runtime is disposed, then the database is told.
Stop ==
    /\ phase' = "stopping"
    /\ calls' = calls \cup {<<"disconnect", session>>}
    /\ NewRuntime
    /\ UNCHANGED <<connectionVars, show, session, updates>>

\* DisconnectAsync, asked for by the browser.
Disconnect ==
    /\ phase = "active"
    /\ Stop
    /\ UNCHANGED faulted

\* FaultStopAsync: a stop of a session that is over stops no other.
FaultStop(c) ==
    /\ c \in faulted /\ phase \in {"idle", "active"}
    /\ faulted' = faulted \ {c}
    /\ IF phase = "active" /\ session = c THEN Stop
       ELSE UNCHANGED <<connectionVars, show, phase, session, tracker, dispatcher, beat,
                        misses, network>>

DisconnectExecuted(c) ==
    /\ <<"disconnect", c>> \in calls
    /\ calls' = calls \ {<<"disconnect", c>>}
    /\ \/ Revoke(c)
       \/ ~Unrevoked(c) /\ UNCHANGED connectionVars
    /\ UNCHANGED <<show, bridge, updates>>

\* Whether or not the database answered in the three seconds.
Stopped ==
    /\ phase = "stopping"
    /\ phase' = "idle" /\ session' = NoConnection
    /\ UNCHANGED <<connectionVars, show, tracker, dispatcher, beat, misses, faulted, network>>

\* The process dies and is started again.
Crash ==
    /\ phase # "idle"
    /\ phase' = "idle" /\ session' = NoConnection
    /\ faulted' = {}
    /\ NewRuntime
    /\ UNCHANGED <<connectionVars, show, network>>

UpdateLost(m) ==
    /\ m \in updates
    /\ updates' = updates \ {m}
    /\ UNCHANGED <<connectionVars, show, bridge, calls>>

CallLost(call) ==
    /\ call \in calls
    /\ calls' = calls \ {call}
    /\ UNCHANGED <<connectionVars, show, bridge, updates>>

-----------------------------------------------------------------------------
Teacher == (TeacherStep \/ Ends \/ \E c \in Connections : Inspect(c))
           /\ UNCHANGED <<show, bridge, network>>

SyncNext ==
    \/ \E page \in Pages : Turn(page)
    \/ Teacher
    \/ \E c \in Connections : \/ StartClaim(c) \/ ClaimExecuted(c) \/ HeartbeatExecuted(c)
                              \/ DisconnectExecuted(c) \/ FaultStop(c)
    \/ ClaimGivenUp \/ Observe \/ TakeDesired \/ Resend
    \/ UpdateAcknowledged \/ UpdateFailed
    \/ SendHeartbeat \/ HeartbeatMissed
    \/ ShowLost \/ Disconnect \/ Stopped \/ Crash
    \/ \E m \in updates : UpdateExecuted(m) \/ UpdateLost(m)
    \/ \E call \in calls : CallLost(call)

SyncSpec == SyncInit /\ [][SyncNext]_syncVars

\* The session of a connection in the Bridge, from its claim to its stop.
Holds(c) == session = c

\* The 200 ms monitor, the dispatcher and the heartbeat timer run; every attempt
\* comes to an end, and one repeated for ever is answered at last and not put off for
\* ever; queued stops are run; what travels arrives or is lost; and without requests
\* the 45 seconds pass.
SyncFairness ==
    /\ WF_syncVars(Observe)
    /\ WF_syncVars(TakeDesired \/ Resend \/ UpdateAcknowledged \/ UpdateFailed)
    /\ SF_syncVars(\E m \in updates :
                      UpdateExecuted(m) /\ reply' \in {"accepted", "refused"} \ {reply})
    /\ WF_syncVars(SendHeartbeat \/ HeartbeatMissed \/ \E c \in Connections : HeartbeatExecuted(c))
    /\ WF_syncVars(ClaimGivenUp \/ Stopped \/ \E c \in Connections : FaultStop(c))
    /\ WF_syncVars(\/ \E m \in updates : ~Holds(m.connection) /\ UpdateLost(m)
                   \/ \E call \in calls : ~Holds(call[2]) /\ CallLost(call))
    /\ WF_syncVars(\E c \in Connections :
                      /\ ~Holds(c)
                      /\ \A m \in updates : m.connection # c
                      /\ \A call \in calls : call[2] # c
                      /\ Lapses(c) /\ UNCHANGED <<show, bridge, network>>)

FairSyncSpec == SyncSpec /\ SyncFairness

-----------------------------------------------------------------------------
(* Properties.                                                               *)

SyncTypeOK ==
    /\ ConnectionTypeOK
    /\ slide \in Pages /\ time \in 0..MaxTime
    /\ phase \in {"idle", "claiming", "active", "stopping"}
    /\ session \in IF phase = "idle" THEN {NoConnection} ELSE Connections
    /\ tracker \in [candidate : Pages \cup {0}, stable : Pages \cup {0}]
    /\ desired \in States \cup {NoState} /\ envelope \in States \cup {NoState}
    /\ acknowledged \in Pages \cup {0}
    /\ unacknowledged \in BOOLEAN /\ beat \in BOOLEAN
    /\ reply \in {"none", "waiting", "accepted", "refused"}
    /\ sequence \in 0..MaxSequence
    /\ misses \in 0..(MaxMisses - 1)
    /\ faulted \subseteq Connections
    /\ updates \subseteq Updates
    /\ calls \subseteq {"claim", "heartbeat", "disconnect"} \X Connections

\* The page a connection shows never goes back to an earlier observation of the slide
\* show, whatever was repeated, delayed or overtaken on the way.
PagesForward == [][shown'.by = shown.by => shown'.at >= shown.at]_shown

\* With nothing left to send and its connection unrevoked, within its term, the Bridge has the stable
\* slide on the display, also after answers were lost and the teacher went back to a
\* slide that had been acknowledged before.
QuietIsShown ==
    phase = "active" /\ desired = NoState /\ envelope = NoState
    /\ tracker.stable # 0
    /\ connection[session].state = "active" /\ connection[session].term
        => shown.page = tracker.stable

\* A slide show at rest is what the students see, as long as its session lasts.
Converges ==
    \A c \in Connections :
        <>[](phase = "active" /\ session = c /\ Live(c)) => <>[](shown.page = slide)

\* The Bridge and the database come to agree on who holds the display: an abandoned
\* connection gives the manual controls back, and a Bridge whose connection was
\* revoked stops.
SidesAgree ==
    \A c \in Connections : []<>(Live(c) = Holds(c))
=============================================================================
