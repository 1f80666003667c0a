------------------------- MODULE PresenterConnection -------------------------
(* The connections through which a PowerPoint on the teacher's machine turns  *)
(* the pages of one lecture, as the database keeps them.  A connection is     *)
(* issued and confirmed by the teacher, claimed by the Bridge, kept alive by a *)
(* 45-second lease, and revoked for good.  While one is live, manual page     *)
(* turns are refused.  Every RPC takes the same locks, gate, lecture, live    *)
(* state and connection, and is one step.  That an instant passes is a step.  *)
EXTENDS Integers, FiniteSets

CONSTANTS
    Connections,    \* connections, each issued at most once
    Manual,         \* the teacher's own page controls
    PageCount,      \* pages of the published PDF
    MaxSequence,    \* bound on the page updates of a connection
    MaxTime         \* bound on the instants of observations

ASSUME ConnectionAssumption ==
    /\ Manual \notin Connections
    /\ PageCount \in Nat \ {0}
    /\ MaxSequence \in Nat
    /\ MaxTime \in Nat

VARIABLES
    connection, \* presenter_connections: state, last_sequence, whether the lease, or
                \* before the claim the ticket, is fresh, and whether the capability
                \* and the session of the teacher have time left
    shown,      \* the page of the live state, and for the properties who set it,
                \* with which sequence, and when that page was observed
    enabled     \* the lecture is open

connectionVars == <<connection, shown, enabled>>

Pages == 1..PageCount
Pairing == {"pairing", "inspected", "confirmed"}
Updates == [connection : Connections, sequence : 1..MaxSequence, page : Pages,
            at : 0..MaxTime]

Unissued == [state |-> "none", sequence |-> 0, fresh |-> FALSE, term |-> FALSE]
Issued == [state |-> "pairing", sequence |-> 0, fresh |-> TRUE, term |-> TRUE]

ConnectionInit ==
    /\ connection = [c \in Connections |-> Unissued]
    /\ shown = [by |-> Manual, sequence |-> 0, page |-> 1, at |-> 0]
    /\ enabled = TRUE

Unrevoked(c) == connection[c].state \in Pairing \cup {"active"}

\* What the manual controls and every request of the Bridge look for.
Live(c) ==
    enabled /\ connection[c].state = "active" /\ connection[c].fresh /\ connection[c].term

\* Of a revoked row no instant is looked at again.
Revoked(row) ==
    IF row.state = "none" THEN row
    ELSE [row EXCEPT !.state = "revoked", !.fresh = FALSE, !.term = FALSE]

RevokedAll == [c \in Connections |-> Revoked(connection[c])]

-----------------------------------------------------------------------------
(* Pairing.                                                                  *)

\* manage_google_admin_presenter_connection_v1, issue: it replaces any other.
Issue(c) ==
    /\ enabled
    /\ connection[c] = Unissued
    /\ connection' = [RevokedAll EXCEPT ![c] = Issued]
    /\ UNCHANGED <<shown, enabled>>

MayAdvance(c, from) ==
    enabled /\ connection[c].state = from /\ connection[c].fresh /\ connection[c].term

Advances(c, from, to) ==
    /\ MayAdvance(c, from)
    /\ connection' = [connection EXCEPT ![c].state = to]
    /\ UNCHANGED <<shown, enabled>>

Inspect(c) == Advances(c, "pairing", "inspected")
Confirm(c) == Advances(c, "inspected", "confirmed")

\* claim_presenter_connection_v1: the ticket is used up, the lease begins.
Claim(c) == Advances(c, "confirmed", "active")

-----------------------------------------------------------------------------
(* Requests of the Bridge on an active connection, with what they answer.     *)

\* Mutant of Outdated: the sequence is not compared.
NeverOutdated(m) == FALSE

Outdated(m) == m.sequence < connection[m.connection].sequence

\* apply_presenter_page_v1: a request without a live connection revokes it; the
\* last update again is accepted and changes nothing; an older one is refused; one
\* within 200 ms of the last is put off.
ApplyPage(m, answer) ==
    LET c == m.connection IN
    /\ connection[c].state \in {"active", "revoked"}
    /\ UNCHANGED enabled
    /\ \/ /\ ~Live(c)
          /\ answer = "refused"
          /\ connection' = [connection EXCEPT ![c] = Revoked(@)]
          /\ UNCHANGED shown
       \/ /\ Live(c)
          /\ \/ m.sequence = connection[c].sequence /\ answer = "accepted"
             \/ Outdated(m) /\ answer = "refused"
             \/ m.sequence > connection[c].sequence /\ answer = "limited"
          /\ UNCHANGED <<connection, shown>>
       \/ /\ Live(c)
          /\ m.sequence # connection[c].sequence
          /\ ~Outdated(m)
          /\ answer = "accepted"
          /\ connection' = [connection EXCEPT ![c].sequence = m.sequence]
          /\ shown' = [by |-> c, sequence |-> m.sequence, page |-> m.page, at |-> m.at]

\* heartbeat_presenter_connection_v1: it prolongs a lease that has not run out.
Heartbeat(c, answer) ==
    /\ connection[c].state \in {"active", "revoked"}
    /\ \/ Live(c) /\ answer = "active" /\ UNCHANGED connection
       \/ /\ ~Live(c) /\ answer = "inactive"
          /\ connection' = [connection EXCEPT ![c] = Revoked(@)]
    /\ UNCHANGED <<shown, enabled>>

\* disconnect_presenter_connection_v1, and the teacher's manual handover
\* (manage_google_admin_presenter_connection_v1, revoke).
Revoke(c) ==
    /\ Unrevoked(c)
    /\ connection' = [connection EXCEPT ![c] = Revoked(@)]
    /\ UNCHANGED <<shown, enabled>>

-----------------------------------------------------------------------------
(* The teacher's own controls: update-display-state.                          *)

Shows(page) == [by |-> Manual, sequence |-> 0, page |-> page, at |-> 0]

\* The trigger on the live state: an active connection whose lease ran out ends
\* with any change of the page.  It does not look at the capability.
\* Mutant of Overtaken: it is left alone.
OvertakenLater == connection

Overtaken ==
    [c \in Connections |->
        IF connection[c].state = "active" /\ ~connection[c].fresh
        THEN Revoked(connection[c]) ELSE connection[c]]

\* The page that is shown already changes no row, and fires no trigger.
ManualPage(page) ==
    /\ enabled
    /\ \A c \in Connections : ~Live(c)
    /\ page # shown.page
    /\ connection' = Overtaken
    /\ shown' = Shows(page)
    /\ UNCHANGED enabled

\* Another document, or none: the same trigger revokes every connection.
ChangeDocument ==
    /\ enabled
    /\ \A c \in Connections : ~Live(c)
    /\ connection' = RevokedAll
    /\ shown' = Shows(1)
    /\ UNCHANGED enabled

-----------------------------------------------------------------------------
(* Ends.                                                                     *)

\* The lease, or before the claim the ticket, runs out.
Lapses(c) ==
    /\ Unrevoked(c) /\ connection[c].fresh
    /\ connection' = [connection EXCEPT ![c].fresh = FALSE]
    /\ UNCHANGED <<shown, enabled>>

\* The 95 minutes of the capability, the hard stop, or the session of the teacher.
Expires(c) ==
    /\ Unrevoked(c) /\ connection[c].term
    /\ connection' = [connection EXCEPT ![c].term = FALSE]
    /\ UNCHANGED <<shown, enabled>>

\* cleanup_presenter_connections_v1; also the triggers when the session is revoked.
Cleanup(c) ==
    /\ Unrevoked(c)
    /\ ~connection[c].fresh \/ ~connection[c].term
    /\ connection' = [connection EXCEPT ![c] = Revoked(@)]
    /\ UNCHANGED <<shown, enabled>>

\* The lecture is closed: the trigger revokes.
LectureEnds ==
    /\ enabled
    /\ enabled' = FALSE
    /\ connection' = RevokedAll
    /\ UNCHANGED shown

\* set_presenter_runtime_v1(false); it may be turned on again at once.
KillSwitch ==
    /\ connection' = RevokedAll
    /\ UNCHANGED <<shown, enabled>>

Ends ==
    \/ \E c \in Connections : Lapses(c) \/ Expires(c) \/ Cleanup(c)
    \/ LectureEnds \/ KillSwitch

TeacherStep ==
    \/ \E c \in Connections : Issue(c) \/ Confirm(c) \/ Revoke(c)
    \/ \E page \in Pages : ManualPage(page)
    \/ ChangeDocument

ConnectionNext ==
    \/ TeacherStep
    \/ Ends
    \/ \E c \in Connections :
          Inspect(c) \/ Claim(c) \/ \E answer \in {"active", "inactive"} : Heartbeat(c, answer)
    \/ \E m \in Updates, answer \in {"accepted", "refused", "limited"} : ApplyPage(m, answer)

ConnectionSpec == ConnectionInit /\ [][ConnectionNext]_connectionVars

-----------------------------------------------------------------------------
(* Properties.                                                               *)

Rows == [state : {"none", "revoked", "active"} \cup Pairing, sequence : 0..MaxSequence,
         fresh : BOOLEAN, term : BOOLEAN]

ConnectionTypeOK ==
    /\ connection \in [Connections -> Rows]
    /\ shown \in [by : Connections \cup {Manual}, sequence : 0..MaxSequence,
                  page : Pages, at : 0..MaxTime]
    /\ enabled \in BOOLEAN

\* At most one connection of the lecture is unrevoked, whatever issues, claims and
\* revocations interleave (the partial unique index never has to refuse an issue).
OneAuthority == \A c, d \in Connections : Unrevoked(c) /\ Unrevoked(d) => c = d

\* As long as a connection that has turned a page is unrevoked and within its term,
\* the page shown is its last one: once the teacher or another connection has taken
\* over, no delayed request of it can take the display back.
DisplayOwned ==
    \A c \in Connections :
        connection[c].state = "active" /\ connection[c].term /\ connection[c].sequence > 0
            => shown.by = c /\ shown.sequence = connection[c].sequence

\* "A heartbeat lease which elapsed can never be refreshed or reclaimed": a claimed
\* connection that is not live stays so.
LeaseIsTerminal ==
    [][\A c \in Connections :
          connection[c].state \in {"active", "revoked"} /\ ~Live(c) => ~Live(c)']_connectionVars
=============================================================================
