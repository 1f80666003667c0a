------------------------- MODULE PresenterSync_proofs -------------------------
(* Proofs about PresenterConnection for every number of connections and pages, *)
(* and about PresenterSync: the composition keeps its types, every step of it  *)
(* is one of PresenterConnection or leaves the database alone, so that what is *)
(* proved of the connections holds beside any Bridge and network, and what the *)
(* Bridge remembers of its updates accounts for the page on display.           *)
EXTENDS PresenterSync, TLAPS

-----------------------------------------------------------------------------
(* The connections alone.  A request of the Bridge is any update of any       *)
(* connection at any time, so what is proved here holds however messages are  *)
(* delayed or repeated.                                                       *)

\* A connection in pairing has not turned a page.
PairingUnused ==
    \A c \in Connections : connection[c].state \in Pairing => connection[c].sequence = 0

ConnectionInv ==
    /\ ConnectionTypeOK
    /\ OneAuthority
    /\ PairingUnused
    /\ DisplayOwned

-----------------------------------------------------------------------------
(* What revoking leaves of a row.                                            *)

\* A revoked connection is still well formed.
LEMMA RevokedRow ==
    ASSUME NEW row \in Rows
    PROVE  /\ Revoked(row) \in Rows
           /\ Revoked(row).state \in {"none", "revoked"}
           /\ Revoked(row).fresh => row.fresh
           /\ Revoked(row).term => row.term
           /\ Revoked(row).state = "none" <=> row.state = "none"
BY DEF Revoked, Rows, Pairing

\* ConnectionInv holds initially.
LEMMA InitInv == ConnectionInit => ConnectionInv
BY ConnectionAssumption
   DEF ConnectionInit, ConnectionInv, ConnectionTypeOK, OneAuthority, PairingUnused,
       DisplayOwned, Unissued, Unrevoked, Rows, Pairing, Pages

-----------------------------------------------------------------------------
(* Every step keeps the invariant.  Most of them only revoke.                *)

\* Revoking any of the connections keeps it, if all that have turned a page are among
\* them whenever the page shown changes.
LEMMA Revoking ==
    ASSUME ConnectionInv, NEW S \in SUBSET Connections,
           connection' = [c \in Connections |-> IF c \in S THEN Revoked(connection[c])
                                                ELSE connection[c]],
           shown' \in [by : Connections \cup {Manual}, sequence : 0..MaxSequence,
                       page : Pages, at : 0..MaxTime],
           \/ shown' = shown
           \/ \A c \in Connections :
                 connection[c].state = "active" /\ connection[c].term => c \in S,
           enabled' \in BOOLEAN
    PROVE  ConnectionInv'
<1> USE DEF ConnectionInv
<1>1. \A c \in Connections :
         /\ connection'[c] \in Rows
         /\ \/ connection'[c] = connection[c]
            \/ connection'[c].state \in {"none", "revoked"}
  BY RevokedRow DEF ConnectionTypeOK
<1>2. \A c \in Connections : c \in S => connection'[c].state \in {"none", "revoked"}
  BY RevokedRow DEF ConnectionTypeOK
<1>3. ConnectionTypeOK'
  BY <1>1 DEF ConnectionTypeOK
<1>4. OneAuthority'
  BY <1>1 DEF OneAuthority, Unrevoked, Pairing
<1>5. PairingUnused'
  BY <1>1 DEF PairingUnused, Pairing
<1>6. DisplayOwned'
  BY <1>1, <1>2 DEF DisplayOwned
<1> QED
  BY <1>3, <1>4, <1>5, <1>6

\* A step that leaves the state of all connections alone.
LEMMA Keeping ==
    ASSUME ConnectionInv, UNCHANGED <<connection, shown>>, enabled' \in BOOLEAN
    PROVE  ConnectionInv'
BY DEF ConnectionInv, ConnectionTypeOK, OneAuthority, PairingUnused, DisplayOwned, Unrevoked

\* Revoking one connection keeps ConnectionInv.
LEMMA RevokingOne ==
    ASSUME ConnectionInv, NEW c \in Connections,
           connection' = [connection EXCEPT ![c] = Revoked(@)],
           UNCHANGED <<shown, enabled>>
    PROVE  ConnectionInv'
<1>1. connection' = [d \in Connections |-> IF d \in {c} THEN Revoked(connection[d])
                                           ELSE connection[d]]
  BY DEF ConnectionInv, ConnectionTypeOK
<1>2. shown' \in [by : Connections \cup {Manual}, sequence : 0..MaxSequence,
                  page : Pages, at : 0..MaxTime]
      /\ enabled' \in BOOLEAN
  BY DEF ConnectionInv, ConnectionTypeOK
<1> QED
  BY <1>1, <1>2, Revoking

\* Revoking every connection keeps ConnectionInv.
LEMMA RevokingAll ==
    ASSUME ConnectionInv, connection' = RevokedAll, enabled' \in BOOLEAN,
           \/ shown' = shown
           \/ shown' = Shows(1)
    PROVE  ConnectionInv'
<1>1. connection' = [d \in Connections |-> IF d \in Connections THEN Revoked(connection[d])
                                           ELSE connection[d]]
  BY DEF RevokedAll
<1>2. shown' \in [by : Connections \cup {Manual}, sequence : 0..MaxSequence,
                  page : Pages, at : 0..MaxTime]
  BY ConnectionAssumption DEF ConnectionInv, ConnectionTypeOK, Shows, Pages
<1> QED
  BY <1>1, <1>2, Revoking

-----------------------------------------------------------------------------
(* The steps that move a connection.                                         *)

\* Issuing a connection revokes the one that had the authority.
LEMMA IssueInv ==
    ASSUME ConnectionInv, NEW c \in Connections, Issue(c)
    PROVE  ConnectionInv'
<1> USE DEF ConnectionInv
<1>1. \A d \in Connections : Revoked(connection[d]) \in Rows
                            /\ Revoked(connection[d]).state \in {"none", "revoked"}
  BY RevokedRow DEF ConnectionTypeOK
<1>2. connection'[c] = Issued
  BY DEF Issue, RevokedAll
<1>3. \A d \in Connections : d # c => connection'[d] \in Rows
                                     /\ connection'[d].state \in {"none", "revoked"}
  BY <1>1 DEF Issue, RevokedAll
<1>4. connection' \in [Connections -> Rows]
  <2>1. connection'[c] \in Rows
    BY <1>2, ConnectionAssumption DEF Issued, Rows, Pairing
  <2> QED
    BY <1>3, <2>1 DEF Issue, RevokedAll
<1> QED
  BY <1>2, <1>3, <1>4
     DEF Issue, Issued, ConnectionTypeOK, OneAuthority, PairingUnused, DisplayOwned,
         Unrevoked, Pairing

\* A stage of the pairing, up to the claim.
LEMMA AdvancesInv ==
    ASSUME ConnectionInv, NEW c \in Connections, NEW from \in Pairing,
           NEW to \in Pairing \cup {"active"}, Advances(c, from, to)
    PROVE  ConnectionInv'
<1> USE DEF ConnectionInv
<1>1. /\ connection[c] \in Rows
      /\ connection'[c] = [connection[c] EXCEPT !.state = to]
      /\ connection[c].sequence = 0
      /\ Unrevoked(c)
  BY DEF Advances, MayAdvance, ConnectionTypeOK, PairingUnused, Unrevoked
<1>2. \A d \in Connections : d # c => connection'[d] = connection[d]
  BY DEF Advances, ConnectionTypeOK
<1>3. /\ connection'[c] \in Rows
      /\ connection'[c].sequence = 0
  BY <1>1 DEF Rows
<1>4. ConnectionTypeOK'
  BY <1>3, <1>2 DEF Advances, ConnectionTypeOK
<1>5. OneAuthority'
  BY <1>1, <1>2 DEF OneAuthority, Unrevoked
<1> QED
  BY <1>2, <1>3, <1>4, <1>5 DEF Advances, PairingUnused, DisplayOwned

\* A lease that runs out only changes its own connection.
LEMMA LapsesInv ==
    ASSUME ConnectionInv, NEW c \in Connections, Lapses(c) \/ Expires(c)
    PROVE  ConnectionInv'
<1> USE DEF ConnectionInv
<1>1. \A d \in Connections : /\ connection'[d] \in Rows
                             /\ connection'[d].state = connection[d].state
                             /\ connection'[d].sequence = connection[d].sequence
                             /\ connection'[d].term => connection[d].term
  <2>1. ASSUME NEW d \in Connections, Lapses(c)
        PROVE  /\ connection'[d] \in Rows
               /\ connection'[d].state = connection[d].state
               /\ connection'[d].sequence = connection[d].sequence
               /\ connection'[d].term = connection[d].term
    BY <2>1 DEF Lapses, ConnectionTypeOK, Rows
  <2>2. ASSUME NEW d \in Connections, Expires(c)
        PROVE  /\ connection'[d] \in Rows
               /\ connection'[d].state = connection[d].state
               /\ connection'[d].sequence = connection[d].sequence
    BY <2>2 DEF Expires, ConnectionTypeOK, Rows
  <2>3. ASSUME NEW d \in Connections, Expires(c)
        PROVE  connection'[d] = connection[d] \/ ~connection'[d].term
    BY <2>3 DEF Expires, ConnectionTypeOK, Rows
  <2> QED
    BY <2>1, <2>2, <2>3
<1>2. ConnectionTypeOK'
  BY <1>1 DEF Lapses, Expires, ConnectionTypeOK
<1> QED
  BY <1>1, <1>2 DEF Lapses, Expires, OneAuthority, PairingUnused, DisplayOwned, Unrevoked

\* The page of an update is shown only for the one connection that is active.
LEMMA ApplyPageInv ==
    ASSUME ConnectionInv, NEW m \in Updates,
           NEW answer \in {"accepted", "refused", "limited"}, ApplyPage(m, answer)
    PROVE  ConnectionInv'
<1> USE DEF ConnectionInv
<1> DEFINE c == m.connection
<1>0. /\ c \in Connections
      /\ m.sequence \in 0..MaxSequence
      /\ m.page \in Pages
      /\ m.at \in 0..MaxTime
  BY ConnectionAssumption DEF Updates
<1>1. CASE UNCHANGED <<connection, shown>>
  BY <1>1, Keeping DEF ApplyPage, ConnectionTypeOK
<1>2. CASE connection' = [connection EXCEPT ![c] = Revoked(@)] /\ UNCHANGED shown
  BY <1>0, <1>2, RevokingOne DEF ApplyPage
<1>3. CASE /\ Live(c)
           /\ connection' = [connection EXCEPT ![c].sequence = m.sequence]
           /\ shown' = [by |-> c, sequence |-> m.sequence, page |-> m.page, at |-> m.at]
  <2>1. /\ connection[c] \in Rows
        /\ connection'[c] = [connection[c] EXCEPT !.sequence = m.sequence]
        /\ connection[c].state = "active"
    BY <1>0, <1>3 DEF ConnectionTypeOK, Live
  <2>2. /\ connection'[c] \in Rows
        /\ connection'[c].state = "active"
        /\ connection'[c].sequence = m.sequence
    BY <1>0, <2>1 DEF Rows
  <2>3. \A d \in Connections : d # c => connection'[d] = connection[d]
                                       /\ connection'[d].state # "active"
    BY <1>0, <1>3, <2>1 DEF ConnectionTypeOK, OneAuthority, Unrevoked
  <2>4. ConnectionTypeOK'
    BY <1>0, <1>3, <2>2, <2>3 DEF ApplyPage, ConnectionTypeOK
  <2>5. OneAuthority'
    BY <1>0, <2>1, <2>2, <2>3 DEF OneAuthority, Unrevoked
  <2>6. PairingUnused'
    BY <1>0, <2>2, <2>3 DEF PairingUnused, Pairing
  <2>7. DisplayOwned'
    BY <1>0, <1>3, <2>2, <2>3 DEF DisplayOwned
  <2> QED
    BY <2>4, <2>5, <2>6, <2>7
<1> QED
  BY <1>1, <1>2, <1>3 DEF ApplyPage

\* The teacher turns a page only while no connection is live: those still active
\* have lapsed, and are revoked in the same step, or have run out of their term.
LEMMA ManualPageInv ==
    ASSUME ConnectionInv, NEW page \in Pages, ManualPage(page)
    PROVE  ConnectionInv'
<1> DEFINE S == {c \in Connections : connection[c].state = "active" /\ ~connection[c].fresh}
<1>1. \A c \in Connections : connection[c].state = "active" /\ connection[c].term => c \in S
  BY DEF ManualPage, Live
<1>2. connection' = [c \in Connections |-> IF c \in S THEN Revoked(connection[c])
                                           ELSE connection[c]]
  BY DEF ManualPage, Overtaken
<1>3. shown' \in [by : Connections \cup {Manual}, sequence : 0..MaxSequence,
                  page : Pages, at : 0..MaxTime]
  BY ConnectionAssumption DEF ManualPage, Shows
<1>4. enabled' \in BOOLEAN
  BY DEF ManualPage, ConnectionInv, ConnectionTypeOK
<1> HIDE DEF S
<1> QED
  BY <1>1, <1>2, <1>3, <1>4, Revoking DEF S

-----------------------------------------------------------------------------
(* The theorems.                                                             *)

\* Every step keeps ConnectionInv.
LEMMA StepInv == ConnectionInv /\ [ConnectionNext]_connectionVars => ConnectionInv'
<1> SUFFICES ASSUME ConnectionInv, [ConnectionNext]_connectionVars
             PROVE  ConnectionInv'
  OBVIOUS
<1>0. enabled \in BOOLEAN
  BY DEF ConnectionInv, ConnectionTypeOK
<1>1. ASSUME NEW c \in Connections, Issue(c) PROVE ConnectionInv'
  BY <1>1, IssueInv
<1>2. ASSUME NEW c \in Connections, Inspect(c) \/ Confirm(c) \/ Claim(c)
      PROVE  ConnectionInv'
  BY <1>2, AdvancesInv DEF Inspect, Confirm, Claim, Pairing
<1>3. ASSUME NEW c \in Connections, Revoke(c) \/ Cleanup(c) PROVE ConnectionInv'
  BY <1>3, RevokingOne DEF Revoke, Cleanup
<1>4. ASSUME NEW c \in Connections, NEW answer \in {"active", "inactive"},
             Heartbeat(c, answer)
      PROVE  ConnectionInv'
  BY <1>0, <1>4, RevokingOne, Keeping DEF Heartbeat
<1>5. ASSUME NEW page \in Pages, ManualPage(page) PROVE ConnectionInv'
  BY <1>5, ManualPageInv
<1>6. CASE ChangeDocument
  BY <1>0, <1>6, RevokingAll DEF ChangeDocument
<1>7. ASSUME NEW c \in Connections, Lapses(c) \/ Expires(c) PROVE ConnectionInv'
  BY <1>7, LapsesInv
<1>8. CASE LectureEnds \/ KillSwitch
  BY <1>0, <1>8, RevokingAll DEF LectureEnds, KillSwitch
<1>9. ASSUME NEW m \in Updates, NEW answer \in {"accepted", "refused", "limited"},
              ApplyPage(m, answer)
       PROVE  ConnectionInv'
  BY <1>9, ApplyPageInv
<1>10. CASE UNCHANGED connectionVars
  BY <1>0, <1>10, Keeping DEF connectionVars
<1> QED
  BY <1>1, <1>2, <1>3, <1>4, <1>5, <1>6, <1>7, <1>8, <1>9, <1>10
     DEF ConnectionNext, TeacherStep, Ends

\* No step gives a claimed connection time, or its state, back.
LEMMA ClaimedStep ==
    ASSUME ConnectionInv, [ConnectionNext]_connectionVars, NEW c \in Connections,
           connection[c].state \in {"active", "revoked"}
    PROVE  /\ enabled' => enabled
           /\ connection'[c].state = "active" => connection[c].state = "active"
           /\ connection'[c].fresh => connection[c].fresh
           /\ connection'[c].term => connection[c].term
<1> DEFINE Kept == /\ connection'[c].state = "active" => connection[c].state = "active"
                   /\ connection'[c].fresh => connection[c].fresh
                   /\ connection'[c].term => connection[c].term
<1>0. /\ connection \in [Connections -> Rows]
      /\ connection[c] \in Rows
      /\ Revoked(connection[c]).state \in {"none", "revoked"}
      /\ Revoked(connection[c]).fresh => connection[c].fresh
      /\ Revoked(connection[c]).term => connection[c].term
  BY RevokedRow DEF ConnectionInv, ConnectionTypeOK
<1>1. enabled' => enabled
  BY DEF ConnectionNext, TeacherStep, Ends, Issue, Inspect, Confirm, Claim, Advances, MayAdvance,
         Revoke, ManualPage, ChangeDocument, Lapses, Expires, Cleanup, LectureEnds,
         KillSwitch, Heartbeat, ApplyPage, connectionVars
<1>2. ASSUME NEW d \in Connections, Issue(d) PROVE Kept
  <2>1. c # d
    BY <1>2 DEF Issue, Unissued
  <2> QED
    BY <1>0, <1>2, <2>1 DEF Issue, RevokedAll
<1>3. ASSUME NEW d \in Connections, Inspect(d) \/ Confirm(d) \/ Claim(d) PROVE Kept
  <2>1. c # d
    BY <1>3 DEF Inspect, Confirm, Claim, Advances, MayAdvance
  <2> QED
    BY <1>0, <1>3, <2>1 DEF Inspect, Confirm, Claim, Advances
<1>4. ASSUME connection' = connection \/ connection' = RevokedAll \/ connection' = Overtaken
      PROVE  Kept
  BY <1>0, <1>4 DEF RevokedAll, Overtaken
<1>5. ASSUME NEW d \in Connections,
             connection' = [connection EXCEPT ![d] = Revoked(@)]
      PROVE  Kept
  BY <1>0, <1>5
<1>6. ASSUME NEW d \in Connections, Lapses(d) \/ Expires(d) PROVE Kept
  BY <1>0, <1>6 DEF Lapses, Expires, Rows
<1>7. ASSUME NEW m \in Updates, NEW answer \in {"accepted", "refused", "limited"},
             ApplyPage(m, answer)
      PROVE  Kept
  <2>1. m.connection \in Connections
    BY DEF Updates
  <2>2. CASE connection' = [connection EXCEPT ![m.connection].sequence = m.sequence]
    BY <1>0, <2>1, <2>2 DEF Rows
  <2> QED
    BY <1>4, <1>5, <1>7, <2>1, <2>2 DEF ApplyPage
<1> HIDE DEF Kept
<1>8. Kept
  BY <1>2, <1>3, <1>4, <1>5, <1>6, <1>7
     DEF ConnectionNext, TeacherStep, Ends, Revoke, ManualPage, ChangeDocument, Cleanup,
         LectureEnds, KillSwitch, Heartbeat, connectionVars
<1> QED
  BY <1>1, <1>8 DEF Kept

\* The invariant holds of every reachable state.
LEMMA InvHolds == ConnectionSpec => []ConnectionInv
BY InitInv, StepInv, PTL DEF ConnectionSpec

\* The rows keep the shape of the table.
THEOREM ConnectionTyped == ConnectionSpec => []ConnectionTypeOK
<1>1. ConnectionInv => ConnectionTypeOK
  BY DEF ConnectionInv
<1> QED
  BY <1>1, InvHolds, PTL

\* The lecture never has two unrevoked connections, however issues, claims, lapses
\* and revocations interleave.
THEOREM AuthorityHeld == ConnectionSpec => []OneAuthority
<1>1. ConnectionInv => OneAuthority
  BY DEF ConnectionInv
<1> QED
  BY <1>1, InvHolds, PTL

\* The page shown is the last one of the unrevoked connection that has turned one: a
\* delayed request of a connection that was replaced or overtaken never shows.
THEOREM ConnectionDisplayHeld == ConnectionSpec => []DisplayOwned
<1>1. ConnectionInv => DisplayOwned
  BY DEF ConnectionInv
<1> QED
  BY <1>1, InvHolds, PTL

\* A claimed connection that is not live any more never is again.
THEOREM ConnectionLeaseEnds == ConnectionSpec => LeaseIsTerminal
<1>1. ConnectionInv /\ [ConnectionNext]_connectionVars
         => [\A c \in Connections :
                connection[c].state \in {"active", "revoked"} /\ ~Live(c)
                   => ~Live(c)']_connectionVars
  BY ClaimedStep DEF Live
<1> QED
  BY <1>1, InvHolds, PTL DEF ConnectionSpec, LeaseIsTerminal

-----------------------------------------------------------------------------
(* The connections together with the Bridge and the network.                 *)

\* An envelope has a sequence number.
EnvelopeNumbered == envelope # NoState => sequence > 0

SyncInv == ConnectionInv /\ SyncTypeOK /\ EnvelopeNumbered

\* No observed state is the null state.
LEMMA StateShapes ==
    /\ NoState \notin States
    /\ \A s \in States : s.page \in Pages /\ s.at \in 0..MaxTime
    /\ NoState.page = 0
    /\ 0 \notin Pages
BY ConnectionAssumption DEF NoState, States, Pages

\* SyncInv holds initially.
LEMMA SyncInitInv == SyncInit => SyncInv
<1> SUFFICES ASSUME SyncInit PROVE SyncInv
  OBVIOUS
<1>1. ConnectionInv
  BY InitInv DEF SyncInit
<1>2. /\ 1 \in Pages
      /\ 0 \in 0..MaxTime /\ 0 \in 0..MaxSequence /\ 0 \in 0..(MaxMisses - 1)
  BY ConnectionAssumption, BridgeAssumption DEF Pages
<1>3. tracker \in [candidate : Pages \cup {0}, stable : Pages \cup {0}]
  BY DEF SyncInit, NewTracker
<1>4. SyncTypeOK
  BY <1>1, <1>2, <1>3 DEF SyncInit, SyncTypeOK, ConnectionInv
<1> QED
  BY <1>1, <1>4 DEF SyncInit, SyncInv, EnvelopeNumbered

-----------------------------------------------------------------------------
(* What the steps do to the connections.                                     *)

\* Every step is one of PresenterConnection, or does nothing to it.
LEMMA StepRefines == SyncInv /\ [SyncNext]_syncVars => [ConnectionNext]_connectionVars
<1> SUFFICES ASSUME SyncInv, [SyncNext]_syncVars, ~UNCHANGED connectionVars
             PROVE  ConnectionNext
  OBVIOUS
<1>1. CASE Teacher
  BY <1>1 DEF Teacher, ConnectionNext
<1>2. ASSUME NEW c \in Connections, ClaimExecuted(c) PROVE ConnectionNext
  BY <1>2 DEF ClaimExecuted, ConnectionNext
<1>3. ASSUME NEW c \in Connections, HeartbeatExecuted(c) PROVE ConnectionNext
  BY <1>3 DEF HeartbeatExecuted, ConnectionNext
<1>4. ASSUME NEW c \in Connections, DisconnectExecuted(c) PROVE ConnectionNext
  BY <1>4 DEF DisconnectExecuted, ConnectionNext, TeacherStep
<1>5. ASSUME NEW m \in updates, UpdateExecuted(m) PROVE ConnectionNext
  <2>1. m \in Updates
    BY DEF SyncInv, SyncTypeOK
  <2> QED
    BY <1>5, <2>1 DEF UpdateExecuted, ConnectionNext
<1> QED
  BY <1>1, <1>2, <1>3, <1>4, <1>5
     DEF SyncNext, syncVars, Turn, StartClaim, ClaimGivenUp, Observe, TakeDesired, Resend,
         UpdateAcknowledged, UpdateFailed, SendHeartbeat, HeartbeatMissed, ShowLost,
         Disconnect, Stop, FaultStop, Stopped, Crash, UpdateLost, CallLost

\* What every step does to the connections keeps ConnectionInv.
LEMMA SyncConnectionInv ==
    ASSUME SyncInv, [SyncNext]_syncVars PROVE ConnectionInv'
BY StepRefines, StepInv DEF SyncInv

-----------------------------------------------------------------------------
(* What the steps do to the Bridge and the network.                          *)

\* What is left of SyncInv when the connections are taken care of.
BridgeInv ==
    /\ slide \in Pages /\ time \in 0..MaxTime
    /\ phase \in {"idle", "claiming", "active", "stopping"}
    /\ session \in IF phase = "idle" THEN {NoConnection} ELSE Connections
    /\ tracker \in [candidate : Pages \cup {0}, stable : Pages \cup {0}]
    /\ desired \in States \cup {NoState} /\ envelope \in States \cup {NoState}
    /\ acknowledged \in Pages \cup {0}
    /\ unacknowledged \in BOOLEAN /\ beat \in BOOLEAN
    /\ reply \in {"none", "waiting", "accepted", "refused"}
    /\ sequence \in 0..MaxSequence
    /\ misses \in 0..(MaxMisses - 1)
    /\ faulted \subseteq Connections
    /\ updates \subseteq Updates
    /\ calls \subseteq {"claim", "heartbeat", "disconnect"} \X Connections
    /\ EnvelopeNumbered

\* The parts of SyncInv.
LEMMA SyncInvParts == SyncInv <=> ConnectionInv /\ BridgeInv
BY DEF SyncInv, SyncTypeOK, BridgeInv, ConnectionInv

\* A runtime that is started, or disposed of, holds nothing.
LEMMA NewRuntimeTyped ==
    ASSUME NewRuntime
    PROVE  /\ tracker' \in [candidate : Pages \cup {0}, stable : Pages \cup {0}]
           /\ desired' \in States \cup {NoState} /\ envelope' \in States \cup {NoState}
           /\ acknowledged' \in Pages \cup {0}
           /\ unacknowledged' \in BOOLEAN /\ beat' \in BOOLEAN
           /\ reply' \in {"none", "waiting", "accepted", "refused"}
           /\ sequence' \in 0..MaxSequence
           /\ misses' \in 0..(MaxMisses - 1)
           /\ EnvelopeNumbered'
<1>1. tracker' \in [candidate : Pages \cup {0}, stable : Pages \cup {0}]
  BY DEF NewRuntime, NewTracker
<1>2. 0 \in 0..MaxSequence /\ 0 \in 0..(MaxMisses - 1)
  BY ConnectionAssumption, BridgeAssumption
<1> QED
  BY <1>1, <1>2 DEF NewRuntime, EnvelopeNumbered

\* What is sent is an update.
LEMMA AttemptTyped ==
    ASSUME BridgeInv, phase = "active", NEW state \in States,
           NEW number \in 1..MaxSequence, Attempt(state, number)
    PROVE  /\ envelope' \in States \cup {NoState} /\ sequence' \in 0..MaxSequence
           /\ reply' \in {"none", "waiting", "accepted", "refused"}
           /\ unacknowledged' \in BOOLEAN
           /\ updates' \subseteq Updates
           /\ EnvelopeNumbered'
<1>1. session \in Connections
  BY DEF BridgeInv
<1>2. [connection |-> session, sequence |-> number, page |-> state.page, at |-> state.at]
         \in Updates
  BY <1>1, StateShapes DEF Updates
<1> QED
  BY <1>2, ConnectionAssumption DEF Attempt, BridgeInv, EnvelopeNumbered

-----------------------------------------------------------------------------
(* The steps one by one.                                                     *)

\* Steps of the teacher at the presentation keep BridgeInv.
LEMMA ShowSteps ==
    ASSUME BridgeInv,
           (\E page \in Pages : Turn(page)) \/ Teacher \/ Observe
    PROVE  BridgeInv'
<1>1. ASSUME NEW page \in Pages, Turn(page) PROVE BridgeInv'
  <2>1. time' \in 0..MaxTime
    BY <1>1, ConnectionAssumption DEF Turn, BridgeInv
  <2> QED
    BY <1>1, <2>1 DEF Turn, BridgeInv, EnvelopeNumbered, bridge, dispatcher, network
<1>2. CASE Teacher
  BY <1>2 DEF Teacher, BridgeInv, EnvelopeNumbered, show, bridge, dispatcher, network
<1>3. CASE Observe
  <2> DEFINE state == [page |-> slide, at |-> time]
  <2>1. state \in States
    BY DEF BridgeInv, States
  <2>2. tracker' \in [candidate : Pages \cup {0}, stable : Pages \cup {0}]
    BY <1>3 DEF Observe, BridgeInv
  <2>3. desired' \in States \cup {NoState}
    BY <1>3, <2>1 DEF Observe, Submitted, BridgeInv
  <2> QED
    BY <1>3, <2>2, <2>3 DEF Observe, BridgeInv, EnvelopeNumbered, show, network
<1> QED
  BY <1>1, <1>2, <1>3

\* Steps that start or end a session keep BridgeInv.
LEMMA SessionSteps ==
    ASSUME BridgeInv,
           \/ \E c \in Connections : StartClaim(c) \/ ClaimExecuted(c) \/ FaultStop(c)
           \/ ClaimGivenUp \/ Disconnect \/ Stopped \/ Crash \/ ShowLost
    PROVE  BridgeInv'
<1> USE DEF BridgeInv, show, bridge, dispatcher, network
<1>1. ASSUME NEW c \in Connections, StartClaim(c) PROVE BridgeInv'
  BY <1>1 DEF StartClaim, EnvelopeNumbered
<1>2. ASSUME NEW c \in Connections, ClaimExecuted(c) PROVE BridgeInv'
  <2>1. CASE NewRuntime
    BY <1>2, <2>1, NewRuntimeTyped DEF ClaimExecuted
  <2>2. CASE UNCHANGED bridge
    BY <1>2, <2>2 DEF ClaimExecuted, EnvelopeNumbered
  <2> QED
    BY <1>2, <2>1, <2>2 DEF ClaimExecuted
<1>3. CASE ClaimGivenUp \/ Stopped \/ ShowLost
  BY <1>3 DEF ClaimGivenUp, Stopped, ShowLost, EnvelopeNumbered
<1>4. CASE Crash
  BY <1>4, NewRuntimeTyped DEF Crash
<1>5. ASSUME Stop, phase = "active", faulted' \subseteq Connections PROVE BridgeInv'
  <2>1. session \in Connections /\ session' = session
    BY <1>5 DEF Stop
  <2> QED
    BY <1>5, <2>1, NewRuntimeTyped DEF Stop
<1>6. CASE Disconnect
  BY <1>5, <1>6 DEF Disconnect
<1>7. ASSUME NEW c \in Connections, FaultStop(c) PROVE BridgeInv'
  <2>1. faulted' \subseteq Connections
    BY <1>7 DEF FaultStop
  <2>2. CASE phase = "active" /\ session = c
    BY <1>5, <1>7, <2>1, <2>2 DEF FaultStop
  <2>3. CASE ~(phase = "active" /\ session = c)
    BY <1>7, <2>1, <2>3 DEF FaultStop, EnvelopeNumbered
  <2> QED
    BY <2>2, <2>3
<1> QED
  BY <1>1, <1>2, <1>3, <1>4, <1>6, <1>7

\* Steps of the dispatcher keep BridgeInv.
LEMMA DispatcherSteps ==
    ASSUME BridgeInv, TakeDesired \/ Resend \/ UpdateAcknowledged \/ UpdateFailed
    PROVE  BridgeInv'
<1> USE DEF BridgeInv, show, network
<1>1. CASE TakeDesired
  <2>1. CASE Settled
    BY <1>1, <2>1 DEF TakeDesired, EnvelopeNumbered
  <2>2. CASE ~Settled
    <3>1. desired \in States /\ sequence + 1 \in 1..MaxSequence
      BY <1>1, <2>2, ConnectionAssumption DEF TakeDesired
    <3> QED
      BY <1>1, <2>2, <3>1, AttemptTyped DEF TakeDesired
  <2> QED
    BY <2>1, <2>2
<1>2. CASE Resend
  <2>1. envelope \in States /\ sequence \in 1..MaxSequence
    BY <1>2, ConnectionAssumption DEF Resend, EnvelopeNumbered
  <2> QED
    BY <1>2, <2>1, AttemptTyped DEF Resend
<1>3. CASE UpdateAcknowledged
  <2>1. envelope.page \in Pages \cup {0}
    BY StateShapes
  <2> QED
    BY <1>3, <2>1 DEF UpdateAcknowledged, EnvelopeNumbered
<1>4. CASE UpdateFailed
  BY <1>4 DEF UpdateFailed, EnvelopeNumbered
<1> QED
  BY <1>1, <1>2, <1>3, <1>4

\* Steps of heartbeats, updates and calls under way keep BridgeInv.
LEMMA CallSteps ==
    ASSUME BridgeInv,
           \/ SendHeartbeat \/ HeartbeatMissed
           \/ \E c \in Connections : HeartbeatExecuted(c) \/ DisconnectExecuted(c)
           \/ \E m \in updates : UpdateExecuted(m) \/ UpdateLost(m)
           \/ \E call \in calls : CallLost(call)
    PROVE  BridgeInv'
<1> USE DEF BridgeInv, show, bridge, dispatcher, network
<1>1. CASE SendHeartbeat
  BY <1>1 DEF SendHeartbeat, EnvelopeNumbered
<1>2. CASE HeartbeatMissed
  <2>1. misses' \in 0..(MaxMisses - 1)
    BY <1>2, BridgeAssumption DEF HeartbeatMissed, TooMany
  <2> QED
    BY <1>2, <2>1 DEF HeartbeatMissed, EnvelopeNumbered
<1>3. ASSUME NEW c \in Connections, HeartbeatExecuted(c) PROVE BridgeInv'
  <2>1. misses' \in 0..(MaxMisses - 1)
    BY <1>3, BridgeAssumption DEF HeartbeatExecuted
  <2>2. beat' \in BOOLEAN /\ faulted' \subseteq Connections
    BY <1>3 DEF HeartbeatExecuted
  <2>3. calls' \subseteq {"claim", "heartbeat", "disconnect"} \X Connections
    BY <1>3 DEF HeartbeatExecuted
  <2> QED
    BY <1>3, <2>1, <2>2, <2>3 DEF HeartbeatExecuted, EnvelopeNumbered
<1>4. ASSUME NEW c \in Connections, DisconnectExecuted(c) PROVE BridgeInv'
  BY <1>4 DEF DisconnectExecuted, EnvelopeNumbered
<1>5. ASSUME NEW m \in updates, UpdateExecuted(m) PROVE BridgeInv'
  BY <1>5 DEF UpdateExecuted, EnvelopeNumbered
<1>6. ASSUME NEW m \in updates, UpdateLost(m) PROVE BridgeInv'
  BY <1>6 DEF UpdateLost, EnvelopeNumbered
<1>7. ASSUME NEW call \in calls, CallLost(call) PROVE BridgeInv'
  BY <1>7 DEF CallLost, EnvelopeNumbered
<1> QED
  BY <1>1, <1>2, <1>3, <1>4, <1>5, <1>6, <1>7

\* Every step keeps SyncInv.
LEMMA SyncStepInv == SyncInv /\ [SyncNext]_syncVars => SyncInv'
<1> SUFFICES ASSUME SyncInv, [SyncNext]_syncVars PROVE SyncInv'
  OBVIOUS
<1>1. BridgeInv
  BY SyncInvParts
<1>2. BridgeInv'
  <2>1. CASE SyncNext
    BY <1>1, <2>1, ShowSteps, SessionSteps, DispatcherSteps, CallSteps DEF SyncNext
  <2>2. CASE UNCHANGED syncVars
    BY <1>1, <2>2 DEF syncVars, BridgeInv, EnvelopeNumbered, show, bridge, dispatcher, network
  <2> QED
    BY <2>1, <2>2
<1>3. ConnectionInv'
  BY SyncConnectionInv
<1> QED
  BY <1>2, <1>3 DEF SyncInv, SyncTypeOK, BridgeInv, ConnectionInv

\* The invariant holds of every reachable state.
LEMMA SyncInvHolds == SyncSpec => []SyncInv
BY SyncInitInv, SyncStepInv, PTL DEF SyncSpec

-----------------------------------------------------------------------------
(* What is shown when the Bridge is quiet.                                    *)

\* A connection that was not claimed yet has sent and shown nothing.
NothingBeforeClaim ==
    \A c \in Connections :
        connection[c].state \in {"none"} \cup Pairing =>
            /\ connection[c].sequence = 0
            /\ shown.by # c
            /\ \A m \in updates : m.connection # c

\* What is shown was recorded in the row of its connection.
ShownRecorded ==
    /\ shown.by = Manual => shown.at = 0
    /\ \A c \in Connections : shown.by = c => shown.sequence <= connection[c].sequence

\* The dispatcher has lost sight of no page: one that it is not sure of is desired.
DesiredKept ==
    /\ desired = NoState => ~unacknowledged /\ acknowledged = tracker.stable
    /\ desired # NoState => desired.page = tracker.stable /\ desired.at <= time
    /\ envelope # NoState => unacknowledged /\ desired # NoState /\ envelope.at <= desired.at
    /\ reply # "none" => envelope # NoState

\* What was sent, or is shown, is not ahead of the dispatcher.
Behind(r) ==
    /\ r.sequence <= sequence
    /\ envelope # NoState => r.at <= envelope.at
    /\ envelope # NoState /\ r.sequence = sequence =>
          r.page = envelope.page /\ r.at = envelope.at
    /\ desired # NoState => r.at <= desired.at

\* The connection of the Bridge holds the display on the page acknowledged last.
ShowsAcknowledged(c) == connection[c].sequence = sequence /\ shown.page = acknowledged

\* A session that is active was claimed, and nothing of it is ahead of the dispatcher.
SessionInv ==
    phase = "active" =>
        /\ connection[session].state \in {"active", "revoked"}
        /\ connection[session].sequence <= sequence
        /\ \A m \in updates : m.connection = session => Behind(m)
        /\ shown.by = session => Behind(shown)
        /\ reply = "accepted" => connection[session].sequence = sequence
        /\ (/\ ~unacknowledged /\ acknowledged # 0
            /\ connection[session].state = "active" /\ connection[session].term)
              => ShowsAcknowledged(session)

\* Updates of a connection are numbered in the order of their observations, and
\* what is shown comes before those that may still replace it.
Ordered ==
    /\ shown.at <= time
    /\ \A m \in updates :
          /\ m.at <= time
          /\ shown.by = m.connection /\ shown.sequence <= m.sequence => shown.at <= m.at
    /\ \A m, n \in updates :
          m.connection = n.connection /\ m.sequence <= n.sequence => m.at <= n.at

QuietInv ==
    NothingBeforeClaim /\ ShownRecorded /\ DesiredKept /\ SessionInv /\ Ordered

\* QuietInv holds initially.
LEMMA QuietInit == SyncInit => QuietInv
<1> SUFFICES ASSUME SyncInit PROVE QuietInv
  OBVIOUS
<1>1. NothingBeforeClaim
  BY ConnectionAssumption DEF SyncInit, ConnectionInit, NothingBeforeClaim, Unissued
<1>2. ShownRecorded
  BY ConnectionAssumption DEF SyncInit, ConnectionInit, ShownRecorded
<1>3. DesiredKept /\ SessionInv
  BY DEF SyncInit, DesiredKept, SessionInv, NewTracker
<1>4. Ordered
  BY DEF SyncInit, ConnectionInit, Ordered
<1> QED
  BY <1>1, <1>2, <1>3, <1>4 DEF QuietInv

-----------------------------------------------------------------------------
(* Steps of the database that accept no page.                                *)

\* No connection is given anything back, and the display changes hands only to the
\* teacher, when no connection has a claim to it.
Aside ==
    /\ \A c \in Connections :
          /\ connection'[c].sequence = connection[c].sequence
          /\ connection[c].state \in {"active", "revoked"} =>
                connection'[c].state \in {"active", "revoked"}
          /\ (/\ connection[c].state \in {"active", "revoked"}
              /\ connection'[c].state = "active" /\ connection'[c].term)
                => connection[c].state = "active" /\ connection[c].term
    /\ \/ shown' = shown
       \/ /\ shown'.by = Manual /\ shown'.at = 0
          /\ \A c \in Connections : ~(connection'[c].state = "active" /\ connection'[c].term)

\* A row that is revoked keeps its sequence, and one that was claimed ends revoked.
LEMMA RevokedClaim ==
    ASSUME NEW row \in Rows
    PROVE  /\ Revoked(row).sequence = row.sequence
           /\ row.state \in {"active", "revoked"} => Revoked(row).state = "revoked"
BY DEF Revoked, Rows, Pairing

\* Revoking connections is aside.
LEMMA RevokingAside ==
    ASSUME ConnectionInv,
           \A c \in Connections : \/ connection'[c] = connection[c]
                                  \/ connection'[c] = Revoked(connection[c]),
           \/ shown' = shown
           \/ /\ shown'.by = Manual /\ shown'.at = 0
              /\ \A c \in Connections : ~(connection'[c].state = "active" /\ connection'[c].term)
    PROVE  Aside
<1>1. ASSUME NEW c \in Connections
      PROVE  /\ Revoked(connection[c]).sequence = connection[c].sequence
             /\ connection[c].state \in {"active", "revoked"}
                  => Revoked(connection[c]).state = "revoked"
  <2>1. connection[c] \in Rows
    BY DEF ConnectionInv, ConnectionTypeOK
  <2> QED
    BY <2>1, RevokedClaim
<1> QED
  BY <1>1 DEF Aside

\* So is what the teacher does, and what time does.
LEMMA TeacherAside ==
    ASSUME ConnectionInv, TeacherStep \/ Ends \/ \E c \in Connections : Inspect(c) \/ Claim(c)
    PROVE  Aside
<1>0. connection \in [Connections -> Rows]
  BY DEF ConnectionInv, ConnectionTypeOK
<1>1. ASSUME NEW c \in Connections, Issue(c) PROVE Aside
  <2>1. ASSUME NEW d \in Connections
        PROVE  /\ connection'[d].sequence = connection[d].sequence
               /\ connection[d].state \in {"active", "revoked"} =>
                     connection'[d].state = "revoked"
    <3>1. CASE d = c
      BY <1>1, <3>1 DEF Issue, RevokedAll, Issued, Unissued
    <3>2. CASE d # c
      <4>1. connection[d] \in Rows /\ connection'[d] = Revoked(connection[d])
        BY <1>0, <1>1, <3>2 DEF Issue, RevokedAll
      <4> QED
        BY <4>1, RevokedClaim
    <3> QED
      BY <3>1, <3>2
  <2> QED
    BY <1>1, <2>1 DEF Issue, Aside
<1>2. ASSUME NEW c \in Connections, Inspect(c) \/ Confirm(c) \/ Claim(c) PROVE Aside
  <2>1. ASSUME NEW d \in Connections
        PROVE  \/ connection'[d] = connection[d]
               \/ /\ connection'[d].sequence = connection[d].sequence
                  /\ connection[d].state \notin {"active", "revoked"}
    BY <1>0, <1>2 DEF Inspect, Confirm, Claim, Advances, MayAdvance, Rows
  <2> QED
    BY <1>2, <2>1 DEF Inspect, Confirm, Claim, Advances, Aside
<1>3. ASSUME NEW c \in Connections, Revoke(c) \/ Cleanup(c) PROVE Aside
  <2>1. \A d \in Connections : \/ connection'[d] = connection[d]
                               \/ connection'[d] = Revoked(connection[d])
    BY <1>0, <1>3 DEF Revoke, Cleanup
  <2> QED
    BY <1>3, <2>1, RevokingAside DEF Revoke, Cleanup
<1>4. ASSUME NEW page \in Pages, ManualPage(page) PROVE Aside
  <2>1. \A d \in Connections : \/ connection'[d] = connection[d]
                               \/ connection'[d] = Revoked(connection[d])
    BY <1>4 DEF ManualPage, Overtaken
  <2>2. ASSUME NEW d \in Connections
        PROVE  ~(connection'[d].state = "active" /\ connection'[d].term)
    <3>1. connection[d] \in Rows
      BY <1>0
    <3>2. ~Live(d) /\ enabled
      BY <1>4 DEF ManualPage
    <3>3. connection'[d] = IF connection[d].state = "active" /\ ~connection[d].fresh
                           THEN Revoked(connection[d]) ELSE connection[d]
      BY <1>4 DEF ManualPage, Overtaken
    <3> QED
      BY <3>1, <3>2, <3>3, RevokedRow DEF Live
  <2> QED
    BY <1>4, <2>1, <2>2, RevokingAside DEF ManualPage, Shows
<1>5. CASE ChangeDocument
  <2>1. \A d \in Connections : connection'[d] = Revoked(connection[d])
    BY <1>5 DEF ChangeDocument, RevokedAll
  <2>2. \A d \in Connections : connection'[d].state # "active"
    BY <1>0, <2>1, RevokedRow
  <2> QED
    BY <1>5, <2>1, <2>2, RevokingAside DEF ChangeDocument, Shows
<1>6. ASSUME NEW c \in Connections, Lapses(c) \/ Expires(c) PROVE Aside
  <2>1. ASSUME NEW d \in Connections
        PROVE  /\ connection'[d].sequence = connection[d].sequence
               /\ connection'[d].state = connection[d].state
               /\ connection'[d].term => connection[d].term
    <3>1. CASE Lapses(c)
      BY <1>0, <3>1 DEF Lapses, Rows
    <3>2. CASE Expires(c)
      <4>1. CASE d = c
        BY <1>0, <3>2, <4>1 DEF Expires, Rows
      <4>2. CASE d # c
        BY <1>0, <3>2, <4>2 DEF Expires
      <4> QED
        BY <4>1, <4>2
    <3> QED
      BY <1>6, <3>1, <3>2
  <2> QED
    BY <1>6, <2>1 DEF Lapses, Expires, Aside
<1>7. CASE LectureEnds \/ KillSwitch
  <2>1. \A d \in Connections : connection'[d] = Revoked(connection[d])
    BY <1>7 DEF LectureEnds, KillSwitch, RevokedAll
  <2> QED
    BY <1>7, <2>1, RevokingAside DEF LectureEnds, KillSwitch
<1> QED
  BY <1>1, <1>2, <1>3, <1>4, <1>5, <1>6, <1>7 DEF TeacherStep, Ends

\* So is a heartbeat, and leaving the database alone.
LEMMA HeartbeatAside ==
    ASSUME ConnectionInv,
           \/ \E c \in Connections, answer \in {"active", "inactive"} : Heartbeat(c, answer)
           \/ UNCHANGED connectionVars
    PROVE  Aside
<1>1. \A d \in Connections : \/ connection'[d] = connection[d]
                             \/ connection'[d] = Revoked(connection[d])
  BY DEF ConnectionInv, ConnectionTypeOK, Heartbeat, connectionVars
<1> QED
  BY <1>1, RevokingAside DEF Heartbeat, connectionVars

-----------------------------------------------------------------------------
(* Every step keeps QuietInv.                                                *)

\* What of the Bridge and the network QuietInv looks at.
quietVars == <<time, phase, session, tracker, desired, acknowledged, unacknowledged,
               envelope, sequence, updates>>

\* A step aside keeps QuietInv.
LEMMA AsideQuiet ==
    ASSUME SyncInv, SyncInv', QuietInv, Aside, UNCHANGED quietVars,
           reply' # "none" => reply # "none",
           (reply' = "accepted" /\ phase = "active") =>
               (reply = "accepted" \/ connection'[session].sequence = sequence)
    PROVE  QuietInv'
<1> USE DEF QuietInv, quietVars
<1>1. /\ \A c \in Connections : connection[c] \in Rows /\ connection'[c] \in Rows
      /\ Manual \notin Connections
      /\ phase = "active" => session \in Connections
  BY ConnectionAssumption DEF SyncInv, SyncTypeOK, ConnectionInv, ConnectionTypeOK
<1>2. NothingBeforeClaim'
  <2>1. SUFFICES ASSUME NEW c \in Connections, connection'[c].state \in {"none"} \cup Pairing
                 PROVE  /\ connection'[c].sequence = 0
                        /\ shown'.by # c
                        /\ \A m \in updates' : m.connection # c
    BY DEF NothingBeforeClaim
  <2>2. connection[c].state \in {"none"} \cup Pairing
    BY <1>1, <2>1 DEF Aside, Rows, Pairing
  <2> QED
    BY <1>1, <2>2 DEF NothingBeforeClaim, Aside
<1>3. ShownRecorded'
  BY <1>1 DEF ShownRecorded, Aside
<1>4. DesiredKept'
  BY DEF DesiredKept
<1>5. SessionInv'
  <2>1. SUFFICES ASSUME phase = "active" PROVE SessionInv'
    BY DEF SessionInv
  <2>2. session \in Connections /\ session # Manual
    BY <1>1, <2>1
  <2>3. /\ connection'[session].state \in {"active", "revoked"}
        /\ connection'[session].sequence = connection[session].sequence
    BY <2>1, <2>2 DEF SessionInv, Aside
  <2>4. \A m \in updates : m.connection = session => Behind(m)'
    BY <2>1 DEF SessionInv, Behind
  <2>5. shown'.by = session => Behind(shown)'
    BY <2>1, <2>2 DEF SessionInv, Behind, Aside
  <2>6. (/\ ~unacknowledged /\ acknowledged # 0
         /\ connection'[session].state = "active" /\ connection'[session].term)
           => /\ shown' = shown
              /\ connection[session].state = "active" /\ connection[session].term
    BY <2>1, <2>2 DEF SessionInv, Aside
  <2> QED
    BY <2>1, <2>3, <2>4, <2>5, <2>6 DEF SessionInv, ShowsAcknowledged
<1>6. Ordered'
  <2>1. CASE shown' = shown
    BY <2>1 DEF Ordered
  <2>2. CASE shown'.by = Manual /\ shown'.at = 0
    <3>1. \A m \in updates : m.connection # Manual
      BY <1>1 DEF SyncInv, SyncTypeOK, Updates
    <3>2. time \in Nat
      BY ConnectionAssumption DEF SyncInv, SyncTypeOK
    <3> QED
      BY <2>2, <3>1, <3>2 DEF Ordered
  <2> QED
    BY <2>1, <2>2 DEF Aside
<1> QED
  BY <1>2, <1>3, <1>4, <1>5, <1>6

\* An update is what it says.
LEMMA UpdateShape ==
    ASSUME SyncInv, NEW m \in updates
    PROVE  /\ m.connection \in Connections /\ m.connection # Manual
           /\ m.sequence \in Nat \ {0} /\ m.page \in Pages /\ m.at \in Nat
BY ConnectionAssumption DEF SyncInv, SyncTypeOK, Updates

\* An update that is accepted, and was not before, is shown, and is no older than what
\* its connection showed.
AcceptedNow(m) ==
    /\ Live(m.connection)
    /\ m.sequence > connection[m.connection].sequence
    /\ connection' = [connection EXCEPT ![m.connection].sequence = m.sequence]
    /\ shown' = [by |-> m.connection, sequence |-> m.sequence, page |-> m.page, at |-> m.at]

\* An update that is not is aside.
LEMMA ApplyPageAside ==
    ASSUME SyncInv, NEW m \in updates, NEW answer, ApplyPage(m, answer)
    PROVE  AcceptedNow(m) \/ Aside
<1>0. /\ m.connection \in Connections /\ m.sequence \in Nat
      /\ connection \in [Connections -> Rows] /\ connection[m.connection].sequence \in Nat
  BY UpdateShape, ConnectionAssumption DEF SyncInv, ConnectionInv, ConnectionTypeOK, Rows
<1>1. CASE connection' = [connection EXCEPT ![m.connection] = Revoked(@)] /\ UNCHANGED shown
  <2>1. \A d \in Connections : \/ connection'[d] = connection[d]
                               \/ connection'[d] = Revoked(connection[d])
    BY <1>0, <1>1
  <2> QED
    BY <1>1, <2>1, RevokingAside DEF SyncInv
<1>2. CASE UNCHANGED <<connection, shown>>
  BY <1>2, RevokingAside DEF SyncInv
<1> QED
  BY <1>0, <1>1, <1>2 DEF ApplyPage, Outdated, AcceptedNow

\* Accepting an update keeps QuietInv.
LEMMA AcceptQuiet ==
    ASSUME SyncInv, SyncInv', QuietInv, NEW m \in updates, AcceptedNow(m),
           UNCHANGED quietVars,
           reply' # "none" => reply # "none",
           reply' = "accepted" => reply = "accepted" \/ Awaited(m)
    PROVE  QuietInv'
<1> USE DEF QuietInv, quietVars
<1> DEFINE c == m.connection
<1>0. /\ c \in Connections /\ c # Manual
      /\ m.sequence \in Nat \ {0} /\ m.at \in Nat
      /\ connection \in [Connections -> Rows]
      /\ connection[c].state = "active" /\ connection[c].sequence \in Nat
      /\ shown' = [by |-> c, sequence |-> m.sequence, page |-> m.page, at |-> m.at]
      /\ phase = "active" => session \in Connections
      /\ sequence \in Nat
  BY UpdateShape, ConnectionAssumption
     DEF AcceptedNow, Live, SyncInv, SyncTypeOK, ConnectionInv, ConnectionTypeOK, Rows
<1>1. /\ connection'[c].sequence = m.sequence
      /\ connection'[c].state = connection[c].state
      /\ connection'[c].term = connection[c].term
      /\ \A d \in Connections : d # c => connection'[d] = connection[d]
  BY <1>0 DEF AcceptedNow, Rows
<1>2. \A d \in Connections : /\ connection'[d].state = connection[d].state
                             /\ connection'[d].term = connection[d].term
  BY <1>1
<1>3. NothingBeforeClaim'
  BY <1>0, <1>1, <1>2 DEF NothingBeforeClaim, Pairing
<1>4. ShownRecorded'
  BY <1>0, <1>1 DEF ShownRecorded
<1>5. DesiredKept'
  BY DEF DesiredKept
<1>6. SessionInv'
  <2>1. SUFFICES ASSUME phase = "active" PROVE SessionInv'
    BY DEF SessionInv
  <2>2. session \in Connections /\ connection'[session].state \in {"active", "revoked"}
    BY <1>0, <1>2, <2>1 DEF SessionInv
  <2>3. \A n \in updates : n.connection = session => Behind(n)'
    BY <2>1 DEF SessionInv, Behind
  <2>4. shown'.by = session => Behind(shown)'
    BY <1>0, <2>1 DEF SessionInv, Behind
  <2>5. connection'[session].sequence <= sequence
    BY <1>0, <1>1, <2>1, <2>2, <2>3 DEF SessionInv, Behind
  <2>6. reply' = "accepted" => connection'[session].sequence = sequence
    <3>1. CASE session = c
      <4>1. m.sequence <= sequence
        BY <2>1, <3>1 DEF SessionInv, Behind
      <4>2. reply # "accepted"
        BY <1>0, <2>1, <3>1, <4>1 DEF SessionInv, AcceptedNow
      <4> QED
        BY <1>1, <3>1, <4>2 DEF Awaited
    <3>2. CASE session # c
      BY <1>1, <2>1, <2>2, <3>2 DEF SessionInv, Awaited
    <3> QED
      BY <3>1, <3>2
  <2>7. (/\ ~unacknowledged /\ acknowledged # 0
         /\ connection'[session].state = "active" /\ connection'[session].term) => FALSE
    <3>1. SUFFICES ASSUME ~unacknowledged, acknowledged # 0,
                          connection'[session].state = "active", connection'[session].term
                   PROVE  FALSE
      OBVIOUS
    <3>2. session = c
      BY <1>0, <1>2, <2>2, <3>1 DEF SyncInv, ConnectionInv, OneAuthority, Unrevoked
    <3>3. connection[c].sequence = sequence
      BY <1>2, <2>1, <2>2, <3>1, <3>2 DEF SessionInv, ShowsAcknowledged
    <3>4. m.sequence <= sequence
      BY <2>1, <3>2 DEF SessionInv, Behind
    <3> QED
      BY <1>0, <3>3, <3>4 DEF AcceptedNow
  <2> QED
    BY <2>2, <2>3, <2>4, <2>5, <2>6, <2>7 DEF SessionInv
<1>7. Ordered'
  BY <1>0 DEF Ordered
<1> QED
  BY <1>3, <1>4, <1>5, <1>6, <1>7

\* Executing an update keeps QuietInv.
LEMMA ExecuteQuiet ==
    ASSUME SyncInv, SyncInv', QuietInv, NEW m \in updates, UpdateExecuted(m)
    PROVE  QuietInv'
<1>1. PICK answer \in {"accepted", "refused", "limited"} :
         /\ ApplyPage(m, answer)
         /\ reply' \in {reply} \cup (IF Awaited(m) THEN {answer} \ {"limited"} ELSE {})
  BY DEF UpdateExecuted
<1>2. UNCHANGED quietVars
  BY DEF UpdateExecuted, show, network, quietVars
<1>3. /\ reply' # "none" => reply # "none"
      /\ reply' = reply \/ (Awaited(m) /\ reply' = answer)
  BY <1>1 DEF Awaited
<1>4. CASE AcceptedNow(m)
  BY <1>2, <1>3, <1>4, AcceptQuiet
<1>5. CASE Aside /\ ~AcceptedNow(m)
  <2>1. ASSUME Awaited(m), reply' = "accepted", reply' = answer
        PROVE  connection'[session].sequence = sequence
    <3>1. /\ connection[session].sequence \in Nat /\ session \in Connections
          /\ m.connection = session /\ m.sequence = sequence /\ sequence \in Nat
      BY <2>1, UpdateShape, ConnectionAssumption
         DEF Awaited, SyncInv, SyncTypeOK, ConnectionInv, ConnectionTypeOK, Rows
    <3>2. connection[session].sequence = sequence
      BY <1>1, <1>5, <2>1, <3>1 DEF ApplyPage, Outdated, AcceptedNow
    <3> QED
      BY <1>5, <3>1, <3>2 DEF Aside
  <2> QED
    BY <1>2, <1>3, <1>5, <2>1, AsideQuiet
<1> QED
  BY <1>1, <1>4, <1>5, ApplyPageAside

\* A step of the Bridge that leaves all of it alone keeps QuietInv.
LEMMA IdleQuiet ==
    ASSUME SyncInv, SyncInv', QuietInv, UNCHANGED <<connectionVars, quietVars, reply>>
    PROVE  QuietInv'
<1>1. UNCHANGED connectionVars /\ UNCHANGED quietVars /\ reply' = reply
  OBVIOUS
<1>2. Aside
  BY <1>1, HeartbeatAside DEF SyncInv
<1> QED
  BY <1>1, <1>2, AsideQuiet

\* So does the end of a session, or the beginning of a claim.
LEMMA EndQuiet ==
    ASSUME QuietInv, phase' # "active", UNCHANGED <<connectionVars, time, updates>>,
           NewRuntime \/ UNCHANGED <<tracker, dispatcher>>
    PROVE  QuietInv'
<1> USE DEF QuietInv, connectionVars
<1>1. NothingBeforeClaim' /\ ShownRecorded' /\ Ordered'
  BY DEF NothingBeforeClaim, ShownRecorded, Ordered
<1>2. DesiredKept'
  BY DEF DesiredKept, NewRuntime, NewTracker, dispatcher
<1>3. SessionInv'
  BY DEF SessionInv
<1> QED
  BY <1>1, <1>2, <1>3

\* A claim finds nothing that an earlier session of its connection left behind.
LEMMA ClaimQuiet ==
    ASSUME SyncInv, SyncInv', QuietInv, NEW c \in Connections, ClaimExecuted(c)
    PROVE  QuietInv'
<1>1. CASE ~MayAdvance(c, "confirmed") /\ UNCHANGED <<connectionVars, bridge>>
  BY <1>1, IdleQuiet DEF ClaimExecuted, quietVars, show, bridge, dispatcher
<1>2. CASE Claim(c) /\ UNCHANGED bridge
  <2>1. Aside
    BY <1>2, TeacherAside DEF SyncInv
  <2> QED
    BY <1>2, <2>1, AsideQuiet DEF ClaimExecuted, quietVars, show, bridge, dispatcher
<1>3. CASE Claim(c) /\ session = c /\ phase' = "active" /\ NewRuntime /\ UNCHANGED session
  <2>1. Aside
    BY <1>3, TeacherAside DEF SyncInv
  <2>2. /\ connection[c].state = "confirmed" /\ connection[c] \in Rows
        /\ connection \in [Connections -> Rows]
        /\ UNCHANGED <<shown, time, updates>>
    BY <1>3 DEF ClaimExecuted, Claim, Advances, MayAdvance, SyncInv, ConnectionInv,
                ConnectionTypeOK, show
  <2>3. /\ connection[c].sequence = 0
        /\ shown.by # c
        /\ \A m \in updates : m.connection # c
    BY <2>2 DEF QuietInv, NothingBeforeClaim, Pairing
  <2>4. connection'[c].state = "active" /\ connection'[c].sequence = 0
    BY <1>3, <2>2, <2>3 DEF Claim, Advances, Rows
  <2>5. /\ tracker' = NewTracker
        /\ desired' = NoState /\ acknowledged' = 0 /\ unacknowledged' = FALSE
        /\ envelope' = NoState /\ reply' = "none" /\ sequence' = 0 /\ session' = c
    BY <1>3 DEF NewRuntime
  <2>6. NothingBeforeClaim'
    <3>1. SUFFICES ASSUME NEW d \in Connections, connection'[d].state \in {"none"} \cup Pairing
                   PROVE  /\ connection'[d].sequence = 0
                          /\ shown'.by # d
                          /\ \A m \in updates' : m.connection # d
      BY DEF NothingBeforeClaim
    <3>2. d # c
      BY <2>4, <3>1 DEF Pairing
    <3>3. connection'[d] = connection[d]
      BY <1>3, <2>2, <3>2 DEF Claim, Advances
    <3> QED
      BY <2>2, <3>1, <3>3 DEF QuietInv, NothingBeforeClaim
  <2>7. ShownRecorded'
    BY <2>1, <2>2 DEF QuietInv, ShownRecorded, Aside
  <2>8. DesiredKept'
    BY <2>5 DEF DesiredKept, NewTracker
  <2>9. SessionInv'
    BY <2>2, <2>3, <2>4, <2>5 DEF SessionInv
  <2>10. Ordered'
    BY <2>2 DEF QuietInv, Ordered
  <2> QED
    BY <2>6, <2>7, <2>8, <2>9, <2>10 DEF QuietInv
<1> QED
  BY <1>1, <1>2, <1>3 DEF ClaimExecuted

\* Another slide is shown later than all that was observed.
LEMMA TurnQuiet ==
    ASSUME SyncInv, QuietInv, NEW page \in Pages, Turn(page)
    PROVE  QuietInv'
<1> USE DEF QuietInv, Turn, connectionVars, bridge, dispatcher, network
<1>1. time' = time + 1 /\ time \in Nat
  BY ConnectionAssumption DEF SyncInv, SyncTypeOK
<1>2. shown.at \in Nat /\ (desired # NoState => desired.at \in Nat)
  BY ConnectionAssumption, StateShapes DEF SyncInv, SyncTypeOK, ConnectionTypeOK
<1>3. \A m \in updates : m.at \in Nat
  BY UpdateShape
<1>4. NothingBeforeClaim' /\ ShownRecorded'
  BY DEF NothingBeforeClaim, ShownRecorded
<1>5. DesiredKept'
  BY <1>1, <1>2 DEF DesiredKept
<1>6. SessionInv'
  BY DEF SessionInv, Behind, ShowsAcknowledged
<1>7. Ordered'
  BY <1>1, <1>2, <1>3 DEF Ordered
<1> QED
  BY <1>4, <1>5, <1>6, <1>7

\* What is observed is newer than all that was sent.
LEMMA ObserveQuiet ==
    ASSUME SyncInv, QuietInv, Observe
    PROVE  QuietInv'
<1> USE DEF QuietInv, connectionVars, show, network
<1> DEFINE state == [page |-> slide, at |-> time]
<1>0. /\ slide \in Pages /\ time \in Nat /\ phase = "active" /\ session \in Connections
      /\ state # NoState /\ state.page = slide /\ state.at = time
      /\ slide # 0 /\ tracker \in [candidate : Pages \cup {0}, stable : Pages \cup {0}]
  BY ConnectionAssumption, StateShapes DEF Observe, SyncInv, SyncTypeOK, NoState
<1>1. NothingBeforeClaim' /\ ShownRecorded' /\ Ordered'
  BY DEF Observe, NothingBeforeClaim, ShownRecorded, Ordered
<1>2. CASE tracker' = [tracker EXCEPT !.candidate = slide] /\ UNCHANGED desired
  <2>1. tracker'.stable = tracker.stable
    BY <1>0, <1>2
  <2>2. DesiredKept'
    BY <1>2, <2>1 DEF Observe, DesiredKept
  <2>3. SessionInv'
    BY <1>2 DEF Observe, SessionInv, Behind, ShowsAcknowledged
  <2> QED
    BY <1>1, <2>2, <2>3
<1>3. CASE /\ tracker' = [tracker EXCEPT !.stable = slide]
           /\ desired' = Submitted(state)
  <2>1. tracker'.stable = slide
    BY <1>0, <1>3
  <2>2. \/ desired # NoState /\ desired.page = slide /\ desired' = desired
        \/ /\ desired = NoState /\ ~unacknowledged /\ acknowledged = slide
           /\ desired' = desired
        \/ desired' = state
    BY <1>0, <1>3 DEF Submitted, SamePage
  <2>3. UNCHANGED <<connection, shown, time, phase, session, acknowledged, unacknowledged,
                    envelope, reply, sequence, updates>>
    BY DEF Observe
  <2>4. DesiredKept'
    <3>1. desired # NoState => desired.at <= time
      BY DEF DesiredKept
    <3>2. envelope # NoState => envelope.at <= time
      <4>1. envelope # NoState => desired.at \in Nat /\ envelope.at \in Nat
        BY StateShapes, ConnectionAssumption DEF DesiredKept, SyncInv, SyncTypeOK
      <4> QED
        BY <1>0, <4>1 DEF DesiredKept
    <3>3. CASE desired' = state
      BY <1>0, <2>1, <2>3, <3>2, <3>3 DEF DesiredKept
    <3>4. CASE desired' = desired /\ desired # NoState /\ desired.page = slide
      BY <2>1, <2>3, <3>4 DEF DesiredKept
    <3>5. CASE /\ desired = NoState /\ ~unacknowledged /\ acknowledged = slide
               /\ desired' = desired
      BY <2>1, <2>3, <3>5 DEF DesiredKept
    <3> QED
      BY <2>2, <3>3, <3>4, <3>5
  <2>5. SessionInv'
    <3>1. CASE desired' = desired
      BY <2>3, <3>1 DEF SessionInv, Behind, ShowsAcknowledged
    <3>2. CASE desired' = state
      <4>1. /\ \A m \in updates : m.connection = session => Behind(m)'
            /\ shown.by = session => Behind(shown)'
        BY <1>0, <2>3, <3>2 DEF SessionInv, Behind, Ordered
      <4> QED
        BY <1>0, <2>3, <4>1 DEF SessionInv, ShowsAcknowledged
    <3> QED
      BY <2>2, <3>1, <3>2
  <2> QED
    BY <1>1, <2>4, <2>5
<1> QED
  BY <1>2, <1>3 DEF Observe

\* An attempt sends what is not older than anything sent before, under a number of
\* its own or with the same page again.
LEMMA AttemptQuiet ==
    ASSUME SyncInv, QuietInv, phase = "active", NEW state, NEW number,
           Attempt(state, number), desired # NoState,
           \/ state = desired /\ envelope = NoState /\ number = sequence + 1
           \/ state = envelope /\ envelope # NoState /\ number = sequence,
           UNCHANGED <<connectionVars, time, phase, session, tracker, desired, acknowledged>>
    PROVE  QuietInv'
<1> USE DEF QuietInv, connectionVars
<1> DEFINE m == [connection |-> session, sequence |-> number, page |-> state.page,
                 at |-> state.at]
<1>0. /\ session \in Connections /\ session # Manual /\ sequence \in Nat /\ time \in Nat
      /\ number \in Nat
      /\ state # NoState /\ state.at \in Nat /\ desired.at \in Nat
      /\ m.connection = session /\ m.sequence = number /\ m.page = state.page
      /\ m.at = state.at
      /\ shown.at \in Nat /\ shown.sequence \in Nat
      /\ connection[session].sequence \in Nat
  BY StateShapes, ConnectionAssumption
     DEF SyncInv, SyncTypeOK, ConnectionInv, ConnectionTypeOK, Rows
<1>1. /\ envelope' = state /\ sequence' = number /\ reply' = "waiting"
      /\ unacknowledged' = TRUE
      /\ updates' = updates \cup {m}
      /\ UNCHANGED <<connection, shown, time, phase, session, tracker, desired, acknowledged>>
  BY DEF Attempt
<1>2. state.at <= desired.at /\ desired.at <= time /\ state.at <= time
  BY <1>0 DEF DesiredKept
<1>3. \A n \in updates : /\ n.sequence \in Nat /\ n.at \in Nat
                         /\ n.connection = session =>
                              /\ n.sequence <= sequence /\ n.at <= state.at
                              /\ n.sequence = number =>
                                    n.page = state.page /\ n.at = state.at
  BY <1>0, UpdateShape DEF SessionInv, Behind
<1>4. shown.by = session => /\ shown.sequence <= sequence /\ shown.at <= state.at
                            /\ shown.sequence = number =>
                                  shown.page = state.page /\ shown.at = state.at
  BY <1>0 DEF SessionInv, Behind
<1> HIDE DEF m
<1>5. sequence <= number
  BY <1>0
<1>6. NothingBeforeClaim'
  <2>1. connection[session].state \in {"active", "revoked"}
    BY DEF SessionInv
  <2> QED
    BY <1>0, <1>1, <2>1 DEF NothingBeforeClaim, Pairing
<1>7. ShownRecorded'
  BY <1>1 DEF ShownRecorded
<1>8. DesiredKept'
  BY <1>0, <1>1, <1>2 DEF DesiredKept
<1>9. SessionInv'
  <2>1. \A n \in updates' : n.connection = session => Behind(n)'
    <3>1. SUFFICES ASSUME NEW n \in updates', n.connection = session PROVE Behind(n)'
      OBVIOUS
    <3>2. CASE n = m
      BY <1>0, <1>1, <1>2, <3>2 DEF Behind
    <3>3. CASE n \in updates
      BY <1>0, <1>1, <1>2, <1>3, <1>5, <3>1, <3>3 DEF Behind
    <3> QED
      BY <1>1, <3>2, <3>3
  <2>2. shown.by = session => Behind(shown)'
    BY <1>0, <1>1, <1>2, <1>4, <1>5 DEF Behind
  <2>3. connection[session].sequence <= number
    BY <1>0, <1>5 DEF SessionInv
  <2> QED
    BY <1>1, <2>1, <2>2, <2>3 DEF SessionInv
<1>10. Ordered'
  <2>1. \A n \in updates' : n.at <= time
    BY <1>0, <1>1, <1>2 DEF Ordered
  <2>2. \A n \in updates' : shown.by = n.connection /\ shown.sequence <= n.sequence
                               => shown.at <= n.at
    BY <1>0, <1>1, <1>4 DEF Ordered
  <2>3. \A k, n \in updates' : k.connection = n.connection /\ k.sequence <= n.sequence
                                  => k.at <= n.at
    <3>1. SUFFICES ASSUME NEW k \in updates', NEW n \in updates',
                          k.connection = n.connection, k.sequence <= n.sequence
                   PROVE  k.at <= n.at
      OBVIOUS
    <3>2. CASE k \in updates /\ n \in updates
      BY <3>1, <3>2 DEF Ordered
    <3>3. CASE k \in updates /\ n = m
      BY <1>0, <1>3, <3>1, <3>3
    <3>4. CASE k = m /\ n \in updates
      BY <1>0, <1>3, <1>5, <3>1, <3>4
    <3>5. CASE k = m /\ n = m
      BY <1>0, <3>5
    <3> QED
      BY <1>1, <3>2, <3>3, <3>4, <3>5
  <2> QED
    BY <1>1, <2>1, <2>2, <2>3 DEF Ordered
<1> QED
  BY <1>6, <1>7, <1>8, <1>9, <1>10

\* So the steps of the dispatcher keep QuietInv.
LEMMA DispatchQuiet ==
    ASSUME SyncInv, SyncInv', QuietInv,
           TakeDesired \/ Resend \/ UpdateAcknowledged \/ UpdateFailed
    PROVE  QuietInv'
<1> USE DEF show, network
<1>0. QuietInv /\ DesiredKept /\ SessionInv /\ phase = "active" /\ session \in Connections
  BY DEF QuietInv, SyncInv, SyncTypeOK, TakeDesired, Resend, UpdateAcknowledged, UpdateFailed
<1>1. CASE TakeDesired /\ ~Settled
  <2>1. /\ Attempt(desired, sequence + 1) /\ desired # NoState /\ envelope = NoState
        /\ UNCHANGED <<connectionVars, time, phase, session, tracker, desired, acknowledged>>
    BY <1>1 DEF TakeDesired
  <2> QED
    BY <1>0, <2>1, AttemptQuiet
<1>2. CASE Resend
  <2>1. /\ Attempt(envelope, sequence) /\ envelope # NoState
        /\ UNCHANGED <<connectionVars, time, phase, session, tracker, desired, acknowledged>>
    BY <1>2 DEF Resend
  <2>2. desired # NoState
    BY <1>0, <2>1 DEF DesiredKept
  <2> QED
    BY <1>0, <2>1, <2>2, AttemptQuiet
<1> USE DEF QuietInv, connectionVars
<1>3. CASE TakeDesired /\ Settled
  <2>1. /\ desired # NoState /\ envelope = NoState /\ ~unacknowledged
        /\ desired.page = acknowledged /\ desired' = NoState
        /\ UNCHANGED <<connection, shown, time, phase, session, tracker, acknowledged,
                       unacknowledged, envelope, reply, sequence, updates>>
    BY <1>3 DEF TakeDesired, Settled
  <2>2. NothingBeforeClaim' /\ ShownRecorded' /\ Ordered'
    BY <2>1 DEF NothingBeforeClaim, ShownRecorded, Ordered
  <2>3. DesiredKept'
    BY <2>1 DEF DesiredKept
  <2>4. SessionInv'
    BY <2>1 DEF SessionInv, Behind, ShowsAcknowledged
  <2> QED
    BY <2>2, <2>3, <2>4
<1>4. CASE UpdateAcknowledged
  <2>1. /\ reply = "accepted" /\ acknowledged' = envelope.page /\ unacknowledged' = FALSE
        /\ envelope' = NoState /\ reply' = "none"
        /\ desired' = IF SamePage(desired, envelope) THEN NoState ELSE desired
        /\ UNCHANGED <<connection, shown, time, phase, session, tracker, sequence, updates>>
    BY <1>4 DEF UpdateAcknowledged
  <2>2. /\ envelope # NoState /\ desired # NoState /\ desired.page = tracker.stable
        /\ connection[session].sequence = sequence /\ sequence > 0
    BY <1>0, <2>1 DEF DesiredKept, SessionInv, SyncInv, EnvelopeNumbered
  <2>3. NothingBeforeClaim' /\ ShownRecorded' /\ Ordered'
    BY <2>1 DEF NothingBeforeClaim, ShownRecorded, Ordered
  <2>4. DesiredKept'
    BY <2>1, <2>2 DEF DesiredKept, SamePage
  <2>5. connection[session].state = "active" /\ connection[session].term
           => shown.page = envelope.page
    <3>1. SUFFICES ASSUME connection[session].state = "active", connection[session].term
                   PROVE  shown.page = envelope.page
      OBVIOUS
    <3>2. shown.by = session /\ shown.sequence = sequence
      BY <1>0, <2>2, <3>1 DEF SyncInv, ConnectionInv, DisplayOwned
    <3> QED
      BY <1>0, <2>2, <3>2 DEF SessionInv, Behind
  <2>6. SessionInv'
    BY <1>0, <2>1, <2>2, <2>5 DEF SessionInv, Behind, ShowsAcknowledged
  <2> QED
    BY <2>3, <2>4, <2>6
<1>5. CASE UpdateFailed
  <2>1. /\ reply' = "none"
        /\ envelope' = IF desired # NoState /\ ~SamePage(desired, envelope) THEN NoState
                       ELSE envelope
        /\ UNCHANGED <<connection, shown, time, phase, session, tracker, desired,
                       acknowledged, unacknowledged, sequence, updates>>
    BY <1>5 DEF UpdateFailed
  <2>2. NothingBeforeClaim' /\ ShownRecorded' /\ Ordered'
    BY <2>1 DEF NothingBeforeClaim, ShownRecorded, Ordered
  <2>3. DesiredKept'
    BY <2>1 DEF DesiredKept
  <2>4. SessionInv'
    BY <2>1 DEF SessionInv, Behind, ShowsAcknowledged
  <2> QED
    BY <2>2, <2>3, <2>4
<1> QED
  BY <1>1, <1>2, <1>3, <1>4, <1>5

\* Losing an update leaves less to be behind.
LEMMA LossQuiet ==
    ASSUME QuietInv, NEW m \in updates, UpdateLost(m)
    PROVE  QuietInv'
<1> USE DEF QuietInv, UpdateLost, connectionVars, show, bridge, dispatcher
<1>1. NothingBeforeClaim' /\ ShownRecorded' /\ DesiredKept'
  BY DEF NothingBeforeClaim, ShownRecorded, DesiredKept
<1>2. SessionInv'
  BY DEF SessionInv, Behind, ShowsAcknowledged
<1>3. Ordered'
  BY DEF Ordered
<1> QED
  BY <1>1, <1>2, <1>3

\* Every step keeps QuietInv.
LEMMA QuietStep == SyncInv /\ SyncInv' /\ QuietInv /\ [SyncNext]_syncVars => QuietInv'
<1> SUFFICES ASSUME SyncInv, SyncInv', QuietInv, [SyncNext]_syncVars PROVE QuietInv'
  OBVIOUS
<1> USE DEF show, bridge, dispatcher, network
<1>1. CASE Teacher
  <2>1. Aside
    BY <1>1, TeacherAside DEF Teacher, SyncInv
  <2> QED
    BY <1>1, <2>1, AsideQuiet DEF Teacher, quietVars
<1>2. ASSUME NEW c \in Connections, StartClaim(c) PROVE QuietInv'
  BY <1>2, EndQuiet DEF StartClaim
<1>3. ASSUME NEW c \in Connections, HeartbeatExecuted(c) PROVE QuietInv'
  <2>1. Aside
    BY <1>3, HeartbeatAside DEF HeartbeatExecuted, SyncInv
  <2> QED
    BY <1>3, <2>1, AsideQuiet DEF HeartbeatExecuted, quietVars
<1>4. ASSUME NEW c \in Connections, DisconnectExecuted(c) PROVE QuietInv'
  <2>1. Aside
    BY <1>4, HeartbeatAside, TeacherAside DEF DisconnectExecuted, SyncInv, TeacherStep
  <2> QED
    BY <1>4, <2>1, AsideQuiet DEF DisconnectExecuted, quietVars
<1>5. CASE Stop
  BY <1>5, EndQuiet DEF Stop
<1>6. ASSUME NEW c \in Connections, FaultStop(c) PROVE QuietInv'
  BY <1>5, <1>6, IdleQuiet DEF FaultStop, quietVars
<1>7. CASE ClaimGivenUp \/ Stopped \/ Crash
  BY <1>7, EndQuiet DEF ClaimGivenUp, Stopped, Crash
<1>8. CASE SendHeartbeat \/ HeartbeatMissed \/ ShowLost
  BY <1>8, IdleQuiet DEF SendHeartbeat, HeartbeatMissed, ShowLost, quietVars
<1>9. CASE Disconnect
  BY <1>5, <1>9 DEF Disconnect
<1>10. ASSUME NEW call \in calls, CallLost(call) PROVE QuietInv'
  BY <1>10, IdleQuiet DEF CallLost, quietVars
<1>11. CASE UNCHANGED syncVars
  BY <1>11, IdleQuiet DEF syncVars, quietVars
<1>12. CASE SyncNext
  BY <1>1, <1>2, <1>3, <1>4, <1>6, <1>7, <1>8, <1>9, <1>10, <1>12, TurnQuiet, ClaimQuiet,
     ObserveQuiet, DispatchQuiet, ExecuteQuiet, LossQuiet DEF SyncNext
<1> QED
  BY <1>11, <1>12

\* The invariant holds of every reachable state.
LEMMA QuietInvHolds == SyncSpec => []QuietInv
BY QuietInit, QuietStep, SyncInvHolds, PTL DEF SyncSpec

\* A page is shown that is no older than the one it replaces.
LEMMA ForwardStep ==
    ASSUME SyncInv, QuietInv, [SyncNext]_syncVars, shown'.by = shown.by
    PROVE  shown'.at >= shown.at
<1>0. shown.at \in Nat /\ (shown.by = Manual => shown.at = 0)
  BY ConnectionAssumption
     DEF SyncInv, ConnectionInv, ConnectionTypeOK, QuietInv, ShownRecorded
<1>1. CASE Aside
  BY <1>0, <1>1 DEF Aside
<1>2. ASSUME NEW m \in updates, AcceptedNow(m) PROVE shown'.at >= shown.at
  <2>1. shown'.by = m.connection /\ shown'.at = m.at
    BY <1>2 DEF AcceptedNow
  <2>2. /\ m.sequence \in Nat /\ m.at \in Nat /\ m.connection \in Connections
        /\ connection[m.connection].sequence \in Nat /\ shown.sequence \in Nat
    BY UpdateShape, ConnectionAssumption DEF SyncInv, ConnectionInv, ConnectionTypeOK, Rows
  <2>3. shown.sequence <= connection[m.connection].sequence
    BY <2>1, <2>2 DEF QuietInv, ShownRecorded
  <2>4. shown.sequence <= m.sequence
    BY <1>2, <2>2, <2>3 DEF AcceptedNow
  <2> QED
    BY <1>0, <2>1, <2>2, <2>4 DEF QuietInv, Ordered
<1>3. Aside \/ \E m \in updates : AcceptedNow(m)
  <2>1. CASE UNCHANGED connectionVars
    BY <2>1, HeartbeatAside DEF SyncInv
  <2>2. ASSUME NEW c \in Connections, ClaimExecuted(c), ~UNCHANGED connectionVars PROVE Aside
    BY <2>2, TeacherAside DEF ClaimExecuted, SyncInv
  <2>3. ASSUME NEW c \in Connections, HeartbeatExecuted(c) PROVE Aside
    BY <2>3, HeartbeatAside DEF HeartbeatExecuted, SyncInv
  <2>4. ASSUME NEW c \in Connections, DisconnectExecuted(c), ~UNCHANGED connectionVars
        PROVE  Aside
    BY <2>4, TeacherAside DEF DisconnectExecuted, SyncInv, TeacherStep
  <2>5. CASE Teacher
    BY <2>5, TeacherAside DEF Teacher, SyncInv
  <2>6. ASSUME NEW m \in updates, UpdateExecuted(m) PROVE AcceptedNow(m) \/ Aside
    BY <2>6, ApplyPageAside DEF UpdateExecuted
  <2> QED
    BY <2>1, <2>2, <2>3, <2>4, <2>5, <2>6
       DEF SyncNext, syncVars, Turn, StartClaim, ClaimGivenUp, Observe, TakeDesired, Resend,
           UpdateAcknowledged, UpdateFailed, SendHeartbeat, HeartbeatMissed, ShowLost,
           Disconnect, Stop, FaultStop, Stopped, Crash, UpdateLost, CallLost
<1> QED
  BY <1>1, <1>2, <1>3

-----------------------------------------------------------------------------
(* The theorems.                                                             *)

\* Bridge, network and database keep their types, whatever is lost, repeated or cut
\* short.
THEOREM SyncTyped == SyncSpec => []SyncTypeOK
<1>1. SyncInv => SyncTypeOK
  BY DEF SyncInv
<1> QED
  BY <1>1, SyncInvHolds, PTL

\* Beside any Bridge and network the database moves only as PresenterConnection says.
THEOREM SyncImplementsConnection == SyncSpec => ConnectionSpec
<1>1. SyncInit => ConnectionInit
  BY DEF SyncInit
<1> QED
  BY <1>1, SyncInvHolds, StepRefines, PTL DEF SyncSpec, ConnectionSpec

\* So the display belongs to the connection that turned the page last, and to no
\* delayed request of another one.
THEOREM DisplayHeld == SyncSpec => []DisplayOwned
BY SyncImplementsConnection, ConnectionDisplayHeld, PTL

\* And a lease that ended, or was given back, is never taken up again.
THEOREM LeaseEnds == SyncSpec => LeaseIsTerminal
BY SyncImplementsConnection, ConnectionLeaseEnds, PTL

\* With nothing left to send, the stable slide is on the display: the page that was
\* acknowledged last is the one of the last sequence, and no repeated or delayed update
\* can have replaced it.
THEOREM QuietShows == SyncSpec => []QuietIsShown
<1>1. SyncInv /\ QuietInv => QuietIsShown
  BY DEF QuietInv, DesiredKept, SessionInv, ShowsAcknowledged, QuietIsShown
<1> QED
  BY <1>1, SyncInvHolds, QuietInvHolds, PTL

\* And the page of a connection never goes back to an earlier observation.
THEOREM PagesGoForward == SyncSpec => PagesForward
<1>1. SyncInv /\ QuietInv /\ [SyncNext]_syncVars
         => [shown'.by = shown.by => shown'.at >= shown.at]_shown
  BY ForwardStep
<1> QED
  BY <1>1, SyncInvHolds, QuietInvHolds, PTL DEF SyncSpec, PagesForward
=============================================================================
