---------------------------- MODULE RealtimeCalls ----------------------------
(* The OpenAI Realtime calls behind the live captions of one lecture.  An Edge *)
(* invocation reserves an operation, claims the one right to ask the provider  *)
(* for a call, asks, and records what came back; every answer may get lost and *)
(* the invocation may die between any two steps.  What it leaves behind is     *)
(* settled by a maintenance cron and the call hung up by sweepers working from *)
(* the call table.  Stops, heartbeats and captions come from browsers, at any  *)
(* time and about any operation.                                              *)
EXTENDS Integers, FiniteSets

CONSTANTS
    Operations,     \* caption operations, each with its own start request
    NoOperation,    \* no operation
    Sweepers,       \* invocations of the hangup sweep, one job at a time each
    MaxGrants       \* bound on how often the lecture's AI use is authorised

ASSUME RealtimeAssumption ==
    /\ NoOperation \notin Operations
    /\ MaxGrants \in Nat

VARIABLES
    ops,        \* operation -> its ledger row, receipts and provider call row
    master,     \* the lecture's AI authorisation: none, active, or past its end
    grants,     \* how often it was granted, for the bound
    open,       \* the lecture is open
    enabled,    \* captions_enabled of a control that is ready or running
    caption,    \* the operation whose caption the students see
    provider,   \* operation -> the call at the provider
    edge,       \* operation -> the Edge invocation that starts it
    jobs        \* sweeper -> the hangup it works on

database == <<ops, master, grants, open, enabled, caption>>
realtimeVars == <<database, provider, edge, jobs>>

-----------------------------------------------------------------------------
(* Records.                                                                  *)

NotStarted == [usage |-> "none", settled |-> "no", dispatch |-> "none",
               receipt |-> "none", receiptCall |-> FALSE, row |-> "none",
               known |-> FALSE, lapsed |-> FALSE, overdue |-> "no"]
Idle == [op |-> NoOperation, outcome |-> "none"]
HangupRows == {"stop_requested", "hanging_up", "retry"}

\* ai_usage_ledger, the dispatch and creation receipts and
\* ai_realtime_provider_calls.
RealtimeInit ==
    /\ ops = [o \in Operations |-> NotStarted]
    /\ master = "none"
    /\ grants = 0
    /\ open = TRUE
    /\ enabled = FALSE
    /\ caption = NoOperation
    /\ provider = [o \in Operations |-> "none"]
    /\ edge = [o \in Operations |-> [pc |-> "idle", call |-> FALSE, certain |-> FALSE]]
    /\ jobs = [s \in Sweepers |-> Idle]

Running(o) == ops[o].usage = "running"

\* live_authority: the operation runs, unsettled, for a lecture and an
\* authorisation that still allow captions.
LiveAuthority(o) ==
    /\ Running(o) /\ ops[o].settled = "no" /\ ops[o].dispatch # "none"
    /\ open /\ master = "active" /\ enabled

\* The trigger on the ledger, when an operation leaves "running".
EnqueueHangup(op) ==
    IF op.row = "stopped" THEN op
    ELSE [op EXCEPT !.row = IF op.known THEN "stop_requested" ELSE "creation_failed",
                    !.lapsed = FALSE]

Cancelled(op) ==
    IF op.usage = "running" THEN EnqueueHangup([op EXCEPT !.usage = "cancelled"])
    ELSE op

\* Mutant of SettledAs: a later settlement replaces the first.
SettledAgain(op, kind) == [Cancelled(op) EXCEPT !.settled = kind]

\* finish_lecture_ai_operation: the first settlement stands.
SettledAs(op, kind) ==
    IF op.settled # "no" THEN op ELSE [Cancelled(op) EXCEPT !.settled = kind]

\* finish_realtime_caption_operation, from the receipts.
ChargeOf(op) ==
    IF op.dispatch = "none" \/ op.receipt = "failed" THEN "released"
    ELSE IF op.receipt = "activated" THEN "actual" ELSE "conservative"

\* ... it also turns the feature off and withdraws the caption, whatever it
\* found to settle.
Finish(S, from) ==
    /\ ops' = [o \in Operations |->
                  IF o \in S THEN SettledAs(from[o], ChargeOf(from[o])) ELSE from[o]]
    /\ enabled' = (enabled /\ S = {})
    /\ caption' = IF S = {} THEN caption ELSE NoOperation

\* settle_unclaimed_google_realtime_start_v1: a start that nobody dispatched.
SettledUnclaimed(op) ==
    SettledAs([op EXCEPT !.dispatch = "lapsed", !.receipt = "failed",
                         !.receiptCall = FALSE, !.row = "creation_failed"],
              "released")

\* settle_stale_google_ai_provider_dispatch_v1: a dispatch that never reported.
\* Mutant of SettledStale: it is taken for a start that nobody dispatched.
SettledStaleFree(op) == SettledUnclaimed(op)

SettledStale(op) ==
    IF op.receipt # "none"
    THEN SettledAs(op, IF op.receipt = "failed" THEN "released" ELSE "conservative")
    ELSE SettledAs([op EXCEPT !.receipt = "uncertain", !.receiptCall = op.known,
                              !.row = IF op.known THEN "stop_requested"
                                      ELSE "creation_failed",
                              !.lapsed = FALSE],
                   "conservative")

\* reap_stale_google_ai_provider_dispatches_v1.
Reaped(from) ==
    [o \in Operations |->
        IF from[o].settled # "no" THEN from[o]
        ELSE IF from[o].dispatch = "lapsed" /\ from[o].receipt # "activated"
        THEN SettledStale(from[o])
        ELSE IF from[o].dispatch = "none" /\ from[o].usage = "running"
                /\ from[o].overdue # "no"
        THEN SettledUnclaimed(from[o]) ELSE from[o]]

-----------------------------------------------------------------------------
(* The Edge invocation: issue-realtime-client-secret.  A call of the database *)
(* takes effect and is answered, takes effect and its answer is lost, or fails*)
(* without effect.                                                           *)

Goto(o, pc) == edge' = [edge EXCEPT ![o].pc = pc]

\* Stale work of earlier invocations is settled first; a failure refuses the start.
Begin(o) ==
    /\ edge[o].pc = "idle"
    /\ ops' = Reaped(ops)
    /\ \E next \in {"start", "over"} : Goto(o, next)
    /\ UNCHANGED <<master, grants, open, enabled, caption, provider, jobs>>

CanStart ==
    /\ open /\ master = "active"
    /\ \A o \in Operations : ~Running(o)

\* start_google_admin_realtime_operation_v1 with its one retry: the second
\* request finds the receipt of the first.
StartCommits(o) ==
    /\ edge[o].pc \in {"start", "startAgain"}
    /\ IF ops[o].usage # "none"
       THEN UNCHANGED <<ops, enabled>>
       ELSE /\ CanStart
            /\ ops' = [ops EXCEPT ![o] = [NotStarted EXCEPT !.usage = "running",
                                                            !.row = "creating"]]
            /\ enabled' = TRUE
    /\ \E next \in {"claim", IF edge[o].pc = "start" THEN "startAgain" ELSE "over"} :
          Goto(o, next)
    /\ UNCHANGED <<master, grants, open, caption, provider, jobs>>

StartFails(o) ==
    /\ edge[o].pc \in {"start", "startAgain"}
    /\ \E next \in {"over", IF edge[o].pc = "start" THEN "startAgain" ELSE "over"} :
          Goto(o, next)
    /\ UNCHANGED <<database, provider, jobs>>

\* claim_google_ai_provider_dispatch_v1: the first claim of a start may ask the
\* provider, every other is told not to.
MayClaim(o) ==
    /\ Running(o) /\ ops[o].dispatch = "none"
    /\ open /\ master = "active" /\ enabled

ClaimCommits(o) ==
    /\ edge[o].pc \in {"claim", "claimAgain"}
    /\ MayClaim(o)
    /\ ops' = [ops EXCEPT ![o].dispatch = "leased"]
    /\ \E next \in {"create", IF edge[o].pc = "claim" THEN "claimAgain" ELSE "over"} :
          Goto(o, next)
    /\ UNCHANGED <<master, grants, open, enabled, caption, provider, jobs>>

\* Refused, or an exact replay, which recovers a dispatch whose lease ran out.
ClaimRefused(o) ==
    /\ edge[o].pc \in {"claim", "claimAgain"}
    /\ ~MayClaim(o)
    /\ ops' = IF ops[o].dispatch = "lapsed" /\ ops[o].settled = "no"
              THEN [ops EXCEPT ![o] = SettledStale(ops[o])] ELSE ops
    /\ Goto(o, "over")
    /\ UNCHANGED <<master, grants, open, enabled, caption, provider, jobs>>

ClaimFails(o) ==
    /\ edge[o].pc \in {"claim", "claimAgain"}
    /\ Goto(o, IF edge[o].pc = "claim" THEN "claimAgain" ELSE "over")
    /\ UNCHANGED <<database, provider, jobs>>

\* createOpenAiRealtimeCall.
AskProvider(o) ==
    /\ edge[o].pc = "create"
    /\ provider' = [provider EXCEPT ![o] = "asked"]
    /\ Goto(o, "wait")
    /\ UNCHANGED <<database, jobs>>

\* The answer with the call id; its body may be lost or malformed.
CallAnswered(o) ==
    /\ edge[o].pc = "wait"
    /\ provider[o] \in {"live", "ended"}
    /\ \E next \in {"activate", "fail"} :
          edge' = [edge EXCEPT ![o] = [pc |-> next, call |-> TRUE, certain |-> FALSE]]
    /\ UNCHANGED <<database, provider, jobs>>

\* An HTTP error: no call exists.
CallRefused(o) ==
    /\ edge[o].pc = "wait"
    /\ provider[o] = "refused"
    /\ edge' = [edge EXCEPT ![o] = [pc |-> "fail", call |-> FALSE, certain |-> TRUE]]
    /\ UNCHANGED <<database, provider, jobs>>

\* A timeout, or an answer without a call id: a call may exist or come to exist.
CallUnknown(o) ==
    /\ edge[o].pc = "wait"
    /\ edge' = [edge EXCEPT ![o] = [pc |-> "fail", call |-> FALSE, certain |-> FALSE]]
    /\ UNCHANGED <<database, provider, jobs>>

\* finalize_google_admin_realtime_provider_v1 binds one call id to a start: it
\* raises when a receipt with another call id, outcome or error exists.
Accepts(o, outcome) ==
    /\ ops[o].dispatch # "none"
    /\ IF ops[o].receipt = "none" THEN ~ops[o].known
       ELSE /\ ops[o].receiptCall = edge[o].call
            /\ \/ outcome = "activated" /\ ops[o].receipt \in {"activated", "uncertain"}
               \/ outcome = "uncertain" /\ ops[o].receipt = "activated" /\ ops[o].known

\* What it leaves: a first activation with live authority runs; anything else
\* ends the operation and enqueues the hangup of a call it knows.  An exact replay
\* changes nothing, and an activation nobody heard of is ended after all.
Effective(o, outcome) ==
    IF outcome = "activated" /\ ~LiveAuthority(o) THEN "uncertain" ELSE outcome

Replayed(op, outcome) ==
    op.receipt # "none" /\ ~(op.receipt = "activated" /\ outcome = "uncertain")

Finalized(o, outcome) ==
    LET op == ops[o]
        effective == Effective(o, outcome)
        bound == [op EXCEPT !.receiptCall = edge[o].call, !.known = edge[o].call]
    IN  IF Replayed(op, outcome) THEN op
        ELSE IF effective = "activated"
        THEN [bound EXCEPT !.receipt = "activated", !.row = "active"]
        ELSE SettledAs([bound EXCEPT
                            !.receipt = IF op.receipt = "none" THEN effective ELSE @,
                            !.lapsed = FALSE,
                            !.row = IF bound.known THEN "stop_requested"
                                    ELSE "creation_failed"],
                       IF effective = "failed" THEN "released" ELSE "conservative")

\* activate_google_admin_realtime_provider_v1 with its one retry.  Accepted: the
\* browser is answered.  Not accepted: the call is hung up.
ActivateCommits(o) ==
    /\ edge[o].pc \in {"activate", "activateAgain"}
    /\ Accepts(o, "activated")
    /\ ops' = [ops EXCEPT ![o] = Finalized(o, "activated")]
    /\ \E next \in {IF ops'[o].receipt = "activated" THEN "served" ELSE "hangup",
                    IF edge[o].pc = "activate" THEN "activateAgain" ELSE "fail"} :
          Goto(o, next)
    /\ UNCHANGED <<master, grants, open, enabled, caption, provider, jobs>>

ActivateFails(o) ==
    /\ edge[o].pc \in {"activate", "activateAgain"}
    /\ Goto(o, IF edge[o].pc = "activate" THEN "activateAgain" ELSE "fail")
    /\ UNCHANGED <<database, provider, jobs>>

\* fail_google_admin_realtime_provider_v1.
AfterFail(o) == IF edge[o].call THEN "hangup" ELSE "over"
FailureOf(o) == IF edge[o].certain THEN "failed" ELSE "uncertain"

FailCommits(o) ==
    /\ edge[o].pc = "fail"
    /\ Accepts(o, FailureOf(o))
    /\ ops' = [ops EXCEPT ![o] = Finalized(o, FailureOf(o))]
    /\ \E next \in {AfterFail(o), "stop"} : Goto(o, next)
    /\ UNCHANGED <<master, grants, open, enabled, caption, provider, jobs>>

FailFails(o) ==
    /\ edge[o].pc = "fail"
    /\ Goto(o, "stop")
    /\ UNCHANGED <<database, provider, jobs>>

\* stopFeature needs the evidence of a dispatch and of its outcome, which the call
\* row agrees with.
MayStop(o) ==
    /\ ops[o].dispatch # "none" /\ ops[o].receipt # "none"
    /\ ops[o].known = ops[o].receiptCall

\* The last resort: stopFeature, whatever becomes of it.
StopAfterFailure(o) ==
    /\ edge[o].pc = "stop"
    /\ \/ MayStop(o) /\ Finish({o}, ops)
       \/ UNCHANGED <<ops, enabled, caption>>
    /\ Goto(o, AfterFail(o))
    /\ UNCHANGED <<master, grants, open, provider, jobs>>

\* The direct hangup; when it is not confirmed one sweep of this operation follows,
\* which is a sweeper's Claim like any other.
DirectHangup(o) ==
    /\ edge[o].pc = "hangup"
    /\ provider' \in {provider, [provider EXCEPT ![o] = "ended"]}
    /\ Goto(o, "over")
    /\ UNCHANGED <<database, jobs>>

\* The invocation is killed and with it what only it knew.
Crash(o) ==
    /\ edge[o].pc \notin {"idle", "served", "over"}
    /\ edge' = [edge EXCEPT ![o] = [pc |-> "over", call |-> FALSE, certain |-> FALSE]]
    /\ UNCHANGED <<database, provider, jobs>>

-----------------------------------------------------------------------------
(* The provider, which may accept a request its client gave up, and may end a *)
(* call by itself.                                                           *)

ProviderDecides(o) ==
    /\ provider[o] = "asked"
    /\ \E answer \in {"live", "refused"} : provider' = [provider EXCEPT ![o] = answer]
    /\ UNCHANGED <<database, edge, jobs>>

ProviderEnds(o) ==
    /\ provider[o] = "live"
    /\ provider' = [provider EXCEPT ![o] = "ended"]
    /\ UNCHANGED <<database, edge, jobs>>

-----------------------------------------------------------------------------
(* Browsers and administrators.  A browser learns of its own operation from   *)
(* the answer of the invocation; any browser may find and stop a running one. *)

\* manage_google_admin_ai_control_v1 stopFeature, of any operation.
StopFeature(o) ==
    /\ MayStop(o)
    /\ Finish({o}, ops)
    /\ UNCHANGED <<master, grants, open, provider, edge, jobs>>

\* heartbeat: it keeps a live operation alive, and finishes one that lost its
\* authority or used up its time.
Heartbeat(o) ==
    /\ edge[o].pc = "served" /\ MayStop(o)
    /\ IF /\ LiveAuthority(o) /\ ops[o].receipt = "activated" /\ ops[o].row = "active"
          /\ ops[o].overdue # "elapsed"
       THEN /\ ops' = [ops EXCEPT ![o].overdue = "no"]
            /\ UNCHANGED <<enabled, caption>>
       ELSE Finish({o}, ops)
    /\ UNCHANGED <<master, grants, open, provider, edge, jobs>>

\* publish_google_caption_window_v1; at the end of the reserved time it finishes
\* the operation instead.
Publish(o) ==
    /\ edge[o].pc = "served"
    /\ LiveAuthority(o) /\ ops[o].receipt = "activated" /\ ops[o].row = "active"
    /\ IF ops[o].overdue = "elapsed" THEN Finish({o}, ops)
       ELSE caption' = o /\ UNCHANGED <<ops, enabled>>
    /\ UNCHANGED <<master, grants, open, provider, edge, jobs>>

Grant ==
    /\ open /\ master = "none" /\ grants < MaxGrants
    /\ master' = "active"
    /\ grants' = grants + 1
    /\ UNCHANGED <<ops, open, enabled, caption, provider, edge, jobs>>

MasterLapses ==
    /\ master = "active"
    /\ master' = "lapsed"
    /\ UNCHANGED <<ops, grants, open, enabled, caption, provider, edge, jobs>>

\* stop_lecture_ai_control: running operations are cancelled, none is settled.
Stopped == [o \in Operations |-> Cancelled(ops[o])]

\* Revoked by an administrator, or the end of its time is noticed.
Revoke ==
    /\ master # "none"
    /\ master' = "none"
    /\ ops' = Stopped
    /\ enabled' = FALSE
    /\ UNCHANGED <<grants, open, caption, provider, edge, jobs>>

\* manage_google_admin_ai_control_v1 stop, or the captions switched off: the running
\* captions are settled and the control allows no more.
StopAll ==
    /\ LET running == {o \in Operations : Running(o)}
       IN  /\ ops' = [o \in Operations |->
                         IF o \in running THEN SettledAs(ops[o], ChargeOf(ops[o])) ELSE ops[o]]
           /\ caption' = IF running = {} THEN caption ELSE NoOperation
    /\ enabled' = FALSE
    /\ UNCHANGED <<master, grants, open, provider, edge, jobs>>

\* close_lecture_core.
CloseLecture ==
    /\ open
    /\ open' = FALSE
    /\ ops' = Stopped
    /\ enabled' = FALSE
    /\ UNCHANGED <<master, grants, caption, provider, edge, jobs>>

-----------------------------------------------------------------------------
(* Time and maintenance.                                                     *)

Ages(o, due) ==
    /\ Running(o)
    /\ ops' = [ops EXCEPT ![o].overdue = due]
    /\ UNCHANGED <<master, grants, open, enabled, caption, provider, edge, jobs>>

\* 45 seconds pass without a heartbeat.
FallsSilent(o) == ops[o].overdue = "no" /\ Ages(o, "silent")

\* The reserved time is used up.
TimeElapses(o) == ops[o].overdue # "elapsed" /\ Ages(o, "elapsed")

\* The 90 seconds of a dispatch run out.
DispatchLapses(o) ==
    /\ ops[o].dispatch = "leased"
    /\ ops' = [ops EXCEPT ![o].dispatch = "lapsed"]
    /\ UNCHANGED <<master, grants, open, enabled, caption, provider, edge, jobs>>

\* run_phase6_6_maintenance, one transaction: dispatches are reaped, captions that
\* fell silent are finished, and so is every operation that ended unsettled.
\* Mutant of Due: operations that ended unsettled are not looked for.
DueRunning(op) == op.usage = "running" /\ op.overdue # "no"

Due(op) == \/ op.usage = "running" /\ op.overdue # "no"
           \/ op.usage = "cancelled" /\ op.settled = "no"

Maintain ==
    /\ LET reaped == Reaped(ops)
       IN  Finish({o \in Operations : Due(reaped[o])}, reaped)
    /\ UNCHANGED <<master, grants, open, provider, edge, jobs>>

-----------------------------------------------------------------------------
(* The hangup sweep.                                                         *)

\* claim_realtime_provider_hangups.
Claimable(o) ==
    /\ ops[o].known
    /\ \/ ops[o].row \in {"stop_requested", "retry"}
       \/ ops[o].row = "hanging_up" /\ ops[o].lapsed

Claim(s, o) ==
    /\ jobs[s] = Idle
    /\ Claimable(o)
    /\ ops' = [ops EXCEPT ![o].row = "hanging_up", ![o].lapsed = FALSE]
    /\ jobs' = [jobs EXCEPT ![s] = [op |-> o, outcome |-> "none"]]
    /\ UNCHANGED <<master, grants, open, enabled, caption, provider, edge>>

\* hangupOpenAiRealtimeCall: a call that is gone counts as hung up.
HangUp(s) ==
    /\ jobs[s].op # NoOperation /\ jobs[s].outcome = "none"
    /\ provider' = [provider EXCEPT ![jobs[s].op] = "ended"]
    /\ jobs' = [jobs EXCEPT ![s].outcome = "ok"]
    /\ UNCHANGED <<database, edge>>

\* An error or a timeout; the provider may have ended the call all the same.
HangUpFails(s) ==
    /\ jobs[s].op # NoOperation /\ jobs[s].outcome = "none"
    /\ provider' \in {provider, [provider EXCEPT ![jobs[s].op] = "ended"]}
    /\ jobs' = [jobs EXCEPT ![s].outcome = "error"]
    /\ UNCHANGED <<database, edge>>

\* finish_realtime_provider_hangup, of whoever holds the row by now.
\* Mutant of HangupResult: the row is closed whatever the provider said.
HangupResultIgnored(outcome) == "stopped"

HangupResult(outcome) == IF outcome = "ok" THEN "stopped" ELSE "retry"

Report(s) ==
    /\ jobs[s].outcome # "none"
    /\ LET o == jobs[s].op
       IN  \/ ops' = IF ops[o].row # "hanging_up" THEN ops
                     ELSE [ops EXCEPT ![o].row = HangupResult(jobs[s].outcome),
                                      ![o].lapsed = FALSE]
           \/ UNCHANGED ops
    /\ jobs' = [jobs EXCEPT ![s] = Idle]
    /\ UNCHANGED <<master, grants, open, enabled, caption, provider, edge>>

SweeperDies(s) ==
    /\ jobs[s] # Idle
    /\ jobs' = [jobs EXCEPT ![s] = Idle]
    /\ UNCHANGED <<database, provider, edge>>

HangupLapses(o) ==
    /\ ops[o].row = "hanging_up" /\ ~ops[o].lapsed
    /\ ops' = [ops EXCEPT ![o].lapsed = TRUE]
    /\ UNCHANGED <<master, grants, open, enabled, caption, provider, edge, jobs>>

-----------------------------------------------------------------------------
EdgeStep(o) ==
    \/ Begin(o) \/ StartCommits(o) \/ StartFails(o)
    \/ ClaimCommits(o) \/ ClaimRefused(o) \/ ClaimFails(o)
    \/ AskProvider(o) \/ CallAnswered(o) \/ CallRefused(o) \/ CallUnknown(o)
    \/ ActivateCommits(o) \/ ActivateFails(o) \/ FailCommits(o) \/ FailFails(o)
    \/ StopAfterFailure(o) \/ DirectHangup(o) \/ Crash(o)

UserStep == \/ \E o \in Operations : StopFeature(o) \/ Heartbeat(o) \/ Publish(o)
            \/ Grant \/ MasterLapses \/ Revoke \/ StopAll \/ CloseLecture

SweepStep(s) == \/ \E o \in Operations : Claim(s, o)
                \/ HangUp(s) \/ HangUpFails(s) \/ Report(s) \/ SweeperDies(s)

RealtimeNext ==
    \/ \E o \in Operations : EdgeStep(o) \/ ProviderDecides(o) \/ ProviderEnds(o)
    \/ UserStep
    \/ \E o \in Operations : \/ FallsSilent(o) \/ TimeElapses(o)
                             \/ DispatchLapses(o) \/ HangupLapses(o)
    \/ Maintain
    \/ \E s \in Sweepers : SweepStep(s)

RealtimeSpec == RealtimeInit /\ [][RealtimeNext]_realtimeVars

\* The clock runs, the maintenance and sweep crons fire, an invocation of the sweep
\* comes to an end, and a hangup repeated for ever succeeds at last.
RealtimeFairness ==
    /\ WF_realtimeVars(Maintain)
    /\ \A o \in Operations :
          /\ WF_realtimeVars(TimeElapses(o))
          /\ WF_realtimeVars(HangupLapses(o))
          /\ SF_realtimeVars(\E s \in Sweepers : Claim(s, o))
          /\ SF_realtimeVars(\E s \in Sweepers : jobs[s].op = o /\ HangUp(s))
    /\ \A s \in Sweepers :
          WF_realtimeVars(HangUp(s) \/ HangUpFails(s) \/ Report(s) \/ SweeperDies(s))

FairRealtimeSpec == RealtimeSpec /\ RealtimeFairness

-----------------------------------------------------------------------------
(* Properties.                                                               *)

RealtimeTypeOK ==
    /\ ops \in [Operations -> [
          usage : {"none", "running", "cancelled"},
          settled : {"no", "released", "actual", "conservative"},
          dispatch : {"none", "leased", "lapsed"},
          receipt : {"none", "activated", "failed", "uncertain"},
          receiptCall : BOOLEAN,
          row : {"none", "creating", "active", "creation_failed", "stopped"} \cup HangupRows,
          known : BOOLEAN,
          lapsed : BOOLEAN,
          overdue : {"no", "silent", "elapsed"}]]
    /\ \A o \in Operations : ops[o].settled # "no" => ops[o].usage = "cancelled"
    /\ master \in {"none", "active", "lapsed"}
    /\ grants \in 0..MaxGrants
    /\ open \in BOOLEAN
    /\ enabled \in BOOLEAN
    /\ caption \in Operations \cup {NoOperation}
    /\ provider \in [Operations -> {"none", "asked", "live", "ended", "refused"}]
    /\ edge \in [Operations -> [
          pc : {"idle", "start", "startAgain", "claim", "claimAgain", "create", "wait",
                "activate", "activateAgain", "fail", "stop", "hangup", "served", "over"},
          call : BOOLEAN, certain : BOOLEAN]]
    /\ jobs \in [Sweepers -> [op : Operations \cup {NoOperation},
                              outcome : {"none", "ok", "error"}]]

\* The books are well formed, an operation that is settled has ended, and books and
\* calls at the provider agree.  A live call whose id reached the
\* database is either the call of a running operation or queued for a hangup, so it
\* never drops out of the sweep's sight; the sweep only works on operations that have
\* ended, so that no running caption is cut off; and an operation settled as free has
\* no call, neither one that was made nor a request that may still become one (the
\* trigger on the ledger, claim_realtime_provider_hangups, the settlements).
LiveIsTracked ==
    \A o \in Operations :
        provider[o] = "live" /\ ops[o].known =>
            IF Running(o) THEN ops[o].row = "active" ELSE ops[o].row \in HangupRows

SweptHasEnded ==
    \A s \in Sweepers : jobs[s] # Idle => ~Running(jobs[s].op)

NeverFree ==
    \A o \in Operations :
        ops[o].settled = "released" => provider[o] \notin {"asked", "live", "ended"}

CallsAccounted == RealtimeTypeOK /\ LiveIsTracked /\ SweptHasEnded /\ NeverFree

\* What an operation was charged stands: a stop, a late answer of the provider and
\* the maintenance may all come to settle it, and the first one decides.
SettledOnce ==
    [][\A o \in Operations :
          ops[o].settled # "no" => ops'[o].settled = ops[o].settled]_realtimeVars

\* Every operation that was started is settled in the end, whatever became of the
\* browser, the Edge invocation and the authorisation, and students do not keep the
\* last caption of an operation that ended.
EventuallySettled ==
    \A o \in Operations : Running(o) ~> ops[o].settled # "no"

CaptionWithdrawn ==
    \A o \in Operations : caption = o /\ ~Running(o) ~> caption # o

SettledAndWithdrawn == EventuallySettled /\ CaptionWithdrawn

\* A call the database knows ends once its operation has ended.
KnownCallEnds ==
    \A o \in Operations : ops[o].known /\ ~Running(o) ~> provider[o] # "live"

=============================================================================
