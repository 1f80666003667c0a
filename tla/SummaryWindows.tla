---------------------------- MODULE SummaryWindows ----------------------------
(* The five-minute summaries of one lecture.  The teacher's page sends the      *)
(* earliest window it has not seen finished, with request ids it keeps until   *)
(* that window succeeds; an Edge invocation prepares the window, starts a paid *)
(* operation, claims the one right to ask the model, asks, and records the     *)
(* outcome.  The page sends again what it got no answer to, so that several    *)
(* invocations may work on the same ids, each in its own database calls.  Runs *)
(* are stopped and resumed, the lecture closes, and a cron settles what an     *)
(* invocation left behind.                                                     *)
EXTENDS Integers, FiniteSets, FiniteSetsExt

CONSTANTS
    WindowCount,    \* five-minute windows of the lecture
    Sources,        \* what the page can attach: captions and the PDF pages shown
    Slots,          \* Edge invocations at work at the same time
    NoSlot,         \* no invocation
    MaxPages,       \* bound on how often the teacher's page is loaded
    MaxRuns,        \* bound on summary runs
    MaxTurns,       \* bound on the tokens of a run
    MaxFaults       \* bound on lost, failed and late answers and dead invocations

ASSUME SummaryAssumption ==
    /\ {WindowCount, MaxPages, MaxRuns, MaxTurns} \subseteq Nat \ {0}
    /\ MaxFaults \in Nat
    /\ Sources # {} /\ NoSlot \notin Slots

VARIABLES
    open,       \* the lecture is open
    due,        \* windows that have ended: 1 .. due
    run,        \* the latest summary run
    window,     \* lecture_summary_windows
    receipt,    \* preflight receipts, by ticket
    operation,  \* ledger rows and dispatch receipts, by ticket
    provider,   \* what the model's provider was asked and may charge, by ticket
    page,       \* the teacher's page
    slot,       \* the Edge invocations
    faults      \* how much went wrong, for the bound

database == <<open, due, run, window, receipt, operation>>
summaryVars == <<database, provider, page, slot, faults>>

-----------------------------------------------------------------------------
(* Records.  The three request ids a page keeps for a window are one ticket.   *)

Windows == 1..WindowCount
Tickets == Windows \X (1..MaxPages)
NoTicket == <<0, 0>>
Tokens == [run : 0..MaxRuns, turn : 0..MaxTurns]
NoToken == [run |-> 0, turn |-> 0]
Final == {"succeeded", "skipped", "discarded"}
MaxAttempts == 2

IdleSlot == [pc |-> "idle", ticket |-> NoTicket, token |-> NoToken,
             sources |-> CHOOSE s \in Sources : TRUE, own |-> FALSE,
             outcome |-> "none", seen |-> {}]

SummaryInit ==
    /\ open = TRUE /\ due = 0
    /\ run = [status |-> "none", token |-> NoToken, expired |-> FALSE]
    /\ window = [w \in Windows |->
          [status |-> "none", attempts |-> 0, run |-> 0, operation |-> NoTicket]]
    /\ receipt = [t \in Tickets |->
          [result |-> "none", token |-> NoToken, sources |-> IdleSlot.sources,
           expected |-> 0, fresh |-> FALSE]]
    /\ operation = [t \in Tickets |->
          [usage |-> "none", dispatch |-> "none", settled |-> "no"]]
    /\ provider = [t \in Tickets |-> [asked |-> 0, billed |-> FALSE]]
    /\ page = [number |-> 1, token |-> NoToken, sources |-> IdleSlot.sources,
               processed |-> {}, waiting |-> NoSlot, tries |-> 0]
    /\ slot = [r \in Slots |-> IdleSlot]
    /\ faults = 0

Finished == {w \in Windows : window[w].status \in Final}
RunLive == open /\ run.status = "running" /\ ~run.expired

\* Context, master authorisation and policy: the run expires with the first of them.
Authority == open /\ ~run.expired

Fault == faults < MaxFaults /\ faults' = faults + 1
NoFault == UNCHANGED faults

-----------------------------------------------------------------------------
(* Settlement.                                                               *)

\* finish_lecture_ai_operation: the first settlement stands.
Settled(op, usage, charge) ==
    IF op.settled # "no" THEN op
    ELSE [op EXCEPT !.usage = IF op.usage = "running" THEN usage ELSE @,
                    !.settled = charge]

Closed(from, S, status) ==
    [w \in Windows |-> IF from[w].operation \in S
                       THEN [from[w] EXCEPT !.status = status, !.operation = NoTicket]
                       ELSE from[w]]

\* Operations S end with `usage` and `charge`, their windows with `status`.
Ends(S, usage, charge, status) ==
    /\ operation' = [t \in Tickets |->
           IF t \in S THEN Settled(operation[t], usage, charge) ELSE operation[t]]
    /\ window' = Closed(window, S, status)

\* settle_stale_google_ai_provider_dispatch_v1, of dispatches whose lease ended.
Stale == {t \in Tickets : operation[t].dispatch = "lapsed"
                          /\ operation[t].settled = "no"}

\* Mutant of SettleStale: only operations that still run are settled.
SettleRunning(S) ==
    Ends({t \in S : operation[t].usage = "running"}, "failed", "conservative", "failed")

SettleStale(S) == Ends(S, "failed", "conservative", "failed")

\* What a stop and the close of the lecture do to the work in progress: the
\* ledger rows are cancelled and stay unsettled, their windows are discarded.
\* Mutant of CancelRunning: the windows are left running.
CancelLedger ==
    /\ operation' = [t \in Tickets |->
           IF operation[t].usage = "running"
           THEN [operation[t] EXCEPT !.usage = "cancelled"] ELSE operation[t]]
    /\ UNCHANGED window

CancelRunning ==
    /\ operation' = [t \in Tickets |->
           IF operation[t].usage = "running"
           THEN [operation[t] EXCEPT !.usage = "cancelled"] ELSE operation[t]]
    /\ window' = [w \in Windows |->
           IF window[w].status = "running"
           THEN [window[w] EXCEPT !.status = "discarded", !.operation = NoTicket]
           ELSE window[w]]

-----------------------------------------------------------------------------
(* The invocation: generate-lecture-summary.                                  *)

Goto(r, pc) == slot' = [slot EXCEPT ![r].pc = pc]

\* The answer to the page; nobody reads it when the page no longer waits.
Answer(r, outcome, seen) ==
    slot' = [slot EXCEPT ![r] =
        IF page.waiting = r
        THEN [@ EXCEPT !.pc = "answered", !.outcome = outcome, !.seen = seen]
        ELSE IdleSlot]
Refuse(r) == Answer(r, "error", {})

\* The catch block: an invocation that owns the operation records the failure.
Catch(r, charge) ==
    IF slot[r].own
    THEN slot' = [slot EXCEPT ![r].pc = "fail", ![r].outcome = charge]
    ELSE Refuse(r)

\* A step of the invocation answers, or takes effect and its answer is lost.
Continues(answered, lost) == (NoFault /\ answered) \/ (Fault /\ lost)

\* prepare_google_admin_summary_window_v1 for ids it knows: the same bindings
\* or none, and a finished window is acknowledged.
\* Mutant of Replay: it is not.
ReplayUnacknowledged(r, t) ==
    /\ Refuse(r) /\ NoFault /\ UNCHANGED <<window, operation>>

Replay(r, t) ==
    LET known == receipt[t]
        row == window[t[1]]
    IN  IF known.token # slot[r].token \/ known.sources # slot[r].sources
        THEN Refuse(r) /\ NoFault /\ UNCHANGED <<window, operation>>
        ELSE IF row.status \in Final
        THEN /\ Continues(Answer(r, "final", {}), Refuse(r))
             /\ UNCHANGED <<window, operation>>
        ELSE IF ~open \/ (row.status = "failed" /\ row.attempts >= known.expected)
        THEN Refuse(r) /\ NoFault /\ UNCHANGED <<window, operation>>
        ELSE IF known.fresh
        THEN /\ Continues(Goto(r, "start"), Refuse(r))
             /\ UNCHANGED <<window, operation>>
        ELSE /\ Refuse(r) /\ NoFault    \* the context changed
             /\ Ends({u \in {t} : operation[u].usage = "running"
                                  /\ operation[u].dispatch = "none"},
                     "failed", "released", "failed")

PrepareReplay(r) ==
    LET t == slot[r].ticket IN
    /\ slot[r].pc = "prepare" /\ receipt[t].result # "none"
    /\ Replay(r, t)
    /\ UNCHANGED <<open, due, run, receipt, provider, page>>

\* ... and for new ids: a row for the window, unless another run has it, and a
\* receipt for what was decided.
Record(r, t, result, attempts) ==
    receipt' = [receipt EXCEPT ![t] =
        [result |-> result, token |-> slot[r].token, sources |-> slot[r].sources,
         expected |-> attempts, fresh |-> result = "prepared"]]

Prepare(r) ==
    LET t == slot[r].ticket
        w == t[1]
        row == IF window[w].status = "none"
               THEN [window[w] EXCEPT !.status = "pending", !.run = run.token.run]
               ELSE window[w]
    IN
    /\ slot[r].pc = "prepare" /\ receipt[t].result = "none"
    /\ IF RunLive /\ slot[r].token = run.token /\ row.run = run.token.run
       THEN \/ /\ row.status \in Final
               /\ Record(r, t, "final", row.attempts)
               /\ Continues(Answer(r, "final", {}), Refuse(r))
               /\ UNCHANGED window
            \/ /\ row.status = "running" \/ (row.status = "failed"
                                             /\ row.attempts >= MaxAttempts)
               /\ Refuse(r) /\ NoFault
               /\ UNCHANGED <<window, receipt>>
            \/ /\ row.status \in {"pending", "failed"} /\ row.attempts < MaxAttempts
               /\ \/ /\ window' = [window EXCEPT ![w] = [row EXCEPT !.status = "skipped"]]
                     /\ Record(r, t, "skipped", row.attempts)
                     /\ Continues(Answer(r, "final", {}), Refuse(r))
                  \/ /\ window' = [window EXCEPT ![w] = row]
                     /\ Record(r, t, "prepared", row.attempts + 1)
                     /\ Continues(Goto(r, "start"), Refuse(r))
       ELSE Refuse(r) /\ NoFault /\ UNCHANGED <<window, receipt>>
    /\ UNCHANGED <<open, due, run, operation, provider, page>>

\* start_google_admin_summary_window_operation_v1: the same operation for the
\* same ids; a new one when the window still waits and no other is running.
StartReplay(r) ==
    /\ slot[r].pc = "start" /\ operation[slot[r].ticket].usage # "none"
    /\ Continues(Goto(r, "claim"), Refuse(r))
    /\ UNCHANGED <<database, provider, page>>

LaneFree == \A t \in Tickets : operation[t].usage # "running"

Startable(r) ==
    LET row == window[slot[r].ticket[1]] IN
    /\ RunLive /\ slot[r].token = run.token /\ row.run = run.token.run
    /\ row.status \in {"pending", "failed"}
    /\ row.attempts + 1 = receipt[slot[r].ticket].expected
    /\ LaneFree

Start(r) ==
    LET t == slot[r].ticket
        row == window[t[1]]
    IN
    /\ slot[r].pc = "start" /\ operation[t].usage = "none"
    /\ IF Startable(r)
       THEN /\ operation' = [operation EXCEPT ![t].usage = "running"]
            /\ window' = [window EXCEPT ![t[1]] =
                   [row EXCEPT !.status = "running", !.attempts = row.attempts + 1,
                               !.operation = t]]
            /\ Continues(slot' = [slot EXCEPT ![r].pc = "claim", ![r].own = TRUE],
                         Refuse(r))
       ELSE Refuse(r) /\ NoFault /\ UNCHANGED <<operation, window>>
    /\ UNCHANGED <<open, due, run, receipt, provider, page>>

\* claim_google_ai_provider_dispatch_v1.  Whoever finds a dispatch may not ask;
\* an invocation that may not ask stops without recording a failure.
ClaimReplay(r) ==
    LET t == slot[r].ticket IN
    /\ slot[r].pc = "claim" /\ operation[t].dispatch # "none"
    /\ SettleStale({t} \cap Stale)
    /\ NoFault /\ (Refuse(r) \/ Catch(r, "none"))
    /\ UNCHANGED <<open, due, run, receipt, provider, page>>

Claimable(t) == Authority /\ operation[t].usage = "running"

\* Mutant of ClaimDispatch: a dispatch that exists is not looked for.
ClaimAgain(r) ==
    LET t == slot[r].ticket IN
    /\ slot[r].pc = "claim"
    /\ operation' = [operation EXCEPT ![t].dispatch = "leased"]
    /\ provider' = [provider EXCEPT ![t].asked = @ + 1]
    /\ slot' = [slot EXCEPT ![r].pc = "provider", ![r].own = TRUE]
    /\ NoFault
    /\ Claimable(t)
    /\ UNCHANGED <<open, due, run, window, receipt, page>>

ClaimDispatch(r) ==
    LET t == slot[r].ticket IN
    /\ slot[r].pc = "claim" /\ operation[t].dispatch = "none"
    /\ IF Claimable(t)
       THEN /\ operation' = [operation EXCEPT ![t].dispatch = "leased"]
            /\ \/ /\ provider' = [provider EXCEPT ![t].asked = @ + 1]
                  /\ slot' = [slot EXCEPT ![r].pc = "provider", ![r].own = TRUE]
               \/ Catch(r, "none") /\ UNCHANGED provider
       ELSE Catch(r, "none") /\ UNCHANGED <<operation, provider>>
    /\ UNCHANGED <<open, due, run, window, receipt, page, faults>>

\* The model answers with an output, with one that does not parse, with a status
\* that is known to be free, or not in a way that tells what it cost.
ProviderAnswers(r) ==
    LET t == slot[r].ticket IN
    /\ slot[r].pc = "provider"
    /\ \E answer \in {"output", "invalid", "rejected", "unknown"} :
          /\ provider' = [provider EXCEPT ![t].billed = @ \/ answer # "rejected"]
          /\ IF answer = "output"
             THEN Goto(r, "complete")
             ELSE slot' = [slot EXCEPT ![r].pc = "fail",
                     ![r].outcome = CASE answer = "invalid" -> "actual"
                                      [] answer = "rejected" -> "released"
                                      [] OTHER -> "conservative"]
    /\ UNCHANGED <<database, page, faults>>

\* complete_google_admin_summary_window_operation_v1.
Succeeds(t, published) ==
    /\ operation' = [operation EXCEPT ![t].usage = "succeeded", ![t].settled = "actual"]
    /\ window' = Closed(window, {t}, "succeeded")
    /\ receipt' = [u \in Tickets |->
           [receipt[u] EXCEPT !.fresh = @ /\ ~published]]

SavedNow(r) ==
    LET t == slot[r].ticket IN
    NoFault /\ (Answer(r, "done", Finished \cup {t[1]}) \/ Catch(r, "actual"))

\* Mutant of Complete: the result is taken whatever became of the operation.
CompleteAnyway(r) ==
    LET t == slot[r].ticket IN
    /\ slot[r].pc = "complete"
    /\ operation' = [operation EXCEPT ![t].usage = "succeeded", ![t].settled = "actual"]
    /\ window' = [window EXCEPT ![t[1]].status = "succeeded",
                                ![t[1]].operation = NoTicket]
    /\ SavedNow(r)
    /\ UNCHANGED <<open, due, run, receipt, provider, page>>

Complete(r) ==
    LET t == slot[r].ticket IN
    /\ slot[r].pc = "complete"
    /\ IF ~Authority
       THEN /\ Ends({t}, "cancelled", "conservative", "discarded")
            /\ Catch(r, "actual") /\ NoFault /\ UNCHANGED receipt
       ELSE IF operation[t].usage = "running"
       THEN /\ \E published \in BOOLEAN : Succeeds(t, published)
            /\ SavedNow(r)
       ELSE /\ Catch(r, "actual") /\ NoFault
            /\ UNCHANGED <<operation, window, receipt>>
    /\ UNCHANGED <<open, due, run, provider, page>>

\* fail_google_admin_summary_window_operation_v1.  A failure that names no
\* dispatch and no cost is not taken for an operation somebody dispatched.
\* Mutant of MayFail: it is.
MayFailAlways(r) == TRUE

MayFail(r) ==
    ~(slot[r].outcome = "none" /\ operation[slot[r].ticket].dispatch # "none")

Fail(r) ==
    LET t == slot[r].ticket
        charge == IF slot[r].outcome = "none" THEN "released" ELSE slot[r].outcome
    IN
    /\ slot[r].pc = "fail"
    /\ IF MayFail(r)
       THEN Ends({t}, "failed", charge, "failed")
       ELSE UNCHANGED <<operation, window>>
    /\ Refuse(r)
    /\ UNCHANGED <<open, due, run, receipt, provider, page, faults>>

\* A call fails without effect, or the invocation dies; the page sees an error.
CallFails(r) ==
    /\ slot[r].pc \in {"claim", "complete"}
    /\ Catch(r, IF slot[r].pc = "claim" THEN "none" ELSE "actual")
    /\ UNCHANGED <<database, provider, page, faults>>

Crash(r) ==
    /\ slot[r].pc \notin {"idle", "answered"} /\ Fault
    /\ Refuse(r)
    /\ provider' = [provider EXCEPT ![slot[r].ticket].billed =
                        @ \/ slot[r].pc = "provider"]
    /\ UNCHANGED <<database, page>>

-----------------------------------------------------------------------------
(* The teacher's page: LectureSummaryControl.                                 *)

Unprocessed == {w \in 1..due : w \notin page.processed}

\* processNextWindow, with the first thing the invocation does.
Send(r) ==
    /\ page.token # NoToken /\ page.waiting = NoSlot /\ Unprocessed # {}
    /\ slot[r].pc = "idle"
    /\ SettleStale(Stale)
    /\ slot' = [slot EXCEPT ![r] =
          [IdleSlot EXCEPT !.pc = "prepare", !.token = page.token,
                           !.ticket = <<Min(Unprocessed), page.number>>,
                           !.sources = page.sources]]
    /\ page' = [page EXCEPT !.waiting = r, !.tries = 1]
    /\ UNCHANGED <<open, due, run, receipt, provider, faults>>

\* An error, or no answer in time, is sent once more with the same body.
Retry(r, gone) ==
    \E next \in Slots :
        /\ next = r \/ slot[next].pc = "idle"
        /\ next # r \/ gone
        /\ SettleStale(Stale)
        /\ slot' = [s \in Slots |->
              IF s = next
              THEN [IdleSlot EXCEPT !.pc = "prepare", !.token = slot[r].token,
                                    !.ticket = slot[r].ticket, !.sources = slot[r].sources]
              ELSE IF s = r /\ gone THEN IdleSlot ELSE slot[s]]
        /\ page' = [page EXCEPT !.waiting = next, !.tries = @ + 1]
        /\ UNCHANGED <<open, due, run, receipt, provider>>

MayRetry == page.tries = 1

GiveUp(r, gone) ==
    /\ slot' = IF gone THEN [slot EXCEPT ![r] = IdleSlot] ELSE slot
    /\ page' = [page EXCEPT !.waiting = NoSlot, !.tries = 0]
    /\ UNCHANGED <<database, provider>>

NotAnswered(r) ==
    /\ page.waiting = r
    /\ \/ slot[r].pc = "answered" /\ slot[r].outcome = "error" /\ NoFault
       \/ slot[r].pc # "answered" /\ Fault
    /\ LET gone == slot[r].pc = "answered" IN
       IF MayRetry THEN Retry(r, gone) ELSE GiveUp(r, gone)

\* A result brings the windows with it; an acknowledgement has the page read
\* them, which must be those of the run it asked for.
Answered(r) ==
    /\ page.waiting = r /\ slot[r].pc = "answered" /\ slot[r].outcome # "error"
    /\ page' = [page EXCEPT !.waiting = NoSlot, !.tries = 0,
          !.processed = IF slot[r].outcome = "done" THEN slot[r].seen
                        ELSE IF slot[r].token.run = run.token.run THEN Finished ELSE @]
    /\ slot' = [slot EXCEPT ![r] = IdleSlot]
    /\ UNCHANGED <<database, provider, faults>>

\* The presenter turns to another page, or the captions of the window arrive.
TurnPage ==
    /\ page.token # NoToken
    /\ \E s \in Sources \ {page.sources} : page' = [page EXCEPT !.sources = s]
    /\ UNCHANGED <<database, provider, slot, faults>>

\* A reload forgets the request ids and reads the windows.
Reload ==
    /\ page.number < MaxPages /\ run.status = "running"
    /\ page' = [page EXCEPT !.number = @ + 1, !.token = NoToken, !.waiting = NoSlot,
                            !.tries = 0, !.processed = Finished]
    /\ slot' = [r \in Slots |-> IF slot[r].pc = "answered" THEN IdleSlot ELSE slot[r]]
    /\ UNCHANGED <<database, provider, faults>>

\* manage_google_admin_summary_run_v1: start, resume and stop.
StartRun ==
    /\ open /\ run.status # "running" /\ page.token = NoToken
    /\ run.token.run < MaxRuns
    /\ run' = [status |-> "running", expired |-> FALSE,
               token |-> [run |-> run.token.run + 1, turn |-> 1]]
    /\ page' = [page EXCEPT !.token = run'.token, !.processed = Finished]
    /\ UNCHANGED <<open, due, window, receipt, operation, provider, slot, faults>>

Resume ==
    /\ RunLive /\ page.token = NoToken /\ run.token.turn < MaxTurns
    /\ run' = [run EXCEPT !.token.turn = @ + 1]
    /\ page' = [page EXCEPT !.token = run'.token, !.processed = Finished]
    /\ UNCHANGED <<open, due, window, receipt, operation, provider, slot, faults>>

StopRun ==
    /\ run.status = "running" /\ ~run.expired
    /\ run' = [run EXCEPT !.status = "stopped"]
    /\ CancelRunning
    /\ UNCHANGED <<open, due, receipt, provider, page, slot, faults>>

\* The page learns that its run is over.
RunIsOver ==
    /\ run.status # "running" /\ page.token # NoToken
    /\ page' = [page EXCEPT !.token = NoToken, !.processed = Finished]
    /\ UNCHANGED <<database, provider, slot, faults>>

-----------------------------------------------------------------------------
(* The lecture and its clock.                                                 *)

CloseLecture ==
    /\ open /\ run.status = "running"
    /\ open' = FALSE
    /\ run' = [run EXCEPT !.status = "closed", !.expired = FALSE]
    /\ CancelRunning
    /\ UNCHANGED <<due, receipt, provider, page, slot, faults>>

RunExpires ==
    /\ run.status = "running" /\ ~run.expired
    /\ run' = [run EXCEPT !.expired = TRUE]
    /\ UNCHANGED <<open, due, window, receipt, operation, provider, page, slot, faults>>

WindowEnds ==
    /\ open /\ due < WindowCount
    /\ due' = due + 1
    /\ UNCHANGED <<open, run, window, receipt, operation, provider, page, slot, faults>>

\* Comments, the material or the last published summary changed.
Outdated == [t \in Tickets |-> [receipt[t] EXCEPT !.fresh = FALSE]]
ContextChanges ==
    /\ run.status = "running" /\ \E t \in Tickets : receipt[t].fresh
    /\ receipt' = Outdated
    /\ UNCHANGED <<open, due, run, window, operation, provider, page, slot, faults>>

LeaseLapses(t) ==
    /\ operation[t].dispatch = "leased" /\ operation[t].settled = "no"
    /\ operation' = [operation EXCEPT ![t].dispatch = "lapsed"]
    /\ UNCHANGED <<open, due, run, window, receipt, provider, page, slot, faults>>

\* reap_stale_google_ai_provider_dispatches_v1, from the maintenance cron.
Reap ==
    /\ Stale # {}
    /\ SettleStale(Stale)
    /\ UNCHANGED <<open, due, run, receipt, provider, page, slot, faults>>

Step(r) ==
    \/ PrepareReplay(r) \/ Prepare(r)
    \/ StartReplay(r) \/ Start(r)
    \/ ClaimReplay(r) \/ ClaimDispatch(r)
    \/ ProviderAnswers(r) \/ Complete(r) \/ Fail(r)

SummaryNext ==
    \/ \E r \in Slots : Step(r) \/ CallFails(r) \/ Crash(r)
                        \/ Send(r) \/ NotAnswered(r) \/ Answered(r)
    \/ TurnPage \/ Reload \/ StartRun \/ Resume \/ StopRun \/ RunIsOver
    \/ CloseLecture \/ RunExpires \/ WindowEnds
    \/ ContextChanges \/ Reap
    \/ \E t \in Tickets : LeaseLapses(t)

\* Invocations proceed, the page keeps asking, leases run out by the clock and
\* the cron comes back every five minutes.
SummaryFairness ==
    /\ \A r \in Slots : WF_summaryVars(Step(r))
    /\ \A r \in Slots : WF_summaryVars(Answered(r) \/ NotAnswered(r))
    /\ WF_summaryVars(\E r \in Slots : Send(r))
    /\ WF_summaryVars(RunIsOver)
    /\ \A t \in Tickets : WF_summaryVars(LeaseLapses(t))
    /\ WF_summaryVars(Reap)

SummarySafety == SummaryInit /\ [][SummaryNext]_summaryVars
SummarySpec == SummarySafety /\ SummaryFairness

-----------------------------------------------------------------------------
(* Properties.                                                               *)

\* The rows, receipts, requests and the page have the shapes of their columns.
SummaryTypeOK ==
    /\ open \in BOOLEAN /\ due \in 0..WindowCount /\ faults \in 0..MaxFaults
    /\ run \in [status : {"none", "running", "stopped", "closed"},
                token : Tokens, expired : BOOLEAN]
    /\ window \in [Windows -> [status : Final \cup {"none", "pending", "running", "failed"},
                               attempts : 0..MaxAttempts, run : 0..MaxRuns,
                               operation : Tickets \cup {NoTicket}]]
    /\ receipt \in [Tickets -> [result : {"none", "prepared", "skipped", "final"},
                                token : Tokens, sources : Sources,
                                expected : 0..MaxAttempts, fresh : BOOLEAN]]
    /\ operation \in [Tickets ->
          [usage : {"none", "running", "succeeded", "failed", "cancelled"},
           dispatch : {"none", "leased", "lapsed"},
           settled : {"no", "released", "actual", "conservative"}]]
    /\ provider \in [Tickets -> [asked : 0..MaxAttempts, billed : BOOLEAN]]
    /\ page \in [number : 1..MaxPages, token : Tokens, sources : Sources,
                 processed : SUBSET Windows, waiting : Slots \cup {NoSlot}, tries : 0..2]
    /\ slot \in [Slots ->
          [pc : {"idle", "prepare", "start", "claim", "provider", "complete", "fail",
                 "answered"},
           ticket : Tickets \cup {NoTicket}, token : Tokens, sources : Sources,
           own : BOOLEAN, seen : SUBSET Windows,
           outcome : {"none", "error", "final", "done", "released", "actual",
                      "conservative"}]]

\* However often a window is sent, by one page or by several, the model is asked
\* at most once per start request and at most twice for a window
\* (claim_google_ai_provider_dispatch_v1, the attempt limit of the window).
DispatchOnce ==
    /\ \A t \in Tickets : provider[t].asked <= 1
    /\ \A w \in Windows :
          /\ Cardinality({t \in Tickets : t[1] = w /\ provider[t].asked # 0})
                <= window[w].attempts
          /\ window[w].attempts <= MaxAttempts

\* A call that may cost money is never settled as free: the failure of an
\* invocation that lost the dispatch to another does not release its reservation
\* (fail_google_admin_summary_window_operation_v1).
PaidIsCharged ==
    \A t \in Tickets : provider[t].billed => operation[t].settled # "released"

\* The rows are well formed, and a window is running exactly while an operation of its
\* own run is, and then the run and the lecture still are; one operation runs at a time.
\* A stop or a close leaves none behind.
WindowsTrackOperations ==
    /\ SummaryTypeOK
    /\ \A w \in Windows :
          (window[w].status = "running") = (window[w].operation # NoTicket)
    /\ \A t \in Tickets :
          (operation[t].usage = "running") = (window[t[1]].operation = t)
    /\ \A t, u \in Tickets :
          operation[t].usage = "running" /\ operation[u].usage = "running" => t = u
    /\ \A w \in Windows : window[w].status = "running" =>
          open /\ run.status = "running" /\ window[w].run = run.token.run

\* A finished window stays as it is, and a summary is saved only by an operation
\* in progress, while its run and the lecture go on: what the model answers after
\* a stop, a close or the end of the lease is thrown away.
SummariesFinal ==
    [][\A w \in Windows :
          /\ window[w].status \in Final => window'[w] = window[w]
          /\ window[w].status # "succeeded" /\ window'[w].status = "succeeded" =>
                RunLive /\ window[w].run = run.token.run
                /\ window[w].operation # NoTicket
                /\ operation[window[w].operation].usage = "running"]_summaryVars

\* Every dispatch is settled in the end, whatever its invocation, the run and the
\* lecture come to: by the invocation, or by the cron after the lease.
DispatchEnds ==
    \A t \in Tickets :
        operation[t].dispatch # "none" ~> operation[t].settled # "no"

\* The window the page asks for next is finished, and nothing the page sends with
\* its ids has changed.
Owed(w) ==
    LET known == receipt[<<w, page.number>>] IN
    /\ w \in Unprocessed /\ (\A v \in Unprocessed : w <= v)
    /\ window[w].status \in Final /\ window[w].run = run.token.run
    /\ RunLive /\ page.token = run.token
    /\ known.result = "none"
       \/ (known.token = page.token /\ known.sources = page.sources)

\* A window that finished while its answer was lost is acknowledged when the page
\* sends its ids again, so that the page goes on to the next window.
SavedIsShown == \A w \in Windows : Owed(w) ~> ~Owed(w)

\* The documents promise one retry after an output that does not parse: a window
\* that failed once is tried again, while its page and its run go on.
FailedOnce(w) ==
    /\ window[w].status = "failed" /\ window[w].attempts = 1
    /\ \E t \in Tickets : t[1] = w /\ operation[t].settled = "actual"
InvalidIsRetried ==
    \A w \in Windows : FailedOnce(w) ~> (~FailedOnce(w) \/ ~RunLive)
=============================================================================
