# Verification of Compass Interactive

TLA+ models, model checks and machine-checked proofs about Compass Interactive,
a lecture system: a React client, Supabase (PostgreSQL RPCs and Edge
functions), a Cloudflare Worker over a private R2 bucket, and helpers on the
teacher's machine. Paths below are relative to the repository root.

Six subsystems are verified, those where an operation spans stores or
machines that share no transaction:

* **PDF publication** (`docs/PHASE7_26_BROWSER_PDF_PUBLICATION.md`): a PostgreSQL
  row and R2 objects, with retries, take-overs, aborts, and a cleanup that
  destroys bytes.
* **Live snapshots**: the copy of a lecture that a student's browser keeps, fed by
  answers that come late, out of order, or not at all.
* **Realtime calls** (`docs/PHASE6_6_INTEGRATED_UX_AND_OPERATIONS.md`): paid calls at
  a provider that must be accounted for and hung up, whoever dies on the way.
* **The Presenter Bridge** (`docs/PHASE7_29_POWERPOINT_PRESENTER_BRIDGE.md`): a
  PowerPoint on the teacher's machine that turns the pages of the lecture.
* **Five-minute summaries** (`docs/PHASE6_FIVE_MINUTE_SUMMARIES.md`): windows that are
  summarised by a paid model, sent again and again by a page that lost the answer.
* **The projector** (`docs/PHASE7_28_REQUIREMENTS_AND_DESIGN.md`,
  `docs/LECTURE_UX_FINAL_REQUIREMENTS_AND_IMPLEMENTATION_PLAN.md`): display links, the
  browser that claims one, its snapshots and private channel, and the teacher's delivery badge.

## 1. Inventory

| Component | State | Operations | What is hard | What must hold | Model |
|---|---|---|---|---|---|
| PDF publication records (`20260721075029…sql`, `20260721190000…sql`, `20260811123000…sql`) | `lecture_pdf_publications`, `lecture_sessions.pdf_access_version` | create, reissue, claim nonce, record uploaded, prepare/complete commit and activation, abort, close, claim/complete cleanup | stages under leases, take-over, receipts that come late | one version at a time moves; access history without gaps; one newest active version | `PublicationRecords` |
| Asset Worker, uploads (`pdfPublication.ts`) | ledger and PDF object per publication | upload, status, recovery | ETag read before a long body and used after it; reissued tickets | recorded bytes exist; an older ticket never wins | `PublicationUpload` |
| Asset Worker, manifest (`pdfPublication.ts`) | manifest of the lecture | commit, activate, rollback | whole-file rewrites by several requests; crash between manifest and ledger | committed means listed; manifest within one step of the database | `PublicationManifest` |
| Asset Worker, cleanup (`pdfPublication.ts`) | cleanup fields of ledger and row | claim, quiesce, sentinel, rollback, remove, tombstone, complete | overlapping passes; requests accepted before it | a finished cleanup is sound, permanent, and happens | `PublicationCleanup` |
| Edge function (`manage-pdf-publications`), coordinator | none | initiate, finalize, abort, reissue | reads a row, calls the Worker, then uses what it read | no half-published deck | `PdfPublication` |
| Student reads (`worker.ts`) | none | manifest, document access | access version of the token against the manifest | the published deck or nothing | `StudentDeck` |
| Client live sync (`CompassStateContext.tsx`, `liveSnapshotVersionFence.ts`) | what is shown, known versions, epochs, request sequences | join, poll, apply, like, comment | answers out of order, across lectures and epochs | an older answer never undoes a newer one; the end of the lecture arrives | `LiveSnapshot` |
| Realtime provider calls (`20260717090500…sql`, `issue-realtime-client-secret`) | ledger, receipts, provider call rows | reserve, dispatch, activate, stop, settle, sweep | provider answers after the stop; an invocation dies with a live call | what may cost is never settled as free; known calls end | `RealtimeCalls` |
| Presenter connections (`20260905074220…sql` and earlier) | connection, lease, last sequence, page shown | issue, inspect, confirm, claim, page, heartbeat, disconnect, revoke | late and repeated pages, terminal lease, manual recovery | one authority; a lease that ended stays ended | `PresenterConnection` |
| PowerPoint presenter bridge (add-in) | tracker, dispatcher, session | observe, send, repeat, heartbeat, stop | unknown outcomes, crash, two sides that disagree | the slide at rest is what students see | `PresenterSync` |
| Five-minute summaries (`20260811223000…sql`, `generate-lecture-summary`, `LectureSummaryControl.tsx`) | runs, windows, receipts, operations | start/stop/resume, prepare, dispatch, complete, fail, reap | invocations sharing request ids; answers after a stop | the model asked once per start; nothing paid is free; nothing saved late | `SummaryWindows` |
| Lecture lifecycle (`20260714080706…sql`) | lecture status, deadline | open, close, expire | closes under every other operation | terminal states are final | only its effects, in the modules above |
| Display realtime (`20260731110507…sql`, `20260825173000…sql`, `DisplayPage.tsx`, `displayRealtime.ts`) | display roots, Realtime bindings, kill switch, stored launch, reports waiting | issue, claim, poll, subscribe, acknowledge, revoke, kill switch | races for a link, lost channel messages, late reports of older loads | one display per lecture; what ended stays ended; "synced" is true, and comes | `DisplaySession` |
| AI lanes, billing, activation (`20260715145555…sql`, `20260825183000…sql`) | lanes, usage, intents | reserve, settle, confirm, cancel | limits under concurrency | intent used once | only as guards |
| Academic answers | operations | ask, dispatch, complete | as the summaries | as the summaries | – |
| Admin identity and sessions | sessions | sign in, step up, revoke | – | precondition of everything above | – |
| Archive, retention, digest, journal club, polls, comments | rows, archive objects | – | batch exports, single statements | – | – |
| Local Publisher, browser client, presenter gateway, UI | local | – | – | – | – |

How they interact. *Publication*: the browser calls the Edge function,
which calls one RPC (one transaction under row locks) and gets a signed ticket.
The browser sends the PDF with the ticket to the Worker. The Worker asks the
database, through the coordinator function, to use up the nonce and later to
record the upload. `finalize` asks the Worker for the status, prepares the
commit in the database, sends a commit ticket to the Worker, completes the
commit with its receipt, and does the same for activation. `abort` discards the
row and sends a rollback ticket. A cron trigger of the Worker claims terminal
rows and cleans up. Students get tokens from the database's access version and
show them to the Worker, which compares them with the manifest's.

*Live*: browsers poll `get_live_snapshot` with the section versions they know and get
what changed. The page they are shown is set by the teacher's manual controls or by the
Presenter Bridge, through the gateway Worker and the presenter functions.
*AI*: an Edge function admits an operation to the ledger, takes the one right to ask
the provider (dispatch claim), asks, and settles; maintenance settles what it leaves
behind. Captions and summaries use different lanes of one authorisation. Closing
the lecture revokes connections, cancels operations and ends publications.
*Display*: a page in the projector's browser claims a link at an Edge function, polls the
operator's snapshot, is told of changes through a private Broadcast channel, and
reports what it has drawn; the teacher's badge compares the last report with the live state.

`PROJECT.json` lists every component with its status, and every hazard with its
source line and the properties that cover it.

## 2. Modules

| Module | Models | Extends |
|---|---|---|
| `PublicationRecords` | the rows and RPCs (`DBSpec`) and its properties | – |
| `PublicationStore` | bucket, manifest, ledgers, conditional puts, running invocations | `PublicationRecords` |
| `PublicationUpload` | upload, recovery and status requests | `PublicationStore` |
| `PublicationManifest` | commit, activate and rollback requests | `PublicationStore` |
| `PublicationCleanup` | a scheduled cleanup pass | `PublicationStore` |
| `PdfPublication` | the Edge function, crashes, and the composition (`Spec`, `FairSpec`) and its properties | the three above |
| `StudentDeck` | abstract specification: what students are promised | – |
| `LiveSnapshot` | a student's browser, the network, and what the database serves | – |
| `RealtimeCalls` | caption operations from admission to the end of the paid call | – |
| `PresenterConnection` | the connections as the database keeps them (`ConnectionSpec`), the abstract specification of the next module | – |
| `PresenterSync` | the Bridge and the network over those connections (`SyncSpec`) | `PresenterConnection` |
| `SummaryWindows` | page, invocations, provider and database of the summaries | – |
| `DisplaySession` | display links, the windows that open them, channel and reports | – |
| `PublicationRecordsMC`, `PdfPublicationMC`, `LiveSnapshotMC`, `RealtimeCallsMC`, `PresenterSyncMC`, `SummaryWindowsMC`, `DisplaySessionMC` | instances for TLC | |
| `PublicationRecords_proofs`, `LiveSnapshot_proofs`, `DisplaySession_proofs`, `RealtimeCalls_proofs`, `SummaryWindows_proofs` | theorems | the module proved about, `TLAPS` |
| `PdfPublication_proofs` | theorems about the composition | `PdfPublication`, the proofs of `PublicationRecords` |
| `PublicationDeck_proofs` | theorems about the manifest and the students' deck | `PdfPublication_proofs` |
| `PresenterSync_proofs` | theorems about the connections and about their composition with Bridge and network | `PresenterSync`, `TLAPS` |

The names of actions follow the handler and its stage; `PROJECT.json` gives the
lines of every definition. An RPC locks what it reads (the lecture, then its rows), so it
is one action; each storage, provider or coordinator call is an action of its own, so
that others run between any two. A definition whose comment begins *Mutant of* is a
wrong version kept to show that a property notices it; no specification uses it.
In every module *time* is abstract: an instant becomes a step (a lease lapses, an
operation becomes overdue, a window ends) which may happen at any moment unless the
code compares the clock earlier.

### PDF publication

`row[p]` is a row of `lecture_pdf_publications` (columns that only feed hashes, budgets
or audit are dropped), `accessVersion` is `pdf_access_version`. `ledger[p]`, `manifest`,
`object[p]` are the R2 objects. `request[r]` is a running invocation: its kind, the
stage it has reached (`pc`), its ticket, and what it has read.

*Abstractions:*

* *Time.* An instant becomes a step: a lease is live until `LeaseLapses`, an
  operation becomes overdue, a cleanup lease lapses, the ten-minute backoff has
  passed (`QuiescencePasses`). All of them may happen at any moment.
* *ETags.* A put conditional on an ETag succeeds exactly if nobody wrote since
  it was loaded; an invocation keeps a flag that other writes clear. Each manifest
  write raises `manifest_version` by one, so the version stands for its ETag.
* *Names.* A nonce, a JTI or an attempt id belongs to a ticket generation and is
  the generation. Operation ids are numbered by take-over.
* *Merged reads.* Loading a ledger and checking the stored object is one step;
  so is a failed compare-and-swap with the re-read that follows it at once. The
  object changes only to a tombstone, after the ledger has been rewritten, so
  separating the first pair adds no outcome.
* *Refusals.* Sessions, signatures, byte, page and text budgets and a ticket's own
  expiry only refuse; a request may stop at any point anyway. Idempotent replays
  that change nothing are stuttering.
* *External writers.* The Local Publisher is mutually exclusive with this mode by
  the operating rules of the document above; archive and retention rewrite the
  manifest after the lecture. Neither is modelled.
* *Cap on attempts.* The trigger that ends a cleanup after 1000 failed attempts is not
  modelled: it would only turn a cleanup that never succeeds into an exhausted one. So
  `Convergence` is about a cleanup that has attempts left.
* *Merged put.* `verifyStoredObject` and the put of the ledger after it
  (`pdfPublication.ts:846,862`) are one step: the put is conditional, and fails if a tombstone
  took the object's place between them, as the ledger was rewritten before.
* *Whose completion is believed.* The database compares the claim of a pass with the row's by
  `<>` (`20260721075029…sql:2375-2380`), which is not true when the row's claim is NULL. `CleanupAccepted`
  is that test: a completion is refused while another pass holds the row, or when the lease
  lapsed, and believed when nobody holds it. The report of a failed pass, and
  an upload's receipt that came late, clear the claim (`:2402-2406`, `:1154-1157`).
* *Students.* `manifest.access = accessVersion` is the check of a token's `av`.
  A token is signed from the database's access version and the manifest is never
  behind it (`AccessInStep`), so an older token matches no manifest. The further
  check of the manifest version only withholds more.

### Live snapshots

`server[l]` is what the database serves of a lecture: section versions and contents.
`known` and `applied` are the two version maps of the fence, `requests` the answers
travelling, `sent` the order of the requests of the current fence, `display`,
`comments`, `liked` what the student sees, and `ops` the student's own comments and likes on
the way. *Abstractions:*

* A lifecycle epoch is only compared with the current one: a request carries whether
  its epoch is `current`, and `late` whether a newer request has been applied.
* The sections are lecture, comments, likes and PDF page. Poll answers, older
  comments, demo mode, resume tokens and the operator's snapshot are left out.
* `RunEffect` (React runs a due effect) is a step of its own, later than what made it
  due. A poll may come at any time while the tab is `awake`, as the loop's delays and its
  backoff are abstracted. A hidden tab polls once more after half a minute, or not at all, and
  then its loop rests until the tab is visible (`useAdaptiveLiveSync.ts:62-73,119-140`,
  `liveSync.ts:74-76`): it is awake until `Sleep`, and again after `Wake`.
* A comment may be hidden and shown again, also after the lecture was closed
  (`20260716140920…sql:2757-2778`), when nobody may write any more.
* `MaxMoves` bounds what the user does, `MaxChanges` the changes of a lecture.

### Realtime calls

`ops[o]` joins the ledger row of an operation, its dispatch and creation receipts and its
provider call row; `provider[o]` is the call at the provider, `edge[o]` the
invocation that starts it, `jobs[s]` the hangup a sweeper works on. *Abstractions:*

* The control of the lecture is reduced to `enabled`; child grant, budgets, policy,
  gates, TOTP and the session's identity to `master` (none, active, past its end).
* Amounts are reduced to the kind of settlement: released, conservative or actual.
* An answer of the provider outside 200-299 is taken for certain to have made no call
  (`_shared/openaiRealtime.ts:144-149`), also a 5xx; the model assumes that this is so.
* Attempt counts and backoff only delay. A sweeper handles one job at a time; the
  sweeps that the Edge function and `manage-*` functions make themselves are sweepers.
* Heartbeats and captions come only after the browser was served its secret.

### Presenter Bridge

`connection[c]` is a row of `presenter_connections`: its state, last sequence, whether the
lease (before the claim: the ticket) is `fresh`, and whether its `term` goes on, i.e.
the 95-minute capability, the hard stop and the teacher's session. `shown` is
the page of the live state with three ghost fields, who set it, with which sequence,
and when that slide was observed. `updates` and `calls` are the requests travelling,
with copies. *Abstractions:*

* An event id is its sequence; hashes and the PDF binding never differ, the checks
  that compare them only refuse. The receipts of nonces are covered by the copies.
* The lease lapses at any time; without that, nothing late could meet a lapsed lease.
  `rate_limited` is an attempt without an answer; every other refusal stops the Bridge.
* The checks of the slide show (eligibility, identity) are `ShowLost`.
* Inspection is one step; one Bridge process runs. Revocation of the
  teacher's session is `Cleanup`; setting the display mode to the same page is the cleanup of
  lapsed connections.

### Five-minute summaries

`window[w]` is a row of `lecture_summary_windows`, `run` the latest summary run with its
token. The three request ids a page keeps for a window are one ticket, a window and a page
load; `receipt`, `operation` and `provider` are indexed by it. `slot[r]` is an Edge
invocation with what it has read; `page` is what the teacher's page knows.
*Abstractions:*

* One lecture and one Admin session. Master authorisation, policy, gates and child
  grant are reduced to an open lecture and a run not expired: `run.expires_at` is the least
  of hard stop, master and policy end. Batch operations of the lane other than
  summaries, budgets and limits are left out.
* A context digest is a flag that says whether the receipt still matches (`fresh`);
  all receipts go stale together.
* A reload keeps the invocations of the old page running. A page without a token
  resumes. A lost answer to start and resume of a run is left out.
* The refusal of a preflight whose PDF context is just changing (`20260811223000…sql:826-866`)
  is left out: the page asks again.
* The first reaping that an invocation itself does is part of `Send` and `Retry`.
* `MaxFaults` bounds lost answers of prepare and start, dead invocations and client
  timeouts; a claim or a completion may fail without bound.

### Display

`link[d]` joins the root of a display link with its Realtime binding and what the binding
was told: the user that claimed it, the generation of the last load, the last report.
`gate` is the kill switch, `live` the live state with its three versions (page,
`display_version`, `updated_at`). `window[w]` is a browser window, `stored[w]` what its
`sessionStorage` keeps, `answers`, `signals` and `reports` what travels. *Abstractions:*

* The reasons of a revocation are reduced to `disabled` (the kill switch) and `ended`.
  `term` says that token expiry, hard stop and the Admin session's ends are all ahead.
* The page's activation effect runs twice per load and raises the generation twice; it is
  modelled as one rise, as generations are only compared.
* A snapshot request is two transactions (`operator-live-snapshot/index.ts:193,283`): `Ask` verifies
  and claims, `Read` reads the snapshot. If the lecture was closed between them the answer is its
  terminal state (`ReceiveTerminal`): the window shows the lecture as closed, polls no more, and
  has no terminal screen. The version a request names as known is the version shown; the
  section left out is the slide.
* A poll comes whenever the tab is awake and an answer slot is free; `Sleep` and `Wake` are
  those of the student's page, and nothing is drawn in a sleeping tab, as its animation
  frames pause (`DisplayPage.tsx:284`). A report is merged with the frame in which the slide is
  drawn. The PDF is assumed to be visible.
* A claim answered by 503 leads to polling, whether the gate is off or the function cannot work
  at the moment (`ClaimUnavailable`); that the page may then claim once more
  (`DisplayPage.tsx:146-150,185-192`) is left out, as any snapshot request claims too.
* The second fetch of a code after `feature_disabled` is cancelled by the effect's own
  cleanup and left out.
* `link[d].by`, the window acknowledged last, is a history variable. `Events` bounds what
  happens in an instance; it has no counterpart in the code.

## 3. Runs

Deadlock is not checked where a behaviour is finite: a lecture ends, with every
publication terminal or active and cleaned up, every operation settled, and nothing
has to happen then. The runs of the display check it.

| Run | Question | Instance |
|---|---|---|
| `PublicationUpload` | Does the database only move over stored bytes and receipts of the right ticket? | one publication, two concurrent upload or status requests, one reissue, cleanup, an invocation cut short; 1 068 000 states |
| `PublicationLifecycle` | Do manifest and rows stay in step through every request kind, is a finished cleanup sound and permanent, and does the whole refine `DBSpec`? | one publication, a request, two overlapping cleanup passes, one believed after the other gave up; 749 000 states |
| `PublicationReplacement` | What do students see while a version replaces a published one, and what does the access history say? | two versions, two concurrent requests, cleanup; 926 000 states |
| `PublicationConvergence` | Does every discarded or replaced publication get cleaned up, and the deck come back after a crash, without an activation being overtaken? Refines `StudentDeck`. | two versions, an invocation cut short anywhere, a second finalizer; 109 000 states |
| `LiveSnapshot` | Does a browser show only its lecture, never go back, and learn of the end? | one lecture that is left and joined again, a tab that is hidden, two requests in flight, a comment, a like, two changes of every section, two moves; 336 000 states |
| `RealtimeCalls` | Is every call accounted for, whoever dies? | one operation, two sweepers; 74 000 states |
| `PresenterSync` | Do Bridge and database agree in the end, and pages only go forward? | one connection and the manual controls, two pages, three updates; 172 000 states |
| `SummaryWindows` | Is the model asked once, paid for, and ignored when late? | one window, two concurrent invocations, two page loads, two runs, two tokens, a fault; 2.6 million states |
| `SummaryAnswers` | Is every dispatch settled and every finished window acknowledged? | two windows, one invocation at a time, two sources, a fault; 324 000 states |
| `DisplayLinks` | Is there one display per lecture, claimed by one profile, and does what ended stay ended? | two links, two windows of different profiles, one load each, every event but a hidden tab; 665 000 states up to symmetry |
| `DisplayBadge` | Is "synced" true, whatever was late or repeated, and does a load in step become "synced"? | one window that is reloaded and hidden, two pages, two versions, an answer and two reports travelling; 54 000 states |
| `DisplayConverges` | Does a window whose link ended end? | one window, two links, a replacement, a close, a revocation, expiry, the kill switch, a reload and a hidden tab; 103 000 states |

*Further configurations*, each for `tlc` with the module named: `PublicationRecords`
(`PublicationRecordsMC`) explores the rows alone, with two versions and a reissue; `PublicationTakeover`
(`PdfPublicationMC`) asks the questions of `PublicationLifecycle` with a reissue, two finalizers and an
invocation cut short; `PublicationCleanup` (`PdfPublicationMC`) has two passes and two finalizers,
1.5 million states; `DisplayBadgeLonger` (`DisplaySessionMC`) asks `SyncedIsRendered` again with three
versions, so that a page turns away and back, and two answers travelling, 3.2 million states. Five more end with a violation and belong to section 5:
`PublicationLate` (`PdfPublicationMC`), `InvalidIsRetried` (`SummaryWindowsMC`), `DisplayGate`, `DisplayStaleStamp` and
`DisplayReopened` (`DisplaySessionMC`).

**Properties.**

*Publication.* *`AccessHistory`*: each access version after the first was
published by exactly one publication. *`ActivationFence`*: a committed row's
access versions cannot be overtaken. *`NewestIsActive`*: a document has one
active version, the last one published. *`ForwardOnly`*: nothing discarded comes
back. *`UploadSound`*, *`GenerationsForward`*: the upload side. *`ManifestAgrees`*: the
manifest against the rows. *`DeckSound`* (what a student is served is the published deck,
and what the manifest shows of a row that is not discarded has its bytes), *`ImplementsDeck`*: students.
*`CleanupSound`*, *`SentinelsStay`*: cleanup. *`Convergence`* (every cleanup ends, and the
deck comes back): liveness.
*`ImplementsRecords`*: every step of the composition is a step of `DBSpec` or
leaves the rows alone, so what is proved of `DBSpec` holds of the whole (section 4).

*Live.* *`ShownIsOwn`*: what is shown is of the lecture that is joined, and nothing is
pending once it is closed. *`KnownIsShown`*: a version the browser claims to know is one it
shows, as the server leaves that section out from then on. *`OnlyForward`*: no answer
takes a section, or the end of the lecture, back. *`CloseReaches`*: a student who
stays in a visible tab, or comes back to it, learns that the lecture was closed.

*Calls.* *`CallsAccounted`*: a call the provider may have created is in the hands of its
invocation, of the sweep, or of an unsettled operation; a sweeper hangs up only what has
ended; what may cost is never settled as free. *`SettledOnce`*: the first settlement
stands. *`SettledAndWithdrawn`*: every operation is settled and its caption goes.
*`KnownCallEnds`*: a call whose id reached the database ends after its operation.

*Presenter.* *`DisplayOwned`*: while a connection that turned a page is unrevoked and within
its term, the page shown is its last one, so no delayed request takes the display back.
*`PagesForward`*: never an earlier observation after a later one. *`QuietIsShown`*,
*`Converges`*: with nothing left to send, the stable slide is shown, also after lost answers;
a show at rest is what students see. *`SidesAgree`*: an abandoned connection gives
the manual controls back, and a Bridge whose connection was revoked stops.

*Summaries.* *`DispatchOnce`*: the model is asked at most once per start request, at most
twice per window. *`PaidIsCharged`*: a call that may cost is never released.
*`WindowsTrackOperations`*: a window runs exactly while an operation of its run does.
*`SummariesFinal`*: a finished window stays, and nothing is saved after a stop, a close or
the end of the lease. *`DispatchEnds`*: every dispatch is settled. *`SavedIsShown`*: a
window that finished while its answer was lost is acknowledged when its ids come again.

*Display.* *`DisplaysSound`*: only the link issued last can be in use, by the channel or after
the kill switch (`OneDisplay`), and a slide is only ever seen by the profile that claimed
its link (`ShownToClaimant`). *`LinksFinal`*: nothing that ended comes back, and the user of
a link never changes. *`SyncedIsRendered`*: when the badge says "synced", the load acknowledged
last has drawn the present page at the present version. *`WindowsEnd`*: a window whose link
was replaced, closed, revoked or has run out comes to its terminal screen, or shows the lecture as
closed, although every message of the channel may be lost. It shows that only of a closed
lecture (`ClosedIsClosed`, in `DisplaysSound`). *`ReportsArrive`*: a load in step with the lecture
is seen as synced. Both speak of visible tabs, since a hidden one may rest for ever.

The type invariant of a module is a conjunct of `ManifestAgrees` (publication), `ShownIsOwn`,
`CallsAccounted`, `WindowsTrackOperations` and `DisplaysSound`.

**Refinement.** `ImplementsDeck` maps the rows that are active to the published
deck, and the manifest to a student's view if its access version is the
database's. `StudentDeck` then says: a student gets exactly the published deck
or nothing, and a publication replaces one document at once. It is checked and
proved, as is that `PresenterSync` implements `PresenterConnection` (section 4).

**Bounds.** *Publication:* `Publications` has one or two members: every hazard is between two
invocations, or between a version and the one it replaces. `Requests` and
`Cleaners` are slots for invocations, not the number of requests: a slot is used
again and again. `MaxOperations` bounds the finalizers that take a stage over
(two in `PublicationConvergence`, so that a take-over happens),
`MaxReissues` the tickets of a publication, `MaxCrashes` invocations cut short, `Kinds`
the requests sent in a run. `MaxManifestVersion` and `MaxGeneration` are chosen above what a run
reaches. Slots and, where two passes overlap, cron slots are symmetric.
`PublicationReplacement` and `PublicationConvergence` start with a published
version, a state that the specification reaches.
*Live:* two requests in flight are what it takes to be out of order, and slots are used
again. One lecture suffices for the properties within a lecture and for being left and
joined; `OwnLecture` needs a second one, whose answers are only discarded by the same epoch test.
*Calls:* operations meet only in the lane, which holds one, and in the caption that is shown.
*Presenter:* a connection is issued once, so one connection against the manual controls;
several connections are covered by the theorems. Three updates let an update be
overtaken twice. *Summaries:* `MaxPages`, `MaxRuns`, `MaxTurns` of two give a reload, a
second run and a resume; one fault is any lost answer or dead invocation. With two
windows one of them finishes behind the page's back while the other waits.
*Display:* links meet only when one replaces the other, windows only in the claim, so two of
each suffice, without reports, which concern one window and its link; a second load does not matter to
the claim and is left to the theorems. In `DisplayBadge` two loads let a report outlive its
load and two versions let a page turn under it; `SyncedIsRendered` is proved for any number of them
(section 4). `DisplayConverges` has every way in which a link ends, and no reports.

**Time in runs with replacement.** `TimelyNext` lets a cleanup lease lapse only
if its pass is not running any more: the lease is ten minutes and a pass is a
handful of storage calls. The runs under `Spec` (`PublicationUpload`,
`PublicationLifecycle`) do without this and let a lease lapse under a running pass.

**Fairness.** Only what the platform or a program's own loop repeats is fair.

* *Publication:* the cron trigger (every 30 minutes,
  `cloudflare/asset-worker/wrangler.production.jsonc`) claims every due row again and
  again (strong fairness, as a claim is not always possible), a pass runs on, time
  passes. Browsers, the Edge function and requests have no fairness: a teacher may
  never come back.
* *Live:* the polling loop goes on while its route is open *and its tab visible*; nobody has to
  look at a hidden tab again. React runs a due effect, and of requests tried for ever some are answered and delivered (strong fairness: a single
  answer may always fail).
* *Calls:* the maintenance and sweep crons fire, operations and leases run out by the
  clock, an invocation of a sweep ends, and a hangup that is repeated for ever succeeds at
  last. The invocation that starts a call has no fairness: it may die anywhere.
* *Presenter:* the 200 ms monitor, the dispatcher and the heartbeat timer run; an attempt
  ends, and one repeated for ever is executed and answered at last; what travels
  arrives or is lost; 45 seconds without a request pass.
* *Summaries:* an invocation proceeds, the page asks again (every five seconds,
  `src/components/AdminAiControl/LectureSummaryControl.tsx:538-546`), the 90-second
  lease ends, and the cron comes back every five minutes.
* *Display:* polling and drawing go on in a visible tab, joining the channel and flushing reports
  while the page lives, and requests repeated for ever are answered at last (strong fairness).
  No message of the channel has to arrive, and nobody has to issue, open, reload or close.

## 4. Proofs

`PublicationRecords_proofs` proves, for every set of publications, any mapping to
documents and versions and every bound, from the assumptions `ReceiptVersions`,
`CleanerIds` and `GenerationBound` of `PublicationRecords`:

| Theorem | Statement |
|---|---|
| `RecordsTyped` | `DBSpec => []RecordsTypeOK` |
| `FenceHeld` | `DBSpec => []ActivationFence` |
| `HistoryHeld` | `DBSpec => []AccessHistory` |
| `NewestHeld` | `DBSpec => []NewestIsActive` |
| `ForwardHeld` | `DBSpec => ForwardOnly` |

*The argument.* `StepEffects` sorts the steps: a creation, a completed activation,
or a quiet step, which leaves the access version alone and moves each row
along a few permitted ways (`RowSteps`). *`FenceInv`* adds to the fence what makes it
inductive: at most one row is in flight (`OneInflight`), and a row that was not
committed has reserved nothing (`NothingReserved`). Without the first, a second
committed row would be left behind by an activation; without the second,
nothing would be known of the row when its commit makes it subject to the fence.
*`HistoryInv`* is the type invariant with `AccessHistory` and `NewestIsActive`,
inductive together: an activation publishes `accessVersion + 1`, which no row
has yet because all published ones are at most `accessVersion`; being greater, it
makes the new row the newest of its document, and the old active row is
retired in the same transaction.

`PdfPublication_proofs` is about the whole of PDF publication, database, Edge function and
Worker, for any number of requests, cleanup passes and crashes. Beyond the three
assumptions above it uses `OperationBound` and `CrashBound` (bounds are numbers),
`SeparateInvocations` (a slot is either a request or a cleanup pass), `ManifestBound`
(every manifest version a receipt may carry is a possible one) and `RequestKinds` (there
are no kinds of requests but those modelled; the runs use subsets).

| Theorem | Statement |
|---|---|
| `Guaranteed` | `Spec => []WorkerInv`, the inductive invariant |
| `WorkerTyped` | `Spec => []TypeOK` |
| `UploadHeld` | `Spec => []UploadSound` |
| `CleanupHeld` | `Spec => []CleanupSound` |
| `GenerationsHeld` | `Spec => GenerationsForward` |
| `SentinelsHeld` | `Spec => SentinelsStay` |
| `RecordsImplemented` | `Spec => ImplementsRecords` |
| `FenceComposed`, `HistoryComposed`, `NewestComposed`, `ForwardComposed` | what is proved of `DBSpec`, of `Spec` |

*The argument.* Every hazard here is an invocation that goes on with what it read before
others wrote, so most of *`WorkerInv`* is `SlotSound`: what an invocation may rely on because
of where it is. An upload about to write the body knows, for instance, that the ledger is of
its own generation *if nobody wrote since* (`ledgerFresh`); a commit beyond its first step
knows that bytes are stored, whoever else writes. `Knows` is stated of a slot, a row, a
ledger, an object and the manifest's version, so that a step elsewhere is dealt with once.
The other parts say how the four stores fit: `RowSound`, `LedgerSound` (a ledger is never of a
later generation than its row, a closed one has a tombstone, a row with recorded bytes has
them under its own generation), `ManifestSound`, and `RemovalSound`: once a cleanup pass
has taken a publication out of the manifest and still holds the ledger, it is not listed and
nobody is about to list it. Without the last, a pass would close a ledger beside a commit
that lists the publication afterwards. `RowSound` needs the row's attempt to be of its
generation, or a reissue would leave a recorded row beside a foreign ledger.
A completion that is believed although its pass lost the row is harmless: a pass that
reports success has closed the ledger, and what is closed stays closed (`SentinelsStay`),
so `CleanupHeld` does not rest on the claim.
There are four ways in which a step changes the stores, each with a lemma: a row moves
(`MoveKeeps`), a ledger is put (`LedgerPutKeeps`), the manifest is put
(`ManifestPutKeeps`), an object is stored (`ObjectKeeps`). The lemma of an action shows its
write to be one of these and establishes what the invocation knows next. Each concludes
`Kept`, which holds `WorkerInv` and the two action properties together, as they need the
same facts. `RecordsStep` shows that the Worker presents only
operations, generations and versions that `DBSpec` quantifies over: these come from the row
or from the manifest when the invocation is addressed, and are bounded by them since.

`PublicationDeck_proofs` goes on from there to what students are given, from one more
assumption, `VersionIds` (a missing version is none of the versions there are):

| Theorem | Statement |
|---|---|
| `SystemHeld` | `Spec => []SystemInv`, the inductive invariant |
| `ManifestAgreesHeld` | `Spec => []ManifestAgrees` |
| `DeckHeld` | `Spec => []DeckSound` |
| `DeckImplemented` | `Spec => ImplementsDeck` |

*The argument.* Database and manifest are written by different transactions, so the manifest is
either `Served`, that is at the database's access version and showing what is active, or
`Ahead` by one activation whose receipt has not come, or never will if its row was discarded
since. *`SystemInv`* is `WorkerInv`, `FenceInv` (as at most one row is in flight, the access
version stands still meanwhile) and *`DeckInv`*. Its core is `Based`: a publication has one
access version, its base, that its row, its ledgers, stored or loaded, and all its tickets
name, and the activation it can reserve is the next. The base is chosen existentially, as no
single variable holds it from creation to cleanup. `Told` and `Remembers` are about
the prior versions an activation hides and a rollback or cleanup shows again. They are written
down at the commit, by whatever invocation, and used much later; they must be those the database
has active *as long as nobody else has been activated*, which is when they can still be shown. `Sees`
is what the manifest's compare-and-swap buys: an invocation that
loaded the manifest knows what it is about to replace. `Did` is what a receipt stands for
while the row waits for it: the entry is listed, or the manifest is ahead by this very
publication; this is where an activation in the database is seen to catch up with the
manifest. `EntriesSound` and `ListedOnce` (nobody else's entry can be
taken for the version of a listed document) are what recovery needs, which accepts an
entry it finds as its own. There are three ways in which a step changes what `DeckInv`
speaks of: a row moves on, the manifest is replaced (five kinds of manifests), or an
invocation moves on; activation and creation are dealt with on their own, since they move the
base. For the refinement, `SystemInv` gives that students have the published deck or nothing
(`ViewServed`), so a step maps to `Serve` or `Withhold` unless it changes the published deck. Only
an activation does: `NewestIsActive` makes it a change of one document
(`ActivationPublishes`), and the unique index on document versions makes it a change.

`PresenterSync_proofs` proves of `PresenterConnection`, for every set of connections, every
number of pages and every bound, from `ConnectionAssumption`:

| Theorem | Statement |
|---|---|
| `ConnectionTyped` | `ConnectionSpec => []ConnectionTypeOK` |
| `AuthorityHeld` | `ConnectionSpec => []OneAuthority` |
| `ConnectionDisplayHeld` | `ConnectionSpec => []DisplayOwned` |
| `ConnectionLeaseEnds` | `ConnectionSpec => LeaseIsTerminal` |

*The argument.* `ConnectionInv` joins the type invariant, `OneAuthority`, `DisplayOwned` and
`PairingUnused` (a connection not yet claimed has turned no page). `DisplayOwned` says of
a connection with a sequence that the page shown is its last; when another connection
turns a page, it must be that the first is revoked, which is `OneAuthority`. When a
connection is claimed, `PairingUnused` says it has no sequence yet, so nothing has to be
shown for it.

It carries this to the Bridge and the network, from the same assumption and
`BridgeAssumption`:

| Theorem | Statement |
|---|---|
| `SyncTyped` | `SyncSpec => []SyncTypeOK` |
| `SyncImplementsConnection` | `SyncSpec => ConnectionSpec` |
| `DisplayHeld` | `SyncSpec => []DisplayOwned` |
| `LeaseEnds` | `SyncSpec => LeaseIsTerminal` |
| `QuietShows` | `SyncSpec => []QuietIsShown` |
| `PagesGoForward` | `SyncSpec => PagesForward` |

*The argument.* `SyncInv` joins `ConnectionInv`, `SyncTypeOK` and `EnvelopeNumbered` (an
envelope being sent has a sequence number greater than zero). `StepRefines` takes each
action of the Bridge and the network to the action of the connections it executes, or
to a stutter; `SyncTypeOK` is needed there because a page update executes with the
sequence and page it was sent with, and these must be ones `ConnectionNext`
quantifies over. `DisplayHeld` and `LeaseEnds` then follow from the theorems above.

`QuietIsShown` and `PagesForward` rest on `QuietInv`, which holds beside `SyncInv`. `DesiredKept`
is about the dispatcher: with nothing desired, no attempt is in doubt and the page acknowledged
last is the stable one; a page whose attempts are in doubt is still desired, even when a newer one
took its envelope. `SessionInv` is about what travels for the active session or is shown for it: it
has a sequence and an instant no later than the envelope's and the desired page's, and what carries
the current sequence carries the envelope's page, so an acknowledgement, of whichever copy, means
that this page was recorded under the last sequence. Nothing travels under a later one, so the page
stays until the next attempt, which `unacknowledged` tells. `NothingBeforeClaim` is what a session
starts from, and `Ordered` has updates of one connection ordered by observation as by sequence, also
those a dead session left behind. The database enters through `Aside` only: except when an update is
accepted, no connection is given anything back, and the display goes to nobody but the teacher, and
then no connection has a claim to it.

`DisplaySession_proofs` proves, for every set of links, windows and profiles, every set of
events and every bound, from `DisplayAssumption` (`None` is no link, window or user; each
window has a profile; the bounds are numbers, positive where a first load needs one):

| Theorem | Statement |
|---|---|
| `DisplayGuaranteed` | `DisplaySpec => []DisplayInv`, the inductive invariant |
| `DisplaysAreSound` | `DisplaySpec => []DisplaysSound` |
| `SyncedIsDrawn` | `DisplaySpec => []SyncedIsRendered` |
| `LinksAreFinal` | `DisplaySpec => LinksFinal` |

*The argument.* `SyncedIsRendered` compares a row of the database with a window, between which
reports travel that may be late, repeated or of an earlier load. *`DisplayInv`* says of each
such report, `MessageSound`: either its link is dead for the profile that sent it, or its
window still shows that link and, if the report is of the present row, has drawn it.
`Dead` is what makes this inductive: a link that was closed, replaced, disabled, has run out
or was claimed by another profile is never revived for this one, so what a window does after
it ended can no longer matter. The same alternative is stated of the
window the database acknowledged last (`AcknowledgedSound`), of a refusal on its way to a
window (`AnswerSound`) and of a closed channel (`WindowSound`); each way a window
ends proves its link dead. `SlideSound` says of every slide shown or travelling that
the same version is the same page and the same stamp the same version, so that a repeated
older answer cannot put another page under the version that is acknowledged. `DatabaseSound`
holds `OneDisplay` and that a link not issued yet has no user, or a new link would
take over somebody's claim. An answer with the terminal state is sound when the lecture is
closed, which it stays, and that is `ClosedIsClosed`. The lemmas of the database conclude `Forward`, what no step takes
back; `LoadStays` and `OneWindow` do the rest for any window whose load goes on.
The proof did not go through at first because the badge and two other definitions were
written with overlapping `CASE` guards, which TLC reads in order and TLA+ does not; they are
chains of `IF` now, as the code's early returns are.

`RealtimeCalls_proofs` proves, for every set of operations and sweepers and every number of
authorisations, from `RealtimeAssumption`:

| Theorem | Statement |
|---|---|
| `RealtimeGuaranteed` | `RealtimeSpec => []RealtimeInv`, the inductive invariant |
| `CallsAreAccounted` | `RealtimeSpec => []CallsAccounted` |
| `SettledForGood` | `RealtimeSpec => SettledOnce` |

*The argument.* Except for `JobSound`, *`RealtimeInv`* is a conjunction over the operations of
`OpSound(op, call, e)`, a relation between a row, the call at the provider and the invocation
that starts it. `BooksAgree` says how the columns of a row go together: a known call of an
operation that ended is queued or closed, a receipt names the call the row names.
`CallAgrees` ties them to the provider: an operation nobody dispatched has no call *and its
invocation has not come to ask for one*; a failed receipt or a free settlement means that
no call was made and none will be. This is where the one claim matters: only the commit that
dispatches a running, unclaimed operation leads to the stage that asks, so a start
settled as unclaimed can never be charged nothing for a call made later. `EdgeKnows` says
that what an invocation was told is so. As `OpSound` has only rigid arguments, the settlements
(`SettledSound`, `StaleSound`, `UnclaimedSound`, `CancelledSound`) and the provider's reports
(`FinalizedSound`) are lemmas about values, and `OperationKeeps`, `FinishKeeps` and `BooksKeep`
lift them to the steps of one operation, of a set, and of all. Sweepers depend on the rest
only through `OpMoves`, what no step takes back, which also gives `SettledOnce`.

`SummaryWindows_proofs` proves, for every number of windows, page loads, runs, tokens and
faults and every set of invocations and sources, from `SummaryAssumption`:

| Theorem | Statement |
|---|---|
| `SummaryAlways` | `SummarySafety => []SummaryInv`, the inductive invariant |
| `NobodyAsksTwice` | `SummarySafety => []DispatchOnce` |
| `NothingPaidIsFree` | `SummarySafety => []PaidIsCharged` |
| `WindowsFollowTheLedger` | `SummarySafety => []WindowsTrackOperations` |
| `FinishedStays` | `SummarySafety => SummariesFinal` |

*The argument.* `SummaryInv` is the type invariant with three layers. `LedgerSound` and
`WindowsSound` speak of the database alone: a window names its own operation, and its
attempts bound the number of operations ever started for it (`Started`), which is what turns
"once per start" into "twice per window". They are kept by whatever writes the ledger, and the
lemmas about an end, a cancellation, a dispatch, a start and a success (`EndsKeeps`,
`CancelKeeps`, `DispatchKeeps`, `StartKeeps`, `SucceedsKeeps`) conclude `DBKept`: those two
again, what the ledger does not take back (`LedgerForward`), and `SummariesStep`.
`SlotSound` says what an invocation may rely on because of where it is, and uses the ledger
only through `LedgerForward`, so that it survives what other invocations do. `MoneySound` is
the third: what is settled as free, or is about to be, is `Unbilled`, that is not paid
for *and not being asked*; the second half is needed because the invocation that asks and
the one that records the failure are different ones when the page repeats its ids. An
operation without a dispatch is unbilled, which covers the failure that names no cost
(`MayFail`) and the replay in a changed context; one whose answer was free is unbilled because
no two invocations ask for the same start. `WorksKeeps` takes care of every
step that moves one invocation without asking, `AskKeeps` and `AskEndsKeeps` of the other two.

`LiveSnapshot_proofs` proves, for every set of lectures, requests and posts, every finite set of
likes and every bound, from `SnapshotAssumption` (the values that mean nothing are no lecture and
no request; some lecture has the most changes; a post is no like) and `IdAssumption` (what
the student sends has an id of its own until the database gives it one):

| Theorem | Statement |
|---|---|
| `InvariantHolds` | `SnapshotSpec => []SnapshotInv`, the inductive invariant |
| `ShownIsOwnHolds` | `SnapshotSpec => []ShownIsOwn` |
| `KnownIsShownHolds` | `SnapshotSpec => []KnownIsShown` |
| `OnlyForwardHolds` | `SnapshotSpec => OnlyForward` |

*The argument.* The properties relate what is shown to the database, between which answers
travel in any order, so *`SnapshotInv`* says what each of them carries.
`RequestSound` holds of any answer: it is a row the lecture had, at most as new as the row is
now, with the same visible comments if the version of the comments is the same (`SnapSound`), or
the bare terminal state of a closed lecture. `CurrentSound` is what the epoch check buys: an answer of the
current epoch was asked for in the joined lecture, with versions no greater than those applied
since; *once the lecture is known as closed it carries the last row there is*, so that an open
answer cannot follow; and it is either at least as new as the slide shown or so old that the
fence drops it, which is `NeverBack`. The first alternative is needed because every effect of the
route resets `applied` while the slide stays, the second because a newer answer of the same
epoch may have come first. `FenceSound` has `known` below `applied` and `applied` below what the
slide and the cards show: freshness is judged by `applied`, so `KnownIsShown` is not inductive
without it. The database enters through
`RowForward` only (a version never shrinks, the visible comments change with theirs, a closed
lecture stays closed), so that one lemma, `ForwardKeeps`, covers what everybody else does and the
student's own inserts. `ContentSound` bounds what a card shows of likes by those in the database
and those the student has spent, which needs the likes to be finite. Joining and leaving share
`NewScene`. Applying an answer is proved part by part: `DeliverSession`, `DeliverVersions`,
`DeliverDisplay`, `DeliverContent`, `DeliverRequests`.

*Only model-checked:* every liveness property, which these provers do not reach.

## 5. Where the code and its documentation differ

*Shown by TLC* (the five further configurations of section 3, each a violation of what a document says).

**`PublicationLate`**, `VisibleStored`. `PHASE7_26_REQUIREMENTS_AND_THREAT_MODEL.md:66-67`: after
the fence of the cleanup a delayed request "cannot pass the mutation fence", and "Active manifest
references … are checked before terminalization". An upload that loses the put of its recovery
takes over the ledger it re-reads, whatever its status (`pdfPublication.ts:911-926`), so also
`cleanup_pending`, and then writes `uploaded` over the fence (`:857-869`). The commit and the
activation of the discarded row, still on their way, now pass: between the pass's check of the
manifest and its tombstone (`:2259`) they list the document and show it, and its bytes go. It
takes three late requests. The configuration starts where they wait, a state TLC reaches from
`Init`. Students are given nothing meanwhile, as the manifest is ahead of
the access version, and a later pass restores the manifest: `ManifestAgrees`, `DeckSound`,
`CleanupSound` and `ImplementsDeck` hold there too.

**`InvalidIsRetried`.** `docs/PHASE6_FIVE_MINUTE_SUMMARIES.md:99`: "only
deterministic structured-output failure gets one retry", and `:180`: "one retry if limits
allow". The page keeps its request ids until the window succeeds
(`LectureSummaryControl.tsx:475-500`), and the preflight receipt behind them expects the
first attempt, so every repetition is told to refresh (`20260811223000…sql:575-591`). The
second attempt needs a reload; until then the window stays failed and, as the page
takes the earliest unfinished window, no later window is summarised either.

**`DisplayGate`**, `GateBlocksClaims`. `docs/PHASE7_28_REQUIREMENTS_AND_DESIGN.md:171-172`:
disabling the gate "atomically blocks new issue/claim/relay admission"; `:134-136`: only
"the same already-claimed UID" may be downgraded to snapshots. With the gate off,
`20260825173000…sql:420-426` still accepts a binding revoked as `feature_disabled`, and
`:461-490` sets the user of a link nobody had claimed.

**`DisplayStaleStamp`**, `FirstRenderAcknowledged`.
`docs/LECTURE_UX_FINAL_REQUIREMENTS_AND_IMPLEMENTATION_PLAN.md:375`: "ACK after private
subscription, initial snapshot, and first PDF/view render." A report must carry the
`updated_at` of the live state (`20260825173000…sql:1253-1257`), which every comment, like or
poll moves; a snapshot leaves the section with that stamp out when only those moved
(`20260716140920…sql:3443-3458`). If the notice of such a change is lost, or comes before
the channel is joined, the window repeats the older stamp (`displayRealtime.ts:666-686`), is
refused as `snapshot_stale` until something else changes, and the badge stays at "waiting".

**`DisplayReopened`**, `FirstRenderAcknowledged`. Same plan, `:224-225`: the "same browser
profile may reload and recover". The generation is counted in `sessionStorage`
(`displaySessionStorage.ts:106-111`), which a new tab of the profile does not have. Its claim
succeeds, its loads count from one again, and every report is refused as
`stale_generation` (`20260825173000…sql:1223-1225`): the display works, the badge never says so.

*Found while modelling, without a configuration.*

Publication:

1. `PHASE7_26_BROWSER_PDF_PUBLICATION.md:74-75`: "Recovery either
   returns the stored upload receipt or cleans the orphan." After a crashed upload
   and a reissue whose ticket was never used, the ledger names generation 1 but
   the discarded row's cleanup asks for generation 2. The cleanup refuses the ledger on
   every pass.
2. Same document, lines 92-95: "A later pass … CAS-removes … and
   replaces mutable PDF bytes plus the operational ledger". An activation that was
   prepared, aborted and whose rollback was lost can no longer be
   cleaned up once another publication has moved the access version.
3. `PHASE7_26_REQUIREMENTS_AND_THREAT_MODEL.md:61`: "an exact
   completed-attempt retry is read-only recovery". A retry that loses the
   compare-and-swap of its recovery continues with the ledger it re-reads, and may write
   `uploaded` over `committed`, `activating` or `active`.

4. `complete_pdf_publication_cleanup_v1` means to refuse a completion by a pass without the claim ("PDF
   cleanup claim is stale or misbound", `20260721075029…sql:2375-2380`), and believes it once the claim
   was cleared. Nothing is lost by it: the pass had closed the ledger, and closed ledgers and tombstones
   are never overwritten (`CleanupSound`, `SentinelsStay`, proved).

Rows of 1 and 2 end as exhausted after 1000 attempts (`20260721190000…sql:113`). The runs
that check liveness do not contain these situations (no reissue; no second
publication overtaking a lost rollback; no second upload invocation), and so show
that they are the only obstacles within their bounds.

Live: `docs/architecture.md:91-92` says comments and likes converge through snapshot
versions. A new or hidden comment moves only `comments_version`, and the comments of
that snapshot carry no like totals (`commentsAndPolls.ts:64`, `liveStateMappers.ts:339`), so
the totals shown fall to zero until somebody likes again. `PHASE1_SYNC_PROTOCOL.md:20`
says that a comment of one's own is shown at once, replaced when it is saved and withdrawn
when it fails. An answer that comes after the lifecycle epoch changed does neither
(`CompassStateContext.tsx:1300-1308`).

Calls: the comment at `issue-realtime-client-secret/index.ts:652` says "The durable provider
row remains eligible for the machine sweep." If the call's id never reached the database it
is not: `claim_realtime_provider_hangups` (`20260717090500…sql:410-475`) takes only rows with
a `provider_call_id`. `KnownCallEnds` is therefore about calls the database knows. The
recovery of a revoked operation (`20260812023000…sql:2155-2160`) calls
`finish_realtime_caption_operation` with `disable_feature` true, which turns captions off
for a newer operation as well.

Summaries (`docs/TEACHER_AI_ONE_STEP_ADMINISTRATION.md:86-99`): after a lost answer and a
turn of the page, the repetition is refused because the binding changed, and a
finished window is not acknowledged until a reload; the new token of a resume makes the kept
ids unusable; pending or failed windows of a stopped run block a new run
(`20260811223000…sql:821`); an operation started but never claimed holds the lane until
stop or close, and once cancelled is never settled. `SavedIsShown` and `DispatchEnds` are
stated for the cases that remain.

Display: when the lecture is closed between the two transactions of a snapshot request, the page
pauses as for a student (`CompassStateContext.tsx:674-684`) and never asks again, so it does not come to
the terminal screen unless the channel or its own timer tells it. A claim that fails for any reason but 404 or 503 clears the stored launch
(`DisplayPage.tsx:146-162`). After a reload, whose address was stripped by the first load, the
link is lost then, whereas `LECTURE_UX_FINAL…PLAN.md:400` expects that a "same-profile hard reload
recovers". When the gate is enabled again, windows that went on with snapshots
end, as their binding is not running and not excused any more. After a reload the
badge may say "synced" for the previous load until its heartbeat is 25 seconds old; this is
why `SyncedIsRendered` speaks of the load acknowledged last.

## 6. Not modelled, and plan

The models cover the cores of the six subsystems, a few percent of the repository's lines.
Most of the rest is not protocol: screens and styles, generated
database types, readiness scripts and their test data, identity and session checks that
only refuse, and SQL that restates earlier functions (each migration replaces whole functions,
and only the last version is modelled). What has state and is left out:

* *The caption relay of the projector*: reordered caption broadcasts and reconnects.
* *AI activation intent, budgets and lanes*: guards in `RealtimeCalls` and `SummaryWindows`,
  with no module of their own.
* *Academic answers*: the same dispatch protocol as the summaries.
* *Lecture lifecycle*: guarded single statements; their effects on other components are
  actions of those components.
* *Archive, retention, digest, journal club, polls*: batch jobs and single statements.
* *Local Publisher*: excluded while browser publication is on, by its operating rules.
* *Presenter gateway, browser publication client*: stateless, or covered by "any call at any time".

## 7. Running

`tlc -config <run>.cfg <module>` in this directory, with the module `PROJECT.json`
names for the run, and `tlapm <module>_proofs.tla` for the eight proof modules (`PdfPublication_proofs` takes some minutes). The longest
listed runs, `LiveSnapshot`, `SummaryWindows`, `SummaryAnswers`, `DisplayConverges` and `PublicationReplacement`,
take two to three minutes.
