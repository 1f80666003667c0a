------------------------- MODULE PublicationRecords -------------------------
(***************************************************************************)
(* The database side of a browser PDF publication: the rows of             *)
(* lecture_pdf_publications of one lecture, and the RPCs that move them.    *)
(* Every RPC locks the lecture row and then the publication row, so each    *)
(* one is a single action here.                                             *)
(*                                                                          *)
(* Abstractions.  Instants are not modelled: a lease is "live" until it     *)
(* lapses, an operation becomes overdue, at some step of its own.  Every    *)
(* RPC first closes a lecture that is past its deadline                     *)
(* (close_lecture_if_expired); that is CloseLecture taken just before it.   *)
(* Idempotent replays, which return the row and change nothing, are         *)
(* stuttering steps.  Operation ids are numbered in the order in which they *)
(* take over a stage, so that an older finalizer holds a smaller number.    *)
(* The per-lecture byte, page and text budgets and the actor and session    *)
(* checks are left out.                                                     *)
(***************************************************************************)
EXTENDS Naturals

CONSTANTS
  Publications,      \* publication ids (lecture_pdf_publications.id)
  DocumentOf,        \* the document_id each publication replaces
  VersionOf,         \* the expected_pdf_sha256 each publication carries
  Cleaners,          \* identities a cleanup claim can be held under
  NoCleaner,         \* cleanup_claim_id is null
  ManifestVersions,  \* the manifest versions a Worker receipt can name
  MaxGeneration,     \* bound: ticket_generation (2147483647 in the code)
  MaxReissues,       \* bound of the model: tickets reissued per publication
  MaxOperations      \* bound of the model: finalizers that prepare a stage

ASSUME ReceiptVersions == ManifestVersions \subseteq Nat \ {0}
ASSUME CleanerIds == NoCleaner \notin Cleaners
ASSUME GenerationBound == MaxGeneration \in Nat \ {0}
ASSUME OperationBound == MaxOperations \in Nat

VARIABLES
  lectureOpen,       \* the lecture is a draft or open (is_lecture_open)
  accessVersion,     \* lecture_sessions.pdf_access_version
  row                \* lecture_pdf_publications, one row per publication

dbVars == <<lectureOpen, accessVersion, row>>

Inflight  == {"pending", "uploaded", "committed"}
Published == {"active", "retired"}
Discarded == {"aborted", "expired"}
Terminal  == Discarded \cup {"retired"}
States    == {"none", "active"} \cup Inflight \cup Terminal

Row ==
  [state             : States,
   generation        : 0..MaxGeneration,
   attempt           : 0..MaxGeneration,  \* generation whose nonce is used up
   lease             : {"none", "live", "lapsed"},  \* of the current stage
   uploaded          : BOOLEAN,           \* uploaded_at is not null
   operation         : Nat,               \* operation id of the current stage
   overdue           : BOOLEAN,           \* operation_expires_at has passed
   committedVersion  : Nat,
   committedAccess   : Nat,
   targetAccess      : Nat,
   activatedVersion  : Nat,
   cleanupGeneration : 0..MaxGeneration,
   cleanup           : {"none", "due", "claimed", "lapsed", "done"},
   cleaner           : Cleaners \cup {NoCleaner}]

NoRow ==
  [state |-> "none", generation |-> 0, attempt |-> 0, lease |-> "none",
   uploaded |-> FALSE, operation |-> 0, overdue |-> FALSE,
   committedVersion |-> 0, committedAccess |-> 0, targetAccess |-> 0,
   activatedVersion |-> 0, cleanupGeneration |-> 0, cleanup |-> "none",
   cleaner |-> NoCleaner]

DBInit ==
  /\ lectureOpen = TRUE
  /\ accessVersion = 1
  /\ row = [p \in Publications |-> NoRow]

\* Every RPC but an activation writes one row and nothing else.
Update(p, new) ==
  /\ row' = [row EXCEPT ![p] = new]
  /\ UNCHANGED <<lectureOpen, accessVersion>>

-----------------------------------------------------------------------------
(* What every transition into a terminal state does.                        *)

NextGeneration(g) == IF g < MaxGeneration THEN g + 1 ELSE g

\* The trigger that remembers the last generation the Worker could have seen.
CaptureCleanupBinding(r) ==
  IF r.cleanupGeneration = 0 THEN r.generation ELSE r.cleanupGeneration

\* Abort or expiry: fence the tickets that are out, queue the cleanup.
Discard(r, state) ==
  [r EXCEPT !.state = state,
            !.generation = NextGeneration(@),
            !.lease = "none",
            !.cleanupGeneration = CaptureCleanupBinding(r),
            !.cleanup = "due"]

-----------------------------------------------------------------------------
(* Tickets and the upload receipt.                                          *)

\* admin_create_pdf_publication_v1, with the one-inflight unique index.
Create(p) ==
  /\ lectureOpen
  /\ row[p].state = "none"
  /\ \A q \in Publications : row[q].state \notin Inflight
  /\ Update(p, [row[p] EXCEPT !.state = "pending", !.generation = 1])

\* admin_reissue_pdf_publication_ticket_v1: a new generation, a new nonce.
Reissue(p) ==
  /\ lectureOpen
  /\ row[p].state = "pending" /\ ~row[p].overdue
  /\ row[p].attempt = 0 \/ row[p].lease # "live"
  /\ row[p].generation < MaxGeneration
  /\ row[p].generation <= MaxReissues
  /\ Update(p, [row[p] EXCEPT !.generation = @ + 1, !.attempt = 0,
                              !.lease = "none"])

\* A Worker that repeats its own nonce claim is told yes again.
NonceHeld(p, generation) ==
  row[p].generation = generation /\ row[p].attempt = generation

\* Mutant of NonceFree: the generation of the ticket is not compared.
NonceFreeForAny(p, generation) ==
  /\ lectureOpen
  /\ row[p].state = "pending" /\ ~row[p].overdue
  /\ generation <= row[p].generation
  /\ row[p].attempt = 0

NonceFree(p, generation) ==
  /\ lectureOpen
  /\ row[p].state = "pending" /\ ~row[p].overdue
  /\ row[p].generation = generation
  /\ row[p].attempt = 0

\* worker_claim_pdf_publication_nonce_v1: the generation's nonce is used once.
ClaimNonce(p, generation) ==
  /\ NonceFree(p, generation)
  /\ Update(p, [row[p] EXCEPT !.attempt = generation, !.lease = "live"])

\* The receipt of the attempt that used the nonce, not recorded yet.
ReceiptExpected(p, attempt) ==
  /\ attempt # 0 /\ row[p].attempt = attempt /\ ~row[p].uploaded
  /\ row[p].state \in Discarded \cup {"pending"}

\* worker_record_pdf_publication_uploaded_v1.  A receipt in time moves the row
\* on; a late one is kept, but the row is discarded and its cleanup reopened.
RecordUploaded(p, attempt) ==
  LET r == row[p]
      inTime == /\ r.state = "pending" /\ r.lease = "live"
                /\ ~r.overdue /\ lectureOpen
      discardState == IF r.state = "aborted" \/ ~lectureOpen
                      THEN "aborted" ELSE "expired"
  IN /\ ReceiptExpected(p, attempt)
     /\ \/ /\ inTime
           /\ Update(p, [r EXCEPT !.state = "uploaded", !.uploaded = TRUE,
                                  !.lease = "none"])
        \/ /\ ~inTime
           /\ Update(p, [r EXCEPT !.state = discardState, !.uploaded = TRUE,
                           !.lease = "none",
                           !.cleanupGeneration = CaptureCleanupBinding(r),
                           !.cleanup = "due", !.cleaner = NoCleaner])

-----------------------------------------------------------------------------
(* Finalization: each stage is prepared under a lease, then completed with   *)
(* the Worker's receipt.                                                     *)

\* Another finalizer takes the stage over only when the lease has lapsed.
StageFree(r) == r.operation = 0 \/ r.lease = "lapsed"

\* admin_prepare_pdf_publication_commit_v1
PrepareCommit(p) ==
  /\ lectureOpen
  /\ row[p].state = "uploaded" /\ ~row[p].overdue
  /\ StageFree(row[p])
  /\ row[p].operation < MaxOperations
  /\ Update(p, [row[p] EXCEPT !.operation = @ + 1, !.lease = "live"])

\* admin_complete_pdf_publication_commit_v1
CompleteCommit(p, operation, version, access) ==
  /\ lectureOpen
  /\ row[p].state = "uploaded" /\ ~row[p].overdue
  /\ row[p].operation = operation /\ row[p].lease = "live"
  /\ access = accessVersion
  /\ Update(p, [row[p] EXCEPT !.state = "committed",
                              !.committedVersion = version,
                              !.committedAccess = access,
                              !.operation = 0, !.lease = "none"])

\* Mutant of PrepareActivation: a finalizer that takes over reserves one more version.
PrepareActivationBeyond(p) ==
  /\ lectureOpen
  /\ row[p].state = "committed" /\ ~row[p].overdue
  /\ row[p].committedAccess = accessVersion
  /\ StageFree(row[p])
  /\ row[p].operation < MaxOperations
  /\ Update(p, [row[p] EXCEPT !.operation = @ + 1, !.lease = "live",
                              !.targetAccess = IF @ = 0 THEN accessVersion + 1 ELSE @ + 1])

\* admin_prepare_pdf_publication_activation_v1: reserve the next access version.
PrepareActivation(p) ==
  /\ lectureOpen
  /\ row[p].state = "committed" /\ ~row[p].overdue
  /\ row[p].committedAccess = accessVersion
  /\ StageFree(row[p])
  /\ row[p].operation < MaxOperations
  /\ Update(p, [row[p] EXCEPT !.operation = @ + 1, !.lease = "live",
                              !.targetAccess = accessVersion + 1])

\* lecture_pdf_documents already has this document version, registered by
\* another publication (rows of published documents are never deleted).
VersionTaken(p) ==
  \E q \in Publications \ {p} :
    /\ row[q].state \in Published
    /\ DocumentOf[q] = DocumentOf[p] /\ VersionOf[q] = VersionOf[p]

Activated(r, version) ==
  [r EXCEPT !.state = "active", !.activatedVersion = version, !.lease = "none"]

Replaced(r) ==
  [r EXCEPT !.state = "retired", !.cleanup = "due",
            !.cleanupGeneration = CaptureCleanupBinding(r)]

ActivationDue(p, operation, version, access) ==
  /\ lectureOpen
  /\ row[p].state = "committed" /\ ~row[p].overdue
  /\ row[p].operation = operation /\ row[p].lease = "live"
  /\ access = row[p].targetAccess /\ access = accessVersion + 1
  /\ version > row[p].committedVersion
  /\ ~VersionTaken(p)

\* Mutant of CompleteActivation: the version that was active stays so.
ActivateBeside(p, operation, version, access) ==
  /\ ActivationDue(p, operation, version, access)
  /\ row' = [row EXCEPT ![p] = Activated(@, version)]
  /\ accessVersion' = access
  /\ UNCHANGED lectureOpen

\* Mutant of CompleteActivation: the access version is not published.
ActivateUnversioned(p, operation, version, access) ==
  /\ ActivationDue(p, operation, version, access)
  /\ row' = [q \in Publications |->
       IF q = p THEN Activated(row[p], version)
       ELSE IF row[q].state = "active" /\ DocumentOf[q] = DocumentOf[p]
       THEN Replaced(row[q])
       ELSE row[q]]
  /\ UNCHANGED <<accessVersion, lectureOpen>>

\* admin_complete_pdf_publication_activation_v1: publish the reserved access
\* version, show the document, retire what it replaces, in one transaction.
CompleteActivation(p, operation, version, access) ==
  /\ ActivationDue(p, operation, version, access)
  /\ row' = [q \in Publications |->
       IF q = p THEN Activated(row[p], version)
       ELSE IF row[q].state = "active" /\ DocumentOf[q] = DocumentOf[p]
       THEN Replaced(row[q])
       ELSE row[q]]
  /\ accessVersion' = access
  /\ UNCHANGED lectureOpen

-----------------------------------------------------------------------------
(* Abandoning a publication.                                                *)

\* Mutant of Abort: a published row is aborted as well.
AbortAnything(p) ==
  /\ row[p].state \in Inflight \cup {"active"}
  /\ Update(p, Discard(row[p], "aborted"))

\* admin_abort_pdf_publication_v1
Abort(p) ==
  /\ row[p].state \in Inflight
  /\ Update(p, Discard(row[p], "aborted"))

\* Closing the lecture fires the trigger that aborts what is in flight.
CloseLecture ==
  /\ lectureOpen
  /\ lectureOpen' = FALSE
  /\ row' = [p \in Publications |->
       IF row[p].state \in Inflight THEN Discard(row[p], "aborted") ELSE row[p]]
  /\ UNCHANGED accessVersion

-----------------------------------------------------------------------------
(* Cleanup of terminal publications.                                        *)

Expired(r) ==
  IF r.state \in Inflight /\ r.overdue THEN Discard(r, "expired") ELSE r

\* Mutant of ClaimCleanup: a claim whose lease has lapsed is not taken over.
ClaimDueCleanup(p, c) ==
  LET r == Expired(row[p])
  IN /\ r.state \in Terminal
     /\ r.cleanup = "due"
     /\ Update(p, [r EXCEPT !.cleanup = "claimed", !.cleaner = c])

\* claim_due_pdf_publication_cleanup_v1, for one row: expire it if it is
\* overdue, then claim it if its cleanup is due or its claim has lapsed.
ClaimCleanup(p, c) ==
  LET r == Expired(row[p])
  IN /\ r.state \in Terminal
     /\ r.cleanup \in {"due", "lapsed"}
     /\ Update(p, [r EXCEPT !.cleanup = "claimed", !.cleaner = c])

CleanupClaimHeld(p, c) ==
  row[p].state \in Terminal /\ row[p].cleaner = c /\ row[p].cleanup = "claimed"

\* The claim of another pass and a lapsed lease are refused.  A failed pass and
\* a late receipt clear both columns; then the comparison with them is null,
\* the exception is not raised, and whoever reports is believed.
CleanupAccepted(p, c) ==
  \/ CleanupClaimHeld(p, c)
  \/ row[p].state \in Terminal /\ row[p].cleaner = NoCleaner

\* complete_pdf_publication_cleanup_v1.  A failure does not reopen a cleanup
\* that was completed.
CompleteCleanup(p, c, succeeded) ==
  /\ CleanupAccepted(p, c)
  /\ IF succeeded
     THEN Update(p, [row[p] EXCEPT !.cleanup = "done"])
     ELSE IF row[p].cleanup = "done"
     THEN UNCHANGED dbVars
     ELSE Update(p, [row[p] EXCEPT !.cleanup = "due", !.cleaner = NoCleaner])

-----------------------------------------------------------------------------
(* The passage of time.                                                     *)

LeaseLapses(p) ==
  /\ row[p].lease = "live"
  /\ Update(p, [row[p] EXCEPT !.lease = "lapsed"])

OperationDeadline(p) ==
  /\ row[p].state \in Inflight /\ ~row[p].overdue
  /\ Update(p, [row[p] EXCEPT !.overdue = TRUE])

CleanupLeaseLapses(p) ==
  /\ row[p].cleanup = "claimed"
  /\ Update(p, [row[p] EXCEPT !.cleanup = "lapsed"])

-----------------------------------------------------------------------------

Receipts(p) ==
  \E operation \in 1..MaxOperations, version \in ManifestVersions :
    \/ \E access \in {accessVersion, accessVersion + 1} :
         CompleteCommit(p, operation, version, access)
    \/ \E access \in {row[p].targetAccess, accessVersion + 1} :
         CompleteActivation(p, operation, version, access)

DBNext ==
  \/ CloseLecture
  \/ \E p \in Publications :
       \/ Create(p) \/ Reissue(p)
       \/ \E g \in 1..MaxGeneration : ClaimNonce(p, g) \/ RecordUploaded(p, g)
       \/ PrepareCommit(p) \/ PrepareActivation(p) \/ Receipts(p)
       \/ Abort(p)
       \/ \E c \in Cleaners :
            \/ ClaimCleanup(p, c)
            \/ \E succeeded \in BOOLEAN : CompleteCleanup(p, c, succeeded)
       \/ LeaseLapses(p) \/ OperationDeadline(p) \/ CleanupLeaseLapses(p)

DBSpec == DBInit /\ [][DBNext]_dbVars

-----------------------------------------------------------------------------
(* Properties.                                                              *)

\* The variables keep the shape of their columns.
RecordsTypeOK ==
  /\ lectureOpen \in BOOLEAN
  /\ accessVersion \in Nat \ {0}
  /\ row \in [Publications -> Row]

\* The access version a committed publication was staged at, and the one it
\* reserved, cannot be overtaken by another publication while it is in flight:
\* its Worker tickets stay addressed to the current version and the next one.
ActivationFence ==
  \A p \in Publications : row[p].state = "committed" =>
    /\ row[p].committedAccess = accessVersion
    /\ row[p].targetAccess \in {0, accessVersion + 1}

\* Every access version after the first was published by exactly one
\* publication: no version is skipped and none is published twice, however
\* finalizers, aborts and lapsed leases interleave.
AccessHistory ==
  /\ \A p \in Publications : row[p].state \in Published =>
       row[p].targetAccess \in 2..accessVersion
  /\ \A p, q \in Publications :
       /\ row[p].state \in Published /\ row[q].state \in Published
       /\ row[p].targetAccess = row[q].targetAccess
       => p = q
  /\ \A v \in 2..accessVersion : \E p \in Publications :
       row[p].state \in Published /\ row[p].targetAccess = v

\* Students of a document are pointed at its newest published version: each
\* published document has one active publication, and it is the latest one.
NewestIsActive ==
  \A p \in Publications : row[p].state \in Published =>
    \E q \in Publications :
      /\ DocumentOf[q] = DocumentOf[p] /\ row[q].state = "active"
      /\ row[p].targetAccess <= row[q].targetAccess
      /\ \A o \in Publications :
           row[o].state = "active" /\ DocumentOf[o] = DocumentOf[p] => o = q

\* A step never brings a publication back from a discarded state, and never
\* unpublishes one except by retiring it.
TransitionsForward ==
  \A p \in Publications :
    /\ row[p].state \in Discarded => row'[p].state \in Discarded
    /\ row[p].state = "retired" => row'[p].state = "retired"
    /\ row[p].state = "active" => row'[p].state \in Published

ForwardOnly == [][TransitionsForward]_dbVars

=============================================================================
