---------------------------- MODULE PdfPublication ----------------------------
(***************************************************************************)
(* The browser PDF publication of one lecture: the database rows, the asset  *)
(* Worker's invocations over the R2 bucket, and the Edge function           *)
(* manage-pdf-publications that drives both for an Admin.                   *)
(*                                                                          *)
(* The Edge function keeps no state of its own.  A finalize call runs the    *)
(* stages status, commit and activate one after the other; each stage is a   *)
(* request here, so a call that stops between stages and a later call that   *)
(* goes on from there are covered.  A browser may upload, finalize or abort  *)
(* again at any time.                                                       *)
(***************************************************************************)
EXTENDS PublicationUpload, PublicationManifest, PublicationCleanup

CONSTANTS
  Kinds,               \* the requests the Edge function and browsers send
  MaxCrashes           \* bound of the model: invocations cut short

ASSUME RequestKinds ==
  Kinds \subseteq {"upload", "status", "commit", "activate", "abort"}

ASSUME CrashBound == MaxCrashes \in Nat
ASSUME VersionIds == \A p \in Publications : VersionOf[p] # NoPublication

VARIABLE crashes

vars == <<dbVars, storeVars, request, crashes>>

Init == DBInit /\ StoreInit /\ crashes = 0

-----------------------------------------------------------------------------
(* The Edge function.                                                        *)

Send(r, p, kind, generation) ==
  [Idle EXCEPT !.kind = kind, !.pc = "load", !.publication = p,
               !.generation = generation]

\* Generations of which a ticket was signed: not the ones that only fence.
Issued(p) ==
  1..(IF row[p].cleanupGeneration # 0 THEN row[p].cleanupGeneration
                                      ELSE row[p].generation)

\* The browser sends the PDF with a ticket it was given, perhaps an old one.
SendUpload(r, p, generation) ==
  /\ request[r].kind = "idle" /\ row[p].state # "none"
  /\ generation \in Issued(p)
  /\ Become(r, Send(r, p, "upload", generation))
  /\ UNCHANGED dbVars

\* finalize, row pending: ask the Worker whether the bytes arrived.
SendStatus(r, p) ==
  /\ request[r].kind = "idle" /\ row[p].state = "pending"
  /\ Become(r, Send(r, p, "status", row[p].generation))
  /\ UNCHANGED dbVars

\* finalize, row uploaded and this finalizer holds the commit stage.
SendCommit(r, p) ==
  /\ request[r].kind = "idle"
  /\ row[p].state = "uploaded" /\ row[p].operation # 0
  /\ Become(r, [Send(r, p, "commit", row[p].generation) EXCEPT
                  !.operation = row[p].operation,
                  !.previousAccess = accessVersion])
  /\ UNCHANGED dbVars

\* finalize, row committed and this finalizer holds the activation stage.
SendActivate(r, p) ==
  /\ request[r].kind = "idle"
  /\ row[p].state = "committed" /\ row[p].operation # 0
  /\ Become(r, [Send(r, p, "activate", row[p].generation) EXCEPT
                  !.operation = row[p].operation,
                  !.previousAccess = row[p].committedAccess,
                  !.targetAccess = row[p].targetAccess])
  /\ UNCHANGED dbVars

\* The receipt is used if the database still takes it; a finalizer whose call
\* timed out never uses it.
UseReceipt(r) ==
  LET q == request[r]
  IN /\ q.pc = "done"
     /\ \/ /\ q.kind = "commit"
           /\ CompleteCommit(q.publication, q.operation, q.version,
                             q.previousAccess)
        \/ /\ q.kind = "activate"
           /\ CompleteActivation(q.publication, q.operation, q.version,
                                 q.targetAccess)
        \/ UNCHANGED dbVars
     /\ Finish(r)

\* abort reads the row first and signs the rollback ticket from what it read.
ReadForAbort(r, p) ==
  LET target == IF row[p].targetAccess # 0 THEN row[p].targetAccess
                                           ELSE accessVersion + 1
  IN /\ request[r].kind = "idle" /\ row[p].state \in Inflight
     /\ Become(r, [Send(r, p, "abort", row[p].generation) EXCEPT
                     !.previousAccess = row[p].committedAccess,
                     !.targetAccess = target])
     /\ UNCHANGED dbVars

\* The row is aborted; what was committed when it was read is rolled back.
AbortRow(r) ==
  LET q == request[r]
      p == q.publication
  IN /\ At(r, "abort", "load")
     /\ \/ /\ Abort(p) \/ (row[p].state \in Discarded /\ UNCHANGED dbVars)
           /\ IF q.previousAccess # 0
              THEN Become(r, [q EXCEPT !.kind = "rollback"])
              ELSE Finish(r)
        \/ /\ row[p].state \in Published
           /\ Finish(r) /\ UNCHANGED dbVars

\* An invocation ends without its reply: a dropped connection, a limit of the
\* platform, an exception.  What it wrote stays.
Crash(r) ==
  /\ request[r].kind # "idle" /\ crashes < MaxCrashes
  /\ crashes' = crashes + 1
  /\ Finish(r)
  /\ UNCHANGED dbVars

-----------------------------------------------------------------------------

EdgeStep(r) == UseReceipt(r) \/ AbortRow(r)

RequestStep(r) == UploadStep(r) \/ ManifestStep(r) \/ EdgeStep(r)

Arrival(r, p) ==
  \/ "upload" \in Kinds /\ \E g \in 1..MaxGeneration : SendUpload(r, p, g)
  \/ "status" \in Kinds /\ SendStatus(r, p)
  \/ "commit" \in Kinds /\ SendCommit(r, p)
  \/ "activate" \in Kinds /\ SendActivate(r, p)
  \/ "abort" \in Kinds /\ ReadForAbort(r, p)

\* RPCs and instants that no invocation takes part in.
RecordStep(p) ==
  \/ Create(p) \/ Reissue(p) \/ PrepareCommit(p) \/ PrepareActivation(p)
  \/ LeaseLapses(p) \/ OperationDeadline(p) \/ CleanupLeaseLapses(p)

Next ==
  \/ \E r \in Requests :
       /\ RequestStep(r) \/ \E p \in Publications : Arrival(r, p)
       /\ UNCHANGED crashes
  \/ \E c \in Cleaners :
       /\ CleanupStep(c) \/ \E p \in Publications : CleanupClaim(c, p)
       /\ UNCHANGED crashes
  \/ \E p \in Publications :
       \/ RecordStep(p) /\ UNCHANGED <<storeVars, request, crashes>>
       \/ QuiescencePasses(p) /\ UNCHANGED crashes
  \/ CloseLecture /\ UNCHANGED <<storeVars, request, crashes>>
  \/ \E r \in Requests \cup Cleaners : Crash(r)

Spec == Init /\ [][Next]_vars

-----------------------------------------------------------------------------
(* Fairness.  Cleanup is a cron trigger of the Worker: it keeps firing, takes *)
(* every due row in turn and runs each pass to its end; time passes.  A pass  *)
(* is a few storage calls and the lease of its claim is ten minutes, so the  *)
(* lease only lapses when the pass was cut short.  No fairness is assumed of *)
(* browsers, of the Edge function or of requests that were accepted.         *)

TimelyNext ==
  /\ Next
  /\ \A p \in Publications, c \in Cleaners :
       CleanupClaimHeld(p, c) /\ request[c].publication = p
         => row'[p].cleanup # "lapsed"

Alone(A) == A /\ UNCHANGED <<storeVars, request, crashes>>

Fairness ==
  /\ \A c \in Cleaners : WF_vars(CleanupStep(c) /\ UNCHANGED crashes)
  /\ \A p \in Publications :
       /\ SF_vars(\E c \in Cleaners : CleanupClaim(c, p) /\ UNCHANGED crashes)
       /\ WF_vars(QuiescencePasses(p) /\ UNCHANGED crashes)
       /\ WF_vars(Alone(CleanupLeaseLapses(p)))
       /\ WF_vars(Alone(OperationDeadline(p)))

FairSpec == Init /\ [][TimelyNext]_vars /\ Fairness

-----------------------------------------------------------------------------
(* Properties.                                                              *)

\* The variables keep the shape of the stored records.
TypeOK ==
  /\ RecordsTypeOK
  /\ ledger \in [Publications -> Ledger]
  /\ manifest \in Manifest
  /\ object \in [Publications -> {"absent", "pdf", "tombstone"}]
  /\ request \in [Requests \cup Cleaners -> Request]
  /\ crashes \in 0..MaxCrashes

Visible(p) == manifest.documents[p] = "visible"

\* The database only moves on over bytes the bucket really holds, and on a receipt
\* of the ticket generation the row still has: until its cleanup, what a row says
\* was uploaded is there, and an upload of an older ticket never stands in for a
\* newer one, whatever upload, retry, reissue or cleanup was running.
RecordedStored ==
  \A p \in Publications :
    row[p].state \in {"uploaded", "committed", "active"} => object[p] = "pdf"

ReceiptOfGeneration ==
  \A p \in Publications :
    row[p].state \in {"uploaded", "committed", "active"} =>
      /\ ledger[p].generation = row[p].generation
      /\ row[p].attempt = row[p].generation

UploadSound == RecordedStored /\ ReceiptOfGeneration

\* An invocation that holds an older ticket never takes the ledger back.
GenerationsForward ==
  [][\A p \in Publications : ledger'[p].generation >= ledger[p].generation]_vars

\* The stored records are well formed, and manifest and database agree: what the
\* database calls committed is listed, so activation always finds it, whoever else
\* writes the manifest meanwhile; and the manifest stays within one step of the database's access version, ahead only for
\* an activation the database reserved and did not complete.
CommittedListed ==
  \A p \in Publications :
    row[p].state = "committed" =>
      manifest.documents[p] \in {"staged", "visible"}

AccessInStep ==
  manifest.exists =>
    \/ manifest.access = accessVersion
    \/ /\ manifest.access = accessVersion + 1
       /\ \E p \in Publications :
            /\ Visible(p) /\ row[p].targetAccess = manifest.access
            /\ row[p].state \in Discarded \cup {"committed"}

ManifestAgrees == TypeOK /\ CommittedListed /\ AccessInStep

\* Students are let in when their access version is the manifest's: then what
\* they see is what the database has active, neither an unfinished or discarded
\* version nor a retired one.
ServedDeck ==
  manifest.exists /\ manifest.access = accessVersion =>
    \A p \in Publications : Visible(p) <=> row[p].state = "active"

\* A document the manifest shows has its bytes, unless its row was discarded:
\* such a document is shown to nobody, as the access version is then ahead.
ShownStored ==
  \A p \in Publications :
    Visible(p) /\ row[p].state \notin Discarded => object[p] = "pdf"

\* What students are given is the published deck, whole, and its bytes are there.
DeckSound == ServedDeck /\ ShownStored

\* "Active manifest references ... are checked before terminalization": cleanup
\* never takes the bytes of a document the manifest shows.
VisibleStored == \A p \in Publications : Visible(p) => object[p] = "pdf"

\* A finished cleanup left nothing behind: no manifest entry, no bytes, no
\* ledger an old ticket could go on with.
CleanupSound ==
  \A p \in Publications : row[p].cleanup = "done" =>
    /\ ledger[p].status = "cleanup_complete"
    /\ object[p] = "tombstone"
    /\ manifest.documents[p] = "absent"

\* The sentinels of a finished cleanup are permanent, also for requests that
\* were accepted before it and go on after it.
SentinelsStay ==
  [][\A p \in Publications :
       /\ object[p] = "tombstone" => object'[p] = "tombstone"
       /\ ledger[p].status = "cleanup_complete" => ledger'[p] = ledger[p]
       /\ ledger[p].status = "cleanup_complete" =>
            manifest'.documents[p] = "absent"]_vars

\* Every step of the composed system is a step of the database's own
\* specification, or leaves the database alone.
ImplementsRecords == DBSpec

-----------------------------------------------------------------------------
(* What students see implements StudentDeck.                                 *)

DocumentsOf == {DocumentOf[p] : p \in Publications}

DeckOf(chosen) ==
  [d \in DocumentsOf |->
     IF \E p \in chosen : DocumentOf[p] = d
     THEN VersionOf[CHOOSE p \in chosen : DocumentOf[p] = d]
     ELSE NoPublication]

PublishedDeck == DeckOf({p \in Publications : row[p].state = "active"})

\* The Worker serves the manifest to tickets of its own access version.
StudentView ==
  IF manifest.exists /\ manifest.access = accessVersion
  THEN DeckOf({p \in Publications : Visible(p)}) ELSE NoPublication

Deck == INSTANCE StudentDeck
  WITH Documents <- DocumentsOf,
       Versions <- {VersionOf[p] : p \in Publications},
       NoVersion <- NoPublication, Nothing <- NoPublication,
       published <- PublishedDeck, view <- StudentView

\* Students get the published deck or nothing, and each publication replaces
\* one document for all of them at once.
ImplementsDeck == Deck!Spec

-----------------------------------------------------------------------------
(* Liveness.                                                                 *)

\* A publication that was given up or replaced is cleaned up in the end: "A
\* later pass ... replaces mutable PDF bytes plus the operational ledger with
\* permanent immutable sentinels".
CleanupEnds ==
  \A p \in Publications :
    row[p].state \in Terminal ~> row[p].cleanup = "done"

\* When the manifest ran ahead of the database, students get their deck back:
\* the database catches up or cleanup restores the previous deck.
DeckReturns ==
  manifest.exists /\ manifest.access # accessVersion
    ~> manifest.access = accessVersion

\* Whatever a dead or a late invocation left behind is put right: the rubbish goes and
\* the deck comes back, and neither happens at the cost of the other.
Convergence == CleanupEnds /\ DeckReturns

=============================================================================
