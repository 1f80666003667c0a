-------------------------- MODULE PublicationCleanup --------------------------
(***************************************************************************)
(* The scheduled cleanup of the asset Worker: jobs claimed from the         *)
(* database, one per invocation here.  A first pass quiesces the ledger and *)
(* always fails; a pass at least ten minutes later undoes an activation the *)
(* database never completed, removes the document from the manifest,        *)
(* replaces its bytes by a tombstone and closes the ledger for good.        *)
(*                                                                          *)
(* A job carries columns of a terminal row; they do not change any more and *)
(* are read from the row.  Only the access version of the lecture does, so  *)
(* the job keeps the one it was claimed with.                               *)
(***************************************************************************)
EXTENDS PublicationStore

Job(p) ==
  [Idle EXCEPT !.kind = "cleanup", !.pc = "load", !.publication = p,
               !.generation = CaptureCleanupBinding(row[p]),
               !.databaseAccess = accessVersion]

Fail(r) == Goto(r, "failed")

\* claimCleanup through the coordinator.
CleanupClaim(r, p) ==
  /\ request[r].kind = "idle"
  /\ ClaimCleanup(p, r)
  /\ Become(r, Job(p))

\* cleanupLedgerOperationStatus
OperationStatus(l) ==
  IF l.status \in {"cleanup_pending", "cleanup_complete"}
  THEN l.previousStatus ELSE l.status

\* The row was given up while the Worker may have gone on to activate it.
NeedsRollback(r) ==
  LET p == request[r].publication
  IN /\ row[p].state \in Discarded
     /\ \/ OperationStatus(ledger[p]) = "active"
        \/ /\ OperationStatus(ledger[p]) \in {"activating", "committed"}
           /\ row[p].targetAccess # 0

CleanupLoad(r) ==
  LET l == LedgerOf(r)
      bound == l.status = "absent" \/ LedgerBound(r)
      next == IF l.status = "cleanup_complete" THEN "recheck"
              ELSE IF l.status # "cleanup_pending" THEN "quiesce"
              ELSE IF ~l.settled THEN "failed"
              ELSE IF NeedsRollback(r) THEN "rollback" ELSE "remove"
  IN /\ At(r, "cleanup", "load")
     /\ \/ bound /\ LoadLedger(r, next)
        \/ ~bound /\ Fail(r)
     /\ UNCHANGED dbVars

\* establishCleanupQuiescence: fence every Worker that holds the old ledger.
CleanupQuiesce(r) ==
  LET l == LedgerOf(r)
      created == [NoLedger EXCEPT !.status = "cleanup_pending",
                                  !.previousStatus = "receiving",
                                  !.generation = request[r].generation]
      pending == [l EXCEPT !.status = "cleanup_pending", !.settled = FALSE,
                           !.previousStatus = l.status]
  IN /\ At(r, "cleanup", "quiesce")
     /\ \/ /\ request[r].ledgerFresh
           /\ LedgerPut(r, request[r].publication,
                        IF l.status = "absent" THEN created ELSE pending,
                        [request[r] EXCEPT !.pc = "sentinel"])
        \/ ~request[r].ledgerFresh /\ Fail(r)
     /\ UNCHANGED dbVars

PutTombstone(p) == object' = [object EXCEPT ![p] = "tombstone"]

\* An object key nobody has used yet is taken, and the pass ends.
CleanupSentinel(r) ==
  LET p == request[r].publication
  IN /\ At(r, "cleanup", "sentinel")
     /\ IF object[p] = "absent" THEN PutTombstone(p) ELSE UNCHANGED object
     /\ request' = [request EXCEPT ![r].pc = "failed"]
     /\ UNCHANGED <<ledger, manifest, dbVars>>

-----------------------------------------------------------------------------
(* rollbackTerminalActivation                                                *)

\* terminalRollbackVersions: the ledger and the job tell the same story.
RollbackBound(r) ==
  LET l == request[r].seen
      job == row[request[r].publication]
      operation == OperationStatus(l)
  IN /\ job.targetAccess # 0
     /\ request[r].databaseAccess = job.committedAccess
     /\ l.previousAccess = job.committedAccess
     /\ \/ l.targetAccess = job.targetAccess
        \/ operation = "committed" /\ l.targetAccess = 0
     /\ operation = "activating" => l.version >= job.committedVersion
     /\ operation = "committed" => l.version = job.committedVersion

CleanupRollback(r) ==
  LET p == request[r].publication
      l == request[r].seen
      operation == OperationStatus(l)
      before == manifest.access = row[p].committedAccess
      staged == /\ before /\ operation \in {"committed", "activating"}
                /\ manifest.documents[p] \in {"staged", "retired"}
      restored == /\ before /\ manifest.documents[p] = "absent"
                  /\ PriorShown(p, l.prior)
      activated == /\ manifest.access = row[p].targetAccess
                   /\ PriorReplaced(p, l.prior)
                   /\ \/ operation = "active" /\ manifest.version >= l.version
                      \/ operation # "active" /\ manifest.version > l.version
      bound == RollbackBound(r) /\ manifest.exists
      load(pc) == LoadManifest(r, pc, l.prior)
  IN /\ At(r, "cleanup", "rollback")
     /\ \/ bound /\ staged /\ load("remove")
        \/ bound /\ restored /\ load("mark")
        \/ bound /\ activated /\ load("restore")
        \/ ~(bound /\ (staged \/ restored \/ activated)) /\ Fail(r)
     /\ UNCHANGED dbVars

CleanupRestore(r) ==
  LET p == request[r].publication
  IN /\ At(r, "cleanup", "restore")
     /\ \/ /\ request[r].manifestFresh
           /\ ManifestPut(r, row[p].committedAccess,
                          RestoredDocuments(p, request[r].prior),
                          [request[r] EXCEPT !.pc = "mark", !.version = @ + 1])
        \/ ~request[r].manifestFresh /\ Fail(r)
     /\ UNCHANGED dbVars

\* markTerminalLedgerRolledBack
CleanupMark(r) ==
  LET l == LedgerOf(r)
      rolledBack == [l EXCEPT !.status = "rolled_back",
                              !.version = request[r].version]
      job == row[request[r].publication]
      won == /\ l.status = "rolled_back" /\ LedgerBound(r)
             /\ l.previousAccess = job.committedAccess
             /\ l.targetAccess = job.targetAccess
  IN /\ At(r, "cleanup", "mark")
     /\ \/ /\ request[r].ledgerFresh
           /\ LedgerPut(r, request[r].publication, rolledBack,
                        [request[r] EXCEPT !.pc = "remove"])
        \/ ~request[r].ledgerFresh /\ won /\ LoadLedger(r, "remove")
        \/ ~request[r].ledgerFresh /\ ~won /\ Fail(r)
     /\ UNCHANGED dbVars

-----------------------------------------------------------------------------
(* Removal: the manifest entry, the bytes, the ledger, in that order.        *)

CleanupRemoveLoad(r) ==
  LET p == request[r].publication
  IN /\ At(r, "cleanup", "remove")
     /\ \/ manifest.documents[p] = "visible" /\ Fail(r)
        \/ /\ manifest.documents[p] # "visible"
           /\ LoadManifest(r, "removing", request[r].prior)
     /\ UNCHANGED dbVars

CleanupRemove(r) ==
  /\ At(r, "cleanup", "removing")
  /\ \/ /\ request[r].manifestFresh
        /\ ManifestPut(r, IF manifest.exists THEN manifest.access
                                             ELSE request[r].databaseAccess,
                       WithoutDocument(request[r].publication),
                       [request[r] EXCEPT !.pc = "tombstone"])
     \/ ~request[r].manifestFresh /\ Fail(r)
  /\ UNCHANGED dbVars

\* A ledger that is closed already: only look again.
CleanupRecheck(r) ==
  LET p == request[r].publication
  IN /\ At(r, "cleanup", "recheck")
     /\ \/ manifest.documents[p] = "visible" /\ Fail(r)
        \/ manifest.documents[p] # "visible" /\ Goto(r, "tombstone")
     /\ UNCHANGED dbVars

\* ensureCleanupObjectTombstone
CleanupTombstone(r) ==
  LET closed == request[r].seen.status = "cleanup_complete"
      next == IF closed THEN "succeeded" ELSE "close"
  IN /\ At(r, "cleanup", "tombstone")
     /\ PutTombstone(request[r].publication)
     /\ request' = [request EXCEPT ![r].pc = next]
     /\ UNCHANGED <<ledger, manifest, dbVars>>

\* Mutant of CleanupClose: a conditional put that was lost counts as done.
CleanupCloseLost(r) ==
  /\ At(r, "cleanup", "close")
  /\ \/ /\ request[r].ledgerFresh
        /\ LedgerPut(r, request[r].publication,
                     [LedgerOf(r) EXCEPT !.status = "cleanup_complete"],
                     [request[r] EXCEPT !.pc = "succeeded"])
     \/ ~request[r].ledgerFresh /\ Goto(r, "succeeded")
  /\ UNCHANGED dbVars

\* markCleanupLedgerComplete
CleanupClose(r) ==
  LET l == LedgerOf(r)
      won == l.status = "cleanup_complete" /\ LedgerBound(r)
  IN /\ At(r, "cleanup", "close")
     /\ \/ /\ request[r].ledgerFresh
           /\ LedgerPut(r, request[r].publication,
                        [l EXCEPT !.status = "cleanup_complete"],
                        [request[r] EXCEPT !.pc = "succeeded"])
        \/ ~request[r].ledgerFresh /\ won /\ Goto(r, "succeeded")
        \/ ~request[r].ledgerFresh /\ ~won /\ Fail(r)
     /\ UNCHANGED dbVars

\* completeCleanup through the coordinator; refused while another pass has the
\* claim or when its own lease has lapsed, believed when nobody has the claim.
CleanupReport(r) ==
  LET p == request[r].publication
  IN /\ request[r].kind = "cleanup" /\ request[r].pc \in {"succeeded", "failed"}
     /\ \/ CompleteCleanup(p, r, request[r].pc = "succeeded")
        \/ ~CleanupAccepted(p, r) /\ UNCHANGED dbVars
     /\ Finish(r)

\* Ten minutes have passed since cleanupStartedAt.
QuiescencePasses(p) ==
  /\ ledger[p].status = "cleanup_pending" /\ ~ledger[p].settled
  /\ ledger' = [ledger EXCEPT ![p].settled = TRUE]
  /\ UNCHANGED <<manifest, object, request, dbVars>>

CleanupStep(r) ==
  \/ CleanupLoad(r) \/ CleanupQuiesce(r) \/ CleanupSentinel(r)
  \/ CleanupRollback(r) \/ CleanupRestore(r) \/ CleanupMark(r)
  \/ CleanupRemoveLoad(r) \/ CleanupRemove(r) \/ CleanupRecheck(r)
  \/ CleanupTombstone(r) \/ CleanupClose(r) \/ CleanupReport(r)

=============================================================================
