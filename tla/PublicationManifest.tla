------------------------- MODULE PublicationManifest -------------------------
(***************************************************************************)
(* Commit, activate and rollback tickets at the asset Worker.  Each handler  *)
(* loads the ledger, loads the manifest and decides, reads the ledger again  *)
(* as a fence, writes the manifest and writes the ledger; every one of these *)
(* is a step of its own.  "done" holds the receipt for the finalizer.       *)
(***************************************************************************)
EXTENDS PublicationStore

Staged == {"uploaded", "committed", "active"}
Activatable == {"committed", "activating", "active"}

\* p is listed but not visible.
Hidden(p) == manifest.documents[p] \in {"staged", "retired"}

\* A receipt: the manifest version and access version the Worker answers with.
Answer(r, version) == [request[r] EXCEPT !.pc = "done", !.version = version]

\* The first load of the handlers.
ManifestTicketLoad(r) ==
  LET p == request[r].publication
      acceptable ==
        /\ LedgerBound(r)
        /\ \/ /\ request[r].kind = "commit"
              /\ LedgerOf(r).status \in Staged /\ Verified(p)
           \/ /\ request[r].kind \in {"activate", "rollback"}
              /\ LedgerOf(r).status \in Activatable
  IN /\ request[r].kind \in {"commit", "activate", "rollback"}
     /\ request[r].pc = "load"
     /\ \/ acceptable /\ LoadLedger(r, "manifest")
        \/ ~acceptable /\ Finish(r)
     /\ UNCHANGED dbVars

\* assertManifestMutationLedgerFence, just before the manifest is written.
Fence(r) ==
  LET allowed == CASE request[r].kind = "commit"   -> {"uploaded"}
                   [] request[r].kind = "activate" -> {"activating"}
                   [] OTHER                        -> Activatable
  IN /\ request[r].kind \in {"commit", "activate", "rollback"}
     /\ request[r].pc = "fence"
     /\ \/ FenceHolds(r, allowed) /\ Goto(r, "put")
        \/ ~FenceHolds(r, allowed) /\ Finish(r)
     /\ UNCHANGED dbVars

-----------------------------------------------------------------------------
(* commitPublication: add the document to the manifest, hidden.              *)

CommitDecide(r) ==
  LET p == request[r].publication
      uploaded == request[r].seen.status = "uploaded"
      acceptable ==
        /\ manifest.exists => manifest.access = request[r].previousAccess
        /\ ~HashCollision(p)
        /\ \/ manifest.documents[p] = "staged"
           \/ manifest.documents[p] = "absent" /\ uploaded
      decided(pc) == LoadManifest(r, pc, VisibleVersions(p))
  IN /\ At(r, "commit", "manifest")
     /\ \/ ~acceptable /\ Finish(r)
        \/ /\ acceptable /\ manifest.documents[p] = "absent"
           /\ decided("fence")
        \/ /\ acceptable /\ manifest.documents[p] = "staged"
           /\ decided(IF uploaded THEN "recover" ELSE "done")
     /\ UNCHANGED dbVars

CommittedLedger(r, version, prior) ==
  [LedgerOf(r) EXCEPT !.status = "committed", !.version = version,
                      !.previousAccess = request[r].previousAccess,
                      !.prior = prior]

\* The document is staged already and only the ledger is behind.
CommitRecover(r) ==
  LET l == LedgerOf(r)
      prior == IF l.version = 0 THEN request[r].prior ELSE l.prior
      won == /\ LedgerBound(r) /\ l.status \in {"committed", "active"}
             /\ l.previousAccess = request[r].previousAccess
  IN /\ At(r, "commit", "recover")
     /\ \/ /\ request[r].ledgerFresh
           /\ LedgerPut(r, request[r].publication,
                        CommittedLedger(r, request[r].version, prior),
                        Answer(r, request[r].version))
        \/ ~request[r].ledgerFresh /\ won /\ Become(r, Answer(r, l.version))
        \/ ~request[r].ledgerFresh /\ ~won /\ Finish(r)
     /\ UNCHANGED dbVars

\* Mutant of CommitPut: the receipt names the manifest version it loaded.
CommitPutStale(r) ==
  LET p == request[r].publication
  IN /\ At(r, "commit", "put")
     /\ \/ /\ request[r].manifestFresh
           /\ ManifestPut(r, request[r].previousAccess,
                          [manifest.documents EXCEPT ![p] = "staged"],
                          [request[r] EXCEPT !.pc = "ledger"])
        \/ ~request[r].manifestFresh /\ Finish(r)
     /\ UNCHANGED dbVars

CommitPut(r) ==
  LET p == request[r].publication
  IN /\ At(r, "commit", "put")
     /\ \/ /\ request[r].manifestFresh
           /\ ManifestPut(r, request[r].previousAccess,
                          [manifest.documents EXCEPT ![p] = "staged"],
                          [request[r] EXCEPT !.pc = "ledger",
                                             !.version = @ + 1])
        \/ ~request[r].manifestFresh /\ Finish(r)
     /\ UNCHANGED dbVars

CommitLedger(r) ==
  /\ At(r, "commit", "ledger")
  /\ \/ /\ request[r].ledgerFresh
        /\ LedgerPut(r, request[r].publication,
                     CommittedLedger(r, request[r].version, request[r].prior),
                     Answer(r, request[r].version))
     \/ ~request[r].ledgerFresh /\ Finish(r)
  /\ UNCHANGED dbVars

-----------------------------------------------------------------------------
(* activatePublication: show the document, hide what it replaces, and move   *)
(* the manifest to the reserved access version.                              *)

ActivateDecide(r) ==
  LET p == request[r].publication
      found == /\ manifest.exists /\ manifest.documents[p] # "absent"
               /\ ~HashCollision(p)
      shown == /\ manifest.access = request[r].targetAccess
               /\ manifest.documents[p] = "visible"
      ready == /\ request[r].seen.status \in {"committed", "activating"}
               /\ manifest.access = request[r].previousAccess /\ Hidden(p)
  IN /\ At(r, "activate", "manifest")
     /\ \/ /\ found /\ shown
           /\ LoadManifest(r, IF request[r].seen.status = "active"
                              THEN "done" ELSE "recover", request[r].prior)
        \/ /\ found /\ ready
           /\ LoadManifest(r, "prepare", VisibleVersions(p))
        \/ ~(found /\ (shown \/ ready)) /\ Finish(r)
     /\ UNCHANGED dbVars

ActiveLedger(r) ==
  [LedgerOf(r) EXCEPT !.status = "active", !.version = request[r].version,
                      !.previousAccess = request[r].previousAccess,
                      !.targetAccess = request[r].targetAccess]

\* The document is visible already and only the ledger is behind.
ActivateRecover(r) ==
  LET l == LedgerOf(r)
      won == /\ LedgerBound(r) /\ l.status = "active"
             /\ l.targetAccess = request[r].targetAccess
  IN /\ At(r, "activate", "recover")
     /\ \/ /\ request[r].ledgerFresh
           /\ LedgerPut(r, request[r].publication, ActiveLedger(r),
                        Answer(r, request[r].version))
        \/ ~request[r].ledgerFresh /\ won /\ Become(r, Answer(r, l.version))
        \/ ~request[r].ledgerFresh /\ ~won /\ Finish(r)
     /\ UNCHANGED dbVars

\* What is about to change is written to the ledger first, so that a rollback
\* knows what to restore.
ActivatePrepare(r) ==
  LET loaded == request[r].seen
      prepared == [loaded EXCEPT !.status = "activating",
                                 !.version = request[r].version,
                                 !.previousAccess = request[r].previousAccess,
                                 !.targetAccess = request[r].targetAccess,
                                 !.prior = request[r].prior]
  IN /\ At(r, "activate", "prepare")
     /\ \/ loaded = prepared /\ Goto(r, "fence")
        \/ /\ loaded # prepared /\ request[r].ledgerFresh
           /\ LedgerPut(r, request[r].publication, prepared,
                        [request[r] EXCEPT !.pc = "fence"])
        \/ loaded # prepared /\ ~request[r].ledgerFresh /\ Finish(r)
     /\ UNCHANGED dbVars

\* Mutant of ActivatePut: the manifest keeps its access version.
ActivatePutEarly(r) ==
  LET p == request[r].publication
  IN /\ At(r, "activate", "put")
     /\ \/ /\ request[r].manifestFresh
           /\ ManifestPut(r, request[r].previousAccess, ActivatedDocuments(p),
                          [request[r] EXCEPT !.pc = "ledger",
                                             !.version = @ + 1])
        \/ ~request[r].manifestFresh /\ Finish(r)
     /\ UNCHANGED dbVars

ActivatePut(r) ==
  LET p == request[r].publication
  IN /\ At(r, "activate", "put")
     /\ \/ /\ request[r].manifestFresh
           /\ ManifestPut(r, request[r].targetAccess, ActivatedDocuments(p),
                          [request[r] EXCEPT !.pc = "ledger",
                                             !.version = @ + 1])
        \/ ~request[r].manifestFresh /\ Finish(r)
     /\ UNCHANGED dbVars

ActivateLedger(r) ==
  /\ At(r, "activate", "ledger")
  /\ \/ /\ request[r].ledgerFresh
        /\ LedgerPut(r, request[r].publication, ActiveLedger(r),
                     Answer(r, request[r].version))
     \/ ~request[r].ledgerFresh /\ Finish(r)
  /\ UNCHANGED dbVars

-----------------------------------------------------------------------------
(* rollbackPublication: undo an activation, or only a commit.                *)

\* The document is staged and nothing else was changed for it.
OnlyStaged(r) ==
  /\ request[r].seen.status \in {"committed", "activating"}
  /\ manifest.access = request[r].previousAccess
  /\ Hidden(request[r].publication)

\* Somebody restored the previous deck already.
AlreadyRestored(r) ==
  /\ manifest.access = request[r].previousAccess
  /\ manifest.documents[request[r].publication] = "absent"
  /\ PriorShown(request[r].publication, request[r].seen.prior)

\* The activation this ticket knows of is what the manifest shows.
ActivationShown(r) ==
  LET p == request[r].publication
      l == request[r].seen
  IN /\ manifest.access = request[r].targetAccess
     /\ PriorReplaced(p, l.prior)
     /\ l.previousAccess = request[r].previousAccess
     /\ \/ /\ l.status = "active"
           /\ l.targetAccess = request[r].targetAccess
           /\ manifest.version >= l.version
        \/ /\ l.status \in {"committed", "activating"}
           /\ manifest.version > l.version

RollbackDecide(r) ==
  LET decided(pc) == LoadManifest(r, pc, request[r].seen.prior)
      undo == manifest.exists /\ (OnlyStaged(r) \/ ActivationShown(r))
      record == manifest.exists /\ AlreadyRestored(r)
  IN /\ At(r, "rollback", "manifest")
     /\ \/ undo /\ decided("fence")
        \/ record /\ decided("record")
        \/ ~undo /\ ~record /\ Finish(r)
     /\ UNCHANGED dbVars

\* Mutant of RollbackPut: the manifest is left at the reserved access version.
RollbackPutAhead(r) ==
  LET p == request[r].publication
      shown == manifest.documents[p] = "visible"
  IN /\ At(r, "rollback", "put")
     /\ \/ /\ request[r].manifestFresh
           /\ ManifestPut(r, request[r].targetAccess,
                          IF shown THEN RestoredDocuments(p, request[r].prior)
                                   ELSE WithoutDocument(p),
                          [request[r] EXCEPT !.pc = "ledger",
                                             !.version = @ + 1])
        \/ ~request[r].manifestFresh /\ Finish(r)
     /\ UNCHANGED dbVars

RollbackPut(r) ==
  LET p == request[r].publication
      shown == manifest.documents[p] = "visible"
  IN /\ At(r, "rollback", "put")
     /\ \/ /\ request[r].manifestFresh
           /\ ManifestPut(r, request[r].previousAccess,
                          IF shown THEN RestoredDocuments(p, request[r].prior)
                                   ELSE WithoutDocument(p),
                          [request[r] EXCEPT !.pc = "ledger",
                                             !.version = @ + 1])
        \/ ~request[r].manifestFresh /\ Finish(r)
     /\ UNCHANGED dbVars

RollbackLedger(r) ==
  LET l == LedgerOf(r)
      version == IF request[r].pc = "ledger" THEN request[r].version
                                             ELSE l.version
      new == [l EXCEPT !.status = "rolled_back", !.version = version]
  IN /\ At(r, "rollback", "ledger") \/ At(r, "rollback", "record")
     /\ \/ /\ request[r].ledgerFresh
           /\ LedgerPut(r, request[r].publication, new, Idle)
        \/ ~request[r].ledgerFresh /\ Finish(r)
     /\ UNCHANGED dbVars

ManifestStep(r) ==
  \/ ManifestTicketLoad(r) \/ Fence(r)
  \/ CommitDecide(r) \/ CommitRecover(r) \/ CommitPut(r) \/ CommitLedger(r)
  \/ ActivateDecide(r) \/ ActivateRecover(r) \/ ActivatePrepare(r)
  \/ ActivatePut(r) \/ ActivateLedger(r)
  \/ RollbackDecide(r) \/ RollbackPut(r) \/ RollbackLedger(r)

=============================================================================
