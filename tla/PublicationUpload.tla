-------------------------- MODULE PublicationUpload --------------------------
(***************************************************************************)
(* Upload tickets at the asset Worker: PUT /v2/pdf-publications/<id>, and    *)
(* the status request a finalizer sends while the row is still pending.     *)
(* Every await of the handler that reads or writes shared state is a step;  *)
(* "pc" names what the invocation does next.  A check of the object is       *)
(* taken with the conditional put that follows it: a verified object only    *)
(* changes to a tombstone, and only after a cleanup rewrote the ledger, on   *)
(* which that put then fails.                                               *)
(***************************************************************************)
EXTENDS PublicationStore

\* The load of the existing ledger and what its generation and status allow.
UploadLoad(r) ==
  LET l == LedgerOf(r)
      g == request[r].generation
      received == {"uploaded", "committed", "active"}
  IN /\ At(r, "upload", "load")
     /\ \/ /\ \/ l.status = "absent"
              \/ l.generation < g /\ l.status = "receiving"
           /\ LoadLedger(r, "claim")
        \/ /\ l.generation = g /\ l.status \in received
           /\ Verified(request[r].publication)
           /\ LoadLedger(r, "record")
        \/ /\ l.generation = g /\ l.status = "receiving"
           /\ LoadLedger(r, "recover")
        \/ /\ l.status # "absent"
           /\ \/ l.generation > g
              \/ l.generation < g /\ l.status # "receiving"
              \/ l.generation = g /\ l.status \notin received \cup {"receiving"}
              \/ /\ l.generation = g /\ l.status \in received
                 /\ ~Verified(request[r].publication)
           /\ Finish(r)
     /\ UNCHANGED dbVars

\* The coordinator is asked for the nonce of a new upload or a reissued one.
UploadClaim(r) ==
  LET p == request[r].publication
      g == request[r].generation
  IN /\ At(r, "upload", "claim")
     /\ \/ ClaimNonce(p, g) /\ Goto(r, "open")
        \/ NonceHeld(p, g) /\ Goto(r, "open") /\ UNCHANGED dbVars
        \/ /\ ~NonceFree(p, g) /\ ~NonceHeld(p, g)
           /\ Finish(r) /\ UNCHANGED dbVars

\* The ledger is created, or replaced by the reissued generation's.  A lost
\* replacement goes on with the ledger of the same generation that won.
UploadOpen(r) ==
  LET p == request[r].publication
      g == request[r].generation
      reissued == request[r].seen.status = "receiving"
      opened(status) == [NoLedger EXCEPT !.status = status, !.generation = g]
      on(pc) == [request[r] EXCEPT !.pc = pc, !.ledgerFresh = TRUE]
  IN /\ At(r, "upload", "open")
     /\ \/ /\ request[r].ledgerFresh
           /\ \/ /\ reissued /\ Verified(p)
                 /\ LedgerPut(r, p, opened("uploaded"), on("record"))
              \/ /\ ~(reissued /\ Verified(p))
                 /\ LedgerPut(r, p, opened("receiving"), on("body"))
        \/ /\ ~request[r].ledgerFresh
           /\ \/ /\ reissued /\ LedgerBound(r)
                 /\ LedgerOf(r).status = "receiving"
                 /\ LoadLedger(r, "body")
              \/ /\ ~(/\ reissued /\ LedgerBound(r)
                      /\ LedgerOf(r).status = "receiving")
                 /\ Finish(r)
     /\ UNCHANGED dbVars

\* recoverReceivingPublication: the bytes arrived but the ledger does not say
\* so.  When another writer got there first, its ledger is the one held from
\* here on, whatever its status.
Recover(r) ==
  LET p == request[r].publication
      upload == request[r].kind = "upload"
      received == {"uploaded", "committed", "active"}
  IN /\ request[r].kind \in {"upload", "status"} /\ request[r].pc = "recover"
     /\ \/ /\ ~Verified(p)
           /\ IF upload THEN Goto(r, "body") ELSE Finish(r)
        \/ /\ Verified(p) /\ request[r].ledgerFresh
           /\ LedgerPut(r, p, [LedgerOf(r) EXCEPT !.status = "uploaded"],
                        [request[r] EXCEPT !.pc = "record"])
        \/ /\ Verified(p) /\ ~request[r].ledgerFresh
           /\ \/ ~LedgerBound(r) /\ Finish(r)
              \/ /\ LedgerBound(r) /\ upload
                 /\ IF LedgerOf(r).status = "uploaded"
                    THEN Finish(r) ELSE LoadLedger(r, "body")
              \/ /\ LedgerBound(r) /\ ~upload
                 /\ IF LedgerOf(r).status \in received
                    THEN LoadLedger(r, "record") ELSE Finish(r)
     /\ UNCHANGED dbVars

\* Mutant of UploadBody: the bytes are stored over a tombstone.
UploadOverTombstone(r) ==
  /\ At(r, "upload", "body")
  /\ object' = [object EXCEPT ![request[r].publication] = "pdf"]
  /\ request' = [request EXCEPT ![r].pc = "stored"]
  /\ UNCHANGED <<ledger, manifest, dbVars>>

\* The verified bytes are stored unless the key is taken; a PDF that is there
\* already is adopted, a cleanup tombstone is not.
UploadBody(r) ==
  LET p == request[r].publication
  IN /\ At(r, "upload", "body")
     /\ \/ object[p] = "tombstone" /\ Finish(r)
        \/ /\ object[p] # "tombstone"
           /\ object' = [object EXCEPT ![p] = "pdf"]
           /\ request' = [request EXCEPT ![r].pc = "stored"]
           /\ UNCHANGED <<ledger, manifest>>
     /\ UNCHANGED dbVars

\* The ledger that was held since before the body arrived becomes "uploaded".
UploadStored(r) ==
  LET p == request[r].publication
      stored == Verified(p) /\ request[r].ledgerFresh
  IN /\ At(r, "upload", "stored")
     /\ \/ /\ stored
           /\ LedgerPut(r, p, [LedgerOf(r) EXCEPT !.status = "uploaded"],
                        [request[r] EXCEPT !.pc = "record"])
        \/ ~stored /\ Finish(r)
     /\ UNCHANGED dbVars

\* The status request of a finalizer that found the row pending.
StatusLoad(r) ==
  /\ At(r, "status", "load")
  /\ \/ /\ LedgerBound(r)
        /\ LedgerOf(r).status \in {"uploaded", "committed", "active"}
        /\ LoadLedger(r, "record")
     \/ /\ LedgerBound(r) /\ LedgerOf(r).status = "receiving"
        /\ LoadLedger(r, "recover")
     \/ /\ \/ ~LedgerBound(r)
           \/ LedgerOf(r).status \notin
                {"uploaded", "committed", "active", "receiving"}
        /\ Finish(r)
  /\ UNCHANGED dbVars

\* The receipt goes to the database through the coordinator, or through the
\* finalizer that asked for the status.
RecordReceipt(r) ==
  LET p == request[r].publication
      g == request[r].generation
  IN /\ request[r].kind \in {"upload", "status"} /\ request[r].pc = "record"
     /\ \/ RecordUploaded(p, g)
        \/ ~ReceiptExpected(p, g) /\ UNCHANGED dbVars
     /\ Finish(r)

UploadStep(r) ==
  \/ UploadLoad(r) \/ UploadClaim(r) \/ UploadOpen(r) \/ Recover(r)
  \/ UploadBody(r) \/ UploadStored(r) \/ StatusLoad(r) \/ RecordReceipt(r)

=============================================================================
