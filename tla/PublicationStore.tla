-------------------------- MODULE PublicationStore --------------------------
(***************************************************************************)
(* The private R2 bucket as the asset Worker uses it for one lecture: the   *)
(* manifest, one ledger and one PDF object per publication; and the Worker  *)
(* invocations that read them and write them back with conditional puts.    *)
(*                                                                          *)
(* An ETag changes with every write, so a put that is conditional on the    *)
(* ETag loaded earlier succeeds exactly when nobody wrote in between.  An   *)
(* invocation therefore does not keep an ETag but a flag, "fresh", that     *)
(* every later write by another invocation clears.  While it is fresh, what *)
(* was loaded is what is stored.  Each manifest put raises manifest_version *)
(* by one under such a condition, so the version stands for the ETag where  *)
(* a ledger or a receipt keeps one.                                         *)
(***************************************************************************)
EXTENDS PublicationRecords

CONSTANTS
  Requests,            \* invocations that serve an HTTP request
  NoPublication,
  MaxManifestVersion   \* bound of the model: manifest writes

ASSUME SeparateInvocations == Requests \cap Cleaners = {}
ASSUME ManifestBound ==
  MaxManifestVersion \in Nat /\ 1..MaxManifestVersion \subseteq ManifestVersions

VARIABLES
  ledger,              \* publication-ledger/<publication>.json
  manifest,            \* the lecture's manifest
  object,              \* the object under the publication's own key
  request              \* the Worker invocations that are running

storeVars == <<ledger, manifest, object>>

LedgerStatus == {"absent", "receiving", "uploaded", "committed", "activating",
                 "active", "rolled_back", "cleanup_pending",
                 "cleanup_complete"}

Ledger ==
  [status         : LedgerStatus,
   generation     : 0..MaxGeneration,
   previousStatus : LedgerStatus,         \* cleanupPreviousStatus
   settled        : BOOLEAN,              \* ten minutes since cleanupStartedAt
   version        : Nat,                  \* manifestVersion and manifestEtag
   previousAccess : Nat,
   targetAccess   : Nat,
   prior          : SUBSET {VersionOf[p] : p \in Publications}]

NoLedger ==
  [status |-> "absent", generation |-> 0, previousStatus |-> "absent",
   settled |-> FALSE, version |-> 0, previousAccess |-> 0,
   targetAccess |-> 0, prior |-> {}]

\* "staged" is hidden and never retired, "retired" hidden with a delete_after.
Manifest ==
  [exists    : BOOLEAN,
   access    : Nat,
   version   : 0..MaxManifestVersion,
   documents : [Publications -> {"absent", "staged", "visible", "retired"}]]

\* What an invocation does next; every kind of invocation starts at "load".
Pcs == {"", "load", "claim", "open", "recover", "body", "stored", "record",
        "manifest", "prepare", "fence", "put", "ledger", "done", "quiesce",
        "sentinel", "rollback", "restore", "mark", "remove", "removing",
        "recheck", "tombstone", "close", "succeeded", "failed"}

Request ==
  [kind           : {"idle", "upload", "status", "commit", "activate",
                     "abort", "rollback", "cleanup"},
   pc             : Pcs,
   publication    : Publications \cup {NoPublication},
   generation     : 0..MaxGeneration,     \* claims.gen or workerGeneration
   operation      : Nat,                  \* the finalizer that waits for it
   previousAccess : Nat,                  \* claims.previous_av
   targetAccess   : Nat,                  \* claims.target_av
   databaseAccess : Nat,                  \* a cleanup job's pdf_access_version
   seen           : Ledger,               \* the ledger it loaded
   ledgerFresh    : BOOLEAN,
   manifestFresh  : BOOLEAN,
   version        : Nat,                  \* manifest version loaded or written
   prior          : SUBSET {VersionOf[p] : p \in Publications}]

Idle ==
  [kind |-> "idle", pc |-> "", publication |-> NoPublication,
   generation |-> 0, operation |-> 0, previousAccess |-> 0,
   targetAccess |-> 0, databaseAccess |-> 0, seen |-> NoLedger,
   ledgerFresh |-> FALSE, manifestFresh |-> FALSE, version |-> 0,
   prior |-> {}]

StoreInit ==
  /\ ledger = [p \in Publications |-> NoLedger]
  /\ manifest = [exists |-> FALSE, access |-> 0, version |-> 0,
                 documents |-> [p \in Publications |-> "absent"]]
  /\ object = [p \in Publications |-> "absent"]
  /\ request = [r \in Requests \cup Cleaners |-> Idle]

-----------------------------------------------------------------------------
(* The control of an invocation.                                            *)

At(r, kind, pc) == request[r].kind = kind /\ request[r].pc = pc

Become(r, new) ==
  /\ request' = [request EXCEPT ![r] = new]
  /\ UNCHANGED storeVars

Goto(r, pc) == Become(r, [request[r] EXCEPT !.pc = pc])

Finish(r) == Become(r, Idle)

\* The ledger of r's publication, of the generation its ticket was issued for.
LedgerOf(r) == ledger[request[r].publication]

LedgerBound(r) == LedgerOf(r).generation = request[r].generation

\* Read the ledger and remember its ETag.
LoadLedger(r, pc) ==
  Become(r, [request[r] EXCEPT !.pc = pc, !.ledgerFresh = TRUE,
                               !.seen = LedgerOf(r)])

\* Read the manifest and remember its ETag and the prior visible versions.
LoadManifest(r, pc, prior) ==
  Become(r, [request[r] EXCEPT !.pc = pc, !.manifestFresh = TRUE,
                               !.version = manifest.version,
                               !.prior = prior])

-----------------------------------------------------------------------------
(* Conditional puts.  The writer goes on as "new"; everybody else who holds  *)
(* the ETag that was replaced loses it.                                      *)

\* Mutant of LedgerPut: a put that is not conditional on the ETag.
LedgerPutBlind(r, p, value, new) ==
  /\ ledger' = [ledger EXCEPT ![p] = value]
  /\ request' = [request EXCEPT ![r] = new]
  /\ UNCHANGED <<manifest, object>>

LedgerPut(r, p, value, new) ==
  /\ ledger' = [ledger EXCEPT ![p] = value]
  /\ request' = [q \in DOMAIN request |->
       IF q = r THEN new
       ELSE IF request[q].publication = p
       THEN [request[q] EXCEPT !.ledgerFresh = FALSE]
       ELSE request[q]]
  /\ UNCHANGED <<manifest, object>>

ManifestPut(r, access, documents, new) ==
  /\ manifest.version < MaxManifestVersion
  /\ manifest' = [exists |-> TRUE, access |-> access,
                  version |-> manifest.version + 1, documents |-> documents]
  /\ request' = [q \in DOMAIN request |->
       IF q = r THEN new
       ELSE [request[q] EXCEPT !.manifestFresh = FALSE]]
  /\ UNCHANGED <<ledger, object>>

\* assertManifestMutationLedgerFence: read the ledger again and require the
\* ETag that was loaded, just before the manifest is written.
FenceHolds(r, allowed) ==
  /\ request[r].ledgerFresh
  /\ LedgerOf(r).status \in allowed

\* verifyStoredObject: a cleanup tombstone never passes for the PDF.
Verified(p) == object[p] = "pdf"

-----------------------------------------------------------------------------
(* Questions the handlers ask of the manifest they loaded.                  *)

SameDocument(p, q) == DocumentOf[p] = DocumentOf[q]

\* The same document version under another publication's object key.
HashCollision(p) ==
  \E q \in Publications \ {p} :
    /\ SameDocument(p, q) /\ VersionOf[q] = VersionOf[p]
    /\ manifest.documents[q] # "absent"

\* previousDocumentVersions: what is visible of the document besides p.
VisibleVersions(p) ==
  {VersionOf[q] : q \in {q \in Publications :
     /\ SameDocument(p, q) /\ VersionOf[q] # VersionOf[p]
     /\ manifest.documents[q] = "visible"}}

PriorEntries(p, versions) ==
  {q \in Publications : /\ SameDocument(p, q) /\ VersionOf[q] \in versions
                        /\ manifest.documents[q] # "absent"}

\* Every prior version is still listed once.
PriorListed(p, versions) ==
  \A v \in versions :
    \E q \in PriorEntries(p, versions) :
      VersionOf[q] = v /\ \A o \in PriorEntries(p, versions) :
                            VersionOf[o] = v => o = q

\* The previous deck of the document is exactly what is visible.
PriorShown(p, versions) ==
  /\ PriorListed(p, versions)
  /\ \A q \in PriorEntries(p, versions) : manifest.documents[q] = "visible"
  /\ \A q \in Publications :
       /\ SameDocument(p, q) /\ manifest.documents[q] = "visible"
       => VersionOf[q] \in versions

\* p alone is visible and the prior versions are hidden but listed.
PriorReplaced(p, versions) ==
  /\ manifest.documents[p] = "visible"
  /\ PriorListed(p, versions)
  /\ \A q \in Publications \ {p} :
       SameDocument(p, q) => manifest.documents[q] # "visible"

WithoutDocument(p) == [manifest.documents EXCEPT ![p] = "absent"]

\* Mutant of RestoredDocuments: the previous deck stays hidden.
RestoredWithoutPrior(p, versions) ==
  [q \in Publications |-> IF q = p THEN "absent" ELSE manifest.documents[q]]

RestoredDocuments(p, versions) ==
  [q \in Publications |->
     IF q = p THEN "absent"
     ELSE IF q \in PriorEntries(p, versions) THEN "visible"
     ELSE manifest.documents[q]]

ActivatedDocuments(p) ==
  [q \in Publications |->
     IF q = p THEN "visible"
     ELSE IF SameDocument(p, q) /\ manifest.documents[q] = "visible"
     THEN "retired"
     ELSE manifest.documents[q]]

=============================================================================
